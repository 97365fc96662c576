------------------------ MODULE SerialExecutorProofs ------------------------
(***************************************************************************)
(* Proofs about SerialExecutor, for every set of tasks.  Whatever          *)
(* implements the executor inherits what is proved here.                   *)
(***************************************************************************)
EXTENDS SerialExecutor, SequenceLemmas

\* A task waits in the line at most once.
LineDistinct == \A i, j \in 1..Len(line) : line[i] = line[j] => i = j

\* A task that runs no longer waits.  FutureAgrees is not inductive without the
\* two: a task that finished while it still waited would be ready and in the line.
ExecutorInv ==
    /\ ExecutorTypeOK
    /\ LineDistinct
    /\ active \cap Range(line) = {}
    /\ FutureAgrees

LEMMA ExecutorInvInit == ExecutorInit => ExecutorInv
BY EmptySeq, RangeEmpty
   DEF ExecutorInit, ExecutorInv, ExecutorTypeOK, LineDistinct, FutureAgrees

LEMMA ExecutorInvStep ==
    ExecutorInv /\ [ExecutorNext]_executor_vars => ExecutorInv'
<1> SUFFICES ASSUME ExecutorInv, [ExecutorNext]_executor_vars PROVE ExecutorInv'
  OBVIOUS
<1> USE DEF ExecutorInv, ExecutorTypeOK, FutureAgrees
<1>0. /\ line \in Seq(Tasks) /\ Len(line) \in Nat
      /\ Range(line) \in SUBSET Tasks
      /\ Range(line) = {line[i] : i \in 1..Len(line)}
  BY LenProperties, RangeOfSeq, RangeEquality
<1>1. CASE UNCHANGED executor_vars
  BY <1>1 DEF executor_vars, LineDistinct
<1>2. CASE Create
  BY <1>2 DEF Create, LineDistinct
<1>3. ASSUME NEW t \in Tasks, Submit(t) PROVE ExecutorInv'
  <2>1. t \notin Range(line) \cup active
    BY <1>3 DEF Submit
  <2>2. /\ line' \in Seq(Tasks) /\ Len(line') = Len(line) + 1
        /\ \A i \in 1..Len(line) : line'[i] = line[i]
        /\ line'[Len(line) + 1] = t
    BY <1>0, <1>3, AppendProperties DEF Submit
  <2>3. Range(line') = Range(line) \cup {t}
    BY <1>0, <1>3, RangeAppend DEF Submit
  <2>4. LineDistinct'
    <3> SUFFICES ASSUME NEW i \in 1..Len(line'), NEW j \in 1..Len(line'),
                        line'[i] = line'[j]
                 PROVE  i = j
      BY DEF LineDistinct
    <3>1. /\ i \in 1..Len(line) \/ i = Len(line) + 1
          /\ j \in 1..Len(line) \/ j = Len(line) + 1
      BY <1>0, <2>2
    <3>2. \A k \in 1..Len(line) : line[k] # t
      BY <1>0, <2>1
    <3> QED
      BY <2>2, <3>1, <3>2 DEF LineDistinct
  <2>5. /\ status' = status /\ active' = active /\ revoked' = revoked
        /\ outcome' = [outcome EXCEPT ![t] = "pending"]
    BY <1>3 DEF Submit
  <2> QED
    BY <2>1, <2>2, <2>3, <2>4, <2>5
<1>4. CASE Begin
  <2>1. /\ line # <<>> /\ active = {} /\ line' = Tail(line) /\ active' = {Head(line)}
        /\ UNCHANGED <<status, outcome, revoked>>
    BY <1>4 DEF Begin
  <2>2. /\ Head(line) \in Tasks /\ line' \in Seq(Tasks) /\ Len(line') = Len(line) - 1
        /\ \A i \in 1..Len(line') : line'[i] = line[i + 1]
        /\ Head(line) = line[1]
    BY <1>0, <2>1, HeadTailProperties
  <2>3. Range(line) = {Head(line)} \cup Range(line')
    BY <1>0, <2>1, RangeHeadTail
  <2>4. LineDistinct'
    BY <1>0, <2>2 DEF LineDistinct
  <2>5. Head(line) \notin Range(line')
    <3>1. Range(line') = {line'[i] : i \in 1..Len(line')}
      BY <2>2, RangeEquality DEF Range
    <3>2. ASSUME NEW i \in 1..Len(line') PROVE line'[i] # Head(line)
      <4>1. i + 1 \in 1..Len(line) /\ 1 \in 1..Len(line) /\ i + 1 # 1
        BY <1>0, <2>2
      <4>2. line[i + 1] # line[1]
        BY <4>1 DEF LineDistinct
      <4> QED
        BY <2>2, <4>2
    <3> QED
      BY <3>1, <3>2, Zenon
  <2> QED
    BY <2>1, <2>2, <2>3, <2>4, <2>5
<1>5. CASE Complete
  BY <1>0, <1>5 DEF Complete, LineDistinct
<1>6. ASSUME NEW k \in 1..(Len(line) + 1), Close(k) PROVE ExecutorInv'
  <2>1. Range(SubSeq(line, k, Len(line))) \subseteq Tasks
    <3>1. \A i \in k..Len(line) : line[i] \in Tasks
      BY <1>0, ElementOfSeq
    <3>2. SubSeq(line, k, Len(line)) \in Seq(Tasks)
      BY <1>0, <3>1, SubSeqProperties
    <3> QED
      BY <3>2, RangeOfSeq
  <2> QED
    BY <1>6, <2>1 DEF Close, LineDistinct
<1>7. CASE Retire
  <2>1. /\ active = {} /\ Range(line) \subseteq revoked
        /\ status' = "gone" /\ line' = <<>> /\ UNCHANGED <<active, revoked>>
        /\ outcome' = [t \in Tasks |-> IF t \in Range(line) THEN "broken" ELSE outcome[t]]
    BY <1>7 DEF Retire
  <2>2. line' \in Seq(Tasks) /\ Len(line') = 0 /\ Range(line') = {}
    BY <2>1, EmptySeq, RangeEmpty
  <2> QED
    BY <1>0, <2>1, <2>2 DEF LineDistinct
<1> QED
  BY <1>1, <1>2, <1>3, <1>4, <1>5, <1>6, <1>7 DEF ExecutorNext

\* A future never disagrees with where its task is, in every implementation of the
\* executor.
THEOREM FuturesAgree == ExecutorSpec => []FutureAgrees
<1>1. ExecutorInv => FutureAgrees
  BY DEF ExecutorInv
<1> QED
  BY <1>1, ExecutorInvInit, ExecutorInvStep, PTL DEF ExecutorSpec
=============================================================================
