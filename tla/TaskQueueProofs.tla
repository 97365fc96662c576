-------------------------- MODULE TaskQueueProofs --------------------------
(***************************************************************************)
(* Proofs about TaskQueue, for every set of tasks and of client threads.   *)
(***************************************************************************)
EXTENDS TaskQueue, SequenceLemmas

-----------------------------------------------------------------------------
(* Types.                                                                  *)

LEMMA TypeInit == Init => TypeOK
<1> SUFFICES ASSUME Init PROVE TypeOK
  OBVIOUS
<1> USE DEF Init
<1>1. <<>> \in Seq(Tasks)
  BY EmptySeq
<1>2. pc \in [Callers -> CallerState]
  BY DEF CallerState
<1>3. future \in [Tasks -> FutureState]
  BY DEF FutureState
<1>4. revived \in [{"call", "destructor"} -> SUBSET Tasks]
  OBVIOUS
<1> QED
  BY <1>1, <1>2, <1>3, <1>4 DEF TypeOK, WorkerState, State

LEMMA TypeStep == TypeOK /\ [Next]_vars => TypeOK'
<1> SUFFICES ASSUME TypeOK, [Next]_vars PROVE TypeOK'
  OBVIOUS
<1> USE DEF TypeOK, CallerState, WorkerState, FutureState, State, worker_vars, history_vars
<1>1. CASE UNCHANGED vars
  BY <1>1 DEF vars
<1>2. ASSUME NEW t \in Tasks, Enqueue(t), UNCHANGED pc \/ \E c \in Callers : Post(c, t)
      PROVE  TypeOK'
  <2>1. m_runnables' \in Seq(Tasks) /\ posted' \in Seq(Tasks)
    BY <1>2, AppendProperties DEF Enqueue
  <2>2. pc' \in [Callers -> CallerState]
    BY <1>2 DEF Post
  <2> QED
    BY <1>2, <2>1, <2>2 DEF Enqueue
<1>3. ASSUME NEW action, NEW by \in {"call", "destructor"}, SetStop(action, by),
             pc' \in [Callers -> CallerState], destroying' \in BOOLEAN
      PROVE  TypeOK'
  <2>1. Range(m_runnables) \in SUBSET Tasks
    BY RangeOfSeq
  <2> QED
    BY <1>3, <2>1 DEF SetStop
<1>4. ASSUME NEW c \in Callers, CallerStep(c) PROVE TypeOK'
  <2>1. CASE \E t \in Tasks : Post(c, t)
    BY <1>2, <2>1 DEF Post
  <2>2. CASE \E action \in {"run", "cancel"} : Stop(c, action)
    BY <1>3, <2>2 DEF Stop
  <2>3. CASE StopAndWait(c)
    BY <1>3, <2>3 DEF StopAndWait
  <2>4. CASE Notify(c)
    BY <2>4 DEF Notify, WillNotify
  <2>5. CASE JoinBlock(c)
    BY <2>5 DEF JoinBlock
  <2>6. CASE JoinSkip(c)
    BY <2>6 DEF JoinSkip, Return
  <2>7. CASE JoinDone(c)
    BY <2>7 DEF JoinDone, Return
  <2> QED
    BY <1>4, <2>1, <2>2, <2>3, <2>4, <2>5, <2>6, <2>7 DEF CallerStep
<1>5. CASE OwnerStep
  <2>1. CASE ConstructThread
    BY <2>1 DEF ConstructThread
  <2>2. CASE ConstructFails
    BY <2>2 DEF ConstructFails
  <2>3. CASE ConstructRunning
    BY <2>3 DEF ConstructRunning
  <2>4. CASE Destroy
    BY <1>3, <2>4 DEF Destroy
  <2>5. CASE Destruct
    BY <2>5, EmptySeq DEF Destruct
  <2> QED
    BY <1>5, <2>1, <2>2, <2>3, <2>4, <2>5 DEF OwnerStep
<1>6. CASE TaskStep
  <2>1. CASE \E t \in Tasks : PostFromTask(t)
    BY <1>2, <2>1 DEF PostFromTask
  <2>2. CASE \E action \in {"run", "cancel"} : StopFromTask(action)
    BY <1>3, <2>2 DEF StopFromTask
  <2> QED
    BY <1>6, <2>1, <2>2 DEF TaskStep
<1>7. CASE WorkerStep
  <2>1. CASE WorkerWait
    BY <2>1 DEF WorkerWait
  <2>2. CASE WorkerSpuriousWake
    BY <2>2 DEF WorkerSpuriousWake
  <2>3. CASE WorkerExit
    BY <2>3 DEF WorkerExit
  <2>4. CASE WorkerTake
    BY <2>4, EmptySeq DEF WorkerTake
  <2>5. CASE StartTask
    <3>1. Head(tasks) \in Tasks /\ Tail(tasks) \in Seq(Tasks)
      BY <2>5, HeadTailProperties DEF StartTask
    <3>2. Append(ran, Head(tasks)) \in Seq(Tasks)
      BY <3>1, AppendProperties
    <3> QED
      BY <2>5, <3>1, <3>2 DEF StartTask
  <2>6. CASE FinishTask
    BY <2>6 DEF FinishTask
  <2>7. CASE BatchDone
    BY <2>7 DEF BatchDone
  <2> QED
    BY <1>7, <2>1, <2>2, <2>3, <2>4, <2>5, <2>6, <2>7 DEF WorkerStep
<1> QED
  BY <1>1, <1>4, <1>5, <1>6, <1>7 DEF Next, Terminated

\* Every variable keeps its type, for any tasks and any number of threads.
THEOREM TypeCorrect == Spec => []TypeOK
BY TypeInit, TypeStep, PTL DEF Spec

-----------------------------------------------------------------------------
(* The life of the object and of its thread.                               *)

\* Nobody is inside a call before the constructor returns or once the destructor
\* has begun.
CallsNested ==
    /\ \A c \in Clients : pc[c] \in {"idle", "notify", "notify_join", "join", "joining"}
    /\ destroying => /\ \A c \in Clients : pc[c] = "idle"
                     /\ pc[Owner] \in {"notify_join", "join", "joining", "destruct", "dead"}
    /\ pc[Owner] = "destruct" => destroying

\* There is nothing to do before the constructor returns, or when it has thrown.
NothingYet ==
    pc[Owner] \in {"construct", "constructing"} \/ (pc[Owner] = "dead" /\ ~destroying) =>
        /\ ~destroying
        /\ \A c \in Clients : pc[c] = "idle"
        /\ m_state = "stopped"
        /\ m_runnables = <<>>
        /\ worker \in {"none", "ready", "waiting"}

\* Where the worker is, what it holds, and what m_thread says of it.
ThreadLife ==
    /\ worker = "none" <=> pc[Owner] = "construct" \/ (pc[Owner] = "dead" /\ ~destroying)
    /\ ~joinable => worker \in {"none", "exited"}
    /\ worker \notin {"draining", "busy"} => tasks = <<>>
    /\ worker = "busy" => ran # <<>>
    /\ worker = "exited" => StopPending
    /\ pc[Owner] = "destruct" \/ (pc[Owner] = "dead" /\ destroying)
           => ~joinable /\ worker = "exited"

Life == CallsNested /\ NothingYet /\ ThreadLife

LEMMA LifeInit == Init => Life
BY OwnerAssumption DEF Init, Life, CallsNested, NothingYet, ThreadLife, Callers

LEMMA LifeStep == TypeOK /\ Life /\ [Next]_vars => Life'
<1> SUFFICES ASSUME TypeOK, Life, [Next]_vars PROVE Life'
  OBVIOUS
<1> USE OwnerAssumption DEF Callers, Life, worker_vars, history_vars
<1> USE DEF CallsNested, NothingYet, ThreadLife, StopPending
<1>0. pc \in [Callers -> CallerState] /\ m_state \in State /\ worker \in WorkerState
  BY DEF TypeOK
<1>1. CASE UNCHANGED vars
  BY <1>1 DEF vars
<1>2. ASSUME NEW c \in Callers, CallerStep(c) PROVE Life'
  <2>1. CASE \E t \in Tasks : Post(c, t)
    BY <1>0, <2>1 DEF Post, Enqueue, Usable
  <2>2. CASE \E action \in {"run", "cancel"} : Stop(c, action)
    BY <1>0, <2>2 DEF Stop, SetStop, Usable
  <2>3. CASE StopAndWait(c)
    BY <1>0, <2>3 DEF StopAndWait, SetStop, Usable
  <2>4. CASE Notify(c)
    BY <1>0, <2>4 DEF Notify, WillNotify
  <2>5. CASE JoinBlock(c)
    BY <1>0, <2>5 DEF JoinBlock
  <2>6. CASE JoinSkip(c)
    BY <1>0, <2>6 DEF JoinSkip, Return
  <2>7. CASE JoinDone(c)
    BY <1>0, <2>7 DEF JoinDone, Return
  <2> QED
    BY <1>2, <2>1, <2>2, <2>3, <2>4, <2>5, <2>6, <2>7 DEF CallerStep
<1>3. CASE OwnerStep
  <2>1. CASE ConstructThread
    BY <1>0, <2>1 DEF ConstructThread
  <2>2. CASE ConstructFails
    BY <1>0, <2>2 DEF ConstructFails
  <2>3. CASE ConstructRunning
    BY <1>0, <2>3 DEF ConstructRunning
  <2>4. CASE Destroy
    BY <1>0, <2>4 DEF Destroy, SetStop, Usable
  <2>5. CASE Destruct
    BY <1>0, <2>5 DEF Destruct
  <2> QED
    BY <1>3, <2>1, <2>2, <2>3, <2>4, <2>5 DEF OwnerStep
<1>4. CASE TaskStep
  <2>1. CASE \E t \in Tasks : PostFromTask(t)
    BY <1>0, <2>1 DEF PostFromTask, Enqueue
  <2>2. CASE \E action \in {"run", "cancel"} : StopFromTask(action)
    BY <1>0, <2>2 DEF StopFromTask, SetStop
  <2> QED
    BY <1>4, <2>1, <2>2 DEF TaskStep
<1>5. CASE WorkerStep
  <2>1. CASE WorkerWait
    BY <1>0, <2>1 DEF WorkerWait
  <2>2. CASE WorkerSpuriousWake
    BY <1>0, <2>2 DEF WorkerSpuriousWake
  <2>3. CASE WorkerExit
    BY <1>0, <2>3 DEF WorkerExit, ShouldExit
  <2>4. CASE WorkerTake
    BY <1>0, <2>4 DEF WorkerTake
  <2>5. CASE StartTask
    <3>1. Head(tasks) \in Tasks /\ ran \in Seq(Tasks)
      BY <2>5, HeadTailProperties DEF StartTask, TypeOK
    <3>2. ran' # <<>>
      BY <2>5, <3>1, AppendProperties DEF StartTask
    <3> QED
      BY <1>0, <2>5, <3>2 DEF StartTask
  <2>6. CASE FinishTask
    BY <1>0, <2>6 DEF FinishTask
  <2>7. CASE BatchDone
    BY <1>0, <2>7 DEF BatchDone
  <2> QED
    BY <1>5, <2>1, <2>2, <2>3, <2>4, <2>5, <2>6, <2>7 DEF WorkerStep
<1> QED
  BY <1>1, <1>2, <1>3, <1>4, <1>5 DEF Next, Terminated

LEMMA LifeInvariant == Spec => [](TypeOK /\ Life)
BY TypeInit, TypeStep, LifeInit, LifeStep, PTL DEF Spec

\* Destruction is safe: when the members go, the thread has been joined, so no
\* std::terminate and no use of a dead mutex, and it stays so.
THEOREM DestructionSafe == Spec => []SafeDestruction
<1>1. TypeOK /\ Life => SafeDestruction
  BY DEF Life, CallsNested, ThreadLife, SafeDestruction
<1> QED
  BY <1>1, LifeInvariant, PTL

\* stop_and_wait_for_task_completion, when no other thread is in join(), returns
\* only once the worker has left.
THEOREM WaitCorrect == Spec => WaitReturnsAfterExit
<1>1. TypeOK /\ Life /\ [Next]_vars =>
        [\A c \in Callers :
            /\ pc[c] \in {"join", "joining"}
            /\ pc'[c] \in {"idle", "destruct"}
            /\ \A d \in Callers \ {c} : pc[d] # "joining"
            => worker = "exited"]_vars
  <2> SUFFICES ASSUME TypeOK, Life, Next,
                      NEW c \in Callers,
                      pc[c] \in {"join", "joining"},
                      pc'[c] \in {"idle", "destruct"},
                      \A d \in Callers \ {c} : pc[d] # "joining"
               PROVE  worker = "exited"
    BY DEF vars
  <2> USE DEF Callers
  <2>0. pc \in [Callers -> CallerState]
    BY DEF TypeOK
  <2>1. pc'[c] # pc[c]
    OBVIOUS
  <2>2. ASSUME NEW d \in Callers, CallerStep(d) PROVE JoinSkip(c) \/ JoinDone(c)
    <3>1. JoinSkip(d) \/ JoinDone(d)
      BY <2>0, <2>1, <2>2 DEF CallerStep, Post, Stop, StopAndWait, Notify, WillNotify, JoinBlock
    <3>2. d = c
      BY <2>0, <2>1, <3>1 DEF JoinSkip, JoinDone, Return
    <3> QED
      BY <3>1, <3>2
  <2>3. CASE JoinSkip(c)
    <3>1. ~joinable
      BY <2>3 DEF JoinSkip
    <3>2. worker # "none"
      BY OwnerAssumption DEF Life, CallsNested, NothingYet, ThreadLife
    <3> QED
      BY <3>1, <3>2 DEF Life, ThreadLife
  <2>4. CASE JoinDone(c)
    BY <2>4 DEF JoinDone
  <2>5. ~OwnerStep
    BY <2>0, <2>1 DEF OwnerStep, ConstructThread, ConstructFails, ConstructRunning, Destroy,
                      Destruct
  <2>6. ~TaskStep /\ ~WorkerStep /\ ~Terminated
    BY <2>1 DEF TaskStep, PostFromTask, StopFromTask, WorkerStep, WorkerWait,
                WorkerSpuriousWake, WorkerExit, WorkerTake, StartTask, FinishTask, BatchDone,
                Terminated, vars
  <2> QED
    BY <2>2, <2>3, <2>4, <2>5, <2>6 DEF Next
<1> QED
  BY <1>1, LifeInvariant, PTL DEF Spec, WaitReturnsAfterExit

-----------------------------------------------------------------------------
(* No lost wake-up.                                                        *)

LEMMA NoLostWakeupStep == TypeOK /\ Life /\ NoLostWakeup /\ [Next]_vars => NoLostWakeup'
<1> SUFFICES ASSUME TypeOK, Life, NoLostWakeup, [Next]_vars PROVE NoLostWakeup'
  OBVIOUS
<1> USE DEF worker_vars, history_vars, NoLostWakeup, WillNotify, ShouldExit
<1>0. pc \in [Callers -> CallerState] /\ m_state \in State /\ worker \in WorkerState
  BY DEF TypeOK
\* A caller that still has to notify keeps having to, whoever else acts.
<1>1. CASE UNCHANGED vars
  BY <1>1 DEF vars
<1>2. ASSUME NEW c \in Callers, CallerStep(c) PROVE NoLostWakeup'
  \* The queue was empty, and c will notify; or it was not, and somebody else will.
  <2>1. ASSUME NEW t \in Tasks, Post(c, t) PROVE NoLostWakeup'
    <3>1. m_state' = m_state /\ worker' = worker /\ ~StopPending
      BY <2>1 DEF Post, Enqueue
    <3>2. CASE m_runnables = <<>>
      BY <1>0, <2>1, <3>2 DEF Post
    <3>3. CASE m_runnables # <<>>
      BY <1>0, <2>1, <3>1, <3>3 DEF Post
    <3> QED
      BY <3>2, <3>3
  <2>2. CASE \E action \in {"run", "cancel"} : Stop(c, action)
    BY <1>0, <2>2 DEF Stop
  <2>3. CASE StopAndWait(c)
    BY <1>0, <2>3 DEF StopAndWait
  <2>4. CASE Notify(c)
    BY <1>0, <2>4 DEF Notify
  <2>5. CASE JoinBlock(c)
    BY <1>0, <2>5 DEF JoinBlock
  <2>6. CASE JoinSkip(c)
    BY <1>0, <2>6 DEF JoinSkip, Return
  <2>7. CASE JoinDone(c)
    BY <1>0, <2>7 DEF JoinDone, Return
  <2> QED
    BY <1>2, <2>1, <2>2, <2>3, <2>4, <2>5, <2>6, <2>7 DEF CallerStep
<1>3. CASE OwnerStep
  <2> USE OwnerAssumption DEF Life, NothingYet, CallsNested, ThreadLife, Callers
  <2>1. CASE ConstructThread
    BY <1>0, <2>1 DEF ConstructThread
  <2>2. CASE ConstructFails
    BY <1>0, <2>2 DEF ConstructFails
  <2>3. CASE ConstructRunning
    BY <1>0, <2>3 DEF ConstructRunning
  <2>4. CASE Destroy
    BY <1>0, <2>4 DEF Destroy
  <2>5. CASE Destruct
    BY <1>0, <2>5 DEF Destruct
  <2> QED
    BY <1>3, <2>1, <2>2, <2>3, <2>4, <2>5 DEF OwnerStep
<1>4. CASE TaskStep
  BY <1>4 DEF TaskStep, PostFromTask, StopFromTask, Enqueue, SetStop
<1>5. CASE WorkerStep
  BY <1>0, <1>5 DEF WorkerStep, WorkerWait, WorkerSpuriousWake, WorkerExit, WorkerTake,
                    StartTask, FinishTask, BatchDone
<1> QED
  BY <1>1, <1>2, <1>3, <1>4, <1>5 DEF Next, Terminated

\* A worker asleep with something to do always has a notification coming, although
\* posting to a queue that is not empty sends none.
THEOREM NeverLosesWakeup == Spec => []NoLostWakeup
<1>1. Init => NoLostWakeup
  BY DEF Init, NoLostWakeup
<1> QED
  BY <1>1, LifeInvariant, NoLostWakeupStep, PTL DEF Spec

-----------------------------------------------------------------------------
(* Order.                                                                  *)

LEMMA SerialOrderStep == TypeOK /\ Life /\ SerialOrder /\ [Next]_vars => SerialOrder'
<1> SUFFICES ASSUME TypeOK, Life, SerialOrder, [Next]_vars PROVE SerialOrder'
  OBVIOUS
<1> USE DEF worker_vars, history_vars
<1>0. /\ pc \in [Callers -> CallerState] /\ worker \in WorkerState
      /\ m_runnables \in Seq(Tasks) /\ tasks \in Seq(Tasks)
      /\ ran \in Seq(Tasks) /\ posted \in Seq(Tasks)
  BY DEF TypeOK
<1>1. ASSUME UNCHANGED <<posted, ran, tasks, m_runnables>>,
             pc'[Owner] = "dead" <=> pc[Owner] = "dead"
      PROVE  SerialOrder'
  BY <1>1 DEF SerialOrder
\* A dead queue takes no task: its worker has left, or never was.
<1>2. ASSUME pc[Owner] = "dead" PROVE worker \in {"none", "exited"}
  BY <1>2 DEF Life, ThreadLife
<1>3. ASSUME NEW t \in Tasks, Enqueue(t), pc[Owner] # "dead", pc'[Owner] # "dead"
      PROVE  SerialOrder'
  <2>1. posted = (ran \o tasks) \o m_runnables
    BY <1>3 DEF SerialOrder
  <2>2. /\ Append(m_runnables, t) = m_runnables \o <<t>>
        /\ Append(posted, t) = posted \o <<t>>
    BY <1>0, AppendIsConcat
  <2>3. ran \o tasks \in Seq(Tasks) /\ <<t>> \in Seq(Tasks)
    BY <1>0, ConcatProperties
  <2>4. posted \o <<t>> = (ran \o tasks) \o (m_runnables \o <<t>>)
    <3> DEFINE taken == ran \o tasks
               one == <<t>>
    <3>1. taken \in Seq(Tasks) /\ one \in Seq(Tasks)
      BY <2>3
    <3> HIDE DEF taken, one
    <3>2. (taken \o m_runnables) \o one = taken \o (m_runnables \o one)
      <4>1. taken \in Seq(Tasks) /\ m_runnables \in Seq(Tasks) /\ one \in Seq(Tasks)
        BY <1>0, <3>1
      <4> QED
        BY <4>1, ConcatRegroups
    <3>3. posted = taken \o m_runnables
      BY <2>1 DEF taken
    <3>4. posted \o one = taken \o (m_runnables \o one)
      BY <3>2, <3>3
    <3> QED
      BY <3>4, Zenon DEF taken, one
  <2> QED
    BY <1>3, <2>2, <2>4 DEF Enqueue, SerialOrder
<1>4. ASSUME NEW c \in Callers, CallerStep(c) PROVE SerialOrder'
  <2>1. CASE \E t \in Tasks : Post(c, t)
    BY <1>0, <1>3, <2>1 DEF Post, Usable
  <2>2. CASE \E action \in {"run", "cancel"} : Stop(c, action)
    BY <1>0, <1>1, <2>2 DEF Stop, SetStop
  <2>3. CASE StopAndWait(c)
    BY <1>0, <1>1, <2>3 DEF StopAndWait, SetStop
  <2>4. CASE Notify(c)
    BY <1>0, <1>1, <2>4 DEF Notify, WillNotify
  <2>5. CASE JoinBlock(c)
    BY <1>0, <1>1, <2>5 DEF JoinBlock
  <2>6. CASE JoinSkip(c)
    BY <1>0, <1>1, <2>6 DEF JoinSkip, Return
  <2>7. CASE JoinDone(c)
    BY <1>0, <1>1, <2>7 DEF JoinDone, Return
  <2> QED
    BY <1>4, <2>1, <2>2, <2>3, <2>4, <2>5, <2>6, <2>7 DEF CallerStep
<1>5. CASE OwnerStep
  <2> USE DEF Callers
  <2>1. CASE ConstructThread
    BY <1>0, <1>1, <2>1 DEF ConstructThread
  \* The constructor throws: nothing was posted.
  <2>2. CASE ConstructFails
    <3>1. m_runnables = <<>> /\ tasks = <<>>
      BY <2>2 DEF ConstructFails, Life, NothingYet, ThreadLife
    <3>2. posted = ran
      BY <1>0, <2>2, <3>1, ConcatEmptySeq DEF ConstructFails, SerialOrder
    <3>3. Len(posted) - Len(ran) = 0
      BY <1>0, <3>2, LenProperties
    <3>4. <<>> \in [1..(Len(posted) - Len(ran)) -> Tasks]
      BY <3>3, EmptySeq, LenProperties
    <3>5. posted = ran \o <<>>
      BY <1>0, <3>2, ConcatEmptySeq
    <3> QED
      BY <1>0, <2>2, <3>4, <3>5 DEF ConstructFails, SerialOrder
  <2>3. CASE ConstructRunning
    BY <1>0, <1>1, <2>3 DEF ConstructRunning
  <2>4. CASE Destroy
    BY <1>0, <1>1, <2>4 DEF Destroy, SetStop
  \* The tail of posted that is dropped is what m_runnables held.
  <2>5. CASE Destruct
    <3>1. worker = "exited"
      BY <2>5 DEF Destruct, Life, ThreadLife
    <3>2. tasks = <<>>
      BY <3>1 DEF Life, ThreadLife
    <3>3. posted = ran \o m_runnables
      BY <1>0, <2>5, <3>2, ConcatEmptySeq DEF Destruct, SerialOrder
    <3>4. Len(posted) = Len(ran) + Len(m_runnables) /\ Len(ran) \in Nat
      BY <1>0, <3>3, ConcatProperties, LenProperties
    <3>5. Len(posted) - Len(ran) = Len(m_runnables)
      BY <1>0, <3>4, LenProperties
    <3>6. m_runnables \in [1..(Len(posted) - Len(ran)) -> Tasks]
      BY <1>0, <3>5, LenProperties
    <3> QED
      BY <1>0, <2>5, <3>3, <3>6 DEF Destruct, SerialOrder
  <2> QED
    BY <1>5, <2>1, <2>2, <2>3, <2>4, <2>5 DEF OwnerStep
<1>6. CASE TaskStep
  <2>1. CASE \E t \in Tasks : PostFromTask(t)
    BY <1>2, <1>3, <2>1 DEF PostFromTask
  <2>2. CASE \E action \in {"run", "cancel"} : StopFromTask(action)
    BY <1>1, <2>2 DEF StopFromTask, SetStop
  <2> QED
    BY <1>6, <2>1, <2>2 DEF TaskStep
<1>7. CASE WorkerStep
  <2>1. CASE WorkerWait \/ WorkerSpuriousWake \/ WorkerExit \/ FinishTask \/ BatchDone
    BY <1>1, <2>1 DEF WorkerWait, WorkerSpuriousWake, WorkerExit, FinishTask, BatchDone
  <2>2. CASE WorkerTake
    <3>1. tasks = <<>> /\ pc[Owner] # "dead"
      BY <1>2, <2>2 DEF WorkerTake, Life, ThreadLife
    <3>2. (ran \o tasks) \o m_runnables = (ran \o m_runnables) \o <<>>
      BY <1>0, <3>1, ConcatEmptySeq, ConcatProperties
    <3> QED
      BY <2>2, <3>1, <3>2 DEF WorkerTake, SerialOrder
  <2>3. CASE StartTask
    <3>1. pc[Owner] # "dead"
      BY <1>2, <2>3 DEF StartTask
    <3>2. /\ tasks = <<Head(tasks)>> \o Tail(tasks)
          /\ Head(tasks) \in Tasks /\ Tail(tasks) \in Seq(Tasks)
      BY <1>0, <2>3, HeadTailProperties DEF StartTask
    <3>3. <<Head(tasks)>> \in Seq(Tasks)
      BY <3>2
    <3>4. Append(ran, Head(tasks)) = ran \o <<Head(tasks)>>
      BY <1>0, <3>2, AppendIsConcat
    <3>5. ran \o tasks = (ran \o <<Head(tasks)>>) \o Tail(tasks)
      <4> DEFINE first == <<Head(tasks)>>
                 rest == Tail(tasks)
      <4>1. first \in Seq(Tasks) /\ rest \in Seq(Tasks) /\ tasks = first \o rest
        BY <3>2, <3>3
      <4> HIDE DEF first, rest
      <4>2. (ran \o first) \o rest = ran \o (first \o rest)
        <5>1. ran \in Seq(Tasks) /\ first \in Seq(Tasks) /\ rest \in Seq(Tasks)
          BY <1>0, <4>1
        <5> QED
          BY <5>1, ConcatRegroups
      <4>3. ran \o tasks = (ran \o first) \o rest
        BY <4>1, <4>2
      <4> QED
        BY <4>3, Zenon DEF first, rest
    <3> QED
      BY <2>3, <3>1, <3>4, <3>5 DEF StartTask, SerialOrder
  <2> QED
    BY <1>7, <2>1, <2>2, <2>3 DEF WorkerStep
<1> QED
  BY <1>1, <1>4, <1>5, <1>6, <1>7 DEF Next, Terminated, vars

\* What was posted is what ran, then what was taken, then what is queued: no task is
\* lost, doubled or overtaken, with any number of posters and any stop.
THEOREM OrderKept == Spec => []SerialOrder
<1>1. Init => SerialOrder
  <2> SUFFICES ASSUME Init PROVE SerialOrder
    OBVIOUS
  <2>1. (ran \o tasks) \o m_runnables = <<>>
    BY EmptySeq, ConcatEmptySeq DEF Init
  <2> QED
    BY <2>1 DEF Init, SerialOrder, Callers
<1> QED
  BY <1>1, LifeInvariant, SerialOrderStep, PTL DEF Spec

-----------------------------------------------------------------------------
(* Cancellation.                                                           *)

Revived == revived["call"] \cup revived["destructor"]

\* A task is in at most one place, and is known to its future everywhere.
Places ==
    /\ Range(m_runnables) \cap (Range(ran) \cup Range(tasks)) = {}
    /\ \A t \in Range(m_runnables) \cup Range(ran) \cup Range(tasks) \cup canceled :
           future[t] # "none"

\* While a cancel holds, all that is queued is canceled and nothing leaves; when it
\* does not, what is queued and canceled has been taken back.
Canceling ==
    /\ m_state = "canceling" => Range(m_runnables) \subseteq canceled
    /\ m_state # "canceling" => canceled \cap Range(m_runnables) \subseteq Revived
    /\ CancelHolds
    /\ OnlyCanceledDropped

CancelInv == Places /\ Canceling

LEMMA CancelInit == Init => CancelInv
BY RangeEmpty DEF Init, CancelInv, Places, Canceling, CancelHolds, OnlyCanceledDropped

LEMMA CancelStep == TypeOK /\ Life /\ CancelInv /\ [Next]_vars => CancelInv'
<1> SUFFICES ASSUME TypeOK, Life, CancelInv, [Next]_vars PROVE CancelInv'
  OBVIOUS
<1> USE DEF worker_vars, history_vars, CancelInv, Places, Canceling, CancelHolds,
            OnlyCanceledDropped, Revived
<1>0. /\ m_runnables \in Seq(Tasks) /\ tasks \in Seq(Tasks) /\ ran \in Seq(Tasks)
      /\ future \in [Tasks -> FutureState] /\ canceled \in SUBSET Tasks
      /\ revived \in [{"call", "destructor"} -> SUBSET Tasks]
      /\ m_state \in State
      /\ Range(m_runnables) \in SUBSET Tasks /\ Range(tasks) \in SUBSET Tasks
      /\ Range(ran) \in SUBSET Tasks
  BY RangeOfSeq DEF TypeOK
<1>1. ASSUME UNCHANGED <<m_state, m_runnables, tasks, ran, future, canceled, revived>>,
             worker' = "exited" => worker = "exited"
      PROVE  CancelInv'
  BY <1>1
<1>2. ASSUME NEW t \in Tasks, Enqueue(t) PROVE CancelInv'
  <2>1. Range(m_runnables') = Range(m_runnables) \cup {t}
    BY <1>0, <1>2, RangeAppend DEF Enqueue
  <2>2. t \notin Range(m_runnables) \cup Range(ran) \cup Range(tasks) \cup canceled
    BY <1>2 DEF Enqueue
  <2>3. future' = [future EXCEPT ![t] = "pending"] /\ UNCHANGED <<m_state, worker_vars, history_vars>>
    BY <1>2 DEF Enqueue
  <2>4. m_state # "canceling" /\ worker # "exited"
    BY <1>2 DEF Enqueue, StopPending, Life, ThreadLife
  <2>5. Places'
    BY <1>0, <2>1, <2>2, <2>3
  <2>6. Canceling'
    BY <1>0, <2>1, <2>2, <2>3, <2>4
  <2> QED
    BY <2>5, <2>6
<1>3. ASSUME NEW action \in {"run", "cancel"}, NEW by \in {"call", "destructor"},
             SetStop(action, by)
      PROVE  CancelInv'
  <2>1. UNCHANGED <<m_runnables, tasks, ran, future, worker>>
    BY <1>3 DEF SetStop
  <2>2. CASE action = "cancel"
    <3>1. /\ m_state' = "canceling" /\ revived' = revived
          /\ canceled' = canceled \cup Range(m_runnables)
      BY <1>3, <2>2 DEF SetStop
    <3> QED
      BY <1>0, <2>1, <3>1
  <2>3. CASE action = "run"
    <3>1. /\ m_state' = "stopping" /\ canceled' = canceled
          /\ revived' = [revived EXCEPT ![by] = @ \cup (canceled \cap Range(m_runnables))]
      BY <1>3, <2>3 DEF SetStop
    <3>2. Revived' = Revived \cup (canceled \cap Range(m_runnables))
      BY <1>0, <3>1
    <3> QED
      BY <1>0, <2>1, <3>1, <3>2
  <2> QED
    BY <2>2, <2>3
<1>4. ASSUME NEW c \in Callers, CallerStep(c) PROVE CancelInv'
  <2>1. CASE \E t \in Tasks : Post(c, t)
    BY <1>2, <2>1 DEF Post
  <2>2. CASE \E action \in {"run", "cancel"} : Stop(c, action)
    BY <1>3, <2>2 DEF Stop
  <2>3. CASE StopAndWait(c)
    BY <1>3, <2>3 DEF StopAndWait
  <2>4. CASE Notify(c)
    BY <1>1, <2>4 DEF Notify
  <2>5. CASE JoinBlock(c)
    BY <1>1, <2>5 DEF JoinBlock
  <2>6. CASE JoinSkip(c)
    BY <1>1, <2>6 DEF JoinSkip
  <2>7. CASE JoinDone(c)
    BY <1>1, <2>7 DEF JoinDone
  <2> QED
    BY <1>4, <2>1, <2>2, <2>3, <2>4, <2>5, <2>6, <2>7 DEF CallerStep
<1>5. CASE OwnerStep
  <2>1. CASE ConstructThread \/ ConstructFails
    BY <1>1, <2>1 DEF ConstructThread, ConstructFails
  <2>2. CASE ConstructRunning
    <3>1. m_runnables = <<>> /\ worker # "exited"
      BY <2>2 DEF ConstructRunning, Life, NothingYet
    <3> QED
      BY <2>2, <3>1, RangeEmpty DEF ConstructRunning
  <2>3. CASE Destroy
    BY <1>3, <2>3 DEF Destroy
  <2>4. CASE Destruct
    <3>1. worker = "exited"
      BY <2>4 DEF Destruct, Life, ThreadLife
    <3>2. Range(m_runnables) \subseteq canceled
      BY <3>1
    <3>3. /\ m_runnables' = <<>> /\ Range(m_runnables') = {}
          /\ UNCHANGED <<m_state, worker_vars, history_vars>>
          /\ future' = [t \in Tasks |-> IF t \in Range(m_runnables) THEN "broken"
                                        ELSE future[t]]
      BY <2>4, RangeEmpty DEF Destruct
    <3>4. Places'
      BY <1>0, <3>3
    <3>5. Canceling'
      BY <1>0, <3>2, <3>3
    <3> QED
      BY <3>4, <3>5
  <2> QED
    BY <1>5, <2>1, <2>2, <2>3, <2>4 DEF OwnerStep
<1>6. CASE TaskStep
  BY <1>2, <1>3, <1>6 DEF TaskStep, PostFromTask, StopFromTask
<1>7. CASE WorkerStep
  <2>1. CASE WorkerWait \/ WorkerSpuriousWake \/ BatchDone
    BY <1>1, <2>1 DEF WorkerWait, WorkerSpuriousWake, BatchDone
  \* Drained, or canceled.
  <2>2. CASE WorkerExit
    <3>1. m_runnables = <<>> \/ m_state = "canceling"
      BY <2>2 DEF WorkerExit, ShouldExit
    <3>2. Range(m_runnables) \subseteq canceled
      BY <3>1, RangeEmpty
    <3> QED
      BY <2>2, <3>2 DEF WorkerExit
  <2>3. CASE WorkerTake
    <3>1. m_state # "canceling" /\ tasks = <<>>
      BY <2>3 DEF WorkerTake, ShouldExit, Life, ThreadLife
    <3>2. /\ Range(m_runnables') = {} /\ Range(tasks') = Range(m_runnables)
          /\ worker' # "exited"
          /\ UNCHANGED <<m_state, ran, future, canceled, revived>>
      BY <2>3, RangeEmpty DEF WorkerTake
    <3> QED
      BY <1>0, <3>1, <3>2
  <2>4. CASE StartTask
    <3>1. Range(tasks) = {Head(tasks)} \cup Range(Tail(tasks)) /\ Head(tasks) \in Tasks
      BY <1>0, <2>4, RangeHeadTail, HeadTailProperties DEF StartTask
    <3>2. Range(ran') = Range(ran) \cup {Head(tasks)} /\ Range(tasks') = Range(Tail(tasks))
      BY <1>0, <2>4, <3>1, RangeAppend DEF StartTask
    <3>3. Range(ran') \cup Range(tasks') = Range(ran) \cup Range(tasks)
      BY <3>1, <3>2
    <3>4. worker' # "exited" /\ UNCHANGED <<m_state, m_runnables, future, canceled, revived>>
      BY <2>4 DEF StartTask
    <3>5. Places'
      BY <3>3, <3>4
    <3>6. Canceling'
      BY <3>3, <3>4
    <3> QED
      BY <3>5, <3>6
  <2>5. CASE FinishTask
    BY <1>0, <2>5 DEF FinishTask
  <2> QED
    BY <1>7, <2>1, <2>2, <2>3, <2>4, <2>5 DEF WorkerStep
<1> QED
  BY <1>1, <1>4, <1>5, <1>6, <1>7 DEF Next, Terminated, vars

LEMMA CancelInvariant == Spec => []CancelInv
BY LifeInvariant, CancelInit, CancelStep, PTL DEF Spec

\* A task that a cancel found pending starts only if a default stop came later,
\* called or the destructor's.
THEOREM CancelKept == Spec => []CancelHolds
<1>1. CancelInv => CancelHolds
  BY DEF CancelInv, Canceling
<1> QED
  BY <1>1, CancelInvariant, PTL

\* Only canceled tasks are left behind by the worker, and only they ever answer with
\* a broken promise: every other accepted task runs.
THEOREM OnlyCanceledLost == Spec => []OnlyCanceledDropped
<1>1. CancelInv => OnlyCanceledDropped
  BY DEF CancelInv, Canceling
<1> QED
  BY <1>1, CancelInvariant, PTL

-----------------------------------------------------------------------------
(* The refinement: task_queue, with its mutex, condition variable, batches *)
(* and destructor, implements the serial executor.                         *)

Line == tasks \o m_runnables

LEMMA RefineInit == Init => Executor!ExecutorInit
<1> SUFFICES ASSUME Init PROVE Executor!ExecutorInit
  OBVIOUS
<1>1. tasks \o m_runnables = <<>>
  BY EmptySeq, ConcatEmptySeq DEF Init
<1> QED
  BY <1>1 DEF Init, Executor!ExecutorInit, ExecutorStatus, Active, Callers

LEMMA RefineStep ==
    TypeOK /\ Life /\ CancelInv /\ [Next]_vars
        => [Executor!ExecutorNext]_(Executor!executor_vars)
<1> SUFFICES ASSUME TypeOK, Life, CancelInv, [Next]_vars
             PROVE  [Executor!ExecutorNext]_(Executor!executor_vars)
  OBVIOUS
<1> USE DEF worker_vars, history_vars
<1>0. /\ pc \in [Callers -> CallerState] /\ worker \in WorkerState /\ m_state \in State
      /\ m_runnables \in Seq(Tasks) /\ tasks \in Seq(Tasks) /\ ran \in Seq(Tasks)
      /\ Line \in Seq(Tasks)
      /\ future \in [Tasks -> FutureState]
      /\ Owner \in Callers
  BY ConcatProperties DEF TypeOK, Line, Callers
\* Steps the executor does not see.
<1>1. ASSUME UNCHANGED <<m_state, future, canceled, ran>>, Line' = Line,
             worker' = "busy" <=> worker = "busy",
             pc'[Owner] \in {"construct", "constructing"}
                 <=> pc[Owner] \in {"construct", "constructing"},
             pc'[Owner] = "dead" <=> pc[Owner] = "dead"
      PROVE  UNCHANGED Executor!executor_vars
  BY <1>1 DEF Executor!executor_vars, ExecutorStatus, Active, StopPending, Line
\* A queue that can be called, or runs a task, is neither unborn nor gone.
<1>2. ASSUME Usable \/ worker = "busy"
      PROVE  pc[Owner] \notin {"construct", "constructing", "dead"}
  BY <1>2 DEF Usable, Life, NothingYet, ThreadLife, CallsNested
<1>3. ASSUME NEW t \in Tasks, Enqueue(t), Usable \/ worker = "busy",
             pc'[Owner] \notin {"construct", "constructing", "dead"}
      PROVE  Executor!ExecutorNext
  <2>1. ExecutorStatus = "open" /\ ExecutorStatus' = "open"
    BY <1>2, <1>3 DEF ExecutorStatus, Enqueue, StopPending
  <2>2. tasks' \o m_runnables' = Append(tasks \o m_runnables, t)
    <3>1. /\ Append(m_runnables, t) = m_runnables \o <<t>> /\ <<t>> \in Seq(Tasks)
          /\ Append(Line, t) = Line \o <<t>>
      BY <1>0, AppendIsConcat
    <3>2. tasks \o (m_runnables \o <<t>>) = (tasks \o m_runnables) \o <<t>>
      <4>1. tasks \in Seq(Tasks) /\ m_runnables \in Seq(Tasks) /\ <<t>> \in Seq(Tasks)
        BY <1>0, <3>1
      <4> QED
        BY <4>1, ConcatRegroups
    <3> QED
      BY <1>3, <3>1, <3>2 DEF Enqueue, Line
  <2>3. Active' = Active
    BY <1>3 DEF Active, Enqueue
  <2>4. Executor!Submit(t)
    BY <1>3, <2>1, <2>2, <2>3 DEF Executor!Submit, Enqueue
  <2> QED
    BY <2>4 DEF Executor!ExecutorNext
\* A stop revokes the part of the line that is still in m_runnables, or nothing.
<1>4. ASSUME NEW action \in {"run", "cancel"}, NEW by \in {"call", "destructor"},
             SetStop(action, by), Usable \/ worker = "busy",
             pc'[Owner] \notin {"construct", "constructing", "dead"}
      PROVE  Executor!ExecutorNext
  <2>1. ExecutorStatus \in {"open", "closed"} /\ ExecutorStatus' = "closed"
    BY <1>2, <1>4 DEF ExecutorStatus, SetStop, StopPending
  <2>2. UNCHANGED <<tasks \o m_runnables, Active, future>>
    BY <1>4 DEF SetStop, Active
  <2>3. Len(tasks) \in Nat /\ Len(m_runnables) \in Nat
        /\ Len(Line) = Len(tasks) + Len(m_runnables)
    BY <1>0, LenProperties, ConcatProperties DEF Line
  <2>4. CASE action = "cancel"
    <3>1. canceled' = canceled \cup Range(SubSeq(Line, Len(tasks) + 1, Len(Line)))
      BY <1>0, <1>4, <2>4, SecondPart DEF SetStop, Line
    <3>2. Executor!Close(Len(tasks) + 1)
      BY <2>1, <2>2, <3>1 DEF Executor!Close, Line, Range, Executor!Range
    <3>3. Len(tasks) + 1 \in 1..(Len(tasks \o m_runnables) + 1)
      BY <2>3 DEF Line
    <3> QED
      BY <3>2, <3>3 DEF Executor!ExecutorNext
  <2>5. CASE action = "run"
    <3>1. Len(Line) + 1 \in Int /\ Len(Line) \in Int
      BY <2>3
    <3>2. SubSeq(Line, Len(Line) + 1, Len(Line)) = <<>>
      BY <3>1, SubSeqEmpty
    <3>3. canceled' = canceled \cup Range(SubSeq(Line, Len(Line) + 1, Len(Line)))
      BY <1>4, <2>5, <3>2, RangeEmpty DEF SetStop
    <3>4. Executor!Close(Len(Line) + 1)
      BY <2>1, <2>2, <3>3 DEF Executor!Close, Line, Range, Executor!Range
    <3>5. Len(Line) + 1 \in 1..(Len(tasks \o m_runnables) + 1)
      BY <2>3 DEF Line
    <3> QED
      BY <3>4, <3>5 DEF Executor!ExecutorNext
  <2> QED
    BY <2>4, <2>5
<1>5. ASSUME NEW c \in Callers, CallerStep(c)
      PROVE  Executor!ExecutorNext \/ UNCHANGED Executor!executor_vars
  <2>1. ASSUME NEW t \in Tasks, Post(c, t) PROVE Executor!ExecutorNext
    <3>1. pc'[Owner] \notin {"construct", "constructing", "dead"}
      BY <1>0, <1>2, <2>1 DEF Post
    <3> QED
      BY <1>3, <2>1, <3>1 DEF Post
  <2>2. ASSUME NEW action \in {"run", "cancel"}, Stop(c, action) PROVE Executor!ExecutorNext
    <3>1. pc'[Owner] \notin {"construct", "constructing", "dead"}
      BY <1>0, <1>2, <2>2 DEF Stop
    <3> QED
      BY <1>4, <2>2, <3>1 DEF Stop
  <2>3. CASE StopAndWait(c)
    <3>1. pc'[Owner] \notin {"construct", "constructing", "dead"}
      BY <1>0, <1>2, <2>3 DEF StopAndWait
    <3> QED
      BY <1>4, <2>3, <3>1 DEF StopAndWait
  <2>4. CASE Notify(c)
    BY <1>0, <1>1, <2>4 DEF Notify, WillNotify, Line
  <2>5. CASE JoinBlock(c)
    BY <1>0, <1>1, <2>5 DEF JoinBlock, Line
  <2>6. CASE JoinSkip(c)
    BY <1>0, <1>1, <2>6 DEF JoinSkip, Return, Line
  <2>7. CASE JoinDone(c)
    BY <1>0, <1>1, <2>7 DEF JoinDone, Return, Line
  <2> QED
    BY <1>5, <2>1, <2>2, <2>3, <2>4, <2>5, <2>6, <2>7 DEF CallerStep
<1>6. ASSUME OwnerStep PROVE Executor!ExecutorNext \/ UNCHANGED Executor!executor_vars
  <2>1. CASE ConstructThread
    <3>1. worker = "none"
      BY <2>1 DEF ConstructThread, Life, ThreadLife
    <3> QED
      BY <1>0, <1>1, <2>1, <3>1 DEF ConstructThread, Line
  <2>2. CASE ConstructFails
    <3>1. ExecutorStatus = "unborn" /\ ExecutorStatus' = "gone"
      BY <1>0, <2>2 DEF ConstructFails, ExecutorStatus
    <3>2. UNCHANGED <<tasks \o m_runnables, Active, future, canceled>>
      BY <2>2 DEF ConstructFails, Active
    <3> QED
      BY <3>1, <3>2 DEF Executor!ExecutorNext, Executor!Create
  <2>3. CASE ConstructRunning
    <3>1. ExecutorStatus = "unborn" /\ ExecutorStatus' = "open"
      BY <1>0, <2>3 DEF ConstructRunning, ExecutorStatus, StopPending
    <3>2. UNCHANGED <<tasks \o m_runnables, Active, future, canceled>>
      BY <2>3 DEF ConstructRunning, Active
    <3> QED
      BY <3>1, <3>2 DEF Executor!ExecutorNext, Executor!Create
  <2>4. CASE Destroy
    <3>1. pc'[Owner] \notin {"construct", "constructing", "dead"}
      BY <1>0, <2>4 DEF Destroy
    <3> QED
      BY <1>4, <2>4, <3>1 DEF Destroy
  <2>5. CASE Destruct
    <3>1. worker = "exited" /\ StopPending /\ tasks = <<>>
      BY <2>5 DEF Destruct, Life, ThreadLife
    <3>2. ExecutorStatus = "closed" /\ ExecutorStatus' = "gone"
      BY <1>0, <2>5, <3>1 DEF Destruct, ExecutorStatus
    <3>3. Active = {} /\ Active' = Active /\ UNCHANGED canceled
      BY <2>5, <3>1 DEF Destruct, Active
    <3>4. tasks \o m_runnables = m_runnables
      BY <1>0, <3>1, ConcatEmptySeq
    <3>5. tasks' \o m_runnables' = <<>>
      BY <2>5, <3>1, EmptySeq, ConcatEmptySeq DEF Destruct
    <3>6. Range(m_runnables) \subseteq canceled
      BY <3>1 DEF CancelInv, Canceling, OnlyCanceledDropped
    <3> QED
      BY <2>5, <3>2, <3>3, <3>4, <3>5, <3>6 
         DEF Destruct, Executor!ExecutorNext, Executor!Retire, Range, Executor!Range
  <2> QED
    BY <1>6, <2>1, <2>2, <2>3, <2>4, <2>5 DEF OwnerStep
<1>7. ASSUME TaskStep PROVE Executor!ExecutorNext
  <2>1. worker = "busy" /\ pc' = pc
    BY <1>7 DEF TaskStep, PostFromTask, StopFromTask
  <2> QED
    BY <1>2, <1>3, <1>4, <1>7, <2>1 DEF TaskStep, PostFromTask, StopFromTask
<1>8. ASSUME WorkerStep PROVE Executor!ExecutorNext \/ UNCHANGED Executor!executor_vars
  <2>1. CASE WorkerWait \/ WorkerSpuriousWake \/ WorkerExit \/ BatchDone
    BY <1>1, <2>1 DEF WorkerWait, WorkerSpuriousWake, WorkerExit, BatchDone, Line
  \* From one queue to the other: the line is the same.
  <2>2. CASE WorkerTake
    <3>1. tasks = <<>>
      BY <2>2 DEF WorkerTake, Life, ThreadLife
    <3>2. Line' = Line
      BY <1>0, <2>2, <3>1, ConcatEmptySeq DEF WorkerTake, Line
    <3> QED
      BY <1>1, <2>2, <3>2 DEF WorkerTake
  <2>3. CASE StartTask
    <3>1. tasks # <<>> /\ Head(tasks) \in Tasks
      BY <1>0, <2>3, HeadTailProperties DEF StartTask
    <3>2. /\ tasks \o m_runnables # <<>>
          /\ Head(tasks \o m_runnables) = Head(tasks)
          /\ Tail(tasks \o m_runnables) = tasks' \o m_runnables'
      BY <1>0, <2>3, <3>1, HeadTailConcat DEF StartTask
    <3>3. Active = {}
      BY <2>3 DEF StartTask, Active
    <3>4. ran'[Len(ran')] = Head(tasks)
      BY <1>0, <2>3, <3>1, AppendProperties DEF StartTask
    <3>5. Active' = {Head(tasks)}
      BY <2>3, <3>4 DEF StartTask, Active
    <3>6. UNCHANGED <<ExecutorStatus, future, canceled>>
      BY <2>3 DEF StartTask, ExecutorStatus, StopPending
    <3>7. Executor!Begin
      BY <3>2, <3>3, <3>5, <3>6 DEF Executor!Begin
    <3> QED
      BY <3>7 DEF Executor!ExecutorNext
  <2>4. CASE FinishTask
    <3>1. Active = {ran[Len(ran)]} /\ Active' = {}
      BY <2>4 DEF FinishTask, Active
    <3>2. future' = [t \in Tasks |-> IF t \in Active THEN "ready" ELSE future[t]]
      BY <1>0, <2>4, <3>1 DEF FinishTask
    <3>3. UNCHANGED <<ExecutorStatus, tasks \o m_runnables, canceled>>
      BY <2>4 DEF FinishTask, ExecutorStatus, StopPending
    <3>4. Executor!Complete
      BY <3>1, <3>2, <3>3 DEF Executor!Complete
    <3> QED
      BY <3>4 DEF Executor!ExecutorNext
  <2> QED
    BY <1>8, <2>1, <2>2, <2>3, <2>4 DEF WorkerStep
<1>9. ASSUME UNCHANGED vars PROVE UNCHANGED Executor!executor_vars
  BY <1>9 DEF vars, Executor!executor_vars, ExecutorStatus, Active, StopPending
<1> QED
  BY <1>5, <1>6, <1>7, <1>8, <1>9 DEF Next, Terminated

\* The queue implements the executor: whatever its threads do, a client sees tasks
\* run one by one in the order of posting, and sees no other effect.
THEOREM RefinesExecutor == Spec => ImplementsExecutor
<1>1. Spec => [](TypeOK /\ Life /\ CancelInv)
  BY LifeInvariant, CancelInvariant, PTL
<1> QED
  BY <1>1, RefineInit, RefineStep, PTL DEF Spec, ImplementsExecutor, Executor!ExecutorSpec

ExecutorProofs == INSTANCE SerialExecutorProofs
                  WITH status <- ExecutorStatus,
                       line <- tasks \o m_runnables,
                       active <- Active,
                       outcome <- future,
                       revoked <- canceled

\* The queue inherits what is proved of the executor: the future of a task never
\* disagrees with where the task is among the two queues and the worker.
THEOREM FuturesKept == Spec => []FutureAgrees
<1>1. Executor!ExecutorInit => ExecutorProofs!ExecutorInit
  BY DEF Executor!ExecutorInit, ExecutorProofs!ExecutorInit
<1>2. [Executor!ExecutorNext]_(Executor!executor_vars)
          => [ExecutorProofs!ExecutorNext]_(ExecutorProofs!executor_vars)
  BY DEF Executor!executor_vars, Executor!ExecutorNext, Executor!Create, Executor!Submit,
         Executor!Begin, Executor!Complete, Executor!Close, Executor!Retire, Executor!Range,
         ExecutorProofs!executor_vars, ExecutorProofs!ExecutorNext, ExecutorProofs!Create,
         ExecutorProofs!Submit, ExecutorProofs!Begin, ExecutorProofs!Complete,
         ExecutorProofs!Close, ExecutorProofs!Retire, ExecutorProofs!Range
<1>3. ExecutorProofs!FutureAgrees => FutureAgrees
  BY DEF FutureAgrees, Executor!FutureAgrees, ExecutorProofs!FutureAgrees, Executor!Range,
         ExecutorProofs!Range
<1> QED
  BY <1>1, <1>2, <1>3, RefinesExecutor, ExecutorProofs!FuturesAgree, PTL
     DEF ImplementsExecutor, Executor!ExecutorSpec, ExecutorProofs!ExecutorSpec
=============================================================================
