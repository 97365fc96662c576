------------------------- MODULE ServiceRuntimeProofs -------------------------
(***************************************************************************)
(* Proofs about ServiceRuntime, for every set of calling threads, however  *)
(* many threads the runtime creates and however often it is called.        *)
(***************************************************************************)
EXTENDS ServiceRuntime, FiniteSetTheorems, TLAPS

-----------------------------------------------------------------------------
(* Types.                                                                  *)

LEMMA TypeInit == Init => RuntimeTypeOK
<1> SUFFICES ASSUME Init PROVE RuntimeTypeOK
  OBVIOUS
<1> USE DEF Init
<1>1. /\ pc \in [Callers -> {"idle", "configure"}]
      /\ thread \in [Callers -> {NoLoop}]
      /\ loop \in [Loops -> {"none"}]
  OBVIOUS
<1>2. calls \in 0..MaxCalls
  BY RuntimeAssumption
<1>3. \A c \in Callers : thread[c] = NoLoop /\ pc[c] \notin {"check", "store"}
  BY <1>1
<1> QED
  BY <1>1, <1>2, <1>3 DEF RuntimeTypeOK, CallerPlaces, LoopPlaces

LEMMA TypeStep == RuntimeTypeOK /\ [Next]_vars => RuntimeTypeOK'
<1> SUFFICES ASSUME RuntimeTypeOK, [Next]_vars PROVE RuntimeTypeOK'
  OBVIOUS
<1> USE CallersAssumption, RuntimeAssumption DEF RuntimeTypeOK, history, CallerPlaces, LoopPlaces
<1>0. Owner \in Callers
  BY DEF Callers
<1>1. CASE MainStep
  <2>1. CASE FromCommandLineArguments
    BY <1>0, <2>1 DEF FromCommandLineArguments, GoTo
  <2>2. CASE GetUserHomePath
    BY <1>0, <2>2 DEF GetUserHomePath, ThrowsOr, GoTo, Terminate
  <2>3. CASE ConstructPersister
    BY <1>0, <2>3 DEF ConstructPersister, ThrowsOr, GoTo, Terminate
  <2>4. CASE CreateService
    BY <1>0, <2>4 DEF CreateService, GoTo
  <2>5. CASE Daemonize
    BY <1>0, <2>5 DEF Daemonize, Terminate
  <2>6. CASE StayInForeground
    BY <1>0, <2>6 DEF StayInForeground, GoTo
  <2>7. CASE LeaveMain
    BY <1>0, <2>7 DEF LeaveMain, GoTo
  <2>8. CASE Join
    BY <1>0, <2>8 DEF Join, GoTo
  <2> QED
    BY <1>1, <2>1, <2>2, <2>3, <2>4, <2>5, <2>6, <2>7, <2>8 DEF MainStep
<1>2. ASSUME NEW c \in Callers, Start(c) PROVE RuntimeTypeOK'
  <2>1. calls' \in 0..MaxCalls
    BY <1>2 DEF Start, Calls
  <2>2. thread[c] = NoLoop
    BY <1>2 DEF Start, Calls
  <2>3. m_running' \in BOOLEAN
    BY <1>2 DEF Start
  <2> QED
    BY <1>2, <2>1, <2>2, <2>3 DEF Start, StartReturns, GoTo
<1>3. ASSUME NEW c \in Callers, Stop(c) PROVE RuntimeTypeOK'
  <2>1. calls' \in 0..MaxCalls
    BY <1>3 DEF Stop, Calls
  <2>2. thread[c] = NoLoop
    BY <1>3 DEF Stop, Calls
  <2>3. m_running' \in BOOLEAN /\ ignored' \in BOOLEAN /\ failed' \in BOOLEAN
    BY <1>3 DEF Stop
  <2> QED
    BY <1>3, <2>1, <2>2, <2>3 DEF Stop, StopReturns, GoTo
<1>4. ASSUME NEW c \in Callers, CallStep(c) PROVE RuntimeTypeOK'
  <2>1. CASE StartThread(c)
    BY <2>1 DEF StartThread, GoTo
  <2>2. CASE StartThreadFails(c)
    BY <2>2 DEF StartThreadFails, GoTo, Terminate
  <2>3. CASE CheckJoinable(c)
    BY <2>3 DEF CheckJoinable, GoTo, Terminate
  <2>4. CASE StoreThread(c)
    BY <2>4 DEF StoreThread, StartReturns, GoTo
  <2>5. CASE NotifyOne(c)
    BY <2>5 DEF NotifyOne, StopReturns, GoTo
  <2> QED
    BY <1>4, <2>1, <2>2, <2>3, <2>4, <2>5 DEF CallStep
<1>5. ASSUME NEW l \in Loops, LoopStep(l) \/ WakeSpuriously(l) PROVE RuntimeTypeOK'
  BY <1>5 DEF LoopStep, TestRunning, Sleep, Wake, WakeSpuriously, LoopGoTo
<1>6. CASE UNCHANGED vars
  BY <1>6 DEF vars
<1> QED
  BY <1>1, <1>2, <1>3, <1>4, <1>5, <1>6 DEF Next

\* The variables of the runtime keep their types, and a caller has a new
\* thread in hand exactly while it assigns it.
THEOREM TypeCorrect == Spec => []RuntimeTypeOK
BY TypeInit, TypeStep, PTL DEF Spec

-----------------------------------------------------------------------------
(* The threads of the runtime.                                             *)

\* While no two Starts have been assigning at once: there is one that assigns
\* at most; the runtime's threads are the one it can join and the one that is
\* about to be assigned; and whoever has checked m_threadMain finds it so.
ThreadsKnown ==
    ~raced =>
        /\ \A c, d \in Callers : c \in Assigning /\ d \in Assigning => c = d
        /\ \A l \in Live : l = m_threadMain \/ \E c \in Assigning : l = thread[c]
        /\ \A c \in Callers : pc[c] = "store" => m_threadMain = NoLoop

\* main destroys the runtime when nobody else is inside a call.
NobodyElse ==
    pc[Owner] \in {"destruct", "notify", "join", "destroyed"} =>
        \A c \in Others : pc[c] \in {"idle", "gone"}

\* A daemon has no threads but the one that runs main.
DaemonAlone ==
    process = "daemon" =>
        /\ pc[Owner] \in {"leave", "destruct", "notify", "join", "destroyed"}
        /\ \A c \in Others : pc[c] = "gone"

\* The wake-up property, for the threads about to sleep as well.
WakeUpComes ==
    ~m_running /\ ~raced /\ ~Restarting =>
        \A l \in Loops : loop[l] \in {"lock", "wait"} =>
            l \in missed \/ \E c \in Callers : pc[c] = "notify"

\* Who calls: nobody but main enters a call after main has left the scope of
\* the runtime.
LEMMA NobodyElseStep == RuntimeTypeOK /\ NobodyElse /\ [Next]_vars => NobodyElse'
<1> SUFFICES ASSUME RuntimeTypeOK, NobodyElse, [Next]_vars PROVE NobodyElse'
  OBVIOUS
<1> USE CallersAssumption DEF NobodyElse, CallerPlaces
<1>0. /\ Owner \in Callers /\ Others \subseteq Callers /\ Owner \notin Others
      /\ pc \in [Callers -> CallerPlaces]
  BY DEF Callers, RuntimeTypeOK
<1>1. CASE MainStep
  <2>1. CASE LeaveMain
    BY <1>0, <2>1 DEF LeaveMain, GoTo
  <2>2. CASE Daemonize
    BY <1>0, <2>2 DEF Daemonize
  <2>3. CASE Join
    BY <1>0, <2>3 DEF Join, GoTo
  <2>4. CASE FromCommandLineArguments \/ CreateService \/ StayInForeground
    BY <1>0, <2>4 DEF FromCommandLineArguments, CreateService, StayInForeground, GoTo
  <2>5. CASE GetUserHomePath \/ ConstructPersister
    BY <1>0, <2>5 DEF GetUserHomePath, ConstructPersister, ThrowsOr, GoTo
  <2> QED
    BY <1>1, <2>1, <2>2, <2>3, <2>4, <2>5 DEF MainStep
<1>2. ASSUME NEW c \in Callers, Start(c) PROVE NobodyElse'
  BY <1>0, <1>2 DEF Start, Calls, RuntimeExists, StartReturns, GoTo
<1>3. ASSUME NEW c \in Callers, Stop(c) PROVE NobodyElse'
  BY <1>0, <1>3 DEF Stop, Calls, RuntimeExists, StopReturns, GoTo
<1>4. ASSUME NEW c \in Callers, CallStep(c) PROVE NobodyElse'
  <2>1. CASE StartThread(c) \/ StartThreadFails(c)
    BY <1>0, <2>1 DEF StartThread, StartThreadFails, GoTo
  <2>2. CASE CheckJoinable(c) \/ StoreThread(c)
    BY <1>0, <2>2 DEF CheckJoinable, StoreThread, StartReturns, GoTo
  <2>3. CASE NotifyOne(c)
    BY <1>0, <2>3 DEF NotifyOne, StopReturns, GoTo
  <2> QED
    BY <1>4, <2>1, <2>2, <2>3 DEF CallStep
<1>5. ASSUME NEW l \in Loops, LoopStep(l) \/ WakeSpuriously(l) PROVE NobodyElse'
  BY <1>5 DEF LoopStep, TestRunning, Sleep, Wake, WakeSpuriously, LoopGoTo
<1>6. CASE UNCHANGED vars
  BY <1>6 DEF vars
<1> QED
  BY <1>1, <1>2, <1>3, <1>4, <1>5, <1>6 DEF Next

LEMMA ThreadsKnownStep ==
    RuntimeTypeOK /\ NobodyElse /\ ThreadsKnown /\ [Next]_vars => ThreadsKnown'
<1> SUFFICES ASSUME RuntimeTypeOK, NobodyElse, ThreadsKnown, [Next]_vars, ~raced'
             PROVE  ThreadsKnown'
  BY DEF ThreadsKnown
<1> USE DEF ThreadsKnown, Live, Assigning, history, CallerPlaces, LoopPlaces
<1>0. /\ Owner \in Callers
      /\ pc \in [Callers -> CallerPlaces]
      /\ loop \in [Loops -> LoopPlaces]
      /\ thread \in [Callers -> Loops \cup {NoLoop}]
  BY DEF Callers, RuntimeTypeOK
<1>1. CASE MainStep
  <2>1. CASE LeaveMain
    BY <1>0, <2>1 DEF LeaveMain, GoTo
  <2>2. CASE Daemonize
    BY <1>0, <2>2 DEF Daemonize
  <2>3. CASE Join
    <3>1. Assigning = {}
      BY <1>0, <2>3 DEF NobodyElse, Join, Callers
    <3>2. Live = {}
      BY <1>0, <2>3, <3>1, CallersAssumption DEF Join
    <3> QED
      BY <1>0, <2>3, <3>1, <3>2 DEF Join, GoTo
  <2>4. CASE FromCommandLineArguments \/ CreateService \/ StayInForeground
    BY <1>0, <2>4 DEF FromCommandLineArguments, CreateService, StayInForeground, GoTo
  <2>5. CASE GetUserHomePath \/ ConstructPersister
    BY <1>0, <2>5 DEF GetUserHomePath, ConstructPersister, ThrowsOr, GoTo
  <2> QED
    BY <1>1, <2>1, <2>2, <2>3, <2>4, <2>5 DEF MainStep
<1>2. ASSUME NEW c \in Callers, Start(c) PROVE ThreadsKnown'
  BY <1>0, <1>2 DEF Start, Calls, StartReturns, GoTo
<1>3. ASSUME NEW c \in Callers, Stop(c) PROVE ThreadsKnown'
  BY <1>0, <1>3 DEF Stop, Calls, StopReturns, GoTo
<1>4. ASSUME NEW c \in Callers, CallStep(c) PROVE ThreadsKnown'
  <2>1. CASE StartThread(c)
    <3>1. ~raced /\ Assigning = {} /\ pc' = [pc EXCEPT ![c] = "check"] /\ m_threadMain' = m_threadMain
      BY <2>1 DEF StartThread, GoTo
    <3>2. PICK l \in Loops : /\ loop' = [loop EXCEPT ![l] = "test"]
                             /\ thread' = [thread EXCEPT ![c] = l]
      BY <2>1 DEF StartThread
    <3>3. \A d \in Callers : pc'[d] \in {"check", "store"} => d = c
      BY <1>0, <3>1
    <3>4. pc'[c] = "check" /\ thread'[c] = l
      BY <1>0, <3>1, <3>2
    <3>5. \A k \in Loops : loop'[k] = loop[k] \/ k = l
      BY <1>0, <3>2
    <3>6. \A k \in Live' : k = m_threadMain \/ k = thread'[c]
      BY <3>1, <3>4, <3>5
    <3> QED
      BY <3>1, <3>3, <3>4, <3>6
  <2>2. CASE StartThreadFails(c)
    BY <1>0, <2>2 DEF StartThreadFails, GoTo
  <2>3. CASE CheckJoinable(c)
    BY <1>0, <2>3 DEF CheckJoinable, GoTo
  <2>4. CASE StoreThread(c)
    <3>1. /\ ~raced /\ m_threadMain = NoLoop /\ loop' = loop /\ m_threadMain' = thread[c]
          /\ pc' = [pc EXCEPT ![c] = IF c = Owner THEN "background" ELSE "idle"]
      BY <2>4 DEF StoreThread, StartReturns, GoTo
    <3>2. Assigning = {c}
      BY <2>4, <3>1 DEF StoreThread
    <3>3. Assigning' = {}
      BY <1>0, <3>1, <3>2
    <3>4. \A l \in Live : l = thread[c]
      BY <3>1, <3>2, CallersAssumption
    <3> QED
      BY <3>1, <3>3, <3>4
  <2>5. CASE NotifyOne(c)
    BY <1>0, <2>5 DEF NotifyOne, StopReturns, GoTo
  <2> QED
    BY <1>4, <2>1, <2>2, <2>3, <2>4, <2>5 DEF CallStep
<1>5. ASSUME NEW l \in Loops, LoopStep(l) \/ WakeSpuriously(l) PROVE ThreadsKnown'
  BY <1>0, <1>5 DEF LoopStep, TestRunning, Sleep, Wake, WakeSpuriously, LoopGoTo
<1>6. CASE UNCHANGED vars
  BY <1>6 DEF vars
<1> QED
  BY <1>1, <1>2, <1>3, <1>4, <1>5, <1>6 DEF Next

\* What main joins is all there is, and nobody starts anything after it.
LEMMA DestroyedStep ==
    RuntimeTypeOK /\ NobodyElse /\ ThreadsKnown /\ NoLoopAfterDestruction /\ [Next]_vars
        => NoLoopAfterDestruction'
<1> SUFFICES ASSUME RuntimeTypeOK, NobodyElse, ThreadsKnown, NoLoopAfterDestruction, [Next]_vars,
                    ~raced', pc'[Owner] = "destroyed"
             PROVE  Live' = {}
  BY DEF NoLoopAfterDestruction
<1> USE CallersAssumption DEF Live, Assigning, history, CallerPlaces, LoopPlaces
<1>0. /\ Owner \in Callers /\ \A c \in Callers : c = Owner \/ c \in Others
      /\ pc \in [Callers -> CallerPlaces]
      /\ loop \in [Loops -> LoopPlaces]
  BY DEF Callers, RuntimeTypeOK
<1>1. CASE Join
  <2>1. Assigning = {}
    BY <1>0, <1>1 DEF NobodyElse, Join
  <2>2. Live = {}
    BY <1>0, <1>1, <2>1 DEF Join, ThreadsKnown
  <2> QED
    BY <1>1, <2>2 DEF Join
<1>2. CASE pc[Owner] = "destroyed"
  <2>1. ~raced
    BY <1>2, [Next]_vars DEF Next, MainStep, CallStep, LoopStep, vars, FromCommandLineArguments,
          GetUserHomePath, ConstructPersister, ThrowsOr, CreateService, Daemonize, StayInForeground,
          LeaveMain, Join, Start, Stop, StartThread, StartThreadFails, CheckJoinable, StoreThread,
          NotifyOne, TestRunning, Sleep, Wake, WakeSpuriously, LoopGoTo
  <2>2. Live = {}
    BY <1>2, <2>1 DEF NoLoopAfterDestruction
  <2>3. \A c \in Callers : pc[c] \in {"idle", "gone", "destroyed"}
    BY <1>0, <1>2 DEF NobodyElse
  <2>4. ASSUME NEW c \in Callers, CallStep(c) PROVE FALSE
    BY <2>3, <2>4 DEF CallStep, StartThread, StartThreadFails, CheckJoinable, StoreThread, NotifyOne
  <2>5. ASSUME NEW l \in Loops, LoopStep(l) \/ WakeSpuriously(l) PROVE FALSE
    BY <2>2, <2>5 DEF LoopStep, TestRunning, Sleep, Wake, WakeSpuriously
  <2>6. CASE MainStep
    BY <1>2, <2>6 DEF MainStep, FromCommandLineArguments, GetUserHomePath, ConstructPersister,
                      CreateService, Daemonize, StayInForeground, LeaveMain, Join
  <2>7. ASSUME NEW c \in Callers, Start(c) \/ Stop(c) PROVE Live' = {}
    BY <2>2, <2>7 DEF Start, Stop
  <2>8. CASE UNCHANGED vars
    BY <2>2, <2>8 DEF vars
  <2> QED
    BY <2>4, <2>5, <2>6, <2>7, <2>8 DEF Next
<1>3. CASE pc[Owner] # "destroyed" /\ ~Join
  <2>1. CASE MainStep
    BY <1>0, <1>3, <2>1 DEF MainStep, FromCommandLineArguments, GetUserHomePath, ConstructPersister,
                      ThrowsOr, CreateService, Daemonize, StayInForeground, LeaveMain, GoTo
  <2>2. ASSUME NEW c \in Callers, Start(c) \/ Stop(c) PROVE FALSE
    BY <1>0, <1>3, <2>2 DEF Start, Stop, StartReturns, StopReturns, GoTo
  <2>3. ASSUME NEW c \in Callers, CallStep(c) PROVE FALSE
    BY <1>0, <1>3, <2>3 DEF CallStep, StartThread, StartThreadFails, CheckJoinable, StoreThread,
                            NotifyOne, StartReturns, StopReturns, GoTo
  <2>4. ASSUME NEW l \in Loops, LoopStep(l) \/ WakeSpuriously(l) PROVE FALSE
    BY <1>3, <2>4 DEF LoopStep, TestRunning, Sleep, Wake, WakeSpuriously, LoopGoTo
  <2>5. CASE UNCHANGED vars
    BY <1>3, <2>5 DEF vars
  <2> QED
    BY <2>1, <2>2, <2>3, <2>4, <2>5 DEF Next
<1> QED
  BY <1>1, <1>2, <1>3

\* The runtime has one thread at a time, until a restart is about to end it.
LEMMA OneThread ==
    ASSUME ThreadsKnown, ~raced, ~Restarting, NEW k \in Live, NEW l \in Live
    PROVE  k = l
<1> USE CallersAssumption DEF Live, Assigning
<1>1. \A c \in Assigning : m_threadMain = NoLoop
  BY DEF ThreadsKnown, Restarting
<1>2. CASE Assigning = {}
  BY <1>2 DEF ThreadsKnown
<1>3. CASE \E c \in Callers : Assigning = {c}
  BY <1>1, <1>3 DEF ThreadsKnown
<1> QED
  BY <1>2, <1>3 DEF ThreadsKnown

LEMMA WakeUpStep ==
    RuntimeTypeOK /\ NobodyElse /\ ThreadsKnown /\ WakeUpComes /\ [Next]_vars => WakeUpComes'
<1> DEFINE Comes(l) == l \in missed \/ \E c \in Callers : pc[c] = "notify"
<1> SUFFICES ASSUME RuntimeTypeOK, NobodyElse, ThreadsKnown, WakeUpComes, [Next]_vars,
                    ~m_running', ~raced', ~Restarting',
                    NEW l \in Loops, loop'[l] \in {"lock", "wait"}
             PROVE  Comes(l)'
  BY DEF WakeUpComes
<1> USE CallersAssumption DEF WakeUpComes, Restarting, history, CallerPlaces, LoopPlaces
<1>0. /\ Owner \in Callers /\ \A c \in Callers : c = Owner \/ c \in Others
      /\ pc \in [Callers -> CallerPlaces]
      /\ loop \in [Loops -> LoopPlaces]
  BY DEF Callers, RuntimeTypeOK
<1>1. CASE MainStep
  <2>1. CASE LeaveMain
    BY <1>0, <2>1 DEF LeaveMain, GoTo
  <2>2. CASE Daemonize
    BY <1>0, <2>2 DEF Daemonize, Live
  <2>3. CASE Join
    <3>1. \A c \in Callers : pc[c] # "check" /\ pc[c] # "notify"
      BY <1>0, <2>3 DEF NobodyElse, Join
    <3> QED
      BY <1>0, <2>3, <3>1 DEF Join, GoTo
  <2>4. CASE FromCommandLineArguments \/ CreateService \/ StayInForeground
    BY <1>0, <2>4 DEF FromCommandLineArguments, CreateService, StayInForeground, GoTo
  <2>5. CASE GetUserHomePath \/ ConstructPersister
    BY <1>0, <2>5 DEF GetUserHomePath, ConstructPersister, ThrowsOr, GoTo
  <2> QED
    BY <1>1, <2>1, <2>2, <2>3, <2>4, <2>5 DEF MainStep
<1>2. ASSUME NEW c \in Callers, Start(c) PROVE Comes(l)'
  BY <1>0, <1>2 DEF Start, Calls, StartReturns, GoTo
<1>3. ASSUME NEW c \in Callers, Stop(c) PROVE Comes(l)'
  BY <1>0, <1>3 DEF Stop, Calls, StopReturns, GoTo
<1>4. ASSUME NEW c \in Callers, CallStep(c) PROVE Comes(l)'
  <2>1. CASE StartThread(c)
    BY <1>0, <2>1 DEF StartThread, GoTo
  <2>2. CASE StartThreadFails(c)
    BY <1>0, <2>2 DEF StartThreadFails, GoTo
  <2>3. CASE CheckJoinable(c)
    BY <1>0, <2>3 DEF CheckJoinable, GoTo
  <2>4. CASE StoreThread(c)
    <3>1. m_threadMain = NoLoop
      BY <2>4 DEF StoreThread, ThreadsKnown
    <3> QED
      BY <1>0, <2>4, <3>1 DEF StoreThread, StartReturns, GoTo
  <2>5. CASE NotifyOne(c)
    <3>1. ~Restarting
      BY <1>0, <2>5 DEF NotifyOne, StopReturns, GoTo
    <3>2. CASE loop[l] = "lock"
      BY <2>5, <3>2 DEF NotifyOne
    <3>3. CASE loop[l] = "wait"
      <4>1. PICK k \in Loops : loop[k] = "wait" /\ loop' = [loop EXCEPT ![k] = "woken"]
        BY <2>5, <3>3 DEF NotifyOne
      <4>2. k = l
        BY <2>5, <3>1, <3>3, <4>1, OneThread DEF Live, NotifyOne
      <4> QED
        BY <1>0, <4>1, <4>2
    <3> QED
      BY <1>0, <2>5, <3>2, <3>3 DEF NotifyOne
  <2> QED
    BY <1>4, <2>1, <2>2, <2>3, <2>4, <2>5 DEF CallStep
<1>5. ASSUME NEW k \in Loops, LoopStep(k) \/ WakeSpuriously(k) PROVE Comes(l)'
  BY <1>0, <1>5 DEF LoopStep, TestRunning, Sleep, Wake, WakeSpuriously, LoopGoTo
<1>6. CASE UNCHANGED vars
  BY <1>6 DEF vars
<1> QED
  BY <1>1, <1>2, <1>3, <1>4, <1>5, <1>6 DEF Next

LEMMA DaemonStep == RuntimeTypeOK /\ DaemonAlone /\ [Next]_vars => DaemonAlone'
<1> SUFFICES ASSUME RuntimeTypeOK, DaemonAlone, [Next]_vars PROVE DaemonAlone'
  OBVIOUS
<1> USE CallersAssumption DEF DaemonAlone, history, CallerPlaces, LoopPlaces
<1>0. /\ Owner \in Callers /\ Others \subseteq Callers /\ \A c \in Callers : c = Owner \/ c \in Others
      /\ pc \in [Callers -> CallerPlaces]
  BY DEF Callers, RuntimeTypeOK
<1>1. CASE MainStep
  <2>1. CASE LeaveMain \/ Join
    BY <1>0, <2>1 DEF LeaveMain, Join, GoTo
  <2>2. CASE Daemonize
    BY <1>0, <2>2 DEF Daemonize, Terminate
  <2>3. CASE FromCommandLineArguments \/ CreateService \/ StayInForeground
    BY <1>0, <2>3 DEF FromCommandLineArguments, CreateService, StayInForeground, GoTo
  <2>4. CASE GetUserHomePath \/ ConstructPersister
    BY <1>0, <2>4 DEF GetUserHomePath, ConstructPersister, ThrowsOr, GoTo, Terminate
  <2> QED
    BY <1>1, <2>1, <2>2, <2>3, <2>4 DEF MainStep
<1>2. ASSUME NEW c \in Callers, Start(c) PROVE DaemonAlone'
  BY <1>0, <1>2 DEF Start, Calls, RuntimeExists, StartReturns, GoTo
<1>3. ASSUME NEW c \in Callers, Stop(c) PROVE DaemonAlone'
  BY <1>0, <1>3 DEF Stop, Calls, RuntimeExists, StopReturns, GoTo
<1>4. ASSUME NEW c \in Callers, CallStep(c) PROVE DaemonAlone'
  <2>1. CASE StartThread(c) \/ StartThreadFails(c)
    BY <1>0, <2>1 DEF StartThread, StartThreadFails, GoTo, Terminate
  <2>2. CASE CheckJoinable(c) \/ StoreThread(c)
    BY <1>0, <2>2 DEF CheckJoinable, StoreThread, StartReturns, GoTo, Terminate
  <2>3. CASE NotifyOne(c)
    BY <1>0, <2>3 DEF NotifyOne, StopReturns, GoTo
  <2> QED
    BY <1>4, <2>1, <2>2, <2>3 DEF CallStep
<1>5. ASSUME NEW l \in Loops, LoopStep(l) \/ WakeSpuriously(l) PROVE DaemonAlone'
  BY <1>5 DEF LoopStep, TestRunning, Sleep, Wake, WakeSpuriously, LoopGoTo
<1>6. CASE UNCHANGED vars
  BY <1>6 DEF vars
<1> QED
  BY <1>1, <1>2, <1>3, <1>4, <1>5, <1>6 DEF Next

LEMMA RunningStep ==
    RuntimeTypeOK /\ DaemonAlone /\ RunningHasLoop /\ [Next]_vars => RunningHasLoop'
<1> SUFFICES ASSUME RuntimeTypeOK, DaemonAlone, RunningHasLoop, [Next]_vars, m_running'
             PROVE  RunningHasLoop'
  BY DEF RunningHasLoop
<1> USE DEF RunningHasLoop, Live, history, CallerPlaces, LoopPlaces
<1>0. /\ Owner \in Callers
      /\ pc \in [Callers -> CallerPlaces]
      /\ loop \in [Loops -> LoopPlaces]
  BY DEF Callers, RuntimeTypeOK
<1>1. CASE MainStep
  <2>1. CASE LeaveMain \/ Join
    BY <1>0, <2>1 DEF LeaveMain, Join, GoTo
  <2>2. CASE Daemonize
    BY <1>0, <2>2 DEF DaemonAlone, Daemonize, Terminate
  <2>4. CASE FromCommandLineArguments \/ CreateService \/ StayInForeground
    BY <1>0, <2>4 DEF FromCommandLineArguments, CreateService, StayInForeground, GoTo
  <2>5. CASE GetUserHomePath \/ ConstructPersister
    BY <1>0, <2>5 DEF GetUserHomePath, ConstructPersister, ThrowsOr, GoTo, Terminate,
                      DaemonAlone
  <2> QED
    BY <1>1, <2>1, <2>2, <2>4, <2>5 DEF MainStep
<1>2. ASSUME NEW c \in Callers, Start(c) PROVE RunningHasLoop'
  BY <1>0, <1>2 DEF Start, Calls, StartReturns, GoTo
<1>3. ASSUME NEW c \in Callers, Stop(c) PROVE RunningHasLoop'
  <2>1. m_running /\ failed' = failed /\ loop' = loop /\ process' = process
    BY <1>3 DEF Stop
  <2>2. \A d \in Callers : pc[d] = "spawn" => pc'[d] = "spawn"
    BY <1>0, <1>3 DEF Stop, Calls, StopReturns, GoTo
  <2> QED
    BY <2>1, <2>2
<1>4. ASSUME NEW c \in Callers, CallStep(c) PROVE RunningHasLoop'
  <2>1. CASE StartThread(c)
    BY <1>0, <2>1 DEF StartThread, GoTo
  <2>2. CASE StartThreadFails(c)
    BY <1>0, <2>2 DEF StartThreadFails, GoTo
  <2>3. CASE CheckJoinable(c)
    BY <1>0, <2>3 DEF CheckJoinable, GoTo, Terminate, DaemonAlone, Callers
  <2>4. CASE StoreThread(c)
    BY <1>0, <2>4 DEF StoreThread, StartReturns, GoTo
  <2>5. CASE NotifyOne(c)
    BY <1>0, <2>5 DEF NotifyOne, StopReturns, GoTo
  <2> QED
    BY <1>4, <2>1, <2>2, <2>3, <2>4, <2>5 DEF CallStep
<1>5. ASSUME NEW l \in Loops, LoopStep(l) \/ WakeSpuriously(l) PROVE RunningHasLoop'
  BY <1>0, <1>5 DEF LoopStep, TestRunning, Sleep, Wake, WakeSpuriously, LoopGoTo
<1>6. CASE UNCHANGED vars
  BY <1>6 DEF vars
<1> QED
  BY <1>1, <1>2, <1>3, <1>4, <1>5, <1>6 DEF Next

-----------------------------------------------------------------------------
(* What follows for every behaviour.                                       *)

RuntimeInv ==
    /\ RuntimeTypeOK
    /\ ThreadsKnown
    /\ NobodyElse
    /\ NoLoopAfterDestruction
    /\ DaemonAlone
    /\ WakeUpComes
    /\ RunningHasLoop

LEMMA RuntimeInvariant == Spec => []RuntimeInv
<1>1. Init => RuntimeInv
  <2> SUFFICES ASSUME Init PROVE RuntimeInv
    OBVIOUS
  <2>1. RuntimeTypeOK
    BY TypeInit
  <2>2. /\ \A c \in Callers : pc[c] \in {"configure", "idle"}
        /\ \A l \in Loops : loop[l] = "none"
        /\ pc[Owner] = "configure" /\ process = "up" /\ m_running = FALSE
    BY DEF Init, Callers
  <2> QED
    BY <2>1, <2>2 DEF RuntimeInv, ThreadsKnown, NobodyElse, NoLoopAfterDestruction, DaemonAlone,
                      WakeUpComes, RunningHasLoop, Live, Assigning
<1>2. RuntimeInv /\ [Next]_vars => RuntimeInv'
  BY TypeStep, ThreadsKnownStep, NobodyElseStep, DestroyedStep, DaemonStep, WakeUpStep, RunningStep
  DEF RuntimeInv
<1> QED
  BY <1>1, <1>2, PTL DEF Spec

\* No thread uses the runtime after its destruction, unless two Starts
\* assigned m_threadMain at once.
THEOREM DestroyedWithoutLoop == Spec => []NoLoopAfterDestruction
<1>1. RuntimeInv => NoLoopAfterDestruction
  BY DEF RuntimeInv
<1> QED
  BY <1>1, RuntimeInvariant, PTL

\* A runtime that says it is running has a thread, or is about to create it,
\* or could not create it, or is in a daemon that has none.
THEOREM RunningRuns == Spec => []RunningHasLoop
<1>1. RuntimeInv => RunningHasLoop
  BY DEF RuntimeInv
<1> QED
  BY <1>1, RuntimeInvariant, PTL

\* A thread that sleeps in a stopped runtime is about to be notified, or was
\* about to sleep when the notification came.
THEOREM SleepersHear == Spec => []SleepersAreNotified
<1>1. RuntimeInv => SleepersAreNotified
  BY DEF RuntimeInv, WakeUpComes, SleepersAreNotified
<1> QED
  BY <1>1, RuntimeInvariant, PTL

\* Two threads never run the loop beyond the assignment that loses one.
THEOREM OneLoopRuns == Spec => []OneLoop
<1>1. RuntimeInv => OneLoop
  <2> SUFFICES ASSUME RuntimeInv, ~raced PROVE Cardinality(Live) <= 1 + Cardinality(Assigning)
    BY DEF OneLoop
  <2> USE DEF RuntimeInv, ThreadsKnown
  <2>1. CASE Assigning = {}
    <3>1. Live \subseteq {m_threadMain}
      BY <2>1
    <3>2. /\ IsFiniteSet({m_threadMain}) /\ Cardinality({m_threadMain}) = 1
          /\ Cardinality(Assigning) = 0
      BY <2>1, FS_Singleton, FS_EmptySet
    <3>3. Cardinality(Live) <= 1 /\ Cardinality(Live) \in Nat
      BY <3>1, <3>2, FS_Subset, FS_CardinalityType
    <3> QED
      BY <3>2, <3>3
  <2>2. CASE \E c \in Callers : Assigning = {c}
    <3>1. PICK c \in Callers : Assigning = {c}
      BY <2>2
    <3>2. Live \subseteq {m_threadMain} \cup {thread[c]}
      BY <3>1
    <3>3. IsFiniteSet({m_threadMain}) /\ Cardinality({m_threadMain}) = 1 /\ Cardinality(Assigning) = 1
      BY <3>1, FS_Singleton
    <3>4. /\ IsFiniteSet({m_threadMain} \cup {thread[c]})
          /\ Cardinality({m_threadMain} \cup {thread[c]}) <= 2
      <4>1. \A S, e : IsFiniteSet(S) =>
               /\ IsFiniteSet(S \cup {e})
               /\ Cardinality(S \cup {e}) = Cardinality(S) \/ Cardinality(S \cup {e}) = Cardinality(S) + 1
        BY FS_AddElement
      <4>2. /\ IsFiniteSet({m_threadMain} \cup {thread[c]})
            /\ \/ Cardinality({m_threadMain} \cup {thread[c]}) = 1
               \/ Cardinality({m_threadMain} \cup {thread[c]}) = 1 + 1
        BY <3>3, <4>1, Zenon
      <4> QED
        BY <4>2
    <3>5. Cardinality(Live) <= Cardinality({m_threadMain} \cup {thread[c]})
      BY <3>2, <3>4, FS_Subset
    <3>6. Cardinality(Live) \in Nat /\ Cardinality({m_threadMain} \cup {thread[c]}) \in Nat
      BY <3>2, <3>4, FS_Subset, FS_CardinalityType
    <3> QED
      BY <3>3, <3>4, <3>5, <3>6
  <2> QED
    BY <2>1, <2>2 DEF Assigning
<1> QED
  BY <1>1, RuntimeInvariant, PTL
=============================================================================
