--------------------------- MODULE ServiceRuntime ---------------------------
(***************************************************************************)
(* The service process: main() of nearobjectd and of nearobjectsvc, which  *)
(* constructs the service and starts and destroys a ServiceRuntime, and    *)
(* the runtime's thread, which loops in Run() until it is stopped.         *)
(*                                                                         *)
(* Start and Stop are public and may be called by other threads while the  *)
(* runtime exists.  m_running is an atomic, changed by a weak              *)
(* compare-and-exchange that may fail for no reason; m_threadMain is       *)
(* neither atomic nor protected.  Within Run the gate is held only from    *)
(* locking it to sleeping, and from waking to the next read of m_running:  *)
(* each is one step here, so the gate itself needs no variable.            *)
(***************************************************************************)
EXTENDS Integers, FiniteSets

CONSTANTS
    Owner,       \* the thread that runs main()
    Others,      \* other threads that call Start and Stop
    Loops,       \* bound: the threads that can be created to execute Run()
    NoLoop,
    MaxCalls     \* bound: calls of Start and Stop by the other threads

ASSUME CallersAssumption == Owner \notin Others /\ NoLoop \notin Loops
ASSUME RuntimeAssumption == MaxCalls \in Nat

Callers == Others \cup {Owner}

VARIABLES
    m_running,
    m_threadMain,    \* the thread it is joinable with, or NoLoop
    loop,            \* where each thread is in Run()
    pc,              \* where each caller is
    thread,          \* the new thread each Start is about to assign
    process,         \* "up", "daemon" once it was forked, or "terminated"
    background,      \* configuration.RunInBackground
    calls,
    missed,          \* history: the loops that were about to sleep at a notify
    ignored,         \* history: did main's Stop fail although it could succeed?
    failed,          \* history: was a thread not created since the last Stop?
    raced            \* history: were two Starts assigning m_threadMain at once?

vars == <<m_running, m_threadMain, loop, pc, thread, process, background, calls,
          missed, ignored, failed, raced>>
history == <<missed, ignored, failed, raced>>

Live == {l \in Loops : loop[l] \in {"test", "lock", "wait", "woken"}}
Assigning == {c \in Callers : pc[c] \in {"check", "store"}}
GoTo(c, where) == pc' = [pc EXCEPT ![c] = where]
Terminate == process' = "terminated"

-----------------------------------------------------------------------------
Init ==
    /\ m_running = FALSE
    /\ m_threadMain = NoLoop
    /\ loop = [l \in Loops |-> "none"]
    /\ pc = [c \in Callers |-> IF c = Owner THEN "configure" ELSE "idle"]
    /\ thread = [c \in Callers |-> NoLoop]
    /\ process = "up"
    /\ background = FALSE
    /\ calls = 0
    /\ missed = {} /\ ignored = FALSE /\ failed = FALSE /\ raced = FALSE

-----------------------------------------------------------------------------
(* main() up to the start of the runtime. *)

\* The option to run in the background.  Arguments that do not parse are
\* ignored, so any configuration may result; nearobjectsvc has no options.
FromCommandLineArguments ==
    /\ pc[Owner] = "configure"
    /\ background' \in BOOLEAN
    /\ GoTo(Owner, "home")
    /\ UNCHANGED <<m_running, m_threadMain, loop, thread, process, calls, history>>

ThrowsOr(where) ==
    /\ \/ GoTo(Owner, where) /\ UNCHANGED process
       \/ Terminate /\ UNCHANGED pc
    /\ UNCHANGED <<m_running, m_threadMain, loop, thread, background, calls, history>>

\* An exception leaves main if there is no home,
GetUserHomePath == pc[Owner] = "home" /\ ThrowsOr("persister")

\* and if the directory for the profiles cannot be created in it.
ConstructPersister == pc[Owner] = "persister" /\ ThrowsOr("service")

CreateService ==
    /\ pc[Owner] = "service"
    /\ GoTo(Owner, "start")
    /\ UNCHANGED <<m_running, m_threadMain, loop, thread, process, background, calls, history>>

-----------------------------------------------------------------------------
(* Start(). *)

RuntimeExists == pc[Owner] \in {"start", "spawn", "check", "store", "background"}

StartReturns(c) == GoTo(c, IF c = Owner THEN "background" ELSE "idle")

\* A call begins: main's own, or one of the others'.  The exchange fails if
\* m_running is already as asked, or for no reason.
Calls(c, where) ==
    \/ c = Owner /\ pc[c] = where /\ UNCHANGED calls
    \/ /\ c # Owner /\ pc[c] = "idle"
       /\ RuntimeExists
       /\ calls < MaxCalls
       /\ calls' = calls + 1

Start(c) ==
    /\ Calls(c, "start")
    /\ \/ /\ ~m_running
          /\ m_running' = TRUE
          /\ GoTo(c, "spawn")
       \/ StartReturns(c) /\ UNCHANGED m_running
    /\ UNCHANGED <<m_threadMain, loop, thread, process, background, history>>

StartThread(c) ==
    /\ pc[c] = "spawn"
    /\ \E l \in Loops :
        /\ loop[l] = "none"
        /\ loop' = [loop EXCEPT ![l] = "test"]
        /\ thread' = [thread EXCEPT ![c] = l]
    /\ GoTo(c, "check")
    /\ raced' = (raced \/ Assigning # {})
    /\ UNCHANGED <<m_running, m_threadMain, process, background, calls, missed, ignored, failed>>

\* std::thread throws: m_running stays true, and main does not catch it.
StartThreadFails(c) ==
    /\ pc[c] = "spawn"
    /\ failed' = TRUE
    /\ IF c = Owner THEN Terminate /\ UNCHANGED pc
                    ELSE GoTo(c, "idle") /\ UNCHANGED process
    /\ UNCHANGED <<m_running, m_threadMain, loop, thread, background, calls, missed, ignored, raced>>

\* Mutant: the old thread is detached instead.
BugCheckJoinable(c) ==
    /\ pc[c] = "check"
    /\ GoTo(c, "store")
    /\ UNCHANGED <<m_running, m_threadMain, loop, thread, process, background, calls, history>>

\* The assignment of m_threadMain: to assign to a joinable thread terminates.
CheckJoinable(c) ==
    /\ pc[c] = "check"
    /\ IF m_threadMain = NoLoop THEN GoTo(c, "store") /\ UNCHANGED process
                                ELSE Terminate /\ UNCHANGED pc
    /\ UNCHANGED <<m_running, m_threadMain, loop, thread, background, calls, history>>

\* Mutant: the thread is copied and not moved.
BugStoreThread(c) ==
    /\ pc[c] = "store"
    /\ m_threadMain' = thread[c]
    /\ StartReturns(c)
    /\ UNCHANGED <<m_running, loop, thread, process, background, calls, history>>

StoreThread(c) ==
    /\ pc[c] = "store"
    /\ m_threadMain' = thread[c]
    /\ thread' = [thread EXCEPT ![c] = NoLoop]
    /\ StartReturns(c)
    /\ UNCHANGED <<m_running, loop, process, background, calls, history>>

-----------------------------------------------------------------------------
(* Stop(), and the destructor, which is main's call of it and the join. *)

StopReturns(c) == GoTo(c, IF c = Owner THEN "join" ELSE "idle")

\* Mutant: nobody is notified.
BugStop(c) ==
    /\ Calls(c, "destruct")
    /\ m_running' = FALSE
    /\ StopReturns(c)
    /\ failed' = (failed /\ ~m_running)
    /\ UNCHANGED <<m_threadMain, loop, thread, process, background, missed, ignored, raced>>

Stop(c) ==
    /\ Calls(c, "destruct")
    /\ \/ /\ m_running
          /\ m_running' = FALSE
          /\ failed' = FALSE
          /\ GoTo(c, "notify")
          /\ UNCHANGED ignored
       \/ /\ StopReturns(c)
          /\ ignored' = (ignored \/ (c = Owner /\ m_running))
          /\ UNCHANGED <<m_running, failed>>
    /\ UNCHANGED <<m_threadMain, loop, thread, process, background, missed, raced>>

\* Mutant: a sleeping thread is not woken.
BugNotifyOne(c) ==
    /\ pc[c] = "notify"
    /\ missed' = missed \cup {l \in Loops : loop[l] = "lock"}
    /\ StopReturns(c)
    /\ UNCHANGED <<m_running, m_threadMain, loop, thread, process, background, calls, ignored, failed, raced>>

NotifyOne(c) ==
    /\ pc[c] = "notify"
    /\ LET asleep == {l \in Loops : loop[l] = "wait"} IN
        IF asleep = {} THEN UNCHANGED loop
        ELSE \E l \in asleep : loop' = [loop EXCEPT ![l] = "woken"]
    /\ missed' = missed \cup {l \in Loops : loop[l] = "lock"}
    /\ StopReturns(c)
    /\ UNCHANGED <<m_running, m_threadMain, thread, process, background, calls, ignored, failed, raced>>

\* daemon(): the parent exits, and of its threads the child has only the one
\* that called it.
Daemonize ==
    /\ pc[Owner] = "background"
    /\ background
    /\ \/ /\ process' = "daemon"
          /\ loop' = [l \in Loops |-> IF l \in Live THEN "gone" ELSE loop[l]]
          /\ pc' = [c \in Callers |-> IF c = Owner THEN "leave" ELSE "gone"]
       \/ Terminate /\ UNCHANGED <<loop, pc>>
    /\ UNCHANGED <<m_running, m_threadMain, thread, background, calls, history>>

StayInForeground ==
    /\ pc[Owner] = "background"
    /\ ~background
    /\ GoTo(Owner, "leave")
    /\ UNCHANGED <<m_running, m_threadMain, loop, thread, process, background, calls, history>>

\* main returns at once.  Others must not be using what it destroys.
LeaveMain ==
    /\ pc[Owner] = "leave"
    /\ \A c \in Others : pc[c] \in {"idle", "gone"}
    /\ GoTo(Owner, "destruct")
    /\ UNCHANGED <<m_running, m_threadMain, loop, thread, process, background, calls, history>>

\* Mutant: the thread is detached.
BugJoin ==
    /\ pc[Owner] = "join"
    /\ GoTo(Owner, "destroyed")
    /\ m_threadMain' = NoLoop
    /\ UNCHANGED <<m_running, loop, thread, process, background, calls, history>>

Join ==
    /\ pc[Owner] = "join"
    /\ m_threadMain # NoLoop => loop[m_threadMain] = "done"
    /\ GoTo(Owner, "destroyed")
    /\ m_threadMain' = NoLoop
    /\ UNCHANGED <<m_running, loop, thread, process, background, calls, history>>

-----------------------------------------------------------------------------
(* Run(). *)

LoopGoTo(l, where) ==
    /\ loop' = [loop EXCEPT ![l] = where]
    /\ UNCHANGED <<m_running, m_threadMain, pc, thread, process, background, calls, ignored, failed, raced>>

TestRunning(l) ==
    /\ loop[l] = "test"
    /\ LoopGoTo(l, IF m_running THEN "lock" ELSE "done")
    /\ UNCHANGED missed

Sleep(l) ==
    /\ loop[l] = "lock"
    /\ LoopGoTo(l, "wait")
    /\ UNCHANGED missed

WakeSpuriously(l) ==
    /\ loop[l] = "wait"
    /\ LoopGoTo(l, "woken")
    /\ UNCHANGED missed

\* Mutant: the loop handles one event and ends.
BugWake(l) ==
    /\ loop[l] = "woken"
    /\ LoopGoTo(l, "done")
    /\ missed' = missed \ {l}

\* HandleEvent does nothing.
Wake(l) ==
    /\ loop[l] = "woken"
    /\ LoopGoTo(l, IF m_running THEN "test" ELSE "done")
    /\ missed' = missed \ {l}

-----------------------------------------------------------------------------
Running == process # "terminated"

MainStep ==
    FromCommandLineArguments \/ GetUserHomePath \/ ConstructPersister \/ CreateService
        \/ Daemonize \/ StayInForeground \/ LeaveMain \/ Join

CallStep(c) == StartThread(c) \/ StartThreadFails(c) \/ CheckJoinable(c) \/ StoreThread(c) \/ NotifyOne(c)

LoopStep(l) == TestRunning(l) \/ Sleep(l) \/ Wake(l)

Next ==
    /\ Running
    /\ \/ MainStep
       \/ \E c \in Callers : Start(c) \/ Stop(c) \/ CallStep(c)
       \/ \E l \in Loops : LoopStep(l) \/ WakeSpuriously(l)

Spec == Init /\ [][Next]_vars

\* Every thread of the process is scheduled.  No one has to call Start or
\* Stop but main, and no sleeping thread has to wake by itself.
FairSpec ==
    /\ Spec
    /\ WF_vars(Running /\ (MainStep \/ Start(Owner) \/ Stop(Owner)))
    /\ \A c \in Callers : WF_vars(Running /\ CallStep(c))
    /\ \A l \in Loops : WF_vars(Running /\ LoopStep(l))

-----------------------------------------------------------------------------
LoopPlaces == {"none", "test", "lock", "wait", "woken", "done", "gone"}
CallerPlaces ==
    {"idle", "configure", "home", "persister", "service", "start", "spawn", "check", "store",
     "background", "leave", "destruct", "notify", "join", "destroyed", "gone"}

\* The types; a caller has a new thread in hand exactly while it assigns it.
RuntimeTypeOK ==
    /\ m_running \in BOOLEAN
    /\ m_threadMain \in Loops \cup {NoLoop}
    /\ loop \in [Loops -> LoopPlaces]
    /\ pc \in [Callers -> CallerPlaces]
    /\ thread \in [Callers -> Loops \cup {NoLoop}]
    /\ \A c \in Callers : pc[c] # "gone" =>
           (thread[c] # NoLoop <=> pc[c] \in {"check", "store"})
    /\ process \in {"up", "daemon", "terminated"}
    /\ background \in BOOLEAN
    /\ calls \in 0..MaxCalls
    /\ missed \subseteq Loops
    /\ ignored \in BOOLEAN /\ failed \in BOOLEAN /\ raced \in BOOLEAN

\* A Start after a Stop, about to assign to m_threadMain, which is joinable.
Restarting == m_threadMain # NoLoop /\ \E c \in Callers : pc[c] = "check"

\* A thread that sleeps in a runtime that was stopped is about to be notified,
\* or the notification came after it had read m_running and before it slept:
\* that window, and no other, loses a wake-up of the one thread there is.
SleepersAreNotified ==
    ~m_running /\ ~raced /\ ~Restarting =>
        \A l \in Loops : loop[l] = "wait" =>
            l \in missed \/ \E c \in Callers : pc[c] = "notify"

\* A runtime that says it is running has a thread that runs, or is about to
\* create it, unless no thread could be created or it was left to the parent
\* by the fork.
RunningHasLoop ==
    m_running => \/ Live # {}
                 \/ \E c \in Callers : pc[c] = "spawn"
                 \/ failed
                 \/ process = "daemon"

\* Two threads never run the loop of one runtime beyond the assignment that
\* would lose the first of them: a second Start terminates the process there,
\* unless two Starts assign at once.
OneLoop == Running /\ ~raced => Cardinality(Live) <= 1 + Cardinality(Assigning)

\* No thread uses the runtime once it is destroyed, unless two Starts
\* assigned m_threadMain at once and one thread was lost.
NoLoopAfterDestruction == pc[Owner] = "destroyed" /\ ~raced => Live = {}

\* main ends: its destructor returns, unless the process terminates, has become
\* a daemon that joins a thread only its parent had, the thread never hears of
\* the wake-up it missed, the exchange of main's own Stop failed for no reason,
\* or a thread was lost.
MainEnds ==
    <>[](\/ pc[Owner] = "destroyed"
         \/ process = "terminated"
         \/ process = "daemon" /\ m_threadMain # NoLoop
         \/ missed # {}
         \/ ignored
         \/ raced)
=============================================================================
