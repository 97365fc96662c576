----------------------------- MODULE TaskQueue -----------------------------
(***************************************************************************)
(* notstd::task_queue: a mutex, a condition variable, a FIFO of packaged   *)
(* tasks and one worker thread (lib/shared/notstd/task_queue.cxx).         *)
(*                                                                         *)
(* One action per critical section of m_runnables_changed_gate, because    *)
(* the lock hides everything inside it.  What the code does after giving   *)
(* the lock back (notify_all, join, running a task) is a step of its own,  *)
(* and any other thread may act in between.  The worker is the only thread *)
(* that ever waits on m_runnables_changed, so a notification made by the   *)
(* worker itself wakes nobody and is part of the step that precedes it.    *)
(*                                                                         *)
(* A definition whose name begins with Bug is not part of the model: it is *)
(* the definition after it with a plausible mistake, which the runs must   *)
(* notice.                                                                 *)
(***************************************************************************)
EXTENDS Sequences, Functions

CONSTANTS
    Tasks,      \* the runnables that are ever posted, each at most once
    Clients,    \* threads that post, stop and wait
    Owner       \* the thread that constructs and destroys the queue

Callers == Clients \cup {Owner}

ASSUME OwnerAssumption == Owner \notin Clients

VARIABLES
    m_state,      \* enum class state
    m_runnables,  \* the queue guarded by m_runnables_changed_gate
    tasks,        \* process_queue's local queue: popped, not started yet
    worker,       \* where the worker thread is
    pc,           \* where each caller is
    joinable,     \* m_thread.joinable()
    destroying,   \* ~task_queue() has been entered
    future,       \* the shared state behind each std::future<void>
    posted,       \* history: tasks accepted by post(), in order
    ran,          \* history: tasks the worker started, in order
    canceled,     \* history: tasks that were pending when a cancel came
    revived       \* history: canceled ones still pending at a later default stop,
                  \* one that the program called or the destructor's own

worker_vars == <<tasks, worker, ran>>
history_vars == <<canceled, revived>>
vars == <<m_state, m_runnables, tasks, worker, pc, joinable, destroying, future,
          posted, ran, canceled, revived>>

State == {"running", "stopping", "canceling", "stopped"}

\* "none" before std::thread starts, "ready" about to take the lock and test the
\* predicate, "waiting" inside m_runnables_changed.wait, "draining" between two
\* tasks of the batch, "busy" inside a task, "exited" out of process_queue.
WorkerState == {"none", "ready", "waiting", "draining", "busy", "exited"}

\* The last two states belong to the owner alone: "destruct" is the end of the
\* destructor's body, "dead" the end of the object (or of a failed constructor).
CallerState == {"idle", "construct", "constructing", "notify", "notify_join",
                "join", "joining", "destruct", "dead"}

FutureState == {"none", "pending", "ready", "broken"}

TypeOK ==
    /\ m_state \in State
    /\ m_runnables \in Seq(Tasks)
    /\ tasks \in Seq(Tasks)
    /\ worker \in WorkerState
    /\ pc \in [Callers -> CallerState]
    /\ joinable \in BOOLEAN
    /\ destroying \in BOOLEAN
    /\ future \in [Tasks -> FutureState]
    /\ posted \in Seq(Tasks)
    /\ ran \in Seq(Tasks)
    /\ canceled \in SUBSET Tasks
    /\ revived \in [{"call", "destructor"} -> SUBSET Tasks]

-----------------------------------------------------------------------------
(* The two predicates on m_state, both called with the gate held.          *)

StopPending == m_state \in {"stopping", "canceling"}

BugExitUndrained == StopPending

BugExitOnlyDrained == StopPending /\ m_runnables = <<>>

BugExitOnlyCanceled == m_state = "canceling"

ShouldExit ==
    \/ m_state = "stopping" /\ m_runnables = <<>>
    \/ m_state = "canceling"

\* A caller whose notify_all on m_runnables_changed is still to come.
WillNotify(c) == pc[c] \in {"notify", "notify_join"}

\* The queue may be called from outside: constructed, and its destructor not
\* entered.  Calling it later is undefined, and the language's lifetime rules put
\* that on the caller; a task running on the worker is not bound by it, because
\* the destructor waits for the worker.
Usable == /\ ~destroying
          /\ pc[Owner] \notin {"construct", "constructing", "dead"}

-----------------------------------------------------------------------------
(* Construction.                                                           *)

Init ==
    /\ m_state = "stopped"
    /\ m_runnables = <<>>
    /\ tasks = <<>>
    /\ worker = "none"
    /\ pc = [c \in Callers |-> IF c = Owner THEN "construct" ELSE "idle"]
    /\ joinable = FALSE
    /\ destroying = FALSE
    /\ future = [t \in Tasks |-> "none"]
    /\ posted = <<>>
    /\ ran = <<>>
    /\ canceled = {}
    /\ revived = [by \in {"call", "destructor"} |-> {}]

\* m_thread = std::thread(&task_queue::process_queue, this)
ConstructThread ==
    /\ pc[Owner] = "construct"
    /\ worker' = "ready"
    /\ joinable' = TRUE
    /\ pc' = [pc EXCEPT ![Owner] = "constructing"]
    /\ UNCHANGED <<m_state, m_runnables, tasks, destroying, future, posted, ran,
                   history_vars>>

\* std::thread throws and the constructor turns it into creation_exception.
ConstructFails ==
    /\ pc[Owner] = "construct"
    /\ pc' = [pc EXCEPT ![Owner] = "dead"]
    /\ UNCHANGED <<m_state, m_runnables, worker_vars, joinable, destroying,
                   future, posted, history_vars>>

\* m_state = state::running, without the lock, while the worker already runs:
\* the worker reads either value, and neither makes it leave.
ConstructRunning ==
    /\ pc[Owner] = "constructing"
    /\ m_state' = "running"
    /\ pc' = [pc EXCEPT ![Owner] = "idle"]
    /\ UNCHANGED <<m_runnables, worker_vars, joinable, destroying, future, posted,
                   history_vars>>

-----------------------------------------------------------------------------
(* post.  A post that finds a stop pending throws and changes nothing, so  *)
(* it is a stuttering step.                                                *)

BugEnqueueStopped(t) ==
    /\ future[t] = "none"
    /\ m_runnables' = Append(m_runnables, t)
    /\ posted' = Append(posted, t)
    /\ future' = [future EXCEPT ![t] = "pending"]
    /\ UNCHANGED <<m_state, worker_vars, joinable, destroying, history_vars>>

Enqueue(t) ==
    /\ ~StopPending
    /\ future[t] = "none"
    /\ m_runnables' = Append(m_runnables, t)
    /\ posted' = Append(posted, t)
    /\ future' = [future EXCEPT ![t] = "pending"]
    /\ UNCHANGED <<m_state, worker_vars, joinable, destroying, history_vars>>

BugPostSilently(c, t) ==
    /\ Usable
    /\ pc[c] = "idle"
    /\ Enqueue(t)
    /\ UNCHANGED pc

\* From outside: notify only if the queue was empty, after the lock is released.
Post(c, t) ==
    /\ Usable
    /\ pc[c] = "idle"
    /\ Enqueue(t)
    /\ pc' = IF m_runnables = <<>> THEN [pc EXCEPT ![c] = "notify"] ELSE pc

\* From a task on the worker thread.
PostFromTask(t) ==
    /\ worker = "busy"
    /\ Enqueue(t)
    /\ UNCHANGED pc

-----------------------------------------------------------------------------
(* stop, stop_and_wait_for_task_completion and the destructor.             *)

BugSetStopRaw(action, by) ==
    /\ m_state' = action
    /\ UNCHANGED <<m_runnables, worker_vars, joinable, future, posted, history_vars>>

\* The critical section of stop(): the state is overwritten whatever it was.
SetStop(action, by) ==
    /\ m_state' = IF action = "cancel" THEN "canceling" ELSE "stopping"
    /\ canceled' = IF action = "cancel" THEN canceled \cup Range(m_runnables)
                   ELSE canceled
    /\ revived' = IF action = "cancel" THEN revived
                  ELSE [revived EXCEPT ![by] = @ \cup (canceled \cap Range(m_runnables))]
    /\ UNCHANGED <<m_runnables, worker_vars, joinable, future, posted>>

Stop(c, action) ==
    /\ Usable
    /\ pc[c] = "idle"
    /\ SetStop(action, "call")
    /\ pc' = [pc EXCEPT ![c] = "notify"]
    /\ UNCHANGED destroying

\* A task that calls stop_and_wait_for_task_completion does the same with "run":
\* its join of its own thread fails with resource_deadlock_would_occur, and the
\* handler swallows that.
StopFromTask(action) ==
    /\ worker = "busy"
    /\ SetStop(action, "call")
    /\ UNCHANGED <<pc, destroying>>

StopAndWait(c) ==
    /\ Usable
    /\ pc[c] = "idle"
    /\ SetStop("run", "call")
    /\ pc' = [pc EXCEPT ![c] = "notify_join"]
    /\ UNCHANGED destroying

\* ~task_queue() starts, when no other thread is inside a call.
Destroy ==
    /\ Usable
    /\ \A c \in Callers : pc[c] = "idle"
    /\ destroying' = TRUE
    /\ SetStop("run", "destructor")
    /\ pc' = [pc EXCEPT ![Owner] = "notify_join"]

BugNotifyNobody(c) ==
    /\ WillNotify(c)
    /\ pc' = [pc EXCEPT ![c] = IF @ = "notify" THEN "idle" ELSE "join"]
    /\ UNCHANGED <<m_state, m_runnables, worker_vars, joinable, destroying, future,
                   posted, history_vars>>

\* m_runnables_changed.notify_all(), outside the lock.
Notify(c) ==
    /\ WillNotify(c)
    /\ worker' = IF worker = "waiting" THEN "ready" ELSE worker
    /\ pc' = [pc EXCEPT ![c] = IF @ = "notify" THEN "idle" ELSE "join"]
    /\ UNCHANGED <<m_state, m_runnables, tasks, joinable, destroying, future,
                   posted, ran, history_vars>>

\* Where stop_and_wait_for_task_completion returns to.
Return(c) ==
    pc' = [pc EXCEPT ![c] = IF c = Owner /\ destroying THEN "destruct" ELSE "idle"]

\* if (m_thread.joinable()) m_thread.join(): blocks unless another caller is
\* blocked in it.
JoinBlock(c) ==
    /\ pc[c] = "join"
    /\ joinable
    /\ \A d \in Callers : pc[d] # "joining"
    /\ pc' = [pc EXCEPT ![c] = "joining"]
    /\ UNCHANGED <<m_state, m_runnables, worker_vars, joinable, destroying, future,
                   posted, history_vars>>

BugJoinSkipAlways(c) ==
    /\ pc[c] = "join"
    /\ Return(c)
    /\ UNCHANGED <<m_state, m_runnables, worker_vars, joinable, destroying, future,
                   posted, history_vars>>

\* Nothing to join; or a second thread joins at the same time: pthread_join
\* answers EINVAL, join() throws system_error, and the handler swallows it.
JoinSkip(c) ==
    /\ pc[c] = "join"
    /\ ~joinable \/ \E d \in Callers : pc[d] = "joining"
    /\ Return(c)
    /\ UNCHANGED <<m_state, m_runnables, worker_vars, joinable, destroying, future,
                   posted, history_vars>>

BugJoinDetached(c) ==
    /\ pc[c] = "joining"
    /\ joinable' = FALSE
    /\ Return(c)
    /\ UNCHANGED <<m_state, m_runnables, worker_vars, destroying, future, posted,
                   history_vars>>

JoinDone(c) ==
    /\ pc[c] = "joining"
    /\ worker = "exited"
    /\ joinable' = FALSE
    /\ Return(c)
    /\ UNCHANGED <<m_state, m_runnables, worker_vars, destroying, future, posted,
                   history_vars>>

BugDestructSilently ==
    /\ pc[Owner] = "destruct"
    /\ m_runnables' = <<>>
    /\ pc' = [pc EXCEPT ![Owner] = "dead"]
    /\ UNCHANGED <<m_state, worker_vars, joinable, destroying, future, posted,
                   history_vars>>

\* The members go: the promises of what is left in m_runnables are broken.
Destruct ==
    /\ pc[Owner] = "destruct"
    /\ m_runnables' = <<>>
    /\ future' = [t \in Tasks |-> IF t \in Range(m_runnables) THEN "broken"
                                  ELSE future[t]]
    /\ pc' = [pc EXCEPT ![Owner] = "dead"]
    /\ UNCHANGED <<m_state, worker_vars, joinable, destroying, posted, history_vars>>

-----------------------------------------------------------------------------
(* process_queue.                                                          *)

\* The predicate is false under the lock: the worker starts to wait.
WorkerWait ==
    /\ worker = "ready"
    /\ m_runnables = <<>>
    /\ ~ShouldExit
    /\ worker' = "waiting"
    /\ UNCHANGED <<m_state, m_runnables, tasks, pc, joinable, destroying, future,
                   posted, ran, history_vars>>

\* condition_variable::wait may return with no notification.
WorkerSpuriousWake ==
    /\ worker = "waiting"
    /\ worker' = "ready"
    /\ UNCHANGED <<m_state, m_runnables, tasks, pc, joinable, destroying, future,
                   posted, ran, history_vars>>

WorkerExit ==
    /\ worker = "ready"
    /\ ShouldExit
    /\ worker' = "exited"
    /\ UNCHANGED <<m_state, m_runnables, tasks, pc, joinable, destroying, future,
                   posted, ran, history_vars>>

BugTakeCopy ==
    /\ worker = "ready"
    /\ m_runnables # <<>>
    /\ ~ShouldExit
    /\ tasks' = m_runnables
    /\ worker' = "draining"
    /\ UNCHANGED <<m_state, m_runnables, pc, joinable, destroying, future, posted, ran,
                   history_vars>>

\* All that is queued becomes one batch.
WorkerTake ==
    /\ worker = "ready"
    /\ m_runnables # <<>>
    /\ ~ShouldExit
    /\ tasks' = m_runnables
    /\ m_runnables' = <<>>
    /\ worker' = "draining"
    /\ UNCHANGED <<m_state, pc, joinable, destroying, future, posted, ran,
                   history_vars>>

StartTask ==
    /\ worker = "draining"
    /\ tasks # <<>>
    /\ ran' = Append(ran, Head(tasks))
    /\ tasks' = Tail(tasks)
    /\ worker' = "busy"
    /\ UNCHANGED <<m_state, m_runnables, pc, joinable, destroying, future, posted,
                   history_vars>>

\* The packaged_task stores a value or the exception the runnable threw.
FinishTask ==
    /\ worker = "busy"
    /\ future' = [future EXCEPT ![ran[Len(ran)]] = "ready"]
    /\ worker' = "draining"
    /\ UNCHANGED <<m_state, m_runnables, tasks, pc, joinable, destroying, posted,
                   ran, history_vars>>

\* The batch is empty: back to the top of for (;;).
BatchDone ==
    /\ worker = "draining"
    /\ tasks = <<>>
    /\ worker' = "ready"
    /\ UNCHANGED <<m_state, m_runnables, tasks, pc, joinable, destroying, future,
                   posted, ran, history_vars>>

-----------------------------------------------------------------------------
(* Specification.                                                          *)

\* The object is gone: nothing is left to do.
Terminated == pc[Owner] = "dead" /\ UNCHANGED vars

CallerStep(c) ==
    \/ \E t \in Tasks : Post(c, t)
    \/ \E action \in {"run", "cancel"} : Stop(c, action)
    \/ StopAndWait(c)
    \/ Notify(c)
    \/ JoinBlock(c)
    \/ JoinSkip(c)
    \/ JoinDone(c)

OwnerStep ==
    \/ ConstructThread
    \/ ConstructFails
    \/ ConstructRunning
    \/ Destroy
    \/ Destruct

TaskStep ==
    \/ \E t \in Tasks : PostFromTask(t)
    \/ \E action \in {"run", "cancel"} : StopFromTask(action)

WorkerStep ==
    \/ WorkerWait
    \/ WorkerSpuriousWake
    \/ WorkerExit
    \/ WorkerTake
    \/ StartTask
    \/ FinishTask
    \/ BatchDone

Next ==
    \/ \E c \in Callers : CallerStep(c)
    \/ OwnerStep
    \/ TaskStep
    \/ WorkerStep
    \/ Terminated

Spec == Init /\ [][Next]_vars

\* The scheduler runs every thread that can run; a task that was started returns;
\* a caller that is inside a call goes on.  Nobody has to call anything, and no
\* spurious wake-up is promised.
Fairness ==
    /\ WF_vars(ConstructRunning)
    /\ WF_vars(WorkerWait \/ WorkerExit \/ WorkerTake)
    /\ WF_vars(StartTask)
    /\ WF_vars(FinishTask)
    /\ WF_vars(BatchDone)
    /\ \A c \in Callers : WF_vars(Notify(c))
    /\ \A c \in Callers : WF_vars(JoinBlock(c) \/ JoinSkip(c) \/ JoinDone(c))
    /\ WF_vars(Destruct)

FairSpec == Spec /\ Fairness

-----------------------------------------------------------------------------
(* Safety.                                                                 *)

\* Nothing that was posted is lost, run twice or run out of order, across the two
\* queues and a stop at any point: post's FIFO promise (task_queue.hxx:28-29).
SerialOrder ==
    IF pc[Owner] = "dead"
    THEN \E dropped \in [1..(Len(posted) - Len(ran)) -> Tasks] : posted = ran \o dropped
    ELSE posted = (ran \o tasks) \o m_runnables

\* A worker asleep with something to do has a wake-up on its way, although post
\* notifies only when the queue was empty and both notify after unlocking.
NoLostWakeup ==
    worker = "waiting" /\ (m_runnables # <<>> \/ ShouldExit)
        => \E c \in Callers : WillNotify(c)

\* A task that a cancel found pending runs only if a later default stop took the
\* cancel back (stop overwrites m_state).
CancelHolds ==
    canceled \cap (Range(ran) \cup Range(tasks))
        \subseteq revived["call"] \cup revived["destructor"]

\* The worker leaves behind only tasks that some stop canceled, and only those
\* ever answer their futures with a broken promise.
OnlyCanceledDropped ==
    /\ worker = "exited" => Range(m_runnables) \subseteq canceled
    /\ \A t \in Tasks : future[t] = "broken" => t \in canceled

\* When the destructor comes to the members, the thread is joined, so ~thread does
\* not call std::terminate, and nothing uses the members afterwards.
SafeDestruction ==
    pc[Owner] = "destruct" \/ (pc[Owner] = "dead" /\ destroying)
        => /\ ~joinable
           /\ worker = "exited"
           /\ \A c \in Clients : pc[c] = "idle"

\* stop_and_wait_for_task_completion called by one thread at a time comes back
\* only after the worker has left process_queue.
WaitReturnsAfterExit ==
    [][\A c \in Callers :
          /\ pc[c] \in {"join", "joining"}
          /\ pc'[c] \in {"idle", "destruct"}
          /\ \A d \in Callers \ {c} : pc[d] # "joining"
          => worker = "exited"]_vars

-----------------------------------------------------------------------------
(* The executor that the queue implements.                                 *)

\* The executor's life as seen from outside.
ExecutorStatus ==
    IF pc[Owner] \in {"construct", "constructing"} THEN "unborn"
    ELSE IF pc[Owner] = "dead" THEN "gone"
    ELSE IF StopPending THEN "closed" ELSE "open"

\* The task the worker is in: the last it started.
Active == IF worker = "busy" THEN {ran[Len(ran)]} ELSE {}

Executor == INSTANCE SerialExecutor
            WITH status <- ExecutorStatus,
                 line <- tasks \o m_runnables,
                 active <- Active,
                 outcome <- future,
                 revoked <- canceled

\* Every step of the queue is a step of the serial executor, or none.
ImplementsExecutor == Executor!ExecutorSpec

\* With the worker scheduled, the queue keeps the executor's fairness as well.
ImplementsFairExecutor == Executor!ExecutorFairSpec

\* The future of a task never disagrees with where the task is: pending while it is
\* queued, taken or run, broken only after a cancel.
FutureAgrees == Executor!FutureAgrees

-----------------------------------------------------------------------------
(* What the header and the tests say, and the code does not do.            *)

\* task_queue.hxx:92-94 and TestNotStdTaskQueue.cxx:364-365: a task pending at a
\* cancel does not run, the destruction of the queue included, unless the program
\* itself stops the queue again without a cancel.
CanceledNeverRun == canceled \cap Range(ran) \subseteq revived["call"]

-----------------------------------------------------------------------------
(* Liveness.                                                               *)

\* An accepted task runs to its end unless a stop cancels it (post's promise,
\* task_queue.hxx:42-45), destruction or not.
EveryTaskAnswered ==
    \A t \in Tasks : future[t] = "pending" ~> (future[t] = "ready" \/ t \in canceled)

\* The destructor returns: no task, stop or notification can hang its join.
DestructorReturns == destroying ~> pc[Owner] = "dead"

\* A thread inside stop_and_wait_for_task_completion comes back.
WaitReturns == \A c \in Callers : pc[c] = "notify_join" ~> pc[c] \in {"idle", "dead"}
=============================================================================
