--------------------------- MODULE SerialExecutor ---------------------------
(***************************************************************************)
(* What notstd::task_queue promises those who post to it, with no mutex,   *)
(* thread or notification: tasks start one at a time in the order they     *)
(* were submitted; closing the executor refuses new tasks and may revoke   *)
(* the tail of the line; only revoked tasks may be left without a run, and *)
(* they learn of it when the executor is retired.  TaskQueue implements    *)
(* it; NearObjectSession is composed on it.                                *)
(***************************************************************************)
EXTENDS Sequences, Integers, Functions

CONSTANT Tasks

VARIABLES
    status,    \* "unborn", "open", "closed" or "gone"
    line,      \* submitted and not begun, in order
    active,    \* the task that runs: a set of at most one
    outcome,   \* what the future of each task tells
    revoked    \* tasks somebody asked not to run

executor_vars == <<status, line, active, outcome, revoked>>

ExecutorTypeOK ==
    /\ status \in {"unborn", "open", "closed", "gone"}
    /\ line \in Seq(Tasks)
    /\ active \in SUBSET Tasks
    /\ outcome \in [Tasks -> {"none", "pending", "ready", "broken"}]
    /\ revoked \in SUBSET Tasks

ExecutorInit ==
    /\ status = "unborn"
    /\ line = <<>>
    /\ active = {}
    /\ outcome = [t \in Tasks |-> "none"]
    /\ revoked = {}

\* The constructor succeeds, or throws and leaves nothing.
Create ==
    /\ status = "unborn"
    /\ status' \in {"open", "gone"}
    /\ UNCHANGED <<line, active, outcome, revoked>>

Submit(t) ==
    /\ status = "open"
    /\ outcome[t] = "none"
    /\ line' = Append(line, t)
    /\ outcome' = [outcome EXCEPT ![t] = "pending"]
    /\ UNCHANGED <<status, active, revoked>>

Begin ==
    /\ active = {}
    /\ line # <<>>
    /\ active' = {Head(line)}
    /\ line' = Tail(line)
    /\ UNCHANGED <<status, outcome, revoked>>

Complete ==
    /\ active # {}
    /\ outcome' = [t \in Tasks |-> IF t \in active THEN "ready" ELSE outcome[t]]
    /\ active' = {}
    /\ UNCHANGED <<status, line, revoked>>

\* Revoke the line from its k-th task on; k = Len(line) + 1 revokes nothing.
Close(k) ==
    /\ status \in {"open", "closed"}
    /\ status' = "closed"
    /\ revoked' = revoked \cup Range(SubSeq(line, k, Len(line)))
    /\ UNCHANGED <<line, active, outcome>>

Retire ==
    /\ status = "closed"
    /\ active = {}
    /\ Range(line) \subseteq revoked
    /\ status' = "gone"
    /\ line' = <<>>
    /\ outcome' = [t \in Tasks |-> IF t \in Range(line) THEN "broken" ELSE outcome[t]]
    /\ UNCHANGED <<active, revoked>>

ExecutorNext ==
    \/ Create
    \/ \E t \in Tasks : Submit(t)
    \/ Begin
    \/ Complete
    \/ \E k \in 1..(Len(line) + 1) : Close(k)
    \/ Retire

ExecutorSpec == ExecutorInit /\ [][ExecutorNext]_executor_vars

\* A task that nobody revoked gets its turn, and a task that began returns.
BeginKept == Begin /\ Head(line) \notin revoked

ExecutorFairness ==
    /\ WF_executor_vars(BeginKept)
    /\ WF_executor_vars(Complete)

ExecutorFairSpec == ExecutorSpec /\ ExecutorFairness

-----------------------------------------------------------------------------
\* A task that waits in the line, runs, or is done says so in its future, and a
\* broken promise was revoked: the four views of a task never disagree.
FutureAgrees ==
    \A t \in Tasks :
        /\ outcome[t] = "pending" <=> t \in Range(line) \cup active
        /\ outcome[t] = "broken" => t \in revoked
=============================================================================
