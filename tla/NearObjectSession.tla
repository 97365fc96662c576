------------------------- MODULE NearObjectSession -------------------------
(***************************************************************************)
(* nearobject::NearObjectSession: a list of member objects, a ranging flag *)
(* and a stream of events to a registered callbacks object, which a        *)
(* task_queue of the session delivers on its worker thread                 *)
(* (lib/nearobject/NearObjectSession.cxx).                                 *)
(*                                                                         *)
(* The queue is the SerialExecutor that TaskQueue implements; its tasks    *)
(* are the events, numbered as they are posted.  Each operation changes    *)
(* the state and posts its event under one mutex of the session, so it is  *)
(* one action; EndSession, which posts outside the mutex, is two.  Calls   *)
(* come from other threads and from inside a callback, and so may the      *)
(* destructor, where the last shared_ptr is dropped.                       *)
(*                                                                         *)
(* A definition whose name begins with Bug is not part of the model: it is *)
(* the definition after it with a plausible mistake, which the runs must   *)
(* notice.                                                                 *)
(***************************************************************************)
EXTENDS Sequences, SequencesExt, Integers, FiniteSets, Selection

CONSTANTS
    Objects,     \* near objects, by identity (std::shared_ptr)
    Users,       \* threads that share the session
    Owner,       \* the thread that constructs it and owns it
    Callback,    \* the worker thread, while it is inside a callback
    MaxArgs,     \* bound: objects passed in one call
    MaxMembers,  \* bound: members of a session
    MaxEvents    \* bound: events posted in a session's life

Callers == Users \cup {Owner, Callback}

ASSUME CallersAssumption == Owner \notin Users /\ Callback \notin Users /\ Owner # Callback
ASSUME UsersAssumption == IsFiniteSet(Users)
ASSUME BoundsAssumption == MaxArgs \in Nat /\ MaxMembers \in Nat /\ MaxEvents \in Nat
\* A destructor posts two events at most.
ASSUME EventsAssumption == MaxEvents >= 2

VARIABLES
    m_capabilities,    \* m_capabilities.SupportsRanging
    m_rangingSession,  \* m_rangingSession.has_value()
    m_nearObjects,     \* the members, in order
    callbacks,         \* "held" while somebody outside owns the callbacks object
    pc,                \* where each caller is
    status, line, active, outcome, revoked,   \* m_taskQueue
    log,               \* history: events posted
    delivered,         \* history: numbers of the events the callbacks received
    initial            \* history: the members given to the constructor

executor_vars == <<status, line, active, outcome, revoked>>
session_vars == <<m_rangingSession, m_nearObjects>>
vars == <<m_capabilities, m_rangingSession, m_nearObjects, callbacks, pc,
          executor_vars, log, delivered, initial>>

m_taskQueue == INSTANCE SerialExecutor WITH Tasks <- 1..MaxEvents

Arguments == BoundedSeq(Objects, MaxArgs) \ {<<>>}

NoObjects == <<>>
Event(kind, added, removed) == [kind |-> kind, added |-> added, removed |-> removed]
OnRangingStarted == Event("started", NoObjects, NoObjects)
OnRangingStopped == Event("stopped", NoObjects, NoObjects)
OnNearObjectPropertiesChanged == Event("properties", NoObjects, NoObjects)
OnSessionMembershipChanged(added, removed) == Event("membership", added, removed)
OnSessionEnded == Event("ended", NoObjects, NoObjects)

CallerState == {"construct", "idle", "ending", "destroying", "destroy_queue",
                "drain", "gone", "terminated"}

SessionTypeOK ==
    /\ m_capabilities \in BOOLEAN
    /\ m_rangingSession \in BOOLEAN
    /\ m_nearObjects \in Seq(Objects)
    /\ callbacks \in {"held", "released"}
    /\ pc \in [Callers -> CallerState]
    /\ m_taskQueue!ExecutorTypeOK
    /\ log \in Seq([kind : {"started", "stopped", "properties", "membership", "ended"},
                    added : Seq(Objects), removed : Seq(Objects)])
    /\ delivered \in Seq(1..MaxEvents)
    /\ initial \in Seq(Objects)

-----------------------------------------------------------------------------
(* Near objects compare by their spatial properties (NearObject.cxx:15-20),*)
(* which start empty and which no code assigns.                            *)

SpatialProperties == [o \in Objects |-> "empty"]
SameValue(o, p) == SpatialProperties[o] = SpatialProperties[p]
NewTo(members) == {o \in Objects : \A p \in ToSet(members) : ~SameValue(o, p)}

-----------------------------------------------------------------------------
\* The callback runs: the task has begun and found its callbacks object.
InCallback == active # {} /\ delivered # <<>> /\ Last(delivered) \in active

\* A caller may enter an operation: a thread while the session lives, a callback
\* while it runs, even when the destructor is waiting for it.
MayCall(c) ==
    /\ pc[c] = "idle"
    /\ IF c = Callback THEN InCallback ELSE pc[Owner] = "idle"

\* Bound: n more events fit, with those still due from EndSession and the
\* destructor.  It binds only calls whose events are accepted.
Room(n) ==
    status = "open" =>
        Len(log) + n + 2 + Cardinality({c \in Callers : pc[c] = "ending"}) <= MaxEvents

Post(event) ==
    /\ log' = Append(log, event)
    /\ m_taskQueue!Submit(Len(log) + 1)

\* InvokeEventCallback: post throws once ~task_queue has asked the queue to stop,
\* after the caller has changed its state.
InvokeEventCallback(event) ==
    IF status = "open" THEN Post(event) ELSE UNCHANGED <<log, executor_vars>>

-----------------------------------------------------------------------------
Init ==
    /\ m_capabilities \in BOOLEAN
    /\ m_rangingSession = FALSE
    /\ initial \in BoundedSeq(Objects, MaxArgs)
    /\ m_nearObjects = initial
    /\ callbacks = "held"
    /\ pc = [c \in Callers |-> IF c = Owner THEN "construct" ELSE "idle"]
    /\ m_taskQueue!ExecutorInit
    /\ log = <<>>
    /\ delivered = <<>>

\* The last member, m_taskQueue, is constructed, or throws creation_exception.
Construct ==
    /\ pc[Owner] = "construct"
    /\ m_taskQueue!Create
    /\ pc' = [pc EXCEPT ![Owner] = IF status' = "open" THEN "idle" ELSE "gone"]
    /\ UNCHANGED <<m_capabilities, session_vars, callbacks, log, delivered, initial>>

BugAddSignalsAll(c, nearObjectsToAdd) ==
    LET pruned == Selected(nearObjectsToAdd, NewTo(m_nearObjects))
    IN  /\ MayCall(c)
        /\ Room(1)
        /\ Len(m_nearObjects) + Len(nearObjectsToAdd) <= MaxMembers
        /\ m_nearObjects' = m_nearObjects \o pruned
        /\ InvokeEventCallback(OnSessionMembershipChanged(nearObjectsToAdd, NoObjects))
        /\ UNCHANGED <<m_capabilities, m_rangingSession, callbacks, pc, delivered, initial>>

AddNearObjects(c, nearObjectsToAdd) ==
    LET pruned == Selected(nearObjectsToAdd, NewTo(m_nearObjects))
    IN  /\ MayCall(c)
        /\ Room(1)
        /\ Len(m_nearObjects) + Len(nearObjectsToAdd) <= MaxMembers
        /\ m_nearObjects' = m_nearObjects \o pruned
        /\ InvokeEventCallback(OnSessionMembershipChanged(pruned, NoObjects))
        /\ UNCHANGED <<m_capabilities, m_rangingSession, callbacks, pc, delivered, initial>>

BugRemoveWithoutErase(c, nearObjectsToRemove) ==
    LET named == ToSet(nearObjectsToRemove)
        removed == Selected(m_nearObjects, named)
    IN  /\ MayCall(c)
        /\ Room(1)
        /\ m_nearObjects' = Selected(m_nearObjects, Objects \ named)
                                \o [i \in DOMAIN removed |-> "nullptr"]
        /\ InvokeEventCallback(OnSessionMembershipChanged(NoObjects, removed))
        /\ UNCHANGED <<m_capabilities, m_rangingSession, callbacks, pc, delivered, initial>>

\* Removal goes by identity: the kept members, then the removed, keep their order.
RemoveNearObjects(c, nearObjectsToRemove) ==
    LET named == ToSet(nearObjectsToRemove)
        removed == Selected(m_nearObjects, named)
    IN  /\ MayCall(c)
        /\ Room(1)
        /\ m_nearObjects' = Selected(m_nearObjects, Objects \ named)
        /\ InvokeEventCallback(OnSessionMembershipChanged(NoObjects, removed))
        /\ UNCHANGED <<m_capabilities, m_rangingSession, callbacks, pc, delivered, initial>>

NearObjectPropertiesChanged(c) ==
    /\ MayCall(c)
    /\ Room(1)
    /\ InvokeEventCallback(OnNearObjectPropertiesChanged)
    /\ UNCHANGED <<m_capabilities, session_vars, callbacks, pc, delivered, initial>>

BugStartRangingAgain(c) ==
    /\ MayCall(c)
    /\ Room(1)
    /\ m_capabilities
    /\ m_rangingSession' = TRUE
    /\ InvokeEventCallback(OnRangingStarted)
    /\ UNCHANGED <<m_capabilities, m_nearObjects, callbacks, pc, delivered, initial>>

\* With a ranging session active (MaximumSessionsReached) or without the
\* capability (NotSupported) the call changes nothing.
StartRanging(c) ==
    /\ MayCall(c)
    /\ Room(1)
    /\ ~m_rangingSession
    /\ m_capabilities
    /\ m_rangingSession' = TRUE
    /\ InvokeEventCallback(OnRangingStarted)
    /\ UNCHANGED <<m_capabilities, m_nearObjects, callbacks, pc, delivered, initial>>

\* The critical section of StopRanging, which does nothing without a session.
ResetRanging ==
    /\ m_rangingSession' = FALSE
    /\ IF m_rangingSession THEN InvokeEventCallback(OnRangingStopped)
       ELSE UNCHANGED <<log, executor_vars>>

StopRanging(c) ==
    /\ MayCall(c)
    /\ Room(1)
    /\ m_rangingSession
    /\ ResetRanging
    /\ UNCHANGED <<m_capabilities, m_nearObjects, callbacks, pc, delivered, initial>>

\* EndSession calls StopRanging; if that throws, EndSession is over.
EndSession(c) ==
    /\ MayCall(c)
    /\ Room(2)
    /\ ResetRanging
    /\ pc' = [pc EXCEPT ![c] = IF m_rangingSession /\ status # "open" THEN "idle"
                               ELSE "ending"]
    /\ UNCHANGED <<m_capabilities, m_nearObjects, callbacks, delivered, initial>>

\* Then it posts the last event, with no mutex held since.
EndSessionSignal(c) ==
    /\ pc[c] = "ending"
    /\ InvokeEventCallback(OnSessionEnded)
    /\ pc' = [pc EXCEPT ![c] = "idle"]
    /\ UNCHANGED <<m_capabilities, session_vars, callbacks, delivered, initial>>

-----------------------------------------------------------------------------
(* ~NearObjectSession: EndSession, then the members, m_taskQueue first.    *)

\* The thread that drops the last reference to the session.
Destroyers == {Owner, Callback}

\* No other thread is inside a call.  A callback may be running when the owner
\* destroys the session; and a callback may itself drop the last reference.
Destroy(c) ==
    /\ MayCall(c)
    /\ pc[Owner] = "idle"
    /\ \A u \in Users : pc[u] = "idle"
    /\ ResetRanging
    /\ pc' = [pc EXCEPT ![Owner] = "gone", ![c] = "destroying"]
    /\ UNCHANGED <<m_capabilities, m_nearObjects, callbacks, delivered, initial>>

DestroySignal(c) ==
    /\ pc[c] = "destroying"
    /\ InvokeEventCallback(OnSessionEnded)
    /\ pc' = [pc EXCEPT ![c] = "destroy_queue"]
    /\ UNCHANGED <<m_capabilities, session_vars, callbacks, delivered, initial>>

BugDestroyQueueCancel(c) ==
    /\ pc[c] = "destroy_queue"
    /\ m_taskQueue!Close(1)
    /\ pc' = [pc EXCEPT ![c] = "drain"]
    /\ UNCHANGED <<m_capabilities, session_vars, callbacks, log, delivered, initial>>

BugDestroyQueueUnstopped(c) ==
    /\ pc[c] = "destroy_queue"
    /\ pc' = [pc EXCEPT ![c] = "drain"]
    /\ UNCHANGED <<m_capabilities, session_vars, callbacks, executor_vars, log,
                   delivered, initial>>

\* ~task_queue: stop, which revokes nothing, then the join.
DestroyQueue(c) ==
    /\ pc[c] = "destroy_queue"
    /\ m_taskQueue!Close(Len(line) + 1)
    /\ pc' = [pc EXCEPT ![c] = "drain"]
    /\ UNCHANGED <<m_capabilities, session_vars, callbacks, log, delivered, initial>>

Destroyed ==
    /\ pc[Owner] = "drain"
    /\ m_taskQueue!Retire
    /\ pc' = [pc EXCEPT ![Owner] = "gone"]
    /\ UNCHANGED <<m_capabilities, session_vars, callbacks, log, delivered, initial>>

\* On the worker the join is of the thread itself: join() throws, the destructor of
\* the queue swallows that, and ~thread of a joinable thread calls std::terminate.
Terminate ==
    /\ pc[Callback] = "drain"
    /\ pc' = [pc EXCEPT ![Callback] = "terminated"]
    /\ UNCHANGED <<m_capabilities, session_vars, callbacks, executor_vars, log,
                   delivered, initial>>

-----------------------------------------------------------------------------
(* The worker and the client of the callbacks.                             *)

BugDeliverNewest ==
    /\ active = {}
    /\ line # <<>>
    /\ active' = {Last(line)}
    /\ line' = Front(line)
    /\ delivered' = IF callbacks = "held" THEN Append(delivered, Last(line)) ELSE delivered
    /\ UNCHANGED <<m_capabilities, session_vars, callbacks, pc, status, outcome, revoked,
                   log, initial>>

\* The task locks the weak_ptr, and calls back only if that succeeds.
DeliverBegin ==
    /\ m_taskQueue!Begin
    /\ delivered' = IF callbacks = "held" THEN Append(delivered, Head(line))
                    ELSE delivered
    /\ UNCHANGED <<m_capabilities, session_vars, callbacks, pc, log, initial>>

DeliverEnd ==
    /\ pc[Callback] = "idle"
    /\ m_taskQueue!Complete
    /\ UNCHANGED <<m_capabilities, session_vars, callbacks, pc, log, delivered, initial>>

\* The last owner outside lets the callbacks object go; a callback that runs keeps
\* it until it returns.
ReleaseCallbacks ==
    /\ callbacks = "held"
    /\ pc[Callback] # "terminated"
    /\ callbacks' = "released"
    /\ UNCHANGED <<m_capabilities, session_vars, pc, executor_vars, log, delivered, initial>>

Terminated == pc[Owner] = "gone" /\ UNCHANGED vars

CallerStep(c) ==
    \/ \E s \in Arguments : AddNearObjects(c, s) \/ RemoveNearObjects(c, s)
    \/ NearObjectPropertiesChanged(c)
    \/ StartRanging(c)
    \/ StopRanging(c)
    \/ EndSession(c)
    \/ EndSessionSignal(c)

Next ==
    \/ Construct
    \/ \E c \in Callers : CallerStep(c)
    \/ \E c \in Destroyers : Destroy(c) \/ DestroySignal(c) \/ DestroyQueue(c)
    \/ Destroyed
    \/ Terminate
    \/ DeliverBegin \/ DeliverEnd
    \/ ReleaseCallbacks
    \/ Terminated

Spec == Init /\ [][Next]_vars

\* The executor's fairness; a caller inside a call goes on; a callback returns,
\* however many calls it makes (hence SF).
Fairness ==
    /\ WF_vars(DeliverBegin)
    /\ SF_vars(DeliverEnd)
    /\ \A c \in Callers : WF_vars(EndSessionSignal(c))
    /\ \A c \in Destroyers : WF_vars(DestroySignal(c)) /\ WF_vars(DestroyQueue(c))
    /\ WF_vars(Destroyed) /\ WF_vars(Terminate)

FairSpec == Spec /\ Fairness

-----------------------------------------------------------------------------
(* Properties.                                                             *)

\* What a client that follows the membership events from the start believes.
Followed(start, events) ==
    LET after[n \in 0..Len(events)] ==
            IF n = 0 THEN start
            ELSE Selected(after[n - 1], Objects \ ToSet(events[n].removed)) \o events[n].added
    IN  after[Len(events)]

Believed == Followed(initial, log)

\* Until the destructor stops the queue, the events tell the membership exactly,
\* order and duplicates included, whatever threads and callbacks interleave.
EventsTellMembership == status = "open" => Believed = m_nearObjects

RangingEvents == Selected(log, {OnRangingStarted, OnRangingStopped})

\* And they tell the ranging state: starts and stops alternate, and the last one
\* posted says what IsRangingActive answers.
EventsTellRanging ==
    status = "open" =>
        /\ \A i \in DOMAIN RangingEvents :
               RangingEvents[i].kind = IF i % 2 = 1 THEN "started" ELSE "stopped"
        /\ m_rangingSession <=> Len(RangingEvents) % 2 = 1

\* The client receives the events in order and without a gap
\* (NearObjectSession.hxx:103-104): all that began, while it keeps its callbacks.
InOrderNoGap ==
    /\ \A i \in DOMAIN delivered : delivered[i] = i
    /\ callbacks = "held" /\ status # "gone" => Len(delivered) = Len(log) - Len(line)

\* A destroyed session has told a client that kept its callbacks everything it
\* posted, the end of the session among it.
DestructionTellsAll ==
    status = "gone" /\ log # <<>> /\ callbacks = "held" =>
        /\ Len(delivered) = Len(log)
        /\ \E i \in DOMAIN delivered : log[delivered[i]] = OnSessionEnded

\* Every posted event reaches the client, unless the client let the callbacks go or
\* dropped the session inside one.
EventsArrive ==
    \A n \in 1..MaxEvents :
        n <= Len(log) ~> \/ n \in ToSet(delivered)
                         \/ callbacks = "released"
                         \/ pc[Callback] = "terminated"

\* Destroying a session ends, with callbacks that call back into it.
DestructionReturns == pc[Owner] = "destroying" ~> pc[Owner] = "gone"

-----------------------------------------------------------------------------
(* What the documentation says, and the code does not do.                  *)

\* "Add a near object to this session" (NearObjectSession.hxx:117, :125).
AddedBecomesMember ==
    [][\A c \in Callers, s \in Arguments :
          AddNearObjects(c, s) => ToSet(s) \subseteq ToSet(m_nearObjects')]_vars

\* "...so that the task queue can execute the task before *this is destructed"
\* (NearObjectSession.cxx:117): the client hears of the end before the members go.
EndToldBeforeDestruction ==
    /\ callbacks = "held"
    /\ pc[Callback] = "terminated" \/ (status = "gone" /\ log # <<>>)
    => \E i \in DOMAIN delivered : log[delivered[i]] = OnSessionEnded
=============================================================================
