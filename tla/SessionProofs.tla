---------------------------- MODULE SessionProofs ----------------------------
(***************************************************************************)
(* Proofs about NearObjectSession, for any objects, any finite set of      *)
(* threads and any bounds.                                                 *)
(***************************************************************************)
EXTENDS NearObjectSession, SequenceLemmas, FiniteSetTheorems

Kinds == {"started", "stopped", "properties", "membership", "ended"}
Events == [kind : Kinds, added : Seq(Objects), removed : Seq(Objects)]

-----------------------------------------------------------------------------
(* The phases of the session's life.  The last reference is dropped by its *)
(* owner or inside a callback; where that thread is says what has become   *)
(* of the queue.                                                           *)

Begun == pc[Owner] # "construct"

OpenPhase == \/ pc[Owner] \in {"idle", "ending", "destroying", "destroy_queue"}
             \/ pc[Callback] \in {"destroying", "destroy_queue"}

ClosedPhase == pc[Owner] = "drain" \/ pc[Callback] \in {"drain", "terminated"}

PhaseInv ==
    /\ pc[Owner] \in {"construct", "idle", "ending", "destroying", "destroy_queue",
                      "drain", "gone"}
    /\ \A u \in Users : pc[u] \in {"idle", "ending"}
    /\ pc[Callback] \notin {"idle", "ending"} => pc[Owner] = "gone"
    /\ pc[Callback] \in {"idle", "ending", "destroying", "destroy_queue", "drain", "terminated"}
    /\ status = "unborn" <=> ~Begun
    /\ status = "open" <=> OpenPhase
    /\ status = "closed" <=> ClosedPhase
    /\ ~Begun => /\ log = <<>> /\ delivered = <<>> /\ line = <<>> /\ active = {}
                 /\ m_nearObjects = initial /\ m_rangingSession = FALSE
                 /\ \A c \in Callers : c # Owner => pc[c] = "idle"

-----------------------------------------------------------------------------
(* Room for the events that are still due, from EndSession and from the    *)
(* destructor: what the bound on events must leave.                        *)

Ending == {c \in Callers : pc[c] = "ending"}

DueOfDestructor ==
    IF pc[Owner] \in {"construct", "idle", "ending"} THEN 2
    ELSE IF pc[Owner] = "destroying" \/ pc[Callback] = "destroying" THEN 1
    ELSE 0

RoomInv ==
    status \in {"unborn", "open"} =>
        Len(log) + Cardinality(Ending) + DueOfDestructor <= MaxEvents

-----------------------------------------------------------------------------
(* The line is what was posted and has not begun.                          *)

LineInv ==
    /\ revoked = {}
    /\ status = "gone" => line = <<>>
    /\ Len(line) <= Len(log)
    /\ \A i \in 1..Len(line) : line[i] = Len(log) - Len(line) + i
    /\ Len(delivered) <= Len(log) - Len(line)
    /\ callbacks = "held" => Len(delivered) = Len(log) - Len(line)
    /\ \A i \in 1..Len(delivered) : delivered[i] = i


SessionInv == SessionTypeOK /\ PhaseInv /\ RoomInv /\ LineInv

-----------------------------------------------------------------------------
(* What the operations have in common: they tell what they do, as long as  *)
(* the queue is open.                                                      *)

\* What an event says of the state before and after it is posted.
Tells(e) ==
    \/ /\ e = OnRangingStarted
       /\ m_rangingSession = FALSE /\ m_rangingSession' = TRUE
       /\ UNCHANGED m_nearObjects
    \/ /\ e = OnRangingStopped
       /\ m_rangingSession = TRUE /\ m_rangingSession' = FALSE
       /\ UNCHANGED m_nearObjects
    \/ e \in {OnNearObjectPropertiesChanged, OnSessionEnded} /\ UNCHANGED session_vars
    \/ /\ UNCHANGED m_rangingSession
       /\ \E added \in Seq(Objects) :
             /\ e = OnSessionMembershipChanged(added, NoObjects)
             /\ m_nearObjects' = m_nearObjects \o added
    \/ /\ UNCHANGED m_rangingSession
       /\ \E named :
             /\ e = OnSessionMembershipChanged(NoObjects, Selected(m_nearObjects, named))
             /\ m_nearObjects' = Selected(m_nearObjects, Objects \ named)

Keeps == UNCHANGED <<log, executor_vars>> /\ (status = "open" => UNCHANGED session_vars)

Posts == \E e \in Events : status = "open" /\ Post(e) /\ Tells(e)

Operates ==
    /\ UNCHANGED <<m_capabilities, callbacks, delivered, initial>>
    /\ m_nearObjects' \in Seq(Objects)
    /\ m_rangingSession' \in BOOLEAN
    /\ Keeps \/ Posts

LEMMA EventTypes ==
    /\ {OnRangingStarted, OnRangingStopped, OnNearObjectPropertiesChanged, OnSessionEnded}
          \subseteq Events
    /\ \A added, removed \in Seq(Objects) : OnSessionMembershipChanged(added, removed) \in Events
    /\ NoObjects \in Seq(Objects)
<1>1. NoObjects \in Seq(Objects)
  BY EmptySequence DEF NoObjects
<1> HIDE DEF NoObjects
<1>2. \A kind \in Kinds, added, removed \in Seq(Objects) : Event(kind, added, removed) \in Events
  BY DEF Event, Events
<1> QED
  BY <1>1, <1>2
     DEF Kinds, OnRangingStarted, OnRangingStopped, OnNearObjectPropertiesChanged,
         OnSessionEnded, OnSessionMembershipChanged

LEMMA ArgumentTypes ==
    BoundedSeq(Objects, MaxArgs) \subseteq Seq(Objects) /\ Arguments \subseteq Seq(Objects)
<1>1. ASSUME NEW s \in BoundedSeq(Objects, MaxArgs) PROVE s \in Seq(Objects)
  <2>1. PICK m \in 0..MaxArgs : s \in [1..m -> Objects]
    BY <1>1 DEF BoundedSeq, SeqOf
  <2>2. m \in Nat
    BY BoundsAssumption
  <2> QED
    BY <2>1, <2>2, SeqDef
<1> QED
  BY <1>1 DEF Arguments

LEMMA ResetRangingOperates ==
    ASSUME SessionTypeOK, ResetRanging,
           UNCHANGED <<m_capabilities, m_nearObjects, callbacks, delivered, initial>>
    PROVE  Operates
<1>0. m_nearObjects' \in Seq(Objects) /\ m_rangingSession' \in BOOLEAN
      /\ m_rangingSession \in BOOLEAN
  BY DEF SessionTypeOK, ResetRanging
<1>1. CASE m_rangingSession /\ status = "open"
  <2>1. Post(OnRangingStopped) /\ Tells(OnRangingStopped)
    BY <1>0, <1>1 DEF ResetRanging, InvokeEventCallback, Tells
  <2> QED
    BY <1>0, <1>1, <2>1, EventTypes DEF Operates, Posts
<1>2. CASE ~(m_rangingSession /\ status = "open")
  BY <1>0, <1>2 DEF ResetRanging, InvokeEventCallback, Operates, Keeps, session_vars
<1> QED
  BY <1>1, <1>2

LEMMA EndSignalOperates ==
    ASSUME SessionTypeOK, InvokeEventCallback(OnSessionEnded),
           UNCHANGED <<m_capabilities, session_vars, callbacks, delivered, initial>>
    PROVE  Operates
<1>0. m_nearObjects' \in Seq(Objects) /\ m_rangingSession' \in BOOLEAN
  BY DEF SessionTypeOK, session_vars
<1>1. CASE status = "open"
  <2>1. Post(OnSessionEnded) /\ Tells(OnSessionEnded)
    BY <1>1 DEF InvokeEventCallback, Tells
  <2> QED
    BY <1>0, <1>1, <2>1, EventTypes DEF Operates, Posts
<1>2. CASE status # "open"
  BY <1>0, <1>2 DEF InvokeEventCallback, Operates, Keeps
<1> QED
  BY <1>1, <1>2

LEMMA CallerOperates ==
    ASSUME SessionTypeOK, NEW c \in Callers, CallerStep(c)
    PROVE  Operates
<1>0. m_nearObjects \in Seq(Objects) /\ m_rangingSession \in BOOLEAN
  BY DEF SessionTypeOK
<1>1. ASSUME NEW s \in Arguments, AddNearObjects(c, s) PROVE Operates
  <2> DEFINE pruned == Selected(s, NewTo(m_nearObjects))
             e == OnSessionMembershipChanged(pruned, NoObjects)
  <2>1. pruned \in Seq(Objects)
    <3>1. pruned \in Seq(Objects \cap NewTo(m_nearObjects))
      BY ArgumentTypes, SelectedType
    <3> HIDE DEF pruned
    <3> QED
      BY <3>1, SeqIntersection
  <2>2. /\ m_nearObjects' = m_nearObjects \o pruned
        /\ InvokeEventCallback(e)
        /\ UNCHANGED <<m_capabilities, m_rangingSession, callbacks, pc, delivered, initial>>
    BY <1>1 DEF AddNearObjects
  <2> HIDE DEF pruned
  <2>3. m_nearObjects' \in Seq(Objects)
    BY <1>0, <2>1, <2>2, ConcatProperties
  <2>4. e \in Events
    BY <2>1, EventTypes
  <2>5. Tells(e)
    BY <2>1, <2>2 DEF Tells
  <2> HIDE DEF e
  <2>6. Keeps \/ Posts
    BY <2>2, <2>4, <2>5 DEF InvokeEventCallback, Keeps, Posts
  <2> QED
    BY <1>0, <2>2, <2>3, <2>6 DEF Operates
<1>2. ASSUME NEW s \in Arguments, RemoveNearObjects(c, s) PROVE Operates
  <2> DEFINE named == ToSet(s)
             removed == Selected(m_nearObjects, named)
             kept == Selected(m_nearObjects, Objects \ named)
             e == OnSessionMembershipChanged(NoObjects, removed)
  <2>1. removed \in Seq(Objects) /\ kept \in Seq(Objects)
    <3>1. /\ removed \in Seq(Objects \cap named)
          /\ kept \in Seq(Objects \cap (Objects \ named))
      BY <1>0, SelectedType
    <3> HIDE DEF removed, kept
    <3> QED
      BY <3>1, SeqIntersection
  <2>2. /\ m_nearObjects' = kept
        /\ InvokeEventCallback(e)
        /\ UNCHANGED <<m_capabilities, m_rangingSession, callbacks, pc, delivered, initial>>
    BY <1>2 DEF RemoveNearObjects
  <2>3. e \in Events
    BY <2>1, EventTypes
  <2>4. Tells(e)
    BY <2>2 DEF Tells
  <2> HIDE DEF e, kept
  <2>5. Keeps \/ Posts
    BY <2>2, <2>3, <2>4 DEF InvokeEventCallback, Keeps, Posts
  <2> QED
    BY <1>0, <2>1, <2>2, <2>5 DEF Operates
<1>3. CASE NearObjectPropertiesChanged(c)
  <2>1. CASE status = "open"
    <3>1. Post(OnNearObjectPropertiesChanged) /\ Tells(OnNearObjectPropertiesChanged)
      BY <1>3, <2>1 DEF NearObjectPropertiesChanged, InvokeEventCallback, Tells
    <3> QED
      BY <1>0, <1>3, <2>1, <3>1, EventTypes
         DEF NearObjectPropertiesChanged, session_vars, Operates, Posts
  <2>2. CASE status # "open"
    BY <1>0, <1>3, <2>2
       DEF NearObjectPropertiesChanged, InvokeEventCallback, session_vars, Operates, Keeps
  <2> QED
    BY <2>1, <2>2
<1>4. CASE StartRanging(c)
  <2>1. CASE status = "open"
    <3>1. Post(OnRangingStarted) /\ Tells(OnRangingStarted)
      BY <1>0, <1>4, <2>1 DEF StartRanging, InvokeEventCallback, Tells
    <3> QED
      BY <1>0, <1>4, <2>1, <3>1, EventTypes DEF StartRanging, Operates, Posts
  <2>2. CASE status # "open"
    BY <1>0, <1>4, <2>2 DEF StartRanging, InvokeEventCallback, Operates, Keeps
  <2> QED
    BY <2>1, <2>2
<1>5. CASE StopRanging(c) \/ EndSession(c)
  BY <1>5, ResetRangingOperates DEF StopRanging, EndSession
<1>6. CASE EndSessionSignal(c)
  BY <1>6, EndSignalOperates DEF EndSessionSignal
<1> QED
  BY <1>1, <1>2, <1>3, <1>4, <1>5, <1>6 DEF CallerStep

LEMMA DestroyerOperates ==
    ASSUME SessionTypeOK, NEW c \in Destroyers, Destroy(c) \/ DestroySignal(c)
    PROVE  Operates
BY ResetRangingOperates, EndSignalOperates DEF Destroy, DestroySignal

-----------------------------------------------------------------------------
(* Where the callers are, and what that says of the queue.                 *)

LEMMA CallerNames ==
    /\ Owner \in Callers /\ Callback \in Callers /\ Users \subseteq Callers
    /\ Owner # Callback /\ Owner \notin Users /\ Callback \notin Users
    /\ \A c \in Callers : c \in Users \/ c = Owner \/ c = Callback
    /\ \A c \in Destroyers : c \in Callers /\ (c = Owner \/ c = Callback)
BY CallersAssumption DEF Callers, Destroyers

LEMMA CallerPhases ==
    ASSUME NEW c \in Callers, CallerStep(c)
    PROVE  \/ MayCall(c) /\ Room(1) /\ pc' = pc
           \/ /\ MayCall(c) /\ Room(2)
              /\ \E v \in {"idle", "ending"} : pc' = [pc EXCEPT ![c] = v]
           \/ pc[c] = "ending" /\ pc' = [pc EXCEPT ![c] = "idle"]
BY DEF CallerStep, AddNearObjects, RemoveNearObjects, NearObjectPropertiesChanged, StartRanging,
       StopRanging, EndSession, EndSessionSignal

\* Nobody calls a session that is not constructed.
LEMMA CallersBegun ==
    ASSUME PhaseInv, NEW c \in Callers, MayCall(c) \/ pc[c] = "ending"
    PROVE  Begun
<1>1. CASE pc[c] = "ending"
  BY <1>1 DEF PhaseInv, Begun
<1>2. CASE MayCall(c)
  BY <1>2 DEF MayCall, InCallback, PhaseInv, Begun
<1> QED
  BY <1>1, <1>2

LEMMA CallerPhaseStep ==
    ASSUME SessionTypeOK, PhaseInv, NEW c \in Callers, CallerStep(c)
    PROVE  PhaseInv' /\ status' = status /\ Begun
<1>1. Operates
  BY CallerOperates
<1>2. status' = status
  BY <1>1 DEF Operates, Keeps, Posts, Post, m_taskQueue!Submit, executor_vars
<1>3. Begun
  BY CallerPhases, CallersBegun
<1>4. \A d \in Callers :
         pc'[d] = pc[d] \/ (pc[d] \in {"idle", "ending"} /\ pc'[d] \in {"idle", "ending"})
  BY CallerPhases DEF MayCall, SessionTypeOK
<1>5. /\ Begun' <=> Begun
      /\ OpenPhase' <=> OpenPhase
      /\ ClosedPhase' <=> ClosedPhase
  BY <1>4, CallerNames DEF Begun, OpenPhase, ClosedPhase
<1>6. /\ pc'[Owner] \in {"construct", "idle", "ending", "destroying", "destroy_queue",
                         "drain", "gone"}
      /\ \A u \in Users : pc'[u] \in {"idle", "ending"}
      /\ pc'[Callback] \notin {"idle", "ending"} => pc'[Owner] = "gone"
      /\ pc'[Callback] \in {"idle", "ending", "destroying", "destroy_queue", "drain",
                            "terminated"}
  BY <1>4, CallerNames DEF PhaseInv
<1> QED
  BY <1>2, <1>3, <1>5, <1>6 DEF PhaseInv

LEMMA DestroyPhaseStep ==
    ASSUME SessionTypeOK, PhaseInv, NEW c \in Destroyers, Destroy(c) \/ DestroySignal(c)
    PROVE  /\ PhaseInv' /\ status' = "open" /\ status = "open"
           /\ Ending' = Ending
           /\ \A d \in Callers : pc'[d] = "destroy_queue" => DestroySignal(c)
<1>1. Operates
  BY DestroyerOperates
<1>2. status' = status
  BY <1>1 DEF Operates, Keeps, Posts, Post, m_taskQueue!Submit, executor_vars
<1>3. CASE Destroy(c)
  <2>1. /\ pc[Owner] = "idle" /\ pc[c] = "idle"
        /\ \A u \in Users : pc[u] = "idle"
        /\ pc' = [pc EXCEPT ![Owner] = "gone", ![c] = "destroying"]
    BY <1>3 DEF Destroy, MayCall
  <2>2. \A d \in Callers :
           pc'[d] = IF d = c THEN "destroying" ELSE IF d = Owner THEN "gone" ELSE pc[d]
    BY <2>1, CallerNames DEF SessionTypeOK
  <2>3. Begun /\ OpenPhase /\ status = "open" /\ pc[Callback] \in {"idle", "ending"}
    BY <2>1 DEF Begun, OpenPhase, PhaseInv
  <2>4. Begun' /\ OpenPhase' /\ ~ClosedPhase'
    BY <2>2, <2>3, CallerNames DEF Begun, OpenPhase, ClosedPhase
  <2>5. /\ pc'[Owner] \in {"destroying", "gone"}
        /\ pc'[Callback] \in {"idle", "ending", "destroying"}
        /\ pc'[Callback] = "destroying" => pc'[Owner] = "gone"
        /\ \A u \in Users : pc'[u] = "idle"
    BY <2>1, <2>2, <2>3, CallerNames
  <2>6. PhaseInv'
    BY <1>2, <2>3, <2>4, <2>5 DEF PhaseInv
  <2>7. Ending' = Ending
    <3>1. pc[c] # "ending" /\ pc[Owner] # "ending"
      BY <2>1
    <3>2. \A d \in Callers : pc'[d] = "ending" <=> pc[d] = "ending"
      BY <2>2, <3>1
    <3> QED
      BY <3>2 DEF Ending
  <2>8. \A d \in Callers : pc'[d] # "destroy_queue"
    BY <2>2, <2>3, <2>5, CallerNames
  <2> QED
    BY <1>2, <2>3, <2>6, <2>7, <2>8
<1>4. CASE DestroySignal(c)
  <2>1. pc[c] = "destroying" /\ pc' = [pc EXCEPT ![c] = "destroy_queue"]
    BY <1>4 DEF DestroySignal
  <2>2. \A d \in Callers : pc'[d] = IF d = c THEN "destroy_queue" ELSE pc[d]
    BY <2>1, CallerNames DEF SessionTypeOK
  <2>3. Begun /\ OpenPhase /\ status = "open"
    BY <2>1, CallerNames DEF Begun, OpenPhase, PhaseInv
  <2>4. Begun' /\ OpenPhase' /\ ~ClosedPhase'
    BY <2>1, <2>2, <2>3, CallerNames DEF Begun, OpenPhase, ClosedPhase, PhaseInv
  <2>5. /\ pc'[Owner] \in {"construct", "idle", "ending", "destroying", "destroy_queue",
                           "drain", "gone"}
        /\ \A u \in Users : pc'[u] \in {"idle", "ending"}
        /\ pc'[Callback] \notin {"idle", "ending"} => pc'[Owner] = "gone"
        /\ pc'[Callback] \in {"idle", "ending", "destroying", "destroy_queue", "drain",
                              "terminated"}
    BY <2>1, <2>2, CallerNames DEF PhaseInv
  <2>6. PhaseInv'
    BY <1>2, <2>3, <2>4, <2>5 DEF PhaseInv
  <2>7. Ending' = Ending
    BY <2>1, <2>2 DEF Ending
  <2> QED
    BY <1>2, <1>4, <2>3, <2>6, <2>7
<1> QED
  BY <1>3, <1>4

\* The rest of the destruction, and the worker.
LEMMA OtherPhaseStep ==
    ASSUME SessionTypeOK, PhaseInv, LineInv,
           \/ Construct
           \/ \E c \in Destroyers : DestroyQueue(c)
           \/ Destroyed \/ Terminate \/ DeliverBegin \/ DeliverEnd \/ ReleaseCallbacks
    PROVE  /\ PhaseInv'
           /\ UNCHANGED <<log, session_vars, m_capabilities, initial>>
           /\ status' \in {"unborn", "open"} => Ending' = Ending
           /\ status' = "open" /\ status # "open" => Construct
<1>0. UNCHANGED <<log, session_vars, m_capabilities, initial>>
  BY DEF Construct, DestroyQueue, Destroyed, Terminate, DeliverBegin, DeliverEnd, ReleaseCallbacks,
         session_vars
<1>1. CASE Construct
  <2>1. /\ pc[Owner] = "construct" /\ status' \in {"open", "gone"}
        /\ pc' = [pc EXCEPT ![Owner] = IF status' = "open" THEN "idle" ELSE "gone"]
        /\ UNCHANGED <<line, active, log, delivered>>
    BY <1>1 DEF Construct, m_taskQueue!Create
  <2>2. \A d \in Callers :
           pc'[d] = IF d # Owner THEN pc[d] ELSE IF status' = "open" THEN "idle" ELSE "gone"
    BY <2>1 DEF SessionTypeOK
  <2>3. \A d \in Callers : d # Owner => pc[d] = "idle"
    BY <2>1 DEF PhaseInv, Begun
  <2>4. PhaseInv'
    BY <2>1, <2>2, <2>3, CallerNames DEF PhaseInv, Begun, OpenPhase, ClosedPhase
  <2>5. Ending' = Ending
    <3>1. \A d \in Callers : pc'[d] # "ending" /\ pc[d] # "ending"
      BY <2>1, <2>2, <2>3
    <3> QED
      BY <3>1 DEF Ending
  <2> QED
    BY <1>0, <1>1, <2>4, <2>5
<1>2. ASSUME NEW c \in Destroyers, DestroyQueue(c)
      PROVE  PhaseInv' /\ status' = "closed"
  <2>1. /\ pc[c] = "destroy_queue" /\ pc' = [pc EXCEPT ![c] = "drain"] /\ status' = "closed"
    BY <1>2 DEF DestroyQueue, m_taskQueue!Close
  <2>2. \A d \in Callers : pc'[d] = IF d = c THEN "drain" ELSE pc[d]
    BY <2>1, CallerNames DEF SessionTypeOK
  <2>3. Begun
    BY <2>1, CallerNames DEF Begun, PhaseInv
  <2>4. Begun' /\ ~OpenPhase' /\ ClosedPhase'
    BY <2>1, <2>2, <2>3, CallerNames DEF Begun, OpenPhase, ClosedPhase, PhaseInv
  <2>5. /\ pc'[Owner] \in {"construct", "idle", "ending", "destroying", "destroy_queue",
                           "drain", "gone"}
        /\ \A u \in Users : pc'[u] \in {"idle", "ending"}
        /\ pc'[Callback] \notin {"idle", "ending"} => pc'[Owner] = "gone"
        /\ pc'[Callback] \in {"idle", "ending", "destroying", "destroy_queue", "drain",
                              "terminated"}
    BY <2>1, <2>2, CallerNames DEF PhaseInv
  <2> QED
    BY <2>1, <2>4, <2>5 DEF PhaseInv
<1>3. CASE Destroyed
  <2>1. pc[Owner] = "drain" /\ pc' = [pc EXCEPT ![Owner] = "gone"] /\ status' = "gone"
    BY <1>3 DEF Destroyed, m_taskQueue!Retire
  <2>2. \A d \in Callers : pc'[d] = IF d = Owner THEN "gone" ELSE pc[d]
    BY <2>1 DEF SessionTypeOK
  <2>3. PhaseInv'
    BY <2>1, <2>2, CallerNames DEF PhaseInv, Begun, OpenPhase, ClosedPhase
  <2> QED
    BY <1>0, <2>1, <2>3
<1>4. CASE Terminate
  <2>1. pc[Callback] = "drain" /\ pc' = [pc EXCEPT ![Callback] = "terminated"]
        /\ UNCHANGED <<status, line, active, log, delivered>>
    BY <1>4 DEF Terminate, executor_vars
  <2>2. \A d \in Callers : pc'[d] = IF d = Callback THEN "terminated" ELSE pc[d]
    BY <2>1 DEF SessionTypeOK
  <2>3. PhaseInv' /\ status = "closed"
    BY <2>1, <2>2, CallerNames DEF PhaseInv, Begun, OpenPhase, ClosedPhase
  <2> QED
    BY <1>0, <2>1, <2>3
<1>5. CASE DeliverBegin
  <2>1. Begun /\ UNCHANGED <<pc, status, log, session_vars, initial>>
    BY <1>5 DEF DeliverBegin, m_taskQueue!Begin, PhaseInv
  <2> QED
    BY <1>0, <2>1 DEF PhaseInv, Begun, OpenPhase, ClosedPhase, Ending
<1>6. CASE DeliverEnd
  <2>1. Begun /\ UNCHANGED <<pc, status, log, session_vars, initial>>
    BY <1>6 DEF DeliverEnd, m_taskQueue!Complete, PhaseInv
  <2> QED
    BY <1>0, <2>1 DEF PhaseInv, Begun, OpenPhase, ClosedPhase, Ending
<1>7. CASE ReleaseCallbacks
  BY <1>7
     DEF ReleaseCallbacks, executor_vars, session_vars, PhaseInv, Begun, OpenPhase, ClosedPhase,
         Ending
<1> QED
  BY <1>0, <1>1, <1>2, <1>3, <1>4, <1>5, <1>6, <1>7

-----------------------------------------------------------------------------
(* The bound on events leaves room for those that are due.                 *)

LEMMA LogGrows ==
    ASSUME SessionTypeOK, Operates
    PROVE  /\ log' \in Seq(Events)
           /\ Len(log) \in Nat
           /\ \/ log' = log
              \/ status = "open" /\ Len(log') = Len(log) + 1
<1>1. log \in Seq(Events) /\ Len(log) \in Nat
  BY LenProperties DEF SessionTypeOK, Events, Kinds
<1>2. CASE Keeps
  BY <1>1, <1>2 DEF Keeps
<1>3. CASE Posts
  <2>1. PICK e \in Events : status = "open" /\ log' = Append(log, e)
    BY <1>3 DEF Posts, Post
  <2> QED
    BY <1>1, <2>1, AppendProperties
<1> QED
  BY <1>1, <1>2, <1>3 DEF Operates

LEMMA EndingFinite ==
    /\ IsFiniteSet(Ending) /\ Cardinality(Ending) \in Nat
    /\ IsFiniteSet(Ending') /\ Cardinality(Ending') \in Nat
<1> DEFINE U1 == Users \cup {Owner}
           U2 == U1 \cup {Callback}
<1>1. IsFiniteSet(U1)
  BY UsersAssumption, FS_AddElement
<1>2. IsFiniteSet(U2)
  BY <1>1, FS_AddElement
<1>3. Ending \subseteq U2 /\ Ending' \subseteq U2
  BY DEF Ending, Callers
<1>4. IsFiniteSet(Ending) /\ IsFiniteSet(Ending')
  BY <1>2, <1>3, FS_Subset
<1> QED
  BY <1>4, FS_CardinalityType

LEMMA CallerRoom ==
    ASSUME SessionTypeOK, PhaseInv, RoomInv, NEW c \in Callers, CallerStep(c)
    PROVE  RoomInv'
<1> DEFINE n == Len(log)
           m == Len(log')
           due == Cardinality(Ending)
           left == Cardinality(Ending')
<1>0. status' = status /\ Begun /\ MaxEvents \in Nat
  BY CallerPhaseStep, BoundsAssumption
<1> SUFFICES ASSUME status = "open" PROVE m + left + DueOfDestructor' <= MaxEvents
  <2>1. status' # "unborn"
    BY <1>0 DEF PhaseInv
  <2> QED
    BY <1>0, <2>1 DEF RoomInv
<1>1. n \in Nat /\ m \in Nat /\ m <= n + 1
  <2>1. log' \in Seq(Events) /\ n \in Nat /\ (log' = log \/ m = n + 1)
    BY CallerOperates, LogGrows
  <2> QED
    BY <2>1
<1>2. due \in Nat /\ left \in Nat /\ IsFiniteSet(Ending)
  BY EndingFinite
<1>3. n + due + DueOfDestructor <= MaxEvents
  BY DEF RoomInv
<1>4. DueOfDestructor \in Nat /\ DueOfDestructor' \in Nat /\ DueOfDestructor' <= 2
  BY DEF DueOfDestructor
<1>5. \A i, j, k, l, d \in Nat :
         i <= j + 1 /\ d <= 2 =>
            /\ j + 1 + 2 + k <= MaxEvents /\ l = k => i + l + d <= MaxEvents
            /\ j + 2 + 2 + k <= MaxEvents /\ l <= k + 1 => i + l + d <= MaxEvents
  BY <1>0
<1> HIDE DEF n, m, due, left
<1>6. CASE Room(1) /\ pc' = pc
  <2>1. n + 1 + 2 + due <= MaxEvents
    BY <1>6 DEF Room, n, due, Ending
  <2>2. left = due
    BY <1>6 DEF left, due, Ending
  <2> QED
    BY <1>1, <1>2, <1>4, <1>5, <2>1, <2>2
<1>7. CASE Room(2) /\ \E v \in {"idle", "ending"} : pc' = [pc EXCEPT ![c] = v]
  <2>1. n + 2 + 2 + due <= MaxEvents
    BY <1>7 DEF Room, n, due, Ending
  <2>2. left <= due + 1
    <3>1. Ending' \subseteq Ending \cup {c}
      BY <1>7 DEF Ending, SessionTypeOK
    <3>2. IsFiniteSet(Ending \cup {c}) /\ Cardinality(Ending \cup {c}) <= due + 1
      <4>1. IsFiniteSet(Ending \cup {c})
            /\ Cardinality(Ending \cup {c}) = IF c \in Ending THEN due ELSE due + 1
        BY <1>2, FS_AddElement DEF due
      <4> QED
        BY <1>2, <4>1
    <3>3. left <= Cardinality(Ending \cup {c}) /\ Cardinality(Ending \cup {c}) \in Nat
      BY <3>1, <3>2, FS_Subset, FS_CardinalityType DEF left
    <3> QED
      BY <1>2, <3>2, <3>3
  <2> QED
    BY <1>1, <1>2, <1>4, <1>5, <2>1, <2>2
<1>8. CASE pc[c] = "ending" /\ pc' = [pc EXCEPT ![c] = "idle"]
  <2>1. Ending' = Ending \ {c} /\ c \in Ending
    BY <1>8 DEF Ending, SessionTypeOK
  <2>2. left = due - 1
    BY <1>2, <2>1, FS_RemoveElement DEF left, due
  <2>3. DueOfDestructor' = DueOfDestructor
    <3>1. \A d \in Callers : pc'[d] = IF d = c THEN "idle" ELSE pc[d]
      BY <1>8 DEF SessionTypeOK
    <3> QED
      BY <1>8, <3>1, CallerNames DEF DueOfDestructor
  <2> QED
    BY <1>0, <1>1, <1>2, <1>3, <1>4, <2>2, <2>3
<1> QED
  BY <1>6, <1>7, <1>8, CallerPhases

LEMMA DestroyRoom ==
    ASSUME SessionTypeOK, PhaseInv, RoomInv, NEW c \in Destroyers, Destroy(c) \/ DestroySignal(c)
    PROVE  RoomInv'
<1> DEFINE n == Len(log)
           m == Len(log')
           due == Cardinality(Ending)
<1>0. status = "open" /\ Ending' = Ending /\ MaxEvents \in Nat
  BY DestroyPhaseStep, BoundsAssumption
<1>1. n \in Nat /\ m \in Nat /\ m <= n + 1
  <2>1. log' \in Seq(Events) /\ n \in Nat /\ (log' = log \/ m = n + 1)
    BY DestroyerOperates, LogGrows
  <2> QED
    BY <2>1
<1>2. due \in Nat
  BY EndingFinite
<1>3. n + due + DueOfDestructor <= MaxEvents
  BY <1>0 DEF RoomInv
<1>4. DueOfDestructor' = DueOfDestructor - 1
  <2>1. CASE Destroy(c)
    <3>1. pc[Owner] = "idle" /\ pc' = [pc EXCEPT ![Owner] = "gone", ![c] = "destroying"]
      BY <2>1 DEF Destroy
    <3>2. pc'[c] = "destroying" /\ pc'[Owner] \in {"gone", "destroying"}
      BY <3>1, CallerNames DEF SessionTypeOK
    <3>3. DueOfDestructor = 2
      BY <3>1 DEF DueOfDestructor
    <3>4. DueOfDestructor' = 1
      BY <3>2, CallerNames DEF DueOfDestructor
    <3> QED
      BY <3>3, <3>4
  <2>2. CASE DestroySignal(c)
    <3>1. pc[c] = "destroying" /\ pc' = [pc EXCEPT ![c] = "destroy_queue"]
      BY <2>2 DEF DestroySignal
    <3>2. \A d \in Callers : pc'[d] = IF d = c THEN "destroy_queue" ELSE pc[d]
      BY <3>1, CallerNames DEF SessionTypeOK
    <3>3. DueOfDestructor = 1
      BY <3>1, CallerNames DEF DueOfDestructor, PhaseInv
    <3>4. DueOfDestructor' = 0
      BY <3>1, <3>2, CallerNames DEF DueOfDestructor, PhaseInv
    <3> QED
      BY <3>3, <3>4
  <2> QED
    BY <2>1, <2>2
<1>5. DueOfDestructor \in 0..2
  BY DEF DueOfDestructor
<1>6. m + due + DueOfDestructor' <= MaxEvents
  <2> HIDE DEF n, m, due
  <2> QED
    BY <1>0, <1>1, <1>2, <1>3, <1>4, <1>5
<1> QED
  BY <1>0, <1>6 DEF RoomInv

-----------------------------------------------------------------------------
(* The line and what was delivered.                                        *)

LEMMA LineTypes ==
    ASSUME SessionTypeOK
    PROVE  /\ line \in Seq(1..MaxEvents) /\ Len(line) \in Nat
           /\ log \in Seq(Events) /\ Len(log) \in Nat
           /\ delivered \in Seq(1..MaxEvents) /\ Len(delivered) \in Nat
BY LenProperties DEF SessionTypeOK, m_taskQueue!ExecutorTypeOK, Events, Kinds

LEMMA QueueRange == \A s : m_taskQueue!Range(s) = Range(s)
BY DEF m_taskQueue!Range, Range

LEMMA OperateLine ==
    ASSUME SessionTypeOK, LineInv, Operates
    PROVE  LineInv'
<1>1. CASE Keeps
  BY <1>1 DEF Keeps, executor_vars, Operates, LineInv
<1>2. CASE Posts
  <2> DEFINE k == Len(log)
             n == Len(line)
  <2>1. PICK e \in Events : status = "open" /\ Post(e)
    BY <1>2 DEF Posts
  <2>2. /\ log' = Append(log, e) /\ line' = Append(line, k + 1)
        /\ UNCHANGED <<status, revoked, callbacks, delivered>>
    BY <2>1 DEF Post, m_taskQueue!Submit, Operates
  <2>3. /\ line \in Seq(1..MaxEvents) /\ n \in Nat
        /\ log \in Seq(Events) /\ k \in Nat /\ Len(delivered) \in Nat
    BY LineTypes
  <2>4. Len(log') = k + 1
    BY <2>2, <2>3, AppendProperties
  <2>5. /\ Len(line') = n + 1
        /\ \A i \in 1..n : line'[i] = line[i]
        /\ line'[n + 1] = k + 1
    <3>1. line \in Seq(Nat) /\ k + 1 \in Nat
      <4>1. line \in Seq(Nat \cap 1..MaxEvents)
        <5>1. Nat \cap 1..MaxEvents = 1..MaxEvents
          BY BoundsAssumption
        <5> QED
          BY <2>3, <5>1
      <4> QED
        BY <2>3, <4>1, SeqIntersection
    <3> HIDE DEF k, n
    <3> QED
      BY <2>2, <3>1, AppendProperties DEF n
  <2>6. ASSUME NEW i \in 1..Len(line') PROVE line'[i] = Len(log') - Len(line') + i
    <3>1. CASE i \in 1..n
      BY <2>3, <2>4, <2>5, <3>1 DEF LineInv
    <3>2. CASE i = n + 1
      BY <2>3, <2>4, <2>5, <3>2
    <3> QED
      BY <2>3, <2>5, <3>1, <3>2
  <2>7. Len(log') - Len(line') = Len(log) - Len(line) /\ Len(line') <= Len(log')
    BY <2>3, <2>4, <2>5 DEF LineInv
  <2> QED
    BY <2>1, <2>2, <2>6, <2>7 DEF LineInv
<1> QED
  BY <1>1, <1>2 DEF Operates

LEMMA BeginLine ==
    ASSUME SessionTypeOK, LineInv, DeliverBegin
    PROVE  LineInv' /\ Head(line) = Len(log) - Len(line) + 1 /\ Head(line) \in 1..MaxEvents
<1>1. /\ line # <<>> /\ line' = Tail(line)
      /\ delivered' = IF callbacks = "held" THEN Append(delivered, Head(line)) ELSE delivered
      /\ UNCHANGED <<status, revoked, callbacks, log>>
  BY DEF DeliverBegin, m_taskQueue!Begin
<1>2. /\ line \in Seq(1..MaxEvents) /\ Len(line) \in Nat
      /\ Len(log) \in Nat
      /\ delivered \in Seq(1..MaxEvents) /\ Len(delivered) \in Nat
  BY LineTypes
<1>3. /\ Head(line) = line[1] /\ Head(line) \in 1..MaxEvents
      /\ Len(line') = Len(line) - 1
      /\ \A i \in 1..Len(line') : line'[i] = line[i + 1]
  <2> DEFINE T == 1..MaxEvents
             rest == Tail(line)
  <2>1. line \in Seq(T) /\ line # <<>>
    BY <1>1, <1>2
  <2> HIDE DEF T
  <2>2. /\ Head(line) = line[1] /\ Head(line) \in T
        /\ Len(rest) = Len(line) - 1
        /\ \A i \in 1..Len(rest) : rest[i] = line[i + 1]
    BY <2>1, HeadTailProperties
  <2>3. line' = rest
    BY <1>1
  <2> HIDE DEF rest
  <2> QED
    BY <2>2, <2>3 DEF T
<1>4. Len(line) >= 1
  BY <1>1, <1>2, EmptySeq
<1>5. Head(line) = Len(log) - Len(line) + 1
  BY <1>2, <1>3, <1>4 DEF LineInv
<1>6. \A i \in 1..Len(line') : line'[i] = Len(log) - Len(line') + i
  BY <1>2, <1>3, <1>4 DEF LineInv
<1>7. status = "gone" => line' = <<>>
  BY <1>1 DEF LineInv
<1>8. CASE callbacks = "held"
  <2> DEFINE h == Head(line)
             r == Append(delivered, h)
  <2>1. /\ Len(r) = Len(delivered) + 1
        /\ \A i \in 1..Len(delivered) : r[i] = delivered[i]
        /\ r[Len(delivered) + 1] = h
    BY <1>2, <1>3, AppendProperties
  <2>2. Len(delivered) = Len(log) - Len(line) /\ \A i \in 1..Len(delivered) : delivered[i] = i
    BY <1>8 DEF LineInv
  <2>3. delivered' = r
    BY <1>1, <1>8
  <2> HIDE DEF r
  <2>4. h = Len(delivered) + 1
    BY <1>2, <1>5, <2>2
  <2>5. \A i \in 1..Len(r) : r[i] = i
    <3> SUFFICES ASSUME NEW i \in 1..Len(r) PROVE r[i] = i
      OBVIOUS
    <3>1. i \in 1..Len(delivered) \/ i = Len(delivered) + 1
      BY <1>2, <2>1
    <3> QED
      BY <1>2, <2>1, <2>2, <2>4, <3>1
  <2>6. Len(r) = Len(log) - Len(line')
    BY <1>2, <1>3, <2>1, <2>2
  <2> HIDE DEF h
  <2>7. LineInv'
    BY <1>1, <1>2, <1>3, <1>6, <1>7, <2>3, <2>5, <2>6 DEF LineInv
  <2> QED
    BY <1>3, <1>5, <2>7
<1>9. CASE callbacks # "held"
  <2>1. LineInv'
    BY <1>1, <1>2, <1>3, <1>6, <1>7, <1>9 DEF LineInv
  <2> QED
    BY <1>3, <1>5, <2>1
<1> QED
  BY <1>8, <1>9

LEMMA OtherLine ==
    ASSUME SessionTypeOK, PhaseInv, LineInv,
           \/ Construct
           \/ \E c \in Destroyers : DestroyQueue(c)
           \/ Destroyed \/ Terminate \/ DeliverEnd \/ ReleaseCallbacks
    PROVE  LineInv' /\ line' = line /\ revoked' = {} /\ delivered' = delivered
<1>0. line \in Seq(1..MaxEvents) /\ Len(line) \in Nat
  BY LineTypes
<1>1. CASE Construct
  BY <1>1 DEF Construct, m_taskQueue!Create, PhaseInv, Begun, LineInv
<1>2. ASSUME NEW c \in Destroyers, DestroyQueue(c)
      PROVE  LineInv' /\ line' = line /\ revoked' = {} /\ delivered' = delivered
  <2>1. SubSeq(line, Len(line) + 1, Len(line)) = <<>>
    BY <1>0, SubSeqEmpty
  <2>2. /\ status' = "closed" /\ revoked' = revoked \cup Range(SubSeq(line, Len(line) + 1, Len(line)))
        /\ UNCHANGED <<line, log, callbacks, delivered>>
    BY <1>2, QueueRange DEF DestroyQueue, m_taskQueue!Close
  <2>3. revoked' = {}
    BY <2>1, <2>2, RangeEmpty DEF LineInv
  <2> QED
    BY <2>2, <2>3 DEF LineInv
<1>3. CASE Destroyed
  <2>1. /\ Range(line) \subseteq revoked /\ line' = <<>>
        /\ UNCHANGED <<revoked, log, callbacks, delivered>>
    BY <1>3, QueueRange DEF Destroyed, m_taskQueue!Retire
  <2>2. Range(line) = {}
    BY <2>1 DEF LineInv
  <2>3. Range(line) = {line[i] : i \in 1..Len(line)}
    BY <1>0, RangeEquality
  <2>4. line = <<>>
    <3>1. \A i \in 1..Len(line) : line[i] \in {}
      BY <2>2, <2>3
    <3>2. Len(line) = 0
      BY <1>0, <3>1
    <3> QED
      BY <1>0, <3>2, EmptySeq
  <2> QED
    BY <2>1, <2>4 DEF LineInv
<1>4. CASE Terminate \/ ReleaseCallbacks
  BY <1>4 DEF Terminate, ReleaseCallbacks, executor_vars, LineInv
<1>5. CASE DeliverEnd
  BY <1>5 DEF DeliverEnd, m_taskQueue!Complete, LineInv
<1> QED
  BY <1>1, <1>2, <1>3, <1>4, <1>5

-----------------------------------------------------------------------------
(* The invariant of the session.                                           *)

LEMMA SessionInit == Init => SessionInv
<1> SUFFICES ASSUME Init PROVE SessionInv
  OBVIOUS
<1>1. <<>> \in Seq(1..MaxEvents) /\ <<>> \in Seq(Events) /\ Len(<<>>) = 0
  BY EmptySequence
<1>2. initial \in Seq(Objects)
  BY ArgumentTypes DEF Init
<1>3. m_taskQueue!ExecutorTypeOK
  BY <1>1 DEF Init, m_taskQueue!ExecutorInit, m_taskQueue!ExecutorTypeOK
<1>4. pc \in [Callers -> CallerState]
  BY DEF Init, CallerState
<1>5. SessionTypeOK
  BY <1>1, <1>2, <1>3, <1>4 DEF Init, SessionTypeOK, Events, Kinds
<1>6. PhaseInv
  BY CallerNames
     DEF Init, PhaseInv, Begun, OpenPhase, ClosedPhase, m_taskQueue!ExecutorInit
<1>7. RoomInv
  <2>1. Ending = {} /\ pc[Owner] = "construct"
    BY CallerNames DEF Init, Ending
  <2>2. Cardinality(Ending) = 0 /\ DueOfDestructor = 2 /\ Len(log) = 0
    BY <1>1, <2>1, FS_EmptySet DEF Init, DueOfDestructor
  <2> QED
    BY <2>2, EventsAssumption, BoundsAssumption DEF RoomInv
<1>8. LineInv
  BY <1>1 DEF Init, LineInv, m_taskQueue!ExecutorInit
<1> QED
  BY <1>5, <1>6, <1>7, <1>8 DEF SessionInv

\* A post has a number left.
LEMMA OperateType ==
    ASSUME SessionTypeOK, RoomInv', Operates, pc' \in [Callers -> CallerState]
    PROVE  SessionTypeOK'
<1>1. log' \in Seq(Events) /\ Len(log) \in Nat
  BY LogGrows
<1>2. m_taskQueue!ExecutorTypeOK'
  <2>1. CASE Keeps
    BY <2>1 DEF Keeps, executor_vars, SessionTypeOK, m_taskQueue!ExecutorTypeOK
  <2>2. CASE Posts
    <3> DEFINE t == Len(log) + 1
    <3>1. /\ line' = Append(line, t)
          /\ outcome' = [outcome EXCEPT ![t] = "pending"]
          /\ status = "open" /\ UNCHANGED <<status, active, revoked>>
      BY <2>2 DEF Posts, Post, m_taskQueue!Submit
    <3>2. t \in 1..MaxEvents
      <4>1. PICK e \in Events : log' = Append(log, e)
        BY <2>2 DEF Posts, Post
      <4>2. Len(log') = t
        BY <4>1, LineTypes, AppendProperties
      <4>3. Len(log') + Cardinality(Ending') + DueOfDestructor' <= MaxEvents
        BY <3>1 DEF RoomInv
      <4>4. Cardinality(Ending') \in Nat /\ DueOfDestructor' \in Nat
        BY EndingFinite DEF DueOfDestructor
      <4> QED
        BY <1>1, <4>2, <4>3, <4>4, BoundsAssumption
    <3> HIDE DEF t
    <3>3. line' \in Seq(1..MaxEvents)
      BY <3>1, <3>2, LineTypes, AppendProperties
    <3>4. outcome' \in [1..MaxEvents -> {"none", "pending", "ready", "broken"}]
      BY <3>1, <3>2 DEF SessionTypeOK, m_taskQueue!ExecutorTypeOK
    <3> QED
      BY <3>1, <3>3, <3>4 DEF SessionTypeOK, m_taskQueue!ExecutorTypeOK
  <2> QED
    BY <2>1, <2>2 DEF Operates
<1> QED
  BY <1>1, <1>2 DEF Operates, SessionTypeOK, Events, Kinds

LEMMA CallersType ==
    ASSUME SessionTypeOK, [Next]_vars
    PROVE  pc' \in [Callers -> CallerState]
<1>0. pc \in [Callers -> CallerState]
      /\ {"idle", "ending", "destroying", "destroy_queue", "drain", "gone", "terminated"}
           \subseteq CallerState
  BY DEF SessionTypeOK, CallerState
<1>1. ASSUME NEW c \in Callers, CallerStep(c) PROVE pc' \in [Callers -> CallerState]
  BY <1>0, <1>1, CallerPhases
<1>2. ASSUME NEW c \in Destroyers, Destroy(c) \/ DestroySignal(c) \/ DestroyQueue(c)
      PROVE  pc' \in [Callers -> CallerState]
  BY <1>0, <1>2, CallerNames DEF Destroy, DestroySignal, DestroyQueue
<1>3. CASE Construct \/ Destroyed \/ Terminate
  BY <1>0, <1>3 DEF Construct, Destroyed, Terminate
<1>4. CASE DeliverBegin \/ DeliverEnd \/ ReleaseCallbacks \/ UNCHANGED vars
  BY <1>0, <1>4 DEF DeliverBegin, DeliverEnd, ReleaseCallbacks, vars
<1> QED
  BY <1>1, <1>2, <1>3, <1>4 DEF Next, Terminated

LEMMA OtherType ==
    ASSUME SessionTypeOK, PhaseInv, LineInv, pc' \in [Callers -> CallerState],
           \/ Construct
           \/ \E c \in Destroyers : DestroyQueue(c)
           \/ Destroyed \/ Terminate \/ DeliverBegin \/ DeliverEnd \/ ReleaseCallbacks
    PROVE  SessionTypeOK'
<1>0. UNCHANGED <<log, session_vars, m_capabilities, initial>>
  BY OtherPhaseStep
<1>1. /\ callbacks' \in {"held", "released"}
      /\ status' \in {"unborn", "open", "closed", "gone"}
      /\ active' \in SUBSET (1..MaxEvents)
      /\ outcome' \in [1..MaxEvents -> {"none", "pending", "ready", "broken"}]
      /\ revoked' \in SUBSET (1..MaxEvents)
      /\ line' \in Seq(1..MaxEvents)
      /\ delivered' \in Seq(1..MaxEvents)
  <2>1. CASE DeliverBegin
    <3>1. /\ line' = Tail(line) /\ line # <<>> /\ active' = {Head(line)}
          /\ delivered' = IF callbacks = "held" THEN Append(delivered, Head(line)) ELSE delivered
          /\ UNCHANGED <<callbacks, status, outcome, revoked>>
      BY <2>1 DEF DeliverBegin, m_taskQueue!Begin
    <3>2. Head(line) \in 1..MaxEvents
      BY <2>1, BeginLine
    <3>3. line' \in Seq(1..MaxEvents)
      BY <3>1, LineTypes, HeadTailProperties
    <3>4. delivered' \in Seq(1..MaxEvents)
      BY <3>1, <3>2, LineTypes, AppendProperties
    <3> QED
      BY <3>1, <3>2, <3>3, <3>4 DEF SessionTypeOK, m_taskQueue!ExecutorTypeOK
  <2>2. CASE ~DeliverBegin
    <3>1. line' = line /\ revoked' = {} /\ delivered' = delivered
      BY <2>2, OtherLine
    <3>2. /\ callbacks' \in {"held", "released"}
          /\ status' \in {"unborn", "open", "closed", "gone"}
          /\ active' \in SUBSET (1..MaxEvents)
      BY <2>2
         DEF Construct, DestroyQueue, Destroyed, Terminate, DeliverEnd, ReleaseCallbacks,
             m_taskQueue!Create, m_taskQueue!Close, m_taskQueue!Retire, m_taskQueue!Complete,
             executor_vars, SessionTypeOK, m_taskQueue!ExecutorTypeOK
    <3>3. outcome' \in [1..MaxEvents -> {"none", "pending", "ready", "broken"}]
      <4>1. CASE UNCHANGED outcome
        BY <4>1 DEF SessionTypeOK, m_taskQueue!ExecutorTypeOK
      <4>2. CASE DeliverEnd
        BY <4>2
           DEF DeliverEnd, m_taskQueue!Complete, SessionTypeOK, m_taskQueue!ExecutorTypeOK
      <4>3. CASE Destroyed
        BY <4>3
           DEF Destroyed, m_taskQueue!Retire, SessionTypeOK, m_taskQueue!ExecutorTypeOK
      <4> QED
        BY <2>2, <4>1, <4>2, <4>3
           DEF Construct, DestroyQueue, Terminate, ReleaseCallbacks,
               m_taskQueue!Create, m_taskQueue!Close, executor_vars
    <3> QED
      BY <3>1, <3>2, <3>3, LineTypes
  <2> QED
    BY <2>1, <2>2
<1> QED
  BY <1>0, <1>1 DEF SessionTypeOK, m_taskQueue!ExecutorTypeOK, session_vars

LEMMA SessionStep == SessionInv /\ [Next]_vars => SessionInv'
<1> SUFFICES ASSUME SessionInv, [Next]_vars PROVE SessionInv'
  OBVIOUS
<1>0. SessionTypeOK /\ PhaseInv /\ RoomInv /\ LineInv /\ pc' \in [Callers -> CallerState]
  BY CallersType DEF SessionInv
<1>1. CASE UNCHANGED vars
  <2>1. SessionTypeOK'
    BY <1>0, <1>1
       DEF vars, executor_vars, session_vars, SessionTypeOK, m_taskQueue!ExecutorTypeOK
  <2>2. PhaseInv'
    BY <1>0, <1>1 DEF vars, executor_vars, session_vars, PhaseInv, Begun, OpenPhase, ClosedPhase
  <2>3. RoomInv' /\ LineInv'
    BY <1>0, <1>1 DEF vars, executor_vars, RoomInv, LineInv, Ending, DueOfDestructor
  <2> QED
    BY <2>1, <2>2, <2>3 DEF SessionInv
<1>2. ASSUME NEW c \in Callers, CallerStep(c) PROVE SessionInv'
  <2>1. Operates /\ PhaseInv' /\ RoomInv'
    BY <1>0, <1>2, CallerOperates, CallerPhaseStep, CallerRoom
  <2> QED
    BY <1>0, <2>1, OperateType, OperateLine DEF SessionInv
<1>3. ASSUME NEW c \in Destroyers, Destroy(c) \/ DestroySignal(c) PROVE SessionInv'
  <2>1. Operates /\ PhaseInv' /\ RoomInv'
    BY <1>0, <1>3, DestroyerOperates, DestroyPhaseStep, DestroyRoom
  <2> QED
    BY <1>0, <2>1, OperateType, OperateLine DEF SessionInv
<1>4. CASE \/ Construct
           \/ \E c \in Destroyers : DestroyQueue(c)
           \/ Destroyed \/ Terminate \/ DeliverBegin \/ DeliverEnd \/ ReleaseCallbacks
  <2>1. /\ PhaseInv'
        /\ log' = log
        /\ status' \in {"unborn", "open"} => Ending' = Ending
        /\ status' = "open" /\ status # "open" => Construct
    BY <1>0, <1>4, OtherPhaseStep
  <2>2. SessionTypeOK'
    BY <1>0, <1>4, OtherType
  <2>3. LineInv'
    BY <1>0, <1>4, OtherLine, BeginLine
  <2>4. RoomInv'
    <3> SUFFICES ASSUME status' \in {"unborn", "open"} PROVE RoomInv'
      BY DEF RoomInv
    <3>1. Ending' = Ending
      BY <2>1
    <3>2. status \in {"unborn", "open"}
      BY <1>0, <1>4
         DEF Construct, DestroyQueue, Destroyed, Terminate, DeliverBegin, DeliverEnd,
             ReleaseCallbacks, executor_vars, PhaseInv, Begun,
             m_taskQueue!Create, m_taskQueue!Close, m_taskQueue!Retire, m_taskQueue!Begin,
             m_taskQueue!Complete
    <3>3. DueOfDestructor' = DueOfDestructor
      <4>1. CASE Construct
        <5>1. pc[Owner] = "construct" /\ pc'[Owner] \in {"idle", "gone"}
          BY <1>0, <4>1, CallerNames DEF Construct, SessionTypeOK
        <5>2. status' = "open" => pc'[Owner] = "idle"
          BY <1>0, <4>1, CallerNames DEF Construct, SessionTypeOK
        <5>3. status' # "unborn"
          BY <4>1 DEF Construct, m_taskQueue!Create
        <5> QED
          BY <5>1, <5>2, <5>3 DEF DueOfDestructor
      <4>2. CASE DeliverBegin \/ DeliverEnd \/ ReleaseCallbacks
        BY <4>2 DEF DeliverBegin, DeliverEnd, ReleaseCallbacks, DueOfDestructor
      <4>3. CASE Terminate
        <5>1. status = "closed"
          BY <1>0, <4>3 DEF Terminate, PhaseInv, ClosedPhase
        <5> QED
          BY <3>2, <5>1
      <4> QED
        BY <1>4, <4>1, <4>2, <4>3
           DEF DestroyQueue, Destroyed, m_taskQueue!Close, m_taskQueue!Retire
    <3> QED
      BY <1>0, <2>1, <3>1, <3>2, <3>3 DEF RoomInv
  <2> QED
    BY <2>1, <2>2, <2>3, <2>4 DEF SessionInv
<1> QED
  BY <1>1, <1>2, <1>3, <1>4 DEF Next, Terminated

\* The type invariant of a session, its callers and its queue.
THEOREM SessionTypeCorrect == Spec => []SessionTypeOK
<1>1. SessionInv => SessionTypeOK
  BY DEF SessionInv
<1> QED
  BY <1>1, SessionInit, SessionStep, PTL DEF Spec

\* The client receives the events in the order they were posted, without a gap, and all
\* that began while it keeps its callbacks, whatever callers, callbacks and the destructor do.
THEOREM DeliveredInOrder == Spec => []InOrderNoGap
<1>1. SessionInv => InOrderNoGap
  <2> SUFFICES ASSUME SessionInv PROVE InOrderNoGap
    OBVIOUS
  <2>1. DOMAIN delivered = 1..Len(delivered)
    BY LenProperties DEF SessionInv, SessionTypeOK
  <2> QED
    BY <2>1 DEF SessionInv, LineInv, InOrderNoGap
<1> QED
  BY <1>1, SessionInit, SessionStep, PTL DEF Spec

-----------------------------------------------------------------------------
(* What every step leaves of the queue's state and of the log.             *)

LEMMA OperateLog ==
    ASSUME Operates
    PROVE  /\ status' = status
           /\ \/ log' = log /\ (status = "open" => UNCHANGED session_vars)
              \/ \E e \in Events : status = "open" /\ log' = Append(log, e) /\ Tells(e)
<1>1. CASE Keeps
  BY <1>1 DEF Keeps, executor_vars
<1>2. CASE Posts
  BY <1>2 DEF Posts, Post, m_taskQueue!Submit
<1> QED
  BY <1>1, <1>2 DEF Operates

\* Every step operates on the session, or leaves its log, its members and its ranging
\* alone and does not open the queue again.
LEMMA SessionSteps ==
    ASSUME SessionInv, [Next]_vars
    PROVE  \/ \E c \in Callers : CallerStep(c) /\ Operates /\ status # "unborn"
           \/ \E c \in Destroyers : /\ Destroy(c) \/ DestroySignal(c)
                                    /\ Operates /\ status # "unborn"
           \/ /\ UNCHANGED <<log, m_rangingSession, m_nearObjects, initial>>
              /\ status' \in {"unborn", "open"} => status \in {"unborn", "open"}
              /\ \/ Construct
                 \/ \E c \in Destroyers : DestroyQueue(c)
                 \/ Destroyed \/ Terminate
                 \/ UNCHANGED <<pc, status>>
<1>0. SessionTypeOK /\ PhaseInv /\ LineInv
  BY DEF SessionInv
<1>1. CASE UNCHANGED vars
  BY <1>1 DEF vars, session_vars, executor_vars
<1>2. ASSUME NEW c \in Callers, CallerStep(c) PROVE Operates /\ status # "unborn"
  BY <1>0, <1>2, CallerOperates, CallerPhaseStep DEF PhaseInv
<1>3. ASSUME NEW c \in Destroyers, Destroy(c) \/ DestroySignal(c)
      PROVE  Operates /\ status # "unborn"
  BY <1>0, <1>3, DestroyerOperates, DestroyPhaseStep
<1>4. CASE \/ Construct
           \/ \E c \in Destroyers : DestroyQueue(c)
           \/ Destroyed \/ Terminate \/ DeliverBegin \/ DeliverEnd \/ ReleaseCallbacks
  <2>1. UNCHANGED <<log, m_rangingSession, m_nearObjects, initial>>
    BY <1>0, <1>4, OtherPhaseStep DEF session_vars
  <2>2. status' \in {"unborn", "open"} => status \in {"unborn", "open"}
    BY <1>0, <1>4
       DEF Construct, DestroyQueue, Destroyed, Terminate, DeliverBegin, DeliverEnd,
           ReleaseCallbacks, executor_vars, PhaseInv, Begun,
           m_taskQueue!Create, m_taskQueue!Close, m_taskQueue!Retire, m_taskQueue!Begin,
           m_taskQueue!Complete
  <2>3. DeliverBegin \/ DeliverEnd \/ ReleaseCallbacks => UNCHANGED <<pc, status>>
    BY DEF DeliverBegin, DeliverEnd, ReleaseCallbacks, executor_vars, m_taskQueue!Begin,
           m_taskQueue!Complete
  <2> QED
    BY <1>4, <2>1, <2>2, <2>3
<1> QED
  BY <1>1, <1>2, <1>3, <1>4 DEF Next, Terminated

-----------------------------------------------------------------------------
(* The last event.  It has been posted when the destructor turns to the    *)
(* queue.                                                                  *)

EndedInv ==
    \/ \E c \in Callers : pc[c] = "destroy_queue"
    \/ status = "closed"
    \/ status = "gone" /\ log # <<>>
    => \E i \in 1..Len(log) : log[i] = OnSessionEnded


LEMMA EndedStep == SessionInv /\ EndedInv /\ [Next]_vars => EndedInv'
<1> SUFFICES ASSUME SessionInv, EndedInv, [Next]_vars,
                    \/ \E c \in Callers : pc'[c] = "destroy_queue"
                    \/ status' = "closed"
                    \/ status' = "gone" /\ log' # <<>>
             PROVE  \E i \in 1..Len(log') : log'[i] = OnSessionEnded
  BY DEF EndedInv
<1>0. SessionTypeOK /\ PhaseInv /\ log \in Seq(Events) /\ Len(log) \in Nat
  BY LineTypes DEF SessionInv
<1>1. CASE log' = log
  <2>1. SUFFICES \/ \E c \in Callers : pc[c] = "destroy_queue"
                 \/ status = "closed"
                 \/ status = "gone" /\ log # <<>>
    BY <1>1 DEF EndedInv
  <2>2. CASE UNCHANGED <<pc, status>>
    BY <1>1, <2>2
  <2>3. CASE \E c \in Callers : CallerStep(c) /\ Operates
    <3>1. PICK c \in Callers : CallerStep(c) /\ Operates
      BY <2>3
    <3>2. status' = status
      BY <3>1, OperateLog
    <3>3. \A d \in Callers : pc'[d] = "destroy_queue" => pc[d] = "destroy_queue"
      BY <1>0, <3>1, CallerPhases DEF SessionTypeOK
    <3> QED
      BY <1>1, <3>2, <3>3
  <2>4. CASE \E c \in Destroyers : (Destroy(c) \/ DestroySignal(c)) /\ Operates
    <3>1. PICK c \in Destroyers : (Destroy(c) \/ DestroySignal(c)) /\ Operates
      BY <2>4
    <3>2. status' = "open" /\ status = "open" /\ DestroySignal(c)
      BY <1>0, <3>1, DestroyPhaseStep
    <3>3. log' = Append(log, OnSessionEnded)
      BY <3>2 DEF DestroySignal, InvokeEventCallback, Post
    <3>4. Len(log') = Len(log) + 1
      BY <1>0, <3>3, EventTypes, AppendProperties
    <3> QED
      BY <1>0, <1>1, <3>4
  <2>5. CASE Construct
    <3>1. /\ log = <<>> /\ status' \in {"open", "gone"}
          /\ pc' = [pc EXCEPT ![Owner] = IF status' = "open" THEN "idle" ELSE "gone"]
          /\ \A c \in Callers : c # Owner => pc[c] = "idle"
      BY <1>0, <2>5 DEF Construct, m_taskQueue!Create, PhaseInv, Begun
    <3>2. \A c \in Callers : pc'[c] # "destroy_queue"
      BY <1>0, <3>1 DEF SessionTypeOK
    <3> QED
      BY <1>1, <3>1, <3>2
  <2>6. CASE \E c \in Destroyers : DestroyQueue(c)
    BY <2>6, CallerNames DEF DestroyQueue
  <2>7. CASE Destroyed
    BY <2>7 DEF Destroyed, m_taskQueue!Retire
  <2>8. CASE Terminate
    BY <1>0, <2>8 DEF Terminate, PhaseInv, ClosedPhase
  <2> QED
    BY <2>2, <2>3, <2>4, <2>5, <2>6, <2>7, <2>8, SessionSteps
<1>2. CASE log' # log
  <2>1. Operates
    BY <1>2, SessionSteps
  <2>2. PICK e \in Events : status = "open" /\ log' = Append(log, e) /\ status' = status
    BY <1>2, <2>1, OperateLog
  <2>3. /\ Len(log') = Len(log) + 1
        /\ \A i \in 1..Len(log) : log'[i] = log[i]
        /\ log'[Len(log) + 1] = e
    BY <1>0, <2>2, AppendProperties
  <2>4. PICK d \in Callers : pc'[d] = "destroy_queue"
    BY <2>2
  <2>5. CASE \E c \in Callers : CallerStep(c)
    <3>1. pc[d] = "destroy_queue"
      BY <1>0, <2>4, <2>5, CallerPhases DEF SessionTypeOK
    <3>2. \E i \in 1..Len(log) : log[i] = OnSessionEnded
      BY <3>1 DEF EndedInv
    <3> QED
      BY <1>0, <2>3, <3>2
  <2>6. CASE \E c \in Destroyers : Destroy(c) \/ DestroySignal(c)
    <3>1. PICK c \in Destroyers : DestroySignal(c)
      BY <1>0, <2>4, <2>6, DestroyPhaseStep
    <3>2. log' = Append(log, OnSessionEnded)
      BY <2>2, <3>1 DEF DestroySignal, InvokeEventCallback, Post
    <3>3. log'[Len(log) + 1] = OnSessionEnded
      BY <1>0, <3>2, EventTypes, AppendProperties
    <3> QED
      BY <1>0, <2>3, <3>3
  <2> QED
    BY <1>2, <2>5, <2>6, SessionSteps
<1> QED
  BY <1>1, <1>2

\* A session that was destroyed has told a client that kept its callbacks all it
\* posted, and its end.
THEOREM DestructionTold == Spec => []DestructionTellsAll
<1>1. SessionInv /\ EndedInv => DestructionTellsAll
  <2> SUFFICES ASSUME SessionInv, EndedInv, status = "gone", log # <<>>, callbacks = "held"
               PROVE  /\ Len(delivered) = Len(log)
                      /\ \E i \in DOMAIN delivered : log[delivered[i]] = OnSessionEnded
    BY DEF DestructionTellsAll
  <2>1. /\ DOMAIN delivered = 1..Len(delivered) /\ Len(log) \in Nat
        /\ line = <<>> /\ Len(delivered) = Len(log) - Len(line)
        /\ \A i \in 1..Len(delivered) : delivered[i] = i
    BY LenProperties DEF SessionInv, SessionTypeOK, LineInv
  <2>2. Len(delivered) = Len(log)
    BY <2>1, EmptySequence
  <2>3. PICK i \in 1..Len(log) : log[i] = OnSessionEnded
    BY DEF EndedInv
  <2>4. i \in DOMAIN delivered /\ delivered[i] = i
    BY <2>1, <2>2
  <2> QED
    BY <2>2, <2>3, <2>4
<1>2. Init => EndedInv
  BY DEF Init, EndedInv, m_taskQueue!ExecutorInit
<1> QED
  BY <1>1, <1>2, SessionInit, SessionStep, EndedStep, PTL DEF Spec

-----------------------------------------------------------------------------
(* The events tell the ranging state.                                      *)

RangingInv ==
    status \in {"unborn", "open"} =>
        /\ \A i \in 1..Len(RangingEvents) :
               RangingEvents[i].kind = IF i % 2 = 1 THEN "started" ELSE "stopped"
        /\ m_rangingSession <=> Len(RangingEvents) % 2 = 1

\* Which events tell of ranging.
LEMMA RangingKinds ==
    /\ OnRangingStarted.kind = "started" /\ OnRangingStopped.kind = "stopped"
    /\ OnNearObjectPropertiesChanged \notin {OnRangingStarted, OnRangingStopped}
    /\ OnSessionEnded \notin {OnRangingStarted, OnRangingStopped}
    /\ \A added, removed :
          OnSessionMembershipChanged(added, removed) \notin {OnRangingStarted, OnRangingStopped}
<1>1. \A kind, added, removed : Event(kind, added, removed).kind = kind
  BY DEF Event
<1>2. /\ OnRangingStarted.kind = "started" /\ OnRangingStopped.kind = "stopped"
      /\ OnNearObjectPropertiesChanged.kind = "properties" /\ OnSessionEnded.kind = "ended"
      /\ \A added, removed : OnSessionMembershipChanged(added, removed).kind = "membership"
  BY <1>1
     DEF OnRangingStarted, OnRangingStopped, OnNearObjectPropertiesChanged, OnSessionEnded,
         OnSessionMembershipChanged
<1> QED
  BY <1>2

LEMMA RangingInit == Init => RangingInv
<1> SUFFICES ASSUME Init PROVE RangingInv
  OBVIOUS
<1>1. RangingEvents = <<>> /\ m_rangingSession = FALSE
  BY SelectedNone DEF Init, RangingEvents
<1>2. Len(RangingEvents) = 0
  BY <1>1, EmptySequence
<1> QED
  BY <1>1, <1>2 DEF RangingInv

LEMMA RangingStep == SessionInv /\ RangingInv /\ [Next]_vars => RangingInv'
<1> DEFINE S == {OnRangingStarted, OnRangingStopped}
           r == Selected(log, S)
           Alternate(list, active_) ==
               /\ \A i \in 1..Len(list) :
                     list[i].kind = IF i % 2 = 1 THEN "started" ELSE "stopped"
               /\ active_ <=> Len(list) % 2 = 1
<1> SUFFICES ASSUME SessionInv, RangingInv, [Next]_vars, status' \in {"unborn", "open"}
             PROVE  Alternate(Selected(log', S), m_rangingSession')
  BY DEF RangingInv, RangingEvents
<1>0. /\ log \in Seq(Events) /\ m_rangingSession \in BOOLEAN
      /\ r \in Seq(Events \cap S) /\ Len(r) \in Nat
  BY LineTypes, SelectedType, LenProperties DEF SessionInv, SessionTypeOK
<1>1. status \in {"unborn", "open"} => Alternate(r, m_rangingSession)
  BY DEF RangingInv, RangingEvents
<1>2. CASE UNCHANGED <<log, m_rangingSession>> /\ status \in {"unborn", "open"}
  BY <1>1, <1>2
<1>3. CASE \E e \in Events : status = "open" /\ log' = Append(log, e) /\ Tells(e)
  <2>1. PICK e \in Events : status = "open" /\ log' = Append(log, e) /\ Tells(e)
    BY <1>3
  <2>2. Selected(log', S) = IF e \in S THEN Append(r, e) ELSE r
    BY <1>0, <2>1, SelectedAppend
  <2>3. CASE e \notin S
    <3>1. UNCHANGED m_rangingSession
      BY <2>1, <2>3 DEF Tells, session_vars
    <3> QED
      BY <1>1, <2>1, <2>2, <2>3, <3>1
  <2>4. CASE e \in S
    <3> DEFINE n == Len(r)
               t == Append(r, e)
    <3>1. \/ /\ e = OnRangingStarted
             /\ m_rangingSession = FALSE /\ m_rangingSession' = TRUE
          \/ /\ e = OnRangingStopped
             /\ m_rangingSession = TRUE /\ m_rangingSession' = FALSE
      BY <2>1, <2>4, RangingKinds DEF Tells
    <3>2. /\ Len(t) = n + 1
          /\ \A i \in 1..n : t[i] = r[i]
          /\ t[n + 1] = e
      BY <1>0, <2>4, AppendProperties
    <3>3. /\ \A i \in 1..n : r[i].kind = IF i % 2 = 1 THEN "started" ELSE "stopped"
          /\ m_rangingSession <=> n % 2 = 1
      BY <1>1, <2>1
    <3> HIDE DEF n, t, r, S
    <3>4. n \in Nat
      BY <1>0 DEF n
    <3>5. \/ n % 2 = 0 /\ (n + 1) % 2 = 1
          \/ n % 2 = 1 /\ (n + 1) % 2 = 0
      BY <3>4
    <3>6. /\ m_rangingSession' <=> (n + 1) % 2 = 1
          /\ e.kind = IF (n + 1) % 2 = 1 THEN "started" ELSE "stopped"
      <4>1. CASE /\ e = OnRangingStarted
                 /\ m_rangingSession = FALSE /\ m_rangingSession' = TRUE
        <5>1. (n + 1) % 2 = 1
          BY <3>3, <3>5, <4>1
        <5> QED
          BY <4>1, <5>1, RangingKinds
      <4>2. CASE /\ e = OnRangingStopped
                 /\ m_rangingSession = TRUE /\ m_rangingSession' = FALSE
        <5>1. (n + 1) % 2 = 0
          BY <3>3, <3>5, <4>2
        <5> QED
          BY <4>2, <5>1, RangingKinds
      <4> QED
        BY <3>1, <4>1, <4>2
    <3>7. ASSUME NEW i \in 1..Len(t)
          PROVE  t[i].kind = IF i % 2 = 1 THEN "started" ELSE "stopped"
      <4>1. i \in 1..n \/ i = n + 1
        BY <3>2, <3>4
      <4>2. CASE i \in 1..n
        <5>1. t[i] = r[i]
          BY <3>2, <4>2
        <5> QED
          BY <3>3, <4>2, <5>1
      <4>3. CASE i = n + 1
        BY <3>2, <3>6, <4>3
      <4> QED
        BY <4>1, <4>2, <4>3
    <3>8. Alternate(t, m_rangingSession')
      BY <3>2, <3>6, <3>7
    <3> HIDE DEF Alternate
    <3> QED
      BY <2>2, <2>4, <3>8 DEF t
  <2> QED
    BY <2>3, <2>4
<1>4. \/ UNCHANGED <<log, m_rangingSession>> /\ status \in {"unborn", "open"}
      \/ \E e \in Events : status = "open" /\ log' = Append(log, e) /\ Tells(e)
  BY SessionSteps, OperateLog DEF session_vars
<1> QED
  BY <1>2, <1>3, <1>4

\* Starts and stops alternate, and the last one tells whether ranging is active.
THEOREM RangingTold == Spec => []EventsTellRanging
<1>1. SessionInv /\ RangingInv => EventsTellRanging
  <2> SUFFICES ASSUME SessionInv, RangingInv PROVE EventsTellRanging
    OBVIOUS
  <2>1. log \in Seq(Events)
    BY LineTypes DEF SessionInv
  <2>2. RangingEvents \in Seq(Events \cap {OnRangingStarted, OnRangingStopped})
    BY <2>1, SelectedType DEF RangingEvents
  <2>3. DOMAIN RangingEvents = 1..Len(RangingEvents)
    BY <2>2, LenProperties
  <2> QED
    BY <2>3 DEF RangingInv, EventsTellRanging
<1> QED
  BY <1>1, RangingInit, SessionInit, SessionStep, RangingStep, PTL DEF Spec

-----------------------------------------------------------------------------
(* The events tell the members.                                            *)

MemberInv == status \in {"unborn", "open"} => Believed = m_nearObjects

\* What a client believes after an event, by what it believed before.
After(members, e) == Selected(members, Objects \ ToSet(e.removed)) \o e.added

\* A client follows the events one at a time.
LEMMA FollowedSteps ==
    ASSUME NEW events \in Seq(Events), NEW start
    PROVE  \E after :
              /\ Followed(start, events) = after[Len(events)]
              /\ after[0] = start
              /\ \A i \in 1..Len(events) : after[i] = After(after[i - 1], events[i])
<1> DEFINE Def(t) ==
               [n \in 0..Len(events) |->
                   IF n = 0 THEN start
                   ELSE Selected(t[n - 1], Objects \ ToSet(events[n].removed))
                            \o events[n].added]
           UpTo(t, n) == t[0] = start /\ \A i \in 1..n : t[i] = After(t[i - 1], events[i])
           Reached == {n \in 0..Len(events) : \E t : UpTo(t, n)}
           after == CHOOSE t : t = Def(t)
<1>1. Len(events) \in Nat
  BY LenProperties
<1>2. 0..Len(events) \subseteq Reached
  <2>1. 0 \in Reached
    <3> DEFINE u == [i \in 0..0 |-> start]
    <3>1. UpTo(u, 0)
      OBVIOUS
    <3> HIDE DEF UpTo, u
    <3> QED
      BY <1>1, <3>1
  <2>2. ASSUME NEW n \in 0..(Len(events) - 1), n \in Reached PROVE n + 1 \in Reached
    <3>1. PICK t : UpTo(t, n)
      BY <2>2
    <3> DEFINE u == [i \in 0..(n + 1) |->
                        IF i = n + 1 THEN After(t[n], events[n + 1]) ELSE t[i]]
    <3>2. u[0] = start
      BY <1>1, <3>1
    <3>3. \A i \in 1..n : u[i] = After(u[i - 1], events[i])
      BY <1>1, <3>1
    <3>4. u[n + 1] = After(u[n], events[n + 1])
      BY <1>1
    <3>5. \A i \in 1..(n + 1) : i \in 1..n \/ i = n + 1
      BY <1>1
    <3>6. (n + 1) - 1 = n
      BY <1>1
    <3> HIDE DEF u
    <3>7. UpTo(u, n + 1)
      BY <3>2, <3>3, <3>4, <3>5, <3>6
    <3>8. n + 1 \in 0..Len(events)
      BY <1>1
    <3> QED
      BY <3>7, <3>8
  <2> HIDE DEF Reached
  <2> QED
    BY <1>1, <2>1, <2>2, SetInduction
<1>3. \E t : t = Def(t)
  <2>1. PICK t : UpTo(t, Len(events))
    BY <1>1, <1>2
  <2> DEFINE u == [i \in 0..Len(events) |-> t[i]]
  <2>2. ASSUME NEW i \in 0..Len(events) PROVE u[i] = Def(u)[i]
    <3>1. CASE i = 0
      BY <1>1, <2>1, <3>1
    <3>2. CASE i # 0
      <4>1. i \in 1..Len(events) /\ i - 1 \in 0..Len(events)
        BY <1>1, <3>2
      <4> QED
        BY <2>1, <3>2, <4>1 DEF After
    <3> QED
      BY <3>1, <3>2
  <2>3. u = Def(u)
    BY <2>2
  <2> QED
    BY <2>3
<1>4. Followed(start, events) = after[Len(events)]
  BY Zenon DEF Followed
<1>5. after = Def(after)
  <2> HIDE DEF Def
  <2> QED
    BY <1>3, Zenon
<1> HIDE DEF after
<1>6. after[0] = start
  BY <1>1, <1>5
<1>7. ASSUME NEW i \in 1..Len(events) PROVE after[i] = After(after[i - 1], events[i])
  <2>1. i \in 0..Len(events) /\ i # 0
    BY <1>1
  <2>2. after[i] = Def(after)[i]
    BY <1>5
  <2> QED
    BY <2>1, <2>2 DEF After
<1> QED
  BY <1>4, <1>6, <1>7

LEMMA FollowedNothing == \A start : Followed(start, <<>>) = start
<1> SUFFICES ASSUME NEW start PROVE Followed(start, <<>>) = start
  OBVIOUS
<1> DEFINE none == <<>>
<1>1. none \in Seq(Events) /\ Len(none) = 0
  BY EmptySequence, Zenon
<1> HIDE DEF none
<1>2. PICK after : Followed(start, none) = after[Len(none)] /\ after[0] = start
  <2>1. \A events \in Seq(Events) :
           \E after : Followed(start, events) = after[Len(events)] /\ after[0] = start
    BY FollowedSteps
  <2> QED
    BY <1>1, <2>1, Zenon
<1>3. Followed(start, none) = start
  BY <1>1, <1>2
<1> QED
  BY <1>3 DEF none

LEMMA FollowedAppend ==
    ASSUME NEW events \in Seq(Events), NEW e \in Events, NEW start
    PROVE  Followed(start, Append(events, e)) = After(Followed(start, events), e)
<1> DEFINE r == Append(events, e)
<1>1. /\ Len(events) \in Nat /\ r \in Seq(Events) /\ Len(r) = Len(events) + 1
      /\ \A i \in 1..Len(events) : r[i] = events[i]
      /\ r[Len(events) + 1] = e
  BY LenProperties, AppendProperties
<1> HIDE DEF r
<1>2. PICK f : /\ Followed(start, events) = f[Len(events)]
               /\ f[0] = start
               /\ \A i \in 1..Len(events) : f[i] = After(f[i - 1], events[i])
  BY FollowedSteps
<1>3. PICK g : /\ Followed(start, r) = g[Len(r)]
               /\ g[0] = start
               /\ \A i \in 1..Len(r) : g[i] = After(g[i - 1], r[i])
  BY <1>1, FollowedSteps
<1> DEFINE T == {i \in 0..Len(events) : f[i] = g[i]}
<1>4. 0 \in T
  BY <1>1, <1>2, <1>3
<1>5. ASSUME NEW i \in 0..(Len(events) - 1), i \in T PROVE i + 1 \in T
  <2>1. /\ i + 1 \in 1..Len(events) /\ (i + 1) - 1 = i
        /\ i + 1 \in 0..Len(events) /\ i + 1 \in 1..Len(r)
    BY <1>1
  <2>2. f[i + 1] = g[i + 1]
    BY <1>1, <1>2, <1>3, <1>5, <2>1
  <2> QED
    BY <2>1, <2>2
<1> HIDE DEF T
<1>6. 0..Len(events) \subseteq T
  BY <1>1, <1>4, <1>5, SetInduction
<1>7. Len(events) \in T
  BY <1>1, <1>6
<1>8. Len(events) + 1 \in 1..Len(r) /\ (Len(events) + 1) - 1 = Len(events)
  BY <1>1
<1>9. g[Len(r)] = After(g[Len(events)], e)
  BY <1>1, <1>3, <1>8
<1> QED
  BY <1>2, <1>3, <1>7, <1>9 DEF T, r

\* A client that follows an event keeps believing what the session holds.
LEMMA AfterTells ==
    ASSUME NEW e \in Events, Tells(e), m_nearObjects \in Seq(Objects)
    PROVE  After(m_nearObjects, e) = m_nearObjects'
<1>1. Selected(m_nearObjects, Objects \ ToSet(NoObjects)) = m_nearObjects
  <2>1. Objects \ ToSet(NoObjects) = Objects
    BY ToSetShort DEF NoObjects
  <2> QED
    BY <2>1, SelectedAll
<1>2. \A s \in Seq(Objects) : s \o NoObjects = s
  BY ConcatEmptySeq DEF NoObjects
<1>3. \A kind, added, removed :
         /\ Event(kind, added, removed).added = added
         /\ Event(kind, added, removed).removed = removed
  BY DEF Event
<1> HIDE DEF NoObjects
<1>4. CASE /\ e \in {OnRangingStarted, OnRangingStopped, OnNearObjectPropertiesChanged,
                      OnSessionEnded}
           /\ UNCHANGED m_nearObjects
  <2>1. e.added = NoObjects /\ e.removed = NoObjects
    BY <1>3, <1>4
       DEF OnRangingStarted, OnRangingStopped, OnNearObjectPropertiesChanged, OnSessionEnded
  <2> QED
    BY <1>1, <1>2, <1>4, <2>1 DEF After
<1>5. ASSUME NEW added \in Seq(Objects), e = OnSessionMembershipChanged(added, NoObjects),
             m_nearObjects' = m_nearObjects \o added
      PROVE  After(m_nearObjects, e) = m_nearObjects'
  <2>1. e.added = added /\ e.removed = NoObjects
    BY <1>3, <1>5 DEF OnSessionMembershipChanged
  <2> QED
    BY <1>1, <1>5, <2>1 DEF After
<1>6. ASSUME NEW named,
             e = OnSessionMembershipChanged(NoObjects, Selected(m_nearObjects, named)),
             m_nearObjects' = Selected(m_nearObjects, Objects \ named)
      PROVE  After(m_nearObjects, e) = m_nearObjects'
  <2> DEFINE kept == Selected(m_nearObjects, Objects \ named)
  <2>1. e.added = NoObjects /\ e.removed = Selected(m_nearObjects, named)
    BY <1>3, <1>6 DEF OnSessionMembershipChanged
  <2>2. Selected(m_nearObjects, Objects \ ToSet(e.removed)) = kept
    BY <2>1, SelectedRest
  <2>3. kept \in Seq(Objects)
    <3>1. kept \in Seq(Objects \cap (Objects \ named))
      BY SelectedType
    <3> HIDE DEF kept
    <3> QED
      BY <3>1, SeqIntersection
  <2> HIDE DEF kept
  <2>4. After(m_nearObjects, e) = kept
    BY <1>2, <2>1, <2>2, <2>3 DEF After
  <2> QED
    BY <1>6, <2>4 DEF kept
<1> QED
  BY <1>4, <1>5, <1>6 DEF Tells, session_vars

LEMMA MemberStep == SessionInv /\ MemberInv /\ [Next]_vars => MemberInv'
<1> SUFFICES ASSUME SessionInv, MemberInv, [Next]_vars, status' \in {"unborn", "open"}
             PROVE  Followed(initial', log') = m_nearObjects'
  BY DEF MemberInv, Believed
<1>1. log \in Seq(Events) /\ m_nearObjects \in Seq(Objects)
  BY LineTypes DEF SessionInv, SessionTypeOK
<1>2. status \in {"unborn", "open"} => Followed(initial, log) = m_nearObjects
  BY DEF MemberInv, Believed
<1>3. CASE UNCHANGED <<log, m_nearObjects, initial>> /\ status \in {"unborn", "open"}
  BY <1>2, <1>3
<1>4. CASE /\ UNCHANGED initial
           /\ \E e \in Events : status = "open" /\ log' = Append(log, e) /\ Tells(e)
  <2>1. PICK e \in Events : status = "open" /\ log' = Append(log, e) /\ Tells(e)
    BY <1>4
  <2>2. Followed(initial, log') = After(Followed(initial, log), e)
    BY <1>1, <2>1, FollowedAppend
  <2> QED
    BY <1>1, <1>2, <1>4, <2>1, <2>2, AfterTells
<1>5. \/ UNCHANGED <<log, m_nearObjects, initial>> /\ status \in {"unborn", "open"}
      \/ /\ UNCHANGED initial
         /\ \E e \in Events : status = "open" /\ log' = Append(log, e) /\ Tells(e)
  BY SessionSteps, OperateLog DEF Operates, session_vars
<1> QED
  BY <1>3, <1>4, <1>5

\* A client that follows the membership events believes exactly what the session holds,
\* in its order and with its duplicates, until the destructor stops the queue.
THEOREM MembershipTold == Spec => []EventsTellMembership
<1>1. MemberInv => EventsTellMembership
  BY DEF MemberInv, EventsTellMembership
<1>2. Init => MemberInv
  BY FollowedNothing DEF Init, MemberInv, Believed
<1> QED
  BY <1>1, <1>2, SessionInit, SessionStep, MemberStep, PTL DEF Spec

-----------------------------------------------------------------------------
(* The session and its queue.  Every event has a number that no task of    *)
(* the queue has yet, and the bound on events is never reached by one that *)
(* is due: what the session does with the queue, the executor allows, and  *)
(* neither the numbering nor the bound takes a step away from it.          *)

NumberInv ==
    /\ \A t \in active : t <= Len(log)
    /\ \A t \in 1..MaxEvents : t > Len(log) => outcome[t] = "none"

DuePosts ==
    status = "open" /\ (\E c \in Callers : pc[c] \in {"ending", "destroying"})
    => Len(log) + 1 \in 1..MaxEvents /\ outcome[Len(log) + 1] = "none"

\* A post is a submission of the next number.
LEMMA OperateQueue ==
    ASSUME SessionInv, SessionInv', Operates
    PROVE  \/ UNCHANGED <<log, executor_vars>>
           \/ /\ Len(log) + 1 \in 1..MaxEvents
              /\ m_taskQueue!Submit(Len(log) + 1)
              /\ Len(log') = Len(log) + 1
<1>1. CASE Keeps
  BY <1>1 DEF Keeps
<1>2. CASE Posts
  <2>1. PICK e \in Events : status = "open" /\ Post(e)
    BY <1>2 DEF Posts
  <2>2. /\ m_taskQueue!Submit(Len(log) + 1) /\ log' = Append(log, e)
        /\ status' = "open"
    BY <2>1 DEF Post, m_taskQueue!Submit
  <2>3. /\ log \in Seq(Events) /\ Len(log) \in Nat
        /\ Len(log') = Len(log) + 1
    BY <2>2, LineTypes, AppendProperties DEF SessionInv
  <2>4. Len(log') + Cardinality(Ending') + DueOfDestructor' <= MaxEvents
    BY <2>2 DEF SessionInv, RoomInv
  <2>5. DueOfDestructor' \in Nat /\ Cardinality(Ending') \in Nat
    BY EndingFinite DEF DueOfDestructor
  <2>6. Len(log) + 1 \in 1..MaxEvents
    <3> DEFINE n == Len(log) m == Len(log') due == DueOfDestructor' left == Cardinality(Ending')
    <3>1. n \in Nat /\ m = n + 1 /\ due \in Nat /\ left \in Nat /\ m + left + due <= MaxEvents
          /\ MaxEvents \in Nat
      BY <2>3, <2>4, <2>5, BoundsAssumption
    <3> HIDE DEF n, m, due, left
    <3>2. n + 1 \in 1..MaxEvents
      BY <3>1
    <3> QED
      BY <3>2 DEF n
  <2> QED
    BY <2>2, <2>3, <2>6
<1> QED
  BY <1>1, <1>2 DEF Operates

\* What the other steps are to the queue.
LEMMA OtherQueue ==
    ASSUME SessionInv,
           \/ Construct
           \/ \E c \in Destroyers : DestroyQueue(c)
           \/ Destroyed \/ Terminate \/ DeliverBegin \/ DeliverEnd \/ ReleaseCallbacks
    PROVE  /\ log' = log
           /\ \/ UNCHANGED executor_vars
              \/ m_taskQueue!Create \/ m_taskQueue!Begin \/ m_taskQueue!Complete
              \/ m_taskQueue!Close(Len(line) + 1) \/ m_taskQueue!Retire
BY DEF Construct, DestroyQueue, Destroyed, Terminate, DeliverBegin, DeliverEnd, ReleaseCallbacks

LEMMA NumberStep == SessionInv /\ SessionInv' /\ NumberInv /\ [Next]_vars => NumberInv'
<1> SUFFICES ASSUME SessionInv, SessionInv', NumberInv, [Next]_vars PROVE NumberInv'
  OBVIOUS
<1>1. /\ Len(log) \in Nat /\ line \in Seq(1..MaxEvents) /\ Len(line) \in Nat
      /\ Len(line) <= Len(log)
      /\ \A i \in 1..Len(line) : line[i] = Len(log) - Len(line) + i
      /\ MaxEvents \in Nat
      /\ outcome \in [1..MaxEvents -> {"none", "pending", "ready", "broken"}]
      /\ active \in SUBSET (1..MaxEvents)
  BY LineTypes, BoundsAssumption DEF SessionInv, SessionTypeOK, LineInv, m_taskQueue!ExecutorTypeOK
<1>2. CASE UNCHANGED <<log, executor_vars>>
  BY <1>2 DEF NumberInv, executor_vars
<1>3. CASE /\ Len(log) + 1 \in 1..MaxEvents
           /\ m_taskQueue!Submit(Len(log) + 1)
           /\ Len(log') = Len(log) + 1
  <2>1. /\ active' = active
        /\ \A t \in 1..MaxEvents : t # Len(log) + 1 => outcome'[t] = outcome[t]
    BY <1>1, <1>3 DEF m_taskQueue!Submit
  <2>2. \A t \in 1..MaxEvents : t > Len(log) + 1 => t > Len(log) /\ t # Len(log) + 1
    BY <1>1
  <2>3. \A t \in active : t \in Nat
    BY <1>1
  <2> QED
    BY <1>1, <1>3, <2>1, <2>2, <2>3 DEF NumberInv
<1>4. ASSUME NEW t \in Range(line) PROVE t \in 1..Len(log)
  <2>1. PICK i \in 1..Len(line) : t = line[i]
    BY <1>1, RangeEquality
  <2> QED
    BY <1>1, <2>1
<1>5. CASE log' = log /\ (m_taskQueue!Create \/ m_taskQueue!Close(Len(line) + 1))
  BY <1>5 DEF NumberInv, m_taskQueue!Create, m_taskQueue!Close
<1>6. CASE log' = log /\ m_taskQueue!Begin
  <2>1. line # <<>> /\ active' = {Head(line)} /\ outcome' = outcome
    BY <1>6 DEF m_taskQueue!Begin
  <2>2. Head(line) \in Range(line)
    BY <1>1, <2>1, RangeHeadTail
  <2>3. Head(line) <= Len(log)
    BY <1>1, <1>4, <2>2
  <2> QED
    BY <1>6, <2>1, <2>3 DEF NumberInv
<1>7. CASE log' = log /\ m_taskQueue!Complete
  BY <1>1, <1>7 DEF NumberInv, m_taskQueue!Complete
<1>8. CASE log' = log /\ m_taskQueue!Retire
  <2>1. /\ active' = {}
        /\ outcome' = [t \in 1..MaxEvents |-> IF t \in Range(line) THEN "broken" ELSE outcome[t]]
    BY <1>8, QueueRange DEF m_taskQueue!Retire
  <2> QED
    BY <1>1, <1>4, <1>8, <2>1 DEF NumberInv
<1>9. ASSUME NEW c \in Callers, CallerStep(c) PROVE NumberInv'
  BY <1>2, <1>3, <1>9, CallerOperates, OperateQueue DEF SessionInv
<1>10. ASSUME NEW c \in Destroyers, Destroy(c) \/ DestroySignal(c) PROVE NumberInv'
  BY <1>2, <1>3, <1>10, DestroyerOperates, OperateQueue DEF SessionInv
<1>11. CASE UNCHANGED vars
  BY <1>2, <1>11 DEF vars
<1> QED
  BY <1>2, <1>5, <1>6, <1>7, <1>8, <1>9, <1>10, <1>11, OtherQueue DEF Next, Terminated

LEMMA NumberInvariant == Spec => [](SessionInv /\ NumberInv)
<1>1. Init => NumberInv
  BY DEF Init, NumberInv, m_taskQueue!ExecutorInit
<1> QED
  BY <1>1, SessionInit, SessionStep, NumberStep, PTL DEF Spec

\* The event of a call that has reached its last step, of EndSession or of the
\* destructor, always fits the bound and has a number the queue has not seen.
THEOREM DuePostsFit == Spec => []DuePosts
<1>1. SessionInv /\ NumberInv => DuePosts
  <2> SUFFICES ASSUME SessionInv, NumberInv, status = "open",
                      NEW c \in Callers, pc[c] \in {"ending", "destroying"}
               PROVE  Len(log) + 1 \in 1..MaxEvents /\ outcome[Len(log) + 1] = "none"
    BY DEF DuePosts
  <2> DEFINE n == Len(log) left == Cardinality(Ending) due == DueOfDestructor
  <2>1. /\ n \in Nat /\ MaxEvents \in Nat /\ n + left + due <= MaxEvents
        /\ left \in Nat /\ due \in Nat
    BY LineTypes, BoundsAssumption, EndingFinite DEF SessionInv, RoomInv, DueOfDestructor
  <2>2. left + due >= 1
    <3>1. CASE pc[c] = "ending"
      <4>1. c \in Ending
        BY <3>1 DEF Ending
      <4>2. left # 0
        BY <4>1, EndingFinite, FS_EmptySet
      <4> QED
        BY <2>1, <4>2
    <3>2. CASE pc[c] = "destroying"
      <4>1. due >= 1
        BY <3>2, CallerNames DEF DueOfDestructor, SessionInv, PhaseInv
      <4> QED
        BY <2>1, <4>1
    <3> QED
      BY <3>1, <3>2
  <2> HIDE DEF n, left, due
  <2>3. n + 1 \in 1..MaxEvents /\ n + 1 > n
    BY <2>1, <2>2
  <2> QED
    BY <2>3 DEF NumberInv, n
<1> QED
  BY <1>1, NumberInvariant, PTL

LEMMA QueueStep ==
    SessionInv /\ SessionInv' /\ [Next]_vars
    => [m_taskQueue!ExecutorNext]_(m_taskQueue!executor_vars)
<1> SUFFICES ASSUME SessionInv, SessionInv', [Next]_vars
             PROVE  m_taskQueue!ExecutorNext \/ UNCHANGED executor_vars
  BY DEF executor_vars, m_taskQueue!executor_vars
<1>1. ASSUME Operates PROVE m_taskQueue!ExecutorNext \/ UNCHANGED executor_vars
  BY <1>1, OperateQueue DEF m_taskQueue!ExecutorNext
<1>2. ASSUME NEW c \in Callers, CallerStep(c) PROVE Operates
  BY <1>2, CallerOperates DEF SessionInv
<1>3. ASSUME NEW c \in Destroyers, Destroy(c) \/ DestroySignal(c) PROVE Operates
  BY <1>3, DestroyerOperates DEF SessionInv
<1>4. CASE \/ Construct
           \/ \E c \in Destroyers : DestroyQueue(c)
           \/ Destroyed \/ Terminate \/ DeliverBegin \/ DeliverEnd \/ ReleaseCallbacks
  <2>1. Len(line) + 1 \in 1..(Len(line) + 1)
    BY LineTypes DEF SessionInv
  <2> QED
    BY <1>4, <2>1, OtherQueue DEF m_taskQueue!ExecutorNext
<1>5. CASE UNCHANGED vars
  BY <1>5 DEF vars
<1> QED
  BY <1>1, <1>2, <1>3, <1>4, <1>5 DEF Next, Terminated

\* Whatever its callers and callbacks do, the session uses its queue as the executor
\* that TaskQueue implements.
THEOREM UsesExecutor == Spec => m_taskQueue!ExecutorSpec
<1>1. Init => m_taskQueue!ExecutorInit
  BY DEF Init
<1> QED
  BY <1>1, SessionInit, SessionStep, QueueStep, PTL DEF Spec, m_taskQueue!ExecutorSpec
=============================================================================
