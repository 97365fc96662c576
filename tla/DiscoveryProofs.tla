--------------------------- MODULE DiscoveryProofs ---------------------------
(***************************************************************************)
(* Proofs about Discovery, for every finite set of device names, any       *)
(* number of notifying threads and every bound.                            *)
(***************************************************************************)
EXTENDS Discovery, SequenceLemmas, FiniteSetTheorems

-----------------------------------------------------------------------------
(* The inductive invariant.                                                *)

\* A notifier has one notification under way.
OneSignal == \A k \in Notifiers : Len(signal[k]) <= 1

\* Who can still call whom.
AgentLife ==
    /\ ~m_started => ~registered
    /\ ~registered => pending = <<>> /\ \A k \in Notifiers : signal[k] = <<>>
    /\ ~hasCallback <=> pc \in {"setup", "gone"}
    /\ pc = "gone" => ~registered
    /\ pc = "setup" => m_nearObjectDevices = <<>> /\ held = {} /\ reported = {}

ProbeLife ==
    /\ probe \in {"running", "probing"} => pc \in {"waiting", "leaving"}
    /\ probe = "none" => existing = <<>> /\ pc \notin {"waiting", "adding", "leaving"}
    /\ pc \in {"setup", "registered"} => probe = "none"

\* The cache points to controllers of the right device, ...
CacheNamed ==
    \A n \in Names :
        m_nearObjectDeviceCache[n] # NoController
            => device[m_nearObjectDeviceCache[n]] = n

\* A controller that lives was made for a device.
LiveNamed == \A c \in Live : device[c] \in Names

CacheGone == pc \in {"unregistering", "gone", "undefined"}

\* ... and to every controller that lives and has not departed, as long as there is a
\* cache.  OneControllerPerDevice follows, and has to be kept beyond the cache's end.
Represents ==
    ~CacheGone
        => \A c \in Live \ departed :
              device[c] \in Names /\ m_nearObjectDeviceCache[device[c]] = c

\* Two notifiers report on different devices.
SignalsApart ==
    \A k, l \in Notifiers : \A s \in ToSet(signal[k]), t \in ToSet(signal[l]) :
        device[s.controller] = device[t.controller] => k = l

Awaited(n) == \E i \in DOMAIN pending : pending[i].name = n

SignalFor(n, p) ==
    \E k \in Notifiers : \E s \in ToSet(signal[k]) :
        s.presence = p /\ device[s.controller] = n

\* The last notification under way for a device tells whether it is there.
LastPending ==
    \A i \in DOMAIN pending :
        (\A j \in DOMAIN pending : j > i => pending[j].name # pending[i].name)
            => (pending[i].presence = "Arrived" <=> pending[i].name \in present)

LastSignal ==
    \A k \in Notifiers : \A s \in ToSet(signal[k]) :
        ~Awaited(device[s.controller])
            => (s.presence = "Arrived" <=> device[s.controller] \in present)

\* A device that was added to the list, or will be taken out of it: the list has an
\* entry for each, though perhaps another device's.
Owed(n) ==
    \/ n \in reported /\ ~Awaited(n) /\ ~SignalFor(n, "Arrived")
    \/ SignalFor(n, "Departed")
    \/ Cached(n) /\ ~SignalFor(n, "Arrived")

OwedNames == {n \in Names : Owed(n)}

Enough ==
    probe = "none" /\ pc \notin Destruction =>
        /\ Len(m_nearObjectDevices) >= Cardinality(OwedNames)
        /\ \A n \in Names :
              SignalFor(n, "Departed") => m_nearObjectDeviceCache[n] = NoController

TypeInv == DiscoveryTypeOK /\ OneSignal /\ AgentLife /\ ProbeLife

CacheInv ==
    CacheNamed /\ LiveNamed /\ Represents /\ SignalsApart /\ OneControllerPerDevice

ListInv == reported \subseteq present /\ LastPending /\ LastSignal /\ Enough

-----------------------------------------------------------------------------
(* The operators.                                                          *)

LEMMA LiveMember ==
    /\ \A c : c \in Live <=> \/ c \in ToSet(m_nearObjectDevices)
                             \/ c \in ToSet(existing)
                             \/ c \in held
                             \/ \E k \in Notifiers : \E s \in ToSet(signal[k]) :
                                   s.controller = c
    /\ \A c : c \in Live' <=> \/ c \in ToSet(m_nearObjectDevices')
                              \/ c \in ToSet(existing')
                              \/ c \in held'
                              \/ \E k \in Notifiers : \E s \in ToSet(signal'[k]) :
                                    s.controller = c
BY DEF Live

LEMMA LiveControllers == DiscoveryTypeOK => Live \subseteq Controllers
<1> SUFFICES ASSUME DiscoveryTypeOK, NEW c \in Live PROVE c \in Controllers
  OBVIOUS
<1> DEFINE Signal == [presence : Presence, controller : Controllers]
<1>1. /\ ToSet(m_nearObjectDevices) \subseteq Controllers
      /\ ToSet(existing) \subseteq Controllers
      /\ held \subseteq Controllers
      /\ \A k \in Notifiers : ToSet(signal[k]) \subseteq Signal
  <2>1. \A S : \A s \in Seq(S) : ToSet(s) \subseteq S
    BY ToSetRange, RangeOfSeq
  <2> QED
    BY <2>1 DEF DiscoveryTypeOK
<1> QED
  BY <1>1, LiveMember

\* A new controller is one that nobody holds and the cache does not name.
LEMMA NewController ==
    ASSUME DiscoveryTypeOK, Unused # {}
    PROVE  /\ Min(Unused) \in Controllers
           /\ Min(Unused) \notin Live
           /\ \A n \in Names : m_nearObjectDeviceCache[n] # Min(Unused)
<1>1. Unused \in SUBSET Nat
  BY DiscoveryBounds DEF Unused, Controllers
<1>2. Min(Unused) \in Unused
  BY <1>1, MinMember
<1> QED
  BY <1>2 DEF Unused

\* AddCachedUwbNearObjectDevice, with all that is known of what it returns.
LEMMA AddCachedEffect ==
    ASSUME DiscoveryTypeOK, NEW n \in Names, NEW c \in Controllers, AddCached(n, c)
    PROVE  \/ /\ Cached(n) /\ c = m_nearObjectDeviceCache[n] /\ c \in Live
              /\ UNCHANGED <<m_nearObjectDeviceCache, device, departed>>
           \/ /\ ~Cached(n) /\ c \notin Live
              /\ \A m \in Names : m_nearObjectDeviceCache[m] # c
              /\ device' = [device EXCEPT ![c] = n]
              /\ departed' = departed \ {c}
              /\ m_nearObjectDeviceCache' = [m_nearObjectDeviceCache EXCEPT ![n] = c]
<1>1. CASE Cached(n)
  BY <1>1 DEF AddCached, Cached, object_vars
<1>2. CASE ~Cached(n)
  <2>1. Unused # {} /\ c = Min(Unused)
    BY <1>2 DEF AddCached
  <2> QED
    BY <1>2, <2>1, NewController DEF AddCached
<1> QED
  BY <1>1, <1>2

LEMMA RemoveDeviceEffect ==
    ASSUME DiscoveryTypeOK, NEW c, RemoveDevice(c)
    PROVE  /\ m_nearObjectDevices' \in Seq(Controllers)
           /\ Len(m_nearObjectDevices') >= Len(m_nearObjectDevices) - 1
           /\ ToSet(m_nearObjectDevices') \subseteq ToSet(m_nearObjectDevices)
           /\ UNCHANGED reported
<1> DEFINE Same(d) == SameDevice(d, c)
           I == {i \in 1..Len(m_nearObjectDevices) : Same(m_nearObjectDevices[i])}
<1>0. m_nearObjectDevices \in Seq(Controllers) /\ Len(m_nearObjectDevices) \in Nat
  BY LenProperties DEF DiscoveryTypeOK
<1>1. m_nearObjectDevices' = RemoveFirstMatch(m_nearObjectDevices, Same)
  BY DEF RemoveDevice
<1>2. UNCHANGED reported
  BY DEF RemoveDevice
<1>3. CASE I # {}
  <2>1. I \in SUBSET Nat
    BY <1>0
  <2>2. Min(I) \in I
    <3> HIDE DEF I
    <3> QED
      BY <1>3, <2>1, MinMember
  <2>3. m_nearObjectDevices' = RemoveAt(m_nearObjectDevices, Min(I))
    BY <1>1, <1>3 DEF RemoveFirstMatch, SelectInSeq
  <2>4. Min(I) \in 1..Len(m_nearObjectDevices)
    BY <2>2
  <2> HIDE DEF I
  <2> QED
    BY <1>0, <1>2, <2>3, <2>4, RemoveAtProperties, ToSetRemoveAt
<1>4. CASE I = {}
  <2>1. m_nearObjectDevices' = m_nearObjectDevices
    BY <1>1, <1>4 DEF RemoveFirstMatch
  <2> QED
    BY <1>0, <1>2, <2>1
<1> QED
  BY <1>3, <1>4

\* What a notifier has under way.
SignalRecord == [presence : Presence, controller : Controllers]

LEMMA SignalOf ==
    ASSUME DiscoveryTypeOK, OneSignal, NEW k \in Notifiers
    PROVE  /\ signal[k] = <<>> => ToSet(signal[k]) = {}
           /\ signal[k] # <<>> => /\ Head(signal[k]) \in SignalRecord
                                  /\ ToSet(signal[k]) = {Head(signal[k])}
<1>1. signal[k] \in Seq(SignalRecord) /\ Len(signal[k]) <= 1
  BY DEF DiscoveryTypeOK, OneSignal, SignalRecord
<1>2. CASE signal[k] = <<>>
  BY <1>2, ToSetShort
<1>3. CASE signal[k] # <<>>
  <2> HIDE DEF SignalRecord
  <2> QED
    BY <1>1, <1>3, OnlyElement
<1> QED
  BY <1>2, <1>3

LEMMA TakesEffect ==
    ASSUME DiscoveryTypeOK, NEW k \in Notifiers, NEW i \in DOMAIN pending, Takes(k, i)
    PROVE  /\ Len(pending) \in Nat /\ DOMAIN pending = 1..Len(pending)
           /\ pending[i].name \in Names /\ pending[i].presence \in Presence
           /\ pending # <<>>
           /\ signal[k] = <<>>
           /\ pending' \in Seq([presence : Presence, name : Names])
           /\ Len(pending') = Len(pending) - 1
           /\ DOMAIN pending' = 1..(Len(pending) - 1)
           /\ \A j \in 1..(Len(pending) - 1) :
                  pending'[j] = IF j < i THEN pending[j] ELSE pending[j + 1]
<1>1. /\ pending \in Seq([presence : Presence, name : Names])
      /\ Len(pending) \in Nat /\ DOMAIN pending = 1..Len(pending)
  BY LenProperties DEF DiscoveryTypeOK
<1>2. pending' = RemoveAt(pending, i) /\ signal[k] = <<>>
  BY DEF Takes
<1>3. pending[i] \in [presence : Presence, name : Names] /\ pending # <<>>
  <2> DEFINE Record == [presence : Presence, name : Names]
  <2>1. pending \in Seq(Record)
    BY <1>1
  <2> HIDE DEF Record
  <2>2. pending[i] \in Record /\ pending # <<>>
    BY <2>1, ElementAt
  <2> QED
    BY <2>2 DEF Record
<1>4. /\ pending' \in Seq([presence : Presence, name : Names])
      /\ Len(pending') = Len(pending) - 1
      /\ \A j \in 1..(Len(pending) - 1) :
             pending'[j] = IF j < i THEN pending[j] ELSE pending[j + 1]
  <2> DEFINE Record == [presence : Presence, name : Names]
  <2>1. pending \in Seq(Record) /\ i \in 1..Len(pending)
    BY <1>1
  <2> HIDE DEF Record
  <2>2. /\ pending' \in Seq(Record)
        /\ Len(pending') = Len(pending) - 1
        /\ \A j \in 1..(Len(pending) - 1) :
               pending'[j] = IF j < i THEN pending[j] ELSE pending[j + 1]
    BY <1>2, <2>1, RemoveAtProperties
  <2> QED
    BY <2>2 DEF Record
<1>5. pending[i].name \in Names /\ pending[i].presence \in Presence
  BY <1>3
<1>6. DOMAIN pending' = 1..(Len(pending) - 1)
  BY <1>4, LenProperties
<1> QED
  BY <1>1, <1>2, <1>3, <1>4, <1>5, <1>6, Zenon

LEMMA AddDeviceEffect ==
    ASSUME DiscoveryTypeOK, NEW c \in Controllers, AddDevice(c)
    PROVE  /\ m_nearObjectDevices' \in Seq(Controllers)
           /\ Len(m_nearObjectDevices') = Len(m_nearObjectDevices) + 1
           /\ ToSet(m_nearObjectDevices') = ToSet(m_nearObjectDevices) \cup {c}
           /\ reported' = reported \cup ({device[c]} \cap present)
BY AppendProperties, RangeAppend, ToSetRange DEF AddDevice, DiscoveryTypeOK

-----------------------------------------------------------------------------
(* Types, and who can still call whom.                                     *)

LEMMA TypeInvInit == Init => TypeInv
<1> SUFFICES ASSUME Init PROVE TypeInv
  OBVIOUS
<1>1. DiscoveryTypeOK
  <2>1. \A S : <<>> \in Seq(S)
    BY EmptySeq
  <2>2. 0 \in 0..MaxChanges
    BY DiscoveryBounds
  <2> QED
    BY <2>1, <2>2, Zenon DEF Init, DiscoveryTypeOK, OwnerState, NoController
<1>2. OneSignal
  BY DEF Init, OneSignal
<1>3. AgentLife /\ ProbeLife
  BY DEF Init, AgentLife, ProbeLife
<1> QED
  BY <1>1, <1>2, <1>3 DEF TypeInv

LEMMA PlugType ==
    ASSUME TypeInv, NEW n \in Names, PlugIn(n) \/ PlugOut(n)
    PROVE  TypeInv'
<1>1. /\ changes' \in 0..MaxChanges
      /\ present' \in SUBSET Names /\ reported' \in SUBSET Names
      /\ reported = {} => reported' = {}
  BY DiscoveryBounds DEF TypeInv, DiscoveryTypeOK, PlugIn, PlugOut, Notify
<1>2. pending' \in Seq([presence : Presence, name : Names])
  <2>1. \A p \in Presence :
           Append(pending, [presence |-> p, name |-> n])
              \in Seq([presence : Presence, name : Names])
    BY AppendProperties DEF TypeInv, DiscoveryTypeOK
  <2> QED
    BY <2>1 DEF TypeInv, DiscoveryTypeOK, PlugIn, PlugOut, Notify, Presence
<1>3. ~registered => pending' = pending
  BY DEF PlugIn, PlugOut, Notify
<1>4. UNCHANGED <<m_started, registered, hasCallback, m_nearObjectDeviceCache, signal,
                  probe, toProbe, existing, m_nearObjectDevices, pc, held, device,
                  departed>>
  BY DEF PlugIn, PlugOut, Notify, agent_vars, probe_vars, object_vars
<1> QED
  BY <1>1, <1>2, <1>3, <1>4 DEF TypeInv, DiscoveryTypeOK, OneSignal, AgentLife, ProbeLife

LEMMA OwnerType ==
    ASSUME TypeInv, OwnerStep
    PROVE  TypeInv'
<1> USE DEF TypeInv, DiscoveryTypeOK, OneSignal, AgentLife, ProbeLife, OwnerState,
            Destruction, os_vars, agent_vars, probe_vars, manager_vars, object_vars
<1>0. <<>> \in Seq(Controllers) /\ <<>> \in Seq([presence : Presence, name : Names])
  OBVIOUS
<1>1. CASE StartAgent
  BY <1>1 DEF StartAgent, Start
<1>2. CASE StopAgent
  BY <1>0, <1>2 DEF StopAgent, Unregister
<1>3. CASE RegisterDiscoveryEventCallback
  BY <1>3 DEF RegisterDiscoveryEventCallback
<1>4. CASE ProbeStarted
  BY <1>4 DEF ProbeStarted
<1>5. CASE StartAdded
  BY <1>5 DEF StartAdded, Start
<1>6. CASE WaitEnds
  BY <1>6 DEF WaitEnds
<1>7. CASE AddExisting
  <2>1. Head(existing) \in Controllers /\ Tail(existing) \in Seq(Controllers)
    BY <1>7, HeadTailProperties DEF AddExisting
  <2>2. AddDevice(Head(existing))
    BY <1>7 DEF AddExisting
  <2>3. m_nearObjectDevices' \in Seq(Controllers) /\ reported' \in SUBSET Names
    BY <2>1, <2>2, AddDeviceEffect
  <2> HIDE DEF DiscoveryTypeOK
  <2>4. pc = "adding" /\ existing' = Tail(existing)
    BY <1>7 DEF AddExisting
  <2>5. UNCHANGED <<present, pending, changes, m_started, registered, hasCallback,
                    m_nearObjectDeviceCache, signal, probe, toProbe, pc, held, device,
                    departed>>
    BY <1>7 DEF AddExisting
  <2>6. DiscoveryTypeOK'
    BY <2>1, <2>3, <2>4, <2>5 DEF DiscoveryTypeOK
  <2> QED
    BY <2>4, <2>5, <2>6
<1>8. CASE AddReturns
  BY <1>0, <1>8 DEF AddReturns
<1>9. CASE DropManager
  BY <1>9 DEF DropManager
<1>10. CASE DestroyCache
  BY <1>10 DEF DestroyCache
<1>11. CASE DestroyRegistration
  BY <1>0, <1>11 DEF DestroyRegistration, Unregister
<1> QED
  BY <1>1, <1>2, <1>3, <1>4, <1>5, <1>6, <1>7, <1>8, <1>9, <1>10, <1>11 DEF OwnerStep

LEMMA ClientType ==
    ASSUME TypeInv, pc # "undefined", Obtain \/ Release
    PROVE  TypeInv'
<1>1. ToSet(m_nearObjectDevices) \subseteq Controllers
  BY ToSetRange, RangeOfSeq DEF TypeInv, DiscoveryTypeOK
<1>2. held' \in SUBSET Controllers
  BY <1>1 DEF TypeInv, DiscoveryTypeOK, Obtain, Release
<1>3. pc = "setup" => held' = {}
  BY ToSetShort DEF TypeInv, AgentLife, Obtain, Release
<1>4. UNCHANGED <<os_vars, agent_vars, signal, probe_vars, manager_vars, pc, object_vars>>
  BY DEF Obtain, Release
<1> QED
  BY <1>2, <1>3, <1>4
     DEF TypeInv, DiscoveryTypeOK, OneSignal, AgentLife, ProbeLife, os_vars, agent_vars,
         probe_vars, manager_vars, object_vars

\* A list of the devices that are present.
LEMMA EnumerateEffect ==
    ASSUME DiscoveryTypeOK, Enumerate
    PROVE  toProbe' \in Seq(Names)
<1>1. CASE toProbe' = <<>>
  BY <1>1, EmptySeq
<1>2. CASE toProbe' \in SetToSeqs(present)
  <2>1. Cardinality(present) \in Nat
    BY NamesAssumption, FS_Subset, FS_CardinalityType DEF DiscoveryTypeOK
  <2>2. toProbe' \in [1..Cardinality(present) -> Names]
    BY <1>2 DEF SetToSeqs, DiscoveryTypeOK
  <2> QED
    BY <2>1, <2>2
<1> QED
  BY <1>1, <1>2 DEF Enumerate

LEMMA AddCachedType ==
    ASSUME DiscoveryTypeOK, NEW n \in Names, NEW c \in Controllers, AddCached(n, c)
    PROVE  /\ m_nearObjectDeviceCache' \in [Names -> Controllers \cup {NoController}]
           /\ device' \in [Controllers -> Names \cup {"none"}]
           /\ departed' \in SUBSET Controllers
<1>1. CASE UNCHANGED <<m_nearObjectDeviceCache, device, departed>>
  BY <1>1 DEF DiscoveryTypeOK
<1>2. CASE /\ device' = [device EXCEPT ![c] = n]
           /\ departed' = departed \ {c}
           /\ m_nearObjectDeviceCache' = [m_nearObjectDeviceCache EXCEPT ![n] = c]
  BY <1>2 DEF DiscoveryTypeOK
<1> QED
  BY <1>1, <1>2, AddCachedEffect

LEMMA ProbeType ==
    ASSUME TypeInv, ProbeStep
    PROVE  TypeInv'
<1> USE DEF TypeInv, DiscoveryTypeOK, OneSignal, AgentLife, ProbeLife, os_vars,
            agent_vars, manager_vars, object_vars
<1>1. CASE Enumerate
  <2>1. toProbe' \in Seq(Names)
    BY <1>1, EnumerateEffect
  <2>2. UNCHANGED <<os_vars, agent_vars, signal, existing, manager_vars, pc, held,
                    object_vars>> /\ probe = "running" /\ probe' = "probing"
    BY <1>1 DEF Enumerate
  <2> QED
    BY <2>1, <2>2
<1>2. CASE ProbeNext
  <2>1. Head(toProbe) \in Names /\ Tail(toProbe) \in Seq(Names)
    BY <1>2, HeadTailProperties DEF ProbeNext
  <2>2. PICK c \in Controllers : /\ AddCached(Head(toProbe), c)
                                 /\ existing' = Append(existing, c)
    BY <1>2 DEF ProbeNext
  <2>3. /\ m_nearObjectDeviceCache' \in [Names -> Controllers \cup {NoController}]
        /\ device' \in [Controllers -> Names \cup {"none"}]
        /\ departed' \in SUBSET Controllers
    BY <2>1, <2>2, AddCachedType
  <2>4. existing' \in Seq(Controllers)
    BY <2>2, AppendProperties
  <2>5. /\ UNCHANGED <<os_vars, m_started, registered, hasCallback, signal, probe,
                       manager_vars, pc, held>>
        /\ probe = "probing" /\ toProbe' = Tail(toProbe)
    BY <1>2 DEF ProbeNext
  <2> QED
    BY <2>1, <2>3, <2>4, <2>5
<1>3. CASE ProbeReady
  BY <1>3 DEF ProbeReady
<1> QED
  BY <1>1, <1>2, <1>3 DEF ProbeStep

LEMMA NotifierType ==
    ASSUME TypeInv, pc # "undefined", NEW k \in Notifiers, NotifierStep(k)
    PROVE  TypeInv'
<1> USE DEF TypeInv, os_vars, agent_vars, probe_vars, manager_vars, object_vars
<1>0. /\ \A s \in SignalRecord : <<s>> \in Seq(SignalRecord) /\ Len(<<s>>) = 1
      /\ <<>> \in Seq(SignalRecord) /\ Len(<<>>) = 0
  <2> HIDE DEF SignalRecord
  <2> QED
    OBVIOUS
<1>1. ASSUME NEW s, signal' = [signal EXCEPT ![k] = s],
             s = <<>> \/ \E r \in SignalRecord : s = <<r>>
      PROVE  /\ signal' \in [Notifiers -> Seq([presence : Presence,
                                               controller : Controllers])]
             /\ OneSignal'
  <2>1. signal \in [Notifiers -> Seq(SignalRecord)] /\ s \in Seq(SignalRecord)
    BY <1>0, <1>1 DEF DiscoveryTypeOK, SignalRecord
  <2> HIDE DEF SignalRecord
  <2>2. signal' \in [Notifiers -> Seq(SignalRecord)]
    BY <1>1, <2>1
  <2>3. Len(s) <= 1
    <3>1. Len(s) = 0 \/ Len(s) = 1
      BY <1>0, <1>1, Zenon
    <3>2. 0 <= 1 /\ 1 <= 1
      OBVIOUS
    <3> QED
      BY <3>1, <3>2, Zenon
  <2>4. OneSignal'
    BY <1>1, <2>1, <2>3 DEF OneSignal
  <2> QED
    BY <2>2, <2>4 DEF SignalRecord
<1>2. CASE OnArrival(k)
  <2>1. PICK i \in DOMAIN pending, c \in Controllers :
            /\ Takes(k, i)
            /\ AddCached(pending[i].name, c)
            /\ signal' = [signal EXCEPT
                             ![k] = <<[presence |-> "Arrived", controller |-> c]>>]
    BY <1>2 DEF OnArrival
  <2>2. /\ pending[i].name \in Names /\ pending # <<>>
        /\ pending' \in Seq([presence : Presence, name : Names])
    BY <2>1, TakesEffect
  <2>3. [presence |-> "Arrived", controller |-> c] \in SignalRecord
    BY DEF SignalRecord, Presence
  <2>4. OneSignal' /\ signal' \in [Notifiers -> Seq([presence : Presence,
                                                     controller : Controllers])]
    BY <1>1, <2>1, <2>3
  <2>5. /\ m_nearObjectDeviceCache' \in [Names -> Controllers \cup {NoController}]
        /\ device' \in [Controllers -> Names \cup {"none"}]
        /\ departed' \in SUBSET Controllers
    BY <2>1, <2>2, AddCachedType
  <2>6. UNCHANGED <<present, changes, m_started, registered, hasCallback, probe_vars,
                    manager_vars, pc, held>>
    BY <1>2 DEF OnArrival
  <2>7. DiscoveryTypeOK'
    BY <2>2, <2>4, <2>5, <2>6 DEF DiscoveryTypeOK
  <2> QED
    BY <2>2, <2>4, <2>6, <2>7 DEF AgentLife, ProbeLife
<1>3. CASE OnRemoval(k)
  <2>1. PICK i \in DOMAIN pending :
            /\ Takes(k, i)
            /\ ExtractCached(pending[i].name)
            /\ signal' = IF Cached(pending[i].name)
                         THEN [signal EXCEPT
                                  ![k] = <<[presence |-> "Departed",
                                            controller |->
                                               m_nearObjectDeviceCache[pending[i].name]]>>]
                         ELSE signal
    BY <1>3 DEF OnRemoval
  <2>2. /\ pending[i].name \in Names /\ pending # <<>>
        /\ pending' \in Seq([presence : Presence, name : Names])
    BY <2>1, TakesEffect
  <2>3. /\ OneSignal' /\ departed' \in SUBSET Controllers
        /\ signal' \in [Notifiers -> Seq([presence : Presence, controller : Controllers])]
    <3>1. CASE Cached(pending[i].name)
      <4>1. m_nearObjectDeviceCache[pending[i].name] \in Controllers
        BY <3>1, LiveControllers DEF Cached
      <4>2. [presence |-> "Departed",
             controller |-> m_nearObjectDeviceCache[pending[i].name]] \in SignalRecord
        BY <4>1 DEF SignalRecord, Presence
      <4> QED
        BY <1>1, <2>1, <3>1, <4>1, <4>2 DEF ExtractCached, DiscoveryTypeOK
    <3>2. CASE ~Cached(pending[i].name)
      BY <2>1, <3>2 DEF ExtractCached, DiscoveryTypeOK, OneSignal
    <3> QED
      BY <3>1, <3>2
  <2>4. /\ m_nearObjectDeviceCache' \in [Names -> Controllers \cup {NoController}]
        /\ device' = device
    BY <2>1, <2>2 DEF ExtractCached, DiscoveryTypeOK
  <2>5. UNCHANGED <<present, changes, m_started, registered, hasCallback, probe_vars,
                    manager_vars, pc, held>>
    BY <1>3 DEF OnRemoval
  <2>6. DiscoveryTypeOK' /\ OneSignal'
    BY <2>2, <2>3, <2>4, <2>5 DEF DiscoveryTypeOK
  <2> QED
    BY <2>2, <2>5, <2>6 DEF AgentLife, ProbeLife
<1>4. CASE OnNotificationLate(k)
  <2>1. PICK i \in DOMAIN pending : Takes(k, i)
    BY <1>4 DEF OnNotificationLate
  <2>2. pending # <<>> /\ pending' \in Seq([presence : Presence, name : Names])
    BY <2>1, TakesEffect
  <2> QED
    BY <1>4, <2>2
       DEF OnNotificationLate, DiscoveryTypeOK, OneSignal, AgentLife, ProbeLife, OwnerState,
           Destruction
<1>5. CASE DevicePresenceChanged(k)
  <2>1. Head(signal[k]) \in SignalRecord
    BY <1>5, SignalOf DEF DevicePresenceChanged
  <2>2. OneSignal' /\ signal' \in [Notifiers -> Seq([presence : Presence,
                                                     controller : Controllers])]
    BY <1>1, <1>5 DEF DevicePresenceChanged
  <2>3. m_nearObjectDevices' \in Seq(Controllers) /\ reported' \in SUBSET Names
    <3>1. CASE ~ManagerListens
      BY <1>5, <3>1 DEF DevicePresenceChanged, DiscoveryTypeOK
    <3>2. CASE AddDevice(Head(signal[k]).controller)
      BY <2>1, <3>2, AddDeviceEffect DEF SignalRecord, DiscoveryTypeOK
    <3>3. CASE RemoveDevice(Head(signal[k]).controller)
      BY <2>1, <3>3, RemoveDeviceEffect DEF SignalRecord, DiscoveryTypeOK
    <3> QED
      BY <1>5, <3>1, <3>2, <3>3 DEF DevicePresenceChanged
  <2>4. ~ManagerListens => UNCHANGED manager_vars
    BY <1>5 DEF DevicePresenceChanged
  <2>5. UNCHANGED <<os_vars, agent_vars, probe_vars, pc, held, object_vars>>
        /\ signal' = [signal EXCEPT ![k] = <<>>] /\ signal[k] # <<>>
    BY <1>5 DEF DevicePresenceChanged
  <2>6. DiscoveryTypeOK'
    BY <2>2, <2>3, <2>5 DEF DiscoveryTypeOK
  <2>7. AgentLife'
    <3>1. registered
      BY <2>5 DEF AgentLife
    <3>2. pc = "setup" => ~hasCallback
      BY DEF AgentLife
    <3> QED
      BY <2>4, <2>5, <3>1, <3>2 DEF AgentLife, ManagerListens
  <2> QED
    BY <2>2, <2>5, <2>6, <2>7 DEF ProbeLife
<1> QED
  BY <1>2, <1>3, <1>4, <1>5 DEF NotifierStep

LEMMA TypeInvStep == TypeInv /\ [Next]_vars => TypeInv'
<1> SUFFICES ASSUME TypeInv, [Next]_vars PROVE TypeInv'
  OBVIOUS
<1>1. CASE UNCHANGED vars
  BY <1>1 DEF TypeInv, DiscoveryTypeOK, OneSignal, AgentLife, ProbeLife, vars, os_vars,
              agent_vars, probe_vars, manager_vars, object_vars
<1> QED
  BY <1>1, PlugType, ClientType, OwnerType, ProbeType, NotifierType
     DEF Next, Environment, Terminated

\* Every reachable state has the right types: the devices in the list, the cache and
\* the signals under way are controllers, and the owner is in a known place.
THEOREM DiscoveryTypeCorrect == Spec => []DiscoveryTypeOK
<1>1. TypeInv => DiscoveryTypeOK
  BY DEF TypeInv
<1> QED
  BY TypeInvInit, TypeInvStep, <1>1, PTL DEF Spec

-----------------------------------------------------------------------------
(* One controller for each device.                                         *)

\* A controller that lives or is cached is no NoController.
LEMMA LiveNotNone == DiscoveryTypeOK => NoController \notin Live
BY LiveControllers, DiscoveryBounds DEF Controllers, NoController

\* A step that creates and forgets no controller.
LEMMA KeepsCache ==
    ASSUME CacheInv, Live' \subseteq Live,
           UNCHANGED <<device, departed, m_nearObjectDeviceCache>>,
           \A k \in Notifiers : ToSet(signal'[k]) \subseteq ToSet(signal[k]),
           CacheGone => CacheGone'
    PROVE  CacheInv'
<1>1. CacheNamed' /\ LiveNamed'
  BY DEF CacheInv, CacheNamed, LiveNamed
<1>2. Represents'
  BY DEF CacheInv, Represents
<1>3. SignalsApart'
  BY DEF CacheInv, SignalsApart
<1>4. OneControllerPerDevice'
  BY DEF CacheInv, OneControllerPerDevice
<1> QED
  BY <1>1, <1>2, <1>3, <1>4 DEF CacheInv

\* A step in which AddCachedUwbNearObjectDevice returns c, to thread k or to the probe.
LEMMA AddCachedKeeps ==
    ASSUME TypeInv, CacheInv, ~CacheGone, ~CacheGone',
           NEW n \in Names, NEW c \in Controllers, AddCached(n, c),
           Live' \subseteq Live \cup {c}
    PROVE  /\ CacheNamed' /\ LiveNamed' /\ Represents' /\ OneControllerPerDevice'
           /\ device'[c] = n
           /\ \A d \in Live : device'[d] = device[d]
<1> USE DEF TypeInv
<1>1. Live \subseteq Controllers /\ NoController \notin Live
  BY LiveControllers, LiveNotNone
<1>2. CASE /\ Cached(n) /\ c = m_nearObjectDeviceCache[n] /\ c \in Live
           /\ UNCHANGED <<m_nearObjectDeviceCache, device, departed>>
  <2>1. device'[c] = n
    BY <1>1, <1>2 DEF CacheInv, CacheNamed
  <2>2. CacheNamed' /\ LiveNamed'
    BY <1>2 DEF CacheInv, CacheNamed, LiveNamed
  <2>3. Represents' /\ OneControllerPerDevice'
    BY <1>2 DEF CacheInv, Represents, OneControllerPerDevice
  <2> QED
    BY <1>2, <2>1, <2>2, <2>3
<1>3. CASE /\ ~Cached(n) /\ c \notin Live
           /\ \A m \in Names : m_nearObjectDeviceCache[m] # c
           /\ device' = [device EXCEPT ![c] = n]
           /\ departed' = departed \ {c}
           /\ m_nearObjectDeviceCache' = [m_nearObjectDeviceCache EXCEPT ![n] = c]
  <2>1. device'[c] = n /\ m_nearObjectDeviceCache'[n] = c
    BY <1>3 DEF DiscoveryTypeOK
  <2>2. \A d \in Controllers \ {c} : device'[d] = device[d]
    BY <1>3 DEF DiscoveryTypeOK
  <2>3. \A m \in Names \ {n} : m_nearObjectDeviceCache'[m] = m_nearObjectDeviceCache[m]
    BY <1>3 DEF DiscoveryTypeOK
  <2>4. \A m \in Names : m_nearObjectDeviceCache[m] \in Controllers \cup {NoController}
    BY DEF DiscoveryTypeOK
  <2>5. CacheNamed' /\ LiveNamed'
    BY <1>1, <1>3, <2>1, <2>2, <2>3, <2>4 DEF CacheInv, CacheNamed, LiveNamed
  <2>6. Represents'
    <3> SUFFICES ASSUME NEW d \in Live' \ departed'
                 PROVE  device'[d] \in Names /\ m_nearObjectDeviceCache'[device'[d]] = d
      BY DEF Represents
    <3>1. CASE d = c
      BY <2>1, <3>1
    <3>2. CASE d # c
      <4>1. d \in Live \ departed
        BY <1>3, <3>2
      <4>2. device[d] \in Names /\ m_nearObjectDeviceCache[device[d]] = d
        BY <4>1 DEF CacheInv, Represents
      <4>3. device[d] # n
        BY <1>3, <4>1, <4>2 DEF Cached
      <4> QED
        BY <1>1, <2>2, <2>3, <3>2, <4>1, <4>2, <4>3
    <3> QED
      BY <3>1, <3>2
  <2>7. OneControllerPerDevice'
    BY <2>6 DEF Represents, OneControllerPerDevice
  <2> QED
    BY <1>1, <1>3, <2>1, <2>2, <2>5, <2>6, <2>7
<1> QED
  BY <1>2, <1>3, AddCachedEffect

\* The steps of a notifier, with all that they do to the signals.
SignalsOfOthersKept(k) == \A l \in Notifiers \ {k} : signal'[l] = signal[l]

NobodyReportsOn(n) ==
    \A l \in Notifiers : \A s \in ToSet(signal[l]) : device[s.controller] # n

LEMMA ArrivalEffect ==
    ASSUME TypeInv, pc # "undefined", NEW k \in Notifiers, OnArrival(k)
    PROVE  \E i \in DOMAIN pending, c \in Controllers :
              /\ Takes(k, i) /\ pending[i].presence = "Arrived"
              /\ AddCached(pending[i].name, c)
              /\ NobodyReportsOn(pending[i].name)
              /\ ToSet(signal[k]) = {}
              /\ ToSet(signal'[k]) = {[presence |-> "Arrived", controller |-> c]}
              /\ SignalsOfOthersKept(k)
              /\ ~CacheGone /\ ~CacheGone'
              /\ \A d : d \in Live' <=> d \in Live \/ d = c
<1>1. PICK i \in DOMAIN pending, c \in Controllers :
          /\ Takes(k, i) /\ pending[i].presence = "Arrived"
          /\ AddCached(pending[i].name, c)
          /\ signal' = [signal EXCEPT
                           ![k] = <<[presence |-> "Arrived", controller |-> c]>>]
  BY DEF OnArrival
<1>2. signal[k] = <<>> /\ pending # <<>> /\ NobodyReportsOn(pending[i].name)
  BY <1>1, TakesEffect DEF TypeInv, Takes, NobodyReportsOn
<1>3. signal \in [Notifiers -> Seq(SignalRecord)]
  BY DEF TypeInv, DiscoveryTypeOK, SignalRecord
<1>4. /\ signal'[k] = <<[presence |-> "Arrived", controller |-> c]>>
      /\ SignalsOfOthersKept(k)
  BY <1>1, <1>3 DEF SignalsOfOthersKept
<1>5. ToSet(signal[k]) = {}
      /\ ToSet(signal'[k]) = {[presence |-> "Arrived", controller |-> c]}
  BY <1>2, <1>4, ToSetShort, Zenon
<1>6. ~CacheGone /\ ~CacheGone'
  BY <1>2 DEF OnArrival, CacheGone, TypeInv, AgentLife
<1>7. UNCHANGED <<m_nearObjectDevices, existing, held>>
  BY DEF OnArrival, probe_vars, manager_vars
<1>8. \A d : d \in Live' <=> d \in Live \/ d = c
  BY <1>4, <1>5, <1>7, LiveMember DEF SignalsOfOthersKept
<1> QED
  BY <1>1, <1>2, <1>4, <1>5, <1>6, <1>8

LEMMA RemovalEffect ==
    ASSUME TypeInv, pc # "undefined", NEW k \in Notifiers, OnRemoval(k)
    PROVE  \E i \in DOMAIN pending :
              /\ Takes(k, i) /\ pending[i].presence = "Departed"
              /\ ExtractCached(pending[i].name)
              /\ NobodyReportsOn(pending[i].name)
              /\ ToSet(signal[k]) = {}
              /\ ToSet(signal'[k]) =
                    IF Cached(pending[i].name)
                    THEN {[presence |-> "Departed",
                           controller |-> m_nearObjectDeviceCache[pending[i].name]]}
                    ELSE {}
              /\ SignalsOfOthersKept(k)
              /\ ~CacheGone /\ ~CacheGone'
              /\ Live' \subseteq Live
<1>1. PICK i \in DOMAIN pending :
          /\ Takes(k, i) /\ pending[i].presence = "Departed"
          /\ ExtractCached(pending[i].name)
          /\ signal' = IF Cached(pending[i].name)
                       THEN [signal EXCEPT
                                ![k] = <<[presence |-> "Departed",
                                          controller |->
                                             m_nearObjectDeviceCache[pending[i].name]]>>]
                       ELSE signal
  BY DEF OnRemoval
<1>2. signal[k] = <<>> /\ pending # <<>> /\ NobodyReportsOn(pending[i].name)
  BY <1>1, TakesEffect DEF TypeInv, Takes, NobodyReportsOn
<1>3. signal \in [Notifiers -> Seq(SignalRecord)]
  BY DEF TypeInv, DiscoveryTypeOK, SignalRecord
<1>4. /\ signal'[k] = IF Cached(pending[i].name)
                      THEN <<[presence |-> "Departed",
                              controller |-> m_nearObjectDeviceCache[pending[i].name]]>>
                      ELSE <<>>
      /\ SignalsOfOthersKept(k)
  BY <1>1, <1>2, <1>3 DEF SignalsOfOthersKept
<1>5. /\ ToSet(signal[k]) = {}
      /\ ToSet(signal'[k]) = IF Cached(pending[i].name)
                             THEN {[presence |-> "Departed",
                                    controller |-> m_nearObjectDeviceCache[pending[i].name]]}
                             ELSE {}
  BY <1>2, <1>4, ToSetShort, Zenon
<1>6. ~CacheGone /\ ~CacheGone'
  BY <1>2 DEF OnRemoval, CacheGone, TypeInv, AgentLife
<1>7. UNCHANGED <<m_nearObjectDevices, existing, held>>
  BY DEF OnRemoval, probe_vars, manager_vars
<1>8. Live' \subseteq Live
  BY <1>4, <1>5, <1>7, LiveMember DEF SignalsOfOthersKept, Cached
<1> QED
  BY <1>1, <1>2, <1>4, <1>5, <1>6, <1>8

LEMMA PresenceChangedEffect ==
    ASSUME TypeInv, NEW k \in Notifiers, DevicePresenceChanged(k)
    PROVE  /\ Head(signal[k]) \in SignalRecord
           /\ ToSet(signal[k]) = {Head(signal[k])}
           /\ ToSet(signal'[k]) = {}
           /\ SignalsOfOthersKept(k)
           /\ Live' \subseteq Live
<1>1. signal \in [Notifiers -> Seq(SignalRecord)]
  BY DEF TypeInv, DiscoveryTypeOK, SignalRecord
<1>2. signal'[k] = <<>> /\ SignalsOfOthersKept(k) /\ signal[k] # <<>>
  BY <1>1 DEF DevicePresenceChanged, SignalsOfOthersKept
<1>3. /\ Head(signal[k]) \in SignalRecord
      /\ ToSet(signal[k]) = {Head(signal[k])}
      /\ ToSet(signal'[k]) = {}
  BY <1>2, SignalOf, ToSetShort DEF TypeInv
<1>4. Head(signal[k]).controller \in Controllers
  BY <1>3 DEF SignalRecord
<1>5. UNCHANGED <<existing, held>>
  BY DEF DevicePresenceChanged, probe_vars
<1>6. ToSet(m_nearObjectDevices')
          \subseteq ToSet(m_nearObjectDevices) \cup {Head(signal[k]).controller}
  <2>1. CASE ~ManagerListens
    BY <2>1 DEF DevicePresenceChanged, manager_vars
  <2>2. CASE AddDevice(Head(signal[k]).controller)
    BY <1>4, <2>2, AddDeviceEffect DEF TypeInv
  <2>3. CASE RemoveDevice(Head(signal[k]).controller)
    BY <2>3, RemoveDeviceEffect DEF TypeInv
  <2> QED
    BY <2>1, <2>2, <2>3 DEF DevicePresenceChanged
<1>7. Live' \subseteq Live
  <2> SUFFICES ASSUME NEW c \in Live' PROVE c \in Live
    OBVIOUS
  <2>1. CASE \E l \in Notifiers : \E s \in ToSet(signal'[l]) : s.controller = c
    <3>1. \E l \in Notifiers : \E s \in ToSet(signal[l]) : s.controller = c
      BY <1>2, <1>3, <2>1 DEF SignalsOfOthersKept
    <3> QED
      BY <3>1, LiveMember
  <2>2. CASE c \in ToSet(m_nearObjectDevices')
    BY <1>3, <1>6, <2>2, LiveMember
  <2> QED
    BY <1>5, <2>1, <2>2, LiveMember
<1> QED
  BY <1>2, <1>3, <1>7

LEMMA CacheInvInit == Init => CacheInv
<1> SUFFICES ASSUME Init PROVE CacheInv
  OBVIOUS
<1>1. Live = {} /\ \A k \in Notifiers : ToSet(signal[k]) = {}
  <2>1. \A k \in Notifiers : ToSet(signal[k]) = {}
    BY ToSetShort DEF Init
  <2>2. \A c : c \notin Live
    BY <2>1, ToSetShort, LiveMember DEF Init
  <2> QED
    BY <2>1, <2>2
<1> QED
  BY <1>1
     DEF Init, CacheInv, CacheNamed, LiveNamed, Represents, SignalsApart, OneControllerPerDevice

LEMMA OwnerKeepsCache ==
    ASSUME TypeInv, CacheInv, OwnerStep
    PROVE  CacheInv'
<1> USE DEF os_vars, agent_vars, probe_vars, manager_vars, object_vars
<1>1. CASE DestroyCache
  <2>1. UNCHANGED <<device, departed, signal, m_nearObjectDevices, existing, held>>
    BY <1>1 DEF DestroyCache
  <2>2. Live' \subseteq Live
    BY <2>1, LiveMember
  <2>3. CacheNamed' /\ Represents'
    BY <1>1 DEF DestroyCache, CacheNamed, Represents, CacheGone
  <2>4. LiveNamed' /\ SignalsApart' /\ OneControllerPerDevice'
    BY <2>1, <2>2 DEF CacheInv, LiveNamed, SignalsApart, OneControllerPerDevice
  <2> QED
    BY <2>3, <2>4 DEF CacheInv
<1>2. CASE ~DestroyCache
  <2>1. UNCHANGED <<device, departed, m_nearObjectDeviceCache, signal>>
    BY <1>2 DEF OwnerStep, StartAgent, StopAgent, RegisterDiscoveryEventCallback,
                ProbeStarted, StartAdded, WaitEnds, AddExisting, AddReturns, DropManager,
                DestroyRegistration, Start, Unregister
  <2>2. CacheGone => CacheGone'
    BY <1>2 DEF OwnerStep, StartAgent, StopAgent, RegisterDiscoveryEventCallback,
                ProbeStarted, StartAdded, WaitEnds, AddExisting, AddReturns, DropManager,
                DestroyRegistration, CacheGone
  <2>3. Live' \subseteq Live
    <3>1. CASE AddExisting
      <4>1. /\ existing \in Seq(Controllers) /\ existing # <<>>
            /\ AddDevice(Head(existing)) /\ existing' = Tail(existing) /\ held' = held
        BY <3>1 DEF AddExisting, TypeInv, DiscoveryTypeOK
      <4>2. Head(existing) \in Controllers
            /\ ToSet(existing) = {Head(existing)} \cup ToSet(existing')
        BY <4>1, HeadTailProperties, RangeHeadTail, ToSetRange
      <4>3. ToSet(m_nearObjectDevices') = ToSet(m_nearObjectDevices) \cup {Head(existing)}
        BY <4>1, <4>2, AddDeviceEffect DEF TypeInv
      <4> QED
        BY <2>1, <4>1, <4>2, <4>3, LiveMember
    <3>2. CASE ~AddExisting
      <4>1. /\ held' = held
            /\ m_nearObjectDevices' = m_nearObjectDevices \/ m_nearObjectDevices' = <<>>
            /\ existing' = existing \/ existing' = <<>>
        BY <1>2, <3>2
           DEF OwnerStep, StartAgent, StopAgent, RegisterDiscoveryEventCallback,
               ProbeStarted, StartAdded, WaitEnds, AddReturns, DropManager,
               DestroyRegistration
      <4> QED
        BY <2>1, <4>1, ToSetShort, LiveMember
    <3> QED
      BY <3>1, <3>2
  <2> QED
    BY <2>1, <2>2, <2>3, KeepsCache
<1> QED
  BY <1>1, <1>2

LEMMA EnvironmentKeepsCache ==
    ASSUME CacheInv, Environment
    PROVE  CacheInv'
<1>1. /\ UNCHANGED <<device, departed, m_nearObjectDeviceCache, signal, pc, existing,
                     m_nearObjectDevices>>
      /\ held' \subseteq held \cup ToSet(m_nearObjectDevices)
  BY DEF Environment, PlugIn, PlugOut, Notify, Obtain, Release, os_vars, agent_vars,
         probe_vars, manager_vars, object_vars
<1>2. Live' \subseteq Live
  BY <1>1, LiveMember
<1> QED
  BY <1>1, <1>2, KeepsCache DEF CacheGone

LEMMA ProbeKeepsCache ==
    ASSUME TypeInv, CacheInv, ProbeStep
    PROVE  CacheInv'
<1> USE DEF os_vars, agent_vars, manager_vars, object_vars
<1>1. CASE Enumerate \/ ProbeReady
  <2>1. UNCHANGED <<device, departed, m_nearObjectDeviceCache, signal, pc, existing,
                    m_nearObjectDevices, held>>
    BY <1>1 DEF Enumerate, ProbeReady
  <2> QED
    BY <2>1, LiveMember, KeepsCache DEF CacheGone
<1>2. CASE ProbeNext
  <2>1. PICK c \in Controllers : /\ AddCached(Head(toProbe), c)
                                 /\ existing' = Append(existing, c)
    BY <1>2 DEF ProbeNext
  <2>2. Head(toProbe) \in Names
    BY <1>2, HeadTailProperties DEF ProbeNext, TypeInv, DiscoveryTypeOK
  <2>3. ToSet(existing') = ToSet(existing) \cup {c}
    BY <2>1, RangeAppend, ToSetRange DEF TypeInv, DiscoveryTypeOK
  <2>4. UNCHANGED <<signal, pc, held, m_nearObjectDevices>>
    BY <1>2 DEF ProbeNext
  <2>5. ~CacheGone /\ ~CacheGone'
    BY <1>2, <2>4 DEF ProbeNext, CacheGone, TypeInv, ProbeLife
  <2>6. Live' \subseteq Live \cup {c}
    BY <2>3, <2>4, LiveMember
  <2>7. /\ CacheNamed' /\ LiveNamed' /\ Represents' /\ OneControllerPerDevice'
        /\ \A d \in Live : device'[d] = device[d]
    BY <2>1, <2>2, <2>5, <2>6, AddCachedKeeps
  <2>8. \A k \in Notifiers : \A s \in ToSet(signal[k]) :
           device'[s.controller] = device[s.controller]
    BY <2>7, LiveMember
  <2>9. SignalsApart'
    BY <2>4, <2>8 DEF CacheInv, SignalsApart
  <2> QED
    BY <2>7, <2>9 DEF CacheInv
<1> QED
  BY <1>1, <1>2 DEF ProbeStep

LEMMA NotifierKeepsCache ==
    ASSUME TypeInv, CacheInv, pc # "undefined", NEW k \in Notifiers, NotifierStep(k)
    PROVE  CacheInv'
<1>1. CASE OnArrival(k)
  <2>1. PICK i \in DOMAIN pending, c \in Controllers :
            /\ Takes(k, i) /\ pending[i].presence = "Arrived"
            /\ AddCached(pending[i].name, c)
            /\ NobodyReportsOn(pending[i].name)
            /\ ToSet(signal[k]) = {}
            /\ ToSet(signal'[k]) = {[presence |-> "Arrived", controller |-> c]}
            /\ SignalsOfOthersKept(k)
            /\ ~CacheGone /\ ~CacheGone'
            /\ \A d : d \in Live' <=> d \in Live \/ d = c
    BY <1>1, ArrivalEffect
  <2> DEFINE n == pending[i].name
  <2>2. n \in Names
    BY <2>1, TakesEffect DEF TypeInv
  <2>3. Live' \subseteq Live \cup {c}
    BY <2>1
  <2>4. /\ CacheNamed' /\ LiveNamed' /\ Represents' /\ OneControllerPerDevice'
        /\ device'[c] = n
        /\ \A d \in Live : device'[d] = device[d]
    BY <2>1, <2>2, <2>3, AddCachedKeeps
  <2>5. \A l \in Notifiers : \A s \in ToSet(signal[l]) :
           device'[s.controller] = device[s.controller]
    BY <2>4, LiveMember
  <2>6. SignalsApart'
    <3> SUFFICES ASSUME NEW l \in Notifiers, NEW m \in Notifiers,
                        NEW s \in ToSet(signal'[l]), NEW t \in ToSet(signal'[m]),
                        device'[s.controller] = device'[t.controller]
                 PROVE  l = m
      BY DEF SignalsApart
    <3>1. \A j \in Notifiers \ {k} : \A r \in ToSet(signal'[j]) :
             device'[r.controller] = device[r.controller] /\ device'[r.controller] # n
             /\ r \in ToSet(signal[j])
      BY <2>1, <2>5 DEF SignalsOfOthersKept, NobodyReportsOn
    <3>2. \A r \in ToSet(signal'[k]) : device'[r.controller] = n
      BY <2>1, <2>4
    <3> QED
      BY <3>1, <3>2 DEF CacheInv, SignalsApart
  <2> QED
    BY <2>4, <2>6 DEF CacheInv
<1>2. CASE OnRemoval(k)
  <2>1. PICK i \in DOMAIN pending :
            /\ Takes(k, i) /\ pending[i].presence = "Departed"
            /\ ExtractCached(pending[i].name)
            /\ NobodyReportsOn(pending[i].name)
            /\ ToSet(signal[k]) = {}
            /\ ToSet(signal'[k]) =
                  IF Cached(pending[i].name)
                  THEN {[presence |-> "Departed",
                         controller |-> m_nearObjectDeviceCache[pending[i].name]]}
                  ELSE {}
            /\ SignalsOfOthersKept(k)
            /\ ~CacheGone /\ ~CacheGone'
            /\ Live' \subseteq Live
    BY <1>2, RemovalEffect
  <2> DEFINE n == pending[i].name
             c == m_nearObjectDeviceCache[n]
  <2>2. n \in Names
    BY <2>1, TakesEffect DEF TypeInv
  <2>3. Cached(n) => device[c] = n
    BY <2>2, LiveNotNone DEF TypeInv, CacheInv, CacheNamed, Cached
  <2>4. /\ m_nearObjectDeviceCache' = [m_nearObjectDeviceCache EXCEPT ![n] = NoController]
        /\ departed' = IF Cached(n) THEN departed \cup {c} ELSE departed
        /\ device' = device
    BY <2>1 DEF ExtractCached
  <2>5. /\ m_nearObjectDeviceCache'[n] = NoController
        /\ \A m \in Names \ {n} : m_nearObjectDeviceCache'[m] = m_nearObjectDeviceCache[m]
    BY <2>2, <2>4 DEF TypeInv, DiscoveryTypeOK
  <2>6. CacheNamed' /\ LiveNamed'
    BY <2>1, <2>4, <2>5 DEF CacheInv, CacheNamed, LiveNamed
  <2>7. Represents'
    <3> SUFFICES ASSUME NEW d \in Live' \ departed'
                 PROVE  device'[d] \in Names /\ m_nearObjectDeviceCache'[device'[d]] = d
      BY DEF Represents
    <3>1. d \in Live \ departed
      BY <2>1, <2>4
    <3>2. device[d] \in Names /\ m_nearObjectDeviceCache[device[d]] = d
      BY <2>1, <3>1 DEF CacheInv, Represents
    <3>3. device[d] # n
      BY <2>4, <3>1, <3>2 DEF Cached
    <3> QED
      BY <2>4, <2>5, <3>2, <3>3
  <2>8. OneControllerPerDevice'
    BY <2>1, <2>7 DEF Represents, OneControllerPerDevice
  <2>9. SignalsApart'
    <3> SUFFICES ASSUME NEW l \in Notifiers, NEW m \in Notifiers,
                        NEW s \in ToSet(signal'[l]), NEW t \in ToSet(signal'[m]),
                        device[s.controller] = device[t.controller]
                 PROVE  l = m
      BY <2>4 DEF SignalsApart
    <3>1. \A j \in Notifiers \ {k} : \A r \in ToSet(signal'[j]) :
             device[r.controller] # n /\ r \in ToSet(signal[j])
      BY <2>1 DEF SignalsOfOthersKept, NobodyReportsOn
    <3>2. \A r \in ToSet(signal'[k]) : device[r.controller] = n
      BY <2>1, <2>3
    <3> QED
      BY <3>1, <3>2 DEF CacheInv, SignalsApart
  <2> QED
    BY <2>6, <2>7, <2>8, <2>9 DEF CacheInv
<1>3. CASE OnNotificationLate(k)
  <2>1. UNCHANGED <<device, departed, m_nearObjectDeviceCache, signal, existing,
                    m_nearObjectDevices, held>> /\ CacheGone'
    BY <1>3 DEF OnNotificationLate, CacheGone, agent_vars, probe_vars, manager_vars,
                object_vars
  <2> QED
    BY <2>1, LiveMember, KeepsCache
<1>4. CASE DevicePresenceChanged(k)
  <2>1. /\ ToSet(signal'[k]) = {} /\ SignalsOfOthersKept(k)
        /\ Live' \subseteq Live
    BY <1>4, PresenceChangedEffect
  <2>2. UNCHANGED <<device, departed, m_nearObjectDeviceCache, pc>>
    BY <1>4 DEF DevicePresenceChanged, agent_vars, object_vars
  <2>3. \A l \in Notifiers : ToSet(signal'[l]) \subseteq ToSet(signal[l])
    BY <2>1 DEF SignalsOfOthersKept
  <2> QED
    BY <2>1, <2>2, <2>3, KeepsCache DEF CacheGone
<1> QED
  BY <1>1, <1>2, <1>3, <1>4 DEF NotifierStep

LEMMA CacheInvStep == TypeInv /\ CacheInv /\ [Next]_vars => CacheInv'
<1> SUFFICES ASSUME TypeInv, CacheInv, [Next]_vars PROVE CacheInv'
  OBVIOUS
<1>1. CASE UNCHANGED vars
  BY <1>1, LiveMember, KeepsCache
     DEF CacheGone, vars, agent_vars, probe_vars, manager_vars, object_vars
<1> QED
  BY <1>1, OwnerKeepsCache, EnvironmentKeepsCache, ProbeKeepsCache, NotifierKeepsCache
     DEF Next, Terminated

\* However probes and notifications interleave, a device that nobody saw depart is
\* represented by one controller.
THEOREM OneController == Spec => []OneControllerPerDevice
<1>1. CacheInv => OneControllerPerDevice
  BY DEF CacheInv
<1> QED
  BY TypeInvInit, TypeInvStep, CacheInvInit, CacheInvStep, <1>1, PTL DEF Spec

-----------------------------------------------------------------------------
(* The list is long enough.                                                *)

\* Plugging a device in or out announces it last.
LEMMA PlugEffect ==
    ASSUME TypeInv, ListInv, NEW n \in Names, PlugIn(n) \/ PlugOut(n)
    PROVE  /\ LastPending' /\ LastSignal' /\ reported' \subseteq present'
           /\ reported' \subseteq reported
           /\ \A m \in Names : Awaited(m) => Awaited(m)'
<1> USE DEF agent_vars, probe_vars, object_vars
<1>1. /\ reported' \subseteq present' /\ reported' \subseteq reported
      /\ \A m : m # n => (m \in present' <=> m \in present)
      /\ UNCHANGED <<signal, device>>
  BY DEF ListInv, PlugIn, PlugOut, Notify
<1>2. CASE ~registered
  <2>1. pending = <<>> /\ pending' = <<>>
    BY <1>2 DEF TypeInv, AgentLife, PlugIn, PlugOut, Notify
  <2>2. \A k \in Notifiers : ToSet(signal[k]) = {}
    BY <1>2, ToSetShort DEF TypeInv, AgentLife
  <2>3. LastPending'
    BY <2>1 DEF LastPending
  <2>4. LastSignal'
    BY <1>1, <2>2 DEF LastSignal
  <2> QED
    BY <1>1, <2>1, <2>3, <2>4 DEF Awaited
<1>3. CASE registered
  <2> DEFINE Notification == [presence : Presence, name : Names]
             p == IF n \in present' THEN "Arrived" ELSE "Departed"
             e == [presence |-> p, name |-> n]
             L == Len(pending)
  <2>1. pending \in Seq(Notification) /\ pending' = Append(pending, e)
    BY <1>3 DEF PlugIn, PlugOut, Notify, TypeInv, DiscoveryTypeOK
  <2>2. e \in Notification /\ e.name = n /\ (e.presence = "Arrived" <=> n \in present')
    BY DEF Presence
  <2> HIDE DEF Notification, e
  <2>3. /\ L \in Nat /\ DOMAIN pending = 1..L
        /\ DOMAIN pending' = 1..(L + 1)
        /\ \A i \in 1..L : pending'[i] = pending[i]
        /\ pending'[L + 1] = e
    BY <2>1, <2>2, AppendProperties, LenProperties
  <2> HIDE DEF L
  <2>4. \A m \in Names : Awaited(m) => Awaited(m)'
    BY <2>3 DEF Awaited
  <2>5. Awaited(n)'
    BY <2>2, <2>3 DEF Awaited
  <2>6. LastPending'
    <3> SUFFICES ASSUME NEW i \in 1..(L + 1),
                        \A j \in 1..(L + 1) : j > i => pending'[j].name # pending'[i].name
                 PROVE  pending'[i].presence = "Arrived" <=> pending'[i].name \in present'
      BY <2>3 DEF LastPending
    <3>1. CASE i = L + 1
      BY <2>2, <2>3, <3>1
    <3>2. CASE i \in 1..L
      <4>1. \A j \in 1..L : j > i => pending[j].name # pending[i].name
        BY <2>3, <3>2
      <4>2. pending[i].presence = "Arrived" <=> pending[i].name \in present
        BY <2>3, <3>2, <4>1 DEF ListInv, LastPending
      <4>3. pending[i].name # n
        BY <2>2, <2>3, <3>2
      <4> QED
        BY <1>1, <2>3, <3>2, <4>2, <4>3
    <3> QED
      BY <2>3, <3>1, <3>2
  <2>7. LastSignal'
    <3> SUFFICES ASSUME NEW k \in Notifiers, NEW s \in ToSet(signal[k]),
                        ~Awaited(device[s.controller])'
                 PROVE  s.presence = "Arrived" <=> device[s.controller] \in present'
      BY <1>1 DEF LastSignal, Awaited
    <3>1. device[s.controller] # n
      BY <1>1, <2>5 DEF Awaited
    <3>2. ~Awaited(device[s.controller])
      BY <1>1, <2>3 DEF Awaited
    <3> QED
      BY <1>1, <3>1, <3>2 DEF ListInv, LastSignal
  <2> QED
    BY <1>1, <2>4, <2>6, <2>7
<1> QED
  BY <1>2, <1>3

\* Taking the oldest notification for a device leaves the order of the others.
LEMMA TakesKeepsOrder ==
    ASSUME TypeInv, LastPending, present' = present,
           NEW k \in Notifiers, NEW i \in DOMAIN pending, Takes(k, i),
           NEW n, n = pending[i].name
    PROVE  /\ LastPending'
           /\ \A m : m # n => (Awaited(m)' <=> Awaited(m))
           /\ ~Awaited(n)' => (pending[i].presence = "Arrived" <=> n \in present)
<1> DEFINE L == Len(pending)
<1>1. /\ L \in Nat /\ DOMAIN pending = 1..L /\ DOMAIN pending' = 1..(L - 1)
      /\ \A j \in 1..(L - 1) : pending'[j] = IF j < i THEN pending[j] ELSE pending[j + 1]
  BY TakesEffect DEF TypeInv
<1>2. \A j \in 1..(i - 1) : pending[j].name # n
  BY DEF Takes
<1> HIDE DEF L
\* Where each of the other notifications goes.
<1>3. \A j \in 1..L : j < i => j \in 1..(L - 1) /\ pending'[j] = pending[j]
  BY <1>1
<1>4. \A j \in 1..L : j > i => j - 1 \in 1..(L - 1) /\ pending'[j - 1] = pending[j]
  <2> SUFFICES ASSUME NEW j \in 1..L, j > i
               PROVE  j - 1 \in 1..(L - 1) /\ pending'[j - 1] = pending[j]
    OBVIOUS
  <2>1. j - 1 \in 1..(L - 1) /\ ~(j - 1 < i) /\ (j - 1) + 1 = j
    BY <1>1
  <2> QED
    BY <1>1, <2>1
<1>5. LastPending'
  <2> SUFFICES ASSUME NEW j \in 1..(L - 1),
                      \A l \in 1..(L - 1) : l > j => pending'[l].name # pending'[j].name
               PROVE  pending'[j].presence = "Arrived" <=> pending'[j].name \in present
    BY <1>1 DEF LastPending
  <2>1. CASE j < i
    <3>1. j \in 1..L /\ pending'[j] = pending[j] /\ j \in 1..(i - 1)
      BY <1>1, <2>1
    <3>2. ASSUME NEW l \in 1..L, l > j PROVE pending[l].name # pending[j].name
      <4>1. CASE l < i
        BY <1>3, <3>1, <3>2, <4>1
      <4>2. CASE l = i
        BY <1>2, <3>1, <4>2
      <4>3. CASE l > i
        <5>1. l - 1 \in 1..(L - 1) /\ pending'[l - 1] = pending[l]
          BY <1>4, <4>3
        <5>2. l - 1 > j
          BY <1>1, <2>1, <4>3
        <5> QED
          BY <3>1, <5>1, <5>2
      <4> QED
        BY <1>1, <4>1, <4>2, <4>3
    <3> QED
      BY <1>1, <3>1, <3>2 DEF LastPending
  <2>2. CASE ~(j < i)
    <3>1. j + 1 \in 1..L /\ pending'[j] = pending[j + 1] /\ j + 1 > i
      BY <1>1, <2>2
    <3>2. ASSUME NEW l \in 1..L, l > j + 1 PROVE pending[l].name # pending[j + 1].name
      <4>1. l > i /\ l - 1 > j
        BY <1>1, <3>1, <3>2
      <4>2. l - 1 \in 1..(L - 1) /\ pending'[l - 1] = pending[l]
        BY <1>4, <4>1
      <4> QED
        BY <3>1, <4>1, <4>2
    <3> QED
      BY <1>1, <3>1, <3>2 DEF LastPending
  <2> QED
    BY <2>1, <2>2
<1>6. ASSUME NEW m, m # n PROVE Awaited(m)' <=> Awaited(m)
  <2>1. Awaited(m) => Awaited(m)'
    <3> SUFFICES ASSUME NEW j \in 1..L, pending[j].name = m PROVE Awaited(m)'
      BY <1>1 DEF Awaited
    <3>1. j < i \/ j > i
      BY <1>1, <1>6
    <3> QED
      BY <1>1, <1>3, <1>4, <3>1 DEF Awaited
  <2>2. Awaited(m)' => Awaited(m)
    <3>1. \A j \in 1..(L - 1) : j \in 1..L /\ j + 1 \in 1..L
      BY <1>1
    <3> QED
      BY <1>1, <3>1 DEF Awaited
  <2> QED
    BY <2>1, <2>2
<1>7. ASSUME ~Awaited(n)'
      PROVE  pending[i].presence = "Arrived" <=> n \in present
  <2>1. \A j \in 1..L : j > i => pending[j].name # n
    BY <1>1, <1>4, <1>7 DEF Awaited
  <2> QED
    BY <1>1, <2>1 DEF LastPending
<1> QED
  BY <1>5, <1>6, <1>7

\* Counting the devices that are owed an entry, before and after a step.
LEMMA CountOwed ==
    ASSUME NEW A \in SUBSET Names, NEW B \in SUBSET Names
    PROVE  /\ Cardinality(A) \in Nat /\ Cardinality(B) \in Nat
           /\ A \subseteq B => Cardinality(A) <= Cardinality(B)
           /\ \A n : A \subseteq B \cup {n} => Cardinality(A) <= Cardinality(B) + 1
           /\ \A n \in B : A \subseteq B \ {n} => Cardinality(A) <= Cardinality(B) - 1
<1>1. /\ IsFiniteSet(A) /\ Cardinality(A) \in Nat
      /\ IsFiniteSet(B) /\ Cardinality(B) \in Nat
  BY NamesAssumption, FS_Subset, FS_CardinalityType
<1>2. A \subseteq B => Cardinality(A) <= Cardinality(B)
  BY <1>1, FS_Subset
<1>3. ASSUME NEW n, A \subseteq B \cup {n}
      PROVE  Cardinality(A) <= Cardinality(B) + 1
  <2>1. /\ IsFiniteSet(B \cup {n})
        /\ Cardinality(B \cup {n}) <= Cardinality(B) + 1
        /\ Cardinality(B \cup {n}) \in Nat
    BY <1>1, FS_AddElement
  <2>2. Cardinality(A) <= Cardinality(B \cup {n})
    BY <1>3, <2>1, FS_Subset
  <2> QED
    BY <1>1, <2>1, <2>2
<1>4. ASSUME NEW n \in B, A \subseteq B \ {n}
      PROVE  Cardinality(A) <= Cardinality(B) - 1
  <2>1. /\ IsFiniteSet(B \ {n})
        /\ Cardinality(B \ {n}) = Cardinality(B) - 1
    BY <1>1, FS_RemoveElement
  <2>2. Cardinality(A) <= Cardinality(B \ {n})
    BY <1>4, <2>1, FS_Subset
  <2> QED
    BY <2>1, <2>2
<1> QED
  BY <1>1, <1>2, <1>3, <1>4

\* A step that takes nothing out of the list and owes nobody more.
LEMMA EnoughKept ==
    ASSUME DiscoveryTypeOK, Enough,
           probe = "none" /\ pc \notin Destruction,
           m_nearObjectDevices' = m_nearObjectDevices,
           \A n \in Names : Owed(n)' => Owed(n),
           \A n \in Names : SignalFor(n, "Departed")'
                               => m_nearObjectDeviceCache'[n] = NoController
    PROVE  Enough'
<1>1. OwedNames' \subseteq OwedNames /\ OwedNames \subseteq Names
  BY DEF OwedNames
<1>2. /\ Cardinality(OwedNames) \in Nat /\ Cardinality(OwedNames') \in Nat
      /\ Cardinality(OwedNames') <= Cardinality(OwedNames)
  BY <1>1, CountOwed
<1>3. Len(m_nearObjectDevices) \in Nat
  BY LenProperties DEF DiscoveryTypeOK
<1>4. Len(m_nearObjectDevices) >= Cardinality(OwedNames)
  BY DEF Enough
<1>5. Len(m_nearObjectDevices') >= Cardinality(OwedNames')
  BY <1>2, <1>3, <1>4
<1> QED
  BY <1>5 DEF Enough

LEMMA ListInvInit == Init => ListInv
<1> SUFFICES ASSUME Init PROVE ListInv
  OBVIOUS
<1>1. \A k \in Notifiers : ToSet(signal[k]) = {}
  BY ToSetShort DEF Init
<1>2. pending = <<>> /\ reported = {} /\ m_nearObjectDevices = <<>>
  BY DEF Init
<1>3. LastPending /\ LastSignal
  BY <1>1, <1>2 DEF LastPending, LastSignal
<1>4. \A n \in Names : ~Owed(n)
  <2>1. Live = {}
    BY <1>1, ToSetShort, LiveMember DEF Init
  <2> QED
    BY <1>1, <1>2, <2>1 DEF Owed, SignalFor, Cached
<1>5. Cardinality(OwedNames) = 0
  BY <1>4, FS_EmptySet DEF OwedNames
<1>6. Enough
  BY <1>1, <1>2, <1>5 DEF Enough, SignalFor
<1> QED
  BY <1>2, <1>3, <1>6 DEF ListInv

LEMMA EnvironmentKeepsList ==
    ASSUME TypeInv, ListInv, Environment
    PROVE  ListInv'
<1> USE DEF os_vars, agent_vars, probe_vars, manager_vars, object_vars
<1>1. ASSUME NEW n \in Names, PlugIn(n) \/ PlugOut(n) PROVE ListInv'
  <2>1. /\ LastPending' /\ LastSignal' /\ reported' \subseteq present'
        /\ reported' \subseteq reported
        /\ \A m \in Names : Awaited(m) => Awaited(m)'
    BY <1>1, PlugEffect
  <2>2. UNCHANGED <<m_nearObjectDeviceCache, signal, probe, existing, m_nearObjectDevices,
                    pc, held, device>>
    BY <1>1 DEF PlugIn, PlugOut, Notify
  <2>3. Live' = Live
    BY <2>2, LiveMember
  <2>4. \A m \in Names : Owed(m)' => Owed(m)
    BY <2>1, <2>2, <2>3 DEF Owed, SignalFor, Cached
  <2>5. CASE probe = "none" /\ pc \notin Destruction
    <3>1. \A m \in Names : SignalFor(m, "Departed")'
                              => m_nearObjectDeviceCache'[m] = NoController
      BY <2>2, <2>5 DEF ListInv, Enough, SignalFor
    <3> QED
      BY <2>1, <2>2, <2>4, <2>5, <3>1, EnoughKept DEF ListInv, TypeInv
  <2>6. CASE ~(probe = "none" /\ pc \notin Destruction)
    BY <2>1, <2>2, <2>6 DEF ListInv, Enough
  <2> QED
    BY <2>5, <2>6
<1>2. CASE Obtain \/ Release
  <2>1. /\ UNCHANGED <<os_vars, m_nearObjectDeviceCache, signal, probe, existing,
                       m_nearObjectDevices, reported, pc, device>>
        /\ held' \subseteq held \cup ToSet(m_nearObjectDevices)
    BY <1>2 DEF Obtain, Release
  <2>2. Live' \subseteq Live
    BY <2>1, LiveMember
  <2>3. LastPending' /\ LastSignal' /\ reported' \subseteq present'
    BY <2>1 DEF ListInv, LastPending, LastSignal, Awaited
  <2>4. \A m \in Names : Owed(m)' => Owed(m)
    BY <2>1, <2>2 DEF Owed, SignalFor, Cached, Awaited
  <2>5. CASE probe = "none" /\ pc \notin Destruction
    <3>1. \A m \in Names : SignalFor(m, "Departed")'
                              => m_nearObjectDeviceCache'[m] = NoController
      BY <2>1, <2>5 DEF ListInv, Enough, SignalFor
    <3> QED
      BY <2>1, <2>3, <2>4, <2>5, <3>1, EnoughKept DEF ListInv, TypeInv
  <2>6. CASE ~(probe = "none" /\ pc \notin Destruction)
    BY <2>1, <2>3, <2>6 DEF ListInv, Enough
  <2> QED
    BY <2>5, <2>6
<1> QED
  BY <1>1, <1>2 DEF Environment

LEMMA OwnerKeepsList ==
    ASSUME TypeInv, ListInv, OwnerStep
    PROVE  ListInv'
<1> USE DEF os_vars, agent_vars, probe_vars, manager_vars, object_vars
<1>1. reported' \subseteq present' /\ UNCHANGED <<present, device, signal>>
  BY DEF ListInv, OwnerStep, StartAgent, StopAgent, RegisterDiscoveryEventCallback,
         ProbeStarted, StartAdded, WaitEnds, AddExisting, AddDevice, AddReturns,
         DropManager, DestroyCache, DestroyRegistration, Start, Unregister
<1>2. CASE StopAgent \/ DestroyRegistration
  <2>1. pending' = <<>> /\ \A k \in Notifiers : ToSet(signal[k]) = {}
    BY <1>2, ToSetShort DEF StopAgent, DestroyRegistration, Unregister
  <2>2. LastPending' /\ LastSignal'
    BY <1>1, <2>1 DEF LastPending, LastSignal
  <2>3. CASE DestroyRegistration
    BY <1>1, <2>2, <2>3 DEF DestroyRegistration, ListInv, Enough, Destruction
  <2>4. CASE StopAgent
    <3>1. /\ pc = "setup" /\ probe = "none"
          /\ UNCHANGED <<m_nearObjectDeviceCache, probe, existing, m_nearObjectDevices,
                         pc, held, reported>>
      BY <2>4 DEF StopAgent, TypeInv, ProbeLife
    <3>2. m_nearObjectDevices = <<>> /\ held = {} /\ reported = {} /\ existing = <<>>
      BY <3>1 DEF TypeInv, AgentLife, ProbeLife
    <3>3. Live' = {}
      BY <1>1, <2>1, <3>1, <3>2, ToSetShort, LiveMember
    <3>4. \A m \in Names : ~Owed(m)' /\ ~SignalFor(m, "Departed")'
      BY <1>1, <2>1, <3>1, <3>2, <3>3 DEF Owed, SignalFor, Cached
    <3>5. Enough'
      BY <3>1, <3>4, EnoughKept DEF ListInv, TypeInv, Destruction
    <3> QED
      BY <1>1, <2>2, <3>5 DEF ListInv
  <2> QED
    BY <1>2, <2>3, <2>4
<1>3. CASE ~(StopAgent \/ DestroyRegistration)
  <2>1. pending' = pending
    BY <1>3
       DEF OwnerStep, StartAgent, RegisterDiscoveryEventCallback, ProbeStarted, StartAdded,
           WaitEnds, AddExisting, AddReturns, DropManager, DestroyCache, Start
  <2>2. LastPending' /\ LastSignal'
    BY <1>1, <2>1 DEF ListInv, LastPending, LastSignal, Awaited
  <2>3. CASE StartAgent \/ RegisterDiscoveryEventCallback \/ StartAdded
    <3>1. /\ pc \notin Destruction /\ probe = "none"
          /\ UNCHANGED <<m_nearObjectDeviceCache, probe, existing, m_nearObjectDevices,
                         held, reported>>
      BY <2>3 DEF StartAgent, RegisterDiscoveryEventCallback, StartAdded, Start, TypeInv,
                  ProbeLife, Destruction
    <3>2. Live' = Live
      BY <1>1, <3>1, LiveMember
    <3>3. \A m \in Names : Owed(m)' => Owed(m)
      BY <1>1, <2>1, <3>1, <3>2 DEF Owed, SignalFor, Cached, Awaited
    <3>4. \A m \in Names : SignalFor(m, "Departed")'
                              => m_nearObjectDeviceCache'[m] = NoController
      BY <1>1, <3>1 DEF ListInv, Enough, SignalFor
    <3>5. Enough'
      BY <3>1, <3>3, <3>4, EnoughKept DEF ListInv, TypeInv
    <3> QED
      BY <1>1, <2>2, <3>5 DEF ListInv
  <2>4. CASE ~(StartAgent \/ RegisterDiscoveryEventCallback \/ StartAdded)
    <3>1. probe' # "none" \/ pc' \in Destruction
      BY <1>3, <2>4
         DEF OwnerStep, ProbeStarted, WaitEnds, AddExisting, AddReturns, DropManager,
             DestroyCache, TypeInv, ProbeLife, Destruction
    <3> QED
      BY <1>1, <2>2, <3>1 DEF ListInv, Enough
  <2> QED
    BY <2>3, <2>4
<1> QED
  BY <1>2, <1>3

LEMMA ProbeKeepsList ==
    ASSUME TypeInv, ListInv, ProbeStep
    PROVE  ListInv'
<1>1. UNCHANGED <<present, pending, signal, reported>> /\ probe' # "none"
  BY DEF ProbeStep, Enumerate, ProbeNext, ProbeReady, os_vars, manager_vars
<1>2. \A k \in Notifiers : \A s \in ToSet(signal[k]) :
         device'[s.controller] = device[s.controller]
  <2>1. CASE device' = device
    BY <2>1
  <2>2. CASE device' # device
    <3>1. PICK c \in Controllers : AddCached(Head(toProbe), c)
      BY <2>2 DEF ProbeStep, Enumerate, ProbeNext, ProbeReady, object_vars
    <3>2. Head(toProbe) \in Names
      BY <2>2, HeadTailProperties
         DEF ProbeStep, Enumerate, ProbeNext, ProbeReady, object_vars, TypeInv,
             DiscoveryTypeOK
    <3>3. c \notin Live /\ device' = [device EXCEPT ![c] = Head(toProbe)]
      BY <2>2, <3>1, <3>2, AddCachedEffect DEF TypeInv
    <3>4. \A d \in Live : device'[d] = device[d]
      BY <3>3, LiveControllers DEF TypeInv, DiscoveryTypeOK
    <3> QED
      BY <3>4, LiveMember
  <2> QED
    BY <2>1, <2>2
<1>3. LastPending' /\ LastSignal'
  <2>1. LastPending'
    BY <1>1 DEF ListInv, LastPending
  <2>2. ASSUME NEW k \in Notifiers, NEW s \in ToSet(signal[k]),
               \A j \in DOMAIN pending : pending[j].name # device[s.controller]
        PROVE  s.presence = "Arrived" <=> device[s.controller] \in present
    BY <2>2 DEF ListInv, LastSignal, Awaited
  <2>3. LastSignal'
    BY <1>1, <1>2, <2>2 DEF LastSignal, Awaited
  <2> QED
    BY <2>1, <2>3
<1> QED
  BY <1>1, <1>3 DEF ListInv, Enough

LEMMA ArrivalKeepsList ==
    ASSUME TypeInv, CacheInv, ListInv, pc # "undefined", NEW k \in Notifiers, OnArrival(k)
    PROVE  ListInv'
<1>1. PICK i \in DOMAIN pending, c \in Controllers :
          /\ Takes(k, i) /\ pending[i].presence = "Arrived"
          /\ AddCached(pending[i].name, c)
          /\ NobodyReportsOn(pending[i].name)
          /\ ToSet(signal[k]) = {}
          /\ ToSet(signal'[k]) = {[presence |-> "Arrived", controller |-> c]}
          /\ SignalsOfOthersKept(k)
          /\ ~CacheGone /\ ~CacheGone'
          /\ \A d : d \in Live' <=> d \in Live \/ d = c
  BY ArrivalEffect
<1>2. PICK n \in Names : n = pending[i].name
  BY <1>1, TakesEffect DEF TypeInv
<1>3. /\ device'[c] = n
      /\ \A d \in Live : device'[d] = device[d]
  <2>1. Live' \subseteq Live \cup {c}
    BY <1>1
  <2> QED
    BY <1>1, <1>2, <2>1, AddCachedKeeps
<1>4. UNCHANGED <<present, m_nearObjectDevices, reported, probe, pc>>
  BY DEF OnArrival, probe_vars, manager_vars
<1>5. /\ LastPending'
      /\ \A m : m # n => (Awaited(m)' <=> Awaited(m))
      /\ ~Awaited(n)' => n \in present
  BY <1>1, <1>2, <1>4, TakesKeepsOrder DEF ListInv
\* Nothing changes for the signals of other devices.
<1>6. \A l \in Notifiers \ {k} : \A s \in ToSet(signal'[l]) :
         /\ s \in ToSet(signal[l])
         /\ device'[s.controller] = device[s.controller]
         /\ device[s.controller] # n
  BY <1>1, <1>2, <1>3, LiveMember DEF SignalsOfOthersKept, NobodyReportsOn
<1>7. LastSignal'
  <2> SUFFICES ASSUME NEW l \in Notifiers, NEW s \in ToSet(signal'[l]),
                      NEW m, m = device'[s.controller], ~Awaited(m)'
               PROVE  s.presence = "Arrived" <=> m \in present
    BY <1>4 DEF LastSignal, Awaited
  <2>1. CASE l = k
    BY <1>1, <1>3, <1>5, <2>1
  <2>2. CASE l # k
    BY <1>5, <1>6, <2>2 DEF ListInv, LastSignal
  <2> QED
    BY <2>1, <2>2
<1>8. \A m : SignalFor(m, "Departed")' => m # n /\ SignalFor(m, "Departed")
  <2> SUFFICES ASSUME NEW m, NEW l \in Notifiers, NEW s \in ToSet(signal'[l]),
                      s.presence = "Departed", device'[s.controller] = m
               PROVE  m # n /\ SignalFor(m, "Departed")
    BY DEF SignalFor
  <2>1. l # k
    BY <1>1
  <2> QED
    BY <1>6, <2>1 DEF SignalFor
<1>9. SignalFor(n, "Arrived")'
  <2> DEFINE r == [presence |-> "Arrived", controller |-> c]
  <2>1. r \in ToSet(signal'[k]) /\ r.presence = "Arrived" /\ r.controller = c
    BY <1>1
  <2> HIDE DEF r
  <2> QED
    BY <1>3, <2>1 DEF SignalFor
<1>10. \A m \in Names \ {n} : m_nearObjectDeviceCache'[m] = m_nearObjectDeviceCache[m]
                              /\ m_nearObjectDeviceCache[m] # c
  <2>1. CASE /\ c = m_nearObjectDeviceCache[n] /\ c \in Live
             /\ UNCHANGED <<m_nearObjectDeviceCache, device>>
    <3>1. c # NoController
      BY <2>1, LiveNotNone DEF TypeInv
    <3> QED
      BY <2>1, <3>1, <1>3 DEF CacheInv, CacheNamed
  <2>2. CASE /\ \A m \in Names : m_nearObjectDeviceCache[m] # c
             /\ m_nearObjectDeviceCache' = [m_nearObjectDeviceCache EXCEPT ![n] = c]
    BY <2>2 DEF TypeInv, DiscoveryTypeOK
  <2> QED
    BY <1>1, <1>2, <2>1, <2>2, AddCachedEffect DEF TypeInv
<1>11. \A m \in Names : Owed(m)' => Owed(m)
  <2> SUFFICES ASSUME NEW m \in Names, Owed(m)' PROVE Owed(m)
    OBVIOUS
  <2>1. m # n
    BY <1>8, <1>9 DEF Owed
  <2>2. Cached(m)' => Cached(m)
    BY <1>1, <1>10, <2>1 DEF Cached
  <2>3. SignalFor(m, "Arrived") => SignalFor(m, "Arrived")'
    <3> SUFFICES ASSUME NEW l \in Notifiers, NEW s \in ToSet(signal[l]),
                        s.presence = "Arrived", device[s.controller] = m
                 PROVE  SignalFor(m, "Arrived")'
      BY DEF SignalFor
    <3>1. l # k
      BY <1>1
    <3> QED
      BY <1>1, <1>6, <3>1 DEF SignalFor, SignalsOfOthersKept
  <2> QED
    BY <1>4, <1>5, <1>8, <2>1, <2>2, <2>3 DEF Owed
<1>12. Enough'
  <2>1. CASE probe = "none" /\ pc \notin Destruction
    <3>1. \A m \in Names : SignalFor(m, "Departed")'
                              => m_nearObjectDeviceCache'[m] = NoController
      BY <1>8, <1>10, <2>1 DEF ListInv, Enough
    <3> QED
      BY <1>4, <1>11, <2>1, <3>1, EnoughKept DEF ListInv, TypeInv
  <2>2. CASE ~(probe = "none" /\ pc \notin Destruction)
    BY <1>4, <2>2 DEF Enough
  <2> QED
    BY <2>1, <2>2
<1> QED
  BY <1>4, <1>5, <1>7, <1>12 DEF ListInv

LEMMA RemovalKeepsList ==
    ASSUME TypeInv, CacheInv, ListInv, pc # "undefined", NEW k \in Notifiers, OnRemoval(k)
    PROVE  ListInv'
<1>1. PICK i \in DOMAIN pending :
          /\ Takes(k, i) /\ pending[i].presence = "Departed"
          /\ ExtractCached(pending[i].name)
          /\ NobodyReportsOn(pending[i].name)
          /\ ToSet(signal[k]) = {}
          /\ ToSet(signal'[k]) =
                IF Cached(pending[i].name)
                THEN {[presence |-> "Departed",
                       controller |-> m_nearObjectDeviceCache[pending[i].name]]}
                ELSE {}
          /\ SignalsOfOthersKept(k)
          /\ ~CacheGone /\ ~CacheGone'
          /\ Live' \subseteq Live
  BY RemovalEffect
<1>2. PICK n \in Names : n = pending[i].name
  BY <1>1, TakesEffect DEF TypeInv
<1>3. UNCHANGED <<present, m_nearObjectDevices, reported, probe, pc, device>>
  BY <1>1 DEF OnRemoval, probe_vars, manager_vars, ExtractCached
<1>4. /\ LastPending'
      /\ \A m : m # n => (Awaited(m)' <=> Awaited(m))
      /\ ~Awaited(n)' => n \notin present
  BY <1>1, <1>2, <1>3, TakesKeepsOrder DEF ListInv
\* What k reports is the departure of n; the signals of the others stay.
<1>5. \A s \in ToSet(signal'[k]) :
         /\ s.presence = "Departed" /\ device[s.controller] = n
         /\ Cached(n)
  BY <1>1, <1>2, LiveNotNone DEF TypeInv, CacheInv, CacheNamed, Cached
<1>6. \A l \in Notifiers \ {k} : \A s \in ToSet(signal'[l]) :
         s \in ToSet(signal[l]) /\ device[s.controller] # n
  BY <1>1, <1>2 DEF SignalsOfOthersKept, NobodyReportsOn
<1>7. LastSignal'
  <2> SUFFICES ASSUME NEW l \in Notifiers, NEW s \in ToSet(signal'[l]),
                      NEW m, m = device[s.controller], ~Awaited(m)'
               PROVE  s.presence = "Arrived" <=> m \in present
    BY <1>3 DEF LastSignal, Awaited
  <2>1. CASE l = k
    BY <1>4, <1>5, <2>1
  <2>2. CASE l # k
    BY <1>4, <1>6, <2>2 DEF ListInv, LastSignal
  <2> QED
    BY <2>1, <2>2
<1>8. \A m : SignalFor(m, "Departed")' => SignalFor(m, "Departed") \/ (m = n /\ Cached(n))
  BY <1>3, <1>5, <1>6 DEF SignalFor
<1>9. ~SignalFor(n, "Arrived") /\ \A m : SignalFor(m, "Arrived") => SignalFor(m, "Arrived")'
  <2>1. ~SignalFor(n, "Arrived")
    BY <1>1, <1>2 DEF NobodyReportsOn, SignalFor
  <2>2. ASSUME NEW l \in Notifiers, NEW s \in ToSet(signal[l])
        PROVE  s \in ToSet(signal'[l])
    BY <1>1, <2>2 DEF SignalsOfOthersKept
  <2>3. \A m : SignalFor(m, "Arrived") => SignalFor(m, "Arrived")'
    BY <1>3, <2>2 DEF SignalFor
  <2> QED
    BY <2>1, <2>3
<1>10. /\ m_nearObjectDeviceCache'[n] = NoController
       /\ \A m \in Names \ {n} : m_nearObjectDeviceCache'[m] = m_nearObjectDeviceCache[m]
  BY <1>1, <1>2 DEF ExtractCached, TypeInv, DiscoveryTypeOK
<1>11. Cached(n) => Owed(n)
  BY <1>9 DEF Owed
<1>12. \A m \in Names : Owed(m)' => Owed(m)
  <2> SUFFICES ASSUME NEW m \in Names, Owed(m)' PROVE Owed(m)
    OBVIOUS
  <2>1. CASE SignalFor(m, "Departed")'
    BY <1>8, <1>11, <2>1 DEF Owed
  <2>2. CASE Cached(m)' /\ ~SignalFor(m, "Arrived")'
    <3>1. m # n
      BY <1>1, <1>10, <2>2, LiveNotNone DEF TypeInv, Cached
    <3> QED
      BY <1>1, <1>9, <1>10, <2>2, <3>1 DEF Owed, Cached
  <2>3. CASE m \in reported' /\ ~Awaited(m)' /\ ~SignalFor(m, "Arrived")'
    <3>1. m # n
      BY <1>3, <1>4, <2>3 DEF ListInv
    <3> QED
      BY <1>3, <1>4, <1>9, <2>3, <3>1 DEF Owed
  <2> QED
    BY <2>1, <2>2, <2>3 DEF Owed
<1>13. Enough'
  <2>1. CASE probe = "none" /\ pc \notin Destruction
    <3>1. \A m \in Names : SignalFor(m, "Departed")'
                              => m_nearObjectDeviceCache'[m] = NoController
      BY <1>8, <1>10, <2>1 DEF ListInv, Enough
    <3> QED
      BY <1>3, <1>12, <2>1, <3>1, EnoughKept DEF ListInv, TypeInv
  <2>2. CASE ~(probe = "none" /\ pc \notin Destruction)
    BY <1>3, <2>2 DEF Enough
  <2> QED
    BY <2>1, <2>2
<1> QED
  BY <1>3, <1>4, <1>7, <1>13 DEF ListInv

LEMMA ChangedKeepsList ==
    ASSUME TypeInv, CacheInv, ListInv, NEW k \in Notifiers, DevicePresenceChanged(k)
    PROVE  ListInv'
<1> DEFINE s == Head(signal[k])
<1>1. /\ s \in SignalRecord
      /\ ToSet(signal[k]) = {s} /\ ToSet(signal'[k]) = {}
      /\ SignalsOfOthersKept(k)
      /\ Live' \subseteq Live
  BY PresenceChangedEffect
<1>2. UNCHANGED <<present, pending, m_nearObjectDeviceCache, probe, existing, pc, held,
                  device, hasCallback>>
  BY DEF DevicePresenceChanged, os_vars, agent_vars, probe_vars, object_vars
<1>3. \/ ~ManagerListens /\ UNCHANGED manager_vars
      \/ ManagerListens /\ s.presence = "Arrived" /\ AddDevice(s.controller)
      \/ ManagerListens /\ s.presence = "Departed" /\ RemoveDevice(s.controller)
  BY <1>1 DEF DevicePresenceChanged, SignalRecord, Presence
<1> HIDE DEF s
<1>4. PICK n : n = device[s.controller]
  OBVIOUS
<1>5. \A l \in Notifiers : \A t \in ToSet(signal'[l]) :
         l # k /\ t \in ToSet(signal[l]) /\ device[t.controller] # n
  BY <1>1, <1>4 DEF CacheInv, SignalsApart, SignalsOfOthersKept
<1>6. /\ reported' \subseteq reported \cup (IF s.presence = "Arrived" THEN {n} ELSE {})
      /\ reported' \subseteq present
  BY <1>1, <1>3, <1>4, AddDeviceEffect, RemoveDeviceEffect
     DEF manager_vars, TypeInv, SignalRecord, ListInv
<1>7. LastPending' /\ LastSignal'
  BY <1>2, <1>5 DEF ListInv, LastPending, LastSignal, Awaited
<1>8. \A m, p : SignalFor(m, p)' => m # n /\ SignalFor(m, p)
  BY <1>2, <1>5 DEF SignalFor
<1>9. \A m, p : m # n => (SignalFor(m, p) => SignalFor(m, p)')
  <2> SUFFICES ASSUME NEW l \in Notifiers, NEW t \in ToSet(signal[l]),
                      device[t.controller] # n
               PROVE  t \in ToSet(signal'[l])
    BY <1>2 DEF SignalFor
  <2> QED
    BY <1>1, <1>4 DEF SignalsOfOthersKept
<1>10. \A m \in Names : m # n => (Owed(m)' => Owed(m))
  BY <1>1, <1>2, <1>6, <1>8, <1>9 DEF Owed, Cached, Awaited
<1>11. Enough'
  <2>1. CASE ~(probe = "none" /\ pc \notin Destruction)
    BY <1>2, <2>1 DEF Enough
  <2>2. CASE probe = "none" /\ pc \notin Destruction
    <3>1. \A m \in Names : SignalFor(m, "Departed")'
                              => m_nearObjectDeviceCache'[m] = NoController
      BY <1>2, <1>8, <2>2 DEF ListInv, Enough
    <3>2. /\ Len(m_nearObjectDevices) \in Nat
          /\ Len(m_nearObjectDevices) >= Cardinality(OwedNames)
          /\ OwedNames \subseteq Names /\ OwedNames' \subseteq Names
      BY <2>2, LenProperties DEF ListInv, Enough, TypeInv, DiscoveryTypeOK, OwedNames
    <3>3. /\ Cardinality(OwedNames) \in Nat /\ Cardinality(OwedNames') \in Nat
      BY <3>2, CountOwed
    <3>4. CASE ~ManagerListens
      \* Nobody listens before AddDiscoveryAgent: the list is empty, and so is every
      \* hand but the notifiers'.
      <4>1. pc = "setup" /\ UNCHANGED manager_vars
        BY <1>3, <2>2, <3>4 DEF TypeInv, AgentLife, ManagerListens, Destruction
      <4>2. /\ m_nearObjectDevices' = <<>> /\ held' = {} /\ existing' = <<>>
            /\ reported' = {} /\ m_nearObjectDevices' = m_nearObjectDevices
        BY <1>2, <2>2, <4>1 DEF TypeInv, AgentLife, ProbeLife, manager_vars
      <4>3. ASSUME NEW m \in Names, Owed(m)' PROVE Owed(m)
        <5>1. CASE SignalFor(m, "Departed")'
          BY <1>8, <5>1 DEF Owed
        <5>2. CASE Cached(m)' /\ ~SignalFor(m, "Arrived")'
          <6>1. m_nearObjectDeviceCache[m] \in Live'
            BY <1>2, <5>2 DEF Cached
          <6>2. PICK l \in Notifiers :
                    \E r \in ToSet(signal'[l]) : r.controller = m_nearObjectDeviceCache[m]
            BY <4>2, <6>1, ToSetShort, LiveMember
          <6>3. PICK t \in ToSet(signal'[l]) : t.controller = m_nearObjectDeviceCache[m]
            BY <6>2
          <6>4. device[t.controller] = m
            BY <1>1, <6>1, <6>3, LiveNotNone DEF TypeInv, CacheInv, CacheNamed
          <6>5. t \in SignalRecord
            <7>1. t \in ToSet(signal[l])
              BY <1>5, <6>3
            <7>2. signal[l] = <<>> => ToSet(signal[l]) = {}
              BY ToSetShort
            <7> QED
              BY <7>1, <7>2, SignalOf DEF TypeInv
          <6>6. t.presence = "Departed"
            BY <1>2, <5>2, <6>3, <6>4, <6>5 DEF SignalRecord, Presence, SignalFor
          <6>7. SignalFor(m, "Departed")'
            BY <1>2, <6>3, <6>4, <6>6 DEF SignalFor
          <6> QED
            BY <1>8, <6>7 DEF Owed
        <5> QED
          BY <4>2, <4>3, <5>1, <5>2 DEF Owed
      <4> QED
        BY <2>2, <3>1, <4>2, <4>3, EnoughKept DEF ListInv, TypeInv
    <3>5. CASE ManagerListens /\ s.presence = "Arrived" /\ AddDevice(s.controller)
      <4>1. OwedNames' \subseteq OwedNames \cup {n}
        BY <1>10 DEF OwedNames
      <4>2. Cardinality(OwedNames') <= Cardinality(OwedNames) + 1
        BY <3>2, <4>1, CountOwed
      <4>3. Len(m_nearObjectDevices') = Len(m_nearObjectDevices) + 1
        BY <1>1, <3>5, AddDeviceEffect DEF TypeInv, SignalRecord
      <4>4. Len(m_nearObjectDevices') >= Cardinality(OwedNames')
        BY <3>2, <3>3, <4>2, <4>3
      <4> QED
        BY <3>1, <4>4 DEF Enough
    <3>6. CASE ManagerListens /\ s.presence = "Departed" /\ RemoveDevice(s.controller)
      \* The entry that goes was owed to n, and is owed no more.
      <4>1. SignalFor(n, "Departed")
        BY <1>1, <1>4, <3>6 DEF SignalFor
      <4>2. n \in Names
        <5>1. s.controller \in Live
          BY <1>1, LiveMember
        <5> QED
          BY <1>4, <5>1 DEF CacheInv, LiveNamed
      <4>3. ~Owed(n)'
        <5>1. \A p : ~SignalFor(n, p)'
          BY <1>8
        <5>2. ~Cached(n)'
          BY <1>1, <1>2, <2>2, <4>1, <4>2, LiveNotNone DEF ListInv, Enough, Cached, TypeInv
        <5>3. n \in reported' => Awaited(n)'
          <6>1. Awaited(n)' <=> Awaited(n)
            BY <1>2 DEF Awaited
          <6>2. ~Awaited(n) => n \notin present
            BY <1>1, <1>4, <3>6 DEF ListInv, LastSignal
          <6> QED
            BY <1>6, <6>1, <6>2
        <5> QED
          BY <5>1, <5>2, <5>3 DEF Owed
      <4>4. n \in OwedNames /\ OwedNames' \subseteq OwedNames \ {n}
        BY <1>10, <4>1, <4>2, <4>3 DEF OwedNames, Owed
      <4>5. Cardinality(OwedNames') <= Cardinality(OwedNames) - 1
        BY <3>2, <4>4, CountOwed
      <4>6. /\ Len(m_nearObjectDevices') >= Len(m_nearObjectDevices) - 1
            /\ Len(m_nearObjectDevices') \in Nat
        BY <3>6, RemoveDeviceEffect, LenProperties DEF TypeInv
      <4>7. Len(m_nearObjectDevices') >= Cardinality(OwedNames')
        BY <3>2, <3>3, <4>5, <4>6
      <4> QED
        BY <3>1, <4>7 DEF Enough
    <3> QED
      BY <1>3, <3>4, <3>5, <3>6
  <2> QED
    BY <2>1, <2>2
<1> QED
  BY <1>2, <1>6, <1>7, <1>11 DEF ListInv

LEMMA ListInvStep == TypeInv /\ CacheInv /\ ListInv /\ [Next]_vars => ListInv'
<1> SUFFICES ASSUME TypeInv, CacheInv, ListInv, [Next]_vars PROVE ListInv'
  OBVIOUS
<1>1. CASE UNCHANGED vars
  <2>1. UNCHANGED <<present, pending, m_nearObjectDeviceCache, signal, probe, existing,
                    m_nearObjectDevices, reported, pc, held, device>>
    BY <1>1 DEF vars, os_vars, agent_vars, probe_vars, manager_vars, object_vars
  <2>2. Live' = Live
    BY <2>1, LiveMember
  <2>3. \A n \in Names : Owed(n)' <=> Owed(n)
    BY <2>1, <2>2 DEF Owed, SignalFor, Cached, Awaited
  <2>4. OwedNames' = OwedNames
    BY <2>3 DEF OwedNames
  <2> QED
    BY <2>1, <2>4
       DEF ListInv, LastPending, LastSignal, Enough, SignalFor, Awaited
<1>2. ASSUME pc # "undefined", NEW k \in Notifiers, OnNotificationLate(k) PROVE ListInv'
  <2>1. PICK i \in DOMAIN pending : Takes(k, i)
    BY <1>2 DEF OnNotificationLate
  <2>2. /\ UNCHANGED <<present, signal, reported, device>>
        /\ pc' = "undefined"
    BY <1>2 DEF OnNotificationLate, manager_vars, object_vars
  <2>3. PICK n \in Names : n = pending[i].name
    BY <2>1, TakesEffect DEF TypeInv
  <2>4. LastPending' /\ \A m : m # n => (Awaited(m)' <=> Awaited(m))
    BY <2>1, <2>2, <2>3, TakesKeepsOrder DEF ListInv
  <2>5. LastSignal'
    <3> SUFFICES ASSUME NEW l \in Notifiers, NEW s \in ToSet(signal[l]),
                        NEW m, m = device[s.controller], ~Awaited(m)'
                 PROVE  s.presence = "Arrived" <=> m \in present
      BY <2>2 DEF LastSignal, Awaited
    <3>1. m # n
      BY <2>1, <2>3 DEF Takes
    <3> QED
      BY <2>4, <3>1 DEF ListInv, LastSignal
  <2> QED
    BY <2>2, <2>4, <2>5 DEF ListInv, Enough, Destruction
<1> QED
  BY <1>1, <1>2, EnvironmentKeepsList, OwnerKeepsList, ProbeKeepsList, ArrivalKeepsList,
     RemovalKeepsList, ChangedKeepsList
     DEF Next, Terminated, NotifierStep

\* Although departures take the wrong entries out of the list, it has at least as many
\* as there are devices that the manager was told of: GetDefaultDevice finds one.
THEOREM DevicesStayAvailable == Spec => []DevicesAvailable
<1>1. TypeInv /\ ListInv => DevicesAvailable
  <2> SUFFICES ASSUME TypeInv, ListInv, Quiet, probe = "none"
               PROVE  Len(m_nearObjectDevices) >= Cardinality(present \cap reported)
    BY DEF DevicesAvailable
  <2>1. \A k \in Notifiers : ToSet(signal[k]) = {}
    BY ToSetShort DEF Quiet
  <2>2. present \cap reported \subseteq OwedNames
    BY <2>1 DEF Quiet, OwedNames, Owed, Awaited, SignalFor, TypeInv, DiscoveryTypeOK
  <2>3. Len(m_nearObjectDevices) >= Cardinality(OwedNames)
    BY DEF Quiet, ListInv, Enough, Destruction
  <2>4. OwedNames \subseteq Names /\ present \cap reported \subseteq Names
    BY DEF OwedNames, TypeInv, DiscoveryTypeOK
  <2>5. /\ Cardinality(OwedNames) \in Nat /\ Cardinality(present \cap reported) \in Nat
        /\ Cardinality(present \cap reported) <= Cardinality(OwedNames)
    BY <2>2, <2>4, CountOwed
  <2>6. Len(m_nearObjectDevices) \in Nat
    BY LenProperties DEF TypeInv, DiscoveryTypeOK
  <2> QED
    BY <2>3, <2>5, <2>6
<1> QED
  BY TypeInvInit, TypeInvStep, CacheInvInit, CacheInvStep, ListInvInit, ListInvStep, <1>1,
     PTL DEF Spec
=============================================================================
