----------------------------- MODULE Discovery -----------------------------
(***************************************************************************)
(* How devices get into and out of NearObjectDeviceControllerManager       *)
(* (lib/nearobject/service/NearObjectDeviceControllerManager.cxx): the     *)
(* manager, the discovery agent that it owns, in its Windows UWB version   *)
(* (windows/nearobject/service/NearObjectDeviceDiscoveryAgentUwb.cxx), and *)
(* the operating system that notifies the agent of devices plugged in and  *)
(* out, from several threads.                                              *)
(*                                                                         *)
(* A notification changes the agent's cache under one lock, gives it back, *)
(* and then calls the manager, which changes its list under another: two   *)
(* actions.  The probe of an agent that had been started before runs on a  *)
(* thread of its own, with one critical section per device.                *)
(*                                                                         *)
(* A controller is an object that lives while somebody holds a shared_ptr  *)
(* to it (Live); the cache holds weak pointers.  Controllers are numbered, *)
(* and the number of a dead one that the cache has forgotten is used again.*)
(*                                                                         *)
(* A definition whose name begins with Bug is not part of the model: it is *)
(* the definition after it with a plausible mistake, which the runs must   *)
(* notice.                                                                 *)
(***************************************************************************)
EXTENDS Integers, Sequences, SequencesExt, FiniteSets, FiniteSetsExt

CONSTANTS
    Names,           \* device interface names (symbolic links)
    Notifiers,       \* threads of the operating system that deliver notifications
    MaxControllers,  \* bound: controllers alive or cached at the same time
    MaxChanges       \* bound: times a device is plugged in or out

ASSUME NamesAssumption == IsFiniteSet(Names)

ASSUME DiscoveryBounds == MaxControllers \in Nat /\ MaxChanges \in Nat

Controllers == 1..MaxControllers
NoController == 0

VARIABLES
    present,        \* the devices that are plugged in
    pending,        \* notifications that the operating system has still to deliver
    changes,        \* bound: plugs and unplugs so far
    m_started, registered, hasCallback,   \* the agent: m_uwbHcmNotificationHandle
                                          \* and m_onDevicePresenceChanged are set
    m_nearObjectDeviceCache,              \* the agent: weak pointers by name
    signal,         \* what each notifier has still to report: at most one
    probe,          \* the asynchronous probe
    toProbe,        \* the names it has still to look at
    existing,       \* the vector of its results
    m_nearObjectDevices,                  \* the manager: the list of devices
    pc,             \* where the owner of agent and manager is
    held,           \* controllers that clients hold
    device,         \* history: the name each controller was created for
    departed,       \* history: controllers taken out of the cache
    reported        \* history: devices added to the list since they were plugged in

os_vars == <<present, pending, changes>>
agent_vars == <<m_started, registered, hasCallback, m_nearObjectDeviceCache>>
probe_vars == <<probe, toProbe, existing>>
manager_vars == <<m_nearObjectDevices, reported>>
object_vars == <<device, departed>>
vars == <<os_vars, agent_vars, signal, probe_vars, manager_vars, pc, held, object_vars>>

Presence == {"Arrived", "Departed"}

\* "setup": the agent is the owner's, and may be started; the next four are inside
\* AddDiscoveryAgent; "leaving" is its end after a timeout.  From "dropped" on the last
\* shared_ptr to the manager is gone and its destructor runs; in "unregistering" the
\* agent's cache is destroyed.  Nothing is said of what follows "undefined".
Destruction == {"dropped", "unregistering", "gone", "undefined"}
OwnerState == {"setup", "registered", "waiting", "adding", "leaving", "done"}
                  \cup Destruction

DiscoveryTypeOK ==
    /\ present \in SUBSET Names
    /\ pending \in Seq([presence : Presence, name : Names])
    /\ changes \in 0..MaxChanges
    /\ m_started \in BOOLEAN /\ registered \in BOOLEAN /\ hasCallback \in BOOLEAN
    /\ m_nearObjectDeviceCache \in [Names -> Controllers \cup {NoController}]
    /\ signal \in [Notifiers -> Seq([presence : Presence, controller : Controllers])]
    /\ probe \in {"none", "running", "probing", "ready"}
    /\ toProbe \in Seq(Names)
    /\ existing \in Seq(Controllers)
    /\ m_nearObjectDevices \in Seq(Controllers)
    /\ reported \in SUBSET Names
    /\ pc \in OwnerState
    /\ held \in SUBSET Controllers
    /\ device \in [Controllers -> Names \cup {"none"}]
    /\ departed \in SUBSET Controllers

-----------------------------------------------------------------------------
(* Controllers.                                                            *)

deviceIdFallback == 4660   \* 0x1234

\* Every UWB controller has this one id, and operator== compares ids.
Id == [c \in Controllers |-> deviceIdFallback]
SameDevice(c, d) == Id[c] = Id[d]

Live ==
    ToSet(m_nearObjectDevices) \cup ToSet(existing) \cup held
        \cup UNION {{s.controller : s \in ToSet(signal[k])} : k \in Notifiers}

Unused == Controllers \ (Live \cup {m_nearObjectDeviceCache[n] : n \in Names})

\* The cache's weak_ptr for the name can be locked.
Cached(n) == m_nearObjectDeviceCache[n] \in Live

BugAddCached(n, c) ==
    /\ c \in Unused
    /\ device' = [device EXCEPT ![c] = n]
    /\ departed' = departed \ {c}
    /\ m_nearObjectDeviceCache' = [m_nearObjectDeviceCache EXCEPT ![n] = c]

\* AddCachedUwbNearObjectDevice returns c: the cached controller of the device, or a
\* new one that replaces an entry whose controller is dead.
AddCached(n, c) ==
    \/ /\ Cached(n)
       /\ c = m_nearObjectDeviceCache[n]
       /\ UNCHANGED <<m_nearObjectDeviceCache, object_vars>>
    \/ /\ ~Cached(n)
       /\ Unused # {} /\ c = Min(Unused)
       /\ device' = [device EXCEPT ![c] = n]
       /\ departed' = departed \ {c}
       /\ m_nearObjectDeviceCache' = [m_nearObjectDeviceCache EXCEPT ![n] = c]

\* ExtractCachedNearObjectDevice forgets the entry, and returns its controller if
\* that is alive.
ExtractCached(n) ==
    /\ m_nearObjectDeviceCache' = [m_nearObjectDeviceCache EXCEPT ![n] = NoController]
    /\ departed' = IF Cached(n) THEN departed \cup {m_nearObjectDeviceCache[n]}
                   ELSE departed
    /\ UNCHANGED device

-----------------------------------------------------------------------------
Init ==
    /\ present \in SUBSET Names
    /\ pending = <<>>
    /\ changes = 0
    /\ m_started = FALSE /\ registered = FALSE /\ hasCallback = FALSE
    /\ m_nearObjectDeviceCache = [n \in Names |-> NoController]
    /\ signal = [k \in Notifiers |-> <<>>]
    /\ probe = "none"
    /\ toProbe = <<>>
    /\ existing = <<>>
    /\ m_nearObjectDevices = <<>>
    /\ reported = {}
    /\ pc = "setup"
    /\ held = {}
    /\ device = [c \in Controllers |-> "none"]
    /\ departed = {}

-----------------------------------------------------------------------------
(* The operating system.                                                   *)

Notify(presence, n) ==
    /\ changes < MaxChanges
    /\ changes' = changes + 1
    /\ pending' = IF registered
                  THEN Append(pending, [presence |-> presence, name |-> n])
                  ELSE pending
    /\ UNCHANGED <<agent_vars, signal, probe_vars, m_nearObjectDevices, pc, held,
                   object_vars>>

PlugIn(n) ==
    /\ n \notin present
    /\ present' = present \cup {n}
    /\ Notify("Arrived", n)
    /\ UNCHANGED reported

PlugOut(n) ==
    /\ n \in present
    /\ present' = present \ {n}
    /\ reported' = reported \ {n}
    /\ Notify("Departed", n)

-----------------------------------------------------------------------------
(* The agent.                                                              *)

\* Start and StartImpl: register with the operating system, which may refuse; the
\* code does not look at that.
Start ==
    /\ m_started' = TRUE
    /\ registered' \in BOOLEAN

\* The owner starts or stops an agent that it has not given to the manager.
StartAgent ==
    /\ pc = "setup"
    /\ ~m_started
    /\ Start
    /\ UNCHANGED <<os_vars, hasCallback, m_nearObjectDeviceCache, signal, probe_vars,
                   manager_vars, pc, held, object_vars>>

\* Unregistering waits for the notifications that are being delivered.
Unregister ==
    /\ \A k \in Notifiers : signal[k] = <<>>
    /\ registered' = FALSE
    /\ pending' = <<>>

StopAgent ==
    /\ pc = "setup"
    /\ m_started
    /\ m_started' = FALSE
    /\ Unregister
    /\ UNCHANGED <<present, changes, hasCallback, m_nearObjectDeviceCache, signal,
                   probe_vars, manager_vars, pc, held, object_vars>>

\* An idle notifier takes the oldest notification of some device; those of one device
\* are delivered one after the other.
Takes(k, i) ==
    LET n == pending[i].name
    IN  /\ signal[k] = <<>>
        /\ \A j \in 1..(i - 1) : pending[j].name # n
        /\ \A l \in Notifiers : \A s \in ToSet(signal[l]) : device[s.controller] # n
        /\ pending' = RemoveAt(pending, i)

\* OnDeviceInterfaceNotification up to the call of DevicePresenceChanged.
OnArrival(k) ==
    /\ pc # "unregistering"
    /\ \E i \in DOMAIN pending, c \in Controllers :
          /\ Takes(k, i)
          /\ pending[i].presence = "Arrived"
          /\ AddCached(pending[i].name, c)
          /\ signal' = [signal EXCEPT
                           ![k] = <<[presence |-> "Arrived", controller |-> c]>>]
    /\ UNCHANGED <<present, changes, m_started, registered, hasCallback, probe_vars,
                   manager_vars, pc, held>>

BugOnRemoval(k) ==
    /\ pc # "unregistering"
    /\ \E i \in DOMAIN pending :
          LET n == pending[i].name
          IN  /\ Takes(k, i)
              /\ pending[i].presence = "Departed"
              /\ ExtractCached(n)
              /\ signal' = [signal EXCEPT
                               ![k] = <<[presence |-> "Departed",
                                         controller |-> m_nearObjectDeviceCache[n]]>>]
    /\ UNCHANGED <<present, changes, m_started, registered, hasCallback, probe_vars,
                   manager_vars, pc, held>>

OnRemoval(k) ==
    /\ pc # "unregistering"
    /\ \E i \in DOMAIN pending :
          LET n == pending[i].name
          IN  /\ Takes(k, i)
              /\ pending[i].presence = "Departed"
              /\ ExtractCached(n)
              /\ signal' = IF Cached(n)
                           THEN [signal EXCEPT
                                    ![k] = <<[presence |-> "Departed",
                                              controller |-> m_nearObjectDeviceCache[n]]>>]
                           ELSE signal
    /\ UNCHANGED <<present, changes, m_started, registered, hasCallback, probe_vars,
                   manager_vars, pc, held>>

\* The same, when the cache and its mutex are destroyed.
OnNotificationLate(k) ==
    /\ pc = "unregistering"
    /\ \E i \in DOMAIN pending : Takes(k, i)
    /\ pc' = "undefined"
    /\ UNCHANGED <<present, changes, agent_vars, signal, probe_vars, manager_vars, held,
                   object_vars>>

-----------------------------------------------------------------------------
(* The manager.                                                            *)

BugAddDevice(c) ==
    /\ m_nearObjectDevices' = IF \E d \in ToSet(m_nearObjectDevices) : SameDevice(c, d)
                              THEN m_nearObjectDevices
                              ELSE Append(m_nearObjectDevices, c)
    /\ reported' = reported \cup ({device[c]} \cap present)

\* No device is recognised as a duplicate ("TODO").
AddDevice(c) ==
    /\ m_nearObjectDevices' = Append(m_nearObjectDevices, c)
    /\ reported' = reported \cup ({device[c]} \cap present)

BugRemoveDevice(c) ==
    /\ m_nearObjectDevices' = SelectSeq(m_nearObjectDevices, LAMBDA d : ~SameDevice(d, c))
    /\ UNCHANGED reported

\* The first device that is equal to c goes.
RemoveDevice(c) ==
    /\ m_nearObjectDevices' = RemoveFirstMatch(m_nearObjectDevices,
                                               LAMBDA d : SameDevice(d, c))
    /\ UNCHANGED reported

\* DevicePresenceChanged: the callback, if there is one, locks its weak_ptr to the
\* manager and calls OnDevicePresenceChanged.
ManagerListens == hasCallback /\ pc \notin Destruction

DevicePresenceChanged(k) ==
    /\ signal[k] # <<>>
    /\ LET s == Head(signal[k])
       IN  IF ~ManagerListens THEN UNCHANGED manager_vars
           ELSE IF s.presence = "Arrived" THEN AddDevice(s.controller)
           ELSE RemoveDevice(s.controller)
    /\ signal' = [signal EXCEPT ![k] = <<>>]
    /\ UNCHANGED <<os_vars, agent_vars, probe_vars, pc, held, object_vars>>

-----------------------------------------------------------------------------
(* AddDiscoveryAgent, step by step, and the probe that it may start.       *)

RegisterDiscoveryEventCallback ==
    /\ pc = "setup"
    /\ hasCallback' = TRUE
    /\ pc' = "registered"
    /\ UNCHANGED <<os_vars, m_started, registered, m_nearObjectDeviceCache, signal,
                   probe_vars, manager_vars, held, object_vars>>

\* The agent had been started: probe it.
ProbeStarted ==
    /\ pc = "registered"
    /\ m_started
    /\ probe' = "running"
    /\ pc' = "waiting"
    /\ UNCHANGED <<os_vars, agent_vars, signal, toProbe, existing, manager_vars, held,
                   object_vars>>

\* It had not: start it, and the agent is added.
StartAdded ==
    /\ pc = "registered"
    /\ ~m_started
    /\ Start
    /\ pc' = "done"
    /\ UNCHANGED <<os_vars, hasCallback, m_nearObjectDeviceCache, signal, probe_vars,
                   manager_vars, held, object_vars>>

\* Probe: the names of the devices that are present, or none if the query fails.
Enumerate ==
    /\ probe = "running"
    /\ probe' = "probing"
    /\ \/ toProbe' \in SetToSeqs(present)
       \/ toProbe' = <<>>
    /\ UNCHANGED <<os_vars, agent_vars, signal, existing, manager_vars, pc, held,
                   object_vars>>

ProbeNext ==
    /\ probe = "probing"
    /\ toProbe # <<>>
    /\ \E c \in Controllers :
          /\ AddCached(Head(toProbe), c)
          /\ existing' = Append(existing, c)
    /\ toProbe' = Tail(toProbe)
    /\ UNCHANGED <<os_vars, m_started, registered, hasCallback, signal, probe,
                   manager_vars, pc, held>>

BugProbeReady ==
    /\ probe = "probing"
    /\ toProbe = <<>>
    /\ existing # <<>>
    /\ probe' = "ready"
    /\ UNCHANGED <<os_vars, agent_vars, signal, toProbe, existing, manager_vars, pc,
                   held, object_vars>>

ProbeReady ==
    /\ probe = "probing"
    /\ toProbe = <<>>
    /\ probe' = "ready"
    /\ UNCHANGED <<os_vars, agent_vars, signal, toProbe, existing, manager_vars, pc,
                   held, object_vars>>

\* wait_for ends, with the results or after three seconds.
WaitEnds ==
    /\ pc = "waiting"
    /\ pc' = IF probe = "ready" THEN "adding" ELSE "leaving"
    /\ UNCHANGED <<os_vars, agent_vars, signal, probe_vars, manager_vars, held,
                   object_vars>>

AddExisting ==
    /\ pc = "adding"
    /\ existing # <<>>
    /\ AddDevice(Head(existing))
    /\ existing' = Tail(existing)
    /\ UNCHANGED <<os_vars, agent_vars, signal, probe, toProbe, pc, held, object_vars>>

\* The destructor of the future waits for the probe; the results go with it.
AddReturns ==
    /\ \/ pc = "adding" /\ existing = <<>>
       \/ pc = "leaving" /\ probe = "ready"
    /\ existing' = <<>>
    /\ pc' = "done"
    /\ UNCHANGED <<os_vars, agent_vars, signal, probe, toProbe, manager_vars, held,
                   object_vars>>

-----------------------------------------------------------------------------
(* Clients, and the end of the manager.                                    *)

\* GetDefaultDevice, or a weak pointer from GetAllDevices that the client locks.
Obtain ==
    /\ pc \notin Destruction
    /\ \E c \in ToSet(m_nearObjectDevices) \ held : held' = held \cup {c}
    /\ UNCHANGED <<os_vars, agent_vars, signal, probe_vars, manager_vars, pc, object_vars>>

Release ==
    /\ \E c \in held : held' = held \ {c}
    /\ UNCHANGED <<os_vars, agent_vars, signal, probe_vars, manager_vars, pc, object_vars>>

\* The last shared_ptr to the manager goes: its weak_ptr no longer locks.
DropManager ==
    /\ pc = "done"
    /\ pc' = "dropped"
    /\ UNCHANGED <<os_vars, agent_vars, signal, probe_vars, manager_vars, held,
                   object_vars>>

\* The members of the manager and of its agent go in the opposite order of their
\* declaration: first the agent's cache and mutex, then the registration with the
\* operating system, then the rest.
DestroyCache ==
    /\ pc = "dropped"
    /\ m_nearObjectDeviceCache' = [n \in Names |-> NoController]
    /\ pc' = "unregistering"
    /\ UNCHANGED <<os_vars, m_started, registered, hasCallback, signal, probe_vars,
                   manager_vars, held, object_vars>>

DestroyRegistration ==
    /\ pc = "unregistering"
    /\ Unregister
    /\ m_started' = FALSE /\ hasCallback' = FALSE
    /\ m_nearObjectDevices' = <<>>
    /\ pc' = "gone"
    /\ UNCHANGED <<present, changes, m_nearObjectDeviceCache, signal, probe_vars, reported,
                   held, object_vars>>

-----------------------------------------------------------------------------
Terminated == pc \in {"gone", "undefined"} /\ UNCHANGED vars

Environment ==
    \/ \E n \in Names : PlugIn(n) \/ PlugOut(n)
    \/ Obtain
    \/ Release

OwnerStep ==
    \/ StartAgent
    \/ StopAgent
    \/ RegisterDiscoveryEventCallback
    \/ ProbeStarted
    \/ StartAdded
    \/ WaitEnds
    \/ AddExisting
    \/ AddReturns
    \/ DropManager
    \/ DestroyCache
    \/ DestroyRegistration

ProbeStep == Enumerate \/ ProbeNext \/ ProbeReady

NotifierStep(k) ==
    \/ OnArrival(k)
    \/ OnRemoval(k)
    \/ OnNotificationLate(k)
    \/ DevicePresenceChanged(k)

Next ==
    \/ /\ pc # "undefined"
       /\ \/ Environment
          \/ OwnerStep
          \/ ProbeStep
          \/ \E k \in Notifiers : NotifierStep(k)
    \/ Terminated

\* The operating system delivers what it announced; a call that was entered goes on.
\* Nobody has to plug in a device, add the agent, or drop the manager.
Fairness ==
    /\ \A k \in Notifiers : WF_vars(pc # "undefined" /\ NotifierStep(k))
    /\ WF_vars(ProbeStep)
    /\ WF_vars(ProbeStarted \/ StartAdded \/ WaitEnds \/ AddExisting \/ AddReturns)
    /\ WF_vars(DestroyCache \/ DestroyRegistration)

Spec == Init /\ [][Next]_vars

FairSpec == Spec /\ Fairness

-----------------------------------------------------------------------------
(* Properties.                                                             *)

\* One controller represents a device from the first time somebody asks for it until
\* its departure is noticed or nobody holds it, although probes and notifications
\* create them on several threads.
OneControllerPerDevice ==
    \A c, d \in Live \ departed : device[c] = device[d] => c = d

\* Nothing is under way between the operating system and the manager.
Quiet ==
    /\ pending = <<>>
    /\ \A k \in Notifiers : signal[k] = <<>>
    /\ pc = "done"

\* With an agent that the manager started, the list has at least as many entries as
\* there are devices the manager was told of, so GetDefaultDevice is never null
\* while one is present.  This holds although departures remove the wrong entries.
DevicesAvailable ==
    Quiet /\ probe = "none"
        => Len(m_nearObjectDevices) >= Cardinality(present \cap reported)

Listed(n) == \E c \in ToSet(m_nearObjectDevices) : device[c] = n

\* A device whose arrival the operating system announced to a manager comes into the
\* list, unless it goes first or the manager does.
ArrivalListed ==
    \A n \in Names :
        /\ hasCallback
        /\ \E i \in DOMAIN pending : pending[i] = [presence |-> "Arrived", name |-> n]
        ~> Listed(n) \/ n \notin present \/ pc \in Destruction

\* AddDiscoveryAgent returns, whatever the probe does and whoever notifies meanwhile,
\* and so does the destructor of the manager, where its behaviour is defined.
CallsReturn ==
    /\ pc \in {"registered", "waiting", "adding", "leaving"} ~> pc = "done"
    /\ pc = "dropped" ~> pc \in {"gone", "undefined"}

-----------------------------------------------------------------------------
(* What the documentation says, and the code does not do.                  *)

\* "...start it now, then probe for existing devices in case they've already been
\* discovered" (NearObjectDeviceControllerManager.cxx:107-108): a device that was there
\* before AddDiscoveryAgent started the agent is found, if the operating system accepted
\* the registration.
ExistingFound ==
    Quiet /\ registered /\ probe = "none" /\ changes = 0 => \A n \in present : Listed(n)

\* RemoveDevice "removes an existing device from use", the one it is given
\* (NearObjectDeviceControllerManager.hxx:123-125).
RemovesTheDevice ==
    [][\A k \in Notifiers :
          signal[k] # <<>> /\ signal'[k] = <<>> /\ Head(signal[k]).presence = "Departed"
              /\ ManagerListens
          => LET c == Head(signal[k]).controller
             IN  c \in ToSet(m_nearObjectDevices) => c \notin ToSet(m_nearObjectDevices')
      ]_vars

\* "...the device object manager can be safely destroyed prior to the discovery agent"
\* (NearObjectDeviceControllerManager.cxx:87-90): no notification uses a member of the
\* agent that the manager's destructor has destroyed.
DestroyedSafely == pc # "undefined"
=============================================================================
