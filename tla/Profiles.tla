------------------------------ MODULE Profiles ------------------------------
(***************************************************************************)
(* The profiles of a near object: the manager that keeps them in memory    *)
(* (NearObjectProfileManager) and the file that keeps the persistent ones  *)
(* (NearObjectProfilePersisterFilesystem and its JSON text).               *)
(*                                                                         *)
(* AddProfile updates the memory under the manager's lock and writes the   *)
(* file after it has released it, so any number of threads may be inside   *)
(* the persister at once.  The file is read, truncated and rewritten as a  *)
(* whole.  A process that ends, in the middle of a write or not, leaves    *)
(* the file as it is; the next manager starts with an empty memory.        *)
(***************************************************************************)
EXTENDS Integers, Sequences, FiniteSets, Selection

CONSTANTS
    Profiles,      \* the profiles callers add
    Adders,        \* the threads that call AddProfile
    MaxAdds,       \* bound: calls of AddProfile, over all process lifetimes
    MaxFaults,     \* bound: operations on the file that fail
    MaxRestarts    \* bound: times the process ends and starts again

Scopes == 0..2     \* Unicast, Multicast, Unknown, serialized as numbers
NoSecurity == "nullopt"
Securities == {NoSecurity, "security"}    \* the security has no content yet
Lifetimes == {"Persistent", "Ephemeral"}

ASSUME ProfilesAssumption ==
    Profiles \subseteq [scope : Scopes, security : Securities]
ASSUME AddersAssumption == IsFiniteSet(Adders)
ASSUME BoundsAssumption == MaxAdds \in Nat /\ MaxFaults \in Nat /\ MaxRestarts \in Nat

VARIABLES
    m_profiles,    \* the manager's list
    file,          \* the text in the persistence file and its size
    pc,            \* where each thread is in its call
    profiles,      \* the list each thread has, its call's own profile last
    calls, faults, restarts,
    asked,         \* history: how often a profile was added as Persistent
    saved,         \* history: the profiles whose persisting Succeeded, in order
    inherited,     \* history: the file's list when the process started
    settled,       \* history: its list when last it had one and no thread used it
    disturbed      \* history: what happened to the file that no one handles

vars == <<m_profiles, file, pc, profiles, calls, faults, restarts,
          asked, saved, inherited, settled, disturbed>>
history == <<asked, saved, inherited, settled, disturbed>>

-----------------------------------------------------------------------------
(* Profiles and their text. *)

SameSecurity(s, t) == (s = NoSecurity) <=> (t = NoSecurity)

IsSame(p, q) == p.scope = q.scope /\ SameSecurity(p.security, q.security)

OptionalToJson(s) == IF s = NoSecurity THEN "null" ELSE "{}"
OptionalFromJson(j) == IF j = "null" THEN NoSecurity ELSE "security"

ToJson(p) == [Scope |-> p.scope, Security |-> OptionalToJson(p.security)]

\* Mutant: the null of an optional is not told apart.
BugFromJson(j) == [scope |-> j.Scope, security |-> j.Security]

FromJson(j) == [scope |-> j.Scope, security |-> OptionalFromJson(j.Security)]

Serialize(list) == [i \in DOMAIN list |-> ToJson(list[i])]
Parse(text) == [i \in DOMAIN text |-> FromJson(text[i])]

\* The characters of a list written with std::setw(4): 58 for an element and
\* its separators, two of them less if its security is {} and not null.
TextSize(text) ==
    58 * Len(text) + 2 - 2 * Cardinality({i \in DOMAIN text : text[i].Security = "{}"})

-----------------------------------------------------------------------------
(* The file: absent, text that parses, or text that does not ("torn", the *)
(* empty text included).                                                  *)

Absent == [state |-> "absent", text |-> << >>, size |-> 0]
Torn(size) == [state |-> "torn", text |-> << >>, size |-> size]
Readable(text) == [state |-> "readable", text |-> text, size |-> TextSize(text)]

\* Each writer has its own offset, which is 0 at its one write: a text that
\* is shorter than what the file holds by then leaves the end of that.
Overwritten(f, text) ==
    IF TextSize(text) >= f.size THEN Readable(text) ELSE Torn(f.size)

\* A write that fails has written nothing, or some part of its text.
PartlyOverwritten(f, text) ==
    {f, Torn(IF f.size > TextSize(text) THEN f.size ELSE TextSize(text) - 1)}

OwnProfile(a) == profiles[a][Len(profiles[a])]

InPersister(a) == pc[a] \in {"read", "open", "write"}

FindMatchingProfiles(profileToMatch) ==
    Selected(m_profiles, {p \in Profiles : IsSame(p, profileToMatch)})

-----------------------------------------------------------------------------
Init ==
    /\ m_profiles = << >>
    /\ file = Absent
    /\ pc = [a \in Adders |-> "idle"]
    /\ profiles = [a \in Adders |-> << >>]
    /\ calls = 0 /\ faults = 0 /\ restarts = 0
    /\ asked = [p \in Profiles |-> 0]
    /\ saved = << >>
    /\ inherited = << >>
    /\ settled = << >>
    /\ disturbed = {}

EnterPersister(a, p) ==
    /\ pc' = [pc EXCEPT ![a] = "read"]
    /\ profiles' = [profiles EXCEPT ![a] = <<p>>]
    /\ asked' = [asked EXCEPT ![p] = @ + 1]
    /\ IF \E b \in Adders : InPersister(b)
       THEN disturbed' = disturbed \cup {"overlap"} /\ UNCHANGED settled
       ELSE /\ settled' = IF file.state = "torn" THEN settled ELSE Parse(file.text)
            /\ UNCHANGED disturbed

\* Mutant: a profile is kept in memory only if it is not persisted.
BugAddProfile(a) ==
    /\ pc[a] = "idle" /\ calls < MaxAdds
    /\ \E p \in Profiles, lifetime \in Lifetimes :
        IF lifetime = "Persistent"
        THEN EnterPersister(a, p) /\ UNCHANGED m_profiles
        ELSE /\ m_profiles' = Append(m_profiles, p)
             /\ UNCHANGED <<pc, profiles, asked, settled, disturbed>>
    /\ calls' = calls + 1
    /\ UNCHANGED <<file, faults, restarts, saved, inherited>>

\* The profile is in memory when the call reaches the persister, and stays
\* there whatever the persister answers.
AddProfile(a) ==
    /\ pc[a] = "idle" /\ calls < MaxAdds
    /\ \E p \in Profiles, lifetime \in Lifetimes :
        /\ m_profiles' = Append(m_profiles, p)
        /\ IF lifetime = "Persistent"
           THEN EnterPersister(a, p)
           ELSE UNCHANGED <<pc, profiles, asked, settled, disturbed>>
    /\ calls' = calls + 1
    /\ UNCHANGED <<file, faults, restarts, saved, inherited>>

\* AddProfile discards the persister's result.
Return(a) ==
    /\ pc' = [pc EXCEPT ![a] = "idle"]
    /\ profiles' = [profiles EXCEPT ![a] = << >>]

\* Mutant: a text that does not parse is read as an empty list.
BugReadPersistedProfiles(a) ==
    /\ pc[a] = "read"
    /\ pc' = [pc EXCEPT ![a] = "open"]
    /\ profiles' = [profiles EXCEPT ![a] = Parse(file.text) \o profiles[a]]
    /\ UNCHANGED <<m_profiles, file, calls, faults, restarts, history>>

\* Mutant: the read waits for a text that parses.
BugReadWaits(a) ==
    /\ pc[a] = "read" /\ file.state # "torn"
    /\ pc' = [pc EXCEPT ![a] = "open"]
    /\ profiles' = [profiles EXCEPT ![a] = Parse(file.text) \o profiles[a]]
    /\ UNCHANGED <<m_profiles, file, calls, faults, restarts, history>>

\* ReadPersistedProfiles: no file is an empty list, and a text that does not
\* parse throws out of AddProfile.
ReadPersistedProfiles(a) ==
    /\ pc[a] = "read"
    /\ IF file.state = "torn"
       THEN Return(a)
       ELSE /\ pc' = [pc EXCEPT ![a] = "open"]
            /\ profiles' = [profiles EXCEPT ![a] = Parse(file.text) \o profiles[a]]
    /\ UNCHANGED <<m_profiles, file, calls, faults, restarts, history>>

\* Mutant: FailedToOpenFile is not looked at, and the list is empty.
BugReadFails(a) ==
    /\ pc[a] = "read" /\ file.state # "absent" /\ faults < MaxFaults
    /\ pc' = [pc EXCEPT ![a] = "open"]
    /\ faults' = faults + 1
    /\ UNCHANGED <<m_profiles, file, profiles, calls, restarts, history>>

ReadFails(a) ==
    /\ pc[a] = "read" /\ file.state # "absent" /\ faults < MaxFaults
    /\ Return(a)
    /\ faults' = faults + 1
    /\ UNCHANGED <<m_profiles, file, calls, restarts, history>>

\* Opening the output stream truncates the file, or creates it.
OpenForWriting(a) ==
    /\ pc[a] = "open"
    /\ file' = Torn(0)
    /\ pc' = [pc EXCEPT ![a] = "write"]
    /\ UNCHANGED <<m_profiles, profiles, calls, faults, restarts, history>>

\* A stream that is not open ignores the output, and its result is Failed.
OpenFails(a) ==
    /\ pc[a] = "open" /\ faults < MaxFaults
    /\ Return(a)
    /\ faults' = faults + 1
    /\ UNCHANGED <<m_profiles, file, calls, restarts, history>>

\* The text leaves the stream's buffer in one write when it is closed.
Write(a) ==
    /\ pc[a] = "write"
    /\ file' = Overwritten(file, Serialize(profiles[a]))
    /\ saved' = Append(saved, OwnProfile(a))
    /\ Return(a)
    /\ UNCHANGED <<m_profiles, calls, faults, restarts, asked, inherited, settled, disturbed>>

WriteFails(a) ==
    /\ pc[a] = "write" /\ faults < MaxFaults
    /\ file' \in PartlyOverwritten(file, Serialize(profiles[a]))
    /\ disturbed' = disturbed \cup {"write"}
    /\ Return(a)
    /\ faults' = faults + 1
    /\ UNCHANGED <<m_profiles, calls, restarts, asked, saved, inherited, settled>>

\* The process ends, wherever its threads are, and a new one constructs its
\* manager, which does not read the file.
Restart ==
    /\ restarts < MaxRestarts
    /\ restarts' = restarts + 1
    /\ m_profiles' = << >>
    /\ pc' = [a \in Adders |-> "idle"]
    /\ profiles' = [a \in Adders |-> << >>]
    /\ inherited' = Parse(file.text)
    /\ disturbed' = disturbed \cup {d \in {"crash"} : \E a \in Adders : pc[a] = "write"}
    /\ UNCHANGED <<file, calls, faults, asked, saved, settled>>

PersistStep(a) ==
    ReadPersistedProfiles(a) \/ ReadFails(a) \/ OpenForWriting(a) \/ OpenFails(a)
        \/ Write(a) \/ WriteFails(a)

Next == Restart \/ \E a \in Adders : AddProfile(a) \/ PersistStep(a)

Spec == Init /\ [][Next]_vars

\* A thread that is in a call is scheduled.
FairSpec == Spec /\ \A a \in Adders : WF_vars(PersistStep(a))

-----------------------------------------------------------------------------
Count(list, p) == Cardinality({i \in DOMAIN list : list[i] = p})

FileType ==
    /\ file.state \in {"absent", "torn", "readable"}
    /\ file.size \in Nat
    /\ file.text \in Seq([Scope : Scopes, Security : {"null", "{}"}])
    /\ file.state = "readable" => file.text # << >>

\* The types, and a file that is readable has at least one profile: the code
\* for an empty list in the file is never needed.
ProfilesTypeOK ==
    /\ m_profiles \in Seq(Profiles)
    /\ FileType
    /\ pc \in [Adders -> {"idle", "read", "open", "write"}]
    /\ profiles \in [Adders -> Seq(Profiles)]
    /\ calls \in 0..MaxAdds /\ faults \in 0..MaxFaults /\ restarts \in 0..MaxRestarts
    /\ asked \in [Profiles -> Nat]
    /\ saved \in Seq(Profiles)
    /\ inherited \in Seq(Profiles)
    /\ settled \in Seq(Profiles)
    /\ disturbed \subseteq {"overlap", "crash", "write"}

\* Unless two threads were in the persister at once, the process ended within
\* a write, or a write failed, the file holds exactly the profiles whose
\* persisting succeeded, in that order, over every restart and in spite of
\* files that could not be opened: what PersistProfile answers is true.
SavedInOrder ==
    disturbed = {} /\ (\A a \in Adders : pc[a] # "write") =>
        /\ file.state # "torn"
        /\ Parse(file.text) = saved

\* Whatever happens to the file, what can be read from it are profiles that
\* were added as Persistent, each no more often than it was added, and what
\* it did not have when the process started is found in the manager's memory:
\* threads that overwrite each other never double or invent a profile.
NothingInvented ==
    \A p \in Profiles :
        LET stored == Count(Parse(file.text), p)
        IN /\ stored <= asked[p]
           /\ stored <= Count(inherited, p) + Len(FindMatchingProfiles(p))

\* Existing profiles are retained: a file that can be read starts with the list
\* it had when last no thread was in the persister, however the threads that
\* came since overwrite each other, fail or are cut off.
SettledRetained ==
    file.state = "readable" =>
        /\ Len(settled) <= Len(file.text)
        /\ \A i \in DOMAIN settled : IsSame(settled[i], FromJson(file.text[i]))

\* Nothing repairs the file: if it does not parse once no thread is in the
\* persister, it never does again, over restarts too, because every later
\* AddProfile throws when it reads it.
TornForGood ==
    [](file.state = "torn" /\ (\A a \in Adders : ~InPersister(a))
         => [](file.state = "torn"))

\* Every call of AddProfile ends, by returning, by throwing or with the process.
AddReturns == \A a \in Adders : InPersister(a) ~> ~InPersister(a)
=============================================================================
