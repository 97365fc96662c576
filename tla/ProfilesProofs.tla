--------------------------- MODULE ProfilesProofs ---------------------------
(***************************************************************************)
(* Proofs about the profiles of a near object and their file.              *)
(***************************************************************************)
EXTENDS Profiles, SequenceLemmas, FiniteSetTheorems

-----------------------------------------------------------------------------
(* Profiles and their text.                                                *)

\* The texts of single profiles.
Text == {ToJson(p) : p \in Profiles}

\* No optional is lost or made up by way of its JSON.
LEMMA RoundTrip == \A p \in Profiles : FromJson(ToJson(p)) = p
BY ProfilesAssumption
   DEF FromJson, ToJson, OptionalFromJson, OptionalToJson, Securities, NoSecurity

LEMMA TextType ==
    /\ Text \subseteq [Scope : Scopes, Security : {"null", "{}"}]
    /\ \A t \in Text : FromJson(t) \in Profiles
<1>1. Text \subseteq [Scope : Scopes, Security : {"null", "{}"}]
  <2>1. \A p \in Profiles : p.scope \in Scopes
    BY ProfilesAssumption
  <2>2. \A p \in Profiles : ToJson(p) \in [Scope : Scopes, Security : {"null", "{}"}]
    BY <2>1 DEF ToJson, OptionalToJson
  <2> QED
    BY <2>2 DEF Text
<1>2. \A t \in Text : FromJson(t) \in Profiles
  BY RoundTrip DEF Text
<1> QED
  BY <1>1, <1>2

\* A list written and parsed is the list.
LEMMA SerializeParse ==
    ASSUME NEW list \in Seq(Profiles)
    PROVE  /\ Serialize(list) \in Seq(Text)
           /\ Len(Serialize(list)) = Len(list)
           /\ Parse(Serialize(list)) = list
<1>0. Len(list) \in Nat /\ DOMAIN list = 1..Len(list)
      /\ \A i \in 1..Len(list) : list[i] \in Profiles
  BY LenProperties, ElementOfSeq
<1> DEFINE t == Serialize(list)
<1>1. t = [i \in 1..Len(list) |-> ToJson(list[i])]
  BY <1>0 DEF Serialize
<1>2. \A i \in 1..Len(list) : ToJson(list[i]) \in Text
  BY <1>0 DEF Text
<1>3. t \in Seq(Text) /\ Len(t) = Len(list) /\ DOMAIN t = 1..Len(list)
  <2> HIDE DEF t
  <2>1. t \in [1..Len(list) -> Text]
    BY <1>1, <1>2
  <2>2. t \in Seq(Text)
    BY <1>0, <2>1, SeqDef
  <2>3. Len(t) = Len(list)
    BY <1>0, <1>1, <2>2, LenProperties
  <2> QED
    BY <2>1, <2>2, <2>3
<1>4. ASSUME NEW i \in 1..Len(list) PROVE FromJson(t[i]) = list[i]
  <2>1. t[i] = ToJson(list[i])
    BY <1>1
  <2> QED
    BY <1>0, <2>1, RoundTrip
<1>5. Parse(t) = [i \in 1..Len(list) |-> list[i]]
  <2> HIDE DEF t
  <2>1. Parse(t) = [i \in 1..Len(list) |-> FromJson(t[i])]
    BY <1>3 DEF Parse
  <2> QED
    BY <1>4, <2>1
<1>6. list = [i \in 1..Len(list) |-> list[i]]
  BY <1>0
<1> QED
  BY <1>3, <1>5, <1>6

\* What is read from a text of profiles: one profile for each element.
LEMMA ParseType ==
    ASSUME NEW text \in Seq(Text)
    PROVE  /\ Parse(text) \in Seq(Profiles)
           /\ Len(Parse(text)) = Len(text)
           /\ \A i \in 1..Len(text) : Parse(text)[i] = FromJson(text[i])
<1>0. Len(text) \in Nat /\ DOMAIN text = 1..Len(text)
      /\ \A i \in 1..Len(text) : text[i] \in Text
  BY LenProperties, ElementOfSeq
<1> DEFINE l == Parse(text)
<1>1. l = [i \in 1..Len(text) |-> FromJson(text[i])]
  BY <1>0 DEF Parse
<1>2. \A i \in 1..Len(text) : FromJson(text[i]) \in Profiles
  BY <1>0, TextType
<1> HIDE DEF l
<1>3. l \in [1..Len(text) -> Profiles]
  BY <1>1, <1>2
<1>4. l \in Seq(Profiles)
  BY <1>0, <1>3, SeqDef
<1>5. Len(l) = Len(text)
  BY <1>0, <1>3, <1>4, LenProperties
<1> QED
  BY <1>1, <1>4, <1>5 DEF l

\* No file and text that does not parse are read as an empty list.
LEMMA ParseNothing == Parse(<<>>) = <<>>
BY DEF Parse

\* A text is at least the two brackets of its list.
LEMMA TextSizeType ==
    ASSUME NEW text \in Seq(Text)
    PROVE  TextSize(text) \in Nat /\ TextSize(text) >= 2
<1> DEFINE short == {i \in DOMAIN text : text[i].Security = "{}"}
<1>0. Len(text) \in Nat /\ DOMAIN text = 1..Len(text)
  BY LenProperties
<1>1. IsFiniteSet(1..Len(text)) /\ Cardinality(1..Len(text)) = Len(text)
  <2>1. Cardinality(1..Len(text)) = IF 1 > Len(text) THEN 0 ELSE Len(text) - 1 + 1
    BY <1>0, FS_Interval
  <2>2. IsFiniteSet(1..Len(text))
    BY <1>0, FS_Interval
  <2> QED
    BY <1>0, <2>1, <2>2
<1>2. short \subseteq 1..Len(text)
  BY <1>0
<1>3. Cardinality(short) \in Nat /\ Cardinality(short) <= Len(text)
  <2> HIDE DEF short
  <2>1. IsFiniteSet(short) /\ Cardinality(short) <= Cardinality(1..Len(text))
    BY <1>1, <1>2, FS_Subset
  <2> QED
    BY <1>1, <2>1, FS_CardinalityType
<1>4. TextSize(text) = 58 * Len(text) + 2 - 2 * Cardinality(short)
  BY DEF TextSize
<1>5. \A n, c \in Nat : c <= n => 58 * n + 2 - 2 * c \in Nat /\ 58 * n + 2 - 2 * c >= 2
  OBVIOUS
<1> HIDE DEF short
<1> QED
  BY <1>0, <1>3, <1>4, <1>5

-----------------------------------------------------------------------------
(* The type invariant.  Who is in the persister has a list, which is the   *)
(* profile of the call alone until the file has been read; what the file   *)
(* says are texts of profiles.                                             *)

ListsHeld ==
    /\ file.text \in Seq(Text)
    /\ file.state # "readable" => file.text = <<>>
    /\ \A a \in Adders : InPersister(a) => profiles[a] # <<>>
    /\ \A a \in Adders : pc[a] = "read" => Len(profiles[a]) = 1

TypeInv == ProfilesTypeOK /\ ListsHeld

LEMMA SeqOfTexts == \A text \in Seq(Text) :
    text \in Seq([Scope : Scopes, Security : {"null", "{}"}])
<1> TAKE text \in Seq(Text)
<1>0. Len(text) \in Nat /\ DOMAIN text = 1..Len(text)
      /\ \A i \in 1..Len(text) : text[i] \in Text
  BY LenProperties, ElementOfSeq
<1> DEFINE J == [Scope : Scopes, Security : {"null", "{}"}]
<1>1. Text \subseteq J
  BY TextType
<1> HIDE DEF J
<1>2. text \in [1..Len(text) -> J]
  BY <1>0, <1>1, LenProperties
<1>3. text \in Seq(J)
  BY <1>0, <1>2, SeqDef
<1> QED
  BY <1>3 DEF J

\* Whatever a write does to the file, its text is then none, the one it had or
\* the writer's list.
LEMMA FileAfterWrite ==
    ASSUME TypeInv, NEW a \in Adders, Write(a) \/ WriteFails(a)
    PROVE  \/ file' = file
           \/ file'.state = "torn" /\ file'.text = <<>> /\ file'.size \in Nat
           \/ /\ file'.state = "readable" /\ file'.size \in Nat
              /\ file'.text = Serialize(profiles[a])
<1> DEFINE t == Serialize(profiles[a])
           n == TextSize(t)
<1>1. profiles[a] \in Seq(Profiles) /\ file.size \in Nat
  BY DEF TypeInv, ProfilesTypeOK, FileType
<1>2. n \in Nat /\ n - 1 \in Nat
  <2>1. n \in Nat /\ n >= 2
    BY <1>1, SerializeParse, TextSizeType
  <2> HIDE DEF n
  <2> QED
    BY <2>1
<1>3. CASE Write(a)
  <2>1. file' = IF n >= file.size THEN [state |-> "readable", text |-> t, size |-> n]
                ELSE [state |-> "torn", text |-> << >>, size |-> file.size]
    BY <1>3 DEF Write, Overwritten, Readable, Torn
  <2> HIDE DEF t, n
  <2> QED
    BY <1>1, <1>2, <2>1 DEF t
<1>4. CASE WriteFails(a)
  <2>1. \/ file' = file
        \/ file' = [state |-> "torn", text |-> << >>,
                    size |-> IF file.size > n THEN file.size ELSE n - 1]
    BY <1>4 DEF WriteFails, PartlyOverwritten, Torn
  <2> HIDE DEF t, n
  <2> QED
    BY <1>1, <1>2, <2>1
<1> QED
  BY <1>3, <1>4

\* What every step of a thread in the persister has in common: it comes from
\* there, and the list it has is the file's and its own, or is given up.
LEMMA PersistSteps ==
    ASSUME TypeInv, NEW a \in Adders, PersistStep(a)
    PROVE  /\ InPersister(a)
           /\ UNCHANGED <<m_profiles, calls, restarts, asked, inherited, settled>>
           /\ \/ Return(a)
              \/ /\ pc[a] = "read" /\ file.state # "torn" /\ UNCHANGED file
                 /\ pc' = [pc EXCEPT ![a] = "open"]
                 /\ profiles' = [profiles EXCEPT ![a] = Append(Parse(file.text), OwnProfile(a))]
              \/ /\ pc[a] = "open" /\ UNCHANGED profiles
                 /\ pc' = [pc EXCEPT ![a] = "write"]
                 /\ file' = Torn(0)
           /\ \/ UNCHANGED file
              \/ pc[a] = "open" /\ file' = Torn(0)
              \/ Write(a) \/ WriteFails(a)
<1>1. CASE ReadPersistedProfiles(a)
  <2>1. CASE file.state = "torn"
    BY <1>1, <2>1 DEF ReadPersistedProfiles, history, InPersister
  <2>2. CASE file.state # "torn"
    <3>1. profiles[a] \in Seq(Profiles) /\ Len(profiles[a]) = 1
      BY <1>1 DEF ReadPersistedProfiles, TypeInv, ProfilesTypeOK, ListsHeld
    <3>2. Parse(file.text) \in Seq(Profiles)
      BY ParseType DEF TypeInv, ListsHeld
    <3>3. Parse(file.text) \o profiles[a] = Append(Parse(file.text), OwnProfile(a))
      BY <3>1, <3>2, ConcatOne DEF OwnProfile
    <3> QED
      BY <1>1, <2>2, <3>3 DEF ReadPersistedProfiles, history, InPersister
  <2> QED
    BY <2>1, <2>2
<1>2. CASE ReadFails(a)
  BY <1>2 DEF ReadFails, history, InPersister
<1>3. CASE OpenForWriting(a)
  BY <1>3 DEF OpenForWriting, history, InPersister
<1>4. CASE OpenFails(a)
  BY <1>4 DEF OpenFails, history, InPersister
<1>5. CASE Write(a)
  BY <1>5 DEF Write, InPersister
<1>6. CASE WriteFails(a)
  BY <1>6 DEF WriteFails, InPersister
<1> QED
  BY <1>1, <1>2, <1>3, <1>4, <1>5, <1>6 DEF PersistStep

LEMMA TypeInit == Init => TypeInv
<1> SUFFICES ASSUME Init PROVE TypeInv
  OBVIOUS
<1>1. <<>> \in Seq(Text) /\ <<>> \in Seq([Scope : Scopes, Security : {"null", "{}"}])
      /\ <<>> \in Seq(Profiles)
  BY EmptySequence
<1>2. FileType /\ file.text = <<>>
  BY <1>1 DEF Init, FileType, Absent
<1>3. ProfilesTypeOK
  BY <1>1, <1>2, BoundsAssumption DEF Init, ProfilesTypeOK
<1>4. ListsHeld
  BY <1>1, <1>2 DEF Init, ListsHeld, InPersister
<1> QED
  BY <1>3, <1>4 DEF TypeInv

LEMMA OwnProfileType ==
    ASSUME TypeInv, NEW a \in Adders, InPersister(a)
    PROVE  /\ profiles[a] \in Seq(Profiles)
           /\ profiles[a] # <<>>
           /\ OwnProfile(a) \in Profiles
<1>1. profiles[a] \in Seq(Profiles) /\ profiles[a] # <<>>
  BY DEF TypeInv, ProfilesTypeOK, ListsHeld
<1>2. Len(profiles[a]) \in 1..Len(profiles[a])
  BY <1>1, LenProperties, EmptySeq
<1> QED
  BY <1>1, <1>2, ElementOfSeq DEF OwnProfile

LEMMA AddProfileType == ASSUME TypeInv, NEW a \in Adders, AddProfile(a) PROVE TypeInv'
<1>1. PICK p \in Profiles :
        \/ EnterPersister(a, p) /\ m_profiles' = Append(m_profiles, p)
        \/ /\ UNCHANGED <<pc, profiles, asked, settled, disturbed>>
           /\ m_profiles' = Append(m_profiles, p)
  BY DEF AddProfile
<1>2. /\ calls < MaxAdds /\ calls' = calls + 1
      /\ UNCHANGED <<file, faults, restarts, saved, inherited>>
  BY DEF AddProfile
<1>3. m_profiles' \in Seq(Profiles)
  <2>1. m_profiles \in Seq(Profiles)
    BY DEF TypeInv, ProfilesTypeOK
  <2>2. m_profiles' = Append(m_profiles, p)
    BY <1>1
  <2> QED
    BY <2>1, <2>2, AppendProperties
<1>4. calls' \in 0..MaxAdds
  BY <1>2, BoundsAssumption DEF TypeInv, ProfilesTypeOK
<1>5. /\ FileType'
      /\ file'.text \in Seq(Text)
      /\ file'.state # "readable" => file'.text = <<>>
  BY <1>2 DEF TypeInv, ProfilesTypeOK, ListsHeld, FileType
<1>6. CASE UNCHANGED <<pc, profiles, asked, settled, disturbed>>
  BY <1>2, <1>3, <1>4, <1>5, <1>6 DEF TypeInv, ProfilesTypeOK, ListsHeld, InPersister
<1>7. CASE EnterPersister(a, p)
  <2>1. /\ pc' = [pc EXCEPT ![a] = "read"]
        /\ profiles' = [profiles EXCEPT ![a] = <<p>>]
        /\ asked' = [asked EXCEPT ![p] = @ + 1]
    BY <1>7 DEF EnterPersister
  <2> DEFINE own == <<p>>
  <2>2. own \in Seq(Profiles) /\ own # <<>> /\ Len(own) = 1
    OBVIOUS
  <2>3. settled' \in Seq(Profiles) /\ disturbed' \subseteq {"overlap", "crash", "write"}
    <3>1. Parse(file.text) \in Seq(Profiles)
      BY ParseType DEF TypeInv, ListsHeld
    <3> QED
      BY <1>7, <3>1 DEF EnterPersister, TypeInv, ProfilesTypeOK
  <2>4. profiles' = [profiles EXCEPT ![a] = own]
    BY <2>1
  <2> HIDE DEF own
  <2>5. profiles' \in [Adders -> Seq(Profiles)]
    BY <2>2, <2>4 DEF TypeInv, ProfilesTypeOK
  <2>6. pc' \in [Adders -> {"idle", "read", "open", "write"}] /\ asked' \in [Profiles -> Nat]
    BY <2>1 DEF TypeInv, ProfilesTypeOK
  <2>7. ASSUME NEW b \in Adders
        PROVE  /\ InPersister(b)' => profiles'[b] # <<>>
               /\ pc'[b] = "read" => Len(profiles'[b]) = 1
    <3>1. CASE b = a
      BY <2>2, <2>4, <3>1 DEF TypeInv, ProfilesTypeOK
    <3>2. CASE b # a
      <4>1. pc'[b] = pc[b] /\ profiles'[b] = profiles[b]
        BY <2>1, <2>4, <3>2 DEF TypeInv, ProfilesTypeOK
      <4> QED
        BY <4>1 DEF TypeInv, ListsHeld, InPersister
    <3> QED
      BY <3>1, <3>2
  <2>8. ProfilesTypeOK'
    BY <1>2, <1>3, <1>4, <1>5, <2>3, <2>5, <2>6 DEF TypeInv, ProfilesTypeOK
  <2>9. ListsHeld'
    BY <1>5, <2>7 DEF ListsHeld
  <2> QED
    BY <2>8, <2>9 DEF TypeInv
<1> QED
  BY <1>1, <1>6, <1>7

LEMMA PersistType == ASSUME TypeInv, NEW a \in Adders, PersistStep(a) PROVE TypeInv'
<1>1. faults' \in 0..MaxFaults
  BY BoundsAssumption
     DEF PersistStep, ReadPersistedProfiles, ReadFails, OpenForWriting, OpenFails, Write,
         WriteFails, TypeInv, ProfilesTypeOK
<1>2. disturbed' \subseteq {"overlap", "crash", "write"}
  BY DEF PersistStep, ReadPersistedProfiles, ReadFails, OpenForWriting, OpenFails, Write,
         WriteFails, history, TypeInv, ProfilesTypeOK
<1>3. saved' \in Seq(Profiles)
  <2>1. CASE Write(a)
    <3>1. OwnProfile(a) \in Profiles /\ saved \in Seq(Profiles)
      BY <2>1, OwnProfileType DEF Write, InPersister, TypeInv, ProfilesTypeOK
    <3>2. saved' = Append(saved, OwnProfile(a))
      BY <2>1 DEF Write
    <3> QED
      BY <3>1, <3>2, AppendProperties
  <2>2. CASE ~Write(a)
    BY <2>2 DEF PersistStep, ReadPersistedProfiles, ReadFails, OpenForWriting, OpenFails,
                WriteFails, history, TypeInv, ProfilesTypeOK
  <2> QED
    BY <2>1, <2>2
<1>4. /\ FileType'
      /\ file'.text \in Seq(Text)
      /\ file'.state # "readable" => file'.text = <<>>
  <2>1. <<>> \in Seq(Text) /\ <<>> \in Seq([Scope : Scopes, Security : {"null", "{}"}])
    BY EmptySequence
  <2>2. CASE UNCHANGED file
    BY <2>2 DEF TypeInv, ProfilesTypeOK, ListsHeld, FileType
  <2>3. CASE file' = Torn(0)
    BY <2>1, <2>3 DEF Torn, FileType
  <2>4. CASE Write(a) \/ WriteFails(a)
    <3>1. file' = file \/ file'.state # "readable" => FileType' /\ file'.text \in Seq(Text)
      BY <2>1, <2>4, FileAfterWrite DEF TypeInv, ProfilesTypeOK, ListsHeld, FileType
    <3>2. CASE /\ file'.state = "readable" /\ file'.size \in Nat
               /\ file'.text = Serialize(profiles[a])
      <4>1. InPersister(a)
        BY <2>4 DEF Write, WriteFails, InPersister
      <4>2. profiles[a] \in Seq(Profiles) /\ profiles[a] # <<>>
        BY <4>1, OwnProfileType
      <4>3. /\ file'.text \in Seq(Text)
            /\ Len(file'.text) = Len(profiles[a])
        BY <3>2, <4>2, SerializeParse
      <4>4. file'.text # <<>>
        BY <4>2, <4>3, EmptySeq
      <4>5. file'.text \in Seq([Scope : Scopes, Security : {"null", "{}"}])
        BY <4>3, SeqOfTexts
      <4> QED
        BY <3>2, <4>3, <4>4, <4>5 DEF FileType
    <3> QED
      BY <2>2, <2>4, <3>1, <3>2, FileAfterWrite
  <2> QED
    BY <2>2, <2>3, <2>4, PersistSteps
<1>5. /\ pc' \in [Adders -> {"idle", "read", "open", "write"}]
      /\ profiles' \in [Adders -> Seq(Profiles)]
      /\ \A b \in Adders : InPersister(b)' => profiles'[b] # <<>>
      /\ \A b \in Adders : pc'[b] = "read" => Len(profiles'[b]) = 1
  <2>0. InPersister(a)
    BY PersistSteps
  <2>1. CASE Return(a)
    <3> DEFINE none == <<>>
    <3>1. none \in Seq(Profiles)
      BY EmptySequence
    <3>2. pc' = [pc EXCEPT ![a] = "idle"] /\ profiles' = [profiles EXCEPT ![a] = none]
      BY <2>1 DEF Return
    <3> HIDE DEF none
    <3>3. ASSUME NEW b \in Adders
          PROVE  pc'[b] = "idle" \/ (pc'[b] = pc[b] /\ profiles'[b] = profiles[b])
      BY <3>2 DEF TypeInv, ProfilesTypeOK
    <3>4. /\ pc' \in [Adders -> {"idle", "read", "open", "write"}]
          /\ profiles' \in [Adders -> Seq(Profiles)]
      BY <3>1, <3>2 DEF TypeInv, ProfilesTypeOK
    <3> QED
      BY <3>3, <3>4 DEF TypeInv, ListsHeld, InPersister
  <2>2. CASE /\ pc' = [pc EXCEPT ![a] = "open"]
             /\ profiles' = [profiles EXCEPT ![a] = Append(Parse(file.text), OwnProfile(a))]
    <3> DEFINE list == Append(Parse(file.text), OwnProfile(a))
    <3>1. list \in Seq(Profiles) /\ list # <<>>
      <4>1. Parse(file.text) \in Seq(Profiles)
        BY ParseType DEF TypeInv, ListsHeld
      <4>2. OwnProfile(a) \in Profiles
        BY <2>0, OwnProfileType
      <4> QED
        BY <4>1, <4>2, AppendProperties
    <3>2. profiles' = [profiles EXCEPT ![a] = list]
      BY <2>2
    <3> HIDE DEF list
    <3>3. ASSUME NEW b \in Adders
          PROVE  \/ pc'[b] = "open" /\ profiles'[b] = list
                 \/ pc'[b] = pc[b] /\ profiles'[b] = profiles[b]
      BY <2>2, <3>2 DEF TypeInv, ProfilesTypeOK
    <3>4. /\ pc' \in [Adders -> {"idle", "read", "open", "write"}]
          /\ profiles' \in [Adders -> Seq(Profiles)]
      BY <2>2, <3>1, <3>2 DEF TypeInv, ProfilesTypeOK
    <3> QED
      BY <3>1, <3>3, <3>4 DEF TypeInv, ListsHeld, InPersister
  <2>3. CASE pc[a] = "open" /\ UNCHANGED profiles /\ pc' = [pc EXCEPT ![a] = "write"]
    <3>1. ASSUME NEW b \in Adders
          PROVE  pc'[b] = pc[b] \/ (pc'[b] = "write" /\ InPersister(b))
      BY <2>3 DEF TypeInv, ProfilesTypeOK, InPersister
    <3> QED
      BY <2>3, <3>1 DEF TypeInv, ProfilesTypeOK, ListsHeld, InPersister
  <2> QED
    BY <2>1, <2>2, <2>3, PersistSteps
<1>6. UNCHANGED <<m_profiles, calls, restarts, asked, inherited, settled>>
  BY PersistSteps
<1>7. ProfilesTypeOK'
  BY <1>1, <1>2, <1>3, <1>4, <1>5, <1>6 DEF TypeInv, ProfilesTypeOK
<1>8. ListsHeld'
  BY <1>4, <1>5 DEF ListsHeld
<1> QED
  BY <1>7, <1>8 DEF TypeInv

LEMMA RestartType == ASSUME TypeInv, Restart PROVE TypeInv'
<1>1. <<>> \in Seq(Profiles)
  BY EmptySequence
<1>2. Parse(file.text) \in Seq(Profiles)
  BY ParseType DEF TypeInv, ListsHeld
<1>3. restarts' \in 0..MaxRestarts
  BY BoundsAssumption DEF Restart, TypeInv, ProfilesTypeOK
<1>4. disturbed' \subseteq {"overlap", "crash", "write"}
  BY DEF Restart, TypeInv, ProfilesTypeOK
<1>5. FileType'
  BY DEF Restart, TypeInv, ProfilesTypeOK, FileType
<1>6. pc' = [a \in Adders |-> "idle"] /\ profiles' = [a \in Adders |-> << >>]
  BY DEF Restart
<1>7. ProfilesTypeOK'
  BY <1>1, <1>2, <1>3, <1>4, <1>5, <1>6 DEF Restart, TypeInv, ProfilesTypeOK
<1>8. ListsHeld'
  BY <1>6 DEF Restart, TypeInv, ListsHeld, InPersister
<1> QED
  BY <1>7, <1>8 DEF TypeInv

LEMMA TypeStep == TypeInv /\ [Next]_vars => TypeInv'
<1> SUFFICES ASSUME TypeInv, [Next]_vars PROVE TypeInv'
  OBVIOUS
<1>1. CASE UNCHANGED vars
  BY <1>1 DEF vars, TypeInv, ProfilesTypeOK, FileType, ListsHeld, InPersister
<1> QED
  BY <1>1, AddProfileType, PersistType, RestartType DEF Next

\* The type invariant of the manager, its threads and the file, for any
\* profiles, any finite set of threads and any bounds.
THEOREM ProfilesTypeCorrect == Spec => []ProfilesTypeOK
<1>1. TypeInv => ProfilesTypeOK
  BY DEF TypeInv
<1> QED
  BY <1>1, TypeInit, TypeStep, PTL DEF Spec

-----------------------------------------------------------------------------
(* What the steps do thread by thread.                                     *)

LEMMA OtherThreads ==
    ASSUME TypeInv, NEW a \in Adders, AddProfile(a) \/ PersistStep(a),
           NEW b \in Adders, b # a
    PROVE  /\ pc'[b] = pc[b]
           /\ profiles'[b] = profiles[b]
           /\ OwnProfile(b)' = OwnProfile(b)
           /\ InPersister(b)' <=> InPersister(b)
<1>1. pc'[b] = pc[b] /\ profiles'[b] = profiles[b]
  <2>1. CASE AddProfile(a)
    BY <2>1 DEF AddProfile, EnterPersister, TypeInv, ProfilesTypeOK
  <2>2. CASE PersistStep(a)
    BY <2>2, PersistSteps DEF Return, TypeInv, ProfilesTypeOK
  <2> QED
    BY <2>1, <2>2
<1> QED
  BY <1>1 DEF OwnProfile, InPersister

LEMMA CallingThread ==
    ASSUME TypeInv, NEW a \in Adders, AddProfile(a)
    PROVE  \E p \in Profiles :
              /\ m_profiles' = Append(m_profiles, p)
              /\ UNCHANGED <<file, saved, inherited>>
              /\ ~InPersister(a)
              /\ \/ UNCHANGED <<pc, profiles, asked, settled, disturbed>>
                 \/ /\ pc'[a] = "read"
                    /\ profiles'[a] = <<p>> /\ OwnProfile(a)' = p
                    /\ asked' = [asked EXCEPT ![p] = @ + 1]
                    /\ IF \E b \in Adders : InPersister(b)
                       THEN disturbed' # {} /\ UNCHANGED settled
                       ELSE /\ settled' = IF file.state = "torn" THEN settled
                                          ELSE Parse(file.text)
                            /\ UNCHANGED disturbed
<1>1. PICK p \in Profiles :
        /\ m_profiles' = Append(m_profiles, p)
        /\ \/ EnterPersister(a, p)
           \/ UNCHANGED <<pc, profiles, asked, settled, disturbed>>
  BY DEF AddProfile
<1>2. pc[a] = "idle" /\ UNCHANGED <<file, saved, inherited>> /\ ~InPersister(a)
  BY DEF AddProfile, InPersister
<1>3. CASE EnterPersister(a, p)
  <2> DEFINE own == <<p>>
  <2>1. own[Len(own)] = p
    OBVIOUS
  <2>2. pc' = [pc EXCEPT ![a] = "read"] /\ profiles' = [profiles EXCEPT ![a] = own]
    BY <1>3 DEF EnterPersister
  <2> HIDE DEF own
  <2>3. pc'[a] = "read" /\ profiles'[a] = own
    BY <2>2 DEF TypeInv, ProfilesTypeOK
  <2>4. OwnProfile(a)' = p
    BY <2>1, <2>3 DEF OwnProfile
  <2>5. /\ asked' = [asked EXCEPT ![p] = @ + 1]
        /\ IF \E b \in Adders : InPersister(b)
           THEN disturbed' # {} /\ UNCHANGED settled
           ELSE /\ settled' = IF file.state = "torn" THEN settled ELSE Parse(file.text)
                /\ UNCHANGED disturbed
    BY <1>3 DEF EnterPersister
  <2> QED
    BY <1>1, <1>2, <2>3, <2>4, <2>5 DEF own
<1> QED
  BY <1>1, <1>2, <1>3

LEMMA PersistingThread ==
    ASSUME TypeInv, NEW a \in Adders, PersistStep(a)
    PROVE  \/ pc'[a] = "idle"
           \/ /\ pc[a] = "read" /\ file.state # "torn" /\ UNCHANGED file
              /\ pc'[a] = "open"
              /\ profiles'[a] = Append(Parse(file.text), OwnProfile(a))
              /\ OwnProfile(a)' = OwnProfile(a)
           \/ /\ pc[a] = "open" /\ pc'[a] = "write"
              /\ file' = Torn(0)
              /\ profiles'[a] = profiles[a]
              /\ OwnProfile(a)' = OwnProfile(a)
<1>1. CASE Return(a)
  BY <1>1 DEF Return, TypeInv, ProfilesTypeOK
<1>2. CASE /\ pc[a] = "read" /\ file.state # "torn" /\ UNCHANGED file
           /\ pc' = [pc EXCEPT ![a] = "open"]
           /\ profiles' = [profiles EXCEPT ![a] = Append(Parse(file.text), OwnProfile(a))]
  <2> DEFINE old == Parse(file.text)
             own == OwnProfile(a)
             list == Append(old, own)
  <2>1. profiles' = [profiles EXCEPT ![a] = list]
    BY <1>2
  <2>2. old \in Seq(Profiles) /\ own \in Profiles
    BY <1>2, ParseType, OwnProfileType DEF TypeInv, ListsHeld, InPersister
  <2> HIDE DEF old, own
  <2>3. Len(list) = Len(old) + 1 /\ list[Len(old) + 1] = own
    BY <2>2, AppendProperties
  <2> HIDE DEF list
  <2>4. pc'[a] = "open" /\ profiles'[a] = list
    BY <1>2, <2>1 DEF TypeInv, ProfilesTypeOK
  <2>5. OwnProfile(a)' = own
    BY <2>3, <2>4 DEF OwnProfile
  <2> QED
    BY <1>2, <2>4, <2>5 DEF list, own, old
<1>3. CASE /\ pc[a] = "open" /\ UNCHANGED profiles
           /\ pc' = [pc EXCEPT ![a] = "write"]
           /\ file' = Torn(0)
  BY <1>3 DEF OwnProfile, TypeInv, ProfilesTypeOK
<1> QED
  BY <1>1, <1>2, <1>3, PersistSteps

LEMMA Restarted ==
    ASSUME Restart
    PROVE  /\ UNCHANGED <<file, asked, saved, settled>>
           /\ m_profiles' = <<>> /\ inherited' = Parse(file.text)
           /\ \A a \in Adders : pc'[a] = "idle"
           /\ (\E a \in Adders : pc[a] = "write") => disturbed' # {}
           /\ disturbed \subseteq disturbed'
BY DEF Restart

-----------------------------------------------------------------------------
(* What was settled.  It starts the file and the list of every thread that *)
(* has read the file.                                                      *)

StartsWith(list, start) ==
    /\ Len(start) <= Len(list)
    /\ \A i \in 1..Len(start) : list[i] = start[i]

SettledInv ==
    /\ file.state = "absent" => settled = <<>>
    /\ file.state = "readable" => StartsWith(Parse(file.text), settled)
    /\ \A a \in Adders : pc[a] \in {"open", "write"} => StartsWith(profiles[a], settled)

LEMMA StartsWithItself == \A list \in Seq(Profiles) : StartsWith(list, list)
BY LenProperties DEF StartsWith

LEMMA StartsWithNothing == \A list \in Seq(Profiles) : StartsWith(list, <<>>)
BY LenProperties, EmptySequence DEF StartsWith

LEMMA StartsWithAppend ==
    ASSUME NEW list \in Seq(Profiles), NEW p \in Profiles, NEW start \in Seq(Profiles),
           StartsWith(list, start)
    PROVE  StartsWith(Append(list, p), start)
<1> DEFINE r == Append(list, p)
<1>1. Len(list) \in Nat /\ Len(start) \in Nat /\ Len(r) = Len(list) + 1
      /\ \A i \in 1..Len(list) : r[i] = list[i]
  BY LenProperties, AppendProperties
<1> HIDE DEF r
<1>2. StartsWith(r, start)
  BY <1>1 DEF StartsWith
<1> QED
  BY <1>2 DEF r

\* The list a thread has, read from the file, starts with what it read.
LEMMA ReadStarts ==
    ASSUME TypeInv, SettledInv, NEW a \in Adders, InPersister(a), file.state # "torn"
    PROVE  StartsWith(Append(Parse(file.text), OwnProfile(a)), settled)
<1>1. Parse(file.text) \in Seq(Profiles) /\ OwnProfile(a) \in Profiles
      /\ settled \in Seq(Profiles)
  BY ParseType, OwnProfileType DEF TypeInv, ListsHeld, ProfilesTypeOK
<1>2. StartsWith(Parse(file.text), settled)
  BY <1>1, StartsWithNothing DEF SettledInv, TypeInv, ProfilesTypeOK, FileType
<1> QED
  BY <1>1, <1>2, StartsWithAppend

LEMMA SettledInit == Init => SettledInv
BY DEF Init, SettledInv, Absent

LEMMA SettledStep == TypeInv /\ SettledInv /\ [Next]_vars => SettledInv'
<1> SUFFICES ASSUME TypeInv, SettledInv, [Next]_vars PROVE SettledInv'
  OBVIOUS
<1>1. CASE UNCHANGED vars
  BY <1>1 DEF vars, SettledInv
<1>2. ASSUME NEW a \in Adders, AddProfile(a) PROVE SettledInv'
  <2>1. CASE UNCHANGED settled
    <3>1. UNCHANGED file
      BY <1>2 DEF AddProfile
    <3>2. ASSUME NEW b \in Adders, pc'[b] \in {"open", "write"}
          PROVE  StartsWith(profiles'[b], settled)
      BY <1>2, <3>2, CallingThread, OtherThreads DEF SettledInv
    <3> QED
      BY <2>1, <3>1, <3>2 DEF SettledInv
  <2>2. CASE /\ ~\E b \in Adders : InPersister(b)
             /\ settled' = Parse(file.text) /\ file.state # "torn"
             /\ pc'[a] = "read"
    <3>1. UNCHANGED file
      BY <1>2 DEF AddProfile
    <3>2. \A b \in Adders : pc'[b] \notin {"open", "write"}
      BY <1>2, <2>2, OtherThreads DEF InPersister
    <3>3. StartsWith(Parse(file.text), settled')
      BY <2>2, ParseType, StartsWithItself DEF TypeInv, ListsHeld
    <3>4. file.state = "absent" => settled' = <<>>
      BY <2>2, ParseNothing DEF TypeInv, ListsHeld
    <3> QED
      BY <3>1, <3>2, <3>3, <3>4 DEF SettledInv
  <2> QED
    BY <1>2, <2>1, <2>2, CallingThread
<1>3. ASSUME NEW a \in Adders, PersistStep(a) PROVE SettledInv'
  <2>0. UNCHANGED settled /\ InPersister(a)
    BY <1>3, PersistSteps
  <2>1. ASSUME NEW b \in Adders, pc'[b] \in {"open", "write"}
        PROVE  StartsWith(profiles'[b], settled)
    <3>1. CASE b # a
      BY <1>3, <2>1, <3>1, OtherThreads DEF SettledInv
    <3>2. CASE b = a
      BY <1>3, <2>0, <2>1, <3>2, PersistingThread, ReadStarts DEF SettledInv
    <3> QED
      BY <3>1, <3>2
  <2>2. /\ file'.state = "absent" => settled = <<>>
        /\ file'.state = "readable" => StartsWith(Parse(file'.text), settled)
    <3>1. CASE UNCHANGED file
      BY <3>1 DEF SettledInv
    <3>2. CASE file'.state = "torn"
      BY <3>2
    <3>3. CASE /\ Write(a) \/ WriteFails(a)
               /\ file'.state = "readable" /\ file'.text = Serialize(profiles[a])
      <4>1. StartsWith(profiles[a], settled)
        BY <3>3 DEF Write, WriteFails, SettledInv
      <4>2. Parse(file'.text) = profiles[a]
        BY <2>0, <3>3, OwnProfileType, SerializeParse
      <4> QED
        BY <3>3, <4>1, <4>2
    <3> QED
      BY <1>3, <3>1, <3>2, <3>3, PersistSteps, FileAfterWrite DEF Torn
  <2> QED
    BY <2>0, <2>1, <2>2 DEF SettledInv
<1>4. CASE Restart
  BY <1>4, Restarted DEF SettledInv
<1> QED
  BY <1>1, <1>2, <1>3, <1>4 DEF Next

\* Existing profiles are retained, whatever the threads do to each other's
\* lists and whichever writes fail or are cut off.
THEOREM ExistingRetained == Spec => []SettledRetained
<1>1. TypeInv /\ SettledInv => SettledRetained
  <2> SUFFICES ASSUME TypeInv, SettledInv, file.state = "readable"
               PROVE  /\ Len(settled) <= Len(file.text)
                      /\ \A i \in DOMAIN settled : IsSame(settled[i], FromJson(file.text[i]))
    BY DEF SettledRetained
  <2>1. /\ Len(Parse(file.text)) = Len(file.text)
        /\ \A i \in 1..Len(file.text) : Parse(file.text)[i] = FromJson(file.text[i])
        /\ Len(file.text) \in Nat
    BY ParseType, LenProperties DEF TypeInv, ListsHeld
  <2>2. /\ Len(settled) <= Len(Parse(file.text))
        /\ \A i \in 1..Len(settled) : Parse(file.text)[i] = settled[i]
    BY DEF SettledInv, StartsWith
  <2>3. DOMAIN settled = 1..Len(settled) /\ Len(settled) \in Nat
    BY LenProperties DEF TypeInv, ProfilesTypeOK
  <2>4. ASSUME NEW i \in DOMAIN settled PROVE IsSame(settled[i], FromJson(file.text[i]))
    <3>1. settled[i] = FromJson(file.text[i])
      BY <2>1, <2>2, <2>3
    <3> QED
      BY <3>1 DEF IsSame, SameSecurity
  <2> QED
    BY <2>1, <2>2, <2>4
<1>2. TypeInv /\ SettledInv /\ [Next]_vars => TypeInv' /\ SettledInv'
  BY TypeStep, SettledStep
<1>3. Init => TypeInv /\ SettledInv
  BY TypeInit, SettledInit
<1> QED
  BY <1>1, <1>2, <1>3, PTL DEF Spec

-----------------------------------------------------------------------------
(* What is in the file, in order.  As long as nothing disturbed it, the    *)
(* persister has one thread at a time, whose list once it has read the     *)
(* file is what was saved and its own profile, and the file is empty while *)
(* it is open for writing.                                                 *)

OneAtATime == \A a, b \in Adders : InPersister(a) /\ InPersister(b) => a = b

ListInOrder ==
    \A a \in Adders :
        pc[a] \in {"open", "write"} => profiles[a] = Append(saved, OwnProfile(a))

EmptyToWrite == \A a \in Adders : pc[a] = "write" => file.size = 0

OrderInv ==
    disturbed = {} =>
        /\ OneAtATime
        /\ ListInOrder
        /\ EmptyToWrite
        /\ (\A a \in Adders : pc[a] # "write")
             => file.state # "torn" /\ Parse(file.text) = saved

LEMMA OrderInit == Init => OrderInv
BY ParseNothing
   DEF Init, OrderInv, Absent, OneAtATime, ListInOrder, EmptyToWrite, InPersister

LEMMA OrderStep == TypeInv /\ OrderInv /\ [Next]_vars => OrderInv'
<1> SUFFICES ASSUME TypeInv, OrderInv, [Next]_vars, disturbed' = {}
             PROVE  /\ OneAtATime'
                    /\ ListInOrder'
                    /\ EmptyToWrite'
                    /\ (\A a \in Adders : pc'[a] # "write")
                         => file'.state # "torn" /\ Parse(file'.text) = saved'
  BY DEF OrderInv
<1>1. CASE UNCHANGED vars
  <2>1. disturbed = {}
    BY <1>1 DEF vars
  <2> QED
    BY <1>1, <2>1
       DEF vars, OrderInv, OneAtATime, ListInOrder, EmptyToWrite, InPersister, OwnProfile
<1>2. ASSUME NEW a \in Adders, AddProfile(a)
      PROVE  /\ OneAtATime'
             /\ ListInOrder'
             /\ EmptyToWrite'
             /\ (\A b \in Adders : pc'[b] # "write")
                  => file'.state # "torn" /\ Parse(file'.text) = saved'
  <2>1. disturbed = {} /\ UNCHANGED <<file, saved>> /\ ~InPersister(a)
    BY <1>2, CallingThread
  <2>2. CASE UNCHANGED <<pc, profiles>>
    BY <2>1, <2>2
       DEF OrderInv, OneAtATime, ListInOrder, EmptyToWrite, InPersister, OwnProfile
  <2>3. CASE pc'[a] = "read" /\ \A b \in Adders : ~InPersister(b)
    <3>1. \A b \in Adders : InPersister(b)' => b = a
      BY <1>2, <2>3, OtherThreads
    <3>2. \A b \in Adders : pc'[b] \notin {"open", "write"} /\ pc[b] # "write"
      BY <2>3, <3>1 DEF InPersister
    <3> QED
      BY <2>1, <3>1, <3>2 DEF OrderInv, OneAtATime, ListInOrder, EmptyToWrite
  <2> QED
    BY <1>2, <2>2, <2>3, CallingThread
<1>3. ASSUME NEW a \in Adders, PersistStep(a)
      PROVE  /\ OneAtATime'
             /\ ListInOrder'
             /\ EmptyToWrite'
             /\ (\A b \in Adders : pc'[b] # "write")
                  => file'.state # "torn" /\ Parse(file'.text) = saved'
  <2>1. disturbed = {} /\ ~WriteFails(a)
    BY <1>3 DEF PersistStep, ReadPersistedProfiles, ReadFails, OpenForWriting, OpenFails, Write,
                WriteFails, history
  <2>2. InPersister(a)
    BY <1>3, PersistSteps
  <2>3. ASSUME NEW b \in Adders, b # a PROVE ~InPersister(b) /\ ~InPersister(b)'
    BY <1>3, <2>1, <2>2, <2>3, OtherThreads DEF OrderInv, OneAtATime
  <2>4. \A b \in Adders : b # a => pc[b] # "write" /\ pc'[b] \notin {"open", "write"}
    BY <2>3 DEF InPersister
  <2>5. OneAtATime'
    BY <2>3 DEF OneAtATime
  <2>6. pc[a] # "write" => file.state # "torn" /\ Parse(file.text) = saved
    BY <2>1, <2>4 DEF OrderInv
  <2>7. CASE Write(a)
    <3>1. profiles[a] = Append(saved, OwnProfile(a)) /\ file.size = 0 /\ pc[a] = "write"
      BY <2>1, <2>7 DEF Write, OrderInv, ListInOrder, EmptyToWrite
    <3> DEFINE t == Serialize(profiles[a])
               n == TextSize(t)
    <3>2. n \in Nat /\ Parse(t) = profiles[a]
      BY <2>2, OwnProfileType, SerializeParse, TextSizeType
    <3>3. file' = IF n >= file.size THEN [state |-> "readable", text |-> t, size |-> n]
                  ELSE [state |-> "torn", text |-> << >>, size |-> file.size]
      BY <2>7 DEF Write, Overwritten, Readable, Torn
    <3> HIDE DEF n, t
    <3>4. file'.state # "torn" /\ file'.text = t
      BY <3>1, <3>2, <3>3
    <3>5. saved' = profiles[a]
      BY <2>7, <3>1 DEF Write
    <3>6. pc'[a] = "idle"
      BY <2>7 DEF Write, Return, TypeInv, ProfilesTypeOK
    <3>7. ListInOrder' /\ EmptyToWrite'
      BY <2>4, <3>6 DEF ListInOrder, EmptyToWrite
    <3> QED
      BY <2>5, <3>2, <3>4, <3>5, <3>7
  <2>8. CASE ~Write(a)
    <3>1. UNCHANGED saved
      BY <1>3, <2>1, <2>8
         DEF PersistStep, ReadPersistedProfiles, ReadFails, OpenForWriting, OpenFails, history
    <3>2. UNCHANGED file \/ (pc[a] = "open" /\ file' = Torn(0))
      BY <1>3, <2>1, <2>8, PersistSteps
    <3>3. CASE pc'[a] = "idle"
      <4>1. ListInOrder' /\ EmptyToWrite'
        BY <2>4, <3>3 DEF ListInOrder, EmptyToWrite
      <4>2. pc[a] # "write" /\ UNCHANGED file
        BY <1>3, <2>1, <2>8, <3>3
           DEF PersistStep, ReadPersistedProfiles, ReadFails, OpenForWriting, OpenFails,
               TypeInv, ProfilesTypeOK
      <4> QED
        BY <2>5, <2>6, <3>1, <4>1, <4>2
    <3>4. CASE /\ pc[a] = "read" /\ UNCHANGED file /\ pc'[a] = "open"
               /\ profiles'[a] = Append(Parse(file.text), OwnProfile(a))
               /\ OwnProfile(a)' = OwnProfile(a)
      <4>1. profiles'[a] = Append(saved, OwnProfile(a))
        BY <2>6, <3>4
      <4>2. ListInOrder' /\ EmptyToWrite'
        BY <2>4, <3>1, <3>4, <4>1 DEF ListInOrder, EmptyToWrite
      <4> QED
        BY <2>5, <2>6, <3>1, <3>4, <4>2
    <3>5. CASE /\ pc[a] = "open" /\ pc'[a] = "write"
               /\ file' = Torn(0)
               /\ profiles'[a] = profiles[a]
               /\ OwnProfile(a)' = OwnProfile(a)
      <4>1. profiles[a] = Append(saved, OwnProfile(a)) /\ file'.size = 0
        BY <2>1, <3>5 DEF OrderInv, ListInOrder, Torn
      <4>2. ListInOrder' /\ EmptyToWrite'
        BY <2>4, <3>1, <3>5, <4>1 DEF ListInOrder, EmptyToWrite
      <4> QED
        BY <2>5, <3>5, <4>2
    <3> QED
      BY <1>3, <3>3, <3>4, <3>5, PersistingThread
  <2> QED
    BY <2>7, <2>8
<1>4. CASE Restart
  <2>1. disturbed = {} /\ \A a \in Adders : pc[a] # "write"
    BY <1>4, Restarted
  <2>2. \A a \in Adders : pc'[a] = "idle"
    BY <1>4, Restarted
  <2>3. OneAtATime' /\ ListInOrder' /\ EmptyToWrite'
    BY <2>2 DEF OneAtATime, ListInOrder, EmptyToWrite, InPersister
  <2> QED
    BY <1>4, <2>1, <2>3, Restarted DEF OrderInv
<1> QED
  BY <1>1, <1>2, <1>3, <1>4 DEF Next

\* The file holds what was persisted, in order, unless something disturbed it.
THEOREM PersistedInOrder == Spec => []SavedInOrder
<1>1. OrderInv => SavedInOrder
  BY DEF OrderInv, SavedInOrder
<1>2. TypeInv /\ OrderInv /\ [Next]_vars => TypeInv' /\ OrderInv'
  BY TypeStep, OrderStep
<1>3. Init => TypeInv /\ OrderInv
  BY TypeInit, OrderInit
<1> QED
  BY <1>1, <1>2, <1>3, PTL DEF Spec

-----------------------------------------------------------------------------
(* A file that does not parse stays so once only threads that are still to *)
(* read it are left.                                                       *)

Stuck == file.state = "torn" /\ \A a \in Adders : pc[a] \in {"idle", "read"}

LEMMA StuckStep == TypeInv /\ Stuck /\ [Next]_vars => Stuck'
<1> SUFFICES ASSUME TypeInv, Stuck, [Next]_vars PROVE Stuck'
  OBVIOUS
<1>1. CASE UNCHANGED vars
  BY <1>1 DEF vars, Stuck
<1>2. ASSUME NEW a \in Adders, AddProfile(a) PROVE Stuck'
  <2>1. UNCHANGED file /\ pc'[a] \in {"idle", "read"}
    BY <1>2, CallingThread DEF Stuck
  <2> QED
    BY <1>2, <2>1, OtherThreads DEF Stuck
<1>3. ASSUME NEW a \in Adders, PersistStep(a) PROVE Stuck'
  <2>1. pc'[a] = "idle"
    BY <1>3, PersistingThread DEF Stuck
  <2>2. UNCHANGED file
    BY <1>3, PersistSteps DEF Stuck, Write, WriteFails
  <2> QED
    BY <1>3, <2>1, <2>2, OtherThreads DEF Stuck
<1>4. CASE Restart
  BY <1>4, Restarted DEF Stuck
<1> QED
  BY <1>1, <1>2, <1>3, <1>4 DEF Next

\* Nothing repairs a file that does not parse, over any number of restarts.
THEOREM NothingRepairsTorn == Spec => TornForGood
<1> DEFINE Left == file.state = "torn" /\ \A a \in Adders : ~InPersister(a)
           IsTorn == file.state = "torn"
<1>1. TypeInv /\ Left => Stuck
  BY DEF Stuck, InPersister, TypeInv, ProfilesTypeOK
<1>2. Stuck => IsTorn
  BY DEF Stuck
<1>3. TornForGood <=> [](Left => []IsTorn)
  BY DEF TornForGood
<1> HIDE DEF Left, IsTorn
<1> QED
  BY <1>1, <1>2, <1>3, TypeInit, TypeStep, StuckStep, PTL DEF Spec

-----------------------------------------------------------------------------
(* How often a profile can come to be in the file: as often as it is in    *)
(* the list that will be written, or that is, and once more for each       *)
(* thread that is still to read the file and adds it.                      *)

Readers(p) == {a \in Adders : pc[a] = "read" /\ OwnProfile(a) = p}

Fits(p, n) ==
    /\ Count(Parse(file.text), p) + Cardinality(Readers(p)) <= n
    /\ \A a \in Adders :
         pc[a] \in {"open", "write"} => Count(profiles[a], p) + Cardinality(Readers(p)) <= n

CountInv ==
    \A p \in Profiles :
        /\ Fits(p, asked[p])
        /\ Fits(p, Count(inherited, p) + Len(FindMatchingProfiles(p)))

\* The places of a list that hold a profile.
LEMMA CountType ==
    ASSUME NEW list \in Seq(Profiles), NEW p
    PROVE  /\ IsFiniteSet({i \in DOMAIN list : list[i] = p})
           /\ Count(list, p) \in Nat
<1> DEFINE places == {i \in DOMAIN list : list[i] = p}
<1>1. Len(list) \in Nat /\ DOMAIN list = 1..Len(list)
  BY LenProperties
<1>2. IsFiniteSet(1..Len(list)) /\ places \subseteq 1..Len(list)
  BY <1>1, FS_Interval
<1> HIDE DEF places
<1>3. IsFiniteSet(places)
  BY <1>2, FS_Subset
<1>4. Cardinality(places) \in Nat
  BY <1>3, FS_CardinalityType
<1> QED
  BY <1>3, <1>4 DEF places, Count

LEMMA CountNothing == \A p : Count(<<>>, p) = 0
<1> TAKE p
<1>1. {i \in DOMAIN <<>> : <<>>[i] = p} = {}
  OBVIOUS
<1> QED
  BY <1>1, FS_EmptySet DEF Count

LEMMA CountAppend ==
    ASSUME NEW list \in Seq(Profiles), NEW q \in Profiles, NEW p
    PROVE  Count(Append(list, q), p) = Count(list, p) + IF q = p THEN 1 ELSE 0
<1> DEFINE r == Append(list, q)
           old == {i \in DOMAIN list : list[i] = p}
           new == {i \in DOMAIN r : r[i] = p}
           last == Len(list) + 1
<1>1. /\ Len(list) \in Nat /\ DOMAIN list = 1..Len(list)
      /\ DOMAIN r = 1..last
      /\ \A i \in 1..Len(list) : r[i] = list[i]
      /\ r[last] = q
  BY LenProperties, AppendProperties
<1>2. IsFiniteSet(old) /\ Cardinality(old) \in Nat /\ last \notin old
  <2>1. IsFiniteSet(old) /\ Cardinality(old) \in Nat
    BY CountType DEF Count
  <2>2. last \notin old
    BY <1>1
  <2> QED
    BY <2>1, <2>2
<1> HIDE DEF r
<1>3. \A i \in 1..last : i \in 1..Len(list) \/ i = last
  BY <1>1
<1>4. last \in 1..last /\ \A i \in 1..Len(list) : i \in 1..last
  BY <1>1
<1>5. new = IF q = p THEN old \cup {last} ELSE old
  <2> HIDE DEF last
  <2>1. CASE q = p
    BY <1>1, <1>3, <1>4, <2>1
  <2>2. CASE q # p
    BY <1>1, <1>3, <1>4, <2>2
  <2> QED
    BY <2>1, <2>2
<1> HIDE DEF old, new, last
<1>6. Cardinality(new) = Cardinality(old) + IF q = p THEN 1 ELSE 0
  <2>1. Cardinality(old \cup {last}) = Cardinality(old) + 1
    BY <1>2, FS_AddElement
  <2> QED
    BY <1>2, <1>5, <2>1
<1> QED
  BY <1>6 DEF Count, old, new, r

LEMMA ReadersFinite ==
    ASSUME NEW p
    PROVE  IsFiniteSet(Readers(p)) /\ Cardinality(Readers(p)) \in Nat
<1>1. Readers(p) \subseteq Adders
  BY DEF Readers
<1>2. IsFiniteSet(Readers(p))
  BY <1>1, AddersAssumption, FS_Subset
<1> QED
  BY <1>2, FS_CardinalityType

\* The manager's memory holds a profile once more for each time it is added.
LEMMA FoundMore ==
    ASSUME m_profiles \in Seq(Profiles), NEW p \in Profiles, NEW q \in Profiles,
           m_profiles' = Append(m_profiles, q)
    PROVE  /\ Len(FindMatchingProfiles(p)) \in Nat
           /\ Len(FindMatchingProfiles(p)')
                >= Len(FindMatchingProfiles(p)) + IF q = p THEN 1 ELSE 0
           /\ Len(FindMatchingProfiles(p)') \in Nat
<1> DEFINE S == {r \in Profiles : IsSame(r, p)}
           old == Selected(m_profiles, S)
           new == Selected(m_profiles', S)
<1>1. old \in Seq(Profiles \cap S)
  BY SelectedType
<1>2. new = IF q \in S THEN Append(old, q) ELSE old
  BY SelectedAppend
<1>3. p \in S
  BY DEF IsSame, SameSecurity
<1>4. Len(old) \in Nat
  BY <1>1, LenProperties
<1>5. FindMatchingProfiles(p) = old /\ FindMatchingProfiles(p)' = new
  BY DEF FindMatchingProfiles
<1> HIDE DEF S, old, new
<1>6. CASE q \in S
  <2>1. q \in Profiles \cap S
    BY <1>6
  <2>2. Len(new) = Len(old) + 1
    BY <1>1, <1>2, <1>6, <2>1, AppendProperties
  <2> QED
    BY <1>4, <1>5, <2>2
<1>7. CASE q \notin S
  BY <1>2, <1>3, <1>4, <1>5, <1>7
<1> QED
  BY <1>6, <1>7

\* No step of a thread in the persister needs a larger supply.
LEMMA PersistFits ==
    ASSUME TypeInv, NEW a \in Adders, PersistStep(a),
           NEW p \in Profiles, NEW n \in Nat, Fits(p, n)
    PROVE  Fits(p, n)'
<1> DEFINE readers == Cardinality(Readers(p))
           left == Cardinality(Readers(p)')
           stored == Count(Parse(file.text), p)
<1>1. InPersister(a) /\ profiles[a] \in Seq(Profiles) /\ OwnProfile(a) \in Profiles
  BY PersistSteps, OwnProfileType
<1>2. Parse(file.text) \in Seq(Profiles) /\ stored \in Nat
  BY ParseType, CountType DEF TypeInv, ListsHeld
<1>3. readers \in Nat /\ left \in Nat
      /\ left = IF a \in Readers(p) THEN readers - 1 ELSE readers
  <2>1. \A b \in Adders : b # a =>
           (pc'[b] = "read" /\ OwnProfile(b)' = p <=> pc[b] = "read" /\ OwnProfile(b) = p)
    BY OtherThreads
  <2>2. pc'[a] # "read"
    BY PersistingThread
  <2>3. Readers(p)' = Readers(p) \ {a}
    BY <2>1, <2>2 DEF Readers
  <2>4. IsFiniteSet(Readers(p)) /\ readers \in Nat
    BY ReadersFinite
  <2>5. /\ Cardinality(Readers(p) \ {a})
             = IF a \in Readers(p) THEN readers - 1 ELSE readers
        /\ IsFiniteSet(Readers(p) \ {a})
    BY <2>4, FS_RemoveElement
  <2>6. Cardinality(Readers(p) \ {a}) \in Nat
    BY <2>5, FS_CardinalityType
  <2> QED
    BY <2>3, <2>4, <2>5, <2>6
<1>4. /\ stored + readers <= n
      /\ \A b \in Adders : pc[b] \in {"open", "write"} => Count(profiles[b], p) + readers <= n
  BY DEF Fits
<1>5. \A b \in Adders : Count(profiles[b], p) \in Nat
  BY CountType DEF TypeInv, ProfilesTypeOK
<1>6. Count(Parse(file'.text), p) + left <= n
  <2> HIDE DEF readers, left
  <2>1. CASE UNCHANGED file
    BY <1>2, <1>3, <1>4, <2>1
  <2>2. CASE file'.text = <<>>
    <3>1. Count(Parse(file'.text), p) = 0
      BY <2>2, ParseNothing, CountNothing
    <3> HIDE DEF stored
    <3> QED
      BY <1>2, <1>3, <1>4, <3>1
  <2>3. CASE pc[a] = "write" /\ file'.text = Serialize(profiles[a])
    <3>1. Parse(file'.text) = profiles[a]
      BY <1>1, <2>3, SerializeParse
    <3>2. Count(profiles[a], p) \in Nat /\ Count(profiles[a], p) + readers <= n
      BY <1>4, <1>5, <2>3
    <3> QED
      BY <1>3, <3>1, <3>2
  <2> QED
    BY <2>1, <2>2, <2>3, PersistSteps, FileAfterWrite DEF Torn, Write, WriteFails
<1>7. ASSUME NEW b \in Adders, pc'[b] \in {"open", "write"}
      PROVE  Count(profiles'[b], p) + left <= n
  <2> HIDE DEF left, readers, stored
  <2>1. CASE b # a
    <3>1. pc[b] \in {"open", "write"} /\ profiles'[b] = profiles[b]
      BY <1>7, <2>1, OtherThreads
    <3>2. Count(profiles[b], p) + readers <= n /\ Count(profiles[b], p) \in Nat
      BY <1>4, <1>5, <3>1
    <3> QED
      BY <1>3, <3>1, <3>2
  <2>2. CASE b = a
    <3>1. CASE pc[a] = "open" /\ profiles'[a] = profiles[a]
      <4>1. Count(profiles[a], p) + readers <= n /\ Count(profiles[a], p) \in Nat
        BY <1>4, <1>5, <3>1
      <4> QED
        BY <1>3, <2>2, <3>1, <4>1
    <3>2. CASE /\ pc[a] = "read"
               /\ profiles'[a] = Append(Parse(file.text), OwnProfile(a))
      <4>1. Count(profiles'[a], p) = stored + IF OwnProfile(a) = p THEN 1 ELSE 0
        BY <1>1, <1>2, <3>2, CountAppend DEF stored
      <4>2. a \in Readers(p) <=> OwnProfile(a) = p
        BY <3>2 DEF Readers
      <4> QED
        BY <1>2, <1>3, <1>4, <2>2, <4>1, <4>2
    <3> QED
      BY <1>7, <2>2, <3>1, <3>2, PersistingThread
  <2> QED
    BY <2>1, <2>2
<1> QED
  BY <1>6, <1>7 DEF Fits

\* A call needs one more of the profile it adds, if it is to be persisted.
LEMMA AddFits ==
    ASSUME TypeInv, NEW a \in Adders, AddProfile(a), ~InPersister(a), UNCHANGED file,
           NEW q \in Profiles,
           UNCHANGED <<pc, profiles>> \/ (pc'[a] = "read" /\ OwnProfile(a)' = q),
           NEW p \in Profiles, NEW n \in Nat, NEW m \in Nat,
           n <= m, q = p /\ pc'[a] = "read" => n + 1 <= m,
           Fits(p, n)
    PROVE  Fits(p, m)'
<1> DEFINE readers == Cardinality(Readers(p))
           more == Cardinality(Readers(p)')
<1>1. readers \in Nat /\ more \in Nat /\ more - readers <= m - n
  <2>1. IsFiniteSet(Readers(p)) /\ readers \in Nat
    BY ReadersFinite
  <2>2. a \notin Readers(p)
    BY DEF Readers, InPersister
  <2>3. CASE Readers(p)' = Readers(p)
    BY <2>1, <2>3
  <2>4. CASE q = p /\ pc'[a] = "read" /\ Readers(p)' = Readers(p) \cup {a}
    <3>1. Cardinality(Readers(p) \cup {a}) = readers + 1
      BY <2>1, <2>2, FS_AddElement
    <3>2. more = readers + 1 /\ n + 1 <= m
      BY <2>4, <3>1
    <3> HIDE DEF readers, more
    <3> QED
      BY <2>1, <3>2
  <2>5. \/ Readers(p)' = Readers(p)
        \/ q = p /\ pc'[a] = "read" /\ Readers(p)' = Readers(p) \cup {a}
    <3>1. CASE UNCHANGED <<pc, profiles>>
      BY <3>1 DEF Readers, OwnProfile
    <3>2. CASE pc'[a] = "read" /\ OwnProfile(a)' = q
      <4>1. \A b \in Adders : b # a =>
               (pc'[b] = "read" /\ OwnProfile(b)' = p <=> pc[b] = "read" /\ OwnProfile(b) = p)
        BY OtherThreads
      <4> QED
        BY <2>2, <3>2, <4>1 DEF Readers
    <3> QED
      BY <3>1, <3>2
  <2> QED
    BY <2>3, <2>4, <2>5
<1>2. Count(Parse(file.text), p) \in Nat
  BY ParseType, CountType DEF TypeInv, ListsHeld
<1>3. \A b \in Adders : Count(profiles[b], p) \in Nat
  BY CountType DEF TypeInv, ProfilesTypeOK
<1>4. /\ Count(Parse(file.text), p) + readers <= n
      /\ \A b \in Adders : pc[b] \in {"open", "write"} => Count(profiles[b], p) + readers <= n
  BY DEF Fits
<1>5. ASSUME NEW b \in Adders, pc'[b] \in {"open", "write"}
      PROVE  pc[b] \in {"open", "write"} /\ profiles'[b] = profiles[b]
  BY <1>5, OtherThreads
<1> HIDE DEF readers, more
<1>6. Count(Parse(file'.text), p) + more <= m
  BY <1>1, <1>2, <1>4
<1>7. ASSUME NEW b \in Adders, pc'[b] \in {"open", "write"}
      PROVE  Count(profiles'[b], p) + more <= m
  <2>1. /\ Count(profiles[b], p) \in Nat /\ Count(profiles[b], p) + readers <= n
        /\ profiles'[b] = profiles[b]
    BY <1>3, <1>4, <1>5, <1>7
  <2> QED
    BY <1>1, <2>1
<1> QED
  BY <1>6, <1>7 DEF Fits, more

LEMMA CountInit == Init => CountInv
<1> SUFFICES ASSUME Init, NEW p \in Profiles
             PROVE  Fits(p, asked[p]) /\ Fits(p, Count(inherited, p) + Len(FindMatchingProfiles(p)))
  BY DEF CountInv
<1>1. Readers(p) = {} /\ Cardinality(Readers(p)) = 0
  BY FS_EmptySet DEF Init, Readers
<1>2. Count(Parse(file.text), p) = 0
  BY ParseNothing, CountNothing DEF Init, Absent
<1>3. asked[p] = 0
  BY DEF Init
<1>4. Count(inherited, p) = 0 /\ Len(FindMatchingProfiles(p)) = 0
  BY CountNothing, SelectedNone, EmptySequence DEF Init, FindMatchingProfiles
<1>5. \A b \in Adders : pc[b] \notin {"open", "write"}
  BY DEF Init
<1> QED
  BY <1>1, <1>2, <1>3, <1>4, <1>5 DEF Fits

LEMMA CountStep == TypeInv /\ CountInv /\ [Next]_vars => CountInv'
<1> SUFFICES ASSUME TypeInv, CountInv, [Next]_vars, NEW p \in Profiles
             PROVE  /\ Fits(p, asked[p])'
                    /\ Fits(p, Count(inherited, p) + Len(FindMatchingProfiles(p)))'
  BY DEF CountInv
<1> DEFINE known == Count(inherited, p) + Len(FindMatchingProfiles(p))
<1>0. asked[p] \in Nat /\ known \in Nat /\ Fits(p, asked[p]) /\ Fits(p, known)
  <2>1. Count(inherited, p) \in Nat
    BY CountType DEF TypeInv, ProfilesTypeOK
  <2>2. Len(FindMatchingProfiles(p)) \in Nat
    BY SelectedType, LenProperties DEF TypeInv, ProfilesTypeOK, FindMatchingProfiles
  <2> QED
    BY <2>1, <2>2 DEF CountInv, TypeInv, ProfilesTypeOK
<1>1. CASE UNCHANGED vars
  BY <1>0, <1>1 DEF vars, Fits, Readers, OwnProfile, FindMatchingProfiles
<1>2. ASSUME NEW a \in Adders, AddProfile(a)
      PROVE  Fits(p, asked[p])' /\ Fits(p, known)'
  <2>1. PICK q \in Profiles :
          /\ m_profiles' = Append(m_profiles, q)
          /\ UNCHANGED <<file, inherited>>
          /\ ~InPersister(a)
          /\ \/ UNCHANGED <<pc, profiles, asked>>
             \/ /\ pc'[a] = "read" /\ OwnProfile(a)' = q
                /\ asked' = [asked EXCEPT ![q] = @ + 1]
    BY <1>2, CallingThread
  <2>2. /\ asked'[p] \in Nat /\ asked[p] <= asked'[p]
        /\ q = p /\ pc'[a] = "read" => asked[p] + 1 <= asked'[p]
    <3>1. asked \in [Profiles -> Nat]
      BY DEF TypeInv, ProfilesTypeOK
    <3>2. CASE UNCHANGED <<pc, asked>>
      <4>1. pc[a] # "read"
        BY <2>1 DEF InPersister
      <4> QED
        BY <3>1, <3>2, <4>1
    <3>3. CASE asked' = [asked EXCEPT ![q] = @ + 1]
      BY <3>1, <3>3
    <3> QED
      BY <2>1, <3>2, <3>3
  <2>3. /\ known' \in Nat /\ known <= known'
        /\ q = p => known + 1 <= known'
    <3>1. Count(inherited, p) \in Nat /\ inherited' = inherited
      BY <2>1, CountType DEF TypeInv, ProfilesTypeOK
    <3>2. /\ Len(FindMatchingProfiles(p)) \in Nat
          /\ Len(FindMatchingProfiles(p)')
               >= Len(FindMatchingProfiles(p)) + IF q = p THEN 1 ELSE 0
          /\ Len(FindMatchingProfiles(p)') \in Nat
      BY <2>1, FoundMore DEF TypeInv, ProfilesTypeOK
    <3> QED
      BY <3>1, <3>2
  <2> DEFINE FitsFrom(n, m) ==
               n <= m /\ (q = p /\ pc'[a] = "read" => n + 1 <= m) /\ Fits(p, n)
  <2>4. \A n, m \in Nat : FitsFrom(n, m) => Fits(p, m)'
    BY <1>2, <2>1, AddFits
  <2>5. FitsFrom(asked[p], asked'[p]) /\ FitsFrom(known, known')
    BY <1>0, <2>2, <2>3
  <2> HIDE DEF known, FitsFrom
  <2>6. Fits(p, asked[p])'
    BY <1>0, <2>2, <2>4, <2>5 DEF Fits
  <2>7. Fits(p, known)'
    BY <1>0, <2>3, <2>4, <2>5 DEF Fits
  <2> QED
    BY <2>6, <2>7
<1>3. ASSUME NEW a \in Adders, PersistStep(a)
      PROVE  Fits(p, asked[p])' /\ Fits(p, known)'
  <2>1. asked' = asked /\ known' = known
    BY <1>3, PersistSteps DEF FindMatchingProfiles
  <2>2. \A n \in Nat : Fits(p, n) => Fits(p, n)'
    BY <1>3, PersistFits
  <2> HIDE DEF known
  <2> QED
    BY <1>0, <2>1, <2>2 DEF Fits
<1>4. CASE Restart
  <2>1. /\ UNCHANGED <<file, asked>> /\ m_profiles' = <<>> /\ inherited' = Parse(file.text)
        /\ \A b \in Adders : pc'[b] = "idle"
    BY <1>4, Restarted
  <2>2. Readers(p)' = {} /\ Cardinality(Readers(p)') = 0
    BY <2>1, FS_EmptySet DEF Readers
  <2>3. Count(Parse(file.text), p) \in Nat /\ Cardinality(Readers(p)) \in Nat
    BY ParseType, CountType, ReadersFinite DEF TypeInv, ListsHeld
  <2>4. Count(Parse(file.text), p) <= asked[p]
    BY <1>0, <2>3 DEF Fits
  <2>5. known' = Count(Parse(file.text), p)
    <3>1. Len(FindMatchingProfiles(p)') = 0
      BY <2>1, SelectedNone, EmptySequence DEF FindMatchingProfiles
    <3> QED
      BY <2>1, <2>3, <3>1
  <2> HIDE DEF known
  <2> QED
    BY <2>1, <2>2, <2>3, <2>4, <2>5 DEF Fits
<1> QED
  BY <1>1, <1>2, <1>3, <1>4 DEF Next

\* No profile is in the file more often than it was added, nor without being
\* in the manager's memory or in the file when the process started.
THEOREM NoneInvented == Spec => []NothingInvented
<1>1. TypeInv /\ CountInv => NothingInvented
  <2> SUFFICES ASSUME TypeInv, CountInv, NEW p \in Profiles
               PROVE  /\ Count(Parse(file.text), p) <= asked[p]
                      /\ Count(Parse(file.text), p)
                           <= Count(inherited, p) + Len(FindMatchingProfiles(p))
    BY DEF NothingInvented
  <2>1. Count(Parse(file.text), p) \in Nat /\ Cardinality(Readers(p)) \in Nat
    BY ParseType, CountType, ReadersFinite DEF TypeInv, ListsHeld
  <2>2. asked[p] \in Nat /\ Count(inherited, p) \in Nat
    BY CountType DEF TypeInv, ProfilesTypeOK
  <2>3. Len(FindMatchingProfiles(p)) \in Nat
    BY SelectedType, LenProperties DEF TypeInv, ProfilesTypeOK, FindMatchingProfiles
  <2>4. /\ Count(Parse(file.text), p) + Cardinality(Readers(p)) <= asked[p]
        /\ Count(Parse(file.text), p) + Cardinality(Readers(p))
             <= Count(inherited, p) + Len(FindMatchingProfiles(p))
    BY DEF CountInv, Fits
  <2> QED
    BY <2>1, <2>2, <2>3, <2>4
<1>2. TypeInv /\ CountInv /\ [Next]_vars => TypeInv' /\ CountInv'
  BY TypeStep, CountStep
<1>3. Init => TypeInv /\ CountInv
  BY TypeInit, CountInit
<1> QED
  BY <1>1, <1>2, <1>3, PTL DEF Spec
=============================================================================
