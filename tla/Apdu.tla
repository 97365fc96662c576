-------------------------------- MODULE Apdu --------------------------------
(***************************************************************************)
(* The command APDU: a buffer that the constructor fills with four header  *)
(* bytes and the data, and two views into that buffer, one of the data and *)
(* one of the payload.  A view is the position of its first byte and its   *)
(* size.                                                                   *)
(***************************************************************************)
EXTENDS Integers, Sequences

CONSTANTS MaxData     \* bound: the size of the data

ASSUME ApduAssumption == MaxData \in Nat

VARIABLES argument, command

apduVars == <<argument, command>>

Zeros(n) == [i \in 1..n |-> "zero"]
Header == <<"cla", "ins", "p1", "p2">>

\* resize() makes room for the header and the data, and insert() then makes
\* room for the data again: as many zeros stay behind it.
Payload(bytes) == Header \o bytes \o Zeros(Len(bytes))

\* Mutant: the view starts behind the bytes that resize() made.
BugDataView(bytes) == [first |-> 5 + Len(bytes), size |-> Len(bytes)]

DataView(bytes) == [first |-> 5, size |-> Len(bytes)]

\* Its first byte is the second of the payload, its size the payload's.
PayloadView(bytes) == [first |-> 2, size |-> Len(Payload(bytes))]

ApduCommand(bytes) ==
    [m_payload |-> Payload(bytes),
     m_dataView |-> DataView(bytes),
     m_payloadView |-> PayloadView(bytes)]

NoCommand == [m_payload |-> << >>]

ApduInit ==
    /\ argument \in UNION {[1..n -> {"x", "y"}] : n \in 0..MaxData}
    /\ command = NoCommand

Construct ==
    /\ command = NoCommand
    /\ command' = ApduCommand(argument)
    /\ UNCHANGED argument

ApduSpec == ApduInit /\ [][Construct]_apduVars

-----------------------------------------------------------------------------
LastOf(view) == view.first + view.size - 1

Shown(view) == [i \in 1..view.size |-> command.m_payload[view.first + i - 1]]

\* Whatever the data: the header is before it, the data view shows exactly
\* the argument and lies within the buffer, and the payload view lacks the
\* first byte of the command and always runs one byte over the end.
ApduViews ==
    command # NoCommand =>
        /\ SubSeq(command.m_payload, 1, 4) = Header
        /\ LastOf(command.m_dataView) <= Len(command.m_payload)
        /\ Shown(command.m_dataView) = argument
        /\ LastOf(command.m_payloadView) = Len(command.m_payload) + 1
=============================================================================
