------------------------------ MODULE MCLibrary ------------------------------
(***************************************************************************)
(* The small types that are checked on their own.  They have nothing to do *)
(* with each other: each behaviour takes the steps of one of them.         *)
(***************************************************************************)
EXTENDS TlvSimple, Apdu, ScopeExit

VARIABLE part

\* One member of each type's initial states, for the types that do not step.
NoData == [tag |-> 1, length |-> 0, high |-> 0, low |-> 0, size |-> 0]

Init ==
    /\ part \in {"tlv", "apdu", "scope"}
    /\ TlvInit /\ (part # "tlv" => data = NoData)
    /\ ApduInit /\ (part # "apdu" => argument = << >>)
    /\ ScopeInit

Next ==
    /\ UNCHANGED part
    /\ \/ part = "tlv" /\ ParseData /\ UNCHANGED <<apduVars, scopeVars>>
       \/ part = "apdu" /\ Construct /\ UNCHANGED <<tlvVars, scopeVars>>
       \/ part = "scope" /\ ScopeNext /\ UNCHANGED <<tlvVars, apduVars>>

Spec == Init /\ [][Next]_<<part, tlvVars, apduVars, scopeVars>>

\* The boundaries of the bytes of a header, and of the sizes they announce.
BoundaryBytes == {0, 1, 3, 254, 255}
BoundarySizes == 0..7 \cup 254..261 \cup 509..516 \cup 65278..65284 \cup 65536..65541

=============================================================================
