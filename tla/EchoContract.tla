------------------------------ MODULE EchoContract ------------------------------
(***************************************************************************)
(* What an echo server owes a client: only bytes that the client has sent  *)
(* come back, in their order, none twice.  A byte may be missing here:     *)
(* that none is, is EchoIntact of EchoNetwork.                             *)
(***************************************************************************)
EXTENDS Integers

CONSTANT Clients

VARIABLES
    said,    \* bytes the client has sent
    heard,   \* bytes that have come back
    live     \* the client's end is open

contractVars == <<said, heard, live>>

ContractInit ==
    /\ said = [c \in Clients |-> 0]
    /\ heard = [c \in Clients |-> 0]
    /\ live = [c \in Clients |-> FALSE]

Open(c) ==
    /\ ~live[c] /\ said[c] = 0
    /\ live' = [live EXCEPT ![c] = TRUE]
    /\ UNCHANGED <<said, heard>>

Say(c) ==
    /\ live[c]
    /\ said'[c] \in Nat /\ said[c] < said'[c]
    /\ said' = [said EXCEPT ![c] = said'[c]]
    /\ UNCHANGED <<heard, live>>

Hear(c) ==
    /\ live[c]
    /\ \E n \in (heard[c] + 1)..said[c] : heard' = [heard EXCEPT ![c] = n]
    /\ UNCHANGED <<said, live>>

Leave(c) ==
    /\ live' = [live EXCEPT ![c] = FALSE]
    /\ UNCHANGED <<said, heard>>

ContractNext == \E c \in Clients : Open(c) \/ Say(c) \/ Hear(c) \/ Leave(c)

ContractSpec == ContractInit /\ [][ContractNext]_contractVars

=============================================================================
