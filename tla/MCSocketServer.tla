---------------------------- MODULE MCSocketServer ----------------------------
(***************************************************************************)
(* Instances of the socket game server for TLC: the first speaker sends    *)
(* two packets to relay and the second one, Beating clients one other.     *)
(***************************************************************************)
EXTENDS SocketServer, FiniteSets

CONSTANTS A, B, C, First, Second, Beating

SaidBound ==
    [c \in Clients |-> IF c = First THEN 2 ELSE IF c = Second THEN 1 ELSE 0]
QuietBound == [c \in Clients |-> IF c \in Beating THEN 1 ELSE 0]

=============================================================================
