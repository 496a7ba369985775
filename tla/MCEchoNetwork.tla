----------------------------- MODULE MCEchoNetwork -----------------------------
(***************************************************************************)
(* Instances of the echo network for TLC: Talker sends up to TalkerSays    *)
(* bytes, in one line or byte by byte; the other clients send up to        *)
(* OtherSays.                                                              *)
(***************************************************************************)
EXTENDS EchoNetwork

CONSTANTS A, B, Talker, TalkerSays, OtherSays

Lines == [c \in Clients |-> IF c = Talker THEN {1, TalkerSays} ELSE 1..OtherSays]
SentBound == [c \in Clients |-> IF c = Talker THEN TalkerSays ELSE OtherSays]

=============================================================================
