---------------------------- MODULE MCChatServer ----------------------------
(***************************************************************************)
(* Instances of the chat server for TLC.                                   *)
(***************************************************************************)
EXTENDS ChatProperties, TLC

\* Every client asks for a nickname of its own, named like the client.
OwnNick == [c \in Clients |-> {c}]
SameNick == [c \in Clients |-> c]

Symmetric == Permutations(Clients) \cup Permutations(Objects \ {LobbyRoom})

View == <<rooms, Live, registry, CurrentRoom, pc, locals, victim>>

=============================================================================
