----------------------------- MODULE MCGameScreen -----------------------------
(***************************************************************************)
(* Instances of the game with its packets and clients for TLC.             *)
(***************************************************************************)
EXTENDS GameScreen, ChatProperties, TLC

\* Every client asks for a nickname of its own, named like the client.
OwnNick == [c \in Clients |-> {c}]
SameNick == [c \in Clients |-> c]

Symmetric == Permutations(Clients) \cup Permutations(Objects \ {LobbyRoom})

\* The pieces a game or a MOVE under way can still look at, and the screens
\* the next GAME_START does not set up anew: the rest is noise.
InGame(c) == \E o \in Objects :
    Playing(heap[o]) /\ c \in {heap[o].Player1, heap[o].Player2}

Moving == \E c \in Clients : pc[c] \in {"playState", "playTurn", "playOpponent"}

LivePos == [c \in Clients |-> IF InGame(c) \/ Moving THEN pos[c] ELSE Origin]

LiveScreen ==
    [c \in Clients |->
       IF InGame(c) THEN <<screen[c], c \in misled>> ELSE << >>]

View ==
    <<rooms, Live, registry, CurrentRoom, pc, locals, victim,
      LivePos, outbox, wire, LiveScreen, won>>

=============================================================================
