---------------------------- MODULE RoomContract ----------------------------
(***************************************************************************)
(* What the chat server promises of its rooms, without rooms as objects,   *)
(* locks or tasks: a client is in the Lobby, in one seat of one game room, *)
(* or nowhere, and changes place in one step; a room without host takes a  *)
(* newcomer as host, one without guest as guest, and a guest inherits the  *)
(* host's seat; a game is played by two seated clients and ends when one   *)
(* of them leaves.                                                         *)
(***************************************************************************)
EXTENDS Naturals

CONSTANTS Clients, NoClient, GameNames, Lobby

VARIABLES
    lobby,   \* the clients in the Lobby
    host,    \* the client in the first seat of each game room, or NoClient
    guest,   \* the client in the second seat
    ready,   \* the guest has declared itself ready
    turn     \* whose move it is, NoClient when no game is played

vars == <<lobby, host, guest, ready, turn>>

Init ==
    /\ lobby = {}
    /\ host = [n \in GameNames |-> NoClient]
    /\ guest = [n \in GameNames |-> NoClient]
    /\ ready = [n \in GameNames |-> FALSE]
    /\ turn = [n \in GameNames |-> NoClient]

Sits(c, n) == c \in {host[n], guest[n]}

Full(n) == host[n] # NoClient /\ guest[n] # NoClient

\* c leaves the place it has and takes one in the places given: none, or one.
Relocate(c, places) ==
    /\ lobby' = IF Lobby \in places THEN lobby \cup {c} ELSE lobby \ {c}
    /\ host' = [m \in GameNames |->
          IF m \in places THEN IF host[m] = NoClient THEN c ELSE host[m]
          ELSE IF host[m] = c THEN guest[m] ELSE host[m]]
    /\ guest' = [m \in GameNames |->
          IF m \in places THEN IF host[m] = NoClient THEN guest[m] ELSE c
          ELSE IF Sits(c, m) THEN NoClient ELSE guest[m]]
    /\ ready' = [m \in GameNames |-> ready[m] /\ ~Sits(c, m)]
    /\ turn' = [m \in GameNames |-> IF Sits(c, m) THEN NoClient ELSE turn[m]]

Enter(c, n) ==
    /\ n \in GameNames => guest[n] = NoClient /\ ~Sits(c, n)
    /\ Relocate(c, {n})

Depart(c) == Relocate(c, {})

Toggle(n) ==
    /\ turn[n] = NoClient /\ Full(n)
    /\ ready' = [ready EXCEPT ![n] = ~ @]
    /\ UNCHANGED <<lobby, host, guest, turn>>

Begin(n) ==
    /\ turn[n] = NoClient /\ Full(n) /\ ready[n]
    /\ turn' = [turn EXCEPT ![n] = host[n]]
    /\ UNCHANGED <<lobby, host, guest, ready>>

PassTurn(n) ==
    /\ turn[n] # NoClient
    /\ \E c \in Clients \ {turn[n]} :
          Sits(c, n) /\ turn' = [turn EXCEPT ![n] = c]
    /\ UNCHANGED <<lobby, host, guest, ready>>

Next ==
    \/ \E c \in Clients :
          Depart(c) \/ \E n \in GameNames \cup {Lobby} : Enter(c, n)
    \/ \E n \in GameNames : Toggle(n) \/ Begin(n) \/ PassTurn(n)

Spec == Init /\ [][Next]_vars

=============================================================================
