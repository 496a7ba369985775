------------------------------ MODULE GameScreen ------------------------------
(***************************************************************************)
(* The game packets the server broadcasts and what the console client of   *)
(* livechat-server/step1~9/Program.cs makes of them.                       *)
(*                                                                         *)
(* A broadcast takes a snapshot of the room's members after the lock block *)
(* it reports was left, then awaits one EnqueuePacketAsync after the       *)
(* other; the task goes on with its handler when all are done.  The        *)
(* server's StreamWriter and the connection are one queue per client.      *)
(* Packets that are only printed (SYSTEM, CHAT, ERROR, lists) are left     *)
(* out, and so are PING and PONG.                                          *)
(***************************************************************************)
EXTENDS BoardGame, Sequences

CONSTANT WireLimit  \* bound: packets on the way to one client

ASSUME WireAssumption == WireLimit \in Nat \ {0}

VARIABLES
    outbox,  \* the broadcast each task is in: room not read yet, or receivers
    wire,    \* packets on the way to each client
    screen,  \* _isPlaying, _myPosX/Y and _oppPosX/Y of each client
    misled,  \* history: who was last told of a game that is not theirs
    won      \* history: the rooms whose running game has been won

screenVars == <<boardVars, outbox, wire, screen, misled, won>>

NoCell == <<-1, -1>>

Screen == [isPlaying: BOOLEAN, my: Cells \cup {NoCell}, opp: Cells \cup {NoCell}]

Silent == [room |-> NoObject, to |-> {}, packet |-> <<"none">>]

ScreenInit ==
    /\ BoardInit
    /\ outbox = [t \in Tasks |-> Silent]
    /\ wire = [c \in Clients |-> << >>]
    /\ screen = [c \in Clients |->
                   [isPlaying |-> FALSE, my |-> NoCell, opp |-> NoCell]]
    /\ misled = {}
    /\ won = {}

-----------------------------------------------------------------------------
(* What a step of the server says, and to which room.                       *)

Message(o, packet) == [room |-> o, to |-> {}, packet |-> packet]

GameStart(r) == <<"GAME_START", r.Player1, r.Player2>>
PlayerMove(c, cell) == <<"PLAYER_MOVE", c, cell>>
GameOver(c) == <<"GAME_OVER", c>>
GameStopped == <<"GAME_STOPPED">>

\* wasPlaying, in a room that still has members.
StopsGame(r, c) ==
    r.State = "PLAYING" /\ ~IsEmptied(r, c) /\ ~RemovalThrows(r, c)

Said(t) ==
    CASE /\ pc[t] \in {"moveLeave", "removeLeave"}
         /\ StopsGame(heap[oldRoom[t]], Subject(t))
           -> Message(oldRoom[t], GameStopped)
      [] pc[t] = "startAnnounce" /\ BothSeated(heap[oldRoom[t]])
           -> Message(oldRoom[t], GameStart(heap[oldRoom[t]]))
      [] /\ pc[t] = "moveCheck" /\ pc'[t] = "idle"
         /\ heap[newRoom[t]].State = "PLAYING"
           -> Message(newRoom[t], GameStart(heap[newRoom[t]]))
      [] pc[t] = "playOpponent" /\ pc'[t] = "playSwitch"
           -> Message(CurrentRoom[t], PlayerMove(t, pos'[t]))
      [] pc[t] = "playOpponent" /\ pc'[t] = "idle" /\ pos'[t] # pos[t]
           -> Message(CurrentRoom[t], GameOver(t))
      [] OTHER -> Silent

\* A room a broadcast has yet to read is not reclaimed.
RoomsKept ==
    \A t \in Tasks :
        LET o == outbox[t].room IN
        o # NoObject /\ Unreferenced(o) => heap'[o] = heap[o]

\* A game is won when its GAME_OVER is said; the room stays PLAYING until a
\* player leaves it.
Winning(t) == IF Said(t).packet[1] = "GAME_OVER" THEN {Said(t).room} ELSE {}

Says(t) ==
    /\ outbox[t] = Silent
    /\ outbox' = [outbox EXCEPT ![t] = Said(t)]
    /\ RoomsKept
    /\ won' = {o \in Objects :
                 o \in won \cup Winning(t) /\ heap'[o].State = "PLAYING"}
    /\ UNCHANGED <<wire, screen, misled>>

-----------------------------------------------------------------------------
(* BroadcastAsync.                                                          *)

\* GetClientsSnapshot.
TakeSnapshot(t) ==
    LET o == outbox[t].room IN
    /\ o # NoObject
    /\ outbox' = [outbox EXCEPT ![t] =
                    IF heap[o].clients = {} THEN Silent
                    ELSE [outbox[t] EXCEPT !.room = NoObject,
                                          !.to = heap[o].clients]]
    /\ UNCHANGED <<boardVars, wire, screen, misled, won>>

\* The queue of a session that is closed takes nothing (the exception is
\* swallowed).
EnqueuePacket(t, c) ==
    LET out == outbox[t] IN
    /\ c \in out.to
    /\ \/ /\ pc[c] # "closed"
          /\ Len(wire[c]) < WireLimit
          /\ wire' = [wire EXCEPT ![c] = Append(@, out.packet)]
       \/ pc[c] = "closed" /\ UNCHANGED wire
    /\ outbox' = [outbox EXCEPT ![t] =
                    IF out.to = {c} THEN Silent ELSE [out EXCEPT !.to = @ \ {c}]]
    /\ UNCHANGED <<boardVars, screen, misled, won>>

-----------------------------------------------------------------------------
(* HandleServerPacket.                                                      *)

StartedScreen(c, p) ==
    IF c = p[2] THEN [isPlaying |-> TRUE, my |-> Origin, opp |-> FarCorner]
    ELSE [isPlaying |-> TRUE, my |-> FarCorner, opp |-> Origin]

MovedScreen(s, c, p) ==
    IF c = p[2] THEN [s EXCEPT !.my = p[3]] ELSE [s EXCEPT !.opp = p[3]]

\* Mutant: the end of a game leaves the board on the screen.
EndedScreenStays(s) == s

EndedScreen(s) == [s EXCEPT !.isPlaying = FALSE]

Playing(r) == r.State = "PLAYING"

Players(r) == {r.Player1, r.Player2}

\* The packet tells c of the game it plays.
Timely(c, p) ==
    \E o \in Objects :
        LET r == heap[o] IN
        /\ Playing(r) /\ c \in Players(r)
        /\ \/ p = GameStart(r)
           \/ p[1] = "PLAYER_MOVE" /\ p[2] \in Players(r)
           \/ p[1] = "GAME_OVER" /\ p[2] \in Players(r) /\ o \in won

\* Any other packet misleads c until the GAME_START of its own game is shown.
MisledBy(c, p) ==
    CASE ~Timely(c, p) -> misled \cup {c}
      [] Timely(c, p) /\ p[1] = "GAME_START" -> misled \ {c}
      [] OTHER -> misled

HandleServerPacket(c) ==
    /\ wire[c] # << >>
    /\ LET p == Head(wire[c]) IN
       screen' = [screen EXCEPT ![c] =
                    CASE p[1] = "GAME_START" -> StartedScreen(c, p)
                      [] p[1] = "PLAYER_MOVE" -> MovedScreen(@, c, p)
                      [] p[1] \in {"GAME_OVER", "GAME_STOPPED"} -> EndedScreen(@)]
    /\ misled' = MisledBy(c, Head(wire[c]))
    /\ wire' = [wire EXCEPT ![c] = Tail(@)]
    /\ UNCHANGED <<boardVars, outbox, won>>

-----------------------------------------------------------------------------
ScreenNext ==
    \/ \E t \in Tasks : BoardTask(t) /\ Says(t)
    \/ \E t \in Tasks : TakeSnapshot(t)
    \/ \E t \in Tasks, c \in Clients : EnqueuePacket(t, c)
    \/ \E c \in Clients : HandleServerPacket(c)
    \/ BoardEnded /\ UNCHANGED <<outbox, wire, screen, misled, won>>

ScreenSpec == ScreenInit /\ [][ScreenNext]_screenVars

-----------------------------------------------------------------------------
(* Properties.                                                              *)

\* Every variable keeps its type.
ScreenTypeOK ==
    /\ pos \in [Clients -> Cells]
    /\ \A c \in Clients : Len(wire[c]) <= WireLimit /\ screen[c] \in Screen
    /\ \A t \in Tasks : outbox[t].room = NoObject \/ outbox[t].to = {}
    /\ won \subseteq {o \in Objects : Playing(heap[o])}

\* MOVE tests the turn before it awaits and moves the piece afterwards; still
\* a piece in a running game moves only one step, and only on its owner's
\* turn (ClientSession.cs:267-307), unless a START puts it on its corner.
PiecesMoveInTurn ==
    [][\A c \in Clients :
         pos'[c] # pos[c] =>
            \/ \E d \in Clients : StartsGame(d)
            \/ /\ Near(pos[c], pos'[c])
               /\ \A o \in Objects :
                    heap[o].State = "PLAYING" /\ c \in heap[o].clients
                       => heap[o].CurrentTurn = c]_boardVars

\* Nothing more is on the way to c, and no handler of a player of the room is
\* under way.
Settled(c, r) ==
    /\ wire[c] = << >>
    /\ \A t \in Tasks : outbox[t] = Silent
    /\ \A d \in Players(r) : pc[d] = "idle"

\* c's opponent in the running game in room object o.
Opposes(c, d, r) == {c, d} = Players(r) /\ c # d

\* When everything has arrived, a player of a running game sees the board
\* unless the game has been won, and the pieces where the server has them
\* (Program.cs: GAME_START, PLAYER_MOVE, GAME_OVER, GAME_STOPPED).  GAME_OVER
\* takes the board away for good, although the server lets a won game go on,
\* and does not tell the last position: positions are compared when the pieces
\* are apart.  A player that was misled is excepted: with a third client, any
\* packet of a game the player has left may reach it after the GAME_START of
\* its next one.
BoardsAgree ==
    \A o \in Objects, c, d \in Clients :
        LET r == heap[o] IN
        /\ Playing(r) /\ Opposes(c, d, r) /\ Settled(c, r)
        /\ c \notin misled
        => /\ screen[c].isPlaying = (o \notin won)
           /\ pos[c] # pos[d] => screen[c].my = pos[c] /\ screen[c].opp = pos[d]

=============================================================================
