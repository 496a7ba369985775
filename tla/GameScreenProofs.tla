--------------------------- MODULE GameScreenProofs ---------------------------
(***************************************************************************)
(* The board and the broadcasts only add to the chat server: whatever is   *)
(* proved of ChatServer holds of a server that plays games.                *)
(***************************************************************************)
EXTENDS GameScreen, MembershipProofs

\* Every step of a session with its board is a step of ChatServer.
LEMMA TaskSteps ==
    ASSUME NEW t \in Tasks, BoardTask(t)
    PROVE  Next /\ TaskStep(t)
<1>1. CASE t \in Clients
    <2>1. StartBoard(t) => Handler(t)
        BY DEF StartBoard, Handler, BoardHandler
    <2>2. ASSUME NEW cell \in Cells, MovePiece(t, cell) PROVE Handler(t)
        <3>1. \E passes \in BOOLEAN : PlayLegal(t, passes)
            BY <2>2 DEF MovePiece, Wins
        <3> QED BY <3>1 DEF Handler, BoardHandler, PlayOpponent
    <2>3. OffBoard(t) => SessionStep(t)
        BY DEF OffBoard, SessionStep, Handler, BoardHandler, PlayOpponent
    <2> QED
        BY <1>1, <2>1, <2>2, <2>3 DEF BoardTask, BoardSession, SessionStep, Next, TaskStep
<1>2. CASE t \notin Clients
    BY <1>2 DEF BoardTask, Tasks, Next, TaskStep
<1> QED BY <1>1, <1>2

\* The board refines the chat server: MOVE's rules and the winning test only
\* decide what ChatServer leaves open (ClientSession.cs:279-325).
THEOREM BoardRefines == BoardSpec => Spec
<1>1. BoardInit => Init
    BY DEF BoardInit
<1>2. [BoardNext]_boardVars => [Next]_vars
    <2>1. BoardEnded => Next
        BY DEF BoardEnded, Next
    <2>2. UNCHANGED boardVars => UNCHANGED vars
        BY DEF boardVars
    <2> QED BY <2>1, <2>2, TaskSteps DEF BoardNext
<1> QED BY <1>1, <1>2, PTL DEF BoardSpec, Spec

\* The broadcasts and the clients only add to the board: delivering packets
\* changes no room, list, nickname or piece (GameRoom.cs:147-162).
THEOREM ScreenRefinesBoard == ScreenSpec => BoardSpec
<1>1. ScreenInit => BoardInit
    BY DEF ScreenInit
<1>2. [ScreenNext]_screenVars => [BoardNext]_boardVars
    BY DEF ScreenNext, BoardNext, TakeSnapshot, EnqueuePacket, HandleServerPacket,
           screenVars
<1> QED BY <1>1, <1>2, PTL DEF ScreenSpec, BoardSpec

\* So the server with its broadcasts and clients is a chat server too.
THEOREM ScreenRefines == ScreenSpec => Spec
BY ScreenRefinesBoard, BoardRefines

\* While games are played, broadcast and shown, every room object stays sound.
THEOREM ScreenRoomsSound == ScreenSpec => []RoomsSound
BY ScreenRefines, RoomsInvariant, PTL
-----------------------------------------------------------------------------
(* The pieces.                                                              *)

\* A legal move is made by a player whose turn it is, if a game is running.
LEMMA MoverHasTurn ==
    ASSUME TypeOK, TurnInv, StrayInv, NEW c \in Clients, pc[c] = "playOpponent",
           NEW o \in Objects, heap[o].State = "PLAYING", c \in heap[o].clients
    PROVE  heap[o].CurrentTurn = c
<1>1. StaysIn(c, o)
    BY DEF StrayInv, NoStranger
<1>2. o = CurrentRoom[c]
    BY <1>1 DEF StaysIn, Withdrawing, Removes, Removed
<1> QED BY <1>2 DEF TurnInv, HoldsTurn, TurnIsHeld, MidMove

\* A piece moves one step, and in a running game only on its owner's turn,
\* unless a START puts it on its corner: between the test of the turn and the
\* step nobody else can get the turn (ClientSession.cs:267-307).  This too
\* holds when players leave and join the room they are in.
THEOREM PiecesTheorem ==
    ASSUME Unevicted
    PROVE  BoardSpec => PiecesMoveInTurn
<1>1. ASSUME TypeOK, TurnInv, StrayInv, [BoardNext]_boardVars,
             NEW c \in Clients, pos'[c] # pos[c]
      PROVE  \/ \E d \in Clients : StartsGame(d)
             \/ /\ Near(pos[c], pos'[c])
                /\ \A o \in Objects :
                     heap[o].State = "PLAYING" /\ c \in heap[o].clients
                        => heap[o].CurrentTurn = c
    <2>1. PICK t \in Clients : BoardSession(t)
        BY <1>1 DEF BoardNext, BoardTask, BoardEnded, boardVars
    <2>2. CASE StartBoard(t)
        BY <1>1, <2>2 DEF StartBoard
    <2>3. ASSUME NEW cell \in Cells, MovePiece(t, cell)
          PROVE  /\ Near(pos[c], pos'[c])
                 /\ \A o \in Objects :
                      heap[o].State = "PLAYING" /\ c \in heap[o].clients
                         => heap[o].CurrentTurn = c
        <3>1. /\ pc[t] = "playOpponent" /\ Near(pos[t], cell)
              /\ pos' = [pos EXCEPT ![t] = cell]
            BY <2>3 DEF MovePiece
        <3>2. c = t /\ pos'[c] = cell
            BY <1>1, <3>1
        <3> QED BY <1>1, <3>1, <3>2, MoverHasTurn
    <2> QED BY <1>1, <2>1, <2>2, <2>3 DEF BoardSession
<1>2. TypeOK /\ TurnInv /\ StrayInv /\ [BoardNext]_boardVars
      => [\A c \in Clients :
            pos'[c] # pos[c] =>
               \/ \E d \in Clients : StartsGame(d)
               \/ /\ Near(pos[c], pos'[c])
                  /\ \A o \in Objects :
                       heap[o].State = "PLAYING" /\ c \in heap[o].clients
                          => heap[o].CurrentTurn = c]_boardVars
    BY <1>1
<1> QED
    BY <1>2, BoardRefines, TurnAlways, StrayAlways, PTL DEF BoardSpec, PiecesMoveInTurn

\* What the run "board" checks of the server, with broadcasts and clients
\* and for any number of both: turns and pieces as above.
THEOREM ScreenPlaysInTurn ==
    ASSUME Unevicted
    PROVE  ScreenSpec => TurnPassedByHolder /\ PiecesMoveInTurn
<1>1. ScreenSpec => TurnPassedByHolder
    BY ScreenRefines, TurnTheorem
<1>2. ScreenSpec => PiecesMoveInTurn
    BY ScreenRefinesBoard, PiecesTheorem
<1> QED BY <1>1, <1>2

\* The server with its broadcasts and clients fails on no other empty slot or
\* missing room than the chat server does.
THEOREM ScreenThrowsLateOnly ==
    ASSUME Undisturbed
    PROVE  ScreenSpec => OnlyLateStartThrows
BY ScreenRefines, LateStartTheorem

-----------------------------------------------------------------------------
(* Types of what is said, on the way and shown.                             *)

Packets ==
    {<<"GAME_START", a, b>> : a \in Clients \cup {NoClient}, b \in Clients \cup {NoClient}}
    \cup {<<"PLAYER_MOVE", c, cell>> : c \in Clients, cell \in Cells}
    \cup {<<"GAME_OVER", c>> : c \in Clients}
    \cup {GameStopped}

Broadcast ==
    [room: Objects \cup {NoObject}, to: SUBSET Clients, packet: Packets \cup {<<"none">>}]

\* The room is read before the receivers are known; nothing is said silently.
WellFormed(out) ==
    /\ out.room = NoObject \/ out.to = {}
    /\ out.packet = <<"none">> => out = Silent

TrafficOK ==
    /\ pos \in [Clients -> Cells]
    /\ outbox \in [Tasks -> Broadcast]
    /\ \A t \in Tasks : WellFormed(outbox[t])
    /\ wire \in [Clients -> Seq(Packets)]
    /\ \A c \in Clients : Len(wire[c]) <= WireLimit
    /\ screen \in [Clients -> Screen]
    /\ misled \subseteq Clients
    /\ won \subseteq {o \in Objects : Playing(heap[o])}

\* The objects a task speaks to are there.
RefersRight(c) ==
    /\ pc[c] = "startAnnounce" => oldRoom[c] \in Objects
    /\ pc[c] \in Entering \cup {"moveCheck"} => newRoom[c] \in Objects

LEMMA RefersOwn ==
    ASSUME TypeOK, NEW c \in Clients, TaskStep(c), RefersRight(c)
    PROVE  RefersRight(c)'
<1> USE DEF RefersRight, Goto, Leave, TypeOK, ControlOK, Tasks, Entering, locals
<1>1. ASSUME Input(c) PROVE RefersRight(c)'
    BY <1>1
    DEF Input, Accept, Disconnect, Quit, Login, JoinRoom, BeginMove, Ready,
        Start, Chat, Move, CallsRoom
<1>2. ASSUME Removal(c) PROVE RefersRight(c)'
    BY <1>2 DEF Removal, RemoveLeave, RemoveUnlist, RemoveClear, RemoveReturns
<1>3. CASE MoveLookup(c)
    BY <1>3 DEF MoveLookup
<1>4. CASE MoveAdd(c) \/ MoveLeave(c) \/ MoveUnlist(c)
    BY <1>4 DEF MoveAdd, Added, MoveLeave, MoveUnlist
<1>5. CASE MoveEnter(c) \/ MoveCheck(c)
    BY <1>5 DEF MoveEnter, MoveCheck
<1>6. CASE HandleStart(c)
    BY <1>6 DEF HandleStart, ThrowsNull, RoomIsGone
<1>7. CASE HandleReady(c) \/ StartAnnounce(c) \/ ChatSend(c)
    BY <1>7 DEF HandleReady, StartAnnounce, ChatSend, ThrowsNull
<1>8. CASE PlayState(c) \/ PlayTurn(c) \/ PlayOpponent(c) \/ PlaySwitch(c)
    BY <1>8
    DEF PlayState, PlayTurn, PlayOpponent, PlayRefused, PlayLegal, PlaySwitch,
        PlayStep, ThrowsNull
<1>9. CASE CleanUp(c) \/ RemoveSession(c) \/ UnregisterNickName(c)
    BY <1>9 DEF CleanUp, BeginRemove, RemoveSession, UnregisterNickName
<1> QED
    BY <1>1, <1>2, <1>3, <1>4, <1>5, <1>6, <1>7, <1>8, <1>9
    DEF TaskStep, SessionStep, Handler, BoardHandler, RoomHandler

LEMMA RefersInvariance ==
    ASSUME TypeOK, NEW t \in Tasks, TaskStep(t), NEW c \in Clients, RefersRight(c)
    PROVE  RefersRight(c)'
<1>1. CASE c = t
    BY <1>1, RefersOwn
<1>2. CASE c # t
    <2>1. pc'[c] = pc[c] /\ oldRoom'[c] = oldRoom[c] /\ newRoom'[c] = newRoom[c]
        BY <1>2, TaskFrame DEF Frame, Tasks
    <2> QED BY <2>1 DEF RefersRight
<1> QED BY <1>1, <1>2

\* What a step of a task does to its piece.
LEMMA PieceSteps ==
    ASSUME TypeOK, NEW t \in Tasks, BoardTask(t)
    PROVE  \/ UNCHANGED pos
           \/ t \in Clients /\ StartsGame(t) /\ HandleStart(t)
              /\ pos' = Deployed(heap[CurrentRoom[t]])
           \/ t \in Clients /\ \E cell \in Cells : MovePiece(t, cell)
BY DEF BoardTask, BoardSession, StartBoard

LEMMA CellFacts == Origin \in Cells /\ FarCorner \in Cells /\ Origin # FarCorner
BY BoardAssumption DEF Origin, FarCorner, Cells

LEMMA PosType ==
    ASSUME TypeOK, pos \in [Clients -> Cells], NEW t \in Tasks, BoardTask(t)
    PROVE  pos' \in [Clients -> Cells]
<1>1. ASSUME NEW cell \in Cells, MovePiece(t, cell)
      PROVE  pos' \in [Clients -> Cells]
    BY <1>1 DEF MovePiece
<1>2. ASSUME pos' = Deployed(heap[CurrentRoom[t]])
      PROVE  pos' \in [Clients -> Cells]
    BY <1>2, CellFacts DEF Deployed
<1> QED BY <1>1, <1>2, PieceSteps

\* What a handler says is a packet, to a room it refers to.
LEMMA SaidType ==
    ASSUME TypeOK, TypeOK', pos \in [Clients -> Cells], pos' \in [Clients -> Cells],
           NEW t \in Tasks, BoardTask(t), t \in Clients => RefersRight(t)
    PROVE  Said(t) \in Broadcast /\ WellFormed(Said(t))
<1>1. t \notin Clients => pc[t] \in EvictorPC
    BY DEF TypeOK, ControlOK, Tasks
<1>2. Silent \in Broadcast /\ WellFormed(Silent)
    BY DEF Silent, Broadcast, WellFormed
<1>3. ASSUME NEW o \in Objects \cup {NoObject}, NEW p \in Packets
      PROVE  Message(o, p) \in Broadcast /\ WellFormed(Message(o, p))
    <2>1. p # <<"none">>
        BY DEF Packets, GameStopped
    <2> QED BY <2>1 DEF Message, Broadcast, WellFormed
<1>4. ASSUME NEW o \in Objects PROVE GameStart(heap[o]) \in Packets
    BY DEF GameStart, Packets, TypeOK, Room
<1>5. CASE pc[t] \in {"moveLeave", "removeLeave"} /\ StopsGame(heap[oldRoom[t]], Subject(t))
    <2>1. Said(t) = Message(oldRoom[t], GameStopped)
        BY <1>5 DEF Said
    <2>2. GameStopped \in Packets /\ oldRoom[t] \in Objects \cup {NoObject}
        BY DEF Packets, TypeOK
    <2> QED BY <1>3, <2>1, <2>2
<1>6. CASE pc[t] = "startAnnounce" /\ BothSeated(heap[oldRoom[t]])
    <2>1. Said(t) = Message(oldRoom[t], GameStart(heap[oldRoom[t]]))
        BY <1>6 DEF Said
    <2>2. oldRoom[t] \in Objects
        BY <1>1, <1>6 DEF RefersRight, EvictorPC
    <2> QED BY <1>3, <1>4, <2>1, <2>2
<1>7. CASE /\ pc[t] = "moveCheck" /\ pc'[t] = "idle"
           /\ heap[newRoom[t]].State = "PLAYING"
    <2>1. Said(t) = Message(newRoom[t], GameStart(heap[newRoom[t]]))
        BY <1>7 DEF Said
    <2>2. newRoom[t] \in Objects
        BY <1>1, <1>7 DEF RefersRight, EvictorPC
    <2> QED BY <1>3, <1>4, <2>1, <2>2
<1>8. CASE pc[t] = "playOpponent"
    <2>1. t \in Clients /\ CurrentRoom[t] \in Objects \cup {NoObject}
        BY <1>1, <1>8 DEF EvictorPC, TypeOK
    <2>2. PlayerMove(t, pos'[t]) \in Packets /\ GameOver(t) \in Packets
        BY <2>1 DEF PlayerMove, GameOver, Packets
    <2>3. Said(t) \in {Message(CurrentRoom[t], PlayerMove(t, pos'[t])),
                      Message(CurrentRoom[t], GameOver(t)), Silent}
        BY <1>8 DEF Said
    <2> QED BY <1>2, <1>3, <2>1, <2>2, <2>3
<1> QED
    <2>1. CASE ~ \/ pc[t] \in {"moveLeave", "removeLeave"} /\ StopsGame(heap[oldRoom[t]], Subject(t))
                 \/ pc[t] = "startAnnounce" /\ BothSeated(heap[oldRoom[t]])
                 \/ /\ pc[t] = "moveCheck" /\ pc'[t] = "idle"
                    /\ heap[newRoom[t]].State = "PLAYING"
                 \/ pc[t] = "playOpponent"
        BY <1>2, <2>1 DEF Said
    <2> QED BY <1>5, <1>6, <1>7, <1>8, <2>1

LEMMA PacketKinds ==
    ASSUME NEW p \in Packets
    PROVE  \/ p[1] = "GAME_START"
           \/ p[1] = "PLAYER_MOVE" /\ p[3] \in Cells
           \/ p[1] \in {"GAME_OVER", "GAME_STOPPED"}
<1>1. p = GameStopped => p[1] = "GAME_STOPPED"
    BY DEF GameStopped
<1>2. CASE p \in {<<"GAME_START", a, b>> : a \in Clients \cup {NoClient}, b \in Clients \cup {NoClient}}
    <2>1. PICK a, b \in Clients \cup {NoClient} : p = <<"GAME_START", a, b>>
        BY <1>2
    <2>2. p[1] = "GAME_START"
        BY <2>1
    <2> QED BY <2>2
<1>3. CASE p \in {<<"PLAYER_MOVE", c, cell>> : c \in Clients, cell \in Cells}
    <2>1. PICK c \in Clients, cell \in Cells : p = <<"PLAYER_MOVE", c, cell>>
        BY <1>3
    <2>2. p[1] = "PLAYER_MOVE" /\ p[3] \in Cells
        BY <2>1
    <2> QED BY <2>2
<1>4. CASE p \in {<<"GAME_OVER", c>> : c \in Clients}
    <2>1. PICK c \in Clients : p = <<"GAME_OVER", c>>
        BY <1>4
    <2>2. p[1] = "GAME_OVER"
        BY <2>1
    <2> QED BY <2>2
<1> QED BY <1>1, <1>2, <1>3, <1>4 DEF Packets

\* What a client makes of a packet is a screen.
LEMMA HandleType ==
    ASSUME TrafficOK, NEW c \in Clients, HandleServerPacket(c)
    PROVE  screen' \in [Clients -> Screen] /\ misled' \subseteq Clients
<1> DEFINE p == Head(wire[c])
           s == screen[c]
<1>1. p \in Packets /\ s \in Screen
    BY DEF HandleServerPacket, TrafficOK
<1>2. \/ p[1] = "GAME_START"
      \/ p[1] = "PLAYER_MOVE" /\ p[3] \in Cells
      \/ p[1] \in {"GAME_OVER", "GAME_STOPPED"}
    BY <1>1, PacketKinds
<1>3. /\ StartedScreen(c, p) \in Screen /\ EndedScreen(s) \in Screen
      /\ p[3] \in Cells => MovedScreen(s, c, p) \in Screen
    BY <1>1, CellFacts DEF StartedScreen, EndedScreen, MovedScreen, Screen
<1>4. PICK shown : shown = CASE p[1] = "GAME_START" -> StartedScreen(c, p)
                   [] p[1] = "PLAYER_MOVE" -> MovedScreen(s, c, p)
                   [] p[1] \in {"GAME_OVER", "GAME_STOPPED"} -> EndedScreen(s)
    OBVIOUS
<1>5. shown \in Screen
    BY <1>2, <1>3, <1>4
<1>6. screen' = [screen EXCEPT ![c] = shown]
    BY <1>4 DEF HandleServerPacket
<1>7. misled' \in {misled, misled \cup {c}, misled \ {c}}
    BY DEF HandleServerPacket, MisledBy
<1> QED BY <1>5, <1>6, <1>7 DEF TrafficOK

LEMMA TrafficInvariance ==
    ASSUME TypeOK, TypeOK', TrafficOK, \A c \in Clients : RefersRight(c),
           [ScreenNext]_screenVars
    PROVE  TrafficOK'
<1>1. ASSUME UNCHANGED screenVars PROVE TrafficOK'
    <2>1. UNCHANGED <<heap, pos, outbox, wire, screen, misled, won>>
        BY <1>1 DEF screenVars, boardVars, vars
    <2> QED BY <2>1 DEF TrafficOK, WellFormed, Silent, Playing
<1>2. ASSUME NEW t \in Tasks, BoardTask(t), Says(t) PROVE TrafficOK'
    <2>1. pos' \in [Clients -> Cells]
        BY <1>2, PosType DEF TrafficOK
    <2>2. Said(t) \in Broadcast /\ WellFormed(Said(t))
        BY <1>2, <2>1, SaidType DEF TrafficOK
    <2>3. /\ outbox' = [outbox EXCEPT ![t] = Said(t)]
          /\ UNCHANGED <<wire, screen, misled>>
        BY <1>2 DEF Says
    <2>4. /\ outbox' \in [Tasks -> Broadcast]
          /\ \A u \in Tasks : WellFormed(outbox'[u])
        BY <2>2, <2>3 DEF TrafficOK
    <2>5. won' \subseteq {o \in Objects : heap'[o].State = "PLAYING"}
        BY <1>2 DEF Says
    <2> QED BY <2>1, <2>3, <2>4, <2>5 DEF TrafficOK, WellFormed, Silent, Playing
<1>3. ASSUME NEW t \in Tasks, TakeSnapshot(t) PROVE TrafficOK'
    <2>1. outbox[t].room \in Objects /\ outbox[t] \in Broadcast /\ WellFormed(outbox[t])
        BY <1>3 DEF TakeSnapshot, TrafficOK, Broadcast
    <2>2. heap[outbox[t].room].clients \subseteq Clients
        BY <2>1 DEF TypeOK, Room
    <2>3. PICK out : out = IF heap[outbox[t].room].clients = {} THEN Silent
                           ELSE [outbox[t] EXCEPT !.room = NoObject,
                                                 !.to = heap[outbox[t].room].clients]
        OBVIOUS
    <2>4. outbox[t].packet # <<"none">>
        BY <2>1, ChatAssumption DEF WellFormed, Silent
    <2>5. out \in Broadcast /\ WellFormed(out)
        BY <2>1, <2>2, <2>3, <2>4 DEF Broadcast, WellFormed, Silent
    <2>6. outbox' = [outbox EXCEPT ![t] = out]
        BY <1>3, <2>3 DEF TakeSnapshot
    <2>7. /\ outbox' \in [Tasks -> Broadcast]
          /\ \A u \in Tasks : WellFormed(outbox'[u])
        BY <2>5, <2>6 DEF TrafficOK
    <2>8. UNCHANGED <<heap, pos, wire, screen, misled, won>>
        BY <1>3 DEF TakeSnapshot, boardVars, vars
    <2> QED BY <2>7, <2>8 DEF TrafficOK, WellFormed, Silent, Playing
<1>4. ASSUME NEW t \in Tasks, NEW c \in Clients, EnqueuePacket(t, c) PROVE TrafficOK'
    <2>1. outbox[t] \in Broadcast /\ WellFormed(outbox[t]) /\ c \in outbox[t].to
        BY <1>4 DEF EnqueuePacket, TrafficOK
    <2>2. outbox[t].packet \in Packets /\ outbox[t].packet # <<"none">>
        BY <2>1 DEF WellFormed, Broadcast, Silent
    <2>3. PICK out : out = IF outbox[t].to = {c} THEN Silent
                           ELSE [outbox[t] EXCEPT !.to = @ \ {c}]
        OBVIOUS
    <2>4. out \in Broadcast /\ WellFormed(out)
        BY <2>1, <2>2, <2>3 DEF Broadcast, WellFormed, Silent
    <2>5. outbox' = [outbox EXCEPT ![t] = out]
        BY <1>4, <2>3 DEF EnqueuePacket
    <2>6. /\ outbox' \in [Tasks -> Broadcast]
          /\ \A u \in Tasks : WellFormed(outbox'[u])
        BY <2>4, <2>5 DEF TrafficOK
    <2>7. \/ UNCHANGED wire
          \/ /\ Len(wire[c]) < WireLimit
             /\ wire' = [wire EXCEPT ![c] = Append(wire[c], outbox[t].packet)]
        BY <1>4 DEF EnqueuePacket
    <2>8. wire' \in [Clients -> Seq(Packets)] /\ \A d \in Clients : Len(wire'[d]) <= WireLimit
        <3>1. PICK q : q = Append(wire[c], outbox[t].packet)
            OBVIOUS
        <3>2. q \in Seq(Packets) /\ Len(q) = Len(wire[c]) + 1 /\ Len(wire[c]) \in Nat
            BY <2>2, <3>1 DEF TrafficOK
        <3>3. Len(wire[c]) < WireLimit => Len(q) <= WireLimit
            BY <3>2, WireAssumption
        <3> QED BY <2>7, <3>1, <3>2, <3>3 DEF TrafficOK
    <2>9. UNCHANGED <<boardVars, screen, misled, won>>
        BY <1>4 DEF EnqueuePacket
    <2>10. UNCHANGED <<heap, pos>>
        BY <2>9 DEF boardVars, vars
    <2> QED BY <2>6, <2>8, <2>9, <2>10 DEF TrafficOK, WellFormed, Silent, Playing
<1>5. ASSUME NEW c \in Clients, HandleServerPacket(c) PROVE TrafficOK'
    <2>1. screen' \in [Clients -> Screen] /\ misled' \subseteq Clients
        BY <1>5, HandleType
    <2>2. /\ wire[c] # << >> /\ wire' = [wire EXCEPT ![c] = Tail(wire[c])]
          /\ UNCHANGED <<boardVars, outbox, won>>
        BY <1>5 DEF HandleServerPacket
    <2>3. Tail(wire[c]) \in Seq(Packets) /\ Len(Tail(wire[c])) <= WireLimit
        BY <2>2, WireAssumption DEF TrafficOK
    <2>4. wire' \in [Clients -> Seq(Packets)] /\ \A d \in Clients : Len(wire'[d]) <= WireLimit
        BY <2>2, <2>3 DEF TrafficOK
    <2>5. UNCHANGED <<heap, pos>>
        BY <2>2 DEF boardVars, vars
    <2> QED BY <2>1, <2>2, <2>4, <2>5 DEF TrafficOK, WellFormed, Silent, Playing
<1>6. CASE BoardEnded /\ UNCHANGED <<outbox, wire, screen, misled, won>>
    BY <1>1, <1>6 DEF BoardEnded, AllEnded, screenVars, boardVars
<1> QED BY <1>1, <1>2, <1>3, <1>4, <1>5, <1>6 DEF ScreenNext

LEMMA RefersAlways == BoardSpec => [](TypeOK /\ \A c \in Clients : RefersRight(c))
<1>1. BoardInit => \A c \in Clients : RefersRight(c)
    BY DEF BoardInit, Init, RefersRight, Entering, Tasks
<1>2. TypeOK /\ (\A c \in Clients : RefersRight(c)) /\ [BoardNext]_boardVars
      => (\A c \in Clients : RefersRight(c))'
    <2> SUFFICES ASSUME TypeOK, \A c \in Clients : RefersRight(c), [BoardNext]_boardVars,
                        NEW c \in Clients
                 PROVE  RefersRight(c)'
        OBVIOUS
    <2>1. ASSUME UNCHANGED vars PROVE RefersRight(c)'
        BY <2>1 DEF vars, locals, RefersRight
    <2>2. ASSUME NEW t \in Tasks, BoardTask(t) PROVE RefersRight(c)'
        BY <2>2, TaskSteps, RefersInvariance
    <2> QED BY <2>1, <2>2 DEF BoardNext, BoardEnded, AllEnded, boardVars
<1> QED BY <1>1, <1>2, BoardRefines, RoomsInvariant, PTL DEF BoardSpec

LEMMA TrafficAlways == ScreenSpec => [](TypeOK /\ TrafficOK)
<1>1. ScreenInit => TrafficOK
    BY CellFacts, WireAssumption
    DEF ScreenInit, BoardInit, TrafficOK, Broadcast, WellFormed, Silent, Screen, NoCell
<1>2. TypeOK /\ TypeOK' /\ TrafficOK /\ (\A c \in Clients : RefersRight(c))
      /\ [ScreenNext]_screenVars => TrafficOK'
    BY TrafficInvariance
<1> QED BY <1>1, <1>2, ScreenRefinesBoard, RefersAlways, PTL DEF ScreenSpec

\* Every piece stays on the board, every screen shows pieces on the board or
\* none, and no queue outgrows its limit (ClientSession.cs:279, Program.cs:186).
THEOREM ScreenTypes == ScreenSpec => []ScreenTypeOK
<1>1. TypeOK /\ TrafficOK => ScreenTypeOK
    BY DEF TrafficOK, ScreenTypeOK, WellFormed
<1> QED BY <1>1, TrafficAlways, PTL

-----------------------------------------------------------------------------
(* Who has said what of a running game, and what each player has still to   *)
(* see.                                                                     *)

\* The packets that tell of a running game: its board and its pieces.
Telling == {"GAME_START", "PLAYER_MOVE", "GAME_OVER"}

\* The broadcast a task is in tells of a running game.
Speaks(t) == outbox[t].packet[1] \in Telling

SpeaksForItself(t) == Speaks(t) => t \in Clients /\ outbox[t].packet[2] = t

DroppedOut(c) ==
    pc[c] \in {"drop", "unregister", "closed"} => CurrentRoom[c] = NoObject

AtCorners(r) == pos[r.Player1] = Origin /\ pos[r.Player2] = FarCorner
Apart(r) == pos[r.Player1] # pos[r.Player2]

\* Nobody moves before the host has announced the game.
AnnouncesRight(c) ==
    pc[c] = "startAnnounce" =>
      LET r == heap[CurrentRoom[c]] IN
      /\ r.Player1 = c /\ CurrentRoom[c] \notin won
      /\ Playing(r) => r.CurrentTurn = c /\ AtCorners(r)

\* Only a move that does not win passes the turn on.
MoveLeftApart(c) ==
    pc[c] = "playSwitch" /\ Playing(heap[CurrentRoom[c]]) => Apart(heap[CurrentRoom[c]])

\* A guest is ready only after all it had to say.
ReadySilent(o) ==
    ~Playing(heap[o]) /\ heap[o].IsPlayer2Ready => ~Speaks(heap[o].Player2)

\* What the player t of the running game in o is saying is how things are.
Truthful(o, t) ==
    LET r == heap[o] IN
    /\ r.CurrentTurn = t
    /\ outbox[t].room \in {o, NoObject}
    /\ \/ outbox[t].packet = GameStart(r) /\ AtCorners(r) /\ o \notin won
       \/ outbox[t].packet = PlayerMove(t, pos[t]) /\ Apart(r)
       \/ outbox[t].packet = GameOver(t) /\ o \in won

SpeaksRight(o) ==
    Playing(heap[o]) => \A t \in Players(heap[o]) : Speaks(t) => Truthful(o, t)

\* What the players are told of: each piece, by its client, and the board.
TheBoard == NoClient

Told(r) == Players(r) \cup {TheBoard}

\* The packet p tells where the piece of c is in the game in room r, or
\* whether its board is shown.
Places(p, r, c) ==
    \/ p = GameStart(r)
    \/ p[1] = "PLAYER_MOVE" /\ p[2] = c /\ c # TheBoard
    \/ p[1] = "GAME_OVER" /\ p[2] \in Players(r) /\ c = TheBoard

Place(p, r, c) ==
    CASE c = TheBoard -> IF p[1] = "GAME_START" THEN "shown" ELSE "hidden"
      [] c # TheBoard /\ p[1] = "PLAYER_MOVE" -> p[3]
      [] OTHER -> IF c = r.Player1 THEN Origin ELSE FarCorner

\* Where the piece is, and whether the board should be shown.
Fact(o, c) ==
    IF c = TheBoard THEN IF o \in won THEN "hidden" ELSE "shown" ELSE pos[c]

\* x is still to be sent a packet about c.
Pending(r, x, c) ==
    \/ pc[r.Player1] = "startAnnounce"
    \/ \E t \in Players(r) :
         /\ Speaks(t) /\ Places(outbox[t].packet, r, c)
         /\ outbox[t].room # NoObject \/ x \in outbox[t].to

Shows(x, c) ==
    IF c = TheBoard THEN IF screen[x].isPlaying THEN "shown" ELSE "hidden"
    ELSE IF x = c THEN screen[x].my ELSE screen[x].opp

\* The last such packet on the way to x tells the fact, or x has seen it.
LastSays(q, r, c, fact) ==
    \E i \in DOMAIN q :
        /\ Places(q[i], r, c) /\ Place(q[i], r, c) = fact
        /\ \A j \in DOMAIN q : Places(q[j], r, c) => j <= i

AlreadyShows(o, x, c) ==
    /\ \A i \in DOMAIN wire[x] : ~Places(wire[x][i], heap[o], c)
    /\ x \in misled \/ Shows(x, c) = Fact(o, c)

WillSee(o, x, c) ==
    LET r == heap[o] IN
    \/ Pending(r, x, c) \/ LastSays(wire[x], r, c, Fact(o, c)) \/ AlreadyShows(o, x, c)
    \/ c = r.CurrentTurn /\ ~Apart(r)

SightInv ==
    /\ \A t \in Tasks : SpeaksForItself(t)
    /\ \A c \in Clients : DroppedOut(c) /\ AnnouncesRight(c) /\ MoveLeftApart(c)
    /\ \A o \in Objects :
         /\ ReadySilent(o) /\ SpeaksRight(o)
         /\ Playing(heap[o]) =>
              \A x \in Players(heap[o]), c \in Told(heap[o]) : WillSee(o, x, c)

-----------------------------------------------------------------------------
(* What a step of a task does to a game.                                    *)

\* The two players of a running game.
LEMMA RunningGame ==
    ASSUME TypeOK, RoomsSound, SeatInv, NEW o \in Objects, Playing(heap[o])
    PROVE  LET r == heap[o] IN
           /\ r.Player1 \in Clients /\ r.Player2 \in Clients /\ r.Player1 # r.Player2
           /\ r.clients = Players(r) /\ r.CurrentTurn \in Players(r)
           /\ SettledIn(r.Player1, o) /\ SettledIn(r.Player2, o)
           /\ IsGameRoom(r)
<1>1. heap[o] \in Room /\ RoomSound(heap[o]) /\ SeatsRight(o)
    BY DEF TypeOK, RoomsSound, SeatInv
<1> QED BY <1>1
    DEF Playing, Players, Room, RoomSound, GameIsSeated, BothSeated, SeatsRight,
        SlotsApart, LobbyIsIdle

\* How a game comes to be running after a step: nothing happened to the room,
\* its host started the game, or its player passed the turn.
LEMMA GameSteps ==
    ASSUME Undisturbed, TypeOK, RoomsSound, PlaceInv, SeatInv,
           NEW t \in Tasks, TaskStep(t), NEW o \in Objects, heap'[o].State = "PLAYING"
    PROVE  \/ heap'[o] = heap[o]
           \/ t \in Clients /\ Begins(t, o)
           \/ t \in Clients /\ Playing(heap[o]) /\ Passes(t, o)
<1> SUFFICES ASSUME heap'[o] # heap[o]
             PROVE  \/ t \in Clients /\ Begins(t, o)
                    \/ t \in Clients /\ Playing(heap[o]) /\ Passes(t, o)
    OBVIOUS
<1>1. PICK c \in Clients : Changes(c, o) /\ (t \in Clients => c = t)
    BY TaskRoomStep DEF RoomStep
<1>2. heap[o] \in Room /\ RoomSound(heap[o])
    BY DEF TypeOK, RoomsSound
<1>3. ~Resets(o)
    <2>1. ASSUME NEW n \in RoomNames, heap'[o] = NewRoom(n) PROVE FALSE
        <3>1. heap'[o].State = "WAITING"
            BY <2>1 DEF NewRoom
        <3> QED BY <3>1
    <2> QED BY <2>1 DEF Resets
<1>4. ~Enters(c, o)
    <2> SUFFICES ASSUME Enters(c, o) PROVE FALSE
        OBVIOUS
    <2>1. heap[o].State = "PLAYING"
        BY <1>2 DEF Enters, WithClient, Room
    <2> QED BY <1>2, <2>1, MemberCount
        DEF Enters, RoomSound, HasSpace, GameIsSeated, LobbyIsIdle, MAX_PLAYERS
<1>5. ~Exits(c, o)
    BY <1>2 DEF Exits, WithoutClient, WithoutClientBut, Room
<1>6. ~Toggles(c, o)
    BY <1>2 DEF Toggles, ReadyToggled, Room
<1>7. CASE Begins(c, o)
    BY <1>1, <1>7, InsideAlone DEF PlaceInv, Undisturbed, Begins, Inside
<1>8. CASE Passes(c, o)
    <2>1. Playing(heap[o])
        BY <1>2, <1>8 DEF Passes, TurnSwitched, Room, Playing
    <2> QED BY <1>1, <1>8, <2>1, InsideAlone DEF PlaceInv, Undisturbed, Passes, Inside, MidMove
<1> QED BY <1>1, <1>3, <1>4, <1>5, <1>6, <1>7, <1>8 DEF Changes

\* In a running game only the piece of the player that has the turn moves.
LEMMA PosStays ==
    ASSUME Undisturbed, TypeOK, RoomsSound, PlaceInv, SeatInv, TrafficOK,
           NEW t \in Tasks, BoardTask(t), NEW o \in Objects, Playing(heap[o]),
           NEW p \in Players(heap[o]), pos'[p] # pos[p]
    PROVE  t = p /\ pc[t] = "playOpponent" /\ heap[o].CurrentTurn = p
<1>1. p \in Clients /\ SettledIn(p, o)
    BY RunningGame DEF Players
<1>2. TaskStep(t)
    BY TaskSteps
<1>3. ASSUME t \in Clients, StartsGame(t), pos' = Deployed(heap[CurrentRoom[t]])
      PROVE  FALSE
    <2>1. PICK q \in Objects : q = CurrentRoom[t] /\ pc[t] = "start"
        BY <1>3 DEF StartsGame, RoomIsGone, TypeOK
    <2>2. CanStart(heap[q], t)
        BY <1>3, <2>1 DEF StartsGame
    <2>3. SettledIn(t, q)
        BY <1>3, <2>1, InsideNotRemoved, CommanderSettled DEF Inside
    <2>4. SettledIn(heap[q].Player2, q) /\ heap[q].Player1 = t
        BY <2>2 DEF SeatInv, SeatsRight, CanStart
    <2>5. p \in {heap[q].Player1, heap[q].Player2}
        BY <1>1, <1>3, <2>1 DEF Deployed
    <2>6. q = o
        BY <1>1, <2>3, <2>4, <2>5 DEF SettledIn
    <2> QED BY <2>2, <2>6 DEF CanStart, Playing
<1>4. ASSUME t \in Clients, NEW cell \in Cells, MovePiece(t, cell)
      PROVE  t = p /\ pc[t] = "playOpponent"
    BY <1>1, <1>4 DEF MovePiece, TrafficOK
<1>5. t = p /\ pc[t] = "playOpponent"
    BY <1>1, <1>3, <1>4, PieceSteps
<1> QED BY <1>1, <1>5 DEF SeatInv, MovesInTurn, MidMove, SettledIn, Playing

\* A session that is done with its cleanup has no room.
LEMMA DroppedInvariance ==
    ASSUME TypeOK, PlaceInv, NEW t \in Tasks, TaskStep(t),
           NEW c \in Clients, DroppedOut(c)
    PROVE  DroppedOut(c)'
<1>1. CASE c = t
    <2> USE DEF DroppedOut, Goto, Leave, TypeOK, ControlOK, Tasks
    <2>1. ASSUME Input(c) PROVE DroppedOut(c)'
        BY <2>1
        DEF Input, Accept, Disconnect, Quit, Login, JoinRoom, BeginMove, Ready,
            Start, Chat, Move, CallsRoom
    <2>2. ASSUME Removal(c) PROVE DroppedOut(c)'
        BY <2>2
        DEF Removal, RemoveLeave, RemoveUnlist, RemoveClear, RemoveReturns, Subject
    <2>3. ASSUME CleanUp(c) \/ RemoveSession(c) \/ UnregisterNickName(c)
          PROVE  DroppedOut(c)'
        BY <2>3 DEF CleanUp, BeginRemove, RemoveSession, UnregisterNickName, RoomIsGone
    <2>4. ASSUME Handler(c), ~(CleanUp(c) \/ RemoveSession(c) \/ UnregisterNickName(c))
          PROVE  DroppedOut(c)'
        BY <2>4
        DEF Handler, BoardHandler, RoomHandler, MoveLookup, MoveAdd, MoveLeave,
            MoveUnlist, MoveEnter, MoveCheck, HandleReady, HandleStart,
            StartAnnounce, ChatSend, PlayState, PlayTurn, PlayOpponent, PlayRefused,
            PlayLegal, PlaySwitch, PlayStep, ThrowsNull
    <2> QED BY <1>1, <2>1, <2>2, <2>3, <2>4 DEF TaskStep, SessionStep
<1>2. CASE c # t
    <2>1. pc'[c] = pc[c]
        BY <1>2, TaskFrame DEF Frame, Tasks
    <2>2. CurrentRoom'[c] = CurrentRoom[c] \/ CurrentRoom'[c] = NoObject
        <3>1. CASE c # Subject(t)
            BY <3>1, TaskFrame DEF Frame
        <3>2. CASE c = Subject(t)
            <4>1. t \notin Clients
                BY <1>2, <3>2 DEF Subject
            <4>2. pc[t] # "moveEnter"
                BY <4>1 DEF TypeOK, ControlOK, EvictorPC, Tasks
            <4>3. CASE UNCHANGED CurrentRoom
                BY <4>3
            <4>4. CASE pc[t] = "removeClear"
                <5>1. RemoveClear(t)
                    BY <4>1, <4>4
                    DEF TaskStep, EvictorStep, Evict, Removal, RemoveLeave, RemoveUnlist
                <5> QED BY <3>2, <5>1 DEF RemoveClear, TypeOK
            <4> QED BY <4>2, <4>3, <4>4, RoomChanges
        <3> QED BY <3>1, <3>2
    <2> QED BY <2>1, <2>2 DEF DroppedOut
<1> QED BY <1>1, <1>2

\* A MOVE goes on to pass the turn only after a legal step of the piece.
LEMMA LegalMoves ==
    ASSUME TypeOK, NEW t \in Tasks, BoardTask(t), pc'[t] = "playSwitch"
    PROVE  /\ t \in Clients /\ pc[t] = "playOpponent" /\ ~RoomIsGone(t)
           /\ UNCHANGED <<heap, CurrentRoom>>
           /\ \E cell \in Cells : MovePiece(t, cell) /\ ~Wins(t, cell)
<1> USE DEF Goto, Leave, TypeOK, ControlOK, Tasks
<1>1. t \in Clients
    <2>1. ASSUME NEW c \in Clients, Evict(t, c) PROVE pc'[t] # "playSwitch"
        BY <2>1 DEF Evict, BeginRemove
    <2>2. ASSUME t \notin Clients, Removal(t) PROVE pc'[t] # "playSwitch"
        BY <2>2 DEF Removal, RemoveLeave, RemoveUnlist, RemoveClear, RemoveReturns
    <2> QED BY <2>1, <2>2 DEF BoardTask, EvictorStep
<1>2. ~StartBoard(t)
    BY <1>1 DEF StartBoard, HandleStart, ThrowsNull
<1>3. ~OffBoard(t)
    <2>1. ~Input(t)
        BY <1>1
        DEF Input, Accept, Disconnect, Quit, Login, JoinRoom, BeginMove, Ready,
            Start, Chat, Move, CallsRoom
    <2>2. ~RoomHandler(t)
        BY <1>1
        DEF RoomHandler, MoveLookup, MoveAdd, MoveLeave, MoveUnlist, MoveEnter,
            MoveCheck, HandleReady, StartAnnounce, ChatSend, PlayState, PlayTurn,
            PlaySwitch, PlayStep, ThrowsNull, CleanUp, BeginRemove, RemoveSession,
            UnregisterNickName
    <2>3. ~Removal(t) /\ ~PlayRefused(t)
        BY <1>1
        DEF Removal, RemoveLeave, RemoveUnlist, RemoveClear, RemoveReturns, PlayRefused
    <2> QED BY <2>1, <2>2, <2>3 DEF OffBoard
<1>4. PICK cell \in Cells : MovePiece(t, cell)
    BY <1>1, <1>2, <1>3 DEF BoardTask, BoardSession
<1>5. PICK passes : passes = ~Wins(t, cell)
    OBVIOUS
<1>6. pc[t] = "playOpponent" /\ PlayLegal(t, passes)
    BY <1>4, <1>5 DEF MovePiece
<1>7. ~RoomIsGone(t) /\ passes /\ UNCHANGED <<heap, CurrentRoom>>
    BY <1>1, <1>6 DEF PlayLegal, PlayStep, ThrowsNull
<1> QED BY <1>1, <1>4, <1>5, <1>6, <1>7

\* A member that has entered a room does not find a game running.
LEMMA NoLateArrival ==
    ASSUME TypeOK, PlaceInv, SeatInv, NEW c \in Clients, pc[c] = "moveCheck"
    PROVE  heap[newRoom[c]].State # "PLAYING"
<1>1. newRoom[c] = CurrentRoom[c] /\ newRoom[c] \in Objects
    BY DEF PlaceInv, Placed
<1>2. ~TakenOut(c)
    BY ChatAssumption
    DEF TakenOut, PlaceInv, EvictorsAlone, Subject, Tasks, Removed, Resting
<1>3. c \in heap[newRoom[c]].clients
    BY <1>1, <1>2 DEF PlaceInv, MembersRight, Stays
<1> QED BY <1>1, <1>3 DEF SeatInv, SeatsRight, SettledIn

\* A running game is told of by the host that announces it and by a player
\* that has moved, ...
TellsRight(t) ==
    Speaks(t)' =>
        /\ t \in Clients /\ CurrentRoom[t] \in Objects
        /\ \/ /\ pc[t] = "startAnnounce"
              /\ outbox'[t] = Message(CurrentRoom[t], GameStart(heap[CurrentRoom[t]]))
           \/ /\ pc[t] = "playOpponent" /\ pc'[t] = "playSwitch"
              /\ outbox'[t] = Message(CurrentRoom[t], PlayerMove(t, pos'[t]))
           \/ /\ pc[t] = "playOpponent" /\ Winning(t) = {CurrentRoom[t]}
              /\ outbox'[t] = Message(CurrentRoom[t], GameOver(t))

WinsRight(t) ==
    Winning(t) # {} =>
        /\ t \in Clients /\ pc[t] = "playOpponent"
        /\ Winning(t) = {CurrentRoom[t]}
        /\ outbox'[t] = Message(CurrentRoom[t], GameOver(t))

\* ... and by nobody that was still speaking.
LEMMA SaidPlaces ==
    ASSUME Undisturbed, TypeOK, RoomsSound, PlaceInv, SeatInv, TrafficOK,
           NEW t \in Tasks, BoardTask(t), Says(t)
    PROVE  /\ ~Speaks(t) /\ TellsRight(t) /\ WinsRight(t)
           /\ \A u \in Tasks \ {t} : outbox'[u] = outbox[u]
<1>1. ~Speaks(t) /\ (outbox'[t] = Silent => ~Speaks(t)')
    BY DEF Says, Speaks, Silent, Telling
<1>2. outbox'[t] = Said(t) /\ \A u \in Tasks \ {t} : outbox'[u] = outbox[u]
    BY DEF Says, TrafficOK
<1>3. t \notin Clients => pc[t] \in EvictorPC
    BY DEF TypeOK, ControlOK, Tasks
<1>4. Winning(t) = IF outbox'[t].packet[1] = "GAME_OVER" THEN {outbox'[t].room} ELSE {}
    BY <1>2 DEF Winning
<1>5. ASSUME \/ outbox'[t] = Silent
             \/ \E o : outbox'[t] = Message(o, GameStopped)
      PROVE  TellsRight(t) /\ WinsRight(t)
    <2>1. CASE outbox'[t] = Silent
        <3>1. outbox'[t].packet = <<"none">>
            BY <2>1 DEF Silent
        <3>2. outbox'[t].packet[1] = "none"
            BY <3>1
        <3> QED BY <1>4, <3>2 DEF TellsRight, WinsRight, Speaks, Telling
    <2>2. ASSUME NEW o, outbox'[t] = Message(o, GameStopped)
          PROVE  TellsRight(t) /\ WinsRight(t)
        <3>1. outbox'[t].packet[1] = "GAME_STOPPED"
            BY <2>2 DEF Message, GameStopped
        <3> QED BY <1>4, <3>1 DEF TellsRight, WinsRight, Speaks, Telling
    <2> QED BY <1>5, <2>1, <2>2
<1>6. CASE pc[t] \in {"moveLeave", "removeLeave"}
    <2>1. Said(t) = Silent \/ Said(t) = Message(oldRoom[t], GameStopped)
        BY <1>6 DEF Said
    <2> QED BY <1>1, <1>2, <1>5, <2>1
<1>7. CASE pc[t] = "startAnnounce"
    <2>1. t \in Clients
        BY <1>3, <1>7 DEF EvictorPC
    <2>2. oldRoom[t] = CurrentRoom[t] /\ CurrentRoom[t] \in Objects
        BY <1>7, <2>1 DEF PlaceInv, Placed, Inside
    <2>3. Said(t) = Silent \/ Said(t) = Message(oldRoom[t], GameStart(heap[oldRoom[t]]))
        BY <1>7 DEF Said
    <2>4. CASE Said(t) = Message(oldRoom[t], GameStart(heap[oldRoom[t]]))
        <3>1. outbox'[t].packet[1] = "GAME_START"
            BY <1>2, <2>4 DEF Message, GameStart
        <3>2. Winning(t) = {}
            BY <1>4, <3>1
        <3> QED BY <1>1, <1>2, <1>7, <2>1, <2>2, <2>4, <3>2 DEF TellsRight, WinsRight
    <2> QED BY <1>1, <1>2, <1>5, <2>3, <2>4
<1>8. CASE pc[t] = "moveCheck"
    <2>1. t \in Clients
        BY <1>3, <1>8 DEF EvictorPC
    <2>2. Said(t) = Silent
        BY <1>8, <2>1, NoLateArrival DEF Said
    <2> QED BY <1>1, <1>2, <1>5, <2>2
<1>9. CASE pc[t] = "playOpponent"
    <2>1. t \in Clients
        BY <1>3, <1>9 DEF EvictorPC
    <2>2. CurrentRoom[t] \in Objects
        BY <1>9, <2>1 DEF PlaceInv, Placed, Inside, MidMove
    <2>3. \/ Said(t) = Silent \/ Said(t) = Message(CurrentRoom[t], GameOver(t))
          \/ /\ pc'[t] = "playSwitch"
             /\ Said(t) = Message(CurrentRoom[t], PlayerMove(t, pos'[t]))
        BY <1>9 DEF Said
    <2>4. CASE Said(t) = Message(CurrentRoom[t], GameOver(t))
        <3>1. outbox'[t].packet[1] = "GAME_OVER" /\ outbox'[t].room = CurrentRoom[t]
            BY <1>2, <2>4 DEF Message, GameOver
        <3>2. Winning(t) = {CurrentRoom[t]}
            BY <1>4, <3>1
        <3> QED BY <1>1, <1>2, <1>9, <2>1, <2>2, <2>4, <3>2 DEF TellsRight, WinsRight
    <2>5. CASE /\ pc'[t] = "playSwitch"
               /\ Said(t) = Message(CurrentRoom[t], PlayerMove(t, pos'[t]))
        <3>1. outbox'[t].packet[1] = "PLAYER_MOVE"
            BY <1>2, <2>5 DEF Message, PlayerMove
        <3>2. Winning(t) = {}
            BY <1>4, <3>1
        <3> QED BY <1>1, <1>2, <1>9, <2>1, <2>2, <2>5, <3>2 DEF TellsRight, WinsRight
    <2> QED BY <1>1, <1>2, <1>5, <2>3, <2>4, <2>5
<1>10. CASE pc[t] \notin {"moveLeave", "removeLeave", "startAnnounce", "moveCheck",
                          "playOpponent"}
    <2>1. Said(t) = Silent
        BY <1>10 DEF Said
    <2> QED BY <1>1, <1>2, <1>5, <2>1
<1>11. TellsRight(t) /\ WinsRight(t)
    BY <1>6, <1>7, <1>8, <1>9, <1>10
<1> QED BY <1>1, <1>2, <1>11

\* A game that is won now was won before, or its player has just won it.
LEMMA WonSteps ==
    ASSUME Undisturbed, TypeOK, RoomsSound, PlaceInv, SeatInv, TrafficOK,
           NEW t \in Tasks, BoardTask(t), Says(t), NEW o \in Objects
    PROVE  /\ o \in won' /\ o \notin won =>
                /\ t \in Clients /\ pc[t] = "playOpponent" /\ CurrentRoom[t] = o
                /\ heap'[o].State = "PLAYING"
                /\ outbox'[t] = Message(o, GameOver(t))
           /\ o \in won /\ heap'[o].State = "PLAYING" => o \in won'
<1>1. won' = {q \in Objects : q \in won \cup Winning(t) /\ heap'[q].State = "PLAYING"}
    BY DEF Says
<1>2. ASSUME o \in won', o \notin won
      PROVE  /\ t \in Clients /\ pc[t] = "playOpponent" /\ CurrentRoom[t] = o
             /\ outbox'[t] = Message(o, GameOver(t))
    <2>1. o \in Winning(t)
        BY <1>1, <1>2
    <2> QED BY <2>1, SaidPlaces DEF WinsRight
<1> QED BY <1>1, <1>2

LEMMA SpeakerInvariance ==
    ASSUME Undisturbed, TypeOK, RoomsSound, PlaceInv, SeatInv, TrafficOK, SightInv,
           NEW t \in Tasks, BoardTask(t), Says(t), NEW u \in Tasks
    PROVE  SpeaksForItself(u)'
<1>1. SpeaksForItself(u) /\ (t \in Clients => AnnouncesRight(t))
    BY DEF SightInv
<1>2. CASE u # t
    BY <1>1, <1>2, SaidPlaces DEF TellsRight, SpeaksForItself, Speaks
<1>3. CASE u = t
    <2> SUFFICES ASSUME Speaks(t)' PROVE t \in Clients /\ outbox'[t].packet[2] = t
        BY <1>3 DEF SpeaksForItself
    <2>1. t \in Clients
        BY SaidPlaces DEF TellsRight
    <2>2. CASE /\ pc[t] = "startAnnounce"
               /\ outbox'[t] = Message(CurrentRoom[t], GameStart(heap[CurrentRoom[t]]))
        <3>1. heap[CurrentRoom[t]].Player1 = t
            BY <1>1, <2>1, <2>2 DEF AnnouncesRight
        <3>2. outbox'[t].packet = GameStart(heap[CurrentRoom[t]])
            BY <2>2 DEF Message
        <3> QED BY <2>1, <3>1, <3>2 DEF GameStart
    <2>3. CASE outbox'[t] = Message(CurrentRoom[t], PlayerMove(t, pos'[t]))
        BY <2>1, <2>3 DEF Message, PlayerMove
    <2>4. CASE outbox'[t] = Message(CurrentRoom[t], GameOver(t))
        BY <2>1, <2>4 DEF Message, GameOver
    <2> QED BY <2>2, <2>3, <2>4, SaidPlaces DEF TellsRight
<1> QED BY <1>2, <1>3

\* The host of a room stays its host while others change it.
LEMMA HostStays ==
    ASSUME Undisturbed, TypeOK, RoomsSound, PlaceInv, SeatInv,
           NEW t \in Tasks, TaskStep(t), NEW c \in Clients, c # t, t \in Clients,
           NEW o \in Objects, CurrentRoom[c] = o, heap[o].Player1 = c
    PROVE  heap'[o].Player1 = c
<1> SUFFICES ASSUME heap'[o] # heap[o] PROVE heap'[o].Player1 = c
    OBVIOUS
<1>1. Changes(t, o)
    BY TaskRoomStep DEF RoomStep
<1>2. heap[o] \in Room
    BY DEF TypeOK
<1>3. ~Resets(o)
    BY DEF Resets, Unreferenced
<1>4. CASE Enters(t, o)
    BY <1>2, <1>4, RoomAssumption DEF Enters, WithClient, Room
<1>5. CASE Exits(t, o)
    BY <1>2, <1>5 DEF Exits, WithoutClient, WithoutClientBut, HostLeaves, Room
<1>6. CASE Toggles(t, o)
    BY <1>2, <1>6 DEF Toggles, ReadyToggled, Room
<1>7. CASE Begins(t, o)
    BY <1>2, <1>7 DEF Begins, Started, Room
<1>8. CASE Passes(t, o)
    BY <1>2, <1>8 DEF Passes, TurnSwitched, Room
<1> QED BY <1>1, <1>3, <1>4, <1>5, <1>6, <1>7, <1>8 DEF Changes

\* A step that starts a game: the pieces are on their corners and the host is
\* about to announce it.
LEMMA GameBegins ==
    ASSUME Undisturbed, TypeOK, RoomsSound, PlaceInv, SeatInv, TrafficOK,
           NEW t \in Clients, BoardTask(t), NEW o \in Objects, Begins(t, o)
    PROVE  /\ pc'[t] = "startAnnounce" /\ CurrentRoom'[t] = o
           /\ ~Playing(heap[o]) /\ heap[o].IsPlayer2Ready /\ heap[o].Player1 = t
           /\ heap[o].Player2 \in Clients \ {t}
           /\ LET r == heap'[o] IN
              r.Player1 = t /\ r.Player2 = heap[o].Player2 /\ r.CurrentTurn = t
           /\ pos'[t] = Origin /\ pos'[heap[o].Player2] = FarCorner
<1> DEFINE r == heap[o]
<1>1. r \in Room /\ SeatsRight(o) /\ t \in Tasks
    BY DEF TypeOK, SeatInv, Tasks
<1>2. pc[t] = "start" /\ CurrentRoom[t] = o /\ CanStart(r, t) /\ heap'[o] = Started(r)
    BY DEF Begins
<1>3. ~Playing(r) /\ r.IsPlayer2Ready /\ r.Player1 = t /\ ~RoomIsGone(t)
    BY <1>2, ChatAssumption DEF CanStart, Playing, RoomIsGone
<1>4. r.Player2 \in Clients \ {t}
    BY <1>1, <1>3, RoomAssumption DEF SeatsRight, SettledIn, SlotsApart, Room
<1>5. StartBoard(t)
    <2>1. ~OffBoard(t)
        BY <1>2
        DEF OffBoard, Input, Accept, Disconnect, Quit, Login, JoinRoom, Ready,
            Start, Chat, Move, CallsRoom, Commanded, Receives, RoomHandler,
            MoveLookup, MoveAdd, MoveLeave, MoveUnlist, MoveEnter, MoveCheck,
            HandleReady, StartAnnounce, ChatSend, PlayState, PlayTurn, PlaySwitch,
            PlayStep, ThrowsNull, CleanUp, RemoveSession, UnregisterNickName,
            Removal, RemoveLeave, RemoveUnlist, RemoveClear, PlayRefused
    <2> QED BY <1>2, <2>1 DEF BoardTask, BoardSession, MovePiece
<1>6. HandleStart(t) /\ pos' = Deployed(r)
    BY <1>2, <1>3, <1>5 DEF StartBoard, StartsGame
<1>7. pc'[t] = "startAnnounce" /\ UNCHANGED CurrentRoom
    BY <1>1, <1>2, <1>3, <1>4, <1>6, RoomAssumption
    DEF HandleStart, ThrowsNull, Goto, TypeOK, ControlOK
<1>8. /\ heap'[o].Player1 = t /\ heap'[o].Player2 = r.Player2 /\ heap'[o].CurrentTurn = t
    BY <1>1, <1>2, <1>3 DEF Started, Room
<1>9. pos'[t] = Origin /\ pos'[r.Player2] = FarCorner
    BY <1>3, <1>4, <1>6 DEF Deployed
<1> QED BY <1>2, <1>3, <1>4, <1>7, <1>8, <1>9

LEMMA AnnounceInvariance ==
    ASSUME Undisturbed, TypeOK, RoomsSound, PlaceInv, SeatInv, TrafficOK, SightInv,
           NEW t \in Tasks, BoardTask(t), Says(t), NEW c \in Clients
    PROVE  AnnouncesRight(c)'
<1> SUFFICES ASSUME pc'[c] = "startAnnounce" PROVE AnnouncesRight(c)'
    BY DEF AnnouncesRight
<1>1. TaskStep(t)
    BY TaskSteps
<1>2. CASE c = t
    <2>1. pc[c] = "start" /\ ~RoomIsGone(c) /\ HandleStart(c)
        <3> USE DEF Goto, Leave, TypeOK, ControlOK, Tasks
        <3>1. ~Input(c)
            BY
            DEF Input, Accept, Disconnect, Quit, Login, JoinRoom, BeginMove, Ready,
                Start, Chat, Move, CallsRoom
        <3>2. ~RoomHandler(c) /\ ~PlayOpponent(c)
            BY
            DEF RoomHandler, MoveLookup, MoveAdd, MoveLeave, MoveUnlist, MoveEnter,
                MoveCheck, HandleReady, StartAnnounce, ChatSend, PlayState, PlayTurn,
                PlaySwitch, PlayStep, ThrowsNull, CleanUp, BeginRemove, RemoveSession,
                UnregisterNickName, PlayOpponent, PlayRefused, PlayLegal
        <3>3. ~Removal(c)
            BY
            DEF Removal, RemoveLeave, RemoveUnlist, RemoveClear, RemoveReturns
        <3>4. HandleStart(c)
            BY <1>1, <1>2, <3>1, <3>2, <3>3
            DEF TaskStep, SessionStep, Handler, BoardHandler
        <3> QED BY <3>4 DEF HandleStart, ThrowsNull
    <2>2. PICK o \in Objects : o = CurrentRoom[c]
        BY <2>1 DEF TypeOK, RoomIsGone
    <2>3. Begins(c, o)
        BY <2>1, <2>2
        DEF HandleStart, ThrowsNull, Goto, TypeOK, ControlOK, Tasks, Begins, SetRoom
    <2>4. CurrentRoom'[c] = o
        BY <1>2, <2>3, GameBegins
    <2>5. /\ heap'[o].Player1 = c /\ heap'[o].CurrentTurn = c
          /\ heap'[o].Player2 = heap[o].Player2
          /\ pos'[c] = Origin /\ pos'[heap[o].Player2] = FarCorner
        BY <1>2, <2>3, GameBegins
    <2>6. o \notin won'
        <3>1. o \notin won
            BY <1>2, <2>3, GameBegins DEF TrafficOK
        <3> QED BY <1>2, <2>1, <3>1, WonSteps
    <2> QED BY <2>4, <2>5, <2>6 DEF AnnouncesRight, AtCorners
<1>3. CASE c # t
    <2>1. pc[c] = "startAnnounce" /\ AnnouncesRight(c) /\ Frame(t)
        BY <1>1, <1>3, TaskFrame DEF Frame, SightInv, Tasks
    <2>2. t \in Clients /\ CurrentRoom'[c] = CurrentRoom[c]
        BY <1>1, <1>3, <2>1, InsideAlone
        DEF PlaceInv, Undisturbed, Inside, Frame, Subject
    <2>3. PICK o \in Objects : o = CurrentRoom[c]
        BY <2>1 DEF PlaceInv, Placed, Inside
    <2>4. /\ heap[o].Player1 = c /\ o \notin won
          /\ Playing(heap[o]) => heap[o].CurrentTurn = c /\ AtCorners(heap[o])
        BY <2>1, <2>3 DEF AnnouncesRight
    <2>5. heap'[o].Player1 = c
        BY <1>1, <1>3, <2>2, <2>3, <2>4, HostStays
    <2>6. ASSUME heap'[o].State = "PLAYING"
          PROVE  heap'[o] = heap[o] /\ Playing(heap[o])
        <3>1. ~Begins(t, o)
            BY <1>3, <2>4 DEF Begins, CanStart
        <3>2. ~(Playing(heap[o]) /\ Passes(t, o))
            BY <1>3, <2>2, <2>4 DEF Passes, SeatInv, MovesInTurn, MidMove, Playing
        <3> QED BY <1>1, <2>6, <3>1, <3>2, GameSteps DEF Playing
    <2>7. ASSUME heap'[o].State = "PLAYING"
          PROVE  heap'[o].CurrentTurn = c /\ AtCorners(heap[o])'
        <3>1. heap'[o] = heap[o] /\ heap[o].CurrentTurn = c /\ AtCorners(heap[o])
            BY <2>4, <2>6, <2>7
        <3>2. \A p \in Players(heap[o]) : pos'[p] = pos[p]
            BY <1>3, <2>6, <2>7, <3>1, PosStays
        <3> QED BY <3>1, <3>2 DEF AtCorners, Players
    <2>8. o \notin won'
        <3> SUFFICES ASSUME o \in won' PROVE FALSE
            OBVIOUS
        <3>1. /\ t \in Clients /\ pc[t] = "playOpponent" /\ CurrentRoom[t] = o
              /\ heap'[o].State = "PLAYING"
            BY <2>4, WonSteps
        <3>2. Playing(heap[o]) /\ heap[o].CurrentTurn = c
            BY <2>4, <2>6, <3>1
        <3> QED BY <1>3, <3>1, <3>2 DEF SeatInv, MovesInTurn, MidMove, Playing
    <2> QED BY <2>2, <2>3, <2>5, <2>7, <2>8 DEF AnnouncesRight, Playing, AtCorners
<1> QED BY <1>2, <1>3

LEMMA ApartInvariance ==
    ASSUME Undisturbed, TypeOK, RoomsSound, PlaceInv, SeatInv, TrafficOK, SightInv,
           NEW t \in Tasks, BoardTask(t), NEW c \in Clients
    PROVE  MoveLeftApart(c)'
<1> SUFFICES ASSUME pc'[c] = "playSwitch", heap'[CurrentRoom'[c]].State = "PLAYING"
             PROVE  Apart(heap[CurrentRoom[c]])'
    BY DEF MoveLeftApart, Playing
<1>1. TaskStep(t)
    BY TaskSteps
<1>2. CASE c = t
    <2>1. /\ pc[c] = "playOpponent" /\ ~RoomIsGone(c) /\ UNCHANGED <<heap, CurrentRoom>>
          /\ \E cell \in Cells : MovePiece(c, cell) /\ ~Wins(c, cell)
        BY <1>2, LegalMoves
    <2>2. PICK cell \in Cells : MovePiece(c, cell) /\ ~Wins(c, cell)
        BY <2>1
    <2>3. PICK o \in Objects : o = CurrentRoom[c]
        BY <2>1 DEF TypeOK, RoomIsGone
    <2>4. Playing(heap[o]) /\ SettledIn(c, o)
        BY <2>1, <2>3, InsideNotRemoved, CommanderSettled DEF Inside, MidMove, Playing
    <2>5. /\ heap[o].Player1 \in Clients /\ heap[o].Player2 \in Clients
          /\ heap[o].Player1 # heap[o].Player2 /\ c \in {heap[o].Player1, heap[o].Player2}
        BY <2>4, RunningGame DEF SettledIn, Players
    <2>6. pos' = [pos EXCEPT ![c] = cell]
        BY <2>2 DEF MovePiece
    <2>7. PICK d \in Clients : d = OpponentOf(heap[o], c)
        BY <2>5 DEF OpponentOf
    <2>8. d # c /\ {c, d} = {heap[o].Player1, heap[o].Player2}
        BY <2>5, <2>7 DEF OpponentOf
    <2>9. pos[d] # cell
        BY <2>2, <2>3, <2>7, <2>8, RoomAssumption DEF Wins, TrafficOK
    <2>10. pos'[c] = cell /\ pos'[d] = pos[d]
        BY <2>6, <2>8 DEF TrafficOK
    <2> QED BY <2>1, <2>3, <2>5, <2>8, <2>9, <2>10 DEF Apart
<1>3. CASE c # t
    <2>1. pc[c] = "playSwitch" /\ Frame(t)
        BY <1>1, <1>3, TaskFrame DEF Frame, Tasks
    <2>2. t \in Clients /\ CurrentRoom'[c] = CurrentRoom[c]
        BY <1>1, <1>3, <2>1, InsideAlone
        DEF PlaceInv, Undisturbed, Inside, MidMove, Frame, Subject
    <2>3. PICK o \in Objects : o = CurrentRoom[c]
        BY <2>1 DEF PlaceInv, Placed, Inside, MidMove
    <2>4. /\ heap[o].State # "PLAYING" => heap[o].Player1 = c
          /\ heap[o].State = "PLAYING" => heap[o].CurrentTurn = c
        BY <2>1, <2>3 DEF SeatInv, MovesInTurn, MidMove
    <2>5. heap'[o].State = "PLAYING"
        BY <2>2, <2>3
    <2>6. ~Begins(t, o)
        BY <1>3, <2>4 DEF Begins, CanStart
    <2>7. ~(Playing(heap[o]) /\ Passes(t, o))
        BY <1>3, <2>2, <2>4 DEF Passes, SeatInv, MovesInTurn, MidMove, Playing
    <2>8. heap'[o] = heap[o] /\ Playing(heap[o])
        BY <1>1, <2>5, <2>6, <2>7, GameSteps DEF Playing
    <2>9. \A p \in Players(heap[o]) : pos'[p] = pos[p]
        BY <1>3, <2>4, <2>8, PosStays DEF Playing
    <2>10. Apart(heap[o])
        BY <2>1, <2>3, <2>8 DEF SightInv, MoveLeftApart
    <2> QED BY <2>2, <2>3, <2>8, <2>9, <2>10 DEF Apart, Players
<1> QED BY <1>2, <1>3

\* How a guest comes to be ready after a step.
LEMMA ReadySteps ==
    ASSUME Undisturbed, TypeOK, RoomsSound, PlaceInv, SeatInv,
           NEW t \in Tasks, TaskStep(t), NEW o \in Objects,
           heap'[o].State # "PLAYING", heap'[o].IsPlayer2Ready
    PROVE  /\ heap'[o].Player2 = heap[o].Player2 /\ ~Playing(heap[o])
           /\ \/ heap[o].IsPlayer2Ready
              \/ t \in Clients /\ pc[t] = "ready" /\ heap[o].Player2 = t
<1>1. heap[o] \in Room /\ SeatsRight(o) /\ RoomSound(heap[o])
    BY DEF TypeOK, SeatInv, RoomsSound
<1>2. heap[o].IsPlayer2Ready => heap[o].Player2 # NoClient
    BY <1>1 DEF RoomSound, ReadyIsGuests
<1>3. CASE heap'[o] = heap[o]
    BY <1>3 DEF Playing
<1>4. CASE heap'[o] # heap[o]
    <2>1. PICK c \in Clients : Changes(c, o) /\ (t \in Clients => c = t)
        BY <1>4, TaskRoomStep DEF RoomStep
    <2>2. ~Resets(o)
        <3>1. ASSUME NEW n \in RoomNames, heap'[o] = NewRoom(n) PROVE FALSE
            <4>1. heap'[o].IsPlayer2Ready = FALSE
                BY <3>1 DEF NewRoom
            <4> QED BY <4>1
        <3> QED BY <3>1 DEF Resets
    <2>3. CASE Enters(c, o)
        <3>1. /\ heap'[o].State = heap[o].State
              /\ heap'[o].IsPlayer2Ready = heap[o].IsPlayer2Ready
              /\ heap[o].Player2 # NoClient => heap'[o].Player2 = heap[o].Player2
            BY <1>1, <2>3 DEF Enters, WithClient, Room
        <3> QED BY <1>2, <3>1 DEF Playing
    <2>4. ~Exits(c, o)
        <3> SUFFICES ASSUME Exits(c, o) PROVE FALSE
            OBVIOUS
        <3>1. heap'[o].IsPlayer2Ready = (heap[o].IsPlayer2Ready /\ RemovalThrows(heap[o], c))
            BY <1>1 DEF Exits, WithoutClient, WithoutClientBut, Room
        <3> QED BY <1>2, <3>1 DEF RemovalThrows
    <2>5. CASE Toggles(c, o)
        <3>1. pc[c] = "ready" /\ t \in Clients
            BY <2>5, InsideAlone DEF PlaceInv, Undisturbed, Toggles, Inside
        <3>2. heap'[o] = ReadyToggled(heap[o], c)
            BY <2>5 DEF Toggles
        <3>3. heap[o].State # "PLAYING" /\ c = heap[o].Player2
            <4>1. ReadyToggled(heap[o], c) # heap[o]
                BY <1>4, <3>2
            <4> QED BY <4>1 DEF ReadyToggled
        <3>4. heap'[o].Player2 = heap[o].Player2
            <4>1. ReadyToggled(heap[o], c).Player2 = heap[o].Player2
                BY <1>1 DEF ReadyToggled, Room
            <4> QED BY <3>2, <4>1
        <3> QED BY <2>1, <3>1, <3>3, <3>4 DEF Playing
    <2>6. ~Begins(c, o)
        <3>1. Started(heap[o]).State = "PLAYING"
            BY <1>1 DEF Started, Room
        <3> QED BY <3>1 DEF Begins
    <2>7. CASE Passes(c, o)
        <3>1. /\ heap'[o].State = heap[o].State /\ heap'[o].Player2 = heap[o].Player2
              /\ heap'[o].IsPlayer2Ready = heap[o].IsPlayer2Ready
            BY <1>1, <2>7 DEF Passes, TurnSwitched, Room
        <3> QED BY <3>1 DEF Playing
    <2> QED BY <2>1, <2>2, <2>3, <2>4, <2>5, <2>6, <2>7 DEF Changes
<1> QED BY <1>3, <1>4

LEMMA ReadyInvariance ==
    ASSUME Undisturbed, TypeOK, RoomsSound, PlaceInv, SeatInv, TrafficOK, SightInv,
           NEW t \in Tasks, BoardTask(t), Says(t), NEW o \in Objects
    PROVE  ReadySilent(o)'
<1> SUFFICES ASSUME heap'[o].State # "PLAYING", heap'[o].IsPlayer2Ready,
                    outbox'[heap'[o].Player2].packet[1] \in Telling
             PROVE  FALSE
    BY DEF ReadySilent, Speaks, Playing
<1>1. TaskStep(t)
    BY TaskSteps
<1>2. PICK g : g = heap[o].Player2
    OBVIOUS
<1>3. /\ heap'[o].Player2 = g /\ ~Playing(heap[o])
      /\ \/ heap[o].IsPlayer2Ready
         \/ t \in Clients /\ pc[t] = "ready" /\ g = t
    BY <1>1, <1>2, ReadySteps
<1>4. CASE t \in Clients /\ pc[t] = "ready" /\ g = t
    BY <1>3, <1>4, SaidPlaces DEF TellsRight, Speaks
<1>5. CASE heap[o].IsPlayer2Ready
    <2>1. SettledIn(g, o) /\ g \in Clients /\ ~Speaks(g) /\ g # heap[o].Player1
        <3>1. heap[o] \in Room /\ SeatsRight(o) /\ ReadySilent(o)
            BY DEF TypeOK, SeatInv, SightInv
        <3>2. SettledIn(g, o) /\ g \in heap[o].clients
            BY <1>2, <1>5, <3>1 DEF SeatsRight, SettledIn
        <3>3. g \in Clients /\ g # NoClient
            BY <3>1, <3>2, RoomAssumption DEF Room
        <3>4. g # heap[o].Player1
            BY <1>2, <3>1, <3>3 DEF SeatsRight, SlotsApart
        <3>5. ~Speaks(g)
            BY <1>2, <1>3, <1>5, <3>1 DEF ReadySilent
        <3> QED BY <3>2, <3>3, <3>4, <3>5
    <2>2. g \in Tasks
        BY <2>1 DEF Tasks
    <2>3. t = g /\ Speaks(t)'
        BY <1>3, <2>1, <2>2, SaidPlaces DEF TellsRight, Speaks
    <2>4. pc[g] \in {"startAnnounce", "playOpponent"} /\ CurrentRoom[g] = o
        BY <2>1, <2>3, SaidPlaces DEF TellsRight, SettledIn
    <2>5. pc[g] = "startAnnounce" => heap[o].Player1 = g
        BY <2>1, <2>4 DEF SightInv, AnnouncesRight
    <2>6. pc[g] = "playOpponent" => heap[o].Player1 = g
        BY <1>3, <2>1, <2>4 DEF SeatInv, MovesInTurn, MidMove, Playing
    <2> QED BY <2>1, <2>4, <2>5, <2>6
<1> QED BY <1>3, <1>4, <1>5

\* What the players of a running game are saying stays how things are.
LEMMA SpeakingInvariance ==
    ASSUME Undisturbed, TypeOK, RoomsSound, PlaceInv, SeatInv, TrafficOK, SightInv,
           NEW t \in Tasks, BoardTask(t), Says(t), NEW o \in Objects
    PROVE  SpeaksRight(o)'
<1> SUFFICES ASSUME heap'[o].State = "PLAYING", NEW u \in Players(heap'[o]), Speaks(u)'
             PROVE  Truthful(o, u)'
    BY DEF SpeaksRight, Playing
<1>1. TaskStep(t)
    BY TaskSteps
<1>2. PICK r : r = heap[o]
    OBVIOUS
<1>3. CASE heap'[o] = heap[o]
    <2>1. Playing(heap[o]) /\ u \in Players(r)
        BY <1>2, <1>3 DEF Playing
    <2>2. /\ r.Player1 \in Clients /\ r.Player2 \in Clients /\ r.Player1 # r.Player2
          /\ u \in Clients /\ SettledIn(u, o)
        BY <1>2, <2>1, RunningGame DEF Players
    <2>3. u \in Tasks
        BY <2>2 DEF Tasks
    <2>4. CASE u # t
        <3>1. outbox'[u] = outbox[u] /\ Speaks(u)
            BY <2>3, <2>4, SaidPlaces DEF TellsRight, Speaks
        <3>2. Truthful(o, u)
            BY <1>2, <2>1, <3>1 DEF SightInv, SpeaksRight
        <3>3. \A p \in Players(heap[o]) : pos'[p] = pos[p]
            BY <2>1, <2>4, <3>2, PosStays DEF Truthful
        <3>4. o \in won' <=> o \in won
            <4>1. ~(t \in Clients /\ pc[t] = "playOpponent" /\ CurrentRoom[t] = o)
                BY <2>1, <2>4, <3>2
                DEF Truthful, SeatInv, MovesInTurn, MidMove, Playing
            <4>2. heap'[o].State = "PLAYING"
                OBVIOUS
            <4> QED BY <4>1, <4>2, WonSteps
        <3> QED BY <1>2, <1>3, <2>1, <3>1, <3>2, <3>3, <3>4
                DEF Truthful, Players, AtCorners, Apart, GameStart, PlayerMove, GameOver
    <2>5. CASE u = t
        <3>1. t \in Clients /\ CurrentRoom[t] = o
            BY <2>2, <2>5 DEF SettledIn
        <3>2. CASE /\ pc[t] = "startAnnounce"
                   /\ outbox'[t] = Message(o, GameStart(r))
            <4>1. r.CurrentTurn = t /\ AtCorners(r) /\ o \notin won
                BY <1>2, <2>1, <3>1, <3>2 DEF SightInv, AnnouncesRight
            <4>2. \A p \in Players(heap[o]) : pos'[p] = pos[p]
                BY <2>1, <3>2, PosStays
            <4>3. AtCorners(r)'
                BY <1>2, <4>1, <4>2 DEF AtCorners, Players
            <4>4. outbox'[t].room = o /\ outbox'[t].packet = GameStart(r)
                BY <3>2 DEF Message
            <4>5. o \notin won'
                BY <3>2, <4>1, WonSteps
            <4> QED BY <1>2, <1>3, <2>5, <4>1, <4>3, <4>4, <4>5
                    DEF Truthful, AtCorners, GameStart
        <3>3. CASE /\ pc[t] = "playOpponent" /\ pc'[t] = "playSwitch"
                   /\ outbox'[t] = Message(o, PlayerMove(t, pos'[t]))
            <4>1. r.CurrentTurn = t
                BY <1>2, <2>1, <3>1, <3>3 DEF SeatInv, MovesInTurn, MidMove, Playing
            <4>2. CurrentRoom'[t] = o
                BY <3>1, <3>3, LegalMoves
            <4>3. MoveLeftApart(t)'
                BY <3>1, ApartInvariance
            <4>4. Apart(heap[o])'
                BY <3>3, <4>2, <4>3 DEF MoveLeftApart, Playing
            <4>5. outbox'[t].room = o /\ outbox'[t].packet = PlayerMove(t, pos'[t])
                BY <3>3 DEF Message
            <4> QED BY <1>2, <1>3, <2>5, <4>1, <4>4, <4>5
                    DEF Truthful, PlayerMove
        <3>4. CASE /\ pc[t] = "playOpponent" /\ Winning(t) = {o}
                   /\ outbox'[t] = Message(o, GameOver(t))
            <4>1. r.CurrentTurn = t
                BY <1>2, <2>1, <3>1, <3>4 DEF SeatInv, MovesInTurn, MidMove, Playing
            <4>2. o \in won'
                BY <3>4 DEF Says
            <4>3. outbox'[t].room = o /\ outbox'[t].packet = GameOver(t)
                BY <3>4 DEF Message
            <4> QED BY <1>2, <1>3, <2>5, <4>1, <4>2, <4>3 DEF Truthful, GameOver
        <3> QED BY <1>2, <2>5, <3>1, <3>2, <3>3, <3>4, SaidPlaces DEF TellsRight
    <2> QED BY <2>4, <2>5
<1>4. CASE t \in Clients /\ Begins(t, o)
    <2>1. pc[t] = "start"
        BY <1>4 DEF Begins
    <2>2. /\ ~Playing(heap[o]) /\ r.IsPlayer2Ready /\ r.Player2 \in Clients \ {t}
          /\ heap'[o].Player1 = t /\ heap'[o].Player2 = r.Player2
        BY <1>2, <1>4, GameBegins
    <2>3. ~Speaks(t)'
        BY <2>1, SaidPlaces DEF TellsRight
    <2>4. u = r.Player2 /\ u # t /\ u \in Tasks
        BY <2>2, <2>3 DEF Players, Tasks
    <2>5. Speaks(u)
        BY <2>4, SaidPlaces DEF TellsRight, Speaks
    <2> QED BY <1>2, <2>2, <2>4, <2>5 DEF SightInv, ReadySilent
<1>5. CASE t \in Clients /\ Playing(heap[o]) /\ Passes(t, o)
    <2>1. pc[t] = "playSwitch" /\ CurrentRoom[t] = o /\ heap'[o] = TurnSwitched(r)
        BY <1>2, <1>5 DEF Passes
    <2>2. r.CurrentTurn = t
        BY <1>2, <1>5, <2>1 DEF SeatInv, MovesInTurn, MidMove, Playing
    <2>3. u \in Players(r)
        BY <1>2, <2>1 DEF TurnSwitched, TypeOK, Room, Players
    <2>4. u \in Tasks
        BY <1>2, <1>5, <2>3, RunningGame DEF Players, Tasks
    <2>5. u # t
        BY <2>1, SaidPlaces DEF TellsRight
    <2>6. Speaks(u)
        BY <2>4, <2>5, SaidPlaces DEF TellsRight, Speaks
    <2> QED BY <1>2, <1>5, <2>2, <2>3, <2>5, <2>6 DEF SightInv, SpeaksRight, Truthful
<1> QED BY <1>1, <1>3, <1>4, <1>5, GameSteps

\* What a task of the server adds to the packets about c still to be sent.
LEMMA PendingAfter ==
    ASSUME Undisturbed, TypeOK, RoomsSound, PlaceInv, SeatInv, TrafficOK, SightInv,
           NEW t \in Tasks, BoardTask(t), Says(t), NEW o \in Objects, Playing(heap[o]),
           heap'[o].Player1 = heap[o].Player1, heap'[o].Player2 = heap[o].Player2,
           NEW x \in Clients, NEW c, Pending(heap[o], x, c)
    PROVE  Pending(heap[o], x, c)'
<1>1. PICK r : r = heap[o]
    OBVIOUS
<1>2. r.Player1 \in Clients /\ SettledIn(r.Player1, o) /\ r.Player1 \in Tasks
    BY <1>1, RunningGame DEF Tasks
<1>3. CASE pc[r.Player1] = "startAnnounce" /\ r.Player1 # t
    BY <1>1, <1>2, <1>3, TaskSteps, TaskFrame DEF Frame, Pending
<1>4. CASE pc[r.Player1] = "startAnnounce" /\ r.Player1 = t
    <2>1. oldRoom[t] = o
        BY <1>2, <1>4 DEF PlaceInv, Placed, Inside, SettledIn
    <2>2. BothSeated(r)
        BY <1>1 DEF RoomsSound, RoomSound, GameIsSeated, Playing
    <2>3. Said(t) = Message(o, GameStart(r))
        BY <1>1, <1>4, <2>1, <2>2 DEF Said
    <2>4. outbox'[t] = Message(o, GameStart(r))
        BY <2>3 DEF Says, TrafficOK
    <2>5. /\ outbox'[t].room = o /\ outbox'[t].packet = GameStart(r)
          /\ GameStart(r)[1] = "GAME_START"
        BY <2>4 DEF Message, GameStart
    <2>6. GameStart(r) = GameStart(heap[o])' /\ o # NoObject
        BY <1>1, ChatAssumption DEF GameStart
    <2>7. t \in Players(heap[o])'
        BY <1>1, <1>4 DEF Players
    <2> QED BY <2>5, <2>6, <2>7 DEF Pending, Speaks, Places, Telling
<1>5. ASSUME NEW v \in Players(r),
             Speaks(v), Places(outbox[v].packet, r, c),
             outbox[v].room # NoObject \/ x \in outbox[v].to
      PROVE  Pending(heap[o], x, c)'
    <2>1. v \in Tasks
        BY <1>1, RunningGame DEF Players, Tasks
    <2>2. outbox'[v] = outbox[v]
        BY <1>5, <2>1, SaidPlaces DEF TellsRight
    <2>3. v \in Players(heap[o])' /\ GameStart(r) = GameStart(heap[o])'
        BY <1>1 DEF Players, GameStart
    <2> QED BY <1>1, <1>5, <2>2, <2>3 DEF Pending, Speaks, Places, Players
<1> QED BY <1>1, <1>3, <1>4, <1>5 DEF Pending

\* A player that moves tells, unless its move wins.
LEMMA MovesAreTold ==
    ASSUME Undisturbed, TypeOK, RoomsSound, PlaceInv, SeatInv, TrafficOK,
           NEW t \in Tasks, BoardTask(t), Says(t), NEW o \in Objects, Playing(heap[o]),
           t \in Players(heap[o]), pos'[t] # pos[t], heap'[o] = heap[o],
           NEW x \in Clients
    PROVE  Pending(heap[o], x, t)' \/ ~Apart(heap[o])'
<1>1. /\ pc[t] = "playOpponent" /\ t \in Clients /\ SettledIn(t, o)
      /\ heap[o].Player1 \in Clients /\ heap[o].Player2 \in Clients
      /\ heap[o].Player1 # heap[o].Player2
    BY PosStays, RunningGame DEF Players
<1>2. CurrentRoom[t] = o /\ o # NoObject
    BY <1>1, ChatAssumption DEF SettledIn
<1>3. PICK cell \in Cells : MovePiece(t, cell)
    BY <1>1, PieceSteps DEF StartsGame
<1>4. pos' = [pos EXCEPT ![t] = cell]
    BY <1>3 DEF MovePiece
<1>5. CASE Wins(t, cell)
    <2>1. PICK d \in Clients : d = OpponentOf(heap[o], t)
        BY <1>1 DEF OpponentOf
    <2>2. d # t /\ {t, d} = {heap[o].Player1, heap[o].Player2}
        BY <1>1, <2>1 DEF OpponentOf, Players
    <2>3. pos'[d] = cell /\ pos'[t] = cell
        BY <1>1, <1>2, <1>4, <1>5, <2>1, <2>2 DEF Wins, TrafficOK
    <2>4. pos'[heap[o].Player1] = pos'[heap[o].Player2]
        BY <2>2, <2>3
    <2> QED BY <2>4 DEF Apart
<1>6. CASE ~Wins(t, cell)
    <2>1. PlayLegal(t, TRUE)
        BY <1>3, <1>6 DEF MovePiece
    <2>2. pc'[t] = "playSwitch"
        BY <1>1, <1>2, <2>1
        DEF PlayLegal, PlayStep, ThrowsNull, RoomIsGone, Playing, Goto, TypeOK,
            ControlOK
    <2>3. Said(t) = Message(o, PlayerMove(t, pos'[t]))
        BY <1>1, <1>2, <2>2 DEF Said
    <2>4. outbox'[t] = Message(o, PlayerMove(t, pos'[t]))
        BY <2>3 DEF Says, TrafficOK
    <2>5. /\ outbox'[t].room = o /\ outbox'[t].packet = PlayerMove(t, pos'[t])
          /\ PlayerMove(t, pos'[t])[1] = "PLAYER_MOVE" /\ PlayerMove(t, pos'[t])[2] = t
        BY <2>4 DEF Message, PlayerMove
    <2>6. t \in Players(heap[o])' /\ t # TheBoard
        BY <1>1, RoomAssumption DEF Players, TheBoard
    <2> QED BY <1>2, <2>5, <2>6 DEF Pending, Speaks, Places, Telling
<1> QED BY <1>5, <1>6

\* A player that wins tells.
LEMMA WinsAreTold ==
    ASSUME Undisturbed, TypeOK, RoomsSound, PlaceInv, SeatInv, TrafficOK,
           NEW t \in Tasks, BoardTask(t), Says(t), NEW o \in Objects, Playing(heap[o]),
           heap'[o] = heap[o], o \in won', o \notin won, NEW x \in Clients
    PROVE  Pending(heap[o], x, TheBoard)'
<1>1. /\ t \in Clients /\ pc[t] = "playOpponent" /\ CurrentRoom[t] = o
      /\ outbox'[t] = Message(o, GameOver(t))
    BY WonSteps
<1>2. heap[o].CurrentTurn = t
    BY <1>1 DEF SeatInv, MovesInTurn, MidMove, Playing
<1>3. t \in Players(heap[o])'
    BY <1>2, RunningGame DEF Players
<1>4. /\ outbox'[t].room = o /\ outbox'[t].packet = GameOver(t) /\ o # NoObject
      /\ GameOver(t)[1] = "GAME_OVER" /\ GameOver(t)[2] = t
    BY <1>1, ChatAssumption DEF Message, GameOver
<1> QED BY <1>3, <1>4 DEF Pending, Speaks, Places, Telling

\* A step of a task that starts no game leaves the players with what they
\* have seen or will see.
LEMMA SeeingGoesOn ==
    ASSUME Undisturbed, TypeOK, RoomsSound, PlaceInv, SeatInv, TrafficOK, SightInv,
           NEW t \in Tasks, BoardTask(t), Says(t), NEW o \in Objects, Playing(heap[o]),
           heap'[o].Player1 = heap[o].Player1, heap'[o].Player2 = heap[o].Player2,
           heap'[o].CurrentTurn = heap[o].CurrentTurn \/ Apart(heap[o]),
           NEW x \in Players(heap[o]), NEW c \in Told(heap[o]), Fact(o, c)' = Fact(o, c)
    PROVE  WillSee(o, x, c)'
<1>1. PICK r : r = heap[o]
    OBVIOUS
<1>2. r.Player1 \in Clients /\ r.Player2 \in Clients /\ x \in Clients
    BY <1>1, RunningGame DEF Players
<1>3. GameStart(r) = GameStart(heap[o])' /\ UNCHANGED <<wire, screen, misled>>
    BY <1>1 DEF GameStart, Says
<1>4. \A p : Places(p, r, c) <=> Places(p, heap[o], c)'
    BY <1>1, <1>3 DEF Places, Players
<1>5. \A p : Place(p, r, c) = Place(p, heap[o], c)'
    BY <1>1 DEF Place
<1>6. CASE Pending(heap[o], x, c)
    BY <1>2, <1>6, PendingAfter DEF WillSee
<1>7. CASE LastSays(wire[x], r, c, Fact(o, c))
    BY <1>3, <1>4, <1>5, <1>7 DEF LastSays, WillSee
<1>8. CASE AlreadyShows(o, x, c)
    BY <1>1, <1>3, <1>4, <1>8 DEF AlreadyShows, WillSee, Shows
<1>9. CASE c = r.CurrentTurn /\ ~Apart(r)
    <2>1. heap'[o].CurrentTurn = c
        BY <1>1, <1>9
    <2>2. c \in Players(r) /\ c # TheBoard
        BY <1>1, <1>2, <1>9, RunningGame, RoomAssumption DEF Players, TheBoard
    <2>3. \A p \in Players(heap[o]) : pos'[p] = pos[p]
        BY <1>1, <1>9, <2>2, PosStays DEF Fact
    <2> QED BY <1>1, <1>9, <2>1, <2>3 DEF WillSee, Apart, Players
<1> QED BY <1>1, <1>6, <1>7, <1>8, <1>9 DEF SightInv, WillSee

LEMMA SeeingInvariance ==
    ASSUME Undisturbed, TypeOK, RoomsSound, PlaceInv, SeatInv, TrafficOK, SightInv,
           NEW t \in Tasks, BoardTask(t), Says(t), NEW o \in Objects,
           heap'[o].State = "PLAYING",
           NEW x \in Players(heap'[o]), NEW c \in Told(heap'[o])
    PROVE  WillSee(o, x, c)'
<1>1. TaskStep(t)
    BY TaskSteps
<1>2. CASE heap'[o] = heap[o]
    <2>1. Playing(heap[o]) /\ x \in Players(heap[o]) /\ c \in Told(heap[o])
        BY <1>2 DEF Playing
    <2>2. x \in Clients
        BY <2>1, RunningGame DEF Players
    <2>3. CASE Fact(o, c)' = Fact(o, c)
        BY <1>2, <2>1, <2>3, SeeingGoesOn
    <2>4. CASE Fact(o, c)' # Fact(o, c) /\ c # TheBoard
        <3>1. c \in Players(heap[o]) /\ pos'[c] # pos[c]
            BY <2>1, <2>4 DEF Told, Fact
        <3>2. t = c /\ heap[o].CurrentTurn = c
            BY <2>1, <3>1, PosStays
        <3>3. Pending(heap[o], x, c)' \/ ~Apart(heap[o])'
            BY <1>2, <2>1, <2>2, <3>1, <3>2, MovesAreTold
        <3> QED BY <1>2, <3>2, <3>3 DEF WillSee
    <2>5. CASE Fact(o, c)' # Fact(o, c) /\ c = TheBoard
        <3>1. ~(o \in won' <=> o \in won)
            BY <2>5 DEF Fact
        <3>2. o \in won' /\ o \notin won
            BY <3>1, WonSteps
        <3> QED BY <1>2, <2>1, <2>2, <2>5, <3>2, WinsAreTold DEF WillSee
    <2> QED BY <2>3, <2>4, <2>5
<1>3. CASE t \in Clients /\ Begins(t, o)
    <2>1. pc'[t] = "startAnnounce" /\ heap'[o].Player1 = t
        BY <1>3, GameBegins
    <2> QED BY <2>1 DEF WillSee, Pending
<1>4. CASE t \in Clients /\ Playing(heap[o]) /\ Passes(t, o)
    <2>1. pc[t] = "playSwitch" /\ CurrentRoom[t] = o /\ heap'[o] = TurnSwitched(heap[o])
        BY <1>4 DEF Passes
    <2>2. Apart(heap[o])
        BY <1>4, <2>1 DEF SightInv, MoveLeftApart
    <2>3. heap'[o].Player1 = heap[o].Player1 /\ heap'[o].Player2 = heap[o].Player2
        BY <2>1 DEF TurnSwitched, TypeOK, Room
    <2>4. x \in Players(heap[o]) /\ c \in Told(heap[o])
        BY <2>3 DEF Players, Told
    <2>5. Fact(o, c)' = Fact(o, c)
        <3>1. c # TheBoard => pos'[c] = pos[c]
            BY <1>4, <2>1, <2>4, PosStays DEF Told
        <3>2. o \in won' <=> o \in won
            BY <2>1, WonSteps
        <3> QED BY <3>1, <3>2 DEF Fact
    <2> QED BY <1>4, <2>2, <2>3, <2>4, <2>5, SeeingGoesOn
<1> QED BY <1>1, <1>2, <1>3, <1>4, GameSteps

-----------------------------------------------------------------------------
(* What the broadcasts and the clients do to what is seen.                  *)

\* A step that leaves the server alone and says nothing new keeps everything
\* but what the players see.
LEMMA QuietSteps ==
    ASSUME SightInv, UNCHANGED <<boardVars, won>>,
           \A u \in Tasks : Speaks(u)' =>
              /\ Speaks(u) /\ outbox'[u].packet = outbox[u].packet
              /\ outbox'[u].room \in {outbox[u].room, NoObject},
           \A o \in Objects : Playing(heap[o]) => Players(heap[o]) \subseteq Tasks,
           \A o \in Objects : heap[o].IsPlayer2Ready => heap[o].Player2 \in Tasks,
           \A o \in Objects : Playing(heap[o]) =>
              \A x \in Players(heap[o]), c \in Told(heap[o]) : WillSee(o, x, c)'
    PROVE  SightInv'
<1>1. /\ UNCHANGED <<heap, pc, CurrentRoom, pos, won>>
    BY DEF boardVars, vars
<1>2. \A t \in Tasks : SpeaksForItself(t)'
    BY DEF SightInv, SpeaksForItself
<1>3. \A c \in Clients : (DroppedOut(c) /\ AnnouncesRight(c) /\ MoveLeftApart(c))'
    BY <1>1
    DEF SightInv, DroppedOut, AnnouncesRight, MoveLeftApart, Playing, AtCorners, Apart
<1>4. ASSUME NEW o \in Objects PROVE ReadySilent(o)'
    BY <1>1, <1>4 DEF SightInv, ReadySilent, Playing
<1>5. ASSUME NEW o \in Objects PROVE SpeaksRight(o)'
    <2> SUFFICES ASSUME Playing(heap[o]), NEW t \in Players(heap[o]), Speaks(t)'
                 PROVE  Truthful(o, t)'
        BY <1>1, <1>5 DEF SpeaksRight, Playing, Players
    <2>1. Speaks(t) /\ Truthful(o, t) /\ t \in Tasks
        BY <1>5 DEF SightInv, SpeaksRight
    <2> QED BY <1>1, <2>1 DEF Truthful, AtCorners, Apart, GameStart, PlayerMove, GameOver
<1>6. ASSUME NEW o \in Objects, Playing(heap[o])',
             NEW x \in Players(heap[o])', NEW c \in Told(heap[o])'
      PROVE  WillSee(o, x, c)'
    BY <1>1, <1>6 DEF Playing, Players, Told
<1> QED BY <1>2, <1>3, <1>4, <1>5, <1>6 DEF SightInv

\* The players are tasks of the server.
LEMMA PlayersAreTasks ==
    ASSUME TypeOK, RoomsSound, SeatInv, NEW o \in Objects
    PROVE  /\ Playing(heap[o]) => Players(heap[o]) \subseteq Tasks
           /\ heap[o].IsPlayer2Ready => heap[o].Player2 \in Tasks
<1>1. Playing(heap[o]) => Players(heap[o]) \subseteq Tasks
    BY RunningGame DEF Players, Tasks
<1>2. ASSUME heap[o].IsPlayer2Ready PROVE heap[o].Player2 \in Tasks
    <2>1. heap[o] \in Room /\ SeatsRight(o)
        BY DEF TypeOK, SeatInv
    <2>2. heap[o].Player2 \in heap[o].clients
        BY <1>2, <2>1 DEF SeatsRight, SettledIn
    <2> QED BY <2>1, <2>2 DEF Room, Tasks
<1> QED BY <1>1, <1>2

LEMMA SnapshotKeepsSight ==
    ASSUME TypeOK, RoomsSound, SeatInv, TrafficOK, SightInv,
           NEW t \in Tasks, TakeSnapshot(t)
    PROVE  SightInv'
<1>1. /\ outbox[t].room \in Objects /\ outbox[t].to = {}
      /\ UNCHANGED <<boardVars, wire, screen, misled, won>>
    BY ChatAssumption DEF TakeSnapshot, TrafficOK, Broadcast, WellFormed
<1>2. PICK out : out = IF heap[outbox[t].room].clients = {} THEN Silent
                       ELSE [outbox[t] EXCEPT !.room = NoObject,
                                             !.to = heap[outbox[t].room].clients]
    OBVIOUS
<1>3. outbox' = [outbox EXCEPT ![t] = out]
    BY <1>2 DEF TakeSnapshot
<1>4. outbox'[t] = out /\ \A u \in Tasks \ {t} : outbox'[u] = outbox[u]
    BY <1>3 DEF TrafficOK
<1>5. /\ out.packet = outbox[t].packet \/ out.packet = <<"none">>
      /\ out.room = NoObject
      /\ heap[outbox[t].room].clients # {} =>
           out.to = heap[outbox[t].room].clients /\ out.packet = outbox[t].packet
    BY <1>2 DEF Silent, TrafficOK, Broadcast
<1>6. ASSUME NEW u \in Tasks, Speaks(u)'
      PROVE  /\ Speaks(u) /\ outbox'[u].packet = outbox[u].packet
             /\ outbox'[u].room \in {outbox[u].room, NoObject}
    BY <1>4, <1>5, <1>6 DEF Speaks, Telling
<1>7. ASSUME NEW o \in Objects, Playing(heap[o]),
             NEW x \in Players(heap[o]), NEW c \in Told(heap[o])
      PROVE  WillSee(o, x, c)'
    <2>1. UNCHANGED <<heap, pc, pos, won>>
        BY <1>1 DEF boardVars, vars
    <2>2. WillSee(o, x, c) /\ SpeaksRight(o)
        BY <1>7 DEF SightInv
    <2>3. CASE \E v \in Players(heap[o]) :
                  /\ Speaks(v) /\ Places(outbox[v].packet, heap[o], c)
                  /\ outbox[v].room # NoObject \/ x \in outbox[v].to
        <3>1. PICK v \in Players(heap[o]) :
                  /\ Speaks(v) /\ Places(outbox[v].packet, heap[o], c)
                  /\ outbox[v].room # NoObject \/ x \in outbox[v].to
            BY <2>3
        <3>2. v \in Tasks
            BY <1>7, <3>1, PlayersAreTasks
        <3>3. outbox'[v].packet = outbox[v].packet
              /\ (outbox'[v].room # NoObject \/ x \in outbox'[v].to)
            <4>1. CASE v # t
                BY <1>4, <3>1, <3>2, <4>1
            <4>2. CASE v = t
                <5>1. outbox[t].room = o
                    BY <1>1, <1>7, <2>2, <3>1, <4>2, ChatAssumption
                    DEF SpeaksRight, Truthful
                <5>2. heap[o].clients = Players(heap[o])
                    BY <1>7, RunningGame
                <5> QED BY <1>4, <1>5, <1>7, <4>2, <5>1, <5>2
            <4> QED BY <4>1, <4>2
        <3> QED BY <2>1, <3>1, <3>3 DEF WillSee, Pending, Speaks, Places, GameStart, Players
    <2>4. CASE pc[heap[o].Player1] = "startAnnounce"
        BY <2>1, <2>4 DEF WillSee, Pending
    <2>5. CASE ~Pending(heap[o], x, c)
        BY <1>1, <2>1, <2>2, <2>5
        DEF WillSee, LastSays, AlreadyShows, Shows, Fact, Places, Place, GameStart,
            Apart, Players
    <2> QED BY <2>3, <2>4, <2>5 DEF Pending
<1> QED BY <1>1, <1>6, <1>7, PlayersAreTasks, QuietSteps

\* What a player of a running game says about a piece is where the piece is.
LEMMA WhatIsSaid ==
    ASSUME TypeOK, RoomsSound, SeatInv, SightInv,
           NEW t \in Tasks, Speaks(t), NEW o \in Objects, Playing(heap[o]),
           NEW c \in Told(heap[o]), Places(outbox[t].packet, heap[o], c)
    PROVE  t \in Players(heap[o]) /\ Place(outbox[t].packet, heap[o], c) = Fact(o, c)
<1>1. PICK p : p = outbox[t].packet
    OBVIOUS
<1>2. PICK r : r = heap[o]
    OBVIOUS
<1>3. /\ r.Player1 # r.Player2 /\ TheBoard \notin Players(r)
      /\ c = TheBoard \/ c \in Players(r)
    BY <1>2, RunningGame, RoomAssumption DEF Players, TheBoard, Told
<1>4. GameStart(r)[1] = "GAME_START" /\ GameStart(r)[2] = r.Player1
    BY DEF GameStart
<1>5. p[2] = t
    BY <1>1 DEF SightInv, SpeaksForItself
<1>6. t \in Players(r)
    BY <1>1, <1>2, <1>3, <1>4, <1>5 DEF Places, Players
<1>7. Truthful(o, t)
    BY <1>2, <1>6 DEF SightInv, SpeaksRight
<1>8. CASE p = GameStart(r) /\ AtCorners(r) /\ o \notin won
    <2>1. p[1] = "GAME_START"
        BY <1>4, <1>8
    <2>2. c = TheBoard => Place(p, r, c) = Fact(o, c)
        BY <1>8, <2>1 DEF Place, Fact
    <2>3. c # TheBoard => Place(p, r, c) = pos[c]
        BY <1>2, <1>3, <1>8, <2>1 DEF Place, AtCorners, Players
    <2> QED BY <1>1, <1>2, <1>6, <2>2, <2>3 DEF Fact
<1>9. CASE p = PlayerMove(t, pos[t])
    <2>1. p[1] = "PLAYER_MOVE" /\ p[2] = t /\ p[3] = pos[t]
        BY <1>9 DEF PlayerMove
    <2>2. p # GameStart(r)
        BY <1>4, <2>1
    <2>3. c = t /\ c # TheBoard
        BY <1>1, <1>2, <2>1, <2>2 DEF Places
    <2>4. Place(p, r, c) = pos[c]
        BY <2>1, <2>3 DEF Place
    <2> QED BY <1>1, <1>2, <1>6, <2>3, <2>4 DEF Fact
<1>10. CASE p = GameOver(t) /\ o \in won
    <2>1. p[1] = "GAME_OVER"
        BY <1>10 DEF GameOver
    <2>2. p # GameStart(r)
        BY <1>4, <2>1
    <2>3. c = TheBoard
        BY <1>1, <1>2, <2>1, <2>2 DEF Places
    <2> QED BY <1>1, <1>2, <1>6, <1>10, <2>1, <2>3 DEF Place, Fact
<1> QED BY <1>1, <1>2, <1>7, <1>8, <1>9, <1>10 DEF Truthful

\* Appending to the queue of packets on the way.
LEMMA LastOfAppend ==
    ASSUME NEW q \in Seq(Packets), NEW p \in Packets, NEW r, NEW c, NEW fact
    PROVE  /\ Places(p, r, c) /\ Place(p, r, c) = fact
                 => LastSays(Append(q, p), r, c, fact)
           /\ ~Places(p, r, c) /\ LastSays(q, r, c, fact) => LastSays(Append(q, p), r, c, fact)
           /\ ~Places(p, r, c) /\ (\A i \in DOMAIN q : ~Places(q[i], r, c))
                 => \A i \in DOMAIN Append(q, p) : ~Places(Append(q, p)[i], r, c)
<1>1. PICK n \in Nat : n = Len(q)
    OBVIOUS
<1>2. PICK s : s = Append(q, p)
    OBVIOUS
<1>3. /\ DOMAIN q = 1..n /\ DOMAIN s = 1..(n + 1) /\ s[n + 1] = p
      /\ \A i \in 1..n : s[i] = q[i]
    BY <1>1, <1>2
<1>4. ASSUME Places(p, r, c), Place(p, r, c) = fact PROVE LastSays(s, r, c, fact)
    <2>1. \A j \in 1..(n + 1) : j <= n + 1
        OBVIOUS
    <2>2. n + 1 \in DOMAIN s
        BY <1>3
    <2> QED BY <1>3, <1>4, <2>1, <2>2 DEF LastSays
<1>5. ASSUME ~Places(p, r, c), LastSays(q, r, c, fact) PROVE LastSays(s, r, c, fact)
    <2>1. PICK i \in 1..n :
              /\ Places(q[i], r, c) /\ Place(q[i], r, c) = fact
              /\ \A j \in 1..n : Places(q[j], r, c) => j <= i
        BY <1>3, <1>5 DEF LastSays
    <2>2. ASSUME NEW j \in 1..(n + 1), Places(s[j], r, c) PROVE j <= i
        <3>1. j # n + 1
            BY <1>3, <1>5, <2>2
        <3>2. j \in 1..n
            BY <3>1
        <3> QED BY <1>3, <2>1, <2>2, <3>2
    <2>3. i \in DOMAIN s /\ s[i] = q[i]
        BY <1>3
    <2> QED BY <1>3, <2>1, <2>2, <2>3 DEF LastSays
<1>6. ASSUME ~Places(p, r, c), \A i \in DOMAIN q : ~Places(q[i], r, c),
             NEW i \in DOMAIN s
      PROVE  ~Places(s[i], r, c)
    <2>1. CASE i = n + 1
        BY <1>3, <1>6, <2>1
    <2>2. CASE i # n + 1
        <3>1. i \in 1..n
            BY <1>3, <2>2
        <3> QED BY <1>3, <1>6, <3>1
    <2> QED BY <2>1, <2>2
<1> QED BY <1>2, <1>4, <1>5, <1>6

LEMMA EnqueueKeepsSight ==
    ASSUME TypeOK, RoomsSound, SeatInv, TrafficOK, SightInv,
           NEW t \in Tasks, NEW d \in Clients, EnqueuePacket(t, d)
    PROVE  SightInv'
<1>1. /\ d \in outbox[t].to /\ outbox[t].room = NoObject
      /\ UNCHANGED <<boardVars, screen, misled, won>>
    BY DEF EnqueuePacket, TrafficOK, WellFormed
<1>2. PICK p : p = outbox[t].packet
    OBVIOUS
<1>3. p \in Packets
    BY <1>1, <1>2 DEF TrafficOK, Broadcast, WellFormed, Silent
<1>4. PICK out : out = IF outbox[t].to = {d} THEN Silent
                       ELSE [outbox[t] EXCEPT !.to = @ \ {d}]
    OBVIOUS
<1>5. outbox' = [outbox EXCEPT ![t] = out]
    BY <1>4 DEF EnqueuePacket
<1>6. outbox'[t] = out /\ \A u \in Tasks \ {t} : outbox'[u] = outbox[u]
    BY <1>5 DEF TrafficOK
<1>7. /\ out.packet = p \/ out.packet = <<"none">>
      /\ out.room = NoObject
      /\ outbox[t].to # {d} => out.to = outbox[t].to \ {d} /\ out.packet = p
    BY <1>1, <1>2, <1>4 DEF Silent, TrafficOK, Broadcast
<1>8. ASSUME NEW u \in Tasks, Speaks(u)'
      PROVE  /\ Speaks(u) /\ outbox'[u].packet = outbox[u].packet
             /\ outbox'[u].room \in {outbox[u].room, NoObject}
    BY <1>2, <1>6, <1>7, <1>8 DEF Speaks, Telling
<1>9. ASSUME NEW o \in Objects, Playing(heap[o]),
             NEW x \in Players(heap[o]), NEW c \in Told(heap[o])
      PROVE  WillSee(o, x, c)'
    <2>1. UNCHANGED <<heap, pc, pos, won>>
        BY <1>1 DEF boardVars, vars
    <2>2. PICK r : r = heap[o]
        OBVIOUS
    <2>3. heap'[o] = r /\ GameStart(r) = GameStart(heap[o])'
        BY <2>1, <2>2 DEF GameStart
    <2>4. WillSee(o, x, c)
        BY <1>9, <2>2 DEF SightInv
    <2>5. x \in Clients /\ SettledIn(x, o)
        BY <1>9, RunningGame DEF Players
    <2>6. ASSUME NEW v \in Players(r), v # t \/ x # d,
                 Speaks(v), Places(outbox[v].packet, r, c),
                 outbox[v].room # NoObject \/ x \in outbox[v].to
          PROVE  WillSee(o, x, c)'
        <3>1. v \in Tasks
            BY <1>9, <2>2, PlayersAreTasks
        <3>2. outbox'[v].packet = outbox[v].packet
              /\ (outbox'[v].room # NoObject \/ x \in outbox'[v].to)
            <4>1. CASE v # t
                BY <1>6, <2>6, <3>1, <4>1
            <4>2. CASE v = t
                BY <1>1, <1>2, <1>6, <1>7, <2>6, <4>2
            <4> QED BY <4>1, <4>2
        <3> QED BY <2>2, <2>3, <2>6, <3>2 DEF WillSee, Pending, Speaks, Places, Players
    <2>7. CASE pc[r.Player1] = "startAnnounce"
        BY <2>1, <2>2, <2>7 DEF WillSee, Pending
    <2>8. CASE c = r.CurrentTurn /\ ~Apart(r)
        BY <2>1, <2>2, <2>8 DEF WillSee, Apart
    <2>9. CASE x # d
        <3>1. wire'[x] = wire[x]
            BY <2>5, <2>9 DEF EnqueuePacket, TrafficOK
        <3>2. LastSays(wire[x], r, c, Fact(o, c)) \/ AlreadyShows(o, x, c) => WillSee(o, x, c)'
            BY <1>1, <2>1, <2>2, <2>3, <3>1
            DEF WillSee, LastSays, AlreadyShows, Shows, Fact, Places, Place,
                Players
        <3> QED BY <2>2, <2>4, <2>6, <2>7, <2>8, <2>9, <3>2 DEF WillSee, Pending
    <2>10. CASE x = d
        <3>1. pc[x] # "closed"
            BY <2>5, ChatAssumption DEF SightInv, DroppedOut, SettledIn
        <3>2. wire' = [wire EXCEPT ![x] = Append(wire[x], p)]
            BY <1>2, <2>10, <3>1 DEF EnqueuePacket
        <3>3. PICK q : q = wire[x]
            OBVIOUS
        <3>4. wire'[x] = Append(q, p) /\ q \in Seq(Packets)
            BY <2>5, <3>2, <3>3 DEF TrafficOK
        <3>5. ASSUME LastSays(Append(q, p), r, c, Fact(o, c)) PROVE WillSee(o, x, c)'
            BY <2>1, <2>2, <2>3, <3>4, <3>5 DEF WillSee, LastSays, Fact, Places, Place, Players
        <3>6. CASE Places(p, r, c)
            <4>1. p[1] \in Telling
                BY <3>6 DEF Places, GameStart, Telling
            <4>2. Place(p, r, c) = Fact(o, c)
                BY <1>2, <1>9, <2>2, <3>6, <4>1, WhatIsSaid DEF Speaks
            <4> QED BY <1>3, <3>4, <3>5, <3>6, <4>2, LastOfAppend
        <3>7. CASE ~Places(p, r, c)
            <4>1. CASE Pending(r, x, c)
                BY <1>2, <2>2, <2>6, <2>7, <3>7, <4>1 DEF Pending
            <4>2. CASE LastSays(q, r, c, Fact(o, c))
                BY <1>3, <3>4, <3>5, <3>7, <4>2, LastOfAppend
            <4>3. CASE AlreadyShows(o, x, c)
                <5>1. \A i \in DOMAIN q : ~Places(q[i], r, c)
                    BY <2>2, <3>3, <4>3 DEF AlreadyShows
                <5>2. \A i \in DOMAIN wire'[x] : ~Places(wire'[x][i], r, c)
                    BY <1>3, <3>4, <3>7, <5>1, LastOfAppend
                <5> QED BY <1>1, <2>1, <2>2, <2>3, <4>3, <5>2
                        DEF WillSee, AlreadyShows, Shows, Fact, Places, Players
            <4> QED BY <2>2, <2>4, <2>8, <3>3, <4>1, <4>2, <4>3 DEF WillSee
        <3> QED BY <3>6, <3>7
    <2> QED BY <2>9, <2>10
<1> QED BY <1>1, <1>8, <1>9, PlayersAreTasks, QuietSteps

\* Taking the first packet from the queue of packets on the way.
LEMMA LastOfTail ==
    ASSUME NEW q \in Seq(Packets), q # << >>, NEW r, NEW c, NEW fact
    PROVE  /\ Head(q) \in Packets
           /\ (\A i \in DOMAIN q : ~Places(q[i], r, c)) =>
                 /\ ~Places(Head(q), r, c)
                 /\ \A i \in DOMAIN Tail(q) : ~Places(Tail(q)[i], r, c)
           /\ LastSays(q, r, c, fact) =>
                 \/ LastSays(Tail(q), r, c, fact)
                 \/ /\ Places(Head(q), r, c) /\ Place(Head(q), r, c) = fact
                    /\ \A i \in DOMAIN Tail(q) : ~Places(Tail(q)[i], r, c)
<1>1. PICK n \in Nat : n = Len(q) - 1
    OBVIOUS
<1>2. PICK s : s = Tail(q)
    OBVIOUS
<1>3. PICK p \in Packets : p = Head(q)
    OBVIOUS
<1>4. /\ DOMAIN q = 1..(n + 1) /\ DOMAIN s = 1..n /\ q[1] = p
      /\ \A i \in 1..n : s[i] = q[i + 1]
    BY <1>1, <1>2, <1>3
<1>5. ASSUME \A i \in DOMAIN q : ~Places(q[i], r, c)
      PROVE  /\ ~Places(p, r, c)
             /\ \A i \in DOMAIN s : ~Places(s[i], r, c)
    <2>1. 1 \in DOMAIN q /\ \A i \in 1..n : i + 1 \in DOMAIN q
        BY <1>4
    <2> QED BY <1>4, <1>5, <2>1
<1>6. ASSUME LastSays(q, r, c, fact)
      PROVE  \/ LastSays(s, r, c, fact)
             \/ /\ Places(p, r, c) /\ Place(p, r, c) = fact
                /\ \A i \in DOMAIN s : ~Places(s[i], r, c)
    <2>1. PICK i \in 1..(n + 1) :
              /\ Places(q[i], r, c) /\ Place(q[i], r, c) = fact
              /\ \A j \in 1..(n + 1) : Places(q[j], r, c) => j <= i
        BY <1>4, <1>6 DEF LastSays
    <2>2. CASE i = 1
        <3>1. ASSUME NEW j \in 1..n, Places(s[j], r, c) PROVE FALSE
            <4>1. j + 1 \in 1..(n + 1) /\ Places(q[j + 1], r, c)
                BY <1>4, <3>1
            <4>2. j + 1 <= i
                BY <2>1, <4>1
            <4> QED BY <2>2, <4>2
        <3> QED BY <1>4, <2>1, <2>2, <3>1
    <2>3. CASE i # 1
        <3>1. PICK k \in 1..n : k = i - 1
            BY <2>3
        <3>2. s[k] = q[i]
            BY <1>4, <3>1
        <3>3. ASSUME NEW j \in 1..n, Places(s[j], r, c) PROVE j <= k
            <4>1. j + 1 \in 1..(n + 1) /\ Places(q[j + 1], r, c)
                BY <1>4, <3>3
            <4>2. j + 1 <= i
                BY <2>1, <4>1
            <4> QED BY <3>1, <4>2
        <3> QED BY <1>4, <2>1, <3>2, <3>3 DEF LastSays
    <2> QED BY <2>2, <2>3
<1> QED BY <1>2, <1>3, <1>5, <1>6

\* A packet about a piece or the board shows what it says.
LEMMA ShownPlaces ==
    ASSUME TypeOK, RoomsSound, SeatInv, TrafficOK,
           NEW o \in Objects, Playing(heap[o]),
           NEW x \in Players(heap[o]), NEW c \in Told(heap[o]),
           HandleServerPacket(x), Places(Head(wire[x]), heap[o], c)
    PROVE  Shows(x, c)' = Place(Head(wire[x]), heap[o], c)
<1>1. PICK p : p = Head(wire[x])
    OBVIOUS
<1>2. PICK r : r = heap[o]
    OBVIOUS
<1>3. /\ r.Player1 # r.Player2 /\ x \in Clients /\ x # TheBoard
      /\ x \in {r.Player1, r.Player2} /\ c \in {r.Player1, r.Player2, TheBoard}
    BY <1>2, RunningGame, RoomAssumption DEF Players, Told, TheBoard
<1>4. CASE p = GameStart(r)
    <2>1. p[1] = "GAME_START" /\ p[2] = r.Player1
        BY <1>4 DEF GameStart
    <2>2. screen' = [screen EXCEPT ![x] = StartedScreen(x, p)]
        BY <1>1, <2>1 DEF HandleServerPacket
    <2>3. screen'[x] = StartedScreen(x, p)
        BY <1>3, <2>2 DEF TrafficOK
    <2>4. /\ screen'[x].isPlaying
          /\ x = r.Player1 => screen'[x].my = Origin /\ screen'[x].opp = FarCorner
          /\ x # r.Player1 => screen'[x].my = FarCorner /\ screen'[x].opp = Origin
        BY <2>1, <2>3 DEF StartedScreen
    <2>5. CASE c = TheBoard
        BY <1>1, <1>2, <2>1, <2>4, <2>5 DEF Place, Shows
    <2>6. CASE c # TheBoard
        <3>1. Place(p, r, c) = IF c = r.Player1 THEN Origin ELSE FarCorner
            BY <2>1, <2>6 DEF Place
        <3>2. Shows(x, c)' = IF x = c THEN screen'[x].my ELSE screen'[x].opp
            BY <2>6 DEF Shows
        <3>3. Shows(x, c)' = Place(p, r, c)
            BY <1>3, <2>4, <2>6, <3>1, <3>2
        <3> QED BY <1>1, <1>2, <3>3
    <2> QED BY <2>5, <2>6
<1>5. CASE p[1] = "PLAYER_MOVE" /\ p[2] = c /\ c # TheBoard
    <2>1. screen' = [screen EXCEPT ![x] = MovedScreen(screen[x], x, p)]
        BY <1>1, <1>5 DEF HandleServerPacket
    <2>2. screen'[x] = MovedScreen(screen[x], x, p) /\ screen[x] \in Screen
        BY <1>3, <2>1 DEF TrafficOK
    <2>3. IF x = c THEN screen'[x].my = p[3] ELSE screen'[x].opp = p[3]
        BY <1>5, <2>2 DEF MovedScreen, Screen
    <2> QED BY <1>1, <1>2, <1>5, <2>3 DEF Shows, Place
<1>6. CASE p[1] = "GAME_OVER" /\ c = TheBoard
    <2>1. screen' = [screen EXCEPT ![x] = EndedScreen(screen[x])]
        BY <1>1, <1>6 DEF HandleServerPacket
    <2>2. screen'[x] = EndedScreen(screen[x]) /\ screen[x] \in Screen
        BY <1>3, <2>1 DEF TrafficOK
    <2>3. screen'[x].isPlaying = FALSE
        BY <2>2 DEF EndedScreen, Screen
    <2> QED BY <1>1, <1>2, <1>6, <2>3 DEF Shows, Place
<1> QED BY <1>1, <1>2, <1>4, <1>5, <1>6 DEF Places

\* A packet that says nothing of c leaves it as it is shown, or misleads the
\* player.
LEMMA ShownStays ==
    ASSUME TypeOK, RoomsSound, SeatInv, TrafficOK,
           NEW o \in Objects, Playing(heap[o]),
           NEW x \in Players(heap[o]), NEW c \in Told(heap[o]),
           HandleServerPacket(x), ~Places(Head(wire[x]), heap[o], c)
    PROVE  x \in misled' \/ (misled' = misled /\ Shows(x, c)' = Shows(x, c))
<1>1. PICK p : p = Head(wire[x])
    OBVIOUS
<1>2. PICK r : r = heap[o]
    OBVIOUS
<1>3. /\ r.Player1 # r.Player2 /\ x \in Clients /\ x # TheBoard /\ SettledIn(x, o)
      /\ x \in {r.Player1, r.Player2} /\ c \in {r.Player1, r.Player2, TheBoard}
      /\ TheBoard \notin Players(r)
    BY <1>2, RunningGame, RoomAssumption DEF Players, Told, TheBoard
<1>4. p \in Packets /\ misled' = MisledBy(x, p)
    BY <1>1, <1>3 DEF HandleServerPacket, TrafficOK
<1>5. ASSUME Timely(x, p)
      PROVE  \/ p = GameStart(r)
             \/ p[1] = "PLAYER_MOVE" /\ p[2] \in Players(r)
             \/ p[1] = "GAME_OVER" /\ p[2] \in Players(r)
    <2>1. PICK q \in Objects :
             /\ Playing(heap[q]) /\ x \in Players(heap[q])
             /\ \/ p = GameStart(heap[q])
                \/ p[1] = "PLAYER_MOVE" /\ p[2] \in Players(heap[q])
                \/ p[1] = "GAME_OVER" /\ p[2] \in Players(heap[q])
        BY <1>5 DEF Timely
    <2>2. SettledIn(x, q)
        BY <2>1, RunningGame DEF Players
    <2>3. q = o
        BY <1>3, <2>2 DEF SettledIn
    <2> QED BY <1>2, <2>1, <2>3
<1>6. CASE ~Timely(x, p)
    BY <1>4, <1>6 DEF MisledBy
<1>7. CASE Timely(x, p) /\ p[1] = "PLAYER_MOVE"
    <2>1. misled' = misled
        BY <1>4, <1>7 DEF MisledBy
    <2>2. p[2] # c /\ p[2] \in {r.Player1, r.Player2}
        BY <1>1, <1>2, <1>3, <1>5, <1>7 DEF Places, GameStart, Players
    <2>3. screen' = [screen EXCEPT ![x] = MovedScreen(screen[x], x, p)]
        BY <1>1, <1>7 DEF HandleServerPacket
    <2>4. screen'[x] = MovedScreen(screen[x], x, p) /\ screen[x] \in Screen
        BY <1>3, <2>3 DEF TrafficOK
    <2>5. screen'[x].isPlaying = screen[x].isPlaying
        BY <2>4 DEF MovedScreen, Screen
    <2>6. c # TheBoard =>
            IF x = c THEN screen'[x].my = screen[x].my ELSE screen'[x].opp = screen[x].opp
        BY <1>3, <2>2, <2>4 DEF MovedScreen, Screen
    <2> QED BY <2>1, <2>5, <2>6 DEF Shows
<1>8. CASE Timely(x, p) /\ p[1] = "GAME_OVER"
    <2>1. misled' = misled
        BY <1>4, <1>8 DEF MisledBy
    <2>2. c # TheBoard
        BY <1>1, <1>2, <1>5, <1>8 DEF Places, GameStart
    <2>3. screen' = [screen EXCEPT ![x] = EndedScreen(screen[x])]
        BY <1>1, <1>8 DEF HandleServerPacket
    <2>4. screen'[x] = EndedScreen(screen[x]) /\ screen[x] \in Screen
        BY <1>3, <2>3 DEF TrafficOK
    <2>5. screen'[x].my = screen[x].my /\ screen'[x].opp = screen[x].opp
        BY <2>4 DEF EndedScreen, Screen
    <2> QED BY <2>1, <2>2, <2>5 DEF Shows
<1>9. p # GameStart(r)
    BY <1>1, <1>2 DEF Places
<1> QED BY <1>5, <1>6, <1>7, <1>8, <1>9

LEMMA HandleKeepsSight ==
    ASSUME TypeOK, RoomsSound, SeatInv, TrafficOK, SightInv,
           NEW d \in Clients, HandleServerPacket(d)
    PROVE  SightInv'
<1>1. /\ wire[d] # << >> /\ wire' = [wire EXCEPT ![d] = Tail(wire[d])]
      /\ UNCHANGED <<boardVars, outbox, won>>
    BY DEF HandleServerPacket
<1>2. ASSUME NEW o \in Objects, Playing(heap[o]),
             NEW x \in Players(heap[o]), NEW c \in Told(heap[o])
      PROVE  WillSee(o, x, c)'
    <2>1. UNCHANGED <<heap, pc, pos, won>>
        BY <1>1 DEF boardVars, vars
    <2>2. PICK r : r = heap[o]
        OBVIOUS
    <2>3. heap'[o] = r /\ GameStart(r) = GameStart(heap[o])'
        BY <2>1, <2>2 DEF GameStart
    <2>4. WillSee(o, x, c)
        BY <1>2, <2>2 DEF SightInv
    <2>5. x \in Clients
        BY <1>2, RunningGame DEF Players
    <2>6. CASE Pending(r, x, c)
        BY <1>1, <2>1, <2>2, <2>3, <2>6 DEF WillSee, Pending, Speaks, Places, Players
    <2>7. CASE c = r.CurrentTurn /\ ~Apart(r)
        BY <2>1, <2>2, <2>7 DEF WillSee, Apart
    <2>8. CASE x # d
        <3>1. wire'[x] = wire[x] /\ screen'[x] = screen[x]
            BY <1>1, <2>5, <2>8 DEF HandleServerPacket, TrafficOK
        <3>2. x \in misled => x \in misled'
            BY <2>8 DEF HandleServerPacket, MisledBy
        <3>3. LastSays(wire[x], r, c, Fact(o, c)) \/ AlreadyShows(o, x, c) => WillSee(o, x, c)'
            BY <2>1, <2>2, <2>3, <3>1, <3>2
            DEF WillSee, LastSays, AlreadyShows, Shows, Fact, Places, Place,
                Players
        <3> QED BY <2>2, <2>4, <2>6, <2>7, <3>3 DEF WillSee
    <2>9. CASE x = d
        <3>1. PICK q : q = wire[x]
            OBVIOUS
        <3>2. wire'[x] = Tail(q) /\ q \in Seq(Packets) /\ q # << >>
            BY <1>1, <2>5, <2>9, <3>1 DEF TrafficOK
        <3>3. ASSUME \A i \in DOMAIN Tail(q) : ~Places(Tail(q)[i], r, c),
                     x \in misled' \/ Shows(x, c)' = Fact(o, c)
              PROVE  WillSee(o, x, c)'
            BY <2>1, <2>2, <2>3, <3>2, <3>3 DEF WillSee, AlreadyShows, Fact, Places, Players
        <3>4. CASE LastSays(q, r, c, Fact(o, c))
            <4>1. CASE LastSays(Tail(q), r, c, Fact(o, c))
                BY <2>1, <2>2, <2>3, <3>2, <4>1 DEF WillSee, LastSays, Fact, Places, Place, Players
            <4>2. CASE /\ Places(Head(q), r, c) /\ Place(Head(q), r, c) = Fact(o, c)
                       /\ \A i \in DOMAIN Tail(q) : ~Places(Tail(q)[i], r, c)
                <5>1. Shows(x, c)' = Fact(o, c)
                    BY <1>2, <2>2, <2>9, <3>1, <4>2, ShownPlaces
                <5> QED BY <3>3, <4>2, <5>1
            <4> QED BY <3>2, <3>4, <4>1, <4>2, LastOfTail
        <3>5. CASE AlreadyShows(o, x, c)
            <4>1. \A i \in DOMAIN q : ~Places(q[i], r, c)
                BY <2>2, <3>1, <3>5 DEF AlreadyShows
            <4>2. /\ ~Places(Head(q), r, c)
                  /\ \A i \in DOMAIN Tail(q) : ~Places(Tail(q)[i], r, c)
                BY <3>2, <4>1, LastOfTail
            <4>3. x \in misled' \/ (misled' = misled /\ Shows(x, c)' = Shows(x, c))
                BY <1>2, <2>2, <2>9, <3>1, <4>2, ShownStays
            <4>4. x \in misled' \/ Shows(x, c)' = Fact(o, c)
                BY <3>5, <4>3 DEF AlreadyShows
            <4> QED BY <3>3, <4>2, <4>4
        <3> QED BY <2>2, <2>4, <2>6, <2>7, <3>1, <3>4, <3>5 DEF WillSee
    <2> QED BY <2>8, <2>9
<1>3. \A u \in Tasks : Speaks(u)' =>
        /\ Speaks(u) /\ outbox'[u].packet = outbox[u].packet
        /\ outbox'[u].room \in {outbox[u].room, NoObject}
    BY <1>1 DEF Speaks
<1> QED BY <1>1, <1>2, <1>3, PlayersAreTasks, QuietSteps

-----------------------------------------------------------------------------
(* The players see the board.                                               *)

LEMMA InitSight == ScreenInit => SightInv
<1> SUFFICES ASSUME ScreenInit PROVE SightInv
    OBVIOUS
<1>1. \A t \in Tasks : ~Speaks(t)
    BY DEF ScreenInit, Speaks, Silent, Telling
<1>2. \A o \in Objects : heap[o].State = "WAITING" /\ heap[o].IsPlayer2Ready = FALSE
    BY DEF ScreenInit, BoardInit, Init, NewRoom
<1>3. \A c \in Clients : pc[c] = "offline"
    BY DEF ScreenInit, BoardInit, Init, Tasks
<1> QED BY <1>1, <1>2, <1>3
        DEF SightInv, SpeaksForItself, DroppedOut, AnnouncesRight, MoveLeftApart,
            ReadySilent, SpeaksRight, Playing

LEMMA SightInvariance ==
    ASSUME Undisturbed, TypeOK, RoomsSound, PlaceInv, SeatInv, TrafficOK, SightInv,
           [ScreenNext]_screenVars
    PROVE  SightInv'
<1>1. ASSUME UNCHANGED screenVars PROVE SightInv'
    <2>1. UNCHANGED <<heap, pc, CurrentRoom, pos, outbox, wire, screen, misled, won>>
        BY <1>1 DEF screenVars, boardVars, vars
    <2>2. ASSUME NEW o \in Objects, Playing(heap[o]),
                 NEW x \in Players(heap[o]), NEW c \in Told(heap[o])
          PROVE  WillSee(o, x, c)'
        <3>1. WillSee(o, x, c)
            BY <2>2 DEF SightInv
        <3> QED BY <2>1, <3>1
                DEF WillSee, Pending, LastSays, AlreadyShows, Shows, Fact, Apart, Speaks,
                    Places, Place, GameStart, Players
    <2>3. \A u \in Tasks : Speaks(u)' =>
            /\ Speaks(u) /\ outbox'[u].packet = outbox[u].packet
            /\ outbox'[u].room \in {outbox[u].room, NoObject}
        BY <2>1 DEF Speaks
    <2> QED BY <1>1, <2>2, <2>3, PlayersAreTasks, QuietSteps DEF screenVars
<1>2. ASSUME NEW t \in Tasks, BoardTask(t), Says(t) PROVE SightInv'
    <2>1. TaskStep(t)
        BY <1>2, TaskSteps
    <2>2. \A u \in Tasks : SpeaksForItself(u)'
        BY <1>2, SpeakerInvariance
    <2>3. \A c \in Clients : DroppedOut(c)'
        BY <2>1, DroppedInvariance DEF SightInv
    <2>4. \A c \in Clients : AnnouncesRight(c)' /\ MoveLeftApart(c)'
        BY <1>2, AnnounceInvariance, ApartInvariance
    <2>5. \A o \in Objects : ReadySilent(o)' /\ SpeaksRight(o)'
        BY <1>2, ReadyInvariance, SpeakingInvariance
    <2>6. ASSUME NEW o \in Objects, Playing(heap[o])',
                 NEW x \in Players(heap[o])', NEW c \in Told(heap[o])'
          PROVE  WillSee(o, x, c)'
        <3>1. heap'[o].State = "PLAYING" /\ x \in Players(heap'[o]) /\ c \in Told(heap'[o])
            BY <2>6 DEF Playing, Players, Told
        <3> QED BY <1>2, <3>1, SeeingInvariance
    <2> QED BY <2>2, <2>3, <2>4, <2>5, <2>6 DEF SightInv
<1>3. CASE BoardEnded /\ UNCHANGED <<outbox, wire, screen, misled, won>>
    BY <1>1, <1>3 DEF BoardEnded, AllEnded, screenVars, boardVars
<1> QED BY <1>1, <1>2, <1>3, SnapshotKeepsSight, EnqueueKeepsSight, HandleKeepsSight
        DEF ScreenNext

LEMMA SightAlways ==
    ASSUME Undisturbed
    PROVE  ScreenSpec => [](TypeOK /\ RoomsSound /\ SeatInv /\ TrafficOK /\ SightInv)
<1>1. TypeOK /\ RoomsSound /\ PlaceInv /\ SeatInv /\ TrafficOK /\ SightInv
      /\ [ScreenNext]_screenVars => SightInv'
    BY SightInvariance
<1>2. ScreenSpec => [](TypeOK /\ RoomsSound /\ PlaceInv /\ SeatInv)
    BY ScreenRefines, SeatsAlways, PTL
<1> QED BY <1>1, <1>2, InitSight, TrafficAlways, PTL DEF ScreenSpec

\* When everything has arrived, a player of a running game sees the board
\* unless the game is won, and the pieces where the server has them, whatever
\* order the broadcasts of START and MOVE took (ClientSession.cs:290-325,
\* Program.cs: GAME_START, PLAYER_MOVE, GAME_OVER, GAME_STOPPED).
THEOREM BoardsTheorem ==
    ASSUME Undisturbed
    PROVE  ScreenSpec => []BoardsAgree
<1>1. TypeOK /\ RoomsSound /\ SeatInv /\ TrafficOK /\ SightInv => BoardsAgree
    <2> SUFFICES ASSUME TypeOK, RoomsSound, SeatInv, TrafficOK, SightInv,
                        NEW o \in Objects, NEW c \in Clients, NEW d \in Clients,
                        Playing(heap[o]), Opposes(c, d, heap[o]), Settled(c, heap[o]),
                        c \notin misled
                 PROVE  /\ screen[c].isPlaying = (o \notin won)
                        /\ pos[c] # pos[d] => screen[c].my = pos[c] /\ screen[c].opp = pos[d]
        BY DEF BoardsAgree
    <2>1. PICK r : r = heap[o]
        OBVIOUS
    <2>2. /\ c \in Players(r) /\ d \in Players(r) /\ c # d
          /\ TheBoard \notin Players(r) /\ r.CurrentTurn \in Players(r)
        BY <2>1, RunningGame, RoomAssumption DEF Opposes, TheBoard, Players
    <2>3. ASSUME NEW p \in Told(r), Apart(r) \/ p = TheBoard
          PROVE  Shows(c, p) = Fact(o, p)
        <3>1. WillSee(o, c, p)
            BY <2>1, <2>2 DEF SightInv
        <3>2. ~Pending(r, c, p)
            <4>1. pc[r.Player1] = "idle"
                BY <2>1 DEF Settled, Players
            <4>2. Players(r) \subseteq Tasks
                BY <2>1, PlayersAreTasks
            <4>3. \A t \in Players(r) : ~Speaks(t)
                BY <4>2 DEF Settled, Speaks, Silent, Telling
            <4> QED BY <4>1, <4>3 DEF Pending
        <3>3. ~LastSays(wire[c], r, p, Fact(o, p))
            BY DEF Settled, LastSays
        <3>4. AlreadyShows(o, c, p)
            BY <2>1, <2>2, <2>3, <3>1, <3>2, <3>3 DEF WillSee
        <3> QED BY <3>4 DEF AlreadyShows
    <2>4. screen[c].isPlaying = (o \notin won)
        <3>1. Shows(c, TheBoard) = Fact(o, TheBoard)
            BY <2>3 DEF Told
        <3>2. screen[c].isPlaying \in BOOLEAN
            BY DEF TrafficOK, Screen
        <3> QED BY <3>1, <3>2 DEF Shows, Fact
    <2>5. ASSUME pos[c] # pos[d] PROVE screen[c].my = pos[c] /\ screen[c].opp = pos[d]
        <3>1. Apart(r)
            BY <2>1, <2>5 DEF Opposes, Players, Apart
        <3>2. Shows(c, c) = pos[c] /\ Shows(c, d) = pos[d]
            BY <2>2, <2>3, <3>1 DEF Told, Fact
        <3> QED BY <2>2, <3>2 DEF Shows
    <2> QED BY <2>4, <2>5
<1> QED BY <1>1, SightAlways, PTL

=============================================================================
