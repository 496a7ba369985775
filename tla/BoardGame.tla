------------------------------ MODULE BoardGame ------------------------------
(***************************************************************************)
(* The board of a game: PosX and PosY of ClientSession.cs, set by          *)
(* HandleStartAsync and by MOVE.  Every step is a step of ChatServer; the  *)
(* board decides how a MOVE ends, which ChatServer leaves open.            *)
(***************************************************************************)
EXTENDS ChatServer, Integers

CONSTANTS MaxX, MaxY  \* the highest coordinates: both 4 in the code

ASSUME BoardAssumption == MaxX \in Nat \ {0} /\ MaxY \in Nat

VARIABLE pos   \* pos[c] = <<PosX, PosY>> of session c

boardVars == <<vars, pos>>

\* The coordinates that pass the bounds check.
Cells == (0..MaxX) \X (0..MaxY)

Origin == <<0, 0>>

\* Mutant: the guest's corner is off by one.
FarCornerBeyond == <<MaxX + 1, MaxY + 1>>

FarCorner == <<MaxX, MaxY>>

BoardInit == Init /\ pos = [c \in Clients |-> Origin]

\* One step in any of the eight directions.
Near(p, q) ==
    /\ p # q
    /\ p[1] - q[1] \in -1..1
    /\ p[2] - q[2] \in -1..1

\* Player1.SetPosition(0,0), then Player2.SetPosition(4,4).
Deployed(r) ==
    [c \in Clients |-> CASE c = r.Player2 -> FarCorner
                         [] c = r.Player1 /\ c # r.Player2 -> Origin
                         [] OTHER -> pos[c]]

StartsGame(c) ==
    /\ pc[c] = "start" /\ ~RoomIsGone(c)
    /\ CanStart(heap[CurrentRoom[c]], c)

StartBoard(c) ==
    /\ HandleStart(c)
    /\ pos' = IF StartsGame(c) THEN Deployed(heap[CurrentRoom[c]]) ELSE pos

OpponentOf(r, c) == IF r.Player1 = c THEN r.Player2 ELSE r.Player1

\* The opponent is where c has just moved to.
Wins(c, cell) ==
    LET opponent == OpponentOf(heap[CurrentRoom[c]], c)
        moved == [pos EXCEPT ![c] = cell]
    IN  opponent # NoClient /\ moved[opponent] = cell

\* MOVE to a cell one step away.  The position is set before the room is
\* looked at again, so it also changes when the opponent or the room is gone.
MovePiece(c, cell) ==
    /\ pc[c] = "playOpponent"
    /\ Near(pos[c], cell)
    /\ pos' = [pos EXCEPT ![c] = cell]
    /\ PlayLegal(c, ~Wins(c, cell))

OffBoard(c) == Input(c) \/ RoomHandler(c) \/ Removal(c) \/ PlayRefused(c)

BoardSession(c) ==
    \/ StartBoard(c)
    \/ \E cell \in Cells : MovePiece(c, cell)
    \/ OffBoard(c) /\ UNCHANGED pos

BoardTask(t) ==
    IF t \in Clients THEN BoardSession(t) ELSE EvictorStep(t) /\ UNCHANGED pos

BoardEnded == AllEnded /\ UNCHANGED pos

BoardNext == (\E t \in Tasks : BoardTask(t)) \/ BoardEnded

BoardSpec == BoardInit /\ [][BoardNext]_boardVars

=============================================================================
