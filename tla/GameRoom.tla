------------------------------- MODULE GameRoom -------------------------------
(***************************************************************************)
(* The lock-protected sections of GameRoom.cs, as operators on a room      *)
(* record.  Each operator is the whole body of one lock (_lock) block; the *)
(* broadcasts that follow a block change no room state.                    *)
(***************************************************************************)
EXTENDS Naturals, FiniteSets

CONSTANTS
    Clients,    \* ClientSession objects
    NoClient,   \* the null reference of type ClientSession
    GameNames,  \* room names other than "Lobby"
    Lobby       \* the name "Lobby"

ASSUME RoomAssumption ==
    /\ NoClient \notin Clients
    /\ Lobby \notin GameNames
    /\ IsFiniteSet(Clients)

MAX_PLAYERS == 2

RoomNames == GameNames \cup {Lobby}

RoomState == {"WAITING", "PLAYING"}

Room == [Name: RoomNames,
         clients: SUBSET Clients,
         State: RoomState,
         IsPlayer2Ready: BOOLEAN,
         Player1: Clients \cup {NoClient},
         Player2: Clients \cup {NoClient},
         CurrentTurn: Clients \cup {NoClient}]

NewRoom(name) ==
    [Name |-> name, clients |-> {}, State |-> "WAITING",
     IsPlayer2Ready |-> FALSE,
     Player1 |-> NoClient, Player2 |-> NoClient, CurrentTurn |-> NoClient]

IsGameRoom(r) == r.Name # Lobby

-----------------------------------------------------------------------------
(* TryAddClient: a game room takes two members; the first free slot goes to *)
(* a newcomer, a client that is already in the list changes nothing.        *)

HasSpace(r) == IsGameRoom(r) => Cardinality(r.clients) < MAX_PLAYERS

WithClient(r, c) ==
    LET takes1 == IsGameRoom(r) /\ r.Player1 = NoClient
        takes2 == IsGameRoom(r) /\ r.Player1 # NoClient /\ r.Player2 = NoClient
    IN  IF c \in r.clients THEN r
        ELSE [r EXCEPT !.clients = @ \cup {c},
                       !.Player1 = IF takes1 THEN c ELSE @,
                       !.Player2 = IF takes2 THEN c ELSE @]

-----------------------------------------------------------------------------
(* RemoveClientAsync: the block never asks whether the client was in the    *)
(* list.  A running game is stopped; the last member out leaves the slots   *)
(* as they are (the room is about to be dropped); otherwise the guest       *)
(* inherits the host's slot.  When there is no guest to inherit it,         *)
(* newHostName = Player1.NickName dereferences null after both slots were   *)
(* written and before IsPlayer2Ready is.                                    *)

\* Mutant: the Lobby is dropped like a game room.
IsEmptiedEvenLobby(r, c) == r.clients \subseteq {c}

IsEmptied(r, c) == IsGameRoom(r) /\ r.clients \subseteq {c}

\* Mutant: the host's slot is handed over in an empty room too.
HostLeavesEvenAlone(r, c) == IsGameRoom(r) /\ r.Player1 = c

HostLeaves(r, c) == IsGameRoom(r) /\ ~IsEmptied(r, c) /\ r.Player1 = c

RemovalThrows(r, c) == HostLeaves(r, c) /\ r.Player2 = NoClient

\* Mutant: a guest that leaves keeps its slot.
GuestLeavesNever(r, c) == FALSE

GuestLeaves(r, c) ==
    IsGameRoom(r) /\ ~IsEmptied(r, c) /\ r.Player1 # c /\ r.Player2 = c

WithoutClientBut(r, c, state, ready) ==
    [r EXCEPT !.clients = @ \ {c},
              !.State = state,
              !.CurrentTurn = IF r.State = "PLAYING" THEN NoClient ELSE @,
              !.Player1 = IF HostLeaves(r, c) THEN r.Player2 ELSE @,
              !.Player2 = IF HostLeaves(r, c) \/ GuestLeaves(r, c)
                          THEN NoClient ELSE @,
              !.IsPlayer2Ready = ready]

\* Mutants: the game goes on; the guest's readiness outlives it.
WithoutClientPlaying(r, c) == WithoutClientBut(r, c, r.State, FALSE)
WithoutClientReady(r, c) == WithoutClientBut(r, c, "WAITING", r.IsPlayer2Ready)

WithoutClient(r, c) ==
    WithoutClientBut(r, c, "WAITING", r.IsPlayer2Ready /\ RemovalThrows(r, c))

-----------------------------------------------------------------------------
(* SwitchTurn does not look at State: it also runs on a stopped game.       *)

TurnSwitched(r) ==
    [r EXCEPT !.CurrentTurn = IF @ = r.Player1 THEN r.Player2 ELSE r.Player1]

(* HandleReadyAsync: only the guest's READY toggles, and only while waiting. *)
ReadyToggled(r, c) ==
    IF r.State # "PLAYING" /\ c = r.Player2
    THEN [r EXCEPT !.IsPlayer2Ready = ~ @]
    ELSE r

(* HandleStartAsync: the conditions under which the block starts a game.    *)
(* Player2.SetPosition would throw with the game already marked PLAYING if  *)
(* the guest's slot were empty.                                             *)
\* Mutant: neither the number of members nor the guest's READY is asked for.
CanStartAlone(r, c) == r.State # "PLAYING" /\ c = r.Player1

CanStart(r, c) ==
    /\ r.State # "PLAYING"
    /\ c = r.Player1
    /\ Cardinality(r.clients) >= MAX_PLAYERS
    /\ r.IsPlayer2Ready

\* Mutant: the guest begins.
StartedByGuest(r) == [r EXCEPT !.State = "PLAYING", !.CurrentTurn = r.Player2]

Started(r) == [r EXCEPT !.State = "PLAYING", !.CurrentTurn = r.Player1]

(* GAME_START needs both nicknames: a null slot throws.                     *)
BothSeated(r) == r.Player1 # NoClient /\ r.Player2 # NoClient

-----------------------------------------------------------------------------
(***************************************************************************)
(* What the room lock guarantees of one room, whatever order the sections  *)
(* run in: a game room never holds more than MAX_PLAYERS members; a game   *)
(* is played by a full room with both slots taken and the turn with one of *)
(* the two (so SwitchTurn and MOVE work on players); readiness belongs to  *)
(* somebody; the Lobby never has players and never plays.                  *)
(***************************************************************************)
CapacityKept(r) == IsGameRoom(r) => Cardinality(r.clients) <= MAX_PLAYERS

GameIsSeated(r) ==
    r.State = "PLAYING" =>
        /\ Cardinality(r.clients) = MAX_PLAYERS
        /\ BothSeated(r)
        /\ r.CurrentTurn \in {r.Player1, r.Player2}

ReadyIsGuests(r) == r.IsPlayer2Ready => r.Player2 # NoClient

LobbyIsIdle(r) ==
    ~IsGameRoom(r) => /\ r.State = "WAITING"
                      /\ r.Player1 = NoClient
                      /\ r.Player2 = NoClient

RoomSound(r) ==
    CapacityKept(r) /\ GameIsSeated(r) /\ ReadyIsGuests(r) /\ LobbyIsIdle(r)

=============================================================================
