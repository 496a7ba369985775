--------------------------- MODULE ChatProperties ---------------------------
(***************************************************************************)
(* What the chat server should keep true, and which of it survives which   *)
(* interleavings.  The runs (README.md) say under which of them each       *)
(* property holds.                                                         *)
(***************************************************************************)
EXTENDS ChatServer

\* Every GameRoom object is sound after every lock block, whatever the tasks
\* do between the blocks (GameRoom.cs: TryAddClient, RemoveClientAsync,
\* HandleReadyAsync, HandleStartAsync, SwitchTurn).
RoomsSound == \A o \in Objects : RoomSound(heap[o])

\* The Lobby made by the constructor stays the room named "Lobby": LOGIN and
\* every later JOIN_ROOM|Lobby meet in one object (RoomManager.cs).
LobbyListed == rooms[Lobby] = LobbyRoom /\ heap[LobbyRoom].Name = Lobby

\* A guest's READY is never inherited: whoever takes or leaves the second
\* slot, by arriving, leaving or being promoted to host, the room is not
\* ready afterwards, so a host cannot start a game on another guest's word.
ReadyNeverInherited ==
    [][\A o \in Objects :
         heap'[o].Player2 # heap[o].Player2 => ~heap'[o].IsPlayer2Ready]_vars

\* A closed session is forgotten by its own side: it is not listed, and it
\* refers to no room, whatever the heartbeat loop was doing to it.
ClosedIsForgotten ==
    \A c \in Clients :
        pc[c] = "closed" => c \notin sessions /\ CurrentRoom[c] = NoObject

-----------------------------------------------------------------------------
(* Nicknames.                                                               *)

Holds(c) == IsLoggedIn[c] /\ pc[c] # "closed"

Owned == {<<c, Fold[NickName[c]]>> : c \in {d \in Clients : Holds(d)}}

Keys == {Fold[n] : n \in Nicks}

Registry == INSTANCE NickRegistry
    WITH owned <- Owned, served <- {c \in Clients : IsLoggedIn[c]}

\* LOGIN and the cleanup implement the nickname registry, whatever the other
\* tasks do: names that differ only in case count as one.
RegistryContract == Registry!Spec

\* ClientSession.cs:110: the cleanup returns the nickname, so a taken key
\* belongs to a session that is still there.
NicksReturned ==
    \A k \in nickNames : \E c \in Clients : Holds(c) /\ Fold[NickName[c]] = k

-----------------------------------------------------------------------------
(* Membership.                                                              *)

\* A session between two commands is in the list of exactly the room its
\* CurrentRoom refers to, and in no list before its login and after its end,
\* as long as no eviction is half done.
MembershipAgrees ==
    \A c \in Clients, o \in Objects :
        Resting(c) /\ (\A e \in Evictors : Resting(e))
            => (c \in heap[o].clients <=> CurrentRoom[c] = o)

\* No cleanup is cut short by an exception thrown in the room.
CleanUpNeverThrows == \A c \in Clients : pc[c] # "faulted"

\* A running game is stopped by the departure of a member, never by that of
\* a client that was not in the room (GameRoom.cs:81 does not ask).
GameStopsOnDeparture ==
    [][\A o \in Objects :
         heap[o].State = "PLAYING" /\ heap'[o].State # "PLAYING"
            => heap'[o].clients # heap[o].clients]_vars

\* In a running game the turn is passed by the player that has it, although
\* MOVE tests the turn without the lock and passes it on later.
TurnPassedByHolder ==
    [][\A o \in Objects :
         /\ heap[o].State = "PLAYING" /\ heap'[o].State = "PLAYING"
         /\ heap'[o].CurrentTurn # heap[o].CurrentTurn
         => /\ pc[heap[o].CurrentTurn] = "playSwitch"
            /\ pc'[heap[o].CurrentTurn] = "idle"]_vars

\* The only handler that fails on a null slot or room is a START whose guest
\* left before GAME_START was built; every other command runs to its end.
OnlyLateStartThrows ==
    [][\A c \in Clients :
         pc[c] \notin {"idle", "chat", "startAnnounce"} /\ pc'[c] = "cleanup"
            => pc[c] = "cleanup"]_vars

-----------------------------------------------------------------------------
(* One handler at a time.                                                   *)

\* Between two handlers a game room is listed as long as it has members.
ListedIffOccupied ==
    AllResting =>
        \A n \in GameNames : rooms[n] # NoObject <=>
            \E o \in Objects : heap[o].Name = n /\ heap[o].clients # {}

\* Between two handlers the members of a listed game room hold its slots.
MembersHoldSlots ==
    AllResting =>
        \A n \in GameNames : rooms[n] # NoObject =>
            LET r == heap[rooms[n]] IN
            /\ r.clients = {r.Player1, r.Player2} \ {NoClient}
            /\ r.Player1 # r.Player2

\* A session that was added to the new room and not yet taken out of the old
\* one still counts as being in the old one.
Arriving(o) == {c \in Clients : pc[c] = "moveLeave" /\ newRoom[c] = o}

Here(o) == heap[o].clients \ Arriving(o)

\* The client that holds a slot of the room, if it is in the room.
HostIn(n) ==
    IF rooms[n] # NoObject /\ heap[rooms[n]].Player1 \in Here(rooms[n])
    THEN heap[rooms[n]].Player1 ELSE NoClient

GuestIn(n) ==
    IF rooms[n] # NoObject /\ heap[rooms[n]].Player2 \in Here(rooms[n])
    THEN heap[rooms[n]].Player2 ELSE NoClient

TurnIn(n) ==
    IF rooms[n] = NoObject THEN NoClient
    ELSE IF heap[rooms[n]].State = "PLAYING" THEN heap[rooms[n]].CurrentTurn
    ELSE NoClient

ReadyIn(n) == IF rooms[n] = NoObject THEN FALSE ELSE heap[rooms[n]].IsPlayer2Ready

Rooms == INSTANCE RoomContract
    WITH lobby <- Here(LobbyRoom),
         host <- [n \in GameNames |-> HostIn(n)],
         guest <- [n \in GameNames |-> GuestIn(n)],
         ready <- [n \in GameNames |-> ReadyIn(n)],
         turn <- [n \in GameNames |-> TurnIn(n)]

\* Without interleaving the lock blocks of a move or a removal add up to one
\* step of the contract.
RoomsFollowContract == Rooms!Spec

-----------------------------------------------------------------------------
(* What comments of the code say and the code does not do.                  *)

\* RoomManager.cs:32-33: a name that is not in the dictionary is the name of
\* no room.
AbsentMeansNoRoom ==
    \A n \in GameNames, o \in Objects :
        rooms[n] = NoObject /\ heap[o].Name = n => heap[o].clients = {}

\* ClientSession.cs:104: the cleanup takes the user out of the room.
ClosedIsNowhere ==
    \A c \in Clients, n \in RoomNames :
        pc[c] = "closed" /\ rooms[n] # NoObject => c \notin heap[rooms[n]].clients

\* RoomManager.cs:85-87: a client that is shown its new room is in that room,
\* whose members are told.
ShownRoomHasClient ==
    \A c \in Clients :
        pc[c] = "idle" /\ ~RoomIsGone(c) => c \in heap[CurrentRoom[c]].clients

=============================================================================
