------------------------------ MODULE ChatServer ------------------------------
(***************************************************************************)
(* The live chat server: ClientSession.cs, RoomManager.cs, GameRoom.cs and *)
(* the heartbeat evictions of ServerManager.cs, run by thread-pool tasks   *)
(* that interleave between lock blocks.                                    *)
(*                                                                         *)
(* A task is a session's ProcessAsync loop (one per client) or one of the  *)
(* RoomManager.RemoveClientAsync calls the heartbeat loop starts and does  *)
(* not await.  pc[t] is the next lock block, or the next read of shared    *)
(* state, that task t runs.  Rooms are objects: a name may be bound to     *)
(* another object than the one a task still holds.                         *)
(*                                                                         *)
(* Left out: packet contents and their delivery (EnqueuePacketAsync never  *)
(* throws); board positions (a MOVE's rule check and its outcome are       *)
(* choices here); both are added by BoardGame and GameScreen.  Time is     *)
(* left out too: between two steps of a task any length of time may pass,  *)
(* so any session may have been silent for 15 seconds when the heartbeat   *)
(* loop looks at it.                                                       *)
(***************************************************************************)
EXTENDS GameRoom

CONSTANTS
    Evictors,   \* the RemoveClientAsync calls the heartbeat loop may have open
    Objects,    \* GameRoom object identities
    NoObject,   \* the null reference of type GameRoom
    LobbyRoom,  \* the object made by the RoomManager constructor
    Nicks,      \* nicknames a client may ask for
    Unknown,    \* the initial NickName, "Unknown"
    Fold,       \* OrdinalIgnoreCase: the key a nickname is compared by
    Asks,       \* the nicknames each client may ask for
    Commands,   \* the commands clients send, beside LOGIN
    Rejoin,     \* whether a client may JOIN_ROOM the room it is in
    Serial      \* whether handlers and evictions run one at a time

ASSUME ChatAssumption ==
    /\ Clients \cap Evictors = {}
    /\ LobbyRoom \in Objects
    /\ NoObject \notin Objects
    /\ DOMAIN Fold = Nicks
    /\ Asks \in [Clients -> SUBSET Nicks]
    /\ Commands \subseteq {"JOIN_ROOM", "CHAT", "READY", "START", "MOVE", "QUIT"}
    /\ Rejoin \in BOOLEAN
    /\ Serial \in BOOLEAN

Tasks == Clients \cup Evictors

VARIABLES
    rooms,        \* RoomManager._rooms: name -> object
    heap,         \* the state of every GameRoom object
    sessions,     \* ServerManager._sessions
    nickNames,    \* ServerManager._loggedInNickNames (keys)
    NickName, IsLoggedIn, CurrentRoom,  \* ClientSession properties
    pc,
    target,       \* the roomName argument of MoveClientToRoomAsync
    oldRoom,      \* the room a task is leaving, or the one it is working on
    newRoom,      \* the room a session is entering
    victim        \* the session an evictor removes

registry == <<sessions, nickNames, NickName, IsLoggedIn>>
locals == <<target, oldRoom, newRoom>>
vars == <<rooms, heap, registry, CurrentRoom, pc, locals, victim>>

SessionPC ==
    {"offline", "idle",
     "moveLookup", "moveAdd", "moveLeave", "moveUnlist",
     "moveEnter", "moveCheck",
     "ready", "start", "startAnnounce", "chat",
     "playState", "playTurn", "playOpponent", "playSwitch",
     "cleanup", "removeLeave", "removeUnlist", "removeClear",
     "drop", "unregister", "closed", "faulted"}

EvictorPC == {"none", "removeLeave", "removeUnlist", "removeClear"}

Init ==
    /\ rooms = [n \in RoomNames |-> IF n = Lobby THEN LobbyRoom ELSE NoObject]
    /\ heap = [o \in Objects |-> NewRoom(Lobby)]
    /\ sessions = {}
    /\ nickNames = {}
    /\ NickName = [c \in Clients |-> Unknown]
    /\ IsLoggedIn = [c \in Clients |-> FALSE]
    /\ CurrentRoom = [c \in Clients |-> NoObject]
    /\ pc = [t \in Tasks |-> IF t \in Clients THEN "offline" ELSE "none"]
    /\ target = [c \in Clients |-> Lobby]
    /\ oldRoom = [t \in Tasks |-> NoObject]
    /\ newRoom = [c \in Clients |-> NoObject]
    /\ victim = [e \in Evictors |-> NoClient]

-----------------------------------------------------------------------------
(* Control flow of a task.                                                  *)

Goto(t, label) == pc' = [pc EXCEPT ![t] = label]

\* The handler returns, or throws into ProcessAsync's catch and finally
\* (label "cleanup"): its locals are gone.
Leave(c, label) ==
    /\ Goto(c, label)
    /\ oldRoom' = [oldRoom EXCEPT ![c] = NoObject]
    /\ newRoom' = [newRoom EXCEPT ![c] = NoObject]
    /\ target' = [target EXCEPT ![c] = Lobby]

Resting(t) == pc[t] \in {"offline", "idle", "none", "closed", "faulted"}

AllResting == \A t \in Tasks : Resting(t)

\* A handler or an eviction starts at any time; without interleaving, when
\* every other one is done.
MayBegin == Serial => AllResting

\* A session reads the next line only when its previous handler is done;
\* every command but LOGIN needs a login.
Receives(c) == pc[c] = "idle" /\ MayBegin

Commanded(c, command) == Receives(c) /\ IsLoggedIn[c] /\ command \in Commands

\* A null CurrentRoom at a second read: NullReferenceException.
RoomIsGone(c) == CurrentRoom[c] = NoObject

InGameRoom(c) == ~RoomIsGone(c) /\ IsGameRoom(heap[CurrentRoom[c]])

\* An object nothing refers to any more: the next allocation may reuse it.
Unreferenced(o) ==
    /\ \A n \in RoomNames : rooms[n] # o
    /\ \A c \in Clients : CurrentRoom[c] # o /\ newRoom[c] # o
    /\ \A t \in Tasks : oldRoom[t] # o

SetRoom(o, r) == heap' = [heap EXCEPT ![o] = r]

-----------------------------------------------------------------------------
(* Connections.                                                             *)

Accept(c) ==
    /\ pc[c] = "offline" /\ MayBegin
    /\ sessions' = sessions \cup {c}
    /\ Goto(c, "idle")
    /\ UNCHANGED <<rooms, heap, nickNames, NickName, IsLoggedIn, CurrentRoom,
                   locals, victim>>

\* End of stream, an IOException, or (LOGIN, REQUEST_CHAT_HISTORY) a database
\* that fails while the history is read.
Disconnect(c) ==
    /\ Receives(c)
    /\ Goto(c, "cleanup")
    /\ UNCHANGED <<rooms, heap, registry, CurrentRoom, locals, victim>>

\* QUIT closes the socket; the step stands for the read that then fails.
\* Lines the reader has already buffered are still handled: they count as
\* received before the QUIT, which changes nothing they could see.
Quit(c) ==
    /\ Commanded(c, "QUIT")
    /\ Goto(c, "cleanup")
    /\ UNCHANGED <<rooms, heap, registry, CurrentRoom, locals, victim>>

\* MoveClientToRoomAsync starts: oldRoom = client.CurrentRoom.
BeginMove(c, n) ==
    /\ target' = [target EXCEPT ![c] = n]
    /\ oldRoom' = [oldRoom EXCEPT ![c] = CurrentRoom[c]]
    /\ Goto(c, "moveLookup")
    /\ UNCHANGED <<rooms, heap, sessions, CurrentRoom, newRoom, victim>>

\* Mutant: names are compared as they are written.
LoginExact(c, n) ==
    /\ Receives(c) /\ ~IsLoggedIn[c]
    /\ n \notin {NickName[d] : d \in {d \in Clients : IsLoggedIn[d]}}
    /\ nickNames' = nickNames \cup {Fold[n]}
    /\ NickName' = [NickName EXCEPT ![c] = n]
    /\ IsLoggedIn' = [IsLoggedIn EXCEPT ![c] = TRUE]
    /\ BeginMove(c, Lobby)

\* LOGIN|n: refused (no change) when logged in already or when the key is
\* taken; otherwise the session moves on to the Lobby.
Login(c, n) ==
    /\ Receives(c) /\ ~IsLoggedIn[c]
    /\ Fold[n] \notin nickNames
    /\ nickNames' = nickNames \cup {Fold[n]}
    /\ NickName' = [NickName EXCEPT ![c] = n]
    /\ IsLoggedIn' = [IsLoggedIn EXCEPT ![c] = TRUE]
    /\ BeginMove(c, Lobby)

-----------------------------------------------------------------------------
(* MoveClientToRoomAsync.                                                   *)

JoinRoom(c, n) ==
    /\ Commanded(c, "JOIN_ROOM")
    /\ ~Rejoin /\ ~RoomIsGone(c) => heap[CurrentRoom[c]].Name # n
    /\ BeginMove(c, n)
    /\ UNCHANGED <<nickNames, NickName, IsLoggedIn>>

\* GetOrCreateRoom.
MoveLookup(c) ==
    /\ pc[c] = "moveLookup"
    /\ \/ /\ rooms[target[c]] # NoObject
          /\ newRoom' = [newRoom EXCEPT ![c] = rooms[target[c]]]
          /\ UNCHANGED <<rooms, heap>>
       \/ /\ rooms[target[c]] = NoObject
          /\ \E o \in Objects :
                /\ Unreferenced(o)
                /\ newRoom' = [newRoom EXCEPT ![c] = o]
                /\ rooms' = [rooms EXCEPT ![target[c]] = o]
                /\ SetRoom(o, NewRoom(target[c]))
    /\ target' = [target EXCEPT ![c] = Lobby]
    /\ Goto(c, "moveAdd")
    /\ UNCHANGED <<registry, CurrentRoom, oldRoom, victim>>

Added(c) ==
    SetRoom(newRoom[c], WithClient(heap[newRoom[c]], c)) /\ UNCHANGED locals

\* Mutant: ROOM_FULL does not end the handler.
MoveAddToFull(c) ==
    /\ pc[c] = "moveAdd"
    /\ IF HasSpace(heap[newRoom[c]]) THEN Added(c) ELSE UNCHANGED <<heap, locals>>
    /\ Goto(c, IF oldRoom[c] = NoObject THEN "moveEnter" ELSE "moveLeave")
    /\ UNCHANGED <<rooms, registry, CurrentRoom, victim>>

\* TryAddClient; a full room ends the handler with ERROR|ROOM_FULL.
MoveAdd(c) ==
    /\ pc[c] = "moveAdd"
    /\ \/ /\ HasSpace(heap[newRoom[c]])
          /\ Added(c)
          /\ Goto(c, IF oldRoom[c] = NoObject THEN "moveEnter" ELSE "moveLeave")
       \/ /\ ~HasSpace(heap[newRoom[c]])
          /\ Leave(c, "idle")
          /\ UNCHANGED heap
    /\ UNCHANGED <<rooms, registry, CurrentRoom, victim>>

\* oldRoom.RemoveClientAsync.
MoveLeave(c) ==
    LET r == heap[oldRoom[c]] IN
    /\ pc[c] = "moveLeave"
    /\ SetRoom(oldRoom[c], WithoutClient(r, c))
    /\ IF RemovalThrows(r, c) THEN Leave(c, "cleanup")
       ELSE /\ Goto(c, IF IsEmptied(r, c) THEN "moveUnlist" ELSE "moveEnter")
            /\ UNCHANGED locals
    /\ UNCHANGED <<rooms, registry, CurrentRoom, victim>>

\* _rooms.Remove(oldRoom.Name): by name, whatever object the name has now.
MoveUnlist(c) ==
    /\ pc[c] = "moveUnlist"
    /\ rooms' = [rooms EXCEPT ![heap[oldRoom[c]].Name] = NoObject]
    /\ Goto(c, "moveEnter")
    /\ UNCHANGED <<heap, registry, CurrentRoom, locals, victim>>

MoveEnter(c) ==
    /\ pc[c] = "moveEnter"
    /\ CurrentRoom' = [CurrentRoom EXCEPT ![c] = newRoom[c]]
    /\ Goto(c, "moveCheck")
    /\ UNCHANGED <<rooms, heap, registry, locals, victim>>

\* newRoom.State is read; for a game in progress GAME_START is built from the
\* two slots, one of which may have been emptied since.
MoveCheck(c) ==
    /\ pc[c] = "moveCheck"
    /\ \E label \in IF heap[newRoom[c]].State = "PLAYING"
                    THEN {"idle", "cleanup"} ELSE {"idle"} : Leave(c, label)
    /\ UNCHANGED <<rooms, heap, registry, CurrentRoom, victim>>

-----------------------------------------------------------------------------
(* READY, START and CHAT: CurrentRoom is tested, then read again to call.   *)

CallsRoom(c, command, label) ==
    /\ Commanded(c, command)
    /\ InGameRoom(c)
    /\ Goto(c, label)
    /\ UNCHANGED <<rooms, heap, registry, CurrentRoom, locals, victim>>

Ready(c) == CallsRoom(c, "READY", "ready")
Start(c) == CallsRoom(c, "START", "start")
Move(c) == CallsRoom(c, "MOVE", "playState")

Chat(c) ==
    /\ Commanded(c, "CHAT")
    /\ ~RoomIsGone(c)
    /\ Goto(c, "chat")
    /\ UNCHANGED <<rooms, heap, registry, CurrentRoom, locals, victim>>

\* The call made on a null CurrentRoom throws.
ThrowsNull(c, label) ==
    /\ pc[c] = label
    /\ RoomIsGone(c)
    /\ Leave(c, "cleanup")
    /\ UNCHANGED <<rooms, heap, registry, CurrentRoom, victim>>

HandleReady(c) ==
    \/ ThrowsNull(c, "ready")
    \/ /\ pc[c] = "ready" /\ ~RoomIsGone(c)
       /\ SetRoom(CurrentRoom[c], ReadyToggled(heap[CurrentRoom[c]], c))
       /\ Goto(c, "idle")
       /\ UNCHANGED <<rooms, registry, CurrentRoom, locals, victim>>

HandleStart(c) ==
    LET r == heap[CurrentRoom[c]] IN
    \/ ThrowsNull(c, "start")
    \/ /\ pc[c] = "start" /\ ~RoomIsGone(c) /\ ~CanStart(r, c)
       /\ Goto(c, "idle")
       /\ UNCHANGED <<rooms, heap, registry, CurrentRoom, locals, victim>>
    \/ /\ pc[c] = "start" /\ ~RoomIsGone(c) /\ CanStart(r, c)
       /\ SetRoom(CurrentRoom[c], Started(r))
       /\ \/ /\ r.Player2 # NoClient
             /\ oldRoom' = [oldRoom EXCEPT ![c] = CurrentRoom[c]]
             /\ Goto(c, "startAnnounce")
             /\ UNCHANGED <<target, newRoom>>
          \/ /\ r.Player2 = NoClient
             /\ Leave(c, "cleanup")
       /\ UNCHANGED <<rooms, registry, CurrentRoom, victim>>

\* GAME_START reads both slots after the lock was released.
StartAnnounce(c) ==
    /\ pc[c] = "startAnnounce"
    /\ Leave(c, IF BothSeated(heap[oldRoom[c]]) THEN "idle" ELSE "cleanup")
    /\ UNCHANGED <<rooms, heap, registry, CurrentRoom, victim>>

\* The message is saved first (a failing database throws), then sent to the
\* room CurrentRoom refers to by now.
ChatSend(c) ==
    \/ ThrowsNull(c, "chat")
    \/ /\ pc[c] = "chat" /\ ~RoomIsGone(c)
       /\ \E label \in {"idle", "cleanup"} : Goto(c, label)
       /\ UNCHANGED <<rooms, heap, registry, CurrentRoom, locals, victim>>

-----------------------------------------------------------------------------
(* MOVE: State, then CurrentTurn, then the opponent are read without the    *)
(* lock; the turn is passed on after the move was broadcast.  A move that   *)
(* wins passes no turn and leaves State as it is.                           *)

PlayStep(c, label, passes, next) ==
    \/ ThrowsNull(c, label)
    \/ /\ pc[c] = label /\ ~RoomIsGone(c)
       /\ Goto(c, IF passes THEN next ELSE "idle")
       /\ UNCHANGED <<rooms, heap, registry, CurrentRoom, locals, victim>>

PlayState(c) ==
    PlayStep(c, "playState", heap[CurrentRoom[c]].State = "PLAYING", "playTurn")

\* Mutant: whose turn it is is not asked.
PlayTurnOfAnyone(c) == PlayStep(c, "playTurn", TRUE, "playOpponent")

PlayTurn(c) ==
    PlayStep(c, "playTurn", heap[CurrentRoom[c]].CurrentTurn = c, "playOpponent")

\* A coordinate that is malformed, off the board or not one step away.
PlayRefused(c) ==
    /\ pc[c] = "playOpponent"
    /\ Goto(c, "idle")
    /\ UNCHANGED <<rooms, heap, registry, CurrentRoom, locals, victim>>

\* A legal move, which passes the turn on unless it wins.
PlayLegal(c, passes) == PlayStep(c, "playOpponent", passes, "playSwitch")

PlayOpponent(c) ==
    PlayRefused(c) \/ \E passes \in BOOLEAN : PlayLegal(c, passes)

PlaySwitch(c) ==
    \/ ThrowsNull(c, "playSwitch")
    \/ /\ pc[c] = "playSwitch" /\ ~RoomIsGone(c)
       /\ SetRoom(CurrentRoom[c], TurnSwitched(heap[CurrentRoom[c]]))
       /\ Goto(c, "idle")
       /\ UNCHANGED <<rooms, registry, CurrentRoom, locals, victim>>

-----------------------------------------------------------------------------
(* RoomManager.RemoveClientAsync, run by a session's cleanup or by an       *)
(* evictor.                                                                 *)

Subject(t) == IF t \in Clients THEN t ELSE victim[t]

\* Mutant: an evictor's task goes on with the cleanup.
RemoveReturnsToCleanUp(t, label) ==
    /\ Goto(t, label)
    /\ oldRoom' = [oldRoom EXCEPT ![t] = NoObject]
    /\ UNCHANGED <<target, newRoom, victim>>

\* The call returns to CleanUpSessionAsync, or the evictor's task ends.
RemoveReturns(t, label) ==
    /\ Goto(t, IF t \in Clients THEN label ELSE "none")
    /\ oldRoom' = [oldRoom EXCEPT ![t] = NoObject]
    /\ victim' = IF t \in Clients THEN victim
                 ELSE [victim EXCEPT ![t] = NoClient]
    /\ UNCHANGED <<target, newRoom>>

\* The call starts: room = client.CurrentRoom, which is not null.
BeginRemove(t, c) ==
    /\ oldRoom' = [oldRoom EXCEPT ![t] = CurrentRoom[c]]
    /\ Goto(t, "removeLeave")
    /\ UNCHANGED <<target, newRoom>>

\* Mutant: an emptied room stays on the list.
RemoveLeaveListed(t) ==
    /\ pc[t] = "removeLeave"
    /\ SetRoom(oldRoom[t], WithoutClient(heap[oldRoom[t]], Subject(t)))
    /\ Goto(t, "removeClear")
    /\ UNCHANGED <<rooms, registry, CurrentRoom, locals, victim>>

\* room.RemoveClientAsync; when it throws inside a cleanup, the cleanup ends
\* there: the session stays listed and its nickname stays taken.
RemoveLeave(t) ==
    LET r == heap[oldRoom[t]] IN
    /\ pc[t] = "removeLeave"
    /\ SetRoom(oldRoom[t], WithoutClient(r, Subject(t)))
    /\ IF RemovalThrows(r, Subject(t)) THEN RemoveReturns(t, "faulted")
       ELSE /\ Goto(t, IF IsEmptied(r, Subject(t))
                       THEN "removeUnlist" ELSE "removeClear")
            /\ UNCHANGED <<locals, victim>>
    /\ UNCHANGED <<rooms, registry, CurrentRoom>>

RemoveUnlist(t) ==
    /\ pc[t] = "removeUnlist"
    /\ rooms' = [rooms EXCEPT ![heap[oldRoom[t]].Name] = NoObject]
    /\ Goto(t, "removeClear")
    /\ UNCHANGED <<heap, registry, CurrentRoom, locals, victim>>

\* Mutant: the session goes on referring to the room.
RemoveClearNothing(t) ==
    /\ pc[t] = "removeClear"
    /\ RemoveReturns(t, "drop")
    /\ UNCHANGED <<rooms, heap, registry, CurrentRoom>>

\* client.CurrentRoom = null, after the room was told.
RemoveClear(t) ==
    /\ pc[t] = "removeClear"
    /\ CurrentRoom' = [CurrentRoom EXCEPT ![Subject(t)] = NoObject]
    /\ RemoveReturns(t, "drop")
    /\ UNCHANGED <<rooms, heap, registry>>

-----------------------------------------------------------------------------
(* CleanUpSessionAsync and the heartbeat loop.                              *)

\* A session outside every room is dropped at once.
CleanUp(c) ==
    /\ pc[c] = "cleanup"
    /\ \/ RoomIsGone(c) /\ Goto(c, "drop") /\ UNCHANGED locals
       \/ ~RoomIsGone(c) /\ BeginRemove(c, c)
    /\ UNCHANGED <<rooms, heap, registry, CurrentRoom, victim>>

RemoveSession(c) ==
    /\ pc[c] = "drop"
    /\ sessions' = sessions \ {c}
    /\ Goto(c, "unregister")
    /\ UNCHANGED <<rooms, heap, nickNames, NickName, IsLoggedIn, CurrentRoom,
                   locals, victim>>

\* Mutant: the name is looked up as it is written.
UnregisterExact(c) ==
    /\ pc[c] = "unregister"
    /\ nickNames' = nickNames \ {NickName[c]}
    /\ Goto(c, "closed")
    /\ UNCHANGED <<rooms, heap, sessions, NickName, IsLoggedIn, CurrentRoom,
                   locals, victim>>

\* UnregisterNickName unless the name is still "Unknown", then Close.
UnregisterNickName(c) ==
    /\ pc[c] = "unregister"
    /\ nickNames' = IF NickName[c] = Unknown THEN nickNames
                    ELSE nickNames \ {Fold[NickName[c]]}
    /\ Goto(c, "closed")
    /\ UNCHANGED <<rooms, heap, sessions, NickName, IsLoggedIn, CurrentRoom,
                   locals, victim>>

\* A listed session that has been silent for more than 15 seconds; outside
\* every room the call does nothing.  The copy of the list is taken here: an
\* earlier copy would only add sessions that have left their room since.
Evict(e, c) ==
    /\ pc[e] = "none" /\ MayBegin
    /\ c \in sessions
    /\ ~RoomIsGone(c)
    /\ victim' = [victim EXCEPT ![e] = c]
    /\ BeginRemove(e, c)
    /\ UNCHANGED <<rooms, heap, registry, CurrentRoom>>

-----------------------------------------------------------------------------
Input(c) ==
    \/ Accept(c) \/ Disconnect(c) \/ Quit(c)
    \/ \E n \in Asks[c] : Login(c, n)
    \/ \E n \in RoomNames : JoinRoom(c, n)
    \/ Ready(c) \/ Start(c) \/ Chat(c) \/ Move(c)

\* The two steps that move pieces on the board.
BoardHandler(c) == HandleStart(c) \/ PlayOpponent(c)

RoomHandler(c) ==
    \/ MoveLookup(c) \/ MoveAdd(c) \/ MoveLeave(c)
    \/ MoveUnlist(c) \/ MoveEnter(c) \/ MoveCheck(c)
    \/ HandleReady(c) \/ StartAnnounce(c) \/ ChatSend(c)
    \/ PlayState(c) \/ PlayTurn(c) \/ PlaySwitch(c)
    \/ CleanUp(c) \/ RemoveSession(c) \/ UnregisterNickName(c)

Handler(c) == BoardHandler(c) \/ RoomHandler(c)

Removal(t) ==
    RemoveLeave(t) \/ RemoveUnlist(t) \/ RemoveClear(t)

SessionStep(c) == Input(c) \/ Handler(c) \/ Removal(c)

EvictorStep(e) == (\E c \in Clients : Evict(e, c)) \/ Removal(e)

Ended(c) == pc[c] \in {"closed", "faulted"}

\* Every session came and went: the server waits for connections that this
\* instance does not have.
AllEnded ==
    /\ \A c \in Clients : Ended(c)
    /\ \A e \in Evictors : pc[e] = "none"
    /\ UNCHANGED vars

Next ==
    \/ \E c \in Clients : SessionStep(c)
    \/ \E e \in Evictors : EvictorStep(e)
    \/ AllEnded

Spec == Init /\ [][Next]_vars

-----------------------------------------------------------------------------
ControlOK ==
    /\ pc \in [Tasks -> SessionPC \cup EvictorPC]
    /\ \A c \in Clients : pc[c] \in SessionPC
    /\ \A e \in Evictors : pc[e] \in EvictorPC

\* Every variable keeps its type; an evictor never gets into the part of the
\* cleanup that is the session's own.
TypeOK ==
    /\ rooms \in [RoomNames -> Objects \cup {NoObject}]
    /\ heap \in [Objects -> Room]
    /\ sessions \subseteq Clients
    /\ nickNames \subseteq {Fold[n] : n \in Nicks}
    /\ NickName \in [Clients -> Nicks \cup {Unknown}]
    /\ IsLoggedIn \in [Clients -> BOOLEAN]
    /\ CurrentRoom \in [Clients -> Objects \cup {NoObject}]
    /\ ControlOK
    /\ target \in [Clients -> RoomNames]
    /\ oldRoom \in [Tasks -> Objects \cup {NoObject}]
    /\ newRoom \in [Clients -> Objects \cup {NoObject}]
    /\ victim \in [Evictors -> Clients \cup {NoClient}]

\* The objects a task can still reach; what an unreachable one holds is noise.
Live == [o \in Objects |-> IF Unreferenced(o) THEN NewRoom(Lobby) ELSE heap[o]]
=============================================================================
