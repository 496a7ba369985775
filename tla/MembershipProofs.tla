--------------------------- MODULE MembershipProofs ---------------------------
(***************************************************************************)
(* Who is in which room, for any number of clients, rooms and objects and  *)
(* every interleaving of their handlers, as long as no eviction runs       *)
(* beside a handler: either the heartbeat loop evicts nobody, or handlers  *)
(* and evictions run one at a time.  Whose turn it is needs nothing else;  *)
(* the rest also needs that no client joins the room it is in.             *)
(***************************************************************************)
EXTENDS ChatServerProofs

\* No eviction beside a handler.
Unevicted == Evictors = {} \/ Serial

\* No eviction beside a handler, and nobody joins the room it is in.
Undisturbed == ~Rejoin /\ Unevicted

-----------------------------------------------------------------------------
(* Where a session is, by what its task is about to do.                     *)

Entering == {"moveAdd", "moveLeave", "moveUnlist", "moveEnter"}
MidMove == {"playTurn", "playOpponent", "playSwitch"}
Inside == {"ready", "start", "startAnnounce", "chat", "playState"} \cup MidMove
Outside == {"offline", "idle", "cleanup", "drop", "unregister", "closed"}
Removed == {"removeUnlist", "removeClear"}
Removes == {"removeLeave"} \cup Removed

TakenOut(c) == \E t \in Tasks : pc[t] \in Removed /\ Subject(t) = c

\* The objects whose member the session is; NoObject is none.
Stays(c) ==
    IF TakenOut(c) THEN {}
    ELSE CASE pc[c] = "moveLeave" -> {oldRoom[c], newRoom[c]}
           [] pc[c] \in {"moveUnlist", "moveEnter"} -> {newRoom[c]}
           [] OTHER -> {CurrentRoom[c]}

\* What the locals of a session refer to.
Placed(c) ==
    /\ pc[c] # "faulted"
    /\ pc[c] = "offline" => ~IsLoggedIn[c]
    /\ ~IsLoggedIn[c] => CurrentRoom[c] = NoObject /\ pc[c] \in Outside
    /\ pc[c] \in Entering \cup {"moveLookup"} => oldRoom[c] = CurrentRoom[c]
    /\ pc[c] = "moveLookup" /\ CurrentRoom[c] # NoObject
         => heap[CurrentRoom[c]].Name # target[c]
    /\ pc[c] \in Entering => newRoom[c] \in Objects /\ newRoom[c] # CurrentRoom[c]
    /\ pc[c] = "moveCheck" => newRoom[c] = CurrentRoom[c]
    /\ pc[c] \in Inside \cup {"moveLeave", "moveUnlist", "moveCheck"}
         => CurrentRoom[c] \in Objects
    /\ pc[c] = "startAnnounce" => oldRoom[c] = CurrentRoom[c]

RemovesRight(t) ==
    pc[t] \in Removes =>
      /\ Subject(t) \in Clients
      /\ oldRoom[t] = CurrentRoom[Subject(t)] /\ oldRoom[t] \in Objects

MembersRight(c) ==
    \A o \in Objects : c \in heap[o].clients <=> o \in Stays(c)

\* No handler runs beside an eviction.
EvictorsAlone ==
    \A e \in Evictors : pc[e] # "none" => \A t \in Tasks \ {e} : Resting(t)

NamesRight ==
    \A n \in RoomNames : rooms[n] # NoObject => heap[rooms[n]].Name = n

\* The members of a game room have somebody to host it, and two members have
\* both slots taken: no removal finds nobody to inherit the room.
Hosted(r) ==
    IsGameRoom(r) =>
      /\ r.clients # {} => r.Player1 # NoClient
      /\ \A a, b \in r.clients : a # b => r.Player2 # NoClient

PlaceInv ==
    /\ EvictorsAlone
    /\ NamesRight
    /\ \A o \in Objects : Hosted(heap[o])
    /\ \A c \in Clients : Placed(c) /\ MembersRight(c)
    /\ \A t \in Tasks : RemovesRight(t)

-----------------------------------------------------------------------------
(* What a step of one task leaves alone.                                    *)

TaskStep(t) == IF t \in Clients THEN SessionStep(t) ELSE EvictorStep(t)

LEMMA StepsAreTaskSteps ==
    ASSUME [Next]_vars
    PROVE  UNCHANGED vars \/ \E t \in Tasks : TaskStep(t)
BY ChatAssumption DEF Next, AllEnded, TaskStep, Tasks

\* The locals of the other tasks, and what the other sessions refer to.
Frame(t) ==
    /\ \A u \in Tasks \ {t} :
          pc'[u] = pc[u] /\ oldRoom'[u] = oldRoom[u] /\ Subject(u)' = Subject(u)
    /\ \A c \in Clients \ {t} : /\ newRoom'[c] = newRoom[c]
                                /\ target'[c] = target[c]
                                /\ IsLoggedIn'[c] = IsLoggedIn[c]
    /\ \A c \in Clients : c # Subject(t) => CurrentRoom'[c] = CurrentRoom[c]

LEMMA InputFrame ==
    ASSUME TypeOK, NEW c \in Clients, Input(c)
    PROVE  Frame(c) /\ UNCHANGED <<heap, rooms, CurrentRoom, newRoom, victim>>
<1> USE DEF Frame, Goto, TypeOK, ControlOK, Tasks, Subject, locals, registry
<1>1. CASE Accept(c)
    BY <1>1 DEF Accept
<1>2. CASE Disconnect(c) \/ Quit(c)
    BY <1>2 DEF Disconnect, Quit
<1>3. ASSUME NEW n \in Asks[c], Login(c, n)
      PROVE  Frame(c) /\ UNCHANGED <<heap, rooms, CurrentRoom, newRoom, victim>>
    BY <1>3 DEF Login, BeginMove
<1>4. ASSUME NEW n \in RoomNames, JoinRoom(c, n)
      PROVE  Frame(c) /\ UNCHANGED <<heap, rooms, CurrentRoom, newRoom, victim>>
    BY <1>4 DEF JoinRoom, BeginMove
<1>5. CASE Ready(c) \/ Start(c) \/ Chat(c) \/ Move(c)
    BY <1>5 DEF Ready, Start, Chat, Move, CallsRoom
<1> QED BY <1>1, <1>2, <1>3, <1>4, <1>5 DEF Input

LEMMA HandlerFrame ==
    ASSUME TypeOK, NEW c \in Clients, Handler(c)
    PROVE  Frame(c) /\ UNCHANGED victim
<1> USE DEF Frame, Goto, Leave, TypeOK, ControlOK, Tasks, Subject, locals, registry
<1>1. CASE MoveLookup(c)
    BY <1>1 DEF MoveLookup
<1>2. CASE MoveAdd(c) \/ MoveLeave(c)
    BY <1>2 DEF MoveAdd, Added, MoveLeave
<1>3. CASE MoveUnlist(c) \/ MoveEnter(c) \/ MoveCheck(c)
    BY <1>3 DEF MoveUnlist, MoveEnter, MoveCheck
<1>4. CASE HandleReady(c) \/ StartAnnounce(c) \/ ChatSend(c)
    BY <1>4 DEF HandleReady, StartAnnounce, ChatSend, ThrowsNull
<1>5. CASE HandleStart(c)
    BY <1>5 DEF HandleStart, ThrowsNull
<1>6. CASE PlayState(c) \/ PlayTurn(c) \/ PlayOpponent(c) \/ PlaySwitch(c)
    BY <1>6
    DEF PlayState, PlayTurn, PlayOpponent, PlayRefused, PlayLegal, PlaySwitch,
        PlayStep, ThrowsNull
<1>7. CASE CleanUp(c) \/ RemoveSession(c) \/ UnregisterNickName(c)
    BY <1>7 DEF CleanUp, BeginRemove, RemoveSession, UnregisterNickName
<1> QED
    BY <1>1, <1>2, <1>3, <1>4, <1>5, <1>6, <1>7 DEF Handler, BoardHandler, RoomHandler

LEMMA RemovalFrame ==
    ASSUME TypeOK, NEW t \in Tasks, Removal(t)
    PROVE  Frame(t)
<1> USE ChatAssumption
    DEF Frame, Goto, TypeOK, ControlOK, Tasks, Subject, locals, registry
<1>1. CASE RemoveLeave(t)
    BY <1>1 DEF RemoveLeave, RemoveReturns
<1>2. CASE RemoveUnlist(t)
    BY <1>2 DEF RemoveUnlist
<1>3. CASE RemoveClear(t)
    BY <1>3 DEF RemoveClear, RemoveReturns
<1> QED BY <1>1, <1>2, <1>3 DEF Removal

LEMMA TaskFrame ==
    ASSUME TypeOK, NEW t \in Tasks, TaskStep(t)
    PROVE  Frame(t)
<1>1. ASSUME NEW e \in Evictors, NEW c \in Clients, Evict(e, c)
      PROVE  Frame(e)
    BY <1>1, ChatAssumption
    DEF Evict, BeginRemove, Frame, Goto, TypeOK, ControlOK, Tasks, Subject,
        locals, registry
<1> QED
    BY <1>1, InputFrame, HandlerFrame, RemovalFrame, ChatAssumption
    DEF TaskStep, SessionStep, EvictorStep, Tasks

\* A task that has nothing under way begins only when it may.
LEMMA RestingBegins ==
    ASSUME TypeOK, NEW t \in Tasks, TaskStep(t), Resting(t)
    PROVE  MayBegin
<1>1. ASSUME t \in Clients, Input(t) PROVE MayBegin
    BY <1>1
    DEF Input, Accept, Disconnect, Quit, Login, JoinRoom, Ready, Start, Move,
        CallsRoom, Chat, Commanded, Receives
<1>2. ASSUME t \in Clients, Handler(t) PROVE FALSE
    BY <1>2
    DEF Handler, BoardHandler, RoomHandler, MoveLookup, MoveAdd, MoveLeave,
        MoveUnlist, MoveEnter, MoveCheck, HandleReady, HandleStart,
        StartAnnounce, ChatSend, PlayState, PlayTurn, PlayOpponent, PlayRefused,
        PlayLegal, PlaySwitch, PlayStep, ThrowsNull, CleanUp, RemoveSession,
        UnregisterNickName, Resting
<1>3. ASSUME Removal(t) PROVE FALSE
    BY <1>3 DEF Removal, RemoveLeave, RemoveUnlist, RemoveClear, Resting
<1>4. ASSUME NEW c \in Clients, Evict(t, c) PROVE MayBegin
    BY <1>4 DEF Evict
<1> QED BY <1>1, <1>2, <1>3, <1>4 DEF TaskStep, SessionStep, EvictorStep, Tasks

LEMMA AloneInvariance ==
    ASSUME Unevicted, TypeOK, EvictorsAlone, [Next]_vars
    PROVE  EvictorsAlone'
<1>1. CASE UNCHANGED vars
    BY <1>1 DEF vars, EvictorsAlone, Resting
<1>2. ASSUME NEW t \in Tasks, TaskStep(t) PROVE EvictorsAlone'
    <2> SUFFICES ASSUME NEW e \in Evictors, pc'[e] # "none", NEW u \in Tasks \ {e}
                 PROVE  Resting(u)'
        BY DEF EvictorsAlone
    <2>1. \A v \in Tasks \ {t} : pc'[v] = pc[v]
        BY <1>2, TaskFrame DEF Frame
    <2>2. e \in Tasks /\ Serial
        BY DEF Tasks, Unevicted
    <2>3. CASE t = e
        <3>1. pc[e] = "none" => AllResting
            BY <1>2, <2>2, <2>3, RestingBegins DEF Resting, MayBegin
        <3>2. Resting(u)
            BY <3>1 DEF AllResting, EvictorsAlone
        <3> QED BY <2>1, <2>3, <3>2 DEF Resting
    <2>4. CASE t # e
        <3>1. pc[e] # "none" /\ Resting(t)
            BY <1>2, <2>1, <2>2, <2>4 DEF EvictorsAlone
        <3>2. Resting(e)
            BY <1>2, <2>2, <3>1, RestingBegins DEF MayBegin, AllResting
        <3> QED BY <3>1, <3>2 DEF Resting, TypeOK, ControlOK, EvictorPC
    <2> QED BY <2>3, <2>4
<1> QED BY <1>1, <1>2, StepsAreTaskSteps
-----------------------------------------------------------------------------
(* What the lock blocks do to the members of a room and to its host.        *)

\* A game room has no third member.
LEMMA NoThirdMember ==
    ASSUME NEW r \in Room, CapacityKept(r), IsGameRoom(r),
           NEW a \in r.clients, NEW b \in r.clients, NEW c \in r.clients
    PROVE  a # b => c \in {a, b}
<1> SUFFICES ASSUME a # b, c \notin {a, b} PROVE FALSE
    OBVIOUS
<1>1. IsFiniteSet(r.clients)
    BY RoomAssumption, FS_Subset DEF Room
<1>2. IsFiniteSet({a}) /\ Cardinality({a}) = 1
    BY FS_Singleton
<1>3. IsFiniteSet({a} \cup {b}) /\ Cardinality({a} \cup {b}) = 2
    BY <1>2, FS_AddElement
<1>4. Cardinality(({a} \cup {b}) \cup {c}) = 3
    <2>1. c \notin {a} \cup {b}
        OBVIOUS
    <2>2. Cardinality(({a} \cup {b}) \cup {c}) = Cardinality({a} \cup {b}) + 1
        BY <1>3, <2>1, FS_AddElement
    <2> QED BY <1>3, <2>2
<1>5. Cardinality(({a} \cup {b}) \cup {c}) <= Cardinality(r.clients)
    <2>1. (({a} \cup {b}) \cup {c}) \in SUBSET r.clients
        OBVIOUS
    <2> QED BY <1>1, <2>1, FS_Subset
<1>6. Cardinality(r.clients) \in Nat
    BY MemberCount
<1> QED BY <1>4, <1>5, <1>6 DEF CapacityKept, MAX_PLAYERS

LEMMA BlockMembers ==
    ASSUME NEW r \in Room, NEW c
    PROVE  /\ WithClient(r, c).clients = r.clients \cup {c}
           /\ WithoutClient(r, c).clients = r.clients \ {c}
           /\ ReadyToggled(r, c).clients = r.clients
           /\ Started(r).clients = r.clients
           /\ TurnSwitched(r).clients = r.clients
BY DEF Room, WithClient, WithoutClient, WithoutClientBut, ReadyToggled, Started,
       TurnSwitched

LEMMA NewcomerHosted ==
    ASSUME NEW r \in Room, NEW c \in Clients, Hosted(r)
    PROVE  Hosted(WithClient(r, c))
<1>1. CASE c \in r.clients
    BY <1>1 DEF WithClient
<1>2. CASE c \notin r.clients /\ IsGameRoom(r) /\ r.Player1 = NoClient
    <2> DEFINE s == WithClient(r, c)
    <2>1. r.clients = {}
        BY <1>2 DEF Hosted
    <2>2. s.clients = {c} /\ s.Player1 = c
        BY <1>2, <2>1 DEF WithClient, Room
    <2> QED BY <2>2, RoomAssumption DEF Hosted
<1>3. CASE c \notin r.clients /\ IsGameRoom(r) /\ r.Player1 # NoClient
    <2> DEFINE s == WithClient(r, c)
    <2>1. s.Player1 # NoClient /\ s.Player2 # NoClient
        BY <1>3, RoomAssumption DEF WithClient, Room
    <2> QED BY <2>1 DEF Hosted
<1>4. CASE c \notin r.clients /\ ~IsGameRoom(r)
    BY <1>4 DEF Hosted, WithClient, Room, IsGameRoom
<1> QED BY <1>1, <1>2, <1>3, <1>4

\* A member that leaves always leaves a host behind, or nobody.
LEMMA LeaverHosted ==
    ASSUME NEW r \in Room, NEW c \in r.clients, RoomSound(r), Hosted(r)
    PROVE  Hosted(WithoutClient(r, c)) /\ ~RemovalThrows(r, c)
<1> DEFINE s == WithoutClient(r, c)
<1>1. ~RemovalThrows(r, c)
    BY DEF RemovalThrows, HostLeaves, IsEmptied, Hosted
<1>2. /\ s.clients = r.clients \ {c} /\ s.Name = r.Name
      /\ s.Player1 = IF HostLeaves(r, c) THEN r.Player2 ELSE r.Player1
    BY DEF WithoutClient, WithoutClientBut, Room
<1> HIDE DEF s
<1>3. ASSUME IsGameRoom(r) PROVE Hosted(s)
    <2>1. \A a, b \in s.clients : a = b
        BY <1>2, <1>3, NoThirdMember DEF RoomSound
    <2>2. s.clients # {} => s.Player1 # NoClient
        BY <1>1, <1>2, <1>3 DEF Hosted, RemovalThrows
    <2> QED BY <2>1, <2>2 DEF Hosted
<1>4. ASSUME ~IsGameRoom(r) PROVE Hosted(s)
    BY <1>2, <1>4 DEF Hosted, IsGameRoom
<1> QED BY <1>1, <1>3, <1>4 DEF s

LEMMA SameSlotsHosted ==
    ASSUME NEW r \in Room, NEW c, Hosted(r)
    PROVE  Hosted(ReadyToggled(r, c)) /\ Hosted(Started(r)) /\ Hosted(TurnSwitched(r))
BY DEF Hosted, IsGameRoom, ReadyToggled, Started, TurnSwitched, Room
-----------------------------------------------------------------------------
(* A session's own steps.                                                   *)

LEMMA NoEvictionBeside ==
    ASSUME Unevicted, TypeOK, EvictorsAlone, NEW c \in Clients, SessionStep(c)
    PROVE  \A e \in Evictors : pc[e] = "none" /\ pc'[e] = "none"
<1>1. TaskStep(c) /\ c \in Tasks
    BY DEF TaskStep, Tasks
<1>2. ASSUME NEW e \in Evictors PROVE pc[e] = "none"
    <2>1. e \in Tasks /\ e # c /\ Serial
        BY ChatAssumption DEF Tasks, Unevicted
    <2>2. CASE Resting(c)
        <3>1. Resting(e)
            BY <1>1, <2>1, <2>2, RestingBegins DEF MayBegin, AllResting
        <3> QED BY <3>1 DEF Resting, TypeOK, ControlOK, EvictorPC
    <2> QED BY <1>1, <2>1, <2>2 DEF EvictorsAlone
<1>3. \A e \in Evictors : pc'[e] = pc[e]
    BY <1>1, TaskFrame, ChatAssumption DEF Frame, Tasks
<1> QED BY <1>2, <1>3

LEMMA NobodyElseRemoves ==
    ASSUME Unevicted, TypeOK, EvictorsAlone, NEW c \in Clients, SessionStep(c)
    PROVE  \A d \in Clients : /\ TakenOut(d) <=> pc[d] \in Removed
                              /\ TakenOut(d)' <=> pc'[d] \in Removed
BY NoEvictionBeside, ChatAssumption DEF TakenOut, Removed, Subject, Tasks

SameMembers == \A o \in Objects : heap'[o].clients = heap[o].clients
Joins(c, p) ==
    \A o \in Objects : heap'[o].clients =
        IF o = p THEN heap[o].clients \cup {c} ELSE heap[o].clients
Parts(c, p) ==
    \A o \in Objects : heap'[o].clients =
        IF o = p THEN heap[o].clients \ {c} ELSE heap[o].clients
AllHosted == \A o \in Objects : Hosted(heap[o])

LEMMA SetRoomMembers ==
    ASSUME TypeOK, AllHosted, NEW o \in Objects, NEW s, SetRoom(o, s), Hosted(s)
    PROVE  /\ AllHosted'
           /\ s.clients = heap[o].clients => SameMembers
           /\ \A c : s.clients = heap[o].clients \cup {c} => Joins(c, o)
           /\ \A c : s.clients = heap[o].clients \ {c} => Parts(c, o)
<1>1. \A p \in Objects : heap'[p] = IF p = o THEN s ELSE heap[p]
    BY DEF SetRoom, TypeOK
<1>2. AllHosted'
    BY <1>1 DEF AllHosted
<1> QED BY <1>1, <1>2 DEF SameMembers, Joins, Parts

\* An object that nothing refers to has no members.
LEMMA UnreferencedIsEmpty ==
    ASSUME TypeOK, PlaceInv, NEW o \in Objects, Unreferenced(o)
    PROVE  heap[o].clients = {}
<1> SUFFICES ASSUME NEW c \in heap[o].clients PROVE FALSE
    OBVIOUS
<1>1. c \in Clients
    BY DEF TypeOK, Room
<1>2. o \in Stays(c)
    BY <1>1 DEF PlaceInv, MembersRight
<1>3. c \in Tasks
    BY <1>1 DEF Tasks
<1> QED BY <1>1, <1>2, <1>3 DEF Stays, Unreferenced

LEMMA LookupMembers ==
    ASSUME TypeOK, PlaceInv, NEW c \in Clients, MoveLookup(c)
    PROVE  SameMembers /\ AllHosted'
<1>1. CASE UNCHANGED heap
    BY <1>1 DEF SameMembers, AllHosted, PlaceInv
<1>2. ASSUME NEW o \in Objects, Unreferenced(o), SetRoom(o, NewRoom(target[c]))
      PROVE  SameMembers /\ AllHosted'
    <2>1. Hosted(NewRoom(target[c])) /\ NewRoom(target[c]).clients = heap[o].clients
        BY <1>2, UnreferencedIsEmpty DEF NewRoom, Hosted
    <2> QED BY <1>2, <2>1, SetRoomMembers DEF AllHosted, PlaceInv
<1> QED BY <1>1, <1>2 DEF MoveLookup

LEMMA AddMembers ==
    ASSUME TypeOK, PlaceInv, NEW c \in Clients, MoveAdd(c)
    PROVE  /\ AllHosted'
           /\ \/ Joins(c, newRoom[c])
                 /\ Goto(c, IF oldRoom[c] = NoObject THEN "moveEnter" ELSE "moveLeave")
                 /\ UNCHANGED locals
              \/ SameMembers /\ Leave(c, "idle")
<1> DEFINE o == newRoom[c]
           s == WithClient(heap[o], c)
<1>1. o \in Objects /\ heap[o] \in Room
    BY DEF MoveAdd, PlaceInv, Placed, Entering, TypeOK
<1>2. Hosted(s) /\ s.clients = heap[o].clients \cup {c}
    BY <1>1, NewcomerHosted, BlockMembers DEF PlaceInv
<1>3. CASE SetRoom(o, s)
    <2>1. AllHosted' /\ Joins(c, o)
        BY <1>1, <1>2, <1>3, SetRoomMembers DEF AllHosted, PlaceInv
    <2>2. CASE Leave(c, "idle")
        BY <2>1, <2>2 DEF MoveAdd, Added, SameMembers, AllHosted, PlaceInv
    <2> QED BY <2>1, <2>2 DEF MoveAdd, Added
<1> QED BY <1>3 DEF MoveAdd, Added, SameMembers, AllHosted, PlaceInv

\* The subject of a removal is a member, so the block never throws.
LEMMA RemoveMembers ==
    ASSUME TypeOK, RoomsSound, PlaceInv, NEW c \in Clients, NEW o \in Objects,
           o \in Stays(c), SetRoom(o, WithoutClient(heap[o], c))
    PROVE  AllHosted' /\ Parts(c, o) /\ ~RemovalThrows(heap[o], c)
<1>1. c \in heap[o].clients /\ heap[o] \in Room /\ RoomSound(heap[o]) /\ Hosted(heap[o])
    BY DEF PlaceInv, MembersRight, TypeOK, RoomsSound
<1>2. /\ Hosted(WithoutClient(heap[o], c)) /\ ~RemovalThrows(heap[o], c)
      /\ WithoutClient(heap[o], c).clients = heap[o].clients \ {c}
    BY <1>1, LeaverHosted, BlockMembers
<1> QED BY <1>2, SetRoomMembers DEF AllHosted, PlaceInv

\* Every other handler leaves the members as they are.
LEMMA QuietMembers ==
    ASSUME TypeOK, PlaceInv, NEW c \in Clients, Handler(c),
           ~MoveLookup(c), ~MoveAdd(c), ~MoveLeave(c)
    PROVE  SameMembers /\ AllHosted'
<1> DEFINE o == CurrentRoom[c]
<1>1. CASE UNCHANGED heap
    BY <1>1 DEF SameMembers, AllHosted, PlaceInv
<1>2. ASSUME NEW s, ~RoomIsGone(c), SetRoom(o, s),
             s \in {ReadyToggled(heap[o], c), Started(heap[o]), TurnSwitched(heap[o])}
      PROVE  SameMembers /\ AllHosted'
    <2>1. o \in Objects /\ heap[o] \in Room /\ Hosted(heap[o])
        BY <1>2 DEF RoomIsGone, TypeOK, PlaceInv
    <2>2. Hosted(s) /\ s.clients = heap[o].clients
        BY <1>2, <2>1, SameSlotsHosted, BlockMembers
    <2> QED BY <1>2, <2>1, <2>2, SetRoomMembers DEF AllHosted, PlaceInv
<1>3. CASE HandleReady(c) \/ HandleStart(c) \/ PlaySwitch(c)
    BY <1>1, <1>2, <1>3 DEF HandleReady, HandleStart, PlaySwitch, ThrowsNull
<1>4. CASE \/ MoveUnlist(c) \/ MoveEnter(c) \/ MoveCheck(c)
           \/ StartAnnounce(c) \/ ChatSend(c)
           \/ PlayState(c) \/ PlayTurn(c) \/ PlayOpponent(c)
           \/ CleanUp(c) \/ RemoveSession(c) \/ UnregisterNickName(c)
    BY <1>1, <1>4
    DEF MoveUnlist, MoveEnter, MoveCheck, StartAnnounce, ChatSend, PlayState,
        PlayTurn, PlayOpponent, PlayRefused, PlayLegal, PlayStep, ThrowsNull,
        CleanUp, RemoveSession, UnregisterNickName
<1> QED BY <1>3, <1>4 DEF Handler, BoardHandler, RoomHandler
Own(c) == Placed(c)' /\ MembersRight(c)'

\* A step between two positions with one and the same member list and room.
LEMMA SamePlace ==
    ASSUME NEW c \in Clients, MembersRight(c), SameMembers, UNCHANGED CurrentRoom,
           TakenOut(c)' <=> TakenOut(c),
           {pc[c], pc'[c]} \cap {"moveLeave", "moveUnlist", "moveEnter"} = {}
    PROVE  MembersRight(c)'
<1>1. Stays(c)' = Stays(c)
    BY DEF Stays
<1> QED BY <1>1 DEF MembersRight, SameMembers

LEMMA InputOwn ==
    ASSUME Undisturbed, TypeOK, PlaceInv, NEW c \in Clients, Input(c)
    PROVE  SameMembers /\ Own(c)
<1>1. UNCHANGED <<heap, CurrentRoom, newRoom>>
    BY InputFrame
<1>2. SameMembers
    BY <1>1 DEF SameMembers
<1>3. /\ pc[c] \in {"offline", "idle"}
      /\ pc'[c] \notin {"offline", "moveLeave", "moveUnlist", "moveEnter"} \cup Removed
    BY DEF Input, Accept, Disconnect, Quit, Login, JoinRoom, BeginMove, Ready,
           Start, Chat, Move, CallsRoom, Commanded, Receives, Goto, TypeOK,
           ControlOK, Tasks, Removed
<1>4. TakenOut(c)' <=> TakenOut(c)
    BY <1>3, NobodyElseRemoves DEF PlaceInv, SessionStep, Removed, Undisturbed
<1>5. MembersRight(c)'
    BY <1>1, <1>2, <1>3, <1>4, SamePlace DEF PlaceInv
<1>6. Placed(c)'
    <2> USE DEF Placed, Entering, Inside, MidMove, Outside, Goto, TypeOK,
                ControlOK, Tasks, Receives, Commanded
    <2>1. Placed(c)
        BY DEF PlaceInv
    <2>2. CASE Accept(c) \/ Disconnect(c) \/ Quit(c)
        BY <1>1, <2>1, <2>2 DEF Accept, Disconnect, Quit, registry
    <2>3. ASSUME NEW n \in Asks[c], Login(c, n) PROVE Placed(c)'
        BY <1>1, <2>1, <2>3, ChatAssumption DEF Login, BeginMove
    <2>4. ASSUME NEW n \in RoomNames, JoinRoom(c, n) PROVE Placed(c)'
        BY <1>1, <2>1, <2>4 DEF JoinRoom, BeginMove, RoomIsGone, Undisturbed
    <2>5. CASE Ready(c) \/ Start(c) \/ Chat(c) \/ Move(c)
        BY <1>1, <2>1, <2>5
        DEF Ready, Start, Chat, Move, CallsRoom, InGameRoom, RoomIsGone, registry
    <2> QED BY <2>2, <2>3, <2>4, <2>5 DEF Input
<1> QED BY <1>2, <1>5, <1>6 DEF Own

LEMMA HandlerOwn ==
    ASSUME Undisturbed, TypeOK, RoomsSound, PlaceInv, NEW c \in Clients, Handler(c)
    PROVE  /\ AllHosted'
           /\ SameMembers \/ \E o \in Objects : Joins(c, o) \/ Parts(c, o)
           /\ Own(c)
<1> DEFINE Goal == /\ AllHosted'
                   /\ SameMembers \/ \E o \in Objects : Joins(c, o) \/ Parts(c, o)
                   /\ Own(c)
<1> USE DEF Goto, Leave, Own
<1>1. /\ TakenOut(c) <=> pc[c] \in Removed
      /\ TakenOut(c)' <=> pc'[c] \in Removed
    BY NobodyElseRemoves DEF PlaceInv, SessionStep, Undisturbed
<1>2. Placed(c) /\ MembersRight(c) /\ c \in Tasks
    BY DEF PlaceInv, Tasks
<1>t. /\ pc \in [Tasks -> SessionPC \cup EvictorPC]
      /\ heap \in [Objects -> Room]
      /\ CurrentRoom \in [Clients -> Objects \cup {NoObject}]
      /\ oldRoom \in [Tasks -> Objects \cup {NoObject}]
      /\ newRoom \in [Clients -> Objects \cup {NoObject}]
      /\ rooms \in [RoomNames -> Objects \cup {NoObject}]
      /\ target \in [Clients -> RoomNames]
      /\ IsLoggedIn \in [Clients -> BOOLEAN]
    BY DEF TypeOK, ControlOK
<1> HIDE DEF Goal
<1>3. CASE MoveLookup(c)
    <2>1. SameMembers /\ AllHosted'
        BY <1>3, LookupMembers
    <2>2. MembersRight(c)'
        BY <1>1, <1>2, <1>3, <1>t, <2>1, SamePlace DEF MoveLookup, Removed
    <2>3. newRoom'[c] \in Objects /\ newRoom'[c] # CurrentRoom[c]
        <3>1. CASE rooms[target[c]] # NoObject
            BY <1>2, <1>3, <1>t, <3>1 DEF MoveLookup, Placed, PlaceInv, NamesRight
        <3>2. CASE rooms[target[c]] = NoObject
            BY <1>3, <1>t, <3>2 DEF MoveLookup, Unreferenced
        <3> QED BY <3>1, <3>2
    <2>4. Placed(c)'
        BY <1>2, <1>3, <1>t, <2>3 DEF MoveLookup, Placed, Entering, Inside, MidMove, Outside, registry
    <2> QED BY <2>1, <2>2, <2>4 DEF Goal
<1>4. CASE MoveAdd(c)
    <2>1. CASE SameMembers /\ Leave(c, "idle")
        <3>1. MembersRight(c)'
            BY <1>1, <1>2, <1>4, <1>t, <2>1, SamePlace DEF MoveAdd, Removed
        <3>2. Placed(c)'
            BY <1>2, <1>4, <1>t, <2>1
            DEF MoveAdd, Placed, Entering, Inside, MidMove, Outside, registry
        <3> QED BY <1>4, <2>1, <3>1, <3>2, AddMembers DEF Goal
    <2>2. CASE /\ Joins(c, newRoom[c])
               /\ Goto(c, IF oldRoom[c] = NoObject THEN "moveEnter" ELSE "moveLeave")
               /\ UNCHANGED locals
        <3>1. newRoom[c] \in Objects /\ oldRoom[c] = CurrentRoom[c]
            BY <1>2, <1>4 DEF MoveAdd, Placed, Entering
        <3>2. Stays(c) = {CurrentRoom[c]}
            BY <1>1, <1>4 DEF MoveAdd, Stays, Removed
        <3>3. ~TakenOut(c)' /\ UNCHANGED <<CurrentRoom, oldRoom, newRoom>>
            BY <1>1, <1>4, <1>t, <2>2 DEF MoveAdd, Removed, locals
        <3>4. ASSUME CurrentRoom[c] = NoObject PROVE MembersRight(c)'
            <4>1. Stays(c)' = {newRoom[c]}
                BY <1>t, <1>2, <2>2, <3>1, <3>3, <3>4 DEF Stays
            <4>2. \A o \in Objects : c \in heap'[o].clients
                                      <=> o = newRoom[c] \/ c \in heap[o].clients
                BY <2>2 DEF Joins
            <4> QED BY <1>2, <3>1, <3>2, <3>4, <4>1, <4>2, ChatAssumption DEF MembersRight
        <3>5. ASSUME CurrentRoom[c] # NoObject PROVE MembersRight(c)'
            <4>1. Stays(c)' = {CurrentRoom[c], newRoom[c]}
                BY <1>t, <1>2, <2>2, <3>1, <3>3, <3>5 DEF Stays
            <4>2. \A o \in Objects : c \in heap'[o].clients
                                      <=> o = newRoom[c] \/ c \in heap[o].clients
                BY <2>2 DEF Joins
            <4> QED BY <1>2, <3>1, <3>2, <4>1, <4>2 DEF MembersRight
        <3>6. Placed(c)'
            BY <1>2, <1>4, <1>t, <2>2, <3>1
            DEF MoveAdd, Placed, Entering, Inside, MidMove, Outside, registry, locals
        <3> QED BY <1>4, <2>2, <3>1, <3>4, <3>5, <3>6, AddMembers DEF Goal
    <2> QED BY <1>4, <2>1, <2>2, AddMembers
<1>5. CASE MoveLeave(c)
    <2> DEFINE o == oldRoom[c]
    <2>1. o \in Objects /\ o = CurrentRoom[c] /\ newRoom[c] \in Objects /\ newRoom[c] # o
        BY <1>2, <1>5 DEF MoveLeave, Placed, Entering
    <2>2. Stays(c) = {o, newRoom[c]}
        BY <1>1, <1>5 DEF MoveLeave, Stays, Removed
    <2>3. AllHosted' /\ Parts(c, o) /\ ~RemovalThrows(heap[o], c)
        BY <1>5, <2>1, <2>2, RemoveMembers DEF MoveLeave
    <2>4. pc'[c] \in {"moveUnlist", "moveEnter"} /\ UNCHANGED locals
        BY <1>2, <1>5, <1>t, <2>3 DEF MoveLeave
    <2>5. Stays(c)' = {newRoom[c]}
        BY <1>1, <2>4 DEF Stays, Removed, locals
    <2>6. MembersRight(c)'
        BY <1>2, <2>1, <2>2, <2>3, <2>5 DEF MembersRight, Parts
    <2>7. Placed(c)'
        BY <1>2, <1>5, <2>1, <2>4
        DEF MoveLeave, Placed, Entering, Inside, MidMove, Outside, registry, locals
    <2> QED BY <2>1, <2>3, <2>6, <2>7 DEF Goal
<1>6. CASE ~MoveLookup(c) /\ ~MoveAdd(c) /\ ~MoveLeave(c)
    <2>1. SameMembers /\ AllHosted'
        BY <1>6, QuietMembers
    <2>2. CASE MoveUnlist(c) \/ MoveEnter(c)
        <3>1. Stays(c) = {newRoom[c]} /\ Stays(c)' = {newRoom[c]}
            BY <1>1, <1>2, <1>t, <2>2 DEF MoveUnlist, MoveEnter, Stays, Removed, locals
        <3>2. MembersRight(c)'
            BY <1>2, <2>1, <3>1 DEF MembersRight, SameMembers
        <3>3. Placed(c)'
            BY <1>2, <1>t, <2>2
            DEF MoveUnlist, MoveEnter, Placed, Entering, Inside, MidMove, Outside,
                registry, locals
        <3> QED BY <2>1, <3>2, <3>3 DEF Goal
    <2>3. ASSUME ~MoveUnlist(c), ~MoveEnter(c) PROVE MembersRight(c)'
        <3>1. /\ UNCHANGED CurrentRoom
              /\ pc[c] \notin {"moveLeave", "moveUnlist", "moveEnter"} \cup Removed
              /\ pc'[c] \notin {"moveLeave", "moveUnlist", "moveEnter"} \cup Removed
            BY <1>2, <1>6, <1>t, <2>3
            DEF Handler, BoardHandler, RoomHandler, MoveCheck, StartAnnounce,
                HandleReady, HandleStart, ThrowsNull, ChatSend, PlayState,
                PlayTurn, PlayOpponent, PlayRefused, PlayLegal, PlaySwitch,
                PlayStep, CleanUp, BeginRemove, RemoveSession,
                UnregisterNickName, Removed
        <3> QED BY <1>1, <1>2, <2>1, <3>1, SamePlace
    <2> USE DEF Placed, Entering, Inside, MidMove, Outside, registry, locals
    <2>4. CASE MoveCheck(c)
        BY <1>2, <1>t, <2>1, <2>3, <2>4 DEF MoveCheck, MoveUnlist, MoveEnter, Goal
    <2>5. CASE HandleReady(c) \/ StartAnnounce(c) \/ ChatSend(c)
        <3>1. Placed(c)'
            BY <1>2, <1>t, <2>5 DEF HandleReady, StartAnnounce, ChatSend, ThrowsNull
        <3> QED BY <2>1, <2>3, <2>5, <3>1
            DEF HandleReady, StartAnnounce, ChatSend, ThrowsNull, MoveUnlist, MoveEnter, Goal
    <2>6. CASE HandleStart(c)
        <3>1. Placed(c)'
            BY <1>2, <1>t, <2>6 DEF HandleStart, ThrowsNull, RoomIsGone
        <3> QED BY <2>1, <2>3, <2>6, <3>1 DEF HandleStart, ThrowsNull, MoveUnlist, MoveEnter, Goal
    <2>7. CASE PlayState(c) \/ PlayTurn(c) \/ PlayOpponent(c) \/ PlaySwitch(c)
        <3>1. Placed(c)'
            BY <1>2, <1>t, <2>7
            DEF PlayState, PlayTurn, PlayOpponent, PlayRefused, PlayLegal, PlaySwitch,
                PlayStep, ThrowsNull
        <3> QED BY <2>1, <2>3, <2>7, <3>1
            DEF PlayState, PlayTurn, PlayOpponent, PlayRefused, PlayLegal, PlaySwitch,
                PlayStep, ThrowsNull, MoveUnlist, MoveEnter, Goal
    <2>8. CASE CleanUp(c) \/ RemoveSession(c) \/ UnregisterNickName(c)
        <3>1. Placed(c)'
            BY <1>2, <1>t, <2>8 DEF CleanUp, BeginRemove, RemoveSession, UnregisterNickName, RoomIsGone
        <3> QED BY <2>1, <2>3, <2>8, <3>1
            DEF CleanUp, RemoveSession, UnregisterNickName, MoveUnlist, MoveEnter, Goal
    <2> QED BY <1>6, <2>2, <2>4, <2>5, <2>6, <2>7, <2>8 DEF Handler, BoardHandler, RoomHandler
<1> QED BY <1>3, <1>4, <1>5, <1>6 DEF Goal
-----------------------------------------------------------------------------
(* Removals, by a session's cleanup or by an eviction.                      *)

\* Nobody removes a client that is being removed already.
LEMMA OneRemover ==
    ASSUME TypeOK, EvictorsAlone, NEW t \in Tasks, NEW u \in Tasks \ {t},
           pc[t] \notin {"offline", "idle", "none", "closed", "faulted"},
           pc[u] \in Removes
    PROVE  Subject(u) # Subject(t)
<1>1. ~Resting(t) /\ ~Resting(u)
    BY DEF Resting, Removes, Removed
<1>2. t \notin Evictors /\ u \notin Evictors
    BY <1>1 DEF EvictorsAlone, Resting
<1> QED BY <1>2 DEF Subject, Tasks

\* The place of the client a task removes.
LEMMA SubjectPlace ==
    ASSUME TypeOK, PlaceInv, NEW t \in Tasks, pc[t] \in Removes
    PROVE  /\ Subject(t) \in Clients /\ oldRoom[t] \in Objects
           /\ oldRoom[t] = CurrentRoom[Subject(t)]
           /\ TakenOut(Subject(t)) <=> pc[t] \in Removed
           /\ pc[Subject(t)] \notin {"moveLeave", "moveUnlist", "moveEnter"}
           /\ t \in Clients \/ Resting(Subject(t))
<1>1. /\ Subject(t) \in Clients /\ oldRoom[t] \in Objects
      /\ oldRoom[t] = CurrentRoom[Subject(t)]
    BY DEF PlaceInv, RemovesRight
<1>2. \A u \in Tasks \ {t} : pc[u] \in Removed => Subject(u) # Subject(t)
    BY OneRemover DEF PlaceInv, Removes, Removed
<1>3. TakenOut(Subject(t)) <=> pc[t] \in Removed
    BY <1>2 DEF TakenOut
<1>4. t \in Clients \/ Resting(Subject(t))
    BY <1>1, ChatAssumption DEF PlaceInv, EvictorsAlone, Tasks, Removes, Removed
<1>5. pc[Subject(t)] \notin {"moveLeave", "moveUnlist", "moveEnter"}
    BY <1>4 DEF Resting, Subject, Removes, Removed
<1> QED BY <1>1, <1>3, <1>4, <1>5

LEMMA RemovalOwn ==
    ASSUME Undisturbed, TypeOK, RoomsSound, PlaceInv, NEW t \in Tasks, Removal(t),
           NEW s \in Clients, s = Subject(t)
    PROVE  /\ AllHosted'
           /\ SameMembers \/ \E o \in Objects : Parts(s, o)
           /\ Own(s)
           /\ RemovesRight(t)'
<1> DEFINE o == oldRoom[t]
<1> USE DEF Goto
<1>1. pc[t] \in Removes
    BY DEF Removal, RemoveLeave, RemoveUnlist, RemoveClear, Removes, Removed
<1>2. /\ o \in Objects /\ o = CurrentRoom[s]
      /\ TakenOut(s) <=> pc[t] \in Removed
      /\ pc[s] \notin {"moveLeave", "moveUnlist", "moveEnter"}
      /\ t \in Clients \/ Resting(s)
    BY <1>1, SubjectPlace
<1>3. Placed(s) /\ MembersRight(s) /\ s \in Tasks /\ (t \in Clients => s = t)
    BY <1>2 DEF PlaceInv, Tasks, Subject
<1>4. \A u \in Tasks \ {t} : /\ pc'[u] = pc[u] /\ Subject(u)' = Subject(u)
                             /\ pc[u] \in Removed => Subject(u) # s
    <2>1. Frame(t)
        BY RemovalFrame
    <2>2. \A u \in Tasks \ {t} : pc[u] \in Removed => Subject(u) # s
        BY <1>1, OneRemover DEF PlaceInv, Removes, Removed
    <2> QED BY <2>1, <2>2 DEF Frame
<1>5. TakenOut(s)' <=> pc'[t] \in Removed /\ Subject(t)' = s
    BY <1>4 DEF TakenOut
<1>t. /\ pc \in [Tasks -> SessionPC \cup EvictorPC]
      /\ CurrentRoom \in [Clients -> Objects \cup {NoObject}]
      /\ oldRoom \in [Tasks -> Objects \cup {NoObject}]
    BY DEF TypeOK, ControlOK
<1>6. CASE RemoveLeave(t)
    <2>1. Stays(s) = {o}
        BY <1>2, <1>6 DEF RemoveLeave, Stays, Removed
    <2>2. AllHosted' /\ Parts(s, o) /\ ~RemovalThrows(heap[o], s)
        BY <1>2, <1>6, <2>1, RemoveMembers DEF RemoveLeave
    <2>3. pc'[t] \in Removed /\ Subject(t)' = s /\ UNCHANGED <<CurrentRoom, locals, registry>>
        BY <1>6, <1>t, <2>2 DEF RemoveLeave, Removed, Subject
    <2>4. Stays(s)' = {}
        BY <1>5, <2>3 DEF Stays
    <2>5. MembersRight(s)'
        BY <1>3, <2>1, <2>2, <2>4 DEF MembersRight, Parts
    <2>6. pc'[s] = pc[s] \/ s = t
        BY <1>3, <1>4
    <2>7. Placed(s)'
        BY <1>2, <1>3, <1>6, <1>t, <2>3, <2>6
        DEF RemoveLeave, Placed, Entering, Inside, MidMove, Outside, Removed, Resting,
            locals, registry
    <2>8. RemovesRight(t)'
        BY <1>2, <2>3 DEF RemovesRight, locals
    <2> QED BY <1>2, <1>3, <2>2, <2>5, <2>7, <2>8 DEF Own
<1>7. CASE RemoveUnlist(t)
    <2>1. /\ pc'[t] = "removeClear" /\ pc[t] = "removeUnlist" /\ Subject(t)' = s
          /\ UNCHANGED <<heap, CurrentRoom, locals, registry>>
        BY <1>7, <1>t DEF RemoveUnlist, Subject
    <2>2. SameMembers /\ AllHosted'
        BY <2>1 DEF SameMembers, AllHosted, PlaceInv
    <2>3. pc'[s] = pc[s] \/ s = t
        BY <1>3, <1>4
    <2>4. Stays(s) = {} /\ Stays(s)' = {}
        BY <1>2, <1>5, <2>1 DEF Stays, Removed
    <2>5. MembersRight(s)'
        BY <1>3, <2>1, <2>4 DEF MembersRight
    <2>6. Placed(s)'
        BY <1>2, <1>3, <2>1, <2>3
        DEF Placed, Entering, Inside, MidMove, Outside, Resting, locals, registry
    <2>7. RemovesRight(t)'
        BY <1>2, <2>1 DEF RemovesRight, locals
    <2> QED BY <1>2, <1>3, <2>2, <2>5, <2>6, <2>7 DEF Own
<1>8. CASE RemoveClear(t)
    <2>1. /\ pc[t] = "removeClear" /\ pc'[t] \in {"drop", "none"}
          /\ CurrentRoom' = [CurrentRoom EXCEPT ![s] = NoObject]
          /\ UNCHANGED <<heap, registry, newRoom, target>>
        BY <1>8, <1>t DEF RemoveClear, RemoveReturns
    <2>2. SameMembers /\ AllHosted'
        BY <2>1 DEF SameMembers, AllHosted, PlaceInv
    <2>3. pc'[s] = pc[s] \/ (s = t /\ pc'[s] = "drop")
        BY <1>3, <1>4, <1>8, <1>t DEF RemoveClear, RemoveReturns
    <2>4. Stays(s) = {}
        BY <1>2, <2>1 DEF Stays, Removed
    <2>5. Stays(s)' = {NoObject}
        BY <1>2, <1>5, <1>t, <2>1, <2>3 DEF Stays, Removed
    <2>6. MembersRight(s)'
        BY <1>3, <2>1, <2>4, <2>5, ChatAssumption DEF MembersRight
    <2>7. Placed(s)'
        BY <1>2, <1>3, <1>t, <2>1, <2>3
        DEF Placed, Entering, Inside, MidMove, Outside, Resting, registry
    <2>8. RemovesRight(t)'
        BY <2>1 DEF RemovesRight, Removes, Removed
    <2> QED BY <1>2, <1>3, <2>2, <2>6, <2>7, <2>8 DEF Own
<1> QED BY <1>6, <1>7, <1>8 DEF Removal
-----------------------------------------------------------------------------
(* The invariant.                                                           *)

LEMMA OthersPlaced ==
    ASSUME TypeOK, RoomsSound, PlaceInv, [Next]_vars, NEW t \in Tasks, Frame(t),
           NEW c \in Clients \ {t}, CurrentRoom'[c] = CurrentRoom[c]
    PROVE  Placed(c)'
<1>1. Placed(c) /\ c \in Tasks
    BY DEF PlaceInv, Tasks
<1>2. /\ pc'[c] = pc[c] /\ oldRoom'[c] = oldRoom[c] /\ newRoom'[c] = newRoom[c]
      /\ target'[c] = target[c] /\ IsLoggedIn'[c] = IsLoggedIn[c]
    BY <1>1 DEF Frame
<1>3. CurrentRoom[c] # NoObject => heap'[CurrentRoom[c]].Name = heap[CurrentRoom[c]].Name
    BY NamesStay DEF Unreferenced, TypeOK
<1> QED BY <1>1, <1>2, <1>3 DEF Placed

LEMMA OthersMembers ==
    ASSUME TypeOK, PlaceInv, NEW t \in Tasks, Frame(t),
           NEW c \in Clients \ {t}, CurrentRoom'[c] = CurrentRoom[c],
           \A o \in Objects : c \in heap'[o].clients <=> c \in heap[o].clients,
           pc[t] \in Removed => Subject(t) # c,
           pc'[t] \in Removed => Subject(t)' # c
    PROVE  MembersRight(c)'
<1>1. /\ pc'[c] = pc[c] /\ oldRoom'[c] = oldRoom[c] /\ newRoom'[c] = newRoom[c]
    BY DEF Frame, Tasks
<1>2. TakenOut(c)' <=> TakenOut(c)
    BY DEF TakenOut, Frame
<1>3. Stays(c)' = Stays(c)
    BY <1>1, <1>2 DEF Stays
<1>4. MembersRight(c)
    BY DEF PlaceInv
<1> QED BY <1>3, <1>4 DEF MembersRight

\* Only the end of a move and the end of a removal give a session another room.
LEMMA RoomChanges ==
    ASSUME TypeOK, NEW t \in Tasks, TaskStep(t)
    PROVE  UNCHANGED CurrentRoom \/ pc[t] \in {"moveEnter", "removeClear"}
<1>1. ASSUME t \in Clients, Input(t) PROVE UNCHANGED CurrentRoom
    BY <1>1, InputFrame
<1>2. ASSUME t \in Clients, Handler(t), ~MoveEnter(t) PROVE UNCHANGED CurrentRoom
    BY <1>2
    DEF Handler, BoardHandler, RoomHandler, MoveLookup, MoveAdd, MoveLeave,
        MoveUnlist, MoveCheck, HandleReady, HandleStart,
        StartAnnounce, ChatSend, PlayState, PlayTurn, PlayOpponent, PlayRefused,
        PlayLegal, PlaySwitch, PlayStep, ThrowsNull, CleanUp, RemoveSession,
        UnregisterNickName
<1>3. ASSUME Removal(t), ~RemoveClear(t) PROVE UNCHANGED CurrentRoom
    BY <1>3 DEF Removal, RemoveLeave, RemoveUnlist
<1>4. ASSUME NEW c \in Clients, Evict(t, c) PROVE UNCHANGED CurrentRoom
    BY <1>4 DEF Evict
<1> QED
    BY <1>1, <1>2, <1>3, <1>4 DEF TaskStep, SessionStep, EvictorStep, MoveEnter, RemoveClear

LEMMA ListShrinks ==
    ASSUME TypeOK, NEW t \in Tasks, TaskStep(t), ~(t \in Clients /\ MoveLookup(t))
    PROVE  \A n \in RoomNames : rooms'[n] \in {rooms[n], NoObject}
<1> DEFINE Shrinks == \A n \in RoomNames : rooms'[n] \in {rooms[n], NoObject}
<1>1. ASSUME t \in Clients, Input(t) PROVE Shrinks
    BY <1>1, InputFrame
<1>2. ASSUME t \in Clients, Handler(t), ~MoveUnlist(t) PROVE UNCHANGED rooms
    BY <1>2
    DEF Handler, BoardHandler, RoomHandler, MoveAdd, MoveLeave,
        MoveEnter, MoveCheck, HandleReady, HandleStart,
        StartAnnounce, ChatSend, PlayState, PlayTurn, PlayOpponent, PlayRefused,
        PlayLegal, PlaySwitch, PlayStep, ThrowsNull, CleanUp, RemoveSession,
        UnregisterNickName
<1>3. ASSUME t \in Clients, MoveUnlist(t) PROVE Shrinks
    BY <1>3 DEF MoveUnlist, TypeOK
<1>4. ASSUME Removal(t) PROVE Shrinks
    BY <1>4 DEF Removal, RemoveLeave, RemoveUnlist, RemoveClear, TypeOK
<1>5. ASSUME NEW c \in Clients, Evict(t, c) PROVE Shrinks
    BY <1>5 DEF Evict
<1> QED BY <1>1, <1>2, <1>3, <1>4, <1>5 DEF TaskStep, SessionStep, EvictorStep

LEMMA NamesRightInvariance ==
    ASSUME TypeOK, RoomsSound, NamesRight, [Next]_vars
    PROVE  NamesRight'
<1> SUFFICES ASSUME NEW n \in RoomNames, rooms'[n] # NoObject
             PROVE  heap'[rooms'[n]].Name = n
    BY DEF NamesRight
<1>1. ASSUME rooms'[n] = rooms[n] PROVE heap'[rooms'[n]].Name = n
    BY <1>1, NamesStay DEF NamesRight, Unreferenced, TypeOK
<1>2. ASSUME NEW c \in Clients, MoveLookup(c), rooms'[n] # rooms[n]
      PROVE  heap'[rooms'[n]].Name = n
    <2>1. PICK o \in Objects : /\ rooms' = [rooms EXCEPT ![target[c]] = o]
                               /\ SetRoom(o, NewRoom(target[c]))
        BY <1>2 DEF MoveLookup
    <2>2. n = target[c] /\ rooms'[n] = o
        BY <1>2, <2>1 DEF TypeOK
    <2>3. heap'[o] = NewRoom(n)
        BY <2>1, <2>2 DEF SetRoom, TypeOK
    <2> QED BY <2>2, <2>3 DEF NewRoom
<1>3. UNCHANGED vars => UNCHANGED rooms
    BY DEF vars
<1> QED BY <1>1, <1>2, <1>3, ListShrinks, StepsAreTaskSteps

LEMMA RemovesInvariance ==
    ASSUME TypeOK, PlaceInv, NEW t \in Tasks, TaskStep(t), Frame(t),
           NEW u \in Tasks \ {t}
    PROVE  RemovesRight(u)'
<1> SUFFICES ASSUME pc'[u] \in Removes PROVE RemovesRight(u)'
    BY DEF RemovesRight
<1>1. /\ pc[u] \in Removes /\ Subject(u)' = Subject(u)
      /\ oldRoom'[u] = oldRoom[u] /\ RemovesRight(u)
    BY DEF Frame, PlaceInv
<1>2. CurrentRoom'[Subject(u)] = CurrentRoom[Subject(u)]
    <2>1. CASE UNCHANGED CurrentRoom
        BY <2>1
    <2>2. CASE pc[t] \in {"moveEnter", "removeClear"}
        BY <1>1, <2>2, OneRemover DEF PlaceInv, Frame, RemovesRight
    <2> QED BY <2>1, <2>2, RoomChanges
<1> QED BY <1>1, <1>2 DEF RemovesRight

LEMMA SessionRemoves ==
    ASSUME TypeOK, NEW c \in Clients, Input(c) \/ Handler(c)
    PROVE  RemovesRight(c)'
<1> USE DEF Goto, TypeOK, ControlOK, Tasks, Removes, Removed, RemovesRight
<1>1. CASE Input(c)
    BY <1>1
    DEF Input, Accept, Disconnect, Quit, Login, JoinRoom, BeginMove, Ready,
        Start, Chat, Move, CallsRoom, Commanded, Receives
<1>2. CASE CleanUp(c)
    BY <1>2 DEF CleanUp, BeginRemove, RoomIsGone, Subject
<1>3. CASE Handler(c) /\ ~CleanUp(c)
    <2>1. pc'[c] \notin Removes
        BY <1>3
        DEF Handler, BoardHandler, RoomHandler, MoveLookup, MoveAdd, MoveLeave,
            MoveUnlist, MoveEnter, MoveCheck, HandleReady, HandleStart, Leave,
            StartAnnounce, ChatSend, PlayState, PlayTurn, PlayOpponent, PlayRefused,
            PlayLegal, PlaySwitch, PlayStep, ThrowsNull, RemoveSession,
            UnregisterNickName
    <2> QED BY <2>1
<1> QED BY <1>1, <1>2, <1>3

LEMMA SessionPlaces ==
    ASSUME Undisturbed, TypeOK, RoomsSound, PlaceInv, NEW c \in Clients, SessionStep(c)
    PROVE  PlaceInv'
<1>1. c \in Tasks /\ TaskStep(c) /\ [Next]_vars
    BY DEF Tasks, TaskStep, Next
<1>2. Frame(c) /\ Subject(c) = c
    BY <1>1, TaskFrame DEF Subject
<1>3. /\ AllHosted'
      /\ SameMembers \/ \E o \in Objects : Joins(c, o) \/ Parts(c, o)
      /\ Own(c)
      /\ RemovesRight(c)'
    <2>1. CASE Input(c)
        <3>1. SameMembers /\ Own(c) /\ UNCHANGED heap
            BY <2>1, InputOwn, InputFrame
        <3>2. AllHosted'
            BY <3>1 DEF AllHosted, PlaceInv
        <3>3. RemovesRight(c)'
            BY <2>1, SessionRemoves
        <3> QED BY <3>1, <3>2, <3>3
    <2>2. CASE Handler(c)
        BY <2>2, HandlerOwn, SessionRemoves
    <2>3. CASE Removal(c)
        BY <1>1, <1>2, <2>3, RemovalOwn
    <2> QED BY <2>1, <2>2, <2>3 DEF SessionStep
<1>4. ASSUME NEW d \in Clients \ {c} PROVE Placed(d)' /\ MembersRight(d)'
    <2>1. CurrentRoom'[d] = CurrentRoom[d]
        BY <1>2 DEF Frame
    <2>2. \A o \in Objects : d \in heap'[o].clients <=> d \in heap[o].clients
        BY <1>3 DEF SameMembers, Joins, Parts
    <2>3. Subject(c) # d /\ Subject(c)' # d
        BY DEF Subject
    <2> QED BY <1>1, <1>2, <2>1, <2>2, <2>3, OthersPlaced, OthersMembers
<1>5. \A d \in Clients : Placed(d)' /\ MembersRight(d)'
    BY <1>3, <1>4 DEF Own
<1>6. \A u \in Tasks : RemovesRight(u)'
    BY <1>1, <1>2, <1>3, RemovesInvariance
<1>7. EvictorsAlone' /\ NamesRight'
    BY <1>1, AloneInvariance, NamesRightInvariance DEF PlaceInv, Undisturbed
<1> QED BY <1>3, <1>5, <1>6, <1>7 DEF PlaceInv, AllHosted

LEMMA EvictorPlaces ==
    ASSUME Undisturbed, TypeOK, RoomsSound, PlaceInv, NEW e \in Evictors, EvictorStep(e)
    PROVE  PlaceInv'
<1>1. e \in Tasks /\ e \notin Clients /\ TaskStep(e) /\ [Next]_vars
    BY ChatAssumption DEF Tasks, TaskStep, Next
<1>2. Frame(e)
    BY <1>1, TaskFrame
<1>3. EvictorsAlone' /\ NamesRight' /\ \A u \in Tasks \ {e} : RemovesRight(u)'
    BY <1>1, <1>2, AloneInvariance, NamesRightInvariance, RemovesInvariance
    DEF PlaceInv, Undisturbed
<1>4. ASSUME NEW c \in Clients, Evict(e, c) PROVE PlaceInv'
    <2>1. /\ pc[e] = "none" /\ pc'[e] = "removeLeave" /\ Subject(e)' = c
          /\ CurrentRoom[c] # NoObject /\ oldRoom'[e] = CurrentRoom[c]
          /\ UNCHANGED <<heap, CurrentRoom>>
        BY <1>1, <1>4 DEF Evict, BeginRemove, Goto, RoomIsGone, Subject, TypeOK, ControlOK, Tasks
    <2>2. RemovesRight(e)'
        BY <2>1 DEF RemovesRight, TypeOK
    <2>3. pc[e] \notin Removed /\ pc'[e] \notin Removed
        BY <2>1 DEF Removed
    <2>4. \A d \in Clients : Placed(d)' /\ MembersRight(d)'
        BY <1>1, <1>2, <2>1, <2>3, OthersPlaced, OthersMembers
    <2> QED BY <1>3, <2>1, <2>2, <2>4 DEF PlaceInv
<1>5. CASE Removal(e)
    <2>1. pc[e] \in Removes
        BY <1>5 DEF Removal, RemoveLeave, RemoveUnlist, RemoveClear, Removes, Removed
    <2>2. PICK s \in Clients : s = Subject(e)
        BY <1>1, <2>1 DEF PlaceInv, RemovesRight
    <2>3. /\ AllHosted'
          /\ SameMembers \/ \E o \in Objects : Parts(s, o)
          /\ Own(s)
          /\ RemovesRight(e)'
        BY <1>1, <1>5, <2>2, RemovalOwn
    <2>4. ASSUME NEW d \in Clients \ {s} PROVE Placed(d)' /\ MembersRight(d)'
        <3>1. CurrentRoom'[d] = CurrentRoom[d]
            BY <1>2, <2>2 DEF Frame
        <3>2. \A o \in Objects : d \in heap'[o].clients <=> d \in heap[o].clients
            BY <2>3 DEF SameMembers, Parts
        <3>3. Subject(e) # d /\ Subject(e)' # d
            BY <1>1, <1>5, <2>2, RoomAssumption
            DEF Removal, RemoveLeave, RemoveUnlist, RemoveClear, RemoveReturns,
                Subject, TypeOK, ControlOK, Tasks
        <3> QED BY <1>1, <1>2, <3>1, <3>2, <3>3, OthersPlaced, OthersMembers
    <2>5. \A d \in Clients : Placed(d)' /\ MembersRight(d)'
        BY <2>3, <2>4 DEF Own
    <2> QED BY <1>3, <2>3, <2>5 DEF PlaceInv, AllHosted
<1> QED BY <1>4, <1>5 DEF EvictorStep

LEMMA PlaceInvariance ==
    ASSUME Undisturbed, TypeOK, RoomsSound, PlaceInv, [Next]_vars
    PROVE  PlaceInv'
<1>1. CASE UNCHANGED vars
    BY <1>1
    DEF vars, registry, locals, PlaceInv, EvictorsAlone, Resting, NamesRight,
        Placed, MembersRight, Stays, TakenOut, Subject, RemovesRight
<1> QED
    BY <1>1, SessionPlaces, EvictorPlaces DEF Next, AllEnded

LEMMA InitPlaces == Init => PlaceInv
<1> SUFFICES ASSUME Init PROVE PlaceInv
    OBVIOUS
<1>1. \A t \in Tasks : pc[t] \notin Removes /\ (t \in Evictors => pc[t] = "none")
    BY ChatAssumption DEF Init, Removes, Removed
<1>2. EvictorsAlone /\ \A t \in Tasks : RemovesRight(t)
    BY <1>1 DEF EvictorsAlone, RemovesRight, Tasks
<1>3. NamesRight /\ \A o \in Objects : Hosted(heap[o])
    BY ChatAssumption DEF Init, NamesRight, Hosted, NewRoom
<1>4. ASSUME NEW c \in Clients PROVE Placed(c) /\ MembersRight(c)
    <2>1. pc[c] = "offline" /\ CurrentRoom[c] = NoObject /\ ~IsLoggedIn[c] /\ ~TakenOut(c)
        BY <1>1 DEF Init, TakenOut, Tasks, Removes
    <2>2. Stays(c) = {NoObject}
        BY <2>1 DEF Stays
    <2>3. MembersRight(c)
        BY <2>2, ChatAssumption DEF Init, MembersRight, NewRoom
    <2>4. Placed(c)
        BY <2>1 DEF Placed, Entering, Inside, MidMove, Outside
    <2> QED BY <2>3, <2>4
<1> QED BY <1>2, <1>3, <1>4 DEF PlaceInv

LEMMA PlacesAlways ==
    ASSUME Undisturbed
    PROVE  Spec => []PlaceInv
<1>1. TypeOK /\ RoomsSound /\ PlaceInv /\ [Next]_vars => PlaceInv'
    BY PlaceInvariance
<1> QED BY <1>1, InitPlaces, RoomsInvariant, PTL DEF Spec

\* As long as no client joins the room it is in and no eviction runs beside a
\* handler, a session between two commands is a member of exactly the room its
\* CurrentRoom refers to (RoomManager.cs: MoveClientToRoomAsync,
\* RemoveClientAsync).
THEOREM MembershipTheorem ==
    ASSUME Undisturbed
    PROVE  Spec => []MembershipAgrees
<1>1. TypeOK /\ PlaceInv => MembershipAgrees
    <2> SUFFICES ASSUME TypeOK, PlaceInv, NEW c \in Clients, NEW o \in Objects,
                        Resting(c), \A e \in Evictors : Resting(e)
                 PROVE  c \in heap[o].clients <=> CurrentRoom[c] = o
        BY DEF MembershipAgrees
    <2>1. \A t \in Tasks : pc[t] \in Removed => Subject(t) # c
        BY DEF Resting, Removed, Subject, Tasks
    <2>2. Stays(c) = {CurrentRoom[c]}
        BY <2>1 DEF Stays, TakenOut, Resting
    <2> QED BY <2>2 DEF PlaceInv, MembersRight
<1> QED BY <1>1, PlacesAlways, RoomsInvariant, PTL

\* Under the same conditions no cleanup ends in an exception: the member that
\* leaves always finds somebody to inherit the room, or nobody is left
\* (GameRoom.cs:81-134).
THEOREM CleanUpTheorem ==
    ASSUME Undisturbed
    PROVE  Spec => []CleanUpNeverThrows
<1>1. PlaceInv => CleanUpNeverThrows
    BY DEF PlaceInv, Placed, CleanUpNeverThrows
<1> QED BY <1>1, PlacesAlways, PTL
-----------------------------------------------------------------------------
(* What a step makes of one room object.                                    *)

Unlists(c, o) == \E t \in Tasks : pc[t] \in Unlisting /\ Subject(t) = c /\ oldRoom[t] = o

Resets(o) == Unreferenced(o) /\ \E n \in RoomNames : heap'[o] = NewRoom(n)
Enters(c, o) ==
    /\ pc[c] = "moveAdd" /\ newRoom[c] = o /\ o # CurrentRoom[c]
    /\ HasSpace(heap[o]) /\ heap'[o] = WithClient(heap[o], c)
Exits(c, o) ==
    /\ c \in heap[o].clients /\ heap'[o] = WithoutClient(heap[o], c)
    /\ pc'[c] # "moveAdd" /\ (IsEmptied(heap[o], c) => Unlists(c, o)')
Toggles(c, o) ==
    pc[c] = "ready" /\ CurrentRoom[c] = o /\ heap'[o] = ReadyToggled(heap[o], c)
Begins(c, o) ==
    /\ pc[c] = "start" /\ CurrentRoom[c] = o
    /\ CanStart(heap[o], c) /\ heap'[o] = Started(heap[o])
Passes(c, o) ==
    /\ pc[c] = "playSwitch" /\ pc'[c] = "idle" /\ CurrentRoom[c] = o
    /\ heap'[o] = TurnSwitched(heap[o])

Changes(c, o) ==
    \/ Resets(o) \/ Enters(c, o) \/ Exits(c, o) \/ Toggles(c, o) \/ Begins(c, o)
    \/ Passes(c, o)

\* At most one object changes, by one block, run for one client.
RoomStep(t) ==
    \/ UNCHANGED heap
    \/ \E c \in Clients, o \in Objects :
          /\ Changes(c, o) /\ (t \in Clients => c = t)
          /\ \A p \in Objects \ {o} : heap'[p] = heap[p]

LEMMA ChangesOne ==
    ASSUME TypeOK, NEW t \in Tasks, NEW c \in Clients, t \in Clients => c = t,
           NEW o \in Objects, NEW s, SetRoom(o, s), heap'[o] = s => Changes(c, o)
    PROVE  RoomStep(t)
<1>1. heap'[o] = s /\ \A p \in Objects \ {o} : heap'[p] = heap[p]
    BY DEF SetRoom, TypeOK
<1> QED BY <1>1 DEF RoomStep

LEMMA HandlerRoomStep ==
    ASSUME Undisturbed, TypeOK, RoomsSound, PlaceInv, NEW c \in Clients, Handler(c)
    PROVE  RoomStep(c)
<1>1. c \in Tasks /\ Placed(c) /\ MembersRight(c) /\ ~TakenOut(c)
    <2>1. pc[c] \notin Removed
        BY DEF Handler, BoardHandler, RoomHandler, MoveLookup, MoveAdd, MoveLeave,
            MoveUnlist, MoveEnter, MoveCheck, HandleReady, HandleStart,
            StartAnnounce, ChatSend, PlayState, PlayTurn, PlayOpponent, PlayRefused,
            PlayLegal, PlaySwitch, PlayStep, ThrowsNull, CleanUp, RemoveSession,
            UnregisterNickName, Removed
    <2> QED BY <2>1, NobodyElseRemoves DEF PlaceInv, Tasks, SessionStep, Undisturbed
<1>2. CASE UNCHANGED heap
    BY <1>2 DEF RoomStep
<1>3. ASSUME NEW o \in Objects, Unreferenced(o), SetRoom(o, NewRoom(target[c]))
      PROVE  RoomStep(c)
    <2>1. heap'[o] = NewRoom(target[c]) => Changes(c, o)
        BY <1>3 DEF Changes, Resets, TypeOK
    <2> QED BY <1>1, <1>3, <2>1, ChangesOne
<1>4. CASE MoveLookup(c)
    BY <1>2, <1>3, <1>4 DEF MoveLookup
<1>5. CASE MoveAdd(c)
    <2> DEFINE o == newRoom[c]
               s == WithClient(heap[o], c)
    <2>1. o \in Objects /\ o # CurrentRoom[c]
        BY <1>1, <1>5 DEF MoveAdd, Placed, Entering
    <2>2. ASSUME HasSpace(heap[o]), SetRoom(o, s) PROVE RoomStep(c)
        <3>1. heap'[o] = s => Changes(c, o)
            BY <1>5, <2>1, <2>2 DEF MoveAdd, Changes, Enters
        <3> QED BY <1>1, <2>1, <2>2, <3>1, ChangesOne
    <2> QED BY <1>2, <1>5, <2>2 DEF MoveAdd, Added
<1>6. CASE MoveLeave(c)
    <2> DEFINE o == oldRoom[c]
               s == WithoutClient(heap[o], c)
    <2>1. o \in Objects /\ o \in Stays(c) /\ c \in heap[o].clients
        BY <1>1, <1>6 DEF MoveLeave, Placed, Entering, Stays, MembersRight
    <2>2. ~RemovalThrows(heap[o], c)
        BY <1>6, <2>1, RemoveMembers DEF MoveLeave
    <2>3. /\ pc'[c] # "moveAdd" /\ oldRoom'[c] = o /\ Subject(c)' = c
          /\ IsEmptied(heap[o], c) => pc'[c] \in Unlisting
        BY <1>1, <1>6, <2>2
        DEF MoveLeave, Goto, locals, Unlisting, Subject, TypeOK, ControlOK
    <2>4. heap'[o] = s => Changes(c, o)
        BY <1>1, <2>1, <2>3 DEF Changes, Exits, Unlists
    <2>5. SetRoom(o, s)
        BY <1>6 DEF MoveLeave
    <2> QED BY <1>1, <2>1, <2>4, <2>5, ChangesOne
<1>7. CASE HandleReady(c)
    <2> DEFINE o == CurrentRoom[c]
               s == ReadyToggled(heap[o], c)
    <2>1. ASSUME o # NoObject, SetRoom(o, s) PROVE RoomStep(c)
        <3>1. o \in Objects
            BY <2>1 DEF TypeOK
        <3>2. heap'[o] = s => Changes(c, o)
            BY <1>7 DEF HandleReady, ThrowsNull, Changes, Toggles
        <3> QED BY <1>1, <2>1, <3>1, <3>2, ChangesOne
    <2> QED BY <1>2, <1>7, <2>1 DEF HandleReady, ThrowsNull, RoomIsGone
<1>8. CASE HandleStart(c)
    <2> DEFINE o == CurrentRoom[c]
               s == Started(heap[o])
    <2>1. ASSUME o # NoObject, CanStart(heap[o], c), SetRoom(o, s) PROVE RoomStep(c)
        <3>1. o \in Objects
            BY <2>1 DEF TypeOK
        <3>2. heap'[o] = s => Changes(c, o)
            BY <1>8, <2>1 DEF HandleStart, ThrowsNull, Changes, Begins
        <3> QED BY <1>1, <2>1, <3>1, <3>2, ChangesOne
    <2> QED BY <1>2, <1>8, <2>1 DEF HandleStart, ThrowsNull, RoomIsGone
<1>9. CASE PlaySwitch(c)
    <2> DEFINE o == CurrentRoom[c]
               s == TurnSwitched(heap[o])
    <2>1. ASSUME o # NoObject, SetRoom(o, s), Goto(c, "idle") PROVE RoomStep(c)
        <3>1. o \in Objects /\ pc'[c] = "idle"
            BY <1>1, <2>1 DEF TypeOK, ControlOK, Goto
        <3>2. heap'[o] = s => Changes(c, o)
            BY <1>9, <3>1 DEF PlaySwitch, ThrowsNull, Changes, Passes
        <3> QED BY <1>1, <2>1, <3>1, <3>2, ChangesOne
    <2> QED BY <1>2, <1>9, <2>1 DEF PlaySwitch, ThrowsNull, RoomIsGone
<1>10. CASE \/ MoveUnlist(c) \/ MoveEnter(c) \/ MoveCheck(c)
            \/ StartAnnounce(c) \/ ChatSend(c)
            \/ PlayState(c) \/ PlayTurn(c) \/ PlayOpponent(c)
            \/ CleanUp(c) \/ RemoveSession(c) \/ UnregisterNickName(c)
    BY <1>2, <1>10
    DEF MoveUnlist, MoveEnter, MoveCheck, StartAnnounce, ChatSend, PlayState,
        PlayTurn, PlayOpponent, PlayRefused, PlayLegal, PlayStep, ThrowsNull,
        CleanUp, RemoveSession, UnregisterNickName
<1> QED
    BY <1>4, <1>5, <1>6, <1>7, <1>8, <1>9, <1>10 DEF Handler, BoardHandler, RoomHandler

LEMMA TaskRoomStep ==
    ASSUME Undisturbed, TypeOK, RoomsSound, PlaceInv, NEW t \in Tasks, TaskStep(t)
    PROVE  RoomStep(t)
<1>1. ASSUME t \in Clients, Input(t) PROVE RoomStep(t)
    BY <1>1, InputFrame DEF RoomStep
<1>2. ASSUME NEW c \in Clients, Evict(t, c) PROVE RoomStep(t)
    BY <1>2 DEF Evict, RoomStep
<1>3. CASE RemoveUnlist(t) \/ RemoveClear(t)
    BY <1>3 DEF RemoveUnlist, RemoveClear, RoomStep
<1>4. CASE RemoveLeave(t)
    <2> DEFINE o == oldRoom[t]
    <2>1. pc[t] \in Removes
        BY <1>4 DEF RemoveLeave, Removes
    <2>2. PICK c \in Clients : c = Subject(t)
        BY <2>1, SubjectPlace
    <2>3. /\ o \in Objects /\ o = CurrentRoom[c] /\ ~TakenOut(c)
          /\ pc[c] \notin {"moveLeave", "moveUnlist", "moveEnter"}
          /\ t \in Clients \/ Resting(c)
        BY <1>4, <2>1, <2>2, SubjectPlace DEF RemoveLeave, Removed
    <2>4. o \in Stays(c) /\ c \in heap[o].clients
        BY <2>3 DEF Stays, PlaceInv, MembersRight
    <2>5. ~RemovalThrows(heap[o], c)
        BY <1>4, <2>2, <2>3, <2>4, RemoveMembers DEF RemoveLeave
    <2>6. /\ oldRoom'[t] = o /\ Subject(t)' = c
          /\ IsEmptied(heap[o], c) => pc'[t] \in Unlisting
        BY <1>4, <2>2, <2>5
        DEF RemoveLeave, Goto, locals, Unlisting, Subject, TypeOK, ControlOK
    <2>7. pc'[c] # "moveAdd"
        BY <1>4, <2>2, <2>3, <2>5
        DEF RemoveLeave, Goto, Subject, TypeOK, ControlOK, Resting, Tasks
    <2>8. heap'[o] = WithoutClient(heap[o], c) => Changes(c, o)
        BY <2>4, <2>6, <2>7 DEF Changes, Exits, Unlists
    <2>9. SetRoom(o, WithoutClient(heap[o], c)) /\ (t \in Clients => c = t)
        BY <1>4, <2>2 DEF RemoveLeave, Subject
    <2> QED BY <2>3, <2>8, <2>9, ChangesOne
<1> QED
    BY <1>1, <1>2, <1>3, <1>4, HandlerRoomStep
    DEF TaskStep, SessionStep, EvictorStep, Removal

\* Whoever ends a running game was one of its two players, and every object
\* that is made anew was empty (GameRoom.cs:81 does not ask).
THEOREM DepartureTheorem ==
    ASSUME Undisturbed
    PROVE  Spec => GameStopsOnDeparture
<1>1. ASSUME TypeOK, RoomsSound, PlaceInv, [Next]_vars, NEW o \in Objects,
             heap[o].State = "PLAYING", heap'[o].State # "PLAYING"
      PROVE  heap'[o].clients # heap[o].clients
    <2>1. PICK c \in Clients : Changes(c, o)
        BY <1>1, StepsAreTaskSteps, TaskRoomStep DEF RoomStep, vars
    <2>2. heap[o] \in Room /\ GameIsSeated(heap[o])
        BY <1>1 DEF TypeOK, RoomsSound, RoomSound
    <2>3. CASE Resets(o)
        BY <1>1, <2>2, <2>3, UnreferencedIsEmpty, FS_EmptySet
        DEF Resets, GameIsSeated, MAX_PLAYERS
    <2>4. CASE Exits(c, o)
        BY <2>2, <2>4, BlockMembers DEF Exits
    <2>5. CASE \/ Enters(c, o) \/ Toggles(c, o) \/ Begins(c, o) \/ Passes(c, o)
        BY <1>1, <2>2, <2>5
        DEF Enters, Toggles, Begins, Passes, WithClient, ReadyToggled, Started,
            TurnSwitched, Room
    <2> QED BY <2>1, <2>3, <2>4, <2>5 DEF Changes
<1>2. TypeOK /\ RoomsSound /\ PlaceInv /\ [Next]_vars
      => [\A o \in Objects :
            heap[o].State = "PLAYING" /\ heap'[o].State # "PLAYING"
               => heap'[o].clients # heap[o].clients]_vars
    BY <1>1
<1> QED BY <1>2, PlacesAlways, RoomsInvariant, PTL DEF Spec, GameStopsOnDeparture
-----------------------------------------------------------------------------
(* Who has the slots of a room, and whose move it is.                       *)

\* A client that kept its slot when it was the last member, and that cannot
\* come back: the room is off the list, or the client is about to take it off.
GoneFor(p, o) ==
    /\ ~(pc[p] = "moveAdd" /\ newRoom[p] = o)
    /\ rooms[heap[o].Name] = o => Unlists(p, o)

SettledIn(p, o) ==
    p \in heap[o].clients /\ CurrentRoom[p] = o /\ pc[p] # "moveCheck"

SlotsApart(r) == r.Player1 = r.Player2 => r.Player1 = NoClient

SeatsRight(o) ==
    LET r == heap[o] IN
    /\ SlotsApart(r)
    /\ \A p \in Clients : p \in {r.Player1, r.Player2} => p \in r.clients \/ GoneFor(p, o)
    /\ r.IsPlayer2Ready => SettledIn(r.Player2, o)
    /\ r.State = "PLAYING" => /\ r.clients = {r.Player1, r.Player2}
                              /\ SettledIn(r.Player1, o) /\ SettledIn(r.Player2, o)

\* A MOVE that has seen the game running: the turn is the player's until it
\* passes it on; when the game was stopped meanwhile, the player is the host,
\* so that nobody else can start another one.
MovesInTurn(c) ==
    pc[c] \in MidMove =>
      LET r == heap[CurrentRoom[c]] IN
      /\ r.State # "PLAYING" => r.Player1 = c
      /\ r.State = "PLAYING" /\ pc[c] # "playTurn" => r.CurrentTurn = c

SeatInv ==
    /\ \A o \in Objects : SeatsRight(o)
    /\ \A c \in Clients : MovesInTurn(c)

\* A member that has arrived stays settled until it leaves.
LEMMA SettledStays ==
    ASSUME TypeOK, PlaceInv, NEW t \in Tasks, TaskStep(t),
           NEW o \in Objects, NEW p \in heap[o].clients, p \in heap'[o].clients,
           SettledIn(p, o)
    PROVE  SettledIn(p, o)'
<1>1. p \in Clients /\ p \in Tasks /\ o \in Stays(p)
    BY DEF TypeOK, Room, Tasks, PlaceInv, MembersRight
<1>2. CurrentRoom[p] = o /\ ~TakenOut(p) /\ Placed(p)
    BY <1>1 DEF SettledIn, PlaceInv, Stays
<1>3. pc[p] # "moveEnter"
    BY <1>1, <1>2 DEF Stays, Placed, Entering
<1>4. CurrentRoom'[p] = CurrentRoom[p]
    <2>1. CASE p # Subject(t)
        BY <1>1, <2>1, TaskFrame DEF Frame
    <2>2. CASE p = Subject(t)
        <3>1. pc[t] # "removeClear"
            BY <1>2, <2>2 DEF TakenOut, Removed
        <3>2. pc[t] # "moveEnter"
            BY <1>3, <2>2, ChatAssumption DEF Subject, TypeOK, ControlOK, EvictorPC, Tasks
        <3> QED BY <3>1, <3>2, RoomChanges
    <2> QED BY <2>1, <2>2
<1>5. pc'[p] # "moveCheck"
    <2>1. CASE p # t
        BY <1>1, <2>1, TaskFrame DEF Frame, SettledIn
    <2>2. CASE p = t
        <3>1. ASSUME Handler(p), pc[p] # "moveEnter" PROVE pc'[p] # "moveCheck"
            BY <1>1, <3>1
            DEF Handler, BoardHandler, RoomHandler, MoveLookup, MoveAdd, MoveLeave,
                MoveUnlist, MoveEnter, MoveCheck, HandleReady, HandleStart, Leave,
                StartAnnounce, ChatSend, PlayState, PlayTurn, PlayOpponent, PlayRefused,
                PlayLegal, PlaySwitch, PlayStep, ThrowsNull, CleanUp, BeginRemove,
                RemoveSession, UnregisterNickName, Goto, TypeOK, ControlOK
        <3>2. ASSUME Input(p) PROVE pc'[p] # "moveCheck"
            BY <1>1, <3>2
            DEF Input, Accept, Disconnect, Quit, Login, JoinRoom, BeginMove, Ready,
                Start, Chat, Move, CallsRoom, Goto, TypeOK, ControlOK
        <3>3. ASSUME Removal(p) PROVE pc'[p] # "moveCheck"
            BY <1>1, <3>3
            DEF Removal, RemoveLeave, RemoveUnlist, RemoveClear, RemoveReturns,
                Goto, TypeOK, ControlOK
        <3> QED BY <1>1, <1>3, <2>2, <3>1, <3>2, <3>3 DEF TaskStep, SessionStep
    <2> QED BY <2>1, <2>2
<1> QED BY <1>2, <1>4, <1>5 DEF SettledIn

\* A client that is gone from a room object stays so.
LEMMA GoneStays ==
    ASSUME Undisturbed, TypeOK, RoomsSound, PlaceInv, NEW t \in Tasks, TaskStep(t),
           NEW o \in Objects, NEW p \in Clients, GoneFor(p, o),
           ~Resets(o), heap'[o].Name = heap[o].Name
    PROVE  GoneFor(p, o)'
<1> DEFINE n == heap[o].Name
<1>1. n \in RoomNames /\ p \in Tasks /\ Frame(t)
    BY TaskFrame DEF TypeOK, Room, Tasks
<1>2. rooms'[n] = o => rooms[n] = o
    <2>1. CASE t \in Clients /\ MoveLookup(t)
        <3>1. ASSUME NEW q \in Objects, Unreferenced(q),
                     rooms' = [rooms EXCEPT ![target[t]] = q],
                     SetRoom(q, NewRoom(target[t])), rooms'[n] = o, rooms[n] # o
              PROVE  FALSE
            <4>1. n = target[t] /\ q = o
                BY <1>1, <3>1 DEF TypeOK
            <4>2. heap'[o] = NewRoom(n)
                BY <3>1, <4>1 DEF SetRoom, TypeOK
            <4> QED BY <1>1, <3>1, <4>1, <4>2 DEF Resets
        <3> QED BY <2>1, <3>1 DEF MoveLookup
    <2>2. CASE ~(t \in Clients /\ MoveLookup(t))
        BY <1>1, <2>2, ListShrinks, ChatAssumption
    <2> QED BY <2>1, <2>2
<1>3. ASSUME rooms'[n] = o PROVE Unlists(p, o)'
    <2>1. PICK u \in Tasks : pc[u] \in Unlisting /\ Subject(u) = p /\ oldRoom[u] = o
        BY <1>2, <1>3 DEF GoneFor, Unlists
    <2>2. CASE u # t
        BY <1>1, <2>1, <2>2 DEF Unlists, Frame
    <2>3. CASE u = t
        <3>1. \/ t \in Clients /\ MoveUnlist(t)
              \/ RemoveUnlist(t)
            BY <2>1, <2>3
            DEF TaskStep, SessionStep, EvictorStep, Evict, Unlisting,
                Input, Accept, Disconnect, Quit, Login, JoinRoom, Ready, Start,
                Chat, Move, CallsRoom, Commanded, Receives,
                Handler, BoardHandler, RoomHandler, MoveLookup, MoveAdd, MoveLeave,
                MoveEnter, MoveCheck, HandleReady, HandleStart,
                StartAnnounce, ChatSend, PlayState, PlayTurn, PlayOpponent, PlayRefused,
                PlayLegal, PlaySwitch, PlayStep, ThrowsNull, CleanUp,
                RemoveSession, UnregisterNickName, Removal, RemoveLeave, RemoveClear
        <3>2. rooms'[n] = NoObject
            BY <1>1, <2>1, <2>3, <3>1 DEF MoveUnlist, RemoveUnlist, TypeOK
        <3> QED BY <1>3, <3>2, ChatAssumption
    <2> QED BY <2>2, <2>3
<1>4. ~(pc'[p] = "moveAdd" /\ newRoom'[p] = o)
    <2> SUFFICES ASSUME pc'[p] = "moveAdd", newRoom'[p] = o PROVE FALSE
        OBVIOUS
    <2>1. p = t
        BY <1>1 DEF Frame, GoneFor
    <2>2. MoveLookup(p)
        BY <1>1, <2>1
        DEF TaskStep, SessionStep, Goto, Leave, TypeOK, ControlOK,
            Input, Accept, Disconnect, Quit, Login, JoinRoom, BeginMove, Ready,
            Start, Chat, Move, CallsRoom, Commanded, Receives,
            Handler, BoardHandler, RoomHandler, MoveAdd, MoveLeave, MoveUnlist,
            MoveEnter, MoveCheck, HandleReady, HandleStart,
            StartAnnounce, ChatSend, PlayState, PlayTurn, PlayOpponent, PlayRefused,
            PlayLegal, PlaySwitch, PlayStep, ThrowsNull, CleanUp, BeginRemove,
            RemoveSession, UnregisterNickName,
            Removal, RemoveLeave, RemoveUnlist, RemoveClear, RemoveReturns
    <2>3. rooms[target[p]] = o
        <3>1. ASSUME NEW q \in Objects, Unreferenced(q), newRoom'[p] = q,
                     SetRoom(q, NewRoom(target[p]))
              PROVE  FALSE
            <4>1. heap'[o] = NewRoom(target[p]) /\ target[p] \in RoomNames
                BY <3>1 DEF SetRoom, TypeOK
            <4> QED BY <3>1, <4>1 DEF Resets
        <3> QED BY <2>2, <3>1 DEF MoveLookup, TypeOK
    <2>4. n = target[p]
        BY <2>3, ChatAssumption DEF PlaceInv, NamesRight, TypeOK
    <2>5. PICK u \in Tasks : pc[u] \in Unlisting /\ Subject(u) = p
        BY <2>3, <2>4 DEF GoneFor, Unlists
    <2>6. u # p /\ u \notin Clients
        BY <2>2, <2>5 DEF Unlisting, MoveLookup, Subject
    <2>7. ~Resting(p) /\ u \in Evictors /\ pc[u] # "none"
        BY <2>2, <2>5, <2>6 DEF MoveLookup, Resting, Tasks, Unlisting
    <2> QED BY <1>1, <2>6, <2>7 DEF PlaceInv, EvictorsAlone
<1> QED BY <1>3, <1>4 DEF GoneFor
LEMMA ResetSeats ==
    ASSUME NEW o \in Objects, Resets(o)
    PROVE  SeatsRight(o)'
BY RoomAssumption DEF Resets, NewRoom, SeatsRight, SlotsApart

\* A block that moves nobody and neither makes the guest ready nor starts a game.
LEMMA SameSeats ==
    ASSUME Undisturbed, TypeOK, RoomsSound, PlaceInv, NEW t \in Tasks, TaskStep(t),
           NEW o \in Objects, SeatsRight(o), ~Resets(o),
           heap'[o].Name = heap[o].Name, heap'[o].clients = heap[o].clients,
           heap'[o].Player1 = heap[o].Player1, heap'[o].Player2 = heap[o].Player2,
           heap'[o].IsPlayer2Ready => heap[o].IsPlayer2Ready,
           heap'[o].State = "PLAYING" => heap[o].State = "PLAYING"
    PROVE  SeatsRight(o)'
<1>1. \A p \in Clients : GoneFor(p, o) => GoneFor(p, o)'
    BY GoneStays
<1>2. \A p \in heap[o].clients : SettledIn(p, o) => SettledIn(p, o)'
    BY SettledStays
<1>3. heap[o].IsPlayer2Ready => SettledIn(heap[o].Player2, o)'
    BY <1>2 DEF SeatsRight, SettledIn
<1>4. heap[o].State = "PLAYING" => /\ SettledIn(heap[o].Player1, o)'
                                   /\ SettledIn(heap[o].Player2, o)'
    BY <1>2 DEF SeatsRight, SettledIn
<1> QED BY <1>1, <1>3, <1>4 DEF SeatsRight, SlotsApart, SettledIn

LEMMA EnterSeats ==
    ASSUME Undisturbed, TypeOK, RoomsSound, PlaceInv, NEW t \in Tasks, TaskStep(t),
           NEW o \in Objects, SeatsRight(o), ~Resets(o),
           NEW c \in Clients, Enters(c, o)
    PROVE  SeatsRight(o)'
<1> DEFINE r == heap[o]
           q == heap'[o]
<1>1. r \in Room /\ RoomSound(r)
    BY DEF TypeOK, RoomsSound
<1>2. c \notin r.clients
    <2>1. o \notin Stays(c)
        BY DEF Enters, Stays
    <2> QED BY <2>1 DEF PlaceInv, MembersRight
<1>3. c \notin {r.Player1, r.Player2}
    BY <1>2 DEF SeatsRight, Enters, GoneFor
<1>4. /\ q.clients = r.clients \cup {c} /\ q.Name = r.Name
      /\ q.State = r.State /\ q.IsPlayer2Ready = r.IsPlayer2Ready
      /\ q.Player1 \in {r.Player1, c} /\ q.Player2 \in {r.Player2, c}
      /\ q.Player1 = c => q.Player2 = r.Player2
      /\ r.Player2 # NoClient => q.Player2 = r.Player2
    BY <1>1, <1>2, <1>3 DEF Enters, WithClient, Room
<1>5. r.State # "PLAYING"
    BY <1>1, MemberCount
    DEF Enters, RoomSound, HasSpace, GameIsSeated, LobbyIsIdle, MAX_PLAYERS
<1>6. \A p \in Clients : GoneFor(p, o) => GoneFor(p, o)'
    BY <1>4, GoneStays
<1>7. \A p \in r.clients : SettledIn(p, o) => SettledIn(p, o)'
    BY <1>4, SettledStays
<1>8. r.IsPlayer2Ready => q.Player2 = r.Player2 /\ SettledIn(r.Player2, o)'
    BY <1>1, <1>4, <1>7 DEF RoomSound, ReadyIsGuests, SeatsRight, SettledIn
<1>9. SlotsApart(q)
    BY <1>3, <1>4 DEF SeatsRight, SlotsApart
<1> HIDE DEF r, q
<1>10. \A p \in Clients : p \in {q.Player1, q.Player2} => p \in q.clients \/ GoneFor(p, o)'
    BY <1>4, <1>6 DEF SeatsRight, r
<1> QED BY <1>4, <1>5, <1>8, <1>9, <1>10 DEF SeatsRight, SettledIn, r, q

LEMMA ExitSeats ==
    ASSUME Undisturbed, TypeOK, RoomsSound, PlaceInv, NEW t \in Tasks, TaskStep(t),
           NEW o \in Objects, SeatsRight(o), ~Resets(o),
           NEW c \in Clients, Exits(c, o)
    PROVE  SeatsRight(o)'
<1> DEFINE r == heap[o]
           q == heap'[o]
<1>1. r \in Room /\ RoomSound(r) /\ Hosted(r) /\ c \in r.clients
    BY DEF TypeOK, RoomsSound, PlaceInv, Exits
<1>2. /\ q.clients = r.clients \ {c} /\ q.Name = r.Name /\ q.State = "WAITING"
      /\ q.Player1 = IF HostLeaves(r, c) THEN r.Player2 ELSE r.Player1
      /\ q.Player2 = IF HostLeaves(r, c) \/ GuestLeaves(r, c) THEN NoClient
                     ELSE r.Player2
    BY <1>1 DEF Exits, WithoutClient, WithoutClientBut, Room
<1>3. ~q.IsPlayer2Ready
    BY <1>1, WithoutClientSound DEF Exits
<1>4. \A p \in Clients : GoneFor(p, o) => GoneFor(p, o)'
    BY <1>2, GoneStays
<1>5. IsEmptied(r, c) => GoneFor(c, o)'
    BY <1>2 DEF Exits, GoneFor
<1>6. SlotsApart(q)
    BY <1>1, <1>2, RoomAssumption
    DEF SeatsRight, SlotsApart, HostLeaves, Room
<1>7. ASSUME NEW p \in Clients, p \in {q.Player1, q.Player2}
      PROVE  p \in q.clients \/ GoneFor(p, o)'
    <2>1. p \in {r.Player1, r.Player2}
        BY <1>2, <1>7, RoomAssumption
    <2>2. p \in r.clients \/ GoneFor(p, o)
        BY <2>1 DEF SeatsRight
    <2>3. CASE p # c
        BY <1>2, <1>4, <2>2, <2>3
    <2>4. CASE p = c
        <3>1. IsGameRoom(r)
            BY <1>1, <2>1, RoomAssumption DEF RoomSound, LobbyIsIdle
        <3>2. ~HostLeaves(r, c) /\ ~GuestLeaves(r, c)
            BY <1>2, <1>7, <2>4, RoomAssumption
            DEF HostLeaves, GuestLeaves, SeatsRight, SlotsApart
        <3>3. IsEmptied(r, c)
            BY <2>1, <2>4, <3>1, <3>2 DEF HostLeaves, GuestLeaves
        <3> QED BY <1>5, <2>4, <3>3
    <2> QED BY <2>3, <2>4
<1> QED BY <1>2, <1>3, <1>6, <1>7 DEF SeatsRight

\* The client that runs a command in its room is settled there.
LEMMA CommanderSettled ==
    ASSUME PlaceInv, NEW c \in Clients, NEW o \in Objects, CurrentRoom[c] = o,
           pc[c] \in Inside, ~TakenOut(c)
    PROVE  SettledIn(c, o)
<1>1. o \in Stays(c)
    BY DEF Stays, Inside, MidMove
<1> QED BY <1>1 DEF PlaceInv, MembersRight, SettledIn, Inside, MidMove

LEMMA InsideNotRemoved ==
    ASSUME TypeOK, PlaceInv, NEW c \in Clients, pc[c] \in Inside
    PROVE  ~TakenOut(c)
<1>1. ~Resting(c) /\ pc[c] \notin Removed
    BY DEF Inside, MidMove, Resting, Removed
<1> QED BY <1>1, ChatAssumption
    DEF TakenOut, PlaceInv, EvictorsAlone, Subject, Tasks, Removed

LEMMA ToggleSeats ==
    ASSUME Undisturbed, TypeOK, RoomsSound, PlaceInv, NEW t \in Tasks, TaskStep(t),
           NEW o \in Objects, SeatsRight(o), ~Resets(o),
           NEW c \in Clients, Toggles(c, o)
    PROVE  SeatsRight(o)'
<1> DEFINE r == heap[o]
           q == heap'[o]
<1>1. r \in Room
    BY DEF TypeOK
<1>2. /\ q.clients = r.clients /\ q.Name = r.Name /\ q.State = r.State
      /\ q.Player1 = r.Player1 /\ q.Player2 = r.Player2
      /\ q.IsPlayer2Ready => r.IsPlayer2Ready \/ (c = r.Player2)
    BY <1>1 DEF Toggles, ReadyToggled, Room
<1>3. SettledIn(c, o) /\ c \in r.clients
    <2>1. SettledIn(c, o)
        BY InsideNotRemoved, CommanderSettled DEF Toggles, Inside
    <2> QED BY <2>1 DEF SettledIn
<1>4. \A p \in Clients : GoneFor(p, o) => GoneFor(p, o)'
    BY <1>2, GoneStays
<1>5. \A p \in r.clients : SettledIn(p, o) => SettledIn(p, o)'
    BY <1>2, SettledStays
<1>6. q.IsPlayer2Ready => SettledIn(r.Player2, o)'
    BY <1>2, <1>3, <1>5 DEF SeatsRight, SettledIn
<1>7. ASSUME r.State = "PLAYING" PROVE SettledIn(r.Player1, o)' /\ SettledIn(r.Player2, o)'
    <2>1. /\ SettledIn(r.Player1, o) /\ SettledIn(r.Player2, o)
          /\ r.Player1 \in r.clients /\ r.Player2 \in r.clients
        BY <1>7 DEF SeatsRight, SettledIn
    <2> QED BY <1>2, <1>5, <2>1
<1> QED BY <1>2, <1>4, <1>6, <1>7 DEF SeatsRight, SlotsApart, SettledIn

LEMMA BeginSeats ==
    ASSUME Undisturbed, TypeOK, RoomsSound, PlaceInv, NEW t \in Tasks, TaskStep(t),
           NEW o \in Objects, SeatsRight(o), ~Resets(o),
           NEW c \in Clients, Begins(c, o)
    PROVE  SeatsRight(o)'
<1> DEFINE r == heap[o]
           q == heap'[o]
<1>1. r \in Room /\ RoomSound(r)
    BY DEF TypeOK, RoomsSound
<1>2. /\ q.clients = r.clients /\ q.Name = r.Name
      /\ q.IsPlayer2Ready = r.IsPlayer2Ready
      /\ q.Player1 = r.Player1 /\ q.Player2 = r.Player2
      /\ c = r.Player1 /\ r.IsPlayer2Ready
    <2>1. q = Started(r) /\ CanStart(r, c)
        BY DEF Begins
    <2>2. /\ Started(r).clients = r.clients /\ Started(r).Name = r.Name
          /\ Started(r).IsPlayer2Ready = r.IsPlayer2Ready
          /\ Started(r).Player1 = r.Player1 /\ Started(r).Player2 = r.Player2
        BY <1>1 DEF Started, Room
    <2> QED BY <2>1, <2>2 DEF CanStart
<1>3. SettledIn(c, o)
    BY InsideNotRemoved, CommanderSettled DEF Begins, Inside
<1>4. SettledIn(r.Player2, o)
    BY <1>2 DEF SeatsRight
<1>5. r.clients = {r.Player1, r.Player2}
    <2>1. r.Player1 \in r.clients /\ r.Player2 \in r.clients
        BY <1>2, <1>3, <1>4 DEF SettledIn
    <2>2. r.Player1 # r.Player2 /\ IsGameRoom(r)
        BY <1>1, <1>2, RoomAssumption DEF SeatsRight, SlotsApart, RoomSound, LobbyIsIdle
    <2> QED BY <1>1, <2>1, <2>2, NoThirdMember DEF RoomSound
<1>6. \A p \in Clients : GoneFor(p, o) => GoneFor(p, o)'
    BY <1>2, GoneStays
<1>7. SettledIn(r.Player1, o)' /\ SettledIn(r.Player2, o)'
    <2>1. \A p \in r.clients : SettledIn(p, o) => SettledIn(p, o)'
        BY <1>2, SettledStays
    <2> QED BY <1>2, <1>3, <1>4, <1>5, <2>1
<1> QED BY <1>2, <1>5, <1>6, <1>7 DEF SeatsRight, SlotsApart, SettledIn

LEMMA SeatsInvariance ==
    ASSUME Undisturbed, TypeOK, RoomsSound, PlaceInv, NEW t \in Tasks, TaskStep(t),
           NEW o \in Objects, SeatsRight(o)
    PROVE  SeatsRight(o)'
<1>1. CASE Resets(o)
    BY <1>1, ResetSeats
<1>2. CASE heap'[o] = heap[o] /\ ~Resets(o)
    BY <1>2, SameSeats
<1>3. ASSUME NEW c \in Clients, Changes(c, o), ~Resets(o) PROVE SeatsRight(o)'
    <2>1. CASE Passes(c, o)
        <3>1. heap[o] \in Room
            BY DEF TypeOK
        <3> QED BY <1>3, <2>1, <3>1, SameSeats DEF Passes, TurnSwitched, Room
    <2> QED BY <1>3, <2>1, EnterSeats, ExitSeats, ToggleSeats, BeginSeats DEF Changes
<1>4. heap'[o] = heap[o] \/ \E c \in Clients : Changes(c, o)
    BY TaskRoomStep DEF RoomStep
<1> QED BY <1>1, <1>2, <1>3, <1>4
\* A player's own MOVE: the game is seen running, then the turn is tested.
LEMMA OwnMoveInTurn ==
    ASSUME TypeOK, NEW c \in Clients, TaskStep(c), MovesInTurn(c)
    PROVE  MovesInTurn(c)'
<1> SUFFICES ASSUME pc'[c] \in MidMove PROVE MovesInTurn(c)'
    BY DEF MovesInTurn
<1> USE DEF Goto, Leave, TypeOK, ControlOK, Tasks, MidMove
<1>1. ~Input(c)
    BY DEF Input, Accept, Disconnect, Quit, Login, JoinRoom, BeginMove, Ready,
           Start, Chat, Move, CallsRoom
<1>2. ~Removal(c)
    BY DEF Removal, RemoveLeave, RemoveUnlist, RemoveClear, RemoveReturns
<1>3. PlayState(c) \/ PlayTurn(c) \/ PlayOpponent(c)
    BY <1>1, <1>2
    DEF TaskStep, SessionStep, Handler, BoardHandler, RoomHandler, MoveLookup, MoveAdd, MoveLeave,
        MoveUnlist, MoveEnter, MoveCheck, HandleReady, HandleStart,
        StartAnnounce, ChatSend, PlaySwitch, ThrowsNull, CleanUp, BeginRemove,
        RemoveSession, UnregisterNickName
<1>4. CASE PlayState(c)
    BY <1>4 DEF PlayState, PlayStep, ThrowsNull, MovesInTurn
<1>5. CASE PlayTurn(c)
    BY <1>5 DEF PlayTurn, PlayStep, ThrowsNull, MovesInTurn
<1>6. CASE PlayOpponent(c)
    BY <1>6 DEF PlayOpponent, PlayRefused, PlayLegal, PlayStep, ThrowsNull, MovesInTurn
<1> QED BY <1>3, <1>4, <1>5, <1>6

\* No eviction begins or goes on while a session runs a command.
LEMMA InsideAlone ==
    ASSUME Unevicted, TypeOK, EvictorsAlone, NEW t \in Tasks, TaskStep(t),
           NEW c \in Clients, pc[c] \in Inside
    PROVE  t \in Clients
<1> SUFFICES ASSUME t \in Evictors PROVE FALSE
    BY DEF Tasks
<1>1. c \in Tasks \ {t} /\ ~Resting(c) /\ Serial
    BY ChatAssumption DEF Tasks, Resting, Inside, MidMove, Unevicted
<1>2. pc[t] = "none"
    BY <1>1 DEF EvictorsAlone
<1>3. AllResting
    BY <1>1, <1>2, RestingBegins DEF Resting, MayBegin
<1> QED BY <1>1, <1>3 DEF AllResting

\* What the others do to the room meanwhile.
LEMMA OthersLeaveTurn ==
    ASSUME Undisturbed, TypeOK, RoomsSound, PlaceInv, SeatInv,
           NEW c \in Clients, NEW d \in Clients \ {c}, TaskStep(d),
           pc[c] \in MidMove, NEW o \in Objects, CurrentRoom[c] = o, Changes(d, o)
    PROVE  /\ heap'[o].State # "PLAYING" => heap'[o].Player1 = c
           /\ heap'[o].State = "PLAYING" /\ pc[c] # "playTurn"
                => heap'[o].CurrentTurn = c
<1> DEFINE r == heap[o]
           q == heap'[o]
<1>1. r \in Room /\ RoomSound(r) /\ SeatsRight(o)
    BY DEF TypeOK, RoomsSound, SeatInv
<1>2. /\ r.State # "PLAYING" => r.Player1 = c
      /\ r.State = "PLAYING" /\ pc[c] # "playTurn" => r.CurrentTurn = c
    BY DEF SeatInv, MovesInTurn
<1>3. c \in r.clients
    <2>1. SettledIn(c, o)
        BY InsideNotRemoved, CommanderSettled DEF Inside
    <2> QED BY <2>1 DEF SettledIn
<1>4. ~Resets(o)
    BY DEF Resets, Unreferenced
<1>5. CASE Enters(d, o)
    <2>1. r.State # "PLAYING"
        BY <1>1, <1>5, MemberCount
        DEF Enters, RoomSound, HasSpace, GameIsSeated, LobbyIsIdle, MAX_PLAYERS
    <2>2. q.State = r.State /\ (r.Player1 # NoClient => q.Player1 = r.Player1)
        BY <1>1, <1>5 DEF Enters, WithClient, Room
    <2> QED BY <1>2, <2>1, <2>2, RoomAssumption
<1>6. CASE Exits(d, o)
    <2>1. /\ q.State = "WAITING"
          /\ q.Player1 = IF HostLeaves(r, d) THEN r.Player2 ELSE r.Player1
        BY <1>1, <1>6 DEF Exits, WithoutClient, WithoutClientBut, Room
    <2>2. r.Player1 = c => q.Player1 = c
        BY <2>1 DEF HostLeaves
    <2>3. r.Player1 # c => HostLeaves(r, d) /\ r.Player2 = c
        <3> SUFFICES ASSUME r.Player1 # c PROVE HostLeaves(r, d) /\ r.Player2 = c
            OBVIOUS
        <3>1. r.State = "PLAYING" /\ r.clients = {r.Player1, r.Player2}
            BY <1>1, <1>2 DEF SeatsRight
        <3>2. r.Player2 = c /\ r.Player1 = d
            BY <1>3, <1>6, <3>1 DEF Exits
        <3>3. ~IsEmptied(r, d) /\ IsGameRoom(r)
            BY <1>1, <1>3, <3>1 DEF IsEmptied, RoomSound, LobbyIsIdle
        <3> QED BY <3>2, <3>3 DEF HostLeaves
    <2> QED BY <2>1, <2>2, <2>3
<1>7. CASE Toggles(d, o)
    BY <1>1, <1>2, <1>7 DEF Toggles, ReadyToggled, Room
<1>8. CASE Begins(d, o)
    BY <1>2, <1>8 DEF Begins, CanStart
<1>9. CASE Passes(d, o)
    <2>1. /\ q.State = r.State /\ q.Player1 = r.Player1
        BY <1>1, <1>9 DEF Passes, TurnSwitched, Room
    <2>2. r.State = "PLAYING" => r.CurrentTurn = d
        BY <1>9 DEF Passes, SeatInv, MovesInTurn, MidMove
    <2> QED BY <1>2, <2>1, <2>2
<1> QED BY <1>4, <1>5, <1>6, <1>7, <1>8, <1>9 DEF Changes

LEMMA TurnInvariance ==
    ASSUME Undisturbed, TypeOK, RoomsSound, PlaceInv, SeatInv,
           NEW t \in Tasks, TaskStep(t), NEW c \in Clients
    PROVE  MovesInTurn(c)'
<1>1. CASE c = t
    BY <1>1, OwnMoveInTurn DEF SeatInv
<1>2. CASE c # t
    <2> SUFFICES ASSUME pc'[c] \in MidMove PROVE MovesInTurn(c)'
        BY DEF MovesInTurn
    <2>1. Frame(t) /\ c \in Tasks
        BY TaskFrame DEF Tasks
    <2>2. pc'[c] = pc[c] /\ pc[c] \in Inside
        BY <1>2, <2>1 DEF Frame, Inside
    <2>3. t \in Clients
        BY <2>2, InsideAlone DEF PlaceInv, Undisturbed
    <2>4. CurrentRoom'[c] = CurrentRoom[c]
        BY <1>2, <2>1, <2>3 DEF Frame, Subject
    <2>5. PICK o \in Objects : o = CurrentRoom[c]
        BY <2>2 DEF PlaceInv, Placed
    <2>6. CASE heap'[o] = heap[o]
        BY <2>2, <2>4, <2>5, <2>6 DEF SeatInv, MovesInTurn
    <2>7. CASE Changes(t, o)
        BY <1>2, <2>2, <2>3, <2>4, <2>5, <2>7, OthersLeaveTurn DEF MovesInTurn
    <2>8. heap'[o] = heap[o] \/ Changes(t, o)
        BY <2>3, TaskRoomStep DEF RoomStep
    <2> QED BY <2>6, <2>7, <2>8
<1> QED BY <1>1, <1>2

LEMMA SeatInvariance ==
    ASSUME Undisturbed, TypeOK, RoomsSound, PlaceInv, SeatInv, [Next]_vars
    PROVE  SeatInv'
<1>1. CASE UNCHANGED vars
    BY <1>1
    DEF vars, locals, SeatInv, SeatsRight, SlotsApart, SettledIn, GoneFor, Unlists,
        Subject, MovesInTurn
<1>2. ASSUME NEW t \in Tasks, TaskStep(t) PROVE SeatInv'
    BY <1>2, SeatsInvariance, TurnInvariance DEF SeatInv
<1> QED BY <1>1, <1>2, StepsAreTaskSteps

LEMMA InitSeats == Init => SeatInv
BY RoomAssumption
DEF Init, NewRoom, SeatInv, SeatsRight, SlotsApart, MovesInTurn, MidMove, Tasks

LEMMA SeatsAlways ==
    ASSUME Undisturbed
    PROVE  Spec => [](TypeOK /\ RoomsSound /\ PlaceInv /\ SeatInv)
<1>1. TypeOK /\ RoomsSound /\ PlaceInv /\ SeatInv /\ [Next]_vars => SeatInv'
    BY SeatInvariance
<1> QED BY <1>1, InitSeats, PlacesAlways, RoomsInvariant, PTL DEF Spec

-----------------------------------------------------------------------------
(* Whose turn it is, although clients may join the room they are in.        *)

\* The lock block a step of t runs on object o.
BlockStep(t, o) ==
    \/ heap'[o] = heap[o]
    \/ Resets(o)
    \/ /\ pc[t] = "moveAdd" /\ newRoom[t] = o /\ HasSpace(heap[o])
       /\ heap'[o] = WithClient(heap[o], t)
    \/ /\ oldRoom[t] = o /\ heap'[o] = WithoutClient(heap[o], Subject(t))
       /\ IsEmptied(heap[o], Subject(t)) => pc'[t] \in Unlisting /\ oldRoom'[t] = o
    \/ Toggles(t, o)
    \/ Begins(t, o)
    \/ Passes(t, o)

LEMMA HandlerBlock ==
    ASSUME TypeOK, NEW c \in Clients, Handler(c), NEW o \in Objects
    PROVE  BlockStep(c, o)
<1> USE DEF BlockStep
<1>1. CASE UNCHANGED heap
    BY <1>1
<1>2. ASSUME NEW p, NEW s, SetRoom(p, s) PROVE heap'[o] = IF o = p THEN s ELSE heap[o]
    BY <1>2 DEF SetRoom, TypeOK
<1>3. CASE MoveLookup(c)
    <2>1. ASSUME NEW p \in Objects, Unreferenced(p), SetRoom(p, NewRoom(target[c]))
          PROVE  BlockStep(c, o)
        BY <1>2, <2>1 DEF Resets, TypeOK
    <2> QED BY <1>1, <1>3, <2>1 DEF MoveLookup
<1>4. CASE MoveAdd(c)
    BY <1>1, <1>2, <1>4 DEF MoveAdd, Added
<1>5. CASE MoveLeave(c)
    <2>1. IsEmptied(heap[oldRoom[c]], c)
          => pc'[c] \in Unlisting /\ oldRoom'[c] = oldRoom[c]
        BY <1>5
        DEF MoveLeave, RemovalThrows, HostLeaves, Goto, Unlisting, locals, TypeOK,
            ControlOK, Tasks
    <2> QED BY <1>2, <1>5, <2>1 DEF MoveLeave, Subject
<1>6. CASE HandleReady(c)
    BY <1>1, <1>2, <1>6 DEF HandleReady, ThrowsNull, Toggles
<1>7. CASE HandleStart(c)
    <2>1. ASSUME CanStart(heap[CurrentRoom[c]], c),
                 SetRoom(CurrentRoom[c], Started(heap[CurrentRoom[c]]))
          PROVE  BlockStep(c, o)
        BY <1>2, <1>7, <2>1 DEF HandleStart, ThrowsNull, Begins
    <2> QED BY <1>1, <1>7, <2>1 DEF HandleStart, ThrowsNull
<1>8. CASE PlaySwitch(c)
    <2>1. ASSUME SetRoom(CurrentRoom[c], TurnSwitched(heap[CurrentRoom[c]])), Goto(c, "idle")
          PROVE  BlockStep(c, o)
        <3>1. pc[c] = "playSwitch" /\ pc'[c] = "idle"
            BY <1>8, <2>1 DEF PlaySwitch, ThrowsNull, Goto, TypeOK, ControlOK, Tasks
        <3> QED BY <1>2, <2>1, <3>1 DEF Passes
    <2> QED BY <1>1, <1>8, <2>1 DEF PlaySwitch, ThrowsNull
<1>9. CASE \/ MoveUnlist(c) \/ MoveEnter(c) \/ MoveCheck(c)
           \/ StartAnnounce(c) \/ ChatSend(c)
           \/ PlayState(c) \/ PlayTurn(c) \/ PlayOpponent(c)
           \/ CleanUp(c) \/ RemoveSession(c) \/ UnregisterNickName(c)
    BY <1>1, <1>9
    DEF MoveUnlist, MoveEnter, MoveCheck, StartAnnounce, ChatSend, PlayState,
        PlayTurn, PlayOpponent, PlayRefused, PlayLegal, PlayStep, ThrowsNull,
        CleanUp, RemoveSession, UnregisterNickName
<1> QED
    BY <1>3, <1>4, <1>5, <1>6, <1>7, <1>8, <1>9 DEF Handler, BoardHandler, RoomHandler

LEMMA TaskBlock ==
    ASSUME TypeOK, NEW t \in Tasks, TaskStep(t), NEW o \in Objects
    PROVE  BlockStep(t, o)
<1>1. ASSUME t \in Clients, Input(t) PROVE BlockStep(t, o)
    BY <1>1, InputFrame DEF BlockStep
<1>2. ASSUME NEW c \in Clients, Evict(t, c) PROVE BlockStep(t, o)
    BY <1>2 DEF Evict, BlockStep
<1>3. CASE RemoveUnlist(t) \/ RemoveClear(t)
    BY <1>3 DEF RemoveUnlist, RemoveClear, BlockStep
<1>4. CASE RemoveLeave(t)
    <2>1. /\ oldRoom[t] = o => heap'[o] = WithoutClient(heap[o], Subject(t))
          /\ oldRoom[t] # o => heap'[o] = heap[o]
        BY <1>4 DEF RemoveLeave, SetRoom, TypeOK
    <2>2. IsEmptied(heap[oldRoom[t]], Subject(t))
          => pc'[t] \in Unlisting /\ oldRoom'[t] = oldRoom[t]
        BY <1>4
        DEF RemoveLeave, RemovalThrows, HostLeaves, Goto, Unlisting, locals, TypeOK, ControlOK
    <2> QED BY <2>1, <2>2 DEF BlockStep
<1> QED
    BY <1>1, <1>2, <1>3, <1>4, HandlerBlock
    DEF TaskStep, SessionStep, EvictorStep, Removal

Seated(c, r) == c \in {r.Player1, r.Player2}

\* A MOVE that has seen the game running: its client keeps the slot it has,
\* so that no game starts beside it, and keeps the turn once it had it.  What
\* the others may do is leave: then the room is not ready.
TurnIsHeld(c, r) ==
    /\ r.State # "PLAYING" /\ r.Player2 = c => ~r.IsPlayer2Ready
    /\ r.CurrentTurn = c \/ pc[c] # "playTurn" => Seated(c, r)
    /\ r.State = "PLAYING" /\ pc[c] # "playTurn" => r.CurrentTurn = c

HoldsTurn(c) ==
    pc[c] \in MidMove => CurrentRoom[c] \in Objects /\ TurnIsHeld(c, heap[CurrentRoom[c]])

TurnInv == EvictorsAlone /\ \A c \in Clients : HoldsTurn(c)

\* A MOVE's own steps establish what it needs next.
LEMMA OwnTurnHeld ==
    ASSUME TypeOK, RoomsSound, NEW c \in Clients, TaskStep(c), HoldsTurn(c)
    PROVE  HoldsTurn(c)'
<1> SUFFICES ASSUME pc'[c] \in MidMove PROVE HoldsTurn(c)'
    BY DEF HoldsTurn
<1> USE DEF MidMove, Goto, Leave, TypeOK, ControlOK, Tasks, RoomIsGone
<1>1. ~Input(c)
    BY DEF Input, Accept, Disconnect, Quit, Login, JoinRoom, BeginMove, Ready,
        Start, Chat, Move, CallsRoom, Commanded, Receives
<1>2. ~Removal(c)
    BY DEF Removal, RemoveLeave, RemoveUnlist, RemoveClear, RemoveReturns
<1>3. PlayState(c) \/ PlayTurn(c) \/ PlayOpponent(c)
    BY <1>1, <1>2
    DEF TaskStep, SessionStep, Handler, BoardHandler, RoomHandler, MoveLookup, MoveAdd, MoveLeave,
        MoveUnlist, MoveEnter, MoveCheck, HandleReady, HandleStart,
        StartAnnounce, ChatSend, PlaySwitch, ThrowsNull, CleanUp, BeginRemove,
        RemoveSession, UnregisterNickName
<1>4. UNCHANGED <<heap, CurrentRoom>> /\ CurrentRoom[c] \in Objects
    BY <1>3
    DEF PlayState, PlayTurn, PlayOpponent, PlayRefused, PlayLegal, PlayStep, ThrowsNull
<1> DEFINE r == heap[CurrentRoom[c]]
<1>5. CASE PlayState(c)
    <2>1. pc'[c] = "playTurn" /\ r.State = "PLAYING"
        BY <1>5 DEF PlayState, PlayStep, ThrowsNull
    <2>2. r.CurrentTurn = c => Seated(c, r)
        BY <1>4, <2>1 DEF RoomsSound, RoomSound, GameIsSeated, Seated
    <2> QED BY <1>4, <2>1, <2>2 DEF HoldsTurn, TurnIsHeld, Seated
<1>6. CASE PlayTurn(c)
    <2>1. pc[c] = "playTurn" /\ r.CurrentTurn = c
        BY <1>6 DEF PlayTurn, PlayStep, ThrowsNull
    <2> QED BY <1>4, <2>1 DEF HoldsTurn, TurnIsHeld, Seated
<1>7. CASE PlayOpponent(c)
    <2>1. pc[c] = "playOpponent"
        BY <1>7 DEF PlayOpponent, PlayRefused, PlayLegal, PlayStep, ThrowsNull
    <2> QED BY <1>4, <2>1 DEF HoldsTurn, TurnIsHeld, Seated
<1> QED BY <1>3, <1>5, <1>6, <1>7

\* What another session does to the room meanwhile.
LEMMA OthersKeepTurn ==
    ASSUME TypeOK, RoomsSound, NEW c \in Clients, NEW d \in Clients \ {c},
           pc[c] \in MidMove, NEW o \in Objects, CurrentRoom[c] = o, BlockStep(d, o),
           TurnIsHeld(c, heap[o]), HoldsTurn(d)
    PROVE  TurnIsHeld(c, heap'[o])
<1> DEFINE r == heap[o]
           q == heap'[o]
<1> USE DEF TurnIsHeld, Seated
<1>1. r \in Room /\ RoomSound(r)
    BY DEF TypeOK, RoomsSound
<1>2. ~Resets(o)
    BY DEF Resets, Unreferenced
<1>3. CASE q = r
    BY <1>3
<1>4. CASE q = WithClient(r, d)
    <2>1. /\ q.State = r.State /\ q.CurrentTurn = r.CurrentTurn
          /\ q.IsPlayer2Ready = r.IsPlayer2Ready
          /\ q.Player1 = r.Player1 \/ (r.Player1 = NoClient /\ q.Player1 = d)
          /\ q.Player2 = r.Player2 \/ (r.Player2 = NoClient /\ q.Player2 = d)
        BY <1>1, <1>4 DEF WithClient, Room
    <2> QED BY <2>1, RoomAssumption
<1>5. CASE q = WithoutClient(r, d)
    <2>1. /\ q.State = "WAITING"
          /\ q.CurrentTurn = IF r.State = "PLAYING" THEN NoClient ELSE r.CurrentTurn
          /\ q.IsPlayer2Ready = (r.IsPlayer2Ready /\ RemovalThrows(r, d))
          /\ q.Player1 = IF HostLeaves(r, d) THEN r.Player2 ELSE r.Player1
          /\ q.Player2 = IF HostLeaves(r, d) \/ GuestLeaves(r, d) THEN NoClient ELSE r.Player2
        BY <1>1, <1>5 DEF WithoutClient, WithoutClientBut, Room
    <2>2. Seated(c, r) => Seated(c, q)
        BY <2>1 DEF HostLeaves, GuestLeaves
    <2>3. q.Player2 = c => ~q.IsPlayer2Ready
        BY <2>1, RoomAssumption DEF RemovalThrows
    <2>4. q.CurrentTurn = c => r.CurrentTurn = c
        BY <2>1, RoomAssumption
    <2> QED BY <2>1, <2>2, <2>3, <2>4
<1>6. CASE Toggles(d, o)
    <2>1. /\ q.State = r.State /\ q.CurrentTurn = r.CurrentTurn
          /\ q.Player1 = r.Player1 /\ q.Player2 = r.Player2
          /\ r.Player2 = c => q.IsPlayer2Ready = r.IsPlayer2Ready
        BY <1>1, <1>6 DEF Toggles, ReadyToggled, Room
    <2> QED BY <2>1
<1>7. CASE Begins(d, o)
    <2>1. /\ r.State # "PLAYING" /\ r.Player1 = d /\ r.IsPlayer2Ready
          /\ q = Started(r)
        BY <1>7 DEF Begins, CanStart
    <2>2. ~Seated(c, r) /\ pc[c] = "playTurn"
        BY <2>1
    <2>3. q.State = "PLAYING" /\ q.CurrentTurn = d
        BY <1>1, <2>1 DEF Started, Room
    <2> QED BY <2>2, <2>3
<1>8. CASE Passes(d, o)
    <2>1. /\ q.State = r.State /\ q.IsPlayer2Ready = r.IsPlayer2Ready
          /\ q.Player1 = r.Player1 /\ q.Player2 = r.Player2
          /\ q.CurrentTurn \in {r.Player1, r.Player2}
        BY <1>1, <1>8 DEF Passes, TurnSwitched, Room
    <2>2. r.State = "PLAYING" => r.CurrentTurn = d
        BY <1>8 DEF Passes, HoldsTurn, MidMove
    <2> QED BY <2>1, <2>2
<1>9. Subject(d) = d
    BY DEF Subject
<1> QED BY <1>2, <1>3, <1>4, <1>5, <1>6, <1>7, <1>8, <1>9 DEF BlockStep

LEMMA HeldInvariance ==
    ASSUME Unevicted, TypeOK, RoomsSound, TurnInv, [Next]_vars
    PROVE  TurnInv'
<1>1. EvictorsAlone'
    BY AloneInvariance DEF TurnInv
<1>2. CASE UNCHANGED vars
    BY <1>1, <1>2 DEF vars, TurnInv, HoldsTurn, TurnIsHeld
<1>3. ASSUME NEW t \in Tasks, TaskStep(t), NEW c \in Clients PROVE HoldsTurn(c)'
    <2>1. CASE c = t
        BY <1>3, <2>1, OwnTurnHeld DEF TurnInv
    <2>2. CASE c # t
        <3> SUFFICES ASSUME pc'[c] \in MidMove PROVE HoldsTurn(c)'
            BY DEF HoldsTurn
        <3>1. Frame(t) /\ c \in Tasks
            BY <1>3, TaskFrame DEF Tasks
        <3>2. pc'[c] = pc[c] /\ pc[c] \in MidMove
            BY <2>2, <3>1 DEF Frame
        <3>3. t \in Clients
            BY <1>3, <3>2, InsideAlone DEF Inside, TurnInv
        <3>4. CurrentRoom'[c] = CurrentRoom[c]
            BY <2>2, <3>1, <3>3 DEF Frame, Subject
        <3>5. CurrentRoom[c] \in Objects /\ TurnIsHeld(c, heap[CurrentRoom[c]]) /\ HoldsTurn(t)
            BY <3>2, <3>3 DEF TurnInv, HoldsTurn
        <3>6. TurnIsHeld(c, heap'[CurrentRoom[c]])
            BY <1>3, <2>2, <3>2, <3>3, <3>5, TaskBlock, OthersKeepTurn
        <3> QED BY <3>2, <3>4, <3>5, <3>6 DEF HoldsTurn, TurnIsHeld
    <2> QED BY <2>1, <2>2
<1> QED BY <1>1, <1>2, <1>3, StepsAreTaskSteps DEF TurnInv

LEMMA TurnAlways ==
    ASSUME Unevicted
    PROVE  Spec => [](TypeOK /\ RoomsSound /\ TurnInv)
<1>1. Init => TurnInv
    BY ChatAssumption DEF Init, TurnInv, EvictorsAlone, HoldsTurn, MidMove, Tasks
<1>2. TypeOK /\ RoomsSound /\ TurnInv /\ [Next]_vars => TurnInv'
    BY HeldInvariance
<1> QED BY <1>1, <1>2, RoomsInvariant, PTL DEF Spec

\* The turn of a running game is passed only by the SwitchTurn of the MOVE of
\* the player that has it, although MOVE asked for the turn earlier and
\* without the lock (ClientSession.cs:267-325): also when players leave and
\* join the room they are in.
THEOREM TurnTheorem ==
    ASSUME Unevicted
    PROVE  Spec => TurnPassedByHolder
<1>1. ASSUME TypeOK, RoomsSound, TurnInv, [Next]_vars, NEW o \in Objects,
             heap[o].State = "PLAYING", heap'[o].State = "PLAYING",
             heap'[o].CurrentTurn # heap[o].CurrentTurn
      PROVE  /\ pc[heap[o].CurrentTurn] = "playSwitch"
             /\ pc'[heap[o].CurrentTurn] = "idle"
    <2>1. PICK t \in Tasks : BlockStep(t, o)
        BY <1>1, StepsAreTaskSteps, TaskBlock DEF vars
    <2>2. heap[o] \in Room
        BY <1>1 DEF TypeOK
    <2>3. ~Resets(o)
        <3>1. ASSUME NEW n \in RoomNames, heap'[o] = NewRoom(n) PROVE FALSE
            <4>1. heap'[o].State = "WAITING"
                BY <3>1 DEF NewRoom
            <4> QED BY <1>1, <4>1
        <3> QED BY <3>1 DEF Resets
    <2>4. heap'[o] # WithClient(heap[o], t)
        BY <1>1, <2>2 DEF WithClient, Room
    <2>5. heap'[o] # WithoutClient(heap[o], Subject(t))
        BY <1>1, <2>2 DEF WithoutClient, WithoutClientBut, Room
    <2>6. ~Toggles(t, o) /\ ~Begins(t, o)
        BY <1>1, <2>2 DEF Toggles, ReadyToggled, Begins, CanStart, Room
    <2>7. Passes(t, o)
        BY <1>1, <2>1, <2>3, <2>4, <2>5, <2>6 DEF BlockStep
    <2>8. t \in Clients
        BY <1>1, <2>7 DEF Passes, TypeOK, ControlOK, EvictorPC, Tasks
    <2>9. heap[o].CurrentTurn = t
        BY <1>1, <2>7, <2>8 DEF Passes, TurnInv, HoldsTurn, TurnIsHeld, MidMove
    <2> QED BY <2>7, <2>9 DEF Passes
<1>2. TypeOK /\ RoomsSound /\ TurnInv /\ [Next]_vars
      => [\A o \in Objects :
            /\ heap[o].State = "PLAYING" /\ heap'[o].State = "PLAYING"
            /\ heap'[o].CurrentTurn # heap[o].CurrentTurn
            => /\ pc[heap[o].CurrentTurn] = "playSwitch"
               /\ pc'[heap[o].CurrentTurn] = "idle"]_vars
    BY <1>1
<1> QED BY <1>2, TurnAlways, PTL DEF Spec, TurnPassedByHolder

\* Where else than in its own room a session may still be: in the one it is
\* entering, or, once its connection ended, in whatever room it was.
Withdrawing == {"cleanup", "drop", "unregister", "closed", "faulted"} \cup Removes

StaysIn(c, o) ==
    CASE pc[c] \in Withdrawing -> TRUE
      [] pc[c] \in {"moveUnlist", "moveEnter"} -> o = newRoom[c]
      [] OTHER -> \/ pc[c] = "moveLeave" /\ o = newRoom[c]
                  \/ o = CurrentRoom[c] /\ ~TakenOut(c)

NoStranger(c) == \A o \in Objects : c \in heap[o].clients => StaysIn(c, o)

\* An eviction works on the room its victim is in.
EvictsRight(e) ==
    pc[e] \in Removes => victim[e] \in Clients /\ oldRoom[e] = CurrentRoom[victim[e]]

StrayInv ==
    /\ EvictorsAlone
    /\ \A c \in Clients : /\ pc[c] \in Entering \cup {"moveLookup"}
                               => oldRoom[c] = CurrentRoom[c]
                          /\ NoStranger(c)
    /\ \A e \in Evictors : EvictsRight(e)

\* A step adds nobody but the session that runs it, and only where it goes.
LEMMA BlockKeepsOut ==
    ASSUME TypeOK, NEW t \in Tasks, NEW o \in Objects, BlockStep(t, o),
           NEW c \in Clients, c \in heap'[o].clients
    PROVE  c \in heap[o].clients \/ c = t
<1>1. heap[o] \in Room
    BY DEF TypeOK
<1>2. ~Resets(o)
    <2>1. ASSUME NEW n \in RoomNames, heap'[o] = NewRoom(n) PROVE FALSE
        <3>1. heap'[o].clients = {}
            BY <2>1 DEF NewRoom
        <3> QED BY <3>1
    <2> QED BY <2>1 DEF Resets
<1> QED
    BY <1>1, <1>2, BlockMembers DEF BlockStep, Toggles, Begins, Passes

LEMMA OwnRoomStep ==
    ASSUME Unevicted, TypeOK, StrayInv, NEW c \in Clients, TaskStep(c)
    PROVE  /\ NoStranger(c)'
           /\ pc'[c] \in Entering \cup {"moveLookup"} => oldRoom'[c] = CurrentRoom'[c]
<1> DEFINE Goal == /\ NoStranger(c)'
                   /\ pc'[c] \in Entering \cup {"moveLookup"} => oldRoom'[c] = CurrentRoom'[c]
<1>1. /\ c \in Tasks /\ TypeOK /\ NoStranger(c)
      /\ pc[c] \in Entering \cup {"moveLookup"} => oldRoom[c] = CurrentRoom[c]
    BY DEF StrayInv, Tasks
<1>2. (TakenOut(c) <=> pc[c] \in Removed) /\ (TakenOut(c)' <=> pc'[c] \in Removed)
    BY NobodyElseRemoves DEF TaskStep, StrayInv
<1>3. CASE pc'[c] \in Withdrawing
    BY <1>3 DEF NoStranger, StaysIn, Withdrawing, Removes, Removed, Entering
<1>4. CASE pc'[c] \notin Withdrawing
    <2> USE <1>1, <1>2, <1>4
        DEF NoStranger, StaysIn, Withdrawing, Removes, Removed, Entering, Goto, Leave,
            TypeOK, ControlOK
    <2>1. ASSUME UNCHANGED <<heap, CurrentRoom>>,
                 pc[c] \notin {"moveUnlist", "moveEnter", "moveLeave"} \cup Withdrawing,
                 pc'[c] \notin {"moveUnlist", "moveEnter", "moveLeave"},
                 pc'[c] \in Entering \cup {"moveLookup"} => oldRoom'[c] = CurrentRoom[c]
          PROVE  Goal
        BY <2>1
    <2>2. CASE Input(c)
        <3>1. /\ UNCHANGED <<heap, CurrentRoom>> /\ pc[c] \in {"offline", "idle"}
              /\ pc'[c] \notin {"moveUnlist", "moveEnter", "moveLeave"}
            BY <2>2
            DEF Input, Accept, Disconnect, Quit, Login, JoinRoom, BeginMove, Ready,
                Start, Chat, Move, CallsRoom, Commanded, Receives
        <3>2. pc'[c] \in Entering \cup {"moveLookup"} => oldRoom'[c] = CurrentRoom[c]
            BY <2>2
            DEF Input, Accept, Disconnect, Quit, Login, JoinRoom, BeginMove, Ready,
                Start, Chat, Move, CallsRoom, Commanded, Receives
        <3> QED BY <2>1, <3>1, <3>2
    <2>3. CASE MoveLookup(c)
        BY <2>3 DEF MoveLookup, SetRoom, NewRoom
    <2>4. CASE MoveAdd(c)
        <3>1. CASE HasSpace(heap[newRoom[c]])
            <4>1. /\ pc[c] = "moveAdd" /\ UNCHANGED <<CurrentRoom, oldRoom, newRoom>>
                  /\ pc'[c] = IF oldRoom[c] = NoObject THEN "moveEnter" ELSE "moveLeave"
                BY <2>4, <3>1 DEF MoveAdd, Added, locals
            <4>2. \A o \in Objects : c \in heap'[o].clients =>
                     o = newRoom[c] \/ c \in heap[o].clients
                BY <2>4, <3>1 DEF MoveAdd, Added, SetRoom
            <4>3. \A o \in Objects : c \in heap[o].clients => o = CurrentRoom[c]
                BY <4>1
            <4>4. \A o \in Objects : o # NoObject
                BY ChatAssumption
            <4> QED BY <4>1, <4>2, <4>3, <4>4
        <3>2. CASE ~HasSpace(heap[newRoom[c]])
            BY <2>1, <2>4, <3>2 DEF MoveAdd
        <3> QED BY <2>4, <3>1, <3>2 DEF MoveAdd
    <2>5. CASE MoveLeave(c)
        <3>1. /\ pc[c] = "moveLeave" /\ UNCHANGED <<CurrentRoom, newRoom>>
              /\ pc'[c] \in {"moveUnlist", "moveEnter"} /\ UNCHANGED oldRoom
            BY <2>5 DEF MoveLeave, locals
        <3>2. \A o \in Objects : c \in heap'[o].clients =>
                 o # oldRoom[c] /\ c \in heap[o].clients
            <4>1. ASSUME NEW o \in Objects, o # oldRoom[c] PROVE heap'[o] = heap[o]
                BY <2>5, <4>1 DEF MoveLeave, SetRoom
            <4>2. ASSUME oldRoom[c] \in Objects
                  PROVE  heap'[oldRoom[c]].clients = heap[oldRoom[c]].clients \ {c}
                <5>1. heap'[oldRoom[c]] = WithoutClient(heap[oldRoom[c]], c)
                    BY <2>5, <4>2 DEF MoveLeave, SetRoom
                <5> QED BY <4>2, <5>1, BlockMembers
            <4> QED BY <4>1, <4>2
        <3>3. oldRoom[c] = CurrentRoom[c] /\ ~TakenOut(c)
            BY <3>1
        <3> QED BY <3>1, <3>2, <3>3
    <2>6. CASE MoveUnlist(c) \/ MoveEnter(c) \/ MoveCheck(c)
        BY <2>6 DEF MoveUnlist, MoveEnter, MoveCheck, locals
    <2>7. CASE HandleReady(c) \/ HandleStart(c) \/ PlaySwitch(c)
        BY <2>7 DEF HandleReady, HandleStart, PlaySwitch, ThrowsNull, SetRoom, locals
    <2>8. CASE StartAnnounce(c) \/ ChatSend(c) \/ PlayState(c) \/ PlayTurn(c) \/ PlayOpponent(c)
        BY <2>1, <2>8
        DEF StartAnnounce, ChatSend, PlayState, PlayTurn, PlayOpponent, PlayRefused,
            PlayLegal, PlayStep, ThrowsNull, locals
    <2>9. ~(CleanUp(c) \/ RemoveSession(c) \/ UnregisterNickName(c) \/ Removal(c))
        BY DEF CleanUp, BeginRemove, RemoveSession, UnregisterNickName, Removal,
            RemoveLeave, RemoveUnlist, RemoveClear, RemoveReturns
    <2> QED
        BY <2>2, <2>3, <2>4, <2>5, <2>6, <2>7, <2>8, <2>9
        DEF TaskStep, SessionStep, Handler, BoardHandler, RoomHandler
<1> QED BY <1>3, <1>4

LEMMA OthersRoomStep ==
    ASSUME Unevicted, TypeOK, StrayInv, NEW t \in Clients, TaskStep(t),
           NEW c \in Clients \ {t}
    PROVE  /\ NoStranger(c)'
           /\ pc'[c] \in Entering \cup {"moveLookup"} => oldRoom'[c] = CurrentRoom'[c]
<1>1. /\ t \in Tasks /\ c \in Tasks /\ NoStranger(c) /\ Subject(t) = t
      /\ pc[c] \in Entering \cup {"moveLookup"} => oldRoom[c] = CurrentRoom[c]
    BY DEF StrayInv, Tasks, Subject
<1>2. /\ pc'[c] = pc[c] /\ newRoom'[c] = newRoom[c] /\ CurrentRoom'[c] = CurrentRoom[c]
      /\ oldRoom'[c] = oldRoom[c]
    BY <1>1, TaskFrame DEF Frame
<1>3. TakenOut(c)' <=> TakenOut(c)
    BY <1>2, NobodyElseRemoves DEF TaskStep, StrayInv
<1>4. \A o \in Objects : c \in heap'[o].clients => c \in heap[o].clients
    BY <1>1, TaskBlock, BlockKeepsOut
<1>5. \A o \in Objects : StaysIn(c, o) => StaysIn(c, o)'
    BY <1>2, <1>3 DEF StaysIn
<1> QED BY <1>1, <1>2, <1>4, <1>5 DEF NoStranger

\* An eviction takes its victim out of the only room it is in.
LEMMA EvictionRoomStep ==
    ASSUME Unevicted, TypeOK, StrayInv, NEW e \in Evictors, TaskStep(e),
           NEW c \in Clients
    PROVE  /\ NoStranger(c)'
           /\ pc'[c] \in Entering \cup {"moveLookup"} => oldRoom'[c] = CurrentRoom'[c]
<1>1. e \in Tasks /\ e \notin Clients /\ c \in Tasks \ {e} /\ NoStranger(c) /\ Subject(e) = victim[e]
    BY ChatAssumption DEF StrayInv, Tasks, Subject
<1>2. /\ pc'[c] = pc[c] /\ newRoom'[c] = newRoom[c] /\ oldRoom'[c] = oldRoom[c]
      /\ \A u \in Tasks \ {e} : pc'[u] = pc[u] /\ Subject(u)' = Subject(u)
      /\ c # victim[e] => CurrentRoom'[c] = CurrentRoom[c]
    BY <1>1, TaskFrame DEF Frame
<1>3. pc[c] \notin Inside \cup Entering \cup {"moveLookup", "moveCheck"}
    <2>1. Serial
        BY DEF Unevicted
    <2>2. Resting(c)
        <3>1. CASE pc[e] = "none"
            BY <1>1, <2>1, <3>1, RestingBegins DEF Resting, MayBegin, AllResting
        <3>2. CASE pc[e] # "none"
            BY <1>1, <3>2 DEF StrayInv, EvictorsAlone
        <3> QED BY <3>1, <3>2
    <2> QED BY <2>2 DEF Resting, Inside, MidMove, Entering
<1>4. \A o \in Objects : c \in heap'[o].clients => c \in heap[o].clients
    BY <1>1, TaskBlock, BlockKeepsOut
<1>5. CASE pc[c] \in Withdrawing
    <2>1. pc'[c] = pc[c]
        BY <1>2
    <2>2. \A o \in Objects : StaysIn(c, o)'
        BY <1>5, <2>1 DEF StaysIn, Withdrawing, Removes, Removed
    <2> QED BY <1>3, <1>5, <2>1, <2>2 DEF NoStranger
<1>6. CASE pc[c] \notin Withdrawing
    <2>1. \A o \in Objects : c \in heap[o].clients => o = CurrentRoom[c] /\ ~TakenOut(c)
        BY <1>1, <1>3, <1>6 DEF NoStranger, StaysIn, Entering
    <2>2. SUFFICES ASSUME NEW o \in Objects, c \in heap'[o].clients
                   PROVE  o = CurrentRoom'[c] /\ ~TakenOut(c)'
        BY <1>2, <1>3, <1>6 DEF NoStranger, StaysIn, Entering
    <2>3. c \in heap[o].clients /\ o = CurrentRoom[c] /\ ~TakenOut(c)
        BY <1>4, <2>1, <2>2
    <2>4. ASSUME CurrentRoom'[c] = CurrentRoom[c],
                 pc'[e] \in Removed /\ Subject(e)' = c => TakenOut(c)
          PROVE  o = CurrentRoom'[c] /\ ~TakenOut(c)'
        BY <1>1, <1>2, <2>3, <2>4 DEF TakenOut
    <2>5. ASSUME NEW d \in Clients, Evict(e, d) PROVE o = CurrentRoom'[c] /\ ~TakenOut(c)'
        BY <1>1, <2>4, <2>5 DEF Evict, BeginRemove, Goto, Removed, TypeOK, ControlOK
    <2>6. CASE RemoveLeave(e)
        <3>1. c # victim[e]
            <4> SUFFICES ASSUME c = victim[e] PROVE FALSE
                OBVIOUS
            <4>1. oldRoom[e] = o
                BY <2>3, <2>6 DEF StrayInv, EvictsRight, RemoveLeave, Removes
            <4>2. heap'[o] = WithoutClient(heap[o], c)
                BY <1>1, <2>6, <4>1 DEF RemoveLeave, SetRoom, TypeOK
            <4>3. heap[o] \in Room
                BY DEF TypeOK
            <4> QED BY <2>2, <4>2, <4>3, BlockMembers
        <3>2. CurrentRoom'[c] = CurrentRoom[c]
            BY <2>6 DEF RemoveLeave
        <3>3. pc'[e] \in Removed => victim'[e] = victim[e]
            BY <1>1, <2>6 DEF RemoveLeave, RemoveReturns, Goto, Removed, TypeOK, ControlOK
        <3> QED BY <1>1, <2>4, <3>1, <3>2, <3>3 DEF Subject
    <2>7. CASE RemoveUnlist(e)
        <3>1. /\ pc[e] \in Removed /\ CurrentRoom' = CurrentRoom /\ victim' = victim
            BY <2>7 DEF RemoveUnlist, Removed
        <3>2. Subject(e)' = c => TakenOut(c)
            BY <1>1, <3>1 DEF Subject, TakenOut
        <3> QED BY <2>4, <3>1, <3>2
    <2>8. CASE RemoveClear(e)
        <3>1. pc[e] \in Removed /\ pc'[e] = "none"
            BY <1>1, <2>8 DEF RemoveClear, RemoveReturns, Goto, Removed, TypeOK, ControlOK
        <3>2. c # victim[e]
            BY <1>1, <2>3, <3>1 DEF TakenOut
        <3> QED BY <1>2, <2>4, <3>1, <3>2 DEF Removed
    <2> QED BY <1>1, <2>5, <2>6, <2>7, <2>8 DEF TaskStep, EvictorStep, Removal
<1>7. pc'[c] \notin Entering \cup {"moveLookup"}
    BY <1>2, <1>3
<1> QED BY <1>5, <1>6, <1>7

LEMMA EvictsInvariance ==
    ASSUME Unevicted, TypeOK, StrayInv, NEW t \in Tasks, TaskStep(t), NEW e \in Evictors
    PROVE  EvictsRight(e)'
<1>1. e \in Tasks /\ e \notin Clients /\ EvictsRight(e)
    BY ChatAssumption DEF StrayInv, Tasks
<1>2. CASE t = e
    <2>1. ASSUME NEW c \in Clients, Evict(e, c) PROVE EvictsRight(e)'
        BY <1>1, <2>1 DEF Evict, BeginRemove, EvictsRight, TypeOK
    <2>2. CASE RemoveLeave(e)
        BY <1>1, <2>2
        DEF RemoveLeave, RemoveReturns, Goto, EvictsRight, Removes, Removed, locals,
            TypeOK, ControlOK
    <2>3. CASE RemoveUnlist(e) \/ RemoveClear(e)
        BY <1>1, <2>3
        DEF RemoveUnlist, RemoveClear, RemoveReturns, Goto, EvictsRight, Removes,
            Removed, locals, TypeOK, ControlOK
    <2> QED BY <1>1, <1>2, <2>1, <2>2, <2>3 DEF TaskStep, EvictorStep, Removal
<1>3. CASE t # e
    <2>1. pc'[e] = pc[e]
        BY <1>1, <1>3, TaskFrame DEF Frame
    <2>2. CASE pc[e] = "none"
        BY <2>1, <2>2 DEF EvictsRight, Removes, Removed
    <2>3. CASE pc[e] # "none"
        <3>1. Serial
            BY DEF Unevicted
        <3>2. Resting(t)
            BY <1>3, <2>3 DEF StrayInv, EvictorsAlone
        <3>3. Resting(e)
            BY <1>1, <3>1, <3>2, RestingBegins DEF MayBegin, AllResting
        <3> QED BY <2>3, <3>3 DEF Resting, TypeOK, ControlOK, EvictorPC
    <2> QED BY <2>2, <2>3
<1> QED BY <1>2, <1>3

LEMMA StrayInvariance ==
    ASSUME Unevicted, TypeOK, StrayInv, [Next]_vars
    PROVE  StrayInv'
<1>1. EvictorsAlone'
    BY AloneInvariance DEF StrayInv
<1>2. CASE UNCHANGED vars
    BY <1>1, <1>2
    DEF vars, locals, StrayInv, NoStranger, StaysIn, TakenOut, Subject, EvictsRight
<1>3. ASSUME NEW t \in Tasks, TaskStep(t) PROVE StrayInv'
    <2>1. ASSUME NEW c \in Clients
          PROVE  /\ NoStranger(c)'
                 /\ pc'[c] \in Entering \cup {"moveLookup"} => oldRoom'[c] = CurrentRoom'[c]
        BY <1>3, OwnRoomStep, OthersRoomStep, EvictionRoomStep DEF Tasks
    <2>2. \A e \in Evictors : EvictsRight(e)'
        BY <1>3, EvictsInvariance
    <2> QED BY <1>1, <2>1, <2>2 DEF StrayInv
<1> QED BY <1>2, <1>3, StepsAreTaskSteps

\* No session is in a room it has left: also when clients join the room they
\* are in.
LEMMA StrayAlways ==
    ASSUME Unevicted
    PROVE  Spec => [](TypeOK /\ StrayInv)
<1>1. Init => StrayInv
    BY ChatAssumption
    DEF Init, NewRoom, StrayInv, EvictorsAlone, Entering, NoStranger, EvictsRight, Removes,
        Removed, Tasks
<1>2. TypeOK /\ StrayInv /\ [Next]_vars => StrayInv'
    BY StrayInvariance
<1> QED BY <1>1, <1>2, RoomsInvariant, PTL DEF Spec

\* No other command fails on an empty slot or a missing room: a member that
\* arrives never sees a game in progress, START finds its guest seated, and
\* the room a command was sent in is still there when the command runs.
THEOREM LateStartTheorem ==
    ASSUME Undisturbed
    PROVE  Spec => OnlyLateStartThrows
<1>1. ASSUME TypeOK, RoomsSound, PlaceInv, SeatInv, [Next]_vars, NEW c \in Clients,
             pc[c] \notin {"idle", "chat", "startAnnounce"}, pc'[c] = "cleanup"
      PROVE  pc[c] = "cleanup"
    <2> SUFFICES ASSUME pc[c] # "cleanup" PROVE FALSE
        OBVIOUS
    <2>1. c \in Tasks /\ Placed(c)
        BY <1>1 DEF Tasks, PlaceInv
    <2>2. PICK t \in Tasks : TaskStep(t)
        BY <1>1, StepsAreTaskSteps DEF vars
    <2>3. t = c
        BY <1>1, <2>1, <2>2, TaskFrame DEF Frame
    <2> USE DEF Goto, Leave, TypeOK, ControlOK
    <2>4. ~Input(c) /\ ~Removal(c)
        BY <1>1, <2>1
        DEF Input, Accept, Disconnect, Quit, Login, JoinRoom, BeginMove, Ready,
            Start, Chat, Move, CallsRoom, Commanded, Receives,
            Removal, RemoveLeave, RemoveUnlist, RemoveClear, RemoveReturns
    <2>5. Handler(c)
        BY <2>2, <2>3, <2>4 DEF TaskStep, SessionStep
    <2>6. ~MoveCheck(c)
        <3> SUFFICES ASSUME MoveCheck(c) PROVE FALSE
            OBVIOUS
        <3>1. pc[c] = "moveCheck" /\ heap[newRoom[c]].State = "PLAYING"
            BY <1>1, <2>1 DEF MoveCheck
        <3>2. newRoom[c] = CurrentRoom[c] /\ newRoom[c] \in Objects /\ ~TakenOut(c)
            BY <2>1, <2>5, <3>1, <1>1, NobodyElseRemoves
            DEF Undisturbed, Placed, SessionStep, PlaceInv, Removed
        <3>3. c \in heap[newRoom[c]].clients
            BY <1>1, <3>1, <3>2 DEF PlaceInv, MembersRight, Stays
        <3> QED BY <1>1, <3>1, <3>2, <3>3 DEF SeatInv, SeatsRight, SettledIn
    <2>7. ~MoveLeave(c)
        <3> SUFFICES ASSUME MoveLeave(c) PROVE FALSE
            OBVIOUS
        <3>1. pc[c] = "moveLeave" /\ oldRoom[c] = CurrentRoom[c] /\ oldRoom[c] \in Objects
            BY <2>1 DEF MoveLeave, Placed, Entering
        <3>2. ~TakenOut(c)
            BY <1>1, <2>5, <3>1, NobodyElseRemoves
            DEF SessionStep, PlaceInv, Removed, Undisturbed
        <3>3. ~RemovalThrows(heap[oldRoom[c]], c)
            BY <1>1, <3>1, <3>2, RemoveMembers DEF MoveLeave, Stays
        <3> QED BY <1>1, <2>1, <3>3 DEF MoveLeave
    <2>8. ~HandleStart(c)
        <3> SUFFICES ASSUME HandleStart(c) PROVE FALSE
            OBVIOUS
        <3>1. CurrentRoom[c] \in Objects
            BY <2>1 DEF HandleStart, ThrowsNull, Placed, Inside
        <3>2. CanStart(heap[CurrentRoom[c]], c) => BothSeated(heap[CurrentRoom[c]])
            BY <1>1, <3>1, StartedSound DEF RoomsSound
        <3> QED BY <1>1, <2>1, <3>1, <3>2, ChatAssumption
            DEF HandleStart, ThrowsNull, RoomIsGone, BothSeated
    <2>9. ~HandleReady(c) /\ ~ChatSend(c) /\ ~StartAnnounce(c)
        BY <1>1, <2>1, ChatAssumption
        DEF HandleReady, ChatSend, StartAnnounce, ThrowsNull, RoomIsGone, Placed, Inside
    <2>10. ~PlayState(c) /\ ~PlayTurn(c) /\ ~PlayOpponent(c) /\ ~PlaySwitch(c)
        BY <1>1, <2>1, ChatAssumption
        DEF PlayState, PlayTurn, PlayOpponent, PlayRefused, PlayLegal, PlaySwitch,
            PlayStep, ThrowsNull, RoomIsGone, Placed, Inside, MidMove
    <2>11. ~MoveLookup(c) /\ ~MoveAdd(c) /\ ~MoveUnlist(c) /\ ~MoveEnter(c)
        BY <1>1, <2>1 DEF MoveLookup, MoveAdd, MoveUnlist, MoveEnter
    <2>12. ~CleanUp(c) /\ ~RemoveSession(c) /\ ~UnregisterNickName(c)
        BY <1>1, <2>1 DEF CleanUp, BeginRemove, RemoveSession, UnregisterNickName
    <2> QED
        BY <2>5, <2>6, <2>7, <2>8, <2>9, <2>10, <2>11, <2>12
        DEF Handler, BoardHandler, RoomHandler
<1>2. TypeOK /\ RoomsSound /\ PlaceInv /\ SeatInv /\ [Next]_vars
      => [\A c \in Clients :
            pc[c] \notin {"idle", "chat", "startAnnounce"} /\ pc'[c] = "cleanup"
               => pc[c] = "cleanup"]_vars
    BY <1>1
<1> QED BY <1>2, SeatsAlways, PTL DEF Spec, OnlyLateStartThrows

=============================================================================
