-------------------------- MODULE ChatServerProofs --------------------------
(***************************************************************************)
(* Proofs about every behaviour of the chat server: any number of clients, *)
(* of evictions in progress, of rooms and of nicknames, every interleaving *)
(* of lock blocks.                                                         *)
(***************************************************************************)
EXTENDS ChatProperties, Delivery, FiniteSetTheorems, TLAPS

-----------------------------------------------------------------------------
(* What each lock block of GameRoom.cs does to a room that is well-typed   *)
(* and sound, for any set of clients.                                      *)

\* A new room is well-typed and sound.
LEMMA NewRoomSound ==
    ASSUME NEW n \in RoomNames
    PROVE  NewRoom(n) \in Room /\ RoomSound(NewRoom(n))
<1>1. NewRoom(n) \in Room
    BY DEF NewRoom, Room, RoomState
<1>2. Cardinality({}) = 0
    BY FS_EmptySet
<1>3. RoomSound(NewRoom(n))
    BY <1>2 DEF NewRoom, RoomSound, CapacityKept, GameIsSeated, ReadyIsGuests,
                LobbyIsIdle, MAX_PLAYERS, IsGameRoom
<1> QED BY <1>1, <1>3

\* The number of members, before and after an arrival or a departure.
LEMMA MemberCount ==
    ASSUME NEW r \in Room, NEW c
    PROVE  /\ Cardinality(r.clients) \in Nat
           /\ Cardinality(r.clients \ {c}) <= Cardinality(r.clients)
           /\ Cardinality(r.clients \ {c}) \in Nat
           /\ Cardinality(r.clients \cup {c}) \in Nat
           /\ Cardinality(r.clients \cup {c}) <= Cardinality(r.clients) + 1
<1>1. IsFiniteSet(r.clients)
    BY RoomAssumption, FS_Subset DEF Room
<1>2. Cardinality(r.clients) \in Nat
    BY <1>1, FS_CardinalityType
<1>3. /\ IsFiniteSet(r.clients \cup {c})
      /\ \/ Cardinality(r.clients \cup {c}) = Cardinality(r.clients)
         \/ Cardinality(r.clients \cup {c}) = Cardinality(r.clients) + 1
    BY <1>1, FS_AddElement
<1>4. /\ IsFiniteSet(r.clients \ {c})
      /\ \/ Cardinality(r.clients \ {c}) = Cardinality(r.clients)
         \/ Cardinality(r.clients \ {c}) = Cardinality(r.clients) - 1
    BY <1>1, FS_RemoveElement
<1>5. Cardinality(r.clients \ {c}) \in Nat
    BY <1>4, FS_CardinalityType
<1> QED BY <1>2, <1>3, <1>4, <1>5

LEMMA WithClientSound ==
    ASSUME NEW r \in Room, NEW c \in Clients, RoomSound(r), HasSpace(r)
    PROVE  /\ WithClient(r, c) \in Room
           /\ RoomSound(WithClient(r, c))
           /\ WithClient(r, c).Name = r.Name
           /\ WithClient(r, c).Player2 # r.Player2
                => ~WithClient(r, c).IsPlayer2Ready
<1> DEFINE s == WithClient(r, c)
<1>1. CASE c \in r.clients
    BY <1>1 DEF WithClient
<1>2. CASE c \notin r.clients
    <2>1. s \in Room
        BY <1>2 DEF WithClient, Room
    <2>2. /\ s.clients = r.clients \cup {c} /\ s.Name = r.Name
          /\ s.State = r.State /\ s.IsPlayer2Ready = r.IsPlayer2Ready
          /\ s.CurrentTurn = r.CurrentTurn
          /\ ~IsGameRoom(r) => s.Player1 = r.Player1 /\ s.Player2 = r.Player2
          /\ r.Player2 # NoClient => s.Player2 = r.Player2
        BY <1>2 DEF WithClient, Room, IsGameRoom
    <2>3. r.State # "PLAYING"
        BY MemberCount DEF RoomSound, HasSpace, GameIsSeated, LobbyIsIdle,
                           MAX_PLAYERS
    <2>4. CapacityKept(s)
        <3>1. Cardinality(s.clients) <= Cardinality(r.clients) + 1
            BY <2>2, MemberCount
        <3>2. Cardinality(s.clients) \in Nat /\ Cardinality(r.clients) \in Nat
            BY <2>2, MemberCount
        <3> QED BY <2>2, <3>1, <3>2
            DEF CapacityKept, HasSpace, IsGameRoom, MAX_PLAYERS
    <2>5. GameIsSeated(s) /\ LobbyIsIdle(s)
        BY <2>2, <2>3 DEF RoomSound, GameIsSeated, LobbyIsIdle, IsGameRoom
    <2>6. ReadyIsGuests(s) /\ (s.Player2 # r.Player2 => ~s.IsPlayer2Ready)
        BY <2>2 DEF RoomSound, ReadyIsGuests
    <2> QED BY <2>1, <2>2, <2>4, <2>5, <2>6 DEF RoomSound
<1> QED BY <1>1, <1>2

\* Sound whether or not the client was a member, and when the block throws.
LEMMA WithoutClientSound ==
    ASSUME NEW r \in Room, NEW c, RoomSound(r)
    PROVE  /\ WithoutClient(r, c) \in Room
           /\ RoomSound(WithoutClient(r, c))
           /\ WithoutClient(r, c).Name = r.Name
           /\ ~WithoutClient(r, c).IsPlayer2Ready
<1> DEFINE s == WithoutClient(r, c)
<1>1. ~(r.IsPlayer2Ready /\ RemovalThrows(r, c))
    BY DEF RoomSound, ReadyIsGuests, RemovalThrows
<1>2. s = WithoutClientBut(r, c, "WAITING", FALSE)
    BY <1>1 DEF WithoutClient, Room
<1>3. s \in Room
    <2> DEFINE player1 == IF HostLeaves(r, c) THEN r.Player2 ELSE r.Player1
               player2 == IF HostLeaves(r, c) \/ GuestLeaves(r, c)
                          THEN NoClient ELSE r.Player2
               currentTurn == IF r.State = "PLAYING" THEN NoClient
                              ELSE r.CurrentTurn
    <2>1. /\ player1 \in Clients \cup {NoClient}
          /\ player2 \in Clients \cup {NoClient}
          /\ currentTurn \in Clients \cup {NoClient}
          /\ r.clients \ {c} \in SUBSET Clients
        BY DEF Room
    <2>2. s = [r EXCEPT !.clients = r.clients \ {c}, !.State = "WAITING",
                        !.CurrentTurn = currentTurn, !.Player1 = player1,
                        !.Player2 = player2, !.IsPlayer2Ready = FALSE]
        BY <1>2 DEF WithoutClientBut
    <2> HIDE DEF player1, player2, currentTurn
    <2> QED BY <2>1, <2>2 DEF Room, RoomState
<1>4. /\ s.clients = r.clients \ {c} /\ s.Name = r.Name
      /\ s.State = "WAITING" /\ s.IsPlayer2Ready = FALSE
      /\ ~IsGameRoom(r) => s.Player1 = r.Player1 /\ s.Player2 = r.Player2
    BY <1>2 DEF WithoutClientBut, Room, HostLeaves, GuestLeaves
<1>5. CapacityKept(s)
    <2>1. /\ Cardinality(s.clients) <= Cardinality(r.clients)
          /\ Cardinality(s.clients) \in Nat /\ Cardinality(r.clients) \in Nat
        BY <1>4, MemberCount
    <2> QED BY <1>4, <2>1 DEF CapacityKept, RoomSound, IsGameRoom, MAX_PLAYERS
<1>6. GameIsSeated(s) /\ ReadyIsGuests(s) /\ LobbyIsIdle(s)
    BY <1>4 DEF RoomSound, GameIsSeated, ReadyIsGuests, LobbyIsIdle, IsGameRoom
<1> QED BY <1>3, <1>4, <1>5, <1>6 DEF RoomSound

LEMMA TurnSwitchedSound ==
    ASSUME NEW r \in Room, RoomSound(r)
    PROVE  /\ TurnSwitched(r) \in Room
           /\ RoomSound(TurnSwitched(r))
           /\ TurnSwitched(r).Name = r.Name
           /\ TurnSwitched(r).Player2 = r.Player2
BY DEF TurnSwitched, Room, RoomSound, CapacityKept, GameIsSeated,
       ReadyIsGuests, LobbyIsIdle, IsGameRoom, BothSeated

LEMMA ReadyToggledSound ==
    ASSUME NEW r \in Room, NEW c \in Clients, RoomSound(r)
    PROVE  /\ ReadyToggled(r, c) \in Room
           /\ RoomSound(ReadyToggled(r, c))
           /\ ReadyToggled(r, c).Name = r.Name
           /\ ReadyToggled(r, c).Player2 = r.Player2
BY RoomAssumption
DEF ReadyToggled, Room, RoomSound, CapacityKept, GameIsSeated, ReadyIsGuests,
    LobbyIsIdle, IsGameRoom, BothSeated

\* In a sound room START never finds the guest's slot empty.
LEMMA StartedSound ==
    ASSUME NEW r \in Room, NEW c \in Clients, RoomSound(r), CanStart(r, c)
    PROVE  /\ Started(r) \in Room
           /\ RoomSound(Started(r))
           /\ Started(r).Name = r.Name
           /\ Started(r).Player2 = r.Player2
           /\ BothSeated(r)
<1>1. BothSeated(r) /\ IsGameRoom(r)
    BY RoomAssumption
    DEF CanStart, RoomSound, ReadyIsGuests, LobbyIsIdle, BothSeated
<1>2. Cardinality(r.clients) = MAX_PLAYERS
    <2>1. Cardinality(r.clients) \in Nat
        BY MemberCount
    <2> QED BY <1>1, <2>1 DEF CanStart, RoomSound, CapacityKept, MAX_PLAYERS
<1>3. Started(r) \in Room
    BY DEF Started, Room, RoomState
<1>4. RoomSound(Started(r))
    BY <1>1, <1>2
    DEF Started, Room, RoomSound, CapacityKept, GameIsSeated, ReadyIsGuests,
        LobbyIsIdle, IsGameRoom, BothSeated
<1> QED BY <1>1, <1>3, <1>4 DEF Started, Room

-----------------------------------------------------------------------------
(* Rooms.  A step replaces at most one object, by a sound room.             *)

\* What a step may make of the room r.
Successor(r, s) ==
    /\ s \in Room
    /\ RoomSound(s)
    /\ s.Player2 # r.Player2 => ~s.IsPlayer2Ready

HeapStep == \A o \in Objects : Successor(heap[o], heap'[o])

LEMMA UnchangedHeap ==
    ASSUME TypeOK, RoomsSound, UNCHANGED heap
    PROVE  heap' \in [Objects -> Room] /\ HeapStep
BY DEF TypeOK, RoomsSound, HeapStep, Successor

LEMMA SetRoomStep ==
    ASSUME TypeOK, RoomsSound, NEW o, NEW s,
           SetRoom(o, s), o \in Objects => Successor(heap[o], s)
    PROVE  heap' \in [Objects -> Room] /\ HeapStep
<1>1. heap' = [heap EXCEPT ![o] = s]
    BY DEF SetRoom
<1>2. \A p \in Objects : Successor(heap[p], heap'[p])
    BY <1>1 DEF TypeOK, RoomsSound, Successor
<1>3. heap' \in [Objects -> Room]
    BY <1>1, <1>2 DEF TypeOK, Successor
<1> QED BY <1>2, <1>3 DEF HeapStep

LEMMA RemovalHeap ==
    ASSUME TypeOK, RoomsSound, NEW t \in Tasks, Removal(t)
    PROVE  heap' \in [Objects -> Room] /\ HeapStep
<1>1. CASE RemoveLeave(t)
    <2> DEFINE o == oldRoom[t]
               s == WithoutClient(heap[o], Subject(t))
    <2>1. SetRoom(o, s)
        BY <1>1 DEF RemoveLeave
    <2>2. o \in Objects => Successor(heap[o], s)
        BY WithoutClientSound DEF TypeOK, RoomsSound, Successor
    <2> QED BY <2>1, <2>2, SetRoomStep
<1>2. CASE RemoveUnlist(t) \/ RemoveClear(t)
    BY <1>2, UnchangedHeap DEF RemoveUnlist, RemoveClear
<1> QED BY <1>1, <1>2 DEF Removal

LEMMA HandlerHeap ==
    ASSUME TypeOK, RoomsSound, NEW c \in Clients, Handler(c)
    PROVE  heap' \in [Objects -> Room] /\ HeapStep
<1>1. CASE MoveLookup(c)
    <2>1. CASE UNCHANGED heap
        BY <2>1, UnchangedHeap
    <2>2. CASE \E o \in Objects : SetRoom(o, NewRoom(target[c]))
        <3>1. PICK o \in Objects : SetRoom(o, NewRoom(target[c]))
            BY <2>2
        <3>2. target[c] \in RoomNames
            BY DEF TypeOK
        <3>3. Successor(heap[o], NewRoom(target[c]))
            BY <3>2, NewRoomSound DEF Successor, NewRoom
        <3> QED BY <3>1, <3>3, SetRoomStep
    <2> QED BY <1>1, <2>1, <2>2 DEF MoveLookup
<1>2. CASE MoveAdd(c)
    <2> DEFINE o == newRoom[c]
               s == WithClient(heap[o], c)
    <2>1. CASE HasSpace(heap[o]) /\ SetRoom(o, s)
        <3>1. o \in Objects => Successor(heap[o], s)
            BY <2>1, WithClientSound DEF TypeOK, RoomsSound, Successor
        <3> QED BY <2>1, <3>1, SetRoomStep
    <2> QED BY <1>2, <2>1, UnchangedHeap DEF MoveAdd, Added
<1>3. CASE MoveLeave(c)
    <2> DEFINE o == oldRoom[c]
               s == WithoutClient(heap[o], c)
    <2>1. SetRoom(o, s)
        BY <1>3 DEF MoveLeave
    <2>2. o \in Objects => Successor(heap[o], s)
        BY WithoutClientSound DEF TypeOK, RoomsSound, Successor
    <2> QED BY <2>1, <2>2, SetRoomStep
<1>4. CASE HandleReady(c)
    <2> DEFINE o == CurrentRoom[c]
               s == ReadyToggled(heap[o], c)
    <2>1. CASE SetRoom(o, s)
        <3>1. o \in Objects => Successor(heap[o], s)
            BY ReadyToggledSound DEF TypeOK, RoomsSound, Successor
        <3> QED BY <2>1, <3>1, SetRoomStep
    <2> QED BY <1>4, <2>1, UnchangedHeap DEF HandleReady, ThrowsNull
<1>5. CASE HandleStart(c)
    <2> DEFINE o == CurrentRoom[c]
               s == Started(heap[o])
    <2>1. CASE CanStart(heap[o], c) /\ SetRoom(o, s)
        <3>1. o \in Objects => Successor(heap[o], s)
            BY <2>1, StartedSound DEF TypeOK, RoomsSound, Successor
        <3> QED BY <2>1, <3>1, SetRoomStep
    <2> QED BY <1>5, <2>1, UnchangedHeap DEF HandleStart, ThrowsNull
<1>6. CASE PlaySwitch(c)
    <2> DEFINE o == CurrentRoom[c]
               s == TurnSwitched(heap[o])
    <2>1. CASE SetRoom(o, s)
        <3>1. o \in Objects => Successor(heap[o], s)
            BY TurnSwitchedSound DEF TypeOK, RoomsSound, Successor
        <3> QED BY <2>1, <3>1, SetRoomStep
    <2> QED BY <1>6, <2>1, UnchangedHeap DEF PlaySwitch, ThrowsNull
<1>7. CASE \/ MoveUnlist(c) \/ MoveEnter(c) \/ MoveCheck(c)
           \/ StartAnnounce(c) \/ ChatSend(c)
           \/ PlayState(c) \/ PlayTurn(c) \/ PlayOpponent(c)
           \/ CleanUp(c) \/ RemoveSession(c) \/ UnregisterNickName(c)
    <2>1. UNCHANGED heap
        BY <1>7
        DEF MoveUnlist, MoveEnter, MoveCheck, StartAnnounce, ChatSend,
            PlayState, PlayTurn, PlayOpponent, PlayRefused, PlayLegal, PlayStep, ThrowsNull,
            CleanUp, RemoveSession, UnregisterNickName
    <2> QED BY <2>1, UnchangedHeap
<1> QED
    BY <1>1, <1>2, <1>3, <1>4, <1>5, <1>6, <1>7 DEF Handler, BoardHandler, RoomHandler

LEMMA HeapInvariance ==
    ASSUME TypeOK, RoomsSound, [Next]_vars
    PROVE  heap' \in [Objects -> Room] /\ HeapStep
<1>1. ASSUME NEW c \in Clients, Input(c) PROVE UNCHANGED heap
    BY <1>1
    DEF Input, Accept, Disconnect, Quit, Login, BeginMove, JoinRoom, Ready,
        Start, Chat, Move, CallsRoom
<1>2. ASSUME NEW e \in Evictors, NEW c \in Clients, Evict(e, c)
      PROVE  UNCHANGED heap
    BY <1>2 DEF Evict
<1>3. AllEnded \/ UNCHANGED vars => UNCHANGED heap
    BY DEF AllEnded, vars
<1> QED
    BY <1>1, <1>2, <1>3, UnchangedHeap, HandlerHeap, RemovalHeap
    DEF Next, SessionStep, EvictorStep, Tasks

-----------------------------------------------------------------------------
(* Types.                                                                   *)

LEMMA GotoType ==
    ASSUME ControlOK, NEW t \in Tasks, NEW label, Goto(t, label),
           t \in Clients => label \in SessionPC,
           t \in Evictors => label \in EvictorPC
    PROVE  ControlOK'
BY ChatAssumption DEF ControlOK, Goto, Tasks

LEMMA SessionGotoType ==
    ASSUME ControlOK, NEW c \in Clients, NEW label \in SessionPC, Goto(c, label)
    PROVE  ControlOK'
BY GotoType, ChatAssumption DEF Tasks

LocalsOK ==
    /\ target \in [Clients -> RoomNames]
    /\ oldRoom \in [Tasks -> Objects \cup {NoObject}]
    /\ newRoom \in [Clients -> Objects \cup {NoObject}]

LEMMA InputType ==
    ASSUME TypeOK, heap' \in [Objects -> Room], NEW c \in Clients, Input(c)
    PROVE  TypeOK'
<1>1. \E label \in SessionPC : Goto(c, label)
    BY DEF Input, Accept, Disconnect, Quit, Login, JoinRoom, BeginMove, Ready,
           Start, Move, CallsRoom, Chat, SessionPC
<1>2. ControlOK'
    BY <1>1, SessionGotoType DEF TypeOK
<1>3. CASE Accept(c)
    BY <1>2, <1>3 DEF Accept, TypeOK, locals
<1>4. CASE Disconnect(c) \/ Quit(c) \/ Chat(c) \/ Ready(c) \/ Start(c) \/ Move(c)
    BY <1>2, <1>4
    DEF Disconnect, Quit, Chat, Ready, Start, Move, CallsRoom, TypeOK, locals,
        registry
<1>5. ASSUME NEW n \in Asks[c], Login(c, n) PROVE TypeOK'
    <2>1. n \in Nicks
        BY ChatAssumption
    <2>2. nickNames' \subseteq {Fold[m] : m \in Nicks}
        BY <1>5, <2>1 DEF Login, TypeOK
    <2>3. target' \in [Clients -> RoomNames]
        BY <1>5 DEF Login, BeginMove, TypeOK, RoomNames
    <2>4. oldRoom' \in [Tasks -> Objects \cup {NoObject}]
        BY <1>5 DEF Login, BeginMove, TypeOK
    <2>5. /\ NickName' \in [Clients -> Nicks \cup {Unknown}]
          /\ IsLoggedIn' \in [Clients -> BOOLEAN]
        BY <1>5, <2>1 DEF Login, TypeOK
    <2> QED
        BY <1>2, <1>5, <2>2, <2>3, <2>4, <2>5 DEF Login, BeginMove, TypeOK
<1>6. ASSUME NEW n \in RoomNames, JoinRoom(c, n) PROVE TypeOK'
    BY <1>2, <1>6 DEF JoinRoom, BeginMove, TypeOK
<1> QED
    BY <1>3, <1>4, <1>5, <1>6 DEF Input

LEMMA RemovalType ==
    ASSUME TypeOK, heap' \in [Objects -> Room], NEW t \in Tasks, Removal(t)
    PROVE  TypeOK'
<1>1. \E label : /\ Goto(t, label)
                 /\ t \in Clients => label \in SessionPC
                 /\ t \in Evictors => label \in EvictorPC
    BY ChatAssumption
    DEF Removal, RemoveLeave, RemoveUnlist, RemoveClear, RemoveReturns,
        SessionPC, EvictorPC
<1>2. ControlOK'
    BY <1>1, GotoType DEF TypeOK
<1>3. CASE RemoveLeave(t)
    BY <1>2, <1>3 DEF RemoveLeave, RemoveReturns, TypeOK, locals, registry
<1>4. CASE RemoveUnlist(t)
    BY <1>2, <1>4 DEF RemoveUnlist, TypeOK, locals, registry
<1>5. CASE RemoveClear(t)
    BY <1>2, <1>5 DEF RemoveClear, RemoveReturns, TypeOK, registry
<1> QED BY <1>3, <1>4, <1>5 DEF Removal

LEMMA HandlerType ==
    ASSUME TypeOK, heap' \in [Objects -> Room], NEW c \in Clients, Handler(c)
    PROVE  TypeOK'
<1>1. \E label \in SessionPC : Goto(c, label)
    BY DEF Handler, BoardHandler, RoomHandler,
           MoveLookup, MoveAdd, MoveLeave, MoveUnlist, MoveEnter,
           MoveCheck, Leave, HandleReady, HandleStart, ThrowsNull,
           StartAnnounce, ChatSend, PlayState, PlayTurn, PlayOpponent, PlayRefused, PlayLegal,
           PlaySwitch, PlayStep, CleanUp, BeginRemove, RemoveSession,
           UnregisterNickName, SessionPC
<1>2. ControlOK'
    BY <1>1, SessionGotoType DEF TypeOK
<1>3. LocalsOK
    BY DEF TypeOK, LocalsOK
<1>4. ASSUME NEW label, Leave(c, label) PROVE LocalsOK'
    BY <1>3, <1>4 DEF Leave, LocalsOK, RoomNames
<1>5. CASE MoveLookup(c)
    BY <1>2, <1>5 DEF MoveLookup, RoomNames, TypeOK, registry
<1>6. CASE MoveAdd(c) \/ MoveLeave(c) \/ MoveCheck(c) \/ StartAnnounce(c)
    <2>1. LocalsOK'
        BY <1>3, <1>4, <1>6
        DEF MoveAdd, Added, MoveLeave, MoveCheck, StartAnnounce, LocalsOK, locals
    <2> QED BY <1>2, <1>6, <2>1
        DEF MoveAdd, MoveLeave, MoveCheck, StartAnnounce, TypeOK, LocalsOK,
            registry
<1>7. CASE MoveUnlist(c) \/ MoveEnter(c)
    BY <1>2, <1>7 DEF MoveUnlist, MoveEnter, TypeOK, locals, registry
<1>8. CASE \/ HandleReady(c) \/ ChatSend(c) \/ PlaySwitch(c)
           \/ PlayState(c) \/ PlayTurn(c) \/ PlayOpponent(c)
    <2>1. LocalsOK'
        BY <1>3, <1>4, <1>8
        DEF HandleReady, ChatSend, PlaySwitch, PlayState, PlayTurn,
            PlayOpponent, PlayRefused, PlayLegal, PlayStep, ThrowsNull, LocalsOK, locals
    <2> QED BY <1>2, <1>8, <2>1
        DEF HandleReady, ChatSend, PlaySwitch, PlayState, PlayTurn,
            PlayOpponent, PlayRefused, PlayLegal, PlayStep, ThrowsNull, TypeOK, LocalsOK, registry
<1>9. CASE HandleStart(c)
    <2>1. LocalsOK'
        BY <1>3, <1>4, <1>9 DEF HandleStart, ThrowsNull, LocalsOK, locals, TypeOK
    <2> QED BY <1>2, <1>9, <2>1
        DEF HandleStart, ThrowsNull, TypeOK, LocalsOK, registry
<1>10. CASE CleanUp(c)
    BY <1>2, <1>10 DEF CleanUp, BeginRemove, TypeOK, locals, registry
<1>11. CASE RemoveSession(c) \/ UnregisterNickName(c)
    BY <1>2, <1>11 DEF RemoveSession, UnregisterNickName, TypeOK, locals
<1> QED
    BY <1>5, <1>6, <1>7, <1>8, <1>9, <1>10, <1>11 DEF Handler, BoardHandler, RoomHandler

LEMMA TypeInvariance ==
    ASSUME TypeOK, RoomsSound, [Next]_vars
    PROVE  TypeOK'
<1>1. heap' \in [Objects -> Room]
    BY HeapInvariance
<1>2. ASSUME NEW e \in Evictors, NEW c \in Clients, Evict(e, c)
      PROVE  TypeOK'
    <2>1. ControlOK'
        BY <1>2, GotoType, ChatAssumption
        DEF Evict, BeginRemove, TypeOK, EvictorPC, Tasks
    <2> QED BY <1>1, <1>2, <2>1 DEF Evict, BeginRemove, TypeOK, registry
<1>3. UNCHANGED vars => TypeOK'
    BY DEF vars, registry, locals, TypeOK, ControlOK
<1> QED
    BY <1>1, <1>2, <1>3, InputType, HandlerType, RemovalType
    DEF Next, SessionStep, EvictorStep, Tasks, AllEnded

LEMMA InitRooms == Init => TypeOK /\ RoomsSound
<1> SUFFICES ASSUME Init PROVE TypeOK /\ RoomsSound
    OBVIOUS
<1>1. Lobby \in RoomNames
    BY DEF RoomNames
<1>2. RoomsSound
    BY <1>1, NewRoomSound DEF Init, RoomsSound
<1>3. heap \in [Objects -> Room]
    BY <1>1, NewRoomSound DEF Init
<1>4. TypeOK
    BY <1>1, <1>3, ChatAssumption
    DEF Init, TypeOK, ControlOK, SessionPC, EvictorPC, Tasks, RoomNames
<1> QED BY <1>2, <1>4

\* Types and the soundness of every room hold together: the blocks preserve
\* the soundness of well-typed rooms, and READY and START are typed because
\* the rooms are sound.
THEOREM RoomsInvariant == Spec => [](TypeOK /\ RoomsSound)
<1>1. TypeOK /\ RoomsSound /\ [Next]_vars => (TypeOK /\ RoomsSound)'
    BY TypeInvariance, HeapInvariance DEF RoomsSound, HeapStep, Successor
<1> QED BY <1>1, InitRooms, PTL DEF Spec

\* Every variable of the chat server keeps its type, in every interleaving.
THEOREM TypesTheorem == Spec => []TypeOK
BY RoomsInvariant, PTL

\* No step lets a guest's READY outlive a change of the second slot.
THEOREM ReadinessTheorem == Spec => ReadyNeverInherited
<1>1. TypeOK /\ RoomsSound /\ [Next]_vars
      => [\A o \in Objects :
            heap'[o].Player2 # heap[o].Player2 => ~heap'[o].IsPlayer2Ready]_vars
    BY HeapInvariance DEF HeapStep, Successor
<1> QED BY <1>1, RoomsInvariant, PTL DEF Spec, ReadyNeverInherited

-----------------------------------------------------------------------------
(* The Lobby.  Rooms are taken off the list by name, so the proof needs the *)
(* name of the room a task is about to take off: an object keeps its name   *)
(* as long as a task refers to it.                                          *)

Leaving == {"moveLeave", "moveUnlist", "removeLeave", "removeUnlist"}
Unlisting == {"moveUnlist", "removeUnlist"}

LobbyInv ==
    /\ LobbyListed
    /\ \A t \in Tasks : pc[t] \in Leaving => oldRoom[t] \in Objects
    /\ \A t \in Tasks : pc[t] \in Unlisting => IsGameRoom(heap[oldRoom[t]])

\* An object that something refers to keeps its name.
LEMMA NamesStay ==
    ASSUME TypeOK, RoomsSound, [Next]_vars, NEW o \in Objects, ~Unreferenced(o)
    PROVE  heap'[o].Name = heap[o].Name
<1>1. ASSUME NEW p, NEW s, SetRoom(p, s), p \in Objects => s.Name = heap[p].Name
      PROVE  heap'[o].Name = heap[o].Name
    BY <1>1 DEF SetRoom, TypeOK
<1>2. ASSUME NEW c \in Clients, MoveLookup(c)
      PROVE  heap'[o].Name = heap[o].Name
    BY <1>2 DEF MoveLookup, SetRoom, TypeOK
<1>3. ASSUME NEW c \in Clients, MoveAdd(c)
      PROVE  heap'[o].Name = heap[o].Name
    <2>1. newRoom[c] \in Objects /\ HasSpace(heap[newRoom[c]])
          => WithClient(heap[newRoom[c]], c).Name = heap[newRoom[c]].Name
        BY WithClientSound DEF TypeOK, RoomsSound
    <2> QED BY <1>1, <1>3, <2>1 DEF MoveAdd, Added
<1>4. ASSUME NEW t \in Tasks, NEW c, SetRoom(oldRoom[t], WithoutClient(heap[oldRoom[t]], c))
      PROVE  heap'[o].Name = heap[o].Name
    <2>1. oldRoom[t] \in Objects
          => WithoutClient(heap[oldRoom[t]], c).Name = heap[oldRoom[t]].Name
        BY WithoutClientSound DEF TypeOK, RoomsSound
    <2> QED BY <1>1, <1>4, <2>1
<1>5. ASSUME NEW c \in Clients, HandleReady(c)
      PROVE  heap'[o].Name = heap[o].Name
    <2>1. CurrentRoom[c] \in Objects
          => ReadyToggled(heap[CurrentRoom[c]], c).Name = heap[CurrentRoom[c]].Name
        BY ReadyToggledSound DEF TypeOK, RoomsSound
    <2> QED BY <1>1, <1>5, <2>1 DEF HandleReady, ThrowsNull
<1>6. ASSUME NEW c \in Clients, HandleStart(c)
      PROVE  heap'[o].Name = heap[o].Name
    <2>1. CurrentRoom[c] \in Objects /\ CanStart(heap[CurrentRoom[c]], c)
          => Started(heap[CurrentRoom[c]]).Name = heap[CurrentRoom[c]].Name
        BY StartedSound DEF TypeOK, RoomsSound
    <2> QED BY <1>1, <1>6, <2>1 DEF HandleStart, ThrowsNull
<1>7. ASSUME NEW c \in Clients, PlaySwitch(c)
      PROVE  heap'[o].Name = heap[o].Name
    <2>1. CurrentRoom[c] \in Objects
          => TurnSwitched(heap[CurrentRoom[c]]).Name = heap[CurrentRoom[c]].Name
        BY TurnSwitchedSound DEF TypeOK, RoomsSound
    <2> QED BY <1>1, <1>7, <2>1 DEF PlaySwitch, ThrowsNull
<1>8. ASSUME NEW c \in Clients, Handler(c)
      PROVE  heap'[o].Name = heap[o].Name
    <2>1. CASE MoveLeave(c)
        BY <1>4, <2>1 DEF MoveLeave, Tasks
    <2>2. CASE \/ MoveUnlist(c) \/ MoveEnter(c) \/ MoveCheck(c)
               \/ StartAnnounce(c) \/ ChatSend(c)
               \/ PlayState(c) \/ PlayTurn(c) \/ PlayOpponent(c)
               \/ CleanUp(c) \/ RemoveSession(c) \/ UnregisterNickName(c)
        BY <2>2
        DEF MoveUnlist, MoveEnter, MoveCheck, StartAnnounce, ChatSend,
            PlayState, PlayTurn, PlayOpponent, PlayRefused, PlayLegal, PlayStep, ThrowsNull,
            CleanUp, RemoveSession, UnregisterNickName
    <2> QED
        BY <1>2, <1>3, <1>5, <1>6, <1>7, <1>8, <2>1, <2>2 DEF Handler, BoardHandler, RoomHandler
<1>9. ASSUME NEW t \in Tasks, Removal(t)
      PROVE  heap'[o].Name = heap[o].Name
    BY <1>4, <1>9 DEF Removal, RemoveLeave, RemoveUnlist, RemoveClear
<1>10. ASSUME NEW c \in Clients, Input(c) PROVE UNCHANGED heap
    BY <1>10
    DEF Input, Accept, Disconnect, Quit, Login, BeginMove, JoinRoom, Ready,
        Start, Chat, Move, CallsRoom
<1>11. ASSUME NEW e \in Evictors, NEW c \in Clients, Evict(e, c)
       PROVE  UNCHANGED heap
    BY <1>11 DEF Evict
<1>12. AllEnded \/ UNCHANGED vars => UNCHANGED heap
    BY DEF AllEnded, vars
<1> QED
    BY <1>8, <1>9, <1>10, <1>11, <1>12
    DEF Next, SessionStep, EvictorStep, Tasks

\* What a step of task t does to its own position, and to nobody else's.
Advance(t) ==
    /\ \A u \in Tasks \ {t} : pc'[u] = pc[u] /\ oldRoom'[u] = oldRoom[u]
    /\ pc'[t] \in Leaving => oldRoom'[t] \in Objects
    /\ pc'[t] \in Unlisting => /\ oldRoom'[t] = oldRoom[t]
                              /\ IsGameRoom(heap[oldRoom[t]])

\* A room is taken off the list only when it is a game room; the room named
\* Lobby is never looked up in vain.
ListStep ==
    \/ UNCHANGED rooms
    \/ \E t \in Tasks : /\ pc[t] \in Unlisting
                        /\ rooms' = [rooms EXCEPT ![heap[oldRoom[t]].Name] = NoObject]
    \/ \E n \in RoomNames, o \in Objects :
          rooms[n] = NoObject /\ rooms' = [rooms EXCEPT ![n] = o]

LEMMA InputAdvance ==
    ASSUME TypeOK, LobbyInv, NEW c \in Clients, Input(c)
    PROVE  Advance(c) /\ ListStep
<1>1. UNCHANGED rooms
    BY DEF Input, Accept, Disconnect, Quit, Login, JoinRoom, BeginMove, Ready,
           Start, Move, CallsRoom, Chat
<1>2. \E label : Goto(c, label) /\ label \notin Leaving
    BY DEF Input, Accept, Disconnect, Quit, Login, JoinRoom, BeginMove, Ready,
           Start, Move, CallsRoom, Chat, Leaving
<1>3. \A u \in Tasks \ {c} : oldRoom'[u] = oldRoom[u]
    BY DEF Input, Accept, Disconnect, Quit, Login, JoinRoom, BeginMove, Ready,
           Start, Move, CallsRoom, Chat, locals, TypeOK
<1> QED
    BY <1>1, <1>2, <1>3
    DEF Advance, ListStep, Goto, Leaving, Unlisting, TypeOK, ControlOK, Tasks

LEMMA RemovalAdvance ==
    ASSUME TypeOK, LobbyInv, NEW t \in Tasks, Removal(t)
    PROVE  Advance(t) /\ ListStep
<1> USE DEF Advance, ListStep, Goto, Leaving, Unlisting, TypeOK, ControlOK, LobbyInv
<1>1. CASE RemoveLeave(t)
    BY <1>1 DEF RemoveLeave, RemoveReturns, IsEmptied, locals
<1>2. CASE RemoveUnlist(t)
    BY <1>2 DEF RemoveUnlist, locals
<1>3. CASE RemoveClear(t)
    BY <1>3 DEF RemoveClear, RemoveReturns
<1> QED BY <1>1, <1>2, <1>3 DEF Removal

LEMMA HandlerAdvance ==
    ASSUME TypeOK, LobbyInv, NEW c \in Clients, Handler(c)
    PROVE  Advance(c) /\ ListStep
<1> USE DEF Advance, ListStep, Goto, Leaving, Unlisting, TypeOK, ControlOK,
            LobbyInv, Tasks
<1>1. CASE MoveLookup(c)
    BY <1>1 DEF MoveLookup
<1>2. CASE MoveAdd(c)
    BY <1>2 DEF MoveAdd, Added, Leave, locals
<1>3. CASE MoveLeave(c)
    BY <1>3 DEF MoveLeave, Leave, IsEmptied, locals
<1>4. CASE MoveUnlist(c)
    BY <1>4 DEF MoveUnlist, locals
<1>5. CASE MoveEnter(c)
    BY <1>5 DEF MoveEnter, locals
<1>6. CASE MoveCheck(c) \/ StartAnnounce(c)
    BY <1>6 DEF MoveCheck, StartAnnounce, Leave
<1>7. CASE HandleReady(c) \/ ChatSend(c) \/ PlaySwitch(c)
    BY <1>7 DEF HandleReady, ChatSend, PlaySwitch, ThrowsNull, Leave, locals
<1>8. CASE HandleStart(c)
    BY <1>8 DEF HandleStart, ThrowsNull, Leave, locals
<1>9. CASE PlayState(c) \/ PlayTurn(c) \/ PlayOpponent(c)
    BY <1>9
    DEF PlayState, PlayTurn, PlayOpponent, PlayRefused, PlayLegal,
        PlayStep, ThrowsNull, Leave, locals
<1>10. CASE CleanUp(c)
    BY <1>10 DEF CleanUp, BeginRemove, RoomIsGone, locals
<1>11. CASE RemoveSession(c) \/ UnregisterNickName(c)
    BY <1>11 DEF RemoveSession, UnregisterNickName, locals
<1> QED
    BY <1>1, <1>2, <1>3, <1>4, <1>5, <1>6, <1>7, <1>8, <1>9, <1>10, <1>11
    DEF Handler, BoardHandler, RoomHandler

LEMMA TaskAdvance ==
    ASSUME TypeOK, LobbyInv, [Next]_vars
    PROVE  /\ ListStep
           /\ \/ UNCHANGED <<pc, oldRoom>>
              \/ \E t \in Tasks : Advance(t)
<1>1. ASSUME NEW e \in Evictors, NEW c \in Clients, Evict(e, c)
      PROVE  Advance(e) /\ ListStep
    BY <1>1
    DEF Evict, BeginRemove, Advance, ListStep, Goto, Leaving, Unlisting,
        RoomIsGone, TypeOK, ControlOK, Tasks
<1>2. AllEnded \/ UNCHANGED vars => ListStep /\ UNCHANGED <<pc, oldRoom>>
    BY DEF AllEnded, vars, locals, ListStep
<1> QED
    BY <1>1, <1>2, InputAdvance, HandlerAdvance, RemovalAdvance
    DEF Next, SessionStep, EvictorStep, Tasks

LEMMA LobbyInvariance ==
    ASSUME TypeOK, RoomsSound, LobbyInv, [Next]_vars
    PROVE  LobbyInv'
<1>1. \A o \in Objects : ~Unreferenced(o) => heap'[o].Name = heap[o].Name
    BY NamesStay
<1>2. LobbyListed'
    <2>1. ~Unreferenced(LobbyRoom) /\ LobbyRoom \in Objects
        BY ChatAssumption DEF LobbyInv, LobbyListed, Unreferenced, RoomNames
    <2>2. heap'[LobbyRoom].Name = Lobby
        BY <1>1, <2>1 DEF LobbyInv, LobbyListed
    <2>3. rooms'[Lobby] = rooms[Lobby]
        BY TaskAdvance, ChatAssumption
        DEF ListStep, LobbyInv, LobbyListed, IsGameRoom, TypeOK, RoomNames
    <2> QED BY <2>2, <2>3 DEF LobbyInv, LobbyListed
<1>3. ASSUME NEW t \in Tasks, pc'[t] \in Leaving PROVE oldRoom'[t] \in Objects
    BY <1>3, TaskAdvance DEF Advance, LobbyInv
<1>4. ASSUME NEW t \in Tasks, pc'[t] \in Unlisting
      PROVE  IsGameRoom(heap'[oldRoom'[t]])
    <2>1. oldRoom'[t] = oldRoom[t] /\ IsGameRoom(heap[oldRoom[t]])
        BY <1>4, TaskAdvance DEF Advance, LobbyInv
    <2>2. oldRoom[t] \in Objects
        BY <1>3, <1>4, <2>1 DEF Leaving, Unlisting
    <2>3. ~Unreferenced(oldRoom[t])
        BY DEF Unreferenced
    <2> QED BY <1>1, <2>1, <2>2, <2>3 DEF IsGameRoom
<1> QED BY <1>2, <1>3, <1>4 DEF LobbyInv, IsGameRoom

\* Every removal of a name from the list leaves the Lobby alone.
THEOREM LobbyTheorem == Spec => []LobbyListed
<1>1. Init => LobbyInv
    BY ChatAssumption
    DEF Init, LobbyInv, LobbyListed, NewRoom, RoomNames, Leaving, Unlisting
<1>2. TypeOK /\ RoomsSound /\ LobbyInv /\ [Next]_vars => LobbyInv'
    BY LobbyInvariance
<1>3. LobbyInv => LobbyListed
    BY DEF LobbyInv
<1> QED BY <1>1, <1>2, <1>3, RoomsInvariant, PTL DEF Spec

-----------------------------------------------------------------------------
(* Sessions that are gone.                                                  *)

Gone == {"unregister", "closed"}
Dropping == {"drop"} \cup Gone

ForgetInv ==
    \A c \in Clients :
        /\ pc[c] \in Dropping => CurrentRoom[c] = NoObject
        /\ pc[c] \in Gone => c \notin sessions

LEMMA ForgetInvariance ==
    ASSUME TypeOK, ForgetInv, [Next]_vars
    PROVE  ForgetInv'
<1> USE DEF ForgetInv, Gone, Dropping, Goto, TypeOK, ControlOK, Tasks
<1>1. ASSUME NEW c \in Clients, Input(c) PROVE ForgetInv'
    <2>1. CASE Accept(c)
        BY <2>1 DEF Accept
    <2>2. CASE Disconnect(c) \/ Quit(c) \/ Chat(c) \/ Ready(c) \/ Start(c) \/ Move(c)
        BY <2>2 DEF Disconnect, Quit, Chat, Ready, Start, Move, CallsRoom, registry
    <2>3. CASE \E n \in Asks[c] : Login(c, n)
        BY <2>3 DEF Login, BeginMove
    <2>4. CASE \E n \in RoomNames : JoinRoom(c, n)
        BY <2>4 DEF JoinRoom, BeginMove
    <2> QED BY <1>1, <2>1, <2>2, <2>3, <2>4 DEF Input
<1>2. ASSUME NEW c \in Clients, Handler(c) PROVE ForgetInv'
    <2>1. CASE MoveLookup(c) \/ MoveAdd(c) \/ MoveLeave(c) \/ MoveUnlist(c)
        BY <2>1 DEF MoveLookup, MoveAdd, MoveLeave, MoveUnlist, Leave, registry
    <2>2. CASE MoveEnter(c)
        BY <2>2 DEF MoveEnter, registry
    <2>3. CASE MoveCheck(c) \/ StartAnnounce(c) \/ HandleReady(c) \/ HandleStart(c)
        BY <2>3
        DEF MoveCheck, StartAnnounce, HandleReady, HandleStart, ThrowsNull,
            Leave, registry
    <2>4. CASE \/ ChatSend(c) \/ PlaySwitch(c)
               \/ PlayState(c) \/ PlayTurn(c) \/ PlayOpponent(c)
        BY <2>4
        DEF ChatSend, PlaySwitch, PlayState, PlayTurn, PlayOpponent, PlayRefused,
            PlayLegal, PlayStep,
            ThrowsNull, Leave, registry
    <2>5. CASE CleanUp(c)
        BY <2>5 DEF CleanUp, BeginRemove, RoomIsGone, registry
    <2>6. CASE RemoveSession(c) \/ UnregisterNickName(c)
        BY <2>6 DEF RemoveSession, UnregisterNickName
    <2> QED BY <1>2, <2>1, <2>2, <2>3, <2>4, <2>5, <2>6 DEF Handler, BoardHandler, RoomHandler
<1>3. ASSUME NEW t \in Tasks, Removal(t) PROVE ForgetInv'
    <2>1. CASE RemoveLeave(t) \/ RemoveUnlist(t)
        BY <1>3, <2>1, ChatAssumption
        DEF RemoveLeave, RemoveUnlist, RemoveReturns, registry
    <2>2. CASE RemoveClear(t)
        BY <2>2, ChatAssumption DEF RemoveClear, RemoveReturns, Subject, registry
    <2> QED BY <1>3, <2>1, <2>2 DEF Removal
<1>4. ASSUME NEW e \in Evictors, NEW c \in Clients, Evict(e, c) PROVE ForgetInv'
    BY <1>4, ChatAssumption DEF Evict, BeginRemove, registry
<1>5. AllEnded \/ UNCHANGED vars => ForgetInv'
    BY DEF AllEnded, vars, registry
<1> QED
    BY <1>1, <1>2, <1>3, <1>4, <1>5 DEF Next, SessionStep, EvictorStep

\* A closed session is off the list and refers to no room, whatever the
\* evictions that were in progress did to it.
THEOREM ForgottenTheorem == Spec => []ClosedIsForgotten
<1>1. Init => ForgetInv
    BY DEF Init, ForgetInv, Gone, Dropping, Tasks
<1>2. TypeOK /\ ForgetInv /\ [Next]_vars => ForgetInv'
    BY ForgetInvariance
<1>3. ForgetInv => ClosedIsForgotten
    BY DEF ForgetInv, ClosedIsForgotten, Gone, Dropping
<1> QED BY <1>1, <1>2, <1>3, RoomsInvariant, PTL DEF Spec

-----------------------------------------------------------------------------
(* Nicknames.                                                               *)

\* No two sessions that are logged in and not closed answer to one key.
NicksUnique ==
    \A c, d \in Clients :
        Holds(c) /\ Holds(d) /\ Fold[NickName[c]] = Fold[NickName[d]] => c = d

RegistryInv ==
    /\ \A c \in Clients : IsLoggedIn[c] => NickName[c] \in Nicks
    /\ \A c \in Clients : ~IsLoggedIn[c] => NickName[c] = Unknown
    /\ \A c \in Clients : Holds(c) => Fold[NickName[c]] \in nickNames
    /\ NicksUnique

names == <<nickNames, NickName, IsLoggedIn>>

\* Only LOGIN and the end of a cleanup touch nicknames or close a session.
Nameless ==
    UNCHANGED names /\ \A c \in Clients : pc'[c] = "closed" <=> pc[c] = "closed"

LEMMA NameSteps ==
    ASSUME TypeOK, [Next]_vars
    PROVE  \/ Nameless
           \/ \E c \in Clients : \E n \in Asks[c] : Login(c, n)
           \/ \E c \in Clients : UnregisterNickName(c)
<1> USE DEF Nameless, names, Goto, TypeOK, ControlOK, Tasks
<1>1. ASSUME NEW c \in Clients, Input(c), ~\E n \in Asks[c] : Login(c, n)
      PROVE  Nameless
    BY <1>1
    DEF Input, Accept, Disconnect, Quit, JoinRoom, BeginMove, Ready, Start,
        Move, CallsRoom, Chat, Receives, Commanded, registry
<1>2. ASSUME NEW c \in Clients, Handler(c), ~UnregisterNickName(c)
      PROVE  Nameless
    <2>1. CASE MoveLookup(c) \/ MoveAdd(c) \/ MoveLeave(c) \/ MoveUnlist(c)
        BY <2>1 DEF MoveLookup, MoveAdd, MoveLeave, MoveUnlist, Leave, registry
    <2>2. CASE MoveEnter(c) \/ MoveCheck(c) \/ StartAnnounce(c)
        BY <2>2 DEF MoveEnter, MoveCheck, StartAnnounce, Leave, registry
    <2>3. CASE HandleReady(c) \/ HandleStart(c)
        BY <2>3 DEF HandleReady, HandleStart, ThrowsNull, Leave, registry
    <2>4. CASE \/ ChatSend(c) \/ PlaySwitch(c)
               \/ PlayState(c) \/ PlayTurn(c) \/ PlayOpponent(c)
        BY <2>4
        DEF ChatSend, PlaySwitch, PlayState, PlayTurn, PlayOpponent, PlayRefused,
            PlayLegal, PlayStep,
            ThrowsNull, Leave, registry
    <2>5. CASE CleanUp(c) \/ RemoveSession(c)
        BY <2>5 DEF CleanUp, BeginRemove, RemoveSession, registry
    <2> QED BY <1>2, <2>1, <2>2, <2>3, <2>4, <2>5 DEF Handler, BoardHandler, RoomHandler
<1>3. ASSUME NEW t \in Tasks, Removal(t) PROVE Nameless
    BY <1>3, ChatAssumption
    DEF Removal, RemoveLeave, RemoveUnlist, RemoveClear, RemoveReturns, registry
<1>4. ASSUME NEW e \in Evictors, NEW c \in Clients, Evict(e, c) PROVE Nameless
    BY <1>4, ChatAssumption DEF Evict, BeginRemove, registry
<1>5. AllEnded \/ UNCHANGED vars => Nameless
    BY DEF AllEnded, vars, registry
<1> QED
    BY <1>1, <1>2, <1>3, <1>4, <1>5 DEF Next, SessionStep, EvictorStep

LEMMA LoginRegisters ==
    ASSUME TypeOK, RegistryInv, NEW c \in Clients, NEW n \in Asks[c], Login(c, n)
    PROVE  RegistryInv' /\ Registry!Acquire(c, Fold[n]) /\ Fold[n] \in Keys
<1>1. n \in Nicks
    BY ChatAssumption
<1>2. /\ ~IsLoggedIn[c] /\ pc[c] # "closed"
      /\ IsLoggedIn' = [IsLoggedIn EXCEPT ![c] = TRUE]
      /\ NickName' = [NickName EXCEPT ![c] = n]
      /\ nickNames' = nickNames \cup {Fold[n]} /\ Fold[n] \notin nickNames
      /\ pc' = [pc EXCEPT ![c] = "moveLookup"]
    BY DEF Login, Receives, BeginMove, Goto
<1>3. /\ Holds(c)' /\ ~Holds(c) /\ NickName'[c] = n
      /\ \A d \in Clients \ {c} : (Holds(d)' <=> Holds(d)) /\ NickName'[d] = NickName[d]
    BY <1>2 DEF Holds, TypeOK, ControlOK, Tasks
<1>4. \A d \in Clients \ {c} : Holds(d) => Fold[NickName[d]] # Fold[n]
    BY <1>2 DEF RegistryInv
<1>5. NicksUnique'
    BY <1>3, <1>4 DEF RegistryInv, NicksUnique
<1>6. RegistryInv'
    BY <1>1, <1>2, <1>3, <1>5 DEF RegistryInv, TypeOK
<1>7. Owned' = Owned \cup {<<c, Fold[n]>>}
    BY <1>3 DEF Owned
<1>8. {d \in Clients : IsLoggedIn'[d]} = {d \in Clients : IsLoggedIn[d]} \cup {c}
    BY <1>2 DEF TypeOK
<1>9. \A d \in Clients : <<d, Fold[n]>> \notin Owned
    BY <1>3, <1>4 DEF Owned
<1>10. Registry!Acquire(c, Fold[n])
    BY <1>2, <1>7, <1>8, <1>9 DEF Registry!Acquire, Registry!Free
<1> QED BY <1>1, <1>6, <1>10 DEF Keys

LEMMA CloseReleases ==
    ASSUME TypeOK, RegistryInv, NEW c \in Clients, UnregisterNickName(c)
    PROVE  /\ RegistryInv'
           /\ \/ IsLoggedIn[c] /\ Registry!Release(c, Fold[NickName[c]])
                 /\ Fold[NickName[c]] \in Keys
              \/ UNCHANGED Registry!vars
<1>1. /\ pc[c] = "unregister" /\ UNCHANGED <<NickName, IsLoggedIn>>
      /\ pc' = [pc EXCEPT ![c] = "closed"]
      /\ nickNames' = IF NickName[c] = Unknown THEN nickNames
                       ELSE nickNames \ {Fold[NickName[c]]}
    BY DEF UnregisterNickName, Goto
<1>2. /\ ~Holds(c)' /\ (Holds(c) <=> IsLoggedIn[c])
      /\ \A d \in Clients \ {c} : Holds(d)' <=> Holds(d)
    BY <1>1 DEF Holds, TypeOK, ControlOK, Tasks
<1>3. \A d \in Clients : Holds(d)' => Fold[NickName[d]] \in nickNames'
    <2> SUFFICES ASSUME NEW d \in Clients, Holds(d)'
                 PROVE  Fold[NickName[d]] \in nickNames'
        OBVIOUS
    <2>1. d # c /\ Holds(d) /\ Fold[NickName[d]] \in nickNames
        BY <1>2 DEF RegistryInv
    <2>2. CASE IsLoggedIn[c]
        BY <1>1, <1>2, <2>1, <2>2 DEF RegistryInv, NicksUnique
    <2>3. CASE ~IsLoggedIn[c]
        BY <1>1, <2>1, <2>3 DEF RegistryInv
    <2> QED BY <2>2, <2>3
<1>4. RegistryInv'
    BY <1>1, <1>2, <1>3 DEF RegistryInv, NicksUnique
<1>5. CASE IsLoggedIn[c]
    <2>1. Owned' = Owned \ {<<c, Fold[NickName[c]]>>}
        BY <1>1, <1>2, <1>5 DEF Owned
    <2>2. <<c, Fold[NickName[c]]>> \in Owned
        BY <1>2, <1>5 DEF Owned
    <2>3. Fold[NickName[c]] \in Keys
        BY <1>5 DEF RegistryInv, Keys
    <2> QED BY <1>1, <1>4, <1>5, <2>1, <2>2, <2>3 DEF Registry!Release
<1>6. CASE ~IsLoggedIn[c]
    <2>1. Owned' = Owned
        BY <1>1, <1>2, <1>6 DEF Owned
    <2> QED BY <1>1, <1>4, <2>1 DEF Registry!vars
<1> QED BY <1>5, <1>6

LEMMA NamelessStutters ==
    ASSUME TypeOK, RegistryInv, Nameless
    PROVE  RegistryInv' /\ UNCHANGED Registry!vars
<1>1. \A c \in Clients : Holds(c)' <=> Holds(c)
    BY DEF Nameless, names, Holds
<1>2. RegistryInv'
    BY <1>1 DEF RegistryInv, NicksUnique, Nameless, names
<1>3. Owned' = Owned
    BY <1>1 DEF Owned, Nameless, names
<1> QED BY <1>2, <1>3 DEF Registry!vars, Nameless, names

\* LOGIN and the cleanup implement the registry: between its LOGIN_OK and its
\* last cleanup step a session is the only owner of its nickname.
THEOREM RegistryTheorem == Spec => RegistryContract
<1>1. Init => RegistryInv /\ Registry!Init
    <2> SUFFICES ASSUME Init PROVE RegistryInv /\ Registry!Init
        OBVIOUS
    <2>1. \A c \in Clients : ~IsLoggedIn[c] /\ ~Holds(c) /\ NickName[c] = Unknown
        BY DEF Init, Holds
    <2>2. Owned = {} /\ {c \in Clients : IsLoggedIn[c]} = {}
        BY <2>1 DEF Owned
    <2> QED BY <2>1, <2>2 DEF RegistryInv, NicksUnique, Registry!Init
<1>2. TypeOK /\ RegistryInv /\ [Next]_vars
      => RegistryInv' /\ [Registry!Next]_(Registry!vars)
    BY NameSteps, LoginRegisters, CloseReleases, NamelessStutters
    DEF Registry!Next
<1> QED
    BY <1>1, <1>2, RoomsInvariant, PTL
    DEF Spec, RegistryContract, Registry!Spec
-----------------------------------------------------------------------------
(* A key that is taken belongs to somebody.                                 *)

LEMMA LoginReturns ==
    ASSUME TypeOK, NicksReturned, NEW c \in Clients, NEW n \in Asks[c], Login(c, n)
    PROVE  NicksReturned'
<1>1. /\ ~IsLoggedIn[c] /\ pc'[c] # "closed"
      /\ IsLoggedIn' = [IsLoggedIn EXCEPT ![c] = TRUE]
      /\ NickName' = [NickName EXCEPT ![c] = n]
      /\ nickNames' = nickNames \cup {Fold[n]}
      /\ \A d \in Clients \ {c} : pc'[d] = pc[d]
    BY DEF Login, BeginMove, Goto, TypeOK, ControlOK, Tasks
<1>2. Holds(c)' /\ NickName'[c] = n
    BY <1>1 DEF Holds, TypeOK
<1>3. \A d \in Clients : Holds(d) => Holds(d)' /\ NickName'[d] = NickName[d]
    BY <1>1 DEF Holds, TypeOK
<1> QED BY <1>1, <1>2, <1>3 DEF NicksReturned

LEMMA CloseReturns ==
    ASSUME TypeOK, RegistryInv, NicksReturned, Unknown \notin Nicks,
           NEW c \in Clients, UnregisterNickName(c)
    PROVE  NicksReturned'
<1>1. /\ nickNames' = IF NickName[c] = Unknown THEN nickNames
                      ELSE nickNames \ {Fold[NickName[c]]}
      /\ UNCHANGED <<NickName, IsLoggedIn>>
      /\ \A d \in Clients \ {c} : pc'[d] = pc[d]
    BY DEF UnregisterNickName, Goto, TypeOK, ControlOK, Tasks
<1>2. \A d \in Clients \ {c} : Holds(d) => Holds(d)'
    BY <1>1 DEF Holds
<1>3. Holds(c) => NickName[c] # Unknown
    BY DEF Holds, RegistryInv
<1> SUFFICES ASSUME NEW k \in nickNames'
             PROVE  \E d \in Clients : Holds(d)' /\ Fold[NickName'[d]] = k
    BY DEF NicksReturned
<1>4. PICK d \in Clients : Holds(d) /\ Fold[NickName[d]] = k
    BY <1>1 DEF NicksReturned
<1>5. d # c
    BY <1>1, <1>3, <1>4
<1> QED BY <1>1, <1>2, <1>4, <1>5

\* Every taken key belongs to a session that is logged in and not closed: no
\* way through the cleanup forgets to give the nickname back, unless somebody
\* logged in as "Unknown" (ClientSession.cs:102-121, ServerManager.cs).
THEOREM NicksTheorem ==
    ASSUME Unknown \notin Nicks
    PROVE  Spec => []NicksReturned
<1>1. Init => RegistryInv /\ NicksReturned
    BY DEF Init, RegistryInv, NicksUnique, NicksReturned, Holds
<1>2. TypeOK /\ RegistryInv /\ NicksReturned /\ [Next]_vars
      => RegistryInv' /\ NicksReturned'
    <2>1. Nameless /\ NicksReturned => NicksReturned'
        BY DEF Nameless, names, NicksReturned, Holds
    <2> QED
        BY <2>1, NameSteps, LoginRegisters, CloseReleases, NamelessStutters,
           LoginReturns, CloseReturns
<1> QED BY <1>1, <1>2, RoomsInvariant, PTL DEF Spec

-----------------------------------------------------------------------------
(* Tasks that wait for their receivers.                                     *)

\* Waiting for writes only delays: the chat server whose tasks wait for their
\* receivers does what the chat server does.
THEOREM DeliveryRefines == DeliverySpec => Spec
<1>1. DeliveryInit => Init
    BY DEF DeliveryInit
<1>2. [DeliveryNext]_deliveryVars => [Next]_vars
    BY DEF DeliveryNext, Next, TakeReceivers, WriteTo, deliveryVars
<1> QED BY <1>1, <1>2, PTL DEF DeliverySpec, Spec

\* So nicknames come back there too, and LOGIN implements the registry.
THEOREM DeliveryKeepsNames ==
    ASSUME Unknown \notin Nicks
    PROVE  DeliverySpec => []NicksReturned /\ RegistryContract
BY DeliveryRefines, NicksTheorem, RegistryTheorem

=============================================================================
