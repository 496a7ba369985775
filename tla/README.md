# Practice-Server: a TLA+ project

The repository holds small network programs and the C++ exercises they grew out
of.  The one with a design of its own is the live chat server in
`livechat-server/step1~9`: rooms, nicknames, a two-player board game, a heartbeat
loop, and a console client.  This project models that server lock block by lock
block, the socket game server and the C++ echo servers with their clients call by
call, and those exercises that keep state: a bank in six versions, classes that own
memory, and a sort.  TLC checks the models, and TLAPS proves what matters most for
every size of them.  Paths below are relative to `src/`; `CS` stands for
`livechat-server/step1~9/chat_server`, `EX` for `c++/test_folder`.

## 1. Inventory

### Live chat server and client (`livechat-server/step1~9`)

| Part | State | Operations | Source |
|---|---|---|---|
| Game room | `_clients`, `State`, `IsPlayer2Ready`, `Player1`, `Player2`, `CurrentTurn`, one lock per room | `TryAddClient`, `RemoveClientAsync`, `SwitchTurn`, `HandleReadyAsync`, `HandleStartAsync`, `BroadcastAsync` | `CS/GameRoom.cs` |
| Room manager | `_rooms` (name -> object), its own lock | `GetOrCreateRoom`, `MoveClientToRoomAsync`, `RemoveClientAsync`, room list | `CS/RoomManager.cs` |
| Session | `CurrentRoom`, `NickName`, `IsLoggedIn`, `PosX/PosY`, `LastHeartbeatTime`; one task per connection | `ProcessAsync`, `HandleMessageAsync` (LOGIN, ROOM_LIST, JOIN_ROOM, CHAT, REQUEST_CHAT_HISTORY, READY, START, MOVE, QUIT), `CleanUpSessionAsync`, packet queue | `CS/ClientSession.cs` |
| Server manager | `_sessions`, `_loggedInNickNames`, one lock | add/remove session, register/unregister nickname, heartbeat loop (5 s), tick loop (100 ms), save message | `CS/ServerManager.cs`, `CS/Program.cs` |
| Message repository | the last messages, in memory or in PostgreSQL | save, recent | `CS/*ChatRepository.cs` |
| Console client | `_isPlaying`, both positions, opponent, chat log | `HandleServerPacket`, `RenderScreen`, command line | `Program.cs` |
| Load bots, `Packet.cs` | none | | `client/Program.cs`, `Packet.cs` |

Interaction: every connection has a task that reads a line, runs its handler to
the end and reads the next.  Handlers of different connections run at once on
the thread pool and meet in the room and manager locks, but a handler is many
lock blocks with awaits between them, and many reads (`CurrentRoom`, `State`,
`CurrentTurn`, the slots) take no lock at all.  The heartbeat loop starts
`RoomManager.RemoveClientAsync` for a silent session *without awaiting it*, so a
session's room may be taken from it in the middle of any handler.  The server
answers through one `StreamWriter` per session that every task writes to.

Hard behaviours: interleaved handlers; a name bound to a new room object while
a task still holds the old one; state tested before an await and used after it;
an exception between two writes; broadcasts that overtake each other; a
connection that ends in the middle of a game; peers that stay silent.

What makes it correct: a game room never exceeds two members and a running game
always has two seated players and a turn; a guest's READY is never inherited;
`CurrentRoom` and the member lists agree; a name on the list is the room of that
name and an unlisted room is empty; a nickname belongs to one session and comes
back when the session ends; cleanups finish; only the player on turn moves; both
screens show the server's board.

### Other programs

| Part | State and operations | Hard behaviours | Correct when |
|---|---|---|---|
| Socket game server, `SocketGameServer`, `GameClient` | session table under a lock; login, chat, move broadcast, heartbeat check every 10 s, stop | partial reads of the length header, sessions that never log in, login after stop, no client ever sends a heartbeat | packets are framed as sent; a live client is not timed out; a closed session leaves the table |
| Select server, `c++/nonblockselect-tcp/Server.cpp` | the vector of sockets, the set that select returned, the buffer; one thread: select, accept, receive, `SendAll`, erase | `recv` and `send` take any part; erasing inside the loop; an echo that blocks; errors of `recv`; the 64 sockets of a set | bytes come back complete and in order; the vector is exactly the open sockets; nobody starves |
| Threaded client, `c++/nonblockselect-tcp/Client.cpp` | `running`, the line being sent; a thread that sends and one that receives | the flag and the socket are shared; the socket is closed under a `recv` | both threads end |
| Single server and plain client, `c++/chatserver-tcp` | one connection; receive and send in turn on both sides | an answer in parts; both block in `send` | client and server get on |
| Bank, `EX/01_bank` to `EX/09-virtual` | the accounts; make, pay in, take out, show | numbers given twice, input that fails, the end of the array and of `int`, interest in `float`, five rewritings | every version keeps a ledger and all agree |
| Objects that own memory, `EX/04` to `EX/12-stringclass` | the free store, the objects in scope; constructors, copies, assignments, destructors | shallow copies, destruction through a base class, self-assignment, arrays that are full | every block has one owner and is given back |
| Sort with functors, `EX/11-operator2/SortFunctor.cpp` | the array; add, sort | bounds of two loops, the exchange | sorted by the functor, with the same numbers |
| Player web service, `GameServerDocker` | a list of players and `_nextId`; create, get, update | concurrent requests without a lock | numbers are unique |
| Earlier chat server, `livechat-server/Old version` | client list under a lock; name, move, chat | handlers that go on after an error | as the later one, without rooms as objects |
| Other exercises, `EX` | none that several calls share | | each prints its lines |

## 2. Modules

```
GameRoom            lock blocks of one room, as operators on a record
  ChatServer        sessions, rooms, nicknames, cleanup, evictions: the state machine
    ChatProperties  what should hold; INSTANCEs NickRegistry and RoomContract
      MCChatServer                       instances for TLC
      MCNicknames                        instance for TLC; EXTENDS Delivery too
    Delivery        the writes a task waits for before it goes on
    BoardGame       positions and the rule of MOVE, on top of ChatServer
      GameScreen    game packets on their way and the console client
        MCGameScreen                     instance for TLC
NickRegistry        abstract: a key has at most one owner
RoomContract        abstract: places, readiness and turns without objects or tasks
SocketServer        the socket game server, its sessions and its clients
  MCSocketServer                         instance for TLC

EchoContract        abstract: only what was said is heard, in order, none twice
EchoSockets         Winsock: two streams per connection, ends, resets
  EchoClients       the threaded and the plain client
  SelectServer      the select loop
  SingleServer      the server for one client
    EchoNetwork     either server with clients of both kinds; INSTANCEs EchoContract
      MCEchoNetwork                      instance for TLC

Ledger              abstract: accounts that are opened once and change by what is typed
Bank                state, input and common parts of the six bank programs
  BankVersions      makecount, inputmoney, outputmoney, info and main of each version
    BankSystem      all versions on the same input; INSTANCEs Ledger
OwnedObjects        classes that own memory, on a heap
SortedStorage       DataStorage and its bubble sort
  MCExercises       BankSystem, OwnedObjects or SortedStorage: instance for TLC

ChatServerProofs      TLAPS proofs: rooms, names, types, in every setting; Delivery
  MembershipProofs    who is where, seats, turns
    GameScreenProofs  pieces and screens
SocketServerProofs, EchoProofs, BankProofs, OwnedObjectsProofs
  ExercisesProofs     the sort, and MCExercises as a whole; EXTENDS the last two
```

**GameRoom.**  A room is a record with the fields of the class.  Each operator is
the whole body of one `lock (_lock)` block, with its early returns and with the
point where it throws: `WithClient`, `WithoutClient`, `TurnSwitched`,
`ReadyToggled`, `CanStart`/`Started`.  `RemovalThrows` is the null dereference of
`GameRoom.cs:99`; the record the operator returns then is the half-written one.

**ChatServer.**  `pc[t]` is the next lock block, or unlocked read, of task `t`; a
task is a session or one eviction in progress.  A handler becomes a chain of
actions: JOIN_ROOM is `JoinRoom`, `MoveLookup`, `MoveAdd`, `MoveLeave`,
`MoveUnlist`, `MoveEnter`, `MoveCheck`; the cleanup is `CleanUp`, `RemoveLeave`,
`RemoveUnlist`, `RemoveClear`, `RemoveSession`, `UnregisterNickName`; MOVE is
`Move`, `PlayState`, `PlayTurn`, `PlayOpponent`, `PlaySwitch`.  Rooms are objects
on a `heap`, names are bound to them in `rooms`, and a name may be bound anew
while tasks still hold the old object.  A null `CurrentRoom` met after its test
throws (`ThrowsNull`); a throw ends in the cleanup, and a throw inside the cleanup
leaves the session `"faulted"`, listed and with its nickname taken.

Simplifications, each with its reason:

* *Consecutive reads* that nothing separates but another unlocked read are one
  step (e.g. the tests of READY); reads separated by an await or a lock are not.
* `MoveCheck` may throw whenever the room it entered is playing: the slots are
  read without the lock after `State`.
* QUIT closes the socket and the next read fails; lines that were already
  buffered count as received before it.
* A LOGIN or command that is refused changes nothing and is no action.
* Messages, room lists and history are left out of ChatServer; packets that
  carry game state are in GameScreen.
* No time: any session may have been silent long enough when the heartbeat
  loop looks at it.
* An object that nothing refers to may be reused by the next allocation, which
  keeps the number of identities finite.  Two clients need `L` and three more
  (four when clients may rejoin their own room): with one object more TLC finds
  the same number of states.  In `sessions`, without evictions and with one game room,
  `L` and two are enough: one is free whenever a client makes a room.
* `Serial` makes handlers and evictions run one at a time; it is there for the
  runs that ask what holds, or fails, without any interleaving.
* `Rejoin` says whether clients may join the room they are in.  The code lets
  them, and it breaks membership (run `join_own_room`); the other runs forbid
  it so that they can look past it.  The theorems of ChatServerProofs, and those
  about turns and pieces, do not depend on it; those about membership, seats and
  screens assume it away (section 4).

**Delivery** adds the waiting.  `EnqueuePacketAsync` awaits a write to the receiver's
connection, without a time-out, and a broadcast awaits one receiver after the other;
when a client stops reading and its connection is full, every task that writes to it
waits, cleanups included.  `owed[t]` is the rooms task `t` has yet to broadcast to, in
order, `to[t]` the receivers of its own copy it has yet to write to.  A task takes its
next step in ChatServer when both are empty (`Tells`).  A broadcast is one for each
`BroadcastAsync` of the step before: GAME_STOPPED, the new host and "Leave" of a
removal (`Farewells`), what a join, START, READY, CHAT and MOVE announce.  Nothing is
said of contents, and receivers are written to in any order, because who waits depends on
neither.  What a handler writes to its own client is left out, except at the end of a
session: waiting there delays only the client's own next command.

**BoardGame** adds `pos` to the same steps: `StartBoard` is `HandleStart` plus
both `SetPosition` calls, `MovePiece` is a MOVE that passes the rules.  The size
of the board is a parameter (the code's is 5 x 5).

**GameScreen** adds what a step says (`Said`), the snapshot of a broadcast, one
`EnqueuePacketAsync` per receiver, one queue per client, and the client's
`HandleServerPacket`.  A task goes on only when its broadcast is done, but two
tasks' broadcasts interleave receiver by receiver.  The client's screen is `isPlaying`,
which decides whether the board is drawn (`Program.cs:304`), and both positions.
`BoardsAgree` speaks of the time when everything has arrived: a player of a running game
sees the board exactly as long as the game has not been won, and the pieces where the
server has them as long as they are apart (GAME_OVER does not tell the last position).
Two history variables belong to it.  `won` is the rooms whose running game has been won:
the server leaves them PLAYING, takes further moves, and the clients hide the board all
the same.  `misled` is who was last told of a game that is not theirs, by a packet of any
kind.  With three clients the broadcast of a game that a player has left can reach it
after the GAME_START of its next game: a late PLAYER_MOVE shows a piece where it is not,
a late GAME_STOPPED or GAME_OVER hides the board. `BoardsAgree` excepts such a player;
with two clients the property holds without the exception, also on a board of 3 x 2. A
player that has left the game is not covered: it keeps the old board (section 5).

**NickRegistry** and **RoomContract** are what LOGIN and JOIN_ROOM promise.  The
refinement mappings are in ChatProperties: an owner is a session that is logged
in and not closed; a session that was added to its new room and not yet taken
out of the old one still counts as being in the old one.  RoomContract knows no room
objects: `lobby` is who is in the Lobby, `host`, `guest`, `ready` and `turn` are what
a game room's name stands for.  A client is in the Lobby, in one seat, or nowhere, it
changes place in one step, and a guest inherits its host's seat.

**SocketServer** is the other server, `SocketGameServer` with `GameClient`.  `up`
and `down` are the packets on the two directions of a connection; `pc[c]` is where
`HandleClientAsync` of the connection is: receiving, or writing to the session
`to[c]` with `rest[c]` of its copy still to come.  `closed` is `Client.Close()` on
the server's side, `conn` the client's side, `age` counts periods of the heartbeat
check.  `Stop` is Ctrl+C, `Exit` the return of `Main`.  Simplifications:

* A connection and its acceptance are one step, and so are a packet's reception and
  its handler up to the first await: no other task sees the state in between.
* The finally block (`RemoveSession`, then `Close`) is one step, and so are the copy
  of the late sessions and their closes; a Heartbeat that is served between the two
  has the same effect as one that arrives too late, which may happen anyway.
* `NetworkStream` writes whole packets, in the order they were begun.  The model's
  packets are therefore whole; what the code does with a part of a header is the
  action `ReceivePartialHeader`.
* Clients log in first, as `GameClient` does.  They send all kinds of `PacketType`,
  although `GameClient` itself sends only Chat.
* What has not been read when an end of a connection closes is lost.

**EchoSockets** is Winsock as the echo programs use it: a byte is its number, so
that a byte lost, repeated or out of order shows; `up` and `down` are the two
directions of a connection and hold `UpLimit` and `DownLimit` bytes.  A write to a
closed end, or a close with something unread, resets the connection, and so may the
network at any time (`ConnectionLost`).

**SelectServer** takes one action per call that may block or see a change: `Select`,
`Accept`, `Receive`, one `send` of `SendAll`, and the branches of the loop (`Skip`,
`ReceiveEnd`, `ReceiveError`, `EndScan`).  `i` and `sockets` are the code's, so that
erasing in the middle of the loop does to the index what it does there: `ReceiveEnd`
stays at the place, `SendAllFails` steps over the client that moves into it.  The
zero that is written outside the buffer (`buffer[1024]`, `buffer[-1]`) is a choice
between nothing and the end of the process (`WriteOutside`).  Only the first
`SetSize - 1` sockets are watched.  **SingleServer** is the other server: one
connection, receive and send in turn, and the end.

**EchoClients** has the main thread of the threaded client (`GetLine`, `SendALL`,
`CloseThreaded`, `Join`), its `ReceiveLoop`, and the plain client (`GetPlainLine`,
`PlainSend`, `PlainReceive`).  Simplifications of the three modules:

* Which connection of the backlog is accepted first is left open.
* An empty line, or the end of the input, in the threaded client goes round the loop
  and changes nothing; the plain client sends nothing and waits (`GetPlainLine(c, 0)`,
  where `LineSizes` allows it; `echo` does not).
* `ReceiveLoop` tests `running` before `recv`; a last `recv` may come after the flag
  was cleared, so `ReceiveEcho` does not ask for it.
* Both servers bind port 9000, so a behaviour has one of them.

**Bank** and **BankVersions.**  A version is a function from its state and the
request that is typed next to its state; it reads the request in the order in which
the version reads its input.  A token is a number, a `Word`, which stores 0 and fails
the stream, or the `End` of the input, which only fails it.  With a failed stream
every later extraction leaves its variable alone: the menu repeats its last choice
(`RunOn`), with local variables that are `Unset`.  Using one of those, writing behind
the array, or leaving the `int` ends in the status `"undefined"`, of which nothing is
claimed.  That holds for a rank that could not be read; a rating is 0 then.  The interest
is `money * rate` in `float`: the sum, the rate and the product are rounded, so a large
sum is off by many units, up or down.  `slip` is how far off this product is, at most
`MaxSlip` parts in `Precision`; the code's five roundings stay below 6 parts in 2^24.
Names are left out, and ratings are not negative.

**BankSystem** types the same requests to all six versions.  **Ledger** is what each
of them should be: the mapping `View` is what a version's loops find under a number.

**OwnedObjects** declares objects of the classes, copies, assigns and reads them, and
destroys them in the reverse order, as automatic variables are.  `heap` says for each
block its size and the text in it; a pointer leads to a block, to `Null`, or is
`Dangling` once its block was deleted.  Where a class declares no copy constructor, or no
assignment, the compiler writes one that takes over the pointers (`ImplicitCopy`,
`ImplicitAssign`): two objects then share their blocks, the first destructor leaves the
other's pointers dangling, and the second deletes them again.  A double delete, a read
through a dangling pointer, a write outside an array, and a delete of a derived object
through a base class without a virtual destructor (`DropSecond`, `DropStudents`,
`DropStaffHandler`) end in the outcome `"undefined"`.  `DataStorage` never gives its array
back; it is only made on an empty heap, as in its main: how much a longer program would
lose is not followed.  Nor is the slice of an `EBook` that is copied to a `Book`.

**SortedStorage** runs the sort comparison by comparison; `arr` holds the filled part
of the array, `idx` its length, and `rule` the functor.

## 3. Runs

The runs of the chat server use a Lobby and one game room `R` (two in `serial`).  Clients and room
objects are symmetric where no liveness is checked, and a `VIEW` drops what no
step can read any more: the contents of unreferenced room objects and, in
`board`, pieces and screens outside a game.

| Run | Instance | Shows | States |
|---|---|---|---|
| `eviction` | 2 clients, 1 eviction at a time; join, ready, start | rooms stay sound, the Lobby stays listed, closed sessions are forgotten, READY is not inherited, whatever an eviction interrupts | 1.5 M |
| `crowd` | 3 clients, one two-seat room; join, ready, start | `CurrentRoom` and member lists agree with a third client at the door, no throwing cleanup, only a member's departure stops a game | 770 k |
| `serial` | 3 clients, 1 evictor, 2 game rooms, one handler at a time | the server implements RoomContract; listed = occupied; members hold the slots | 12 k |
| `sessions` | 2 clients, 3 nicknames (two equal but for case); join, chat, ready, start, quit; one client may stop reading; fair | NickRegistry is implemented, nicknames come back, a cleanup ends unless it waits for ever for the client that does not read | 118 k |
| `board` | 2 clients, a row of four cells, queues of one packet | the turn and the pieces move in turn, screens show the server's board while there is a game to show, only a late START throws | 849 k |
| `relay` | socket server, 3 clients, two of them send two packets and one | relayed packets arrive in order, once, and not at their sender; a failed receiver costs nobody else a packet | 1.8 M |
| `socket_life` | socket server, 2 clients, all kinds of packets, fair | every session leaves the table, blocked senders included | 88 k |
| `echo` | a threaded client that sends 1 byte, a plain one that sends 5, in one line or byte by byte, either server; 2 bytes fit up, 1 down, fair | every byte comes back in order; sockets listed = open; nobody starves; client and server get on unless both are full; both threads end; EchoContract is implemented | 194 k |
| `exercises` | one of: 6 bank versions, 4 requests, 2 numbers, 2 sums, array of 2; 2 objects on 6 blocks; an array of 4 out of 3 numbers | ledgers, agreement of the versions, who may share or lose a block and what undefined behaviour comes from, sorted arrays | 215 k |
| `orphan_room` | 2 clients | an occupied room is missing from the list | violation |
| `ghost_member` | 2 clients, 1 eviction | a closed session is still a member of a room | violation |
| `join_own_room` | 2 clients, one handler at a time | joining one's own room leaves it | violation |

Why the bounds are enough: a room has two seats, so two clients play and a third
is the one that is refused, replaces a leaver, or arrives while another leaves.
One game room is enough for a name to be bound to several objects in turn; the
second in `serial` is for moves between game rooms.  A row of four cells keeps
the corners three steps apart, so illegal, legal and winning moves all occur; the second
coordinate is treated like the first, and the theorems hold for any board.  A queue
of one packet lets packets to different clients overtake each other, which is
where orders differ; packets to one client are delivered in order by
construction.  Evictions are given to `eviction` and `serial`: most of what the other
runs check is false when evictions interleave (`ghost_member` is one way, section 4
names the others), and they show that it holds without.

In `relay` and `socket_life` the queues hold one packet, so a sender blocks as
soon as its receiver has not read the packet before; three clients give a broadcast
a receiver behind the one that fails.  `Passes` is 1 where the code's 30 s hold three
periods of 10 s: the properties do not depend on how often a session may be
checked before it is late, only on whether it is.

In `echo` the two clients are one of each kind.  Limits of two and one bytes make
every `send` come in parts and make both servers block; the buffer of two bytes is
filled by a line, which is where the zero goes outside.  A line of five bytes is more than
a connection takes in: one byte on the way down, one in the server's `send`, two on the
way up, and the last one leaves the plain client in its `send` too, where both stay for
ever (`BothSend`); byte by byte, and with shorter parts, they get on.  The threaded
client's one byte never comes in parts: that `SendALL` resumes where it stopped is shown
by the proof of `EchoIntact` for every length, not by the run.  A set of three sockets
holds both clients: what lies beyond the set is never served (section 5), so
`EveryByteReturns` speaks of watched clients.

In `exercises` two numbers make accounts with a number of their own and with the
same; an array of two is full after both; `IntMax` 90 is left by two payments of 53.
One plan bears no interest, one 8 % with 7 % for the rank, and in two a word or the end of
the input stands for a number.  A product is off by up to one part in 25, so that the
roundings show on small numbers: 15 % of 53 may come out below and above the exact 7.95,
that of -20 at -3 or at -2.  Two objects are what a copy or an assignment needs;
`FirstFit` lets `new` take the first free addresses, which costs no case, because nothing
compares addresses but for equality.

Fairness.  `FairDelivery` (`sessions`) assumes of each session's handler, and of each
removal, that a task that is ready runs, because the thread pool runs every ready
task; and that writes to a client that reads, or whose session is closed, are done after
a while (`GoesOn`, `Prompt`).  Of a write to a client that may have stopped reading
(`Unreading`) nothing is assumed, because `EnqueuePacketAsync` has no time-out: it may
stay undone for ever, and so may everything the task has to do behind it.
`CleanUpCompletes` therefore says that a cleanup ends unless it is held up for ever by such
a client.  Nothing is assumed of commands: clients may stay silent for ever.  It is
checked without evictions and without `Rejoin`, where no cleanup throws.
`FairSocketSpec` assumes the same of the handler tasks of the socket server, that its
check comes round (`Task.Delay` returns), and that `Main` returns after a stop; clients
may stop reading and never disconnect.  There the copy of the late sessions and their
closes are one step, so `EverySessionLeaves` says nothing of what happens between them.
`FairNetSpec` assumes that the server's thread and both threads of a client run.  Nothing
is assumed of users (a line may never be typed), of `select` failing or not, or of the
network.  What one thread of the select server cannot give is a premise of the property:
`EveryByteReturns` and `GoneIsErased` hold as long as it is not stuck for ever in the
`send` to a plain client that does not receive (`NeverStalls`).  `PlainGetsOn` has no such
premise: a plain client with an answer to come gets back to its user, or client and
server both wait in `send` with more unanswered than both directions hold.

`EchoContract` lets `Hear` skip bytes, so a byte that is lost for good shows in
`EchoIntact` and not in `EchoRefines`.  In `crowd` and `serial` the room's limit is met by
three clients; in `eviction` two cannot exceed it, and there the limit rests on the proof
of `RoomsInvariant`.  `serial` runs one handler at a time: what it shows holds, or fails,
without any interleaving, and nothing more is claimed of it.

Deadlock is checked everywhere; when every session of the instance has come and
gone, `AllEnded` stutters; so does `Over` when the socket server has exited, or when all
echo clients have ended, and `Finished` when the bank has had its requests.

The definitions marked "Mutant" change one definition the way a plausible bug
would (a dropped guard, a missing reset, a swapped slot); for each property one of
them makes TLC report a violation in the property's own run.

## 4. Proofs

The theorems hold for any sets of clients, evictions, room names, objects and
nicknames, for any numbers, limits and sizes.  They rest on the assumptions that the
modules name (`RoomAssumption`: the null reference is no client, the Lobby is no game
room, finitely many clients; `ChatAssumption`: types, and sessions and evictions are
distinct tasks; `BoardAssumption`, `WireAssumption`, `SocketAssumption`, ...), which
TLC evaluates in every run, and on the hypotheses given here.

### Live chat: every setting (ChatServerProofs)

* **TypesTheorem**, **RoomsInvariant** `Spec => []TypeOK`, `Spec => []RoomsSound`.
  `RoomsSound` is one `RoomSound` per object and is inductive together with `TypeOK`,
  because it speaks of single rooms only: a lock block takes a sound room to a sound
  room, operator by operator (the cardinality lemmas on the member list are there), and
  a step replaces at most one object by such a successor.  Every conjunct is needed:
  `ReadyIsGuests` and the two-member bound are what makes `Started` give
  `GameIsSeated`.
* **ReadinessTheorem** `Spec => ReadyNeverInherited`: part of `Successor`, the same
  case analysis.
* **LobbyTheorem** `Spec => []LobbyListed`.  Not inductive by itself: `LobbyInv` adds
  that no task is about to unlist a room called Lobby, which follows from `IsEmptied`
  being false for the Lobby and room names being constant as long as a task holds the
  object.
* **ForgottenTheorem** `Spec => []ClosedIsForgotten`, from `ForgetInv`: a session past
  the cleanup's last write of `CurrentRoom` never gets a room again, although
  evictions of it may still be running.
* **RegistryTheorem** `Spec => RegistryContract`, the refinement of NickRegistry, and
  **NicksTheorem** `Spec => []NicksReturned`, from `RegistryInv`: the key of every owner
  is in the set, and keys are unique.  `NicksReturned` needs that nobody may be called
  "Unknown" (`Unknown \notin Nicks`, so in `sessions`): a session that logs in under that
  name is not told from one that has no name, and never gives it back.

* **DeliveryRefines** `DeliverySpec => Spec`: tasks that wait for their receivers do what
  ChatServer's tasks do, later.  **DeliveryKeepsNames**: so `NicksReturned` and the
  refinement of NickRegistry hold there too, peers that stop reading included.

### Live chat: membership, seats and games (MembershipProofs, GameScreenProofs)

These assume `Unevicted`, that no eviction runs beside a handler (there is none, or
`Serial`), and most of them `Undisturbed`: besides, nobody joins the room it is in
(`~Rejoin`).  These are the constants of `crowd`, `sessions`, `board` and `serial`.
In `join_own_room` and `ghost_member` the code loses track of who is where, and "Only
model-checked" below says what fails without each hypothesis.  Handlers interleave in
every way.

* **MembershipTheorem** `[]MembershipAgrees`, **CleanUpTheorem** `[]CleanUpNeverThrows`,
  **DepartureTheorem** `GameStopsOnDeparture`.  A session is in its `CurrentRoom`
  between two commands, but in two rooms, or none, in the middle of them.
  `PlaceInv` says which, by what its task is about to do (`Stays`, `MembersRight`):
  in both rooms before `MoveLeave`, in the new one before `MoveEnter`, in none once
  a removal has taken it out (`TakenOut`).  It adds what the locals refer to (`Placed`,
  `RemovesRight`), that rooms are bound under their own names (`NamesRight`), and
  `Hosted`: a game room with a member has a host, one with two has a guest, so that
  `GameRoom.cs:99` never meets a null.  The steps of one task are shown to leave the
  conjuncts of another alone once, in general (`OthersPlaced`, `OthersMembers`), and
  then each task's own.
* **LateStartTheorem** `OnlyLateStartThrows`, **ScreenThrowsLateOnly** for the server with
  its broadcasts.  `SeatInv` is why a command finds what it asked for: the players of a
  running game are its members and settled in it (`SettledIn`), a READY is a settled
  guest's, a slot kept by a client that left is in a room that is off the list or about
  to be (`GoneFor`), and in the middle of a MOVE the turn is the player's, or the game was
  stopped and the player is its host (`MovesInTurn`).
* **TurnTheorem** `TurnPassedByHolder`, under `Unevicted` only.  MOVE asks three questions
  without the lock and acts on the answers.  With clients that join the room they are in,
  players of a game need not be its members, so `SeatInv` is of no use; `TurnInv` relies
  on the slots alone.  In the middle of a MOVE the player that has, or had, the turn has a
  slot (`Seated`), once asked it keeps the turn of a running game, and if the game was
  stopped and the player is the guest, the room is not ready, so that nobody can start
  another before the player's own next command (`TurnIsHeld`).  The proof needs only what
  each lock block does to one room (`BlockStep`), and that a slot is emptied, and READY
  taken back, by its own client.
* **PiecesTheorem** `PiecesMoveInTurn`, **ScreenPlaysInTurn** both properties of the server
  with its broadcasts, under `Unevicted` only.  `TurnInv` speaks of the player's
  `CurrentRoom`, the property of every room it is a member of: `StrayInv` says that a
  session that plays is in no other one.  `StaysIn` is the half of `Stays` above that
  survives joining one's own room: who is listed is where it should be, not the converse.
* **ScreenRefines**, **ScreenRefinesBoard**, **BoardRefines** `ScreenSpec => Spec`,
  `ScreenSpec => BoardSpec`, `BoardSpec => Spec`: boards, packets and clients only add to
  ChatServer, so everything above carries over (**ScreenRoomsSound**; these need no
  hypothesis).
* **ScreenTypes** `ScreenSpec => []ScreenTypeOK` (no hypothesis), from `TrafficOK`, the
  types of what is said, on the way and shown, and `RefersRight`, that a task that
  speaks to a room holds one.
* **BoardsTheorem** `ScreenSpec => []BoardsAgree`.  `SightInv` says of each running
  game, each of its players `x`, and of the board and each of the two pieces (`TheBoard`
  is a thing to see like them), that `x` will see it as it is (`WillSee`): a task is
  still to send `x` a packet about it (`Pending`), or the last such packet on the way is
  right (`LastSays`), or none is on the way and the screen is right (`AlreadyShows`), or,
  for a piece, the move has just won.  That a won game stays won until a player leaves
  is `WonSteps`; its GAME_OVER is the last word on the board.  That this lasts rests on
  who may be speaking: only the player on turn says something about the game, and it is
  true (`SpeaksRight`), the guest has finished speaking before it can be ready
  (`ReadySilent`), nobody moves before the host has announced the game
  (`AnnouncesRight`).  One lemma per kind of step: a task's, the snapshot of
  a broadcast, one enqueue, the client's.  TLC checked `SightInv` with two and with
  three clients before it was proved; the third showed where a player can be
  misled (section 5).

### Socket server (SocketServerProofs)

* **SocketTypes**, **RelayTheorem** `SocketSpec => []SocketTypeOK`, `[]RelayedInOrder`, for
  any number of clients and packets and any limits of the queues.  Order at the receiver
  rests on order all the way: `RelayInv` adds, for each client, that the packets it has
  under way to the server are numbered upwards up to `said` and are news to every
  receiver (`UpInOrder`), that the packet its task is relaying is news to the receivers
  the task has not written to, none of which is the sender (`SendsNews`), that the one it
  is writing to is off its list (`TakenOff`), and that no number is in use that the
  client has not given yet (`Given`).  One lemma per group of actions: clients,
  receptions, broadcasts, writes, failed writes, the server's own steps.
* **MissTheorem** `SocketSpec => []NoneMissed`.  `ReachInv` follows the sessions that are
  still to come: a session that has something of `c` before has what `c`'s task relays
  now, or its turn in the `foreach` comes (`Reaches`, `Pending`).  A session that logs in
  during a broadcast is not in the copy; that this misses nobody is `Unseen`: who is not
  logged in is in no copy and has received nothing.

### Echo servers (EchoProofs)

* **NetTypes**, **EchoStaysIntact**, **ListIsRight**, **SocketsAreServed**,
  **ServersEcho**: `NetSpec` implies `[]NetTypeOK`, `[]EchoIntact`, `[]ListedIffOpen`,
  `[]ReadyIsReadable` and `EchoRefines`, for any clients, limits, buffer and set size.
  The invariant `NetInv` says, for each client, that its stream is sound: what is on the
  way down, in the server's buffer and on the way up are consecutive numbers from `got`
  on, and they end with `sent` as long as the connection holds (`Sound`); that a server
  owns what it serves (`ServerOwns`): places in `sockets` are distinct and open, a buffer
  belongs to a client that is being served; that sockets found readable and not yet
  visited still are (`ReadyLasts`), because only the server itself takes bytes off a
  stream; and that one server is off (`OneServer`).  There is one lemma per action; the
  steps that only move bytes rest on a few lemmas about concatenation of consecutive
  numbers.  The refinement maps a `send` of a client to `Say`, a `recv` to `Hear`, and
  everything servers do to stutters: that `Hear` never hears more than was said is
  `Sound`.

### Exercises (BankProofs, OwnedObjectsProofs, ExercisesProofs)

* **VersionsKeepLedgers**, **SecondAccountIsLost** `BankSpec => LedgersKept` and
  `BankSpec => SecondNeverMoves`, for any numbers, sums, plans, and any size of the
  array and of `int`, and any size of the rounding. A handler does one of three things
  (`Effect`): nothing, one account more, or one first account changed by what was
  typed; this is shown handler by handler and version by version. The step from lists
  to ledgers rests on lemmas about the first account with a number: there is exactly
  one when there is any (the least index, from well-foundedness of the naturals), it
  stays when an account is appended, and a change at it changes the view at its number
  only.
* **RewritingsAgree** `BankSpec => []VersionsAgree`.  Versions 2 to 5 are one function
  (`SamePrograms`).  Version 1 and version 6 are followed beside version 2 by `AgreeInv`:
  the accounts of the first are the same and its screen shows a part of the lines, those
  of the sixth are `Kin`, the same numbers, and the same balances where no
  interest is borne.  Kinship is kept because kin find the same first account
  (`KinFinds`).
* **BlocksHaveOneOwner**, **UndefinedHasItsCause** `ObjectsSpec => OneOwner` and
  `ObjectsSpec => []OthersStayDefined`, for any blocks, any number of objects, any
  lengths and any size of `empList`, wherever `new` puts what it gives.  `OneOwner` is an
  action property: which step may give a block a second owner, lose one, or leave a pointer
  dangling.  It is proved step by step from `ObjectsInv`, which says of every object by
  itself that it is `Sound`: it has the members of its class, its pointers lead to blocks
  in use, or dangle, only a String has a null, no two of one object lead to the same block,
  and an array is as long as its `len`.  Two objects may share blocks, and `Sound` does
  not say they do not.  Heap and objects change in few ways: an object more, whose members
  are new blocks (`OneMore`) or somebody else's (`ImplicitCopyStep`), the last object less
  with its blocks (`DestroyStep`), one object with other members (`AssignStep`,
  `EmployStep`, `ImplicitAssignStep`).  What each does to owners follows from how members
  move (`Sharing`, `Losing`, `Dangles`): a member that stays where it was, or gets a new
  block, shares nothing it did not share before.  Then each class has to say which of
  these its operations are, and `BrokenStep` that each way to undefined behaviour has one
  of the causes (`HasCause`).
* **SortDataSorts**, **SortDataKeepsNumbers** `StorageSpec => []SortedByRule` and
  `StorageSpec => SortKeepsNumbers`, for any integers and any length.  The invariant of
  the loops is `StorageInv`: behind pass `i` the last `i` elements are in their places,
  and within a pass the element it carries along belongs behind all it has passed.
* **BankKeepsTypes**, **ObjectsKeepTypes**, **ExercisesKeepTypes** `BankSpec => []BankTypeOK`,
  `ObjectsSpec => []ObjectsTypeOK` and, of the program that is any of the exercises,
  `Spec => []TypesOK`.  For the bank this is more than types: no array has more accounts
  than `Capacity` and no balance leaves the int (`Bounded`).  It needs
  `AmountsAssumption`: a typed number that does not fit an int is no number to `cin`;
  sums that leave the int are undefined and not booked (`BoundedChanged`).
* **ExercisesKeepPromises**: what is proved of the programs one by one, of
  `MCExercises!Spec`; every step of it is a step of one of them and stutters in the
  others (`ProgramStep`).

### Only model-checked

* *Liveness*: `CleanUpCompletes`, `EverySessionLeaves`, `EveryByteReturns`,
  `GoneIsErased`, `ClientWindsUp`, `PlainGetsOn`.  Fairness and ENABLED are outside the
  prover.

* `ListedIffOccupied`, `MembersHoldSlots`, `RoomsFollowContract` (run `serial`).  They
  speak of one handler at a time, which the code does not ensure, so a theorem about
  every number of clients would still be about an instance that is not the server's.
  With interleavings the list is wrong (`orphan_room`).

The other invariants, action properties and refinements that the passing runs check have
their theorems.  The hypotheses of those theorems are where the properties stop being
true.  With clients that join the room they are in and no eviction, TLC finds
`MembershipAgrees`, `CleanUpNeverThrows`, `GameStopsOnDeparture` and
`OnlyLateStartThrows` violated with three clients, and with one handler at a time
`ListedIffOccupied` and `RoomsFollowContract`.  With an eviction beside the
handlers it finds `MembershipAgrees` and `OnlyLateStartThrows` violated with two
clients, `GameStopsOnDeparture` with three, `CleanUpNeverThrows` with three clients and
two evictions, and `TurnPassedByHolder` with three clients and one eviction (section 5).
Whether `BoardsAgree` needs `~Rejoin` is open.

## 5. What the runs found

* A room is emptied in one lock block and taken off the list in a later one; who
  enters in between is in a room nobody finds, and the name may get a second room
  (`RoomManager.cs:71`, `orphan_room`).
* `RemoveClientAsync` clears `CurrentRoom` after its awaits; an evicted session that
  has moved on stays a member of its new room after it is closed
  (`RoomManager.cs:118`, `ghost_member`).
* JOIN_ROOM of one's own room removes the client from it (`RoomManager.cs:65`,
  `join_own_room`).

* The broadcast of a MOVE reads the members of the room, not of the game: one that is
  still on its way can reach a player after the GAME_START of the next game, in
  which it then sees a piece where it is not, or no board (`GameRoom.cs:160`).  This
  needs a third client; the proof of `BoardsAgree` led to it (`misled`, section 2).
* A player may be evicted in the middle of its MOVE and the room be played in again
  before MOVE goes on; its `SwitchTurn` then passes the turn of a game it does not
  play (`ClientSession.cs:322`).  TLC finds this with three clients and one eviction
  when a search is led to it, 53 states deep; no run of section 3 is that large.

Seen while modelling, and left out of the properties where they are false by reading:

* A player that leaves a running game keeps its board on the screen in the Lobby: only
  GAME_STOPPED and GAME_OVER reset the client (client `Program.cs:199`).  GAME_OVER
  does not end the game in the room (`ClientSession.cs:315`).
* A cleanup, like any broadcast, waits without a time-out for a client that is connected
  and does not read (`GameRoom.cs:160`, `ClientSession.cs:391`): the session that ended
  stays on the list, and its nickname taken, for as long.
* The select server never erases a socket whose `recv` fails, so its loop spins from
  then on (`nonblockselect-tcp/Server.cpp:120`); it serves at most 63 clients (`:81`);
  the terminating zero is written outside the buffer (`:131`).
* The threaded client ends after the server only when its user types something
  (`nonblockselect-tcp/Client.cpp:180`).  The plain client waits for ever after an empty
  line, and shows an answer that comes in parts as answers to later lines
  (`chatserver-tcp/Client.cpp:59`); with a line longer than the connection
  takes in, it and its server wait for each other in `send` (`:52`).
* The bank accepts a number twice, and the money of the second account is lost; it does
  not test its array, its sums or its input.
* A `String` assigned to itself or from an empty one, and `+=`, are undefined
  (`StringClass.cpp:39-52`); the workers' arrays are not tested
  (`07-inheritance/EmployeeManager.cpp:40`).  Three exercises delete an object through a
  base class without a virtual destructor, which is undefined (`VirtualDestructor.cpp:40`,
  `ObjectPointer.cpp:39`, where moreover two of three are not deleted,
  `08-polymorphism/EmployeeManager.cpp:120`).  Seven classes that delete what
  they own leave copying to the compiler, and `NameCard` and `Person` their assignment: a
  program that did either would delete twice.
* `PlayerDataService.CreatePlayer` gives every player the same number; nothing uses it.

## 6. Not modelled

* *Tick loop, PING and PONG.*  What they do to the state is when packets arrive and when
  evictions come, and both may come at any time in the models.  How late they are needs
  real time.  Unsynchronised writes to one StreamWriter have no defined outcome.
* *Message repositories.*  Two operations, each one atomic block on a list or a table that
  nothing else depends on.
* *Packets of the socket server byte by byte.*  `ReceivePartialHeader` is what the code
  does with a header in parts.
* *Packet.cs* (unused; it does not compile), *the load bots* (no state), *the earlier chat
  server* (superseded by the one that is modelled).
* *Player web service.*  Overlapping requests on a `List` without a lock have no defined
  outcome, and requests one after the other keep it trivially.
* *The bank in several files* (`EX/09-virtual/bank`, all but `main.v6.cpp`) is unfinished and
  does not compile.
* *The other exercises* show one language feature each, on constants, and print the same
  lines in every run.
* *Console client of the chat server*: the command line and the chat log only show what
  arrives.
