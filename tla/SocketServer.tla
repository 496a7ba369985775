----------------------------- MODULE SocketServer -----------------------------
(***************************************************************************)
(* The socket game server (SocketGameServer) and its console client        *)
(* (GameClient): packets go to the server one connection at a time and are *)
(* relayed to every other player that is logged in.                        *)
(*                                                                         *)
(* One task per connection receives a packet, serves it and receives the   *)
(* next; it is blocked while the receiver of a relayed packet reads        *)
(* nothing.  A loop closes, every 10 s, the sessions whose last Heartbeat  *)
(* is more than 30 s old.  Packets are whole: a read that returns part of  *)
(* a header or a connection that ends inside a packet ends the session.    *)
(***************************************************************************)
EXTENDS Integers, Sequences

CONSTANTS
    Clients,
    Nobody,      \* no receiver: the task relays nothing
    Kinds,       \* what clients send after their Login
    Passes,      \* periods of the check in the time-out (30 s / 10 s)
    MaxSaid,     \* bound: packets to relay, of each client
    MaxQuiet,    \* bound: other packets, of each client
    UpLimit,     \* packets that wait to be received by the server
    SendLimit    \* packets to a client that do not block the sender

Relayed == {"Chat", "Move"}
Quiet == {"Heartbeat", "Logout"}

ASSUME SocketAssumption ==
    /\ Nobody \notin Clients
    /\ Kinds \subseteq Relayed \cup Quiet
    /\ Passes \in Nat /\ UpLimit \in Nat /\ SendLimit \in Nat
    /\ MaxSaid \in [Clients -> Nat] /\ MaxQuiet \in [Clients -> Nat]

VARIABLES
    running,    \* "up", "stopped", or "exited": the server process
    conn,       \* "away", "open" or "shut": the client's end of the connection
    closed,     \* Client.Close() was called: the server's end
    up,         \* packets on their way to the server
    down,       \* packets on their way to each client, with their sender
    said,       \* packets to relay that a client has sent: numbers them
    kept,       \* other packets it has sent
    pc,         \* where the connection's task is
    current,    \* the number of the packet it served last
    to,         \* the session it is writing to
    rest,       \* the sessions of its copy that are still to come
    sessions,   \* _sessions
    age,        \* passes of the check since LastHeartbeat
    shown       \* per client: the last packet it received from every other

clientVars == <<conn, said, kept, shown>>
taskVars == <<pc, current, to, rest>>
wireVars == <<up, down>>
tableVars == <<sessions, age>>
vars == <<running, clientVars, closed, wireVars, taskVars, tableVars>>

Packet == [type : {"Login"} \cup Kinds, n : Nat]
Delivery == [from : Clients, n : Nat]

SocketInit ==
    /\ running = "up"
    /\ conn = [c \in Clients |-> "away"]
    /\ closed = [c \in Clients |-> FALSE]
    /\ up = [c \in Clients |-> << >>]
    /\ down = [c \in Clients |-> << >>]
    /\ said = [c \in Clients |-> 0]
    /\ kept = [c \in Clients |-> 0]
    /\ pc = [c \in Clients |-> "none"]
    /\ current = [c \in Clients |-> 0]
    /\ to = [c \in Clients |-> Nobody]
    /\ rest = [c \in Clients |-> {}]
    /\ sessions = {}
    /\ age = [c \in Clients |-> 0]
    /\ shown = [d \in Clients |-> [c \in Clients |-> 0]]

-----------------------------------------------------------------------------
(***************************************************************************)
(* The client: ConnectAsync sends the Login, the command line the rest,    *)
(* and ReceiveLoop reads whole packets when it pleases.  A connection is   *)
(* there once the server has accepted it.                                  *)
(***************************************************************************)
ConnectAsync(c) ==
    /\ running = "up" /\ conn[c] = "away"
    /\ conn' = [conn EXCEPT ![c] = "open"]
    /\ up' = [up EXCEPT ![c] = <<[type |-> "Login", n |-> 0]>>]
    /\ pc' = [pc EXCEPT ![c] = "receive"]
    /\ UNCHANGED <<running, closed, down, said, kept, shown, current, to, rest, tableVars>>

\* What is written after the server closed its end is lost.
CanSend(c, type) ==
    type \in Kinds /\ conn[c] = "open" /\ ~closed[c] /\ Len(up[c]) < UpLimit

SendRelayed(c, type) ==
    /\ CanSend(c, type) /\ type \in Relayed /\ said[c] < MaxSaid[c]
    /\ said' = [said EXCEPT ![c] = @ + 1]
    /\ up' = [up EXCEPT ![c] = Append(@, [type |-> type, n |-> said[c] + 1])]
    /\ UNCHANGED <<running, conn, closed, down, kept, shown, taskVars, tableVars>>

SendQuiet(c, type) ==
    /\ CanSend(c, type) /\ type \in Quiet /\ kept[c] < MaxQuiet[c]
    /\ kept' = [kept EXCEPT ![c] = @ + 1]
    /\ up' = [up EXCEPT ![c] = Append(@, [type |-> type, n |-> 0])]
    /\ UNCHANGED <<running, conn, closed, down, said, shown, taskVars, tableVars>>

ReceiveLoop(d) ==
    /\ conn[d] = "open" /\ down[d] # << >>
    /\ shown' = [shown EXCEPT ![d][Head(down[d]).from] = Head(down[d]).n]
    /\ down' = [down EXCEPT ![d] = Tail(@)]
    /\ UNCHANGED <<running, conn, closed, up, said, kept, taskVars, tableVars>>

\* What the client has not read is gone.
Disconnect(c) ==
    /\ conn[c] = "open"
    /\ conn' = [conn EXCEPT ![c] = "shut"]
    /\ down' = [down EXCEPT ![c] = << >>]
    /\ UNCHANGED <<running, closed, up, said, kept, shown, taskVars, tableVars>>

-----------------------------------------------------------------------------
(***************************************************************************)
(* The task of a connection.  Receiving a packet and serving it up to the  *)
(* first await touch nothing else another task could see in between.       *)
(***************************************************************************)
Receives(c, types) ==
    /\ pc[c] = "receive" /\ ~closed[c]
    /\ up[c] # << >> /\ Head(up[c]).type \in types
    /\ up' = [up EXCEPT ![c] = Tail(@)]

HandleLogin(c) ==
    /\ Receives(c, {"Login"})
    /\ sessions' = sessions \cup {c}
    /\ UNCHANGED <<running, clientVars, closed, down, taskVars, age>>

HandleHeartbeat(c) ==
    /\ Receives(c, {"Heartbeat"})
    /\ age' = [age EXCEPT ![c] = 0]
    /\ UNCHANGED <<running, clientVars, closed, down, taskVars, sessions>>

\* Logout is only written to the console: the session stays.
HandleLogout(c) ==
    /\ Receives(c, {"Logout"})
    /\ UNCHANGED <<running, clientVars, closed, down, taskVars, tableVars>>

\* Mutant: after the last session the loop does not end.
GoOnForEver(c, left) ==
    \/ /\ left = {}
       /\ to' = [to EXCEPT ![c] = Nobody]
       /\ UNCHANGED <<pc, rest>>
    \/ \E d \in left :
         /\ pc' = [pc EXCEPT ![c] = "send"]
         /\ to' = [to EXCEPT ![c] = d]
         /\ rest' = [rest EXCEPT ![c] = left \ {d}]

\* The foreach over the copy: on to one of the sessions that are left, in the
\* order of the dictionary, or back to the next packet.
GoOn(c, left) ==
    \/ /\ left = {}
       /\ pc' = [pc EXCEPT ![c] = "receive"]
       /\ to' = [to EXCEPT ![c] = Nobody]
       /\ rest' = [rest EXCEPT ![c] = {}]
    \/ \E d \in left :
         /\ pc' = [pc EXCEPT ![c] = "send"]
         /\ to' = [to EXCEPT ![c] = d]
         /\ rest' = [rest EXCEPT ![c] = left \ {d}]

\* Mutant: the sender is not excluded.
AudienceOfAll(c) == sessions

\* Chat and Move are relayed alike, to everyone but their sender.
Audience(c) == sessions \ {c}

BroadcastAsync(c) ==
    /\ Receives(c, Relayed)
    /\ current' = [current EXCEPT ![c] = Head(up[c]).n]
    /\ GoOn(c, Audience(c))
    /\ UNCHANGED <<running, clientVars, closed, down, tableVars>>

\* Mutant: closing a session does not end what is being written to it.
CanWriteToClosed(d) == conn[d] = "open"

\* One write: it waits for a peer that does not read, and throws, or is lost,
\* when an end of the connection was closed.  The exception is caught.
CanWrite(d) == ~closed[d] /\ conn[d] = "open"

SendPacketAsync(c) ==
    /\ pc[c] = "send" /\ CanWrite(to[c]) /\ Len(down[to[c]]) < SendLimit
    /\ down' = [down EXCEPT ![to[c]] = Append(@, [from |-> c, n |-> current[c]])]
    /\ GoOn(c, rest[c])
    /\ UNCHANGED <<running, clientVars, closed, up, current, tableVars>>

\* Mutant: the exception ends the foreach.
SendThrowsOut(c) ==
    /\ pc[c] = "send" /\ ~CanWrite(to[c])
    /\ GoOn(c, {})
    /\ UNCHANGED <<running, clientVars, closed, wireVars, current, tableVars>>

SendThrows(c) ==
    /\ pc[c] = "send" /\ ~CanWrite(to[c])
    /\ GoOn(c, rest[c])
    /\ UNCHANGED <<running, clientVars, closed, wireVars, current, tableVars>>

\* The finally block.  Whatever is under way to the server is lost, and nobody
\* looks at the age of a session that is not listed.
RemoveSession(c) ==
    /\ pc' = [pc EXCEPT ![c] = "ended"]
    /\ sessions' = sessions \ {c}
    /\ closed' = [closed EXCEPT ![c] = TRUE]
    /\ up' = [up EXCEPT ![c] = << >>]
    /\ age' = [age EXCEPT ![c] = 0]
    /\ current' = [current EXCEPT ![c] = 0]
    /\ UNCHANGED <<running, clientVars, down, to, rest>>

\* ReceivePacketAsync returns null: the client is gone, with or without the
\* packets it had sent, or Close() ended the read.
ReceiveEnds(c) ==
    /\ pc[c] = "receive" /\ (closed[c] \/ conn[c] = "shut")
    /\ RemoveSession(c)

\* The four bytes of the length are read once.  When fewer arrive, the rest of
\* the header is taken for the beginning of the data, which is then no JSON.
ReceivePartialHeader(c) ==
    /\ pc[c] = "receive" /\ ~closed[c] /\ up[c] # << >>
    /\ RemoveSession(c)

-----------------------------------------------------------------------------
(***************************************************************************)
(* The check of the heartbeats, and the end of the server.                 *)
(***************************************************************************)
Served(c) == pc[c] \in {"receive", "send"} /\ ~closed[c]

\* After Passes periods the 30 s are over or not, by milliseconds; after one
\* more they are.
Aged == [c \in Clients |->
           IF Served(c) /\ age[c] <= Passes THEN age[c] + 1 ELSE age[c]]

\* The copy is taken under the lock and closed after it.  A Heartbeat that is
\* served in between comes too late, as one that is never served does.
HeartbeatCheck ==
    /\ running = "up"
    /\ age' = Aged
    /\ \E late \in SUBSET {c \in sessions : Aged[c] = Passes} :
         closed' = [c \in Clients |->
                      \/ closed[c]
                      \/ c \in late
                      \/ c \in sessions /\ Aged[c] > Passes]
    /\ UNCHANGED <<running, clientVars, wireVars, taskVars, sessions>>

Stop ==
    /\ running = "up"
    /\ running' = "stopped"
    /\ closed' = [c \in Clients |-> closed[c] \/ c \in sessions]
    /\ sessions' = {}
    /\ UNCHANGED <<clientVars, wireVars, taskVars, age>>

\* The accept loop ends, Main returns, and with the process all its tasks and
\* connections.
Exit ==
    /\ running = "stopped"
    /\ running' = "exited"
    /\ conn' = [c \in Clients |-> "shut"]
    /\ closed' = [c \in Clients |-> TRUE]
    /\ pc' = [c \in Clients |-> "ended"]
    /\ current' = [c \in Clients |-> 0]
    /\ to' = [c \in Clients |-> Nobody]
    /\ rest' = [c \in Clients |-> {}]
    /\ up' = [c \in Clients |-> << >>]
    /\ down' = [c \in Clients |-> << >>]
    /\ sessions' = {}
    /\ age' = [c \in Clients |-> 0]
    /\ UNCHANGED <<said, kept, shown>>

-----------------------------------------------------------------------------
ClientStep(c) ==
    \/ ConnectAsync(c)
    \/ \E type \in Kinds : SendRelayed(c, type) \/ SendQuiet(c, type)
    \/ ReceiveLoop(c)
    \/ Disconnect(c)

HandleClientAsync(c) ==
    \/ HandleLogin(c) \/ HandleHeartbeat(c) \/ HandleLogout(c) \/ BroadcastAsync(c)
    \/ SendPacketAsync(c) \/ SendThrows(c)
    \/ ReceiveEnds(c) \/ ReceivePartialHeader(c)

Over == running = "exited" /\ UNCHANGED vars

SocketNext ==
    \/ \E c \in Clients :
         ClientStep(c) \/ HandleClientAsync(c)
    \/ HeartbeatCheck \/ Stop \/ Exit
    \/ Over

SocketSpec == SocketInit /\ [][SocketNext]_vars

\* The thread pool runs every task that can go on, and the check comes round.
\* Nothing is assumed of the clients: they may stop reading for ever.
SocketFair ==
    /\ \A c \in Clients : WF_vars(HandleClientAsync(c))
    /\ WF_vars(HeartbeatCheck)
    /\ WF_vars(Exit)

FairSocketSpec == SocketSpec /\ SocketFair

-----------------------------------------------------------------------------
\* The packets of c in a queue are newer than the last one that was read from
\* it, oldest first.
InOrder(q, last, c) ==
    \A i \in DOMAIN q :
      q[i].from = c =>
        /\ last[c] < q[i].n
        /\ \A j \in 1..(i - 1) : q[j].from = c => q[j].n < q[i].n

Numbers(s, c) == {s[i].n : i \in {j \in DOMAIN s : s[j].from = c}}

(***************************************************************************)
(* Types of the variables of the server and the clients (GameServer.cs,    *)
(* ClientSession.cs): sessions in the copies and the table are clients.    *)
(***************************************************************************)
SocketTypeOK ==
    /\ running \in {"up", "stopped", "exited"}
    /\ conn \in [Clients -> {"away", "open", "shut"}]
    /\ closed \in [Clients -> BOOLEAN]
    /\ up \in [Clients -> Seq(Packet)]
    /\ down \in [Clients -> Seq(Delivery)]
    /\ said \in [Clients -> Nat] /\ kept \in [Clients -> Nat]
    /\ pc \in [Clients -> {"none", "receive", "send", "ended"}]
    /\ current \in [Clients -> Nat]
    /\ to \in [Clients -> Clients \cup {Nobody}]
    /\ \A c \in Clients : pc[c] = "send" => to[c] # Nobody
    /\ rest \in [Clients -> SUBSET Clients]
    /\ sessions \subseteq Clients
    /\ age \in [Clients -> Nat]
    /\ shown \in [Clients -> [Clients -> Nat]]

(***************************************************************************)
(* A player receives what another one sent in the order it was sent, each  *)
(* packet at most once, and nothing of its own: what is still on the way   *)
(* to it is newer than what it has received, oldest first                  *)
(* (GameServer.cs:133-143, the foreach over the copy).                     *)
(***************************************************************************)
RelayedInOrder ==
    \A d \in Clients :
      /\ \A i \in DOMAIN down[d] : down[d][i].from # d
      /\ \A c \in Clients : InOrder(down[d], shown[d], c)
      /\ shown[d][d] = 0

(***************************************************************************)
(* A receiver that fails costs nobody else a packet: once a player has     *)
(* received something of another one, and both are still connected, the    *)
(* last packet that was served has reached it too (the catch inside the    *)
(* foreach, GameServer.cs:135-142).                                        *)
(***************************************************************************)
NoneMissed ==
    \A c, d \in Clients :
      LET received == {shown[d][c]} \cup Numbers(down[d], c)
      IN  (pc[c] = "receive" /\ c # d /\ d \in sessions /\ CanWrite(d)
             /\ received # {0})
            => current[c] \in received

(***************************************************************************)
(* Every session leaves the table, even if its task is blocked by a peer   *)
(* that reads nothing: the peer is silent and its time-out frees the       *)
(* sender.  Clients send finitely many Heartbeats here; GameClient sends   *)
(* none (GameServer.cs:157-177).                                           *)
(***************************************************************************)
EverySessionLeaves == \A c \in Clients : c \in sessions ~> c \notin sessions

=============================================================================
