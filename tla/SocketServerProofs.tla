-------------------------- MODULE SocketServerProofs --------------------------
(***************************************************************************)
(* The socket game server relays in order, for any number of clients,      *)
(* packets and any sizes of the buffers.  The packets of one client are    *)
(* numbered; the invariant follows a number from the client that gives it  *)
(* through its queue and its task to the queue of each receiver.           *)
(***************************************************************************)
EXTENDS SocketServer, TLAPS

\* A packet with number n is newer than all of c in q and than the last one
\* of c that was read from q.
Newer(q, last, c, n) ==
    last < n /\ \A j \in DOMAIN q : q[j].from = c => q[j].n < n

\* Newer for every receiver.
News(c, n) == \A d \in Clients : Newer(down[d], shown[d][c], c, n)

RelayedIn(q) == {i \in DOMAIN q : q[i].type \in Relayed}

\* What waits for the server is news everywhere, oldest first, after the
\* packet that its task is relaying.
UpInOrder(c) ==
    \A i \in RelayedIn(up[c]) :
      /\ News(c, up[c][i].n)
      /\ current[c] < up[c][i].n
      /\ up[c][i].n <= said[c]
      /\ \A j \in RelayedIn(up[c]) : j < i => up[c][j].n < up[c][i].n

\* What a task relays is news to the sessions it has not written to, and those
\* are not its own.
SendsNews(c) ==
    pc[c] = "send" =>
      \A d \in rest[c] \cup {to[c]} :
        d # c /\ Newer(down[d], shown[d][c], c, current[c])

\* No number is in use that the client has not given yet.
Given(c) == current[c] <= said[c] /\ News(c, said[c] + 1)

\* A receiver is taken from the list when the task turns to it.
TakenOff(c) == pc[c] = "send" => to[c] \notin rest[c]

Orderly(c) == UpInOrder(c) /\ SendsNews(c) /\ Given(c) /\ TakenOff(c)

RelayInv ==
    /\ SocketTypeOK
    /\ RelayedInOrder
    /\ \A c \in Clients : Orderly(c)

-----------------------------------------------------------------------------
(***************************************************************************)
(* What happens to a queue, and what remains news to its receiver.         *)
(***************************************************************************)
LEMMA NewerAfterTail ==
    ASSUME NEW q \in Seq(Delivery), q # << >>, NEW last \in [Clients -> Nat],
           NEW c \in Clients, NEW n \in Nat, Newer(q, last[c], c, n)
    PROVE  Newer(Tail(q), [last EXCEPT ![Head(q).from] = Head(q).n][c], c, n)
<1>1. /\ Head(q) = q[1] /\ q[1] \in Delivery /\ 1 \in DOMAIN q
      /\ \A j \in DOMAIN Tail(q) : j + 1 \in DOMAIN q /\ Tail(q)[j] = q[j + 1]
    OBVIOUS
<1> QED BY <1>1 DEF Newer, Delivery

LEMMA OrderAfterTail ==
    ASSUME NEW q \in Seq(Delivery), q # << >>, NEW last \in [Clients -> Nat],
           NEW c \in Clients, InOrder(q, last, c)
    PROVE  InOrder(Tail(q), [last EXCEPT ![Head(q).from] = Head(q).n], c)
<1>1. /\ Head(q) = q[1] /\ q[1] \in Delivery /\ 1 \in DOMAIN q
      /\ DOMAIN Tail(q) = 1..(Len(q) - 1) /\ DOMAIN q = 1..Len(q) /\ Len(q) \in Nat
      /\ \A j \in DOMAIN Tail(q) : Tail(q)[j] = q[j + 1]
    OBVIOUS
<1>2. SUFFICES ASSUME NEW i \in DOMAIN Tail(q), Tail(q)[i].from = c
               PROVE  /\ [last EXCEPT ![Head(q).from] = Head(q).n][c] < Tail(q)[i].n
                      /\ \A j \in 1..(i - 1) :
                           Tail(q)[j].from = c => Tail(q)[j].n < Tail(q)[i].n
    BY DEF InOrder
<1>3. i + 1 \in DOMAIN q /\ q[i + 1].from = c /\ Tail(q)[i] = q[i + 1]
    BY <1>1, <1>2
<1>4. /\ last[c] < q[i + 1].n
      /\ \A k \in 1..i : q[k].from = c => q[k].n < q[i + 1].n
    BY <1>1, <1>3 DEF InOrder
<1>5. [last EXCEPT ![Head(q).from] = Head(q).n][c] < q[i + 1].n
    BY <1>1, <1>4 DEF Delivery
<1>6. ASSUME NEW j \in 1..(i - 1), Tail(q)[j].from = c
      PROVE  Tail(q)[j].n < q[i + 1].n
    <2>1. j + 1 \in 1..i /\ Tail(q)[j] = q[j + 1]
        BY <1>1
    <2> QED BY <2>1, <1>4, <1>6
<1> QED BY <1>3, <1>5, <1>6

LEMMA NewerAfterAppend ==
    ASSUME NEW q \in Seq(Delivery), NEW e \in Delivery, NEW last \in Nat,
           NEW c \in Clients, NEW n \in Nat, Newer(q, last, c, n),
           e.from = c => e.n < n
    PROVE  Newer(Append(q, e), last, c, n)
<1>1. \A j \in DOMAIN Append(q, e) :
        \/ j \in DOMAIN q /\ Append(q, e)[j] = q[j]
        \/ Append(q, e)[j] = e
    OBVIOUS
<1> QED BY <1>1 DEF Newer

LEMMA OrderAfterAppend ==
    ASSUME NEW q \in Seq(Delivery), NEW e \in Delivery, NEW last \in [Clients -> Nat],
           NEW c \in Clients, InOrder(q, last, c),
           e.from = c => Newer(q, last[c], c, e.n)
    PROVE  InOrder(Append(q, e), last, c)
<1>1. /\ DOMAIN Append(q, e) = 1..(Len(q) + 1) /\ DOMAIN q = 1..Len(q) /\ Len(q) \in Nat
      /\ \A j \in DOMAIN q : Append(q, e)[j] = q[j]
      /\ Append(q, e)[Len(q) + 1] = e
    OBVIOUS
<1>2. ASSUME NEW i \in DOMAIN q, q[i].from = c
      PROVE  /\ last[c] < q[i].n
             /\ \A j \in 1..(i - 1) :
                  Append(q, e)[j].from = c => Append(q, e)[j].n < q[i].n
    BY <1>1, <1>2 DEF InOrder
<1>3. ASSUME e.from = c
      PROVE  /\ last[c] < e.n
             /\ \A j \in 1..Len(q) :
                  Append(q, e)[j].from = c => Append(q, e)[j].n < e.n
    BY <1>1, <1>3 DEF Newer
<1>4. \A i \in DOMAIN Append(q, e) : i \in DOMAIN q \/ i = Len(q) + 1
    BY <1>1
<1>5. Len(q) + 1 - 1 = Len(q)
    BY <1>1
<1> QED BY <1>1, <1>2, <1>3, <1>4, <1>5 DEF InOrder

-----------------------------------------------------------------------------
(***************************************************************************)
(* Types.                                                                  *)
(***************************************************************************)
LEMMA TypeInit == SocketInit => SocketTypeOK
BY SocketAssumption DEF SocketInit, SocketTypeOK, Packet, Delivery

\* The foreach leaves the task's variables well-typed.
LEMMA GoOnType ==
    ASSUME SocketTypeOK, NEW c \in Clients, NEW left \in SUBSET Clients,
           GoOn(c, left)
    PROVE  /\ pc' \in [Clients -> {"none", "receive", "send", "ended"}]
           /\ to' \in [Clients -> Clients \cup {Nobody}]
           /\ \A e \in Clients : pc'[e] = "send" => to'[e] # Nobody
           /\ rest' \in [Clients -> SUBSET Clients]
<1>1. CASE /\ pc' = [pc EXCEPT ![c] = "receive"]
           /\ to' = [to EXCEPT ![c] = Nobody]
           /\ rest' = [rest EXCEPT ![c] = {}]
    BY <1>1 DEF SocketTypeOK
<1>2. ASSUME NEW d \in left,
             pc' = [pc EXCEPT ![c] = "send"],
             to' = [to EXCEPT ![c] = d],
             rest' = [rest EXCEPT ![c] = left \ {d}]
      PROVE  /\ pc' \in [Clients -> {"none", "receive", "send", "ended"}]
             /\ to' \in [Clients -> Clients \cup {Nobody}]
             /\ \A e \in Clients : pc'[e] = "send" => to'[e] # Nobody
             /\ rest' \in [Clients -> SUBSET Clients]
    BY <1>2, SocketAssumption DEF SocketTypeOK
<1> QED BY <1>1, <1>2 DEF GoOn

LEMMA ClientTypes ==
    ASSUME SocketTypeOK, NEW c \in Clients, ClientStep(c)
    PROVE  SocketTypeOK'
<1> USE SocketAssumption
<1>1. CASE ConnectAsync(c)
    <2>1. <<[type |-> "Login", n |-> 0]>> \in Seq(Packet)
        BY DEF Packet
    <2>2. up' \in [Clients -> Seq(Packet)]
        BY <2>1, <1>1 DEF ConnectAsync, SocketTypeOK
    <2> QED BY <2>2, <1>1 DEF ConnectAsync, SocketTypeOK, taskVars, tableVars
<1>2. ASSUME NEW type \in Kinds, SendRelayed(c, type) PROVE SocketTypeOK'
    <2>1. [type |-> type, n |-> said[c] + 1] \in Packet
        BY DEF Packet, SocketTypeOK
    <2>2. up' \in [Clients -> Seq(Packet)]
        BY <2>1, <1>2 DEF SendRelayed, SocketTypeOK
    <2> QED BY <2>2, <1>2 DEF SendRelayed, SocketTypeOK, taskVars, tableVars
<1>3. ASSUME NEW type \in Kinds, SendQuiet(c, type) PROVE SocketTypeOK'
    <2>1. [type |-> type, n |-> 0] \in Packet
        BY DEF Packet
    <2>2. up' \in [Clients -> Seq(Packet)]
        BY <2>1, <1>3 DEF SendQuiet, SocketTypeOK
    <2> QED BY <2>2, <1>3 DEF SendQuiet, SocketTypeOK, taskVars, tableVars
<1>4. CASE ReceiveLoop(c)
    <2>1. Head(down[c]) \in Delivery /\ Tail(down[c]) \in Seq(Delivery)
        BY <1>4 DEF ReceiveLoop, SocketTypeOK
    <2> QED BY <2>1, <1>4 DEF ReceiveLoop, SocketTypeOK, Delivery, taskVars, tableVars
<1>5. CASE Disconnect(c)
    BY <1>5 DEF Disconnect, SocketTypeOK, taskVars, tableVars
<1> QED BY <1>1, <1>2, <1>3, <1>4, <1>5 DEF ClientStep

LEMMA TaskTypes ==
    ASSUME SocketTypeOK, NEW c \in Clients, HandleClientAsync(c)
    PROVE  SocketTypeOK'
<1>1. CASE HandleLogin(c)
    BY <1>1 DEF HandleLogin, Receives, SocketTypeOK, clientVars, taskVars
<1>2. CASE HandleHeartbeat(c)
    BY <1>2 DEF HandleHeartbeat, Receives, SocketTypeOK, clientVars, taskVars
<1>3. CASE HandleLogout(c)
    BY <1>3 DEF HandleLogout, Receives, SocketTypeOK, clientVars, taskVars, tableVars
<1>4. CASE BroadcastAsync(c)
    <2>1. Head(up[c]) \in Packet /\ Tail(up[c]) \in Seq(Packet)
        BY <1>4 DEF BroadcastAsync, Receives, SocketTypeOK
    <2>2. Audience(c) \in SUBSET Clients
        BY DEF Audience, SocketTypeOK
    <2> QED BY <2>1, <2>2, <1>4, GoOnType
            DEF BroadcastAsync, Receives, SocketTypeOK, Packet, clientVars, tableVars
<1>5. CASE SendPacketAsync(c)
    <2>1. [from |-> c, n |-> current[c]] \in Delivery
        BY DEF SocketTypeOK, Delivery
    <2>2. down' \in [Clients -> Seq(Delivery)]
        BY <2>1, <1>5 DEF SendPacketAsync, SocketTypeOK
    <2> QED BY <2>2, <1>5, GoOnType DEF SendPacketAsync, SocketTypeOK, clientVars, tableVars
<1>6. CASE SendThrows(c)
    BY <1>6, GoOnType DEF SendThrows, SocketTypeOK, clientVars, wireVars, tableVars
<1>7. CASE ReceiveEnds(c) \/ ReceivePartialHeader(c)
    <2>1. RemoveSession(c)
        BY <1>7 DEF ReceiveEnds, ReceivePartialHeader
    <2>2. << >> \in Seq(Packet)
        OBVIOUS
    <2>3. up' \in [Clients -> Seq(Packet)]
        BY <2>1, <2>2 DEF RemoveSession, SocketTypeOK
    <2> QED BY <2>1, <2>3 DEF RemoveSession, SocketTypeOK, clientVars
<1> QED BY <1>1, <1>2, <1>3, <1>4, <1>5, <1>6, <1>7 DEF HandleClientAsync

LEMMA ServerTypes ==
    ASSUME SocketTypeOK, HeartbeatCheck \/ Stop \/ Exit \/ UNCHANGED vars
    PROVE  SocketTypeOK'
<1>1. CASE HeartbeatCheck
    <2>1. age' \in [Clients -> Nat]
        BY <1>1, SocketAssumption DEF HeartbeatCheck, Aged, SocketTypeOK
    <2> QED BY <2>1, <1>1
            DEF HeartbeatCheck, SocketTypeOK, clientVars, wireVars, taskVars
<1>2. CASE Stop
    BY <1>2 DEF Stop, SocketTypeOK, clientVars, wireVars, taskVars
<1>3. CASE Exit
    BY <1>3, SocketAssumption DEF Exit, SocketTypeOK
<1>4. CASE UNCHANGED vars
    BY <1>4 DEF vars, SocketTypeOK, clientVars, wireVars, taskVars, tableVars
<1> QED BY <1>1, <1>2, <1>3, <1>4

-----------------------------------------------------------------------------
(***************************************************************************)
(* Order.  Except for the write of a broadcast, a step only takes packets  *)
(* from the queues of the receivers: what was news remains news.           *)
(***************************************************************************)
\* What a step leaves alone of a client and its task.
Untouched(c) ==
    /\ up'[c] = up[c] /\ said'[c] = said[c] /\ pc'[c] = pc[c]
    /\ current'[c] = current[c] /\ to'[c] = to[c] /\ rest'[c] = rest[c]

NewsKept(c) ==
    \A d \in Clients, n \in Nat :
      Newer(down[d], shown[d][c], c, n) => Newer(down[d], shown[d][c], c, n)'

LEMMA ReceiverStep ==
    ASSUME RelayInv, NEW d \in Clients, ReceiveLoop(d) \/ Disconnect(d)
    PROVE  (\A c \in Clients : NewsKept(c)) /\ RelayedInOrder'
<1>1. /\ down \in [Clients -> Seq(Delivery)]
      /\ shown \in [Clients -> [Clients -> Nat]]
    BY DEF RelayInv, SocketTypeOK
<1>2. CASE ReceiveLoop(d)
    <2> DEFINE q == down[d]
               h == Head(q)
    <2>1. /\ q \in Seq(Delivery) /\ q # << >>
          /\ h = q[1] /\ h \in Delivery /\ 1 \in DOMAIN q
          /\ Len(Tail(q)) = Len(q) - 1
          /\ \A i \in DOMAIN Tail(q) : i + 1 \in DOMAIN q /\ Tail(q)[i] = q[i + 1]
        BY <1>1, <1>2 DEF ReceiveLoop
    <2>2. /\ down' = [down EXCEPT ![d] = Tail(q)]
          /\ shown' = [shown EXCEPT ![d] = [@ EXCEPT ![h.from] = h.n]]
        BY <1>2 DEF ReceiveLoop
    <2>3. /\ \A e \in Clients \ {d} : down'[e] = down[e] /\ shown'[e] = shown[e]
          /\ down'[d] = Tail(q) /\ shown'[d] = [shown[d] EXCEPT ![h.from] = h.n]
        BY <1>1, <2>2
    <2>4. ASSUME NEW e \in Clients, NEW c \in Clients, NEW n \in Nat,
                 Newer(down[e], shown[e][c], c, n)
          PROVE  Newer(down'[e], shown'[e][c], c, n)
        <3>1. CASE e = d
            <4>1. Newer(q, shown[d][c], c, n) /\ shown[d] \in [Clients -> Nat]
                BY <1>1, <2>4, <3>1
            <4>2. Newer(Tail(q), [shown[d] EXCEPT ![h.from] = h.n][c], c, n)
                BY <2>1, <4>1, NewerAfterTail
            <4> QED BY <2>3, <3>1, <4>2
        <3>2. CASE e # d
            BY <2>3, <2>4, <3>2
        <3> QED BY <3>1, <3>2
    <2>5. ASSUME NEW c \in Clients PROVE InOrder(Tail(q), shown'[d], c)
        <3>1. InOrder(q, shown[d], c) /\ shown[d] \in [Clients -> Nat]
            BY <1>1 DEF RelayInv, RelayedInOrder
        <3>2. InOrder(Tail(q), [shown[d] EXCEPT ![h.from] = h.n], c)
            BY <2>1, <3>1, OrderAfterTail
        <3> QED BY <2>3, <3>2
    <2>6. \A i \in DOMAIN Tail(q) : Tail(q)[i].from # d
        BY <2>1 DEF RelayInv, RelayedInOrder
    <2>7. shown'[d][d] = 0
        BY <1>1, <2>1, <2>3 DEF RelayInv, RelayedInOrder, Delivery
    <2>8. \A c \in Clients : NewsKept(c)
        BY <2>4 DEF NewsKept
    <2>9. ASSUME NEW e \in Clients, e # d
          PROVE  /\ \A i \in DOMAIN down'[e] : down'[e][i].from # e
                 /\ \A c \in Clients : InOrder(down'[e], shown'[e], c)
                 /\ shown'[e][e] = 0
        BY <2>3, <2>9 DEF RelayInv, RelayedInOrder
    <2>10. /\ \A i \in DOMAIN down'[d] : down'[d][i].from # d
           /\ \A c \in Clients : InOrder(down'[d], shown'[d], c)
           /\ shown'[d][d] = 0
        BY <2>3, <2>5, <2>6, <2>7
    <2>11. RelayedInOrder'
        BY <2>9, <2>10 DEF RelayedInOrder, InOrder
    <2> QED BY <2>8, <2>11
<1>3. CASE Disconnect(d)
    <2>1. /\ shown' = shown /\ down'[d] = << >>
          /\ \A e \in Clients \ {d} : down'[e] = down[e]
        BY <1>1, <1>3 DEF Disconnect
    <2>2. \A c \in Clients : NewsKept(c)
        BY <2>1 DEF NewsKept, Newer
    <2> QED BY <2>1, <2>2 DEF RelayInv, RelayedInOrder, InOrder
<1> QED BY <1>2, <1>3

\* A step that is not the client's or its task's own keeps its order.
LEMMA Bystander ==
    ASSUME SocketTypeOK, NEW c \in Clients, Orderly(c), Untouched(c), NewsKept(c)
    PROVE  Orderly(c)'
<1>1. /\ up[c] \in Seq(Packet) /\ said[c] \in Nat /\ current[c] \in Nat
      /\ rest[c] \subseteq Clients
      /\ pc[c] = "send" => to[c] \in Clients
      /\ \A i \in DOMAIN up[c] : up[c][i].n \in Nat
    <2>1. \A i \in DOMAIN up[c] : up[c][i] \in Packet
        BY DEF SocketTypeOK
    <2> QED BY <2>1 DEF SocketTypeOK, Packet
<1>2. ASSUME NEW n \in Nat, News(c, n) PROVE News(c, n)'
    BY <1>2 DEF News, NewsKept
<1>3. UpInOrder(c)'
    BY <1>1, <1>2 DEF Orderly, UpInOrder, RelayedIn, Untouched
<1>4. SendsNews(c)'
    BY <1>1 DEF Orderly, SendsNews, Untouched, NewsKept
<1>5. Given(c)'
    BY <1>1, <1>2 DEF Orderly, Given, Untouched
<1> QED BY <1>3, <1>4, <1>5 DEF Orderly, TakenOff, Untouched

\* ReceiveLoop and Disconnect.
LEMMA ReceiverKeeps ==
    ASSUME RelayInv, NEW d \in Clients, ReceiveLoop(d) \/ Disconnect(d)
    PROVE  RelayInv'
<1>1. SocketTypeOK'
    BY ClientTypes DEF RelayInv, ClientStep
<1>2. ASSUME NEW c \in Clients PROVE Untouched(c)
    BY DEF ReceiveLoop, Disconnect, Untouched, taskVars
<1> QED BY <1>1, <1>2, ReceiverStep, Bystander DEF RelayInv

\* A step after which every queue and every screen is as it was.
LEMMA QueuesKept ==
    ASSUME UNCHANGED <<down, shown>>
    PROVE  /\ \A c \in Clients : NewsKept(c)
           /\ RelayedInOrder => RelayedInOrder'
BY DEF NewsKept, RelayedInOrder

\* A client that gives its next packet the next number, or no number, or that
\* comes with its Login.
LEMMA SenderKeeps ==
    ASSUME RelayInv, NEW c \in Clients,
           \/ ConnectAsync(c)
           \/ \E type \in Kinds : SendRelayed(c, type) \/ SendQuiet(c, type)
    PROVE  RelayInv'
<1>1. SocketTypeOK'
    BY ClientTypes DEF RelayInv, ClientStep
<1>2. UNCHANGED <<down, shown, current, to, rest>>
    BY DEF ConnectAsync, SendRelayed, SendQuiet, taskVars
<1>3. ASSUME NEW e \in Clients, e # c PROVE Orderly(e)'
    <2>1. /\ up \in [Clients -> Seq(Packet)] /\ said \in [Clients -> Nat]
          /\ DOMAIN pc = Clients /\ DOMAIN up = Clients /\ DOMAIN said = Clients
        BY DEF RelayInv, SocketTypeOK
    <2>2. ASSUME ConnectAsync(c) PROVE Untouched(e)
        BY <1>3, <2>1, <2>2 DEF ConnectAsync, taskVars, Untouched
    <2>3. ASSUME \E type \in Kinds : SendRelayed(c, type) \/ SendQuiet(c, type)
          PROVE  Untouched(e)
        BY <1>3, <2>1, <2>3 DEF SendRelayed, SendQuiet, taskVars, Untouched
    <2>4. Untouched(e)
        BY <2>2, <2>3
    <2> QED BY <1>2, <2>4, QueuesKept, Bystander DEF RelayInv
<1>4. /\ up[c] \in Seq(Packet) /\ said[c] \in Nat /\ current[c] \in Nat
      /\ \A d \in Clients : shown[d][c] \in Nat /\ down[d] \in Seq(Delivery)
      /\ Orderly(c)
    BY DEF RelayInv, SocketTypeOK
<1>5. CASE ConnectAsync(c)
    <2>1. up'[c] = <<[type |-> "Login", n |-> 0]>> /\ said' = said /\ pc'[c] = "receive"
        BY <1>5 DEF ConnectAsync, RelayInv, SocketTypeOK
    <2>2. RelayedIn(up'[c]) = {}
        BY <2>1 DEF RelayedIn, Relayed
    <2>3. Orderly(c)'
        BY <1>2, <1>4, <2>1, <2>2
           DEF Orderly, UpInOrder, SendsNews, Given, TakenOff, News, Newer
    <2> QED BY <1>1, <1>2, <1>3, <2>3, QueuesKept DEF RelayInv
<1>6. ASSUME NEW type \in Kinds, SendQuiet(c, type) PROVE RelayInv'
    <2> DEFINE p == [type |-> type, n |-> 0]
    <2>1. up'[c] = Append(up[c], p) /\ said' = said /\ pc' = pc /\ type \notin Relayed
        BY <1>6 DEF SendQuiet, RelayInv, SocketTypeOK, taskVars, Relayed, Quiet
    <2>2. RelayedIn(up'[c]) = RelayedIn(up[c])
        BY <1>4, <2>1 DEF RelayedIn
    <2>3. \A i \in RelayedIn(up[c]) : up'[c][i] = up[c][i]
        BY <1>4, <2>1 DEF RelayedIn
    <2>4. Orderly(c)'
        BY <1>2, <1>4, <2>1, <2>2, <2>3
           DEF Orderly, UpInOrder, SendsNews, Given, TakenOff, News, Newer
    <2> QED BY <1>1, <1>2, <1>3, <2>4, QueuesKept DEF RelayInv
<1>7. ASSUME NEW type \in Kinds, SendRelayed(c, type) PROVE RelayInv'
    <2> DEFINE p == [type |-> type, n |-> said[c] + 1]
    <2>0. PICK k \in Nat : k = Len(up[c]) + 1
        BY <1>4
    <2>1. up'[c] = Append(up[c], p) /\ said'[c] = said[c] + 1 /\ pc' = pc
        BY <1>7 DEF SendRelayed, RelayInv, SocketTypeOK, taskVars
    <2>2. /\ RelayedIn(up'[c]) \subseteq RelayedIn(up[c]) \cup {k}
          /\ up'[c][k] = p
          /\ \A i \in RelayedIn(up[c]) : up'[c][i] = up[c][i] /\ i < k
        BY <1>4, <2>0, <2>1 DEF RelayedIn
    <2>3. /\ \A i \in RelayedIn(up[c]) : up[c][i].n \in Nat
          /\ \A d \in Clients : \A j \in DOMAIN down[d] : down[d][j].n \in Nat
        <3>1. \A i \in DOMAIN up[c] : up[c][i] \in Packet
            BY <1>4
        <3>2. \A d \in Clients : \A j \in DOMAIN down[d] : down[d][j] \in Delivery
            BY <1>4
        <3> QED BY <3>1, <3>2 DEF RelayedIn, Packet, Delivery
    <2>4. UpInOrder(c)'
        <3>1. /\ \A i \in RelayedIn(up[c]) : News(c, up[c][i].n) => News(c, up[c][i].n)'
              /\ News(c, said[c] + 1) => News(c, up[c][k].n)'
            BY <1>2, <2>2 DEF News
        <3>2. ASSUME NEW i \in RelayedIn(up[c])
              PROVE  /\ News(c, up[c][i].n)' /\ current'[c] < up'[c][i].n
                     /\ up'[c][i].n <= said'[c]
                     /\ \A j \in RelayedIn(up'[c]) : j < i => up'[c][j].n < up'[c][i].n
            <4>1. \A j \in RelayedIn(up'[c]) : j < i => j \in RelayedIn(up[c])
                BY <1>4, <2>2 DEF RelayedIn
            <4>2. /\ News(c, up[c][i].n) /\ current[c] < up[c][i].n
                  /\ up[c][i].n <= said[c]
                  /\ \A j \in RelayedIn(up[c]) : j < i => up[c][j].n < up[c][i].n
                BY <1>4 DEF Orderly, UpInOrder
            <4>3. /\ up'[c][i] = up[c][i] /\ current'[c] = current[c]
                  /\ said'[c] = said[c] + 1 /\ up[c][i].n \in Nat
                BY <1>2, <2>1, <2>2, <2>3
            <4>4. \A j \in RelayedIn(up'[c]) : j < i => up'[c][j].n < up'[c][i].n
                BY <2>2, <4>1, <4>2, <4>3
            <4> QED BY <1>4, <3>1, <4>2, <4>3, <4>4
        <3>3. /\ News(c, up[c][k].n)' /\ current'[c] < up'[c][k].n
              /\ up'[c][k].n <= said'[c]
              /\ \A j \in RelayedIn(up'[c]) : j < k => up'[c][j].n < up'[c][k].n
            <4>1. \A j \in RelayedIn(up'[c]) : j < k => j \in RelayedIn(up[c])
                BY <1>4, <2>0, <2>2
            <4>2. up'[c][k].n = said[c] + 1
                BY <2>2
            <4>3. /\ News(c, said[c] + 1) /\ current[c] <= said[c]
                  /\ \A j \in RelayedIn(up[c]) : up[c][j].n <= said[c]
                BY <1>4 DEF Orderly, UpInOrder, Given
            <4>4. \A j \in RelayedIn(up'[c]) : j < k => up'[c][j].n < up'[c][k].n
                BY <1>4, <2>2, <2>3, <4>1, <4>2, <4>3
            <4>5. News(c, up[c][k].n)'
                BY <3>1, <4>3
            <4>6. current'[c] = current[c] /\ said'[c] = said[c] + 1
                BY <1>2, <2>1
            <4>7. current'[c] < up'[c][k].n /\ up'[c][k].n <= said'[c]
                BY <1>4, <4>2, <4>3, <4>6
            <4> QED BY <4>4, <4>5, <4>7
        <3> QED BY <2>2, <3>2, <3>3 DEF UpInOrder
    <2>5. Given(c)'
        BY <1>2, <1>4, <2>1, <2>3 DEF Orderly, Given, News, Newer
    <2>6. SendsNews(c)' /\ TakenOff(c)'
        BY <1>2, <1>4, <2>1 DEF Orderly, SendsNews, TakenOff, Newer
    <2> QED BY <1>1, <1>2, <1>3, <2>4, <2>5, <2>6, QueuesKept DEF RelayInv, Orderly
<1> QED BY <1>5, <1>6, <1>7

\* What is left in the queue keeps its order, and is after what was taken.
LEMMA TailOrder ==
    ASSUME NEW u \in Seq(Packet), u # << >>, NEW i \in RelayedIn(Tail(u))
    PROVE  /\ i \in Nat /\ i + 1 \in RelayedIn(u) /\ Tail(u)[i] = u[i + 1]
           /\ u[i + 1].n \in Nat
           /\ Head(u).type \in Relayed => 1 \in RelayedIn(u) /\ Head(u) = u[1] /\ 1 < i + 1
<1>1. /\ DOMAIN Tail(u) = 1..(Len(u) - 1) /\ DOMAIN u = 1..Len(u) /\ Len(u) \in Nat
      /\ \A j \in DOMAIN Tail(u) : Tail(u)[j] = u[j + 1]
      /\ Head(u) = u[1] /\ 1 \in DOMAIN u
      /\ \A j \in DOMAIN u : u[j] \in Packet
    OBVIOUS
<1>2. i \in DOMAIN Tail(u) /\ i + 1 \in DOMAIN u /\ i \in Nat /\ 1 < i + 1
    BY <1>1 DEF RelayedIn
<1> QED BY <1>1, <1>2 DEF RelayedIn, Packet

LEMMA UpAfterTail ==
    ASSUME SocketTypeOK, NEW c \in Clients, up[c] # << >>, up'[c] = Tail(up[c]),
           UpInOrder(c), said'[c] = said[c], UNCHANGED <<down, shown>>,
           \/ current'[c] = current[c]
           \/ Head(up[c]).type \in Relayed /\ current'[c] = Head(up[c]).n
    PROVE  UpInOrder(c)'
<1>1. PICK u \in Seq(Packet) : u = up[c]
    BY DEF SocketTypeOK
<1>2. SUFFICES ASSUME NEW i \in RelayedIn(Tail(u))
               PROVE  /\ News(c, Tail(u)[i].n)' /\ current'[c] < Tail(u)[i].n
                      /\ Tail(u)[i].n <= said[c]
                      /\ \A j \in RelayedIn(Tail(u)) :
                           j < i => Tail(u)[j].n < Tail(u)[i].n
    BY <1>1 DEF UpInOrder
<1>3. /\ News(c, u[i + 1].n) /\ current[c] < u[i + 1].n /\ u[i + 1].n <= said[c]
      /\ \A j \in RelayedIn(u) : j < i + 1 => u[j].n < u[i + 1].n
    BY <1>1, TailOrder DEF UpInOrder
<1>4. News(c, Tail(u)[i].n)'
    BY <1>1, <1>3, TailOrder DEF News
<1>5. current'[c] < u[i + 1].n
    BY <1>1, <1>3, TailOrder
<1>6. ASSUME NEW j \in RelayedIn(Tail(u)), j < i
      PROVE  Tail(u)[j].n < Tail(u)[i].n
    <2>1. /\ j \in Nat /\ i \in Nat
          /\ j + 1 \in RelayedIn(u) /\ Tail(u)[j] = u[j + 1]
        BY <1>1, TailOrder
    <2>2. j + 1 < i + 1
        BY <1>6, <2>1
    <2> QED BY <1>1, <1>3, <2>1, <2>2, TailOrder
<1> QED BY <1>1, <1>3, <1>4, <1>5, <1>6, TailOrder

\* The task takes a packet that is not relayed, or ends.
LEMMA ReceivedKeeps ==
    ASSUME RelayInv, NEW c \in Clients,
           \/ HandleLogin(c) \/ HandleHeartbeat(c) \/ HandleLogout(c)
           \/ ReceiveEnds(c) \/ ReceivePartialHeader(c)
    PROVE  RelayInv'
<1>1. SocketTypeOK'
    BY TaskTypes DEF RelayInv, HandleClientAsync
<1>2. /\ UNCHANGED <<down, shown, said, to, rest>>
      /\ pc[c] = "receive" /\ pc'[c] # "send"
      /\ \/ up' = [up EXCEPT ![c] = Tail(@)] /\ up[c] # << >> /\ current' = current
         \/ up' = [up EXCEPT ![c] = << >>] /\ current' = [current EXCEPT ![c] = 0]
      /\ \A e \in Clients \ {c} : pc'[e] = pc[e]
    BY DEF HandleLogin, HandleHeartbeat, HandleLogout, Receives, ReceiveEnds,
           ReceivePartialHeader, RemoveSession, clientVars, taskVars, RelayInv, SocketTypeOK
<1>3. ASSUME NEW e \in Clients, e # c PROVE Orderly(e)'
    <2>1. Untouched(e)
        BY <1>2, <1>3 DEF Untouched, RelayInv, SocketTypeOK
    <2> QED BY <1>2, <2>1, QueuesKept, Bystander DEF RelayInv
<1>4. /\ up[c] \in Seq(Packet) /\ said[c] \in Nat /\ current[c] \in Nat
      /\ \A i \in DOMAIN up[c] : up[c][i].n \in Nat
      /\ Orderly(c)
    <2>1. \A i \in DOMAIN up[c] : up[c][i] \in Packet
        BY DEF RelayInv, SocketTypeOK
    <2> QED BY <2>1 DEF RelayInv, SocketTypeOK, Packet
<1>5. UpInOrder(c)'
    <2>1. CASE up' = [up EXCEPT ![c] = Tail(@)] /\ up[c] # << >> /\ current' = current
        BY <1>2, <1>4, <2>1, UpAfterTail DEF RelayInv, SocketTypeOK, News, Orderly
    <2>2. CASE up' = [up EXCEPT ![c] = << >>] /\ current' = [current EXCEPT ![c] = 0]
        <3>1. up'[c] = << >>
            BY <2>2 DEF RelayInv, SocketTypeOK
        <3> QED BY <3>1 DEF UpInOrder, RelayedIn
    <2> QED BY <1>2, <2>1, <2>2
<1>6. Given(c)'
    BY <1>2, <1>4 DEF Orderly, Given, News, RelayInv, SocketTypeOK
<1>7. SendsNews(c)' /\ TakenOff(c)'
    BY <1>2 DEF SendsNews, TakenOff
<1>8. RelayedInOrder'
    BY <1>2, QueuesKept DEF RelayInv
<1> QED BY <1>1, <1>3, <1>5, <1>6, <1>7, <1>8 DEF RelayInv, Orderly

\* The next session of the foreach is one of those that are left.
LEMMA GoOnOrder ==
    ASSUME SocketTypeOK, NEW c \in Clients, NEW left \in SUBSET Clients, GoOn(c, left),
           \A d \in left : d # c /\ Newer(down[d], shown[d][c], c, current[c])'
    PROVE  /\ SendsNews(c)' /\ TakenOff(c)'
           /\ \A e \in Clients \ {c} :
                pc'[e] = pc[e] /\ to'[e] = to[e] /\ rest'[e] = rest[e]
<1>1. CASE /\ pc' = [pc EXCEPT ![c] = "receive"]
           /\ to' = [to EXCEPT ![c] = Nobody]
           /\ rest' = [rest EXCEPT ![c] = {}]
    BY <1>1 DEF SocketTypeOK, SendsNews, TakenOff
<1>2. ASSUME NEW d \in left,
             pc' = [pc EXCEPT ![c] = "send"],
             to' = [to EXCEPT ![c] = d],
             rest' = [rest EXCEPT ![c] = left \ {d}]
      PROVE  /\ SendsNews(c)' /\ TakenOff(c)'
             /\ \A e \in Clients \ {c} :
                  pc'[e] = pc[e] /\ to'[e] = to[e] /\ rest'[e] = rest[e]
    <2>1. to'[c] = d /\ rest'[c] = left \ {d}
        BY <1>2 DEF SocketTypeOK
    <2> QED BY <1>2, <2>1 DEF SocketTypeOK, SendsNews, TakenOff
<1> QED BY <1>1, <1>2 DEF GoOn

\* The copy is taken: the packet is news to all of its sessions.
LEMMA BroadcastKeeps ==
    ASSUME RelayInv, NEW c \in Clients, BroadcastAsync(c)
    PROVE  RelayInv'
<1>1. SocketTypeOK'
    BY TaskTypes DEF RelayInv, HandleClientAsync
<1>2. /\ UNCHANGED <<down, shown, said>> /\ GoOn(c, Audience(c))
      /\ up[c] # << >> /\ up'[c] = Tail(up[c])
      /\ Head(up[c]).type \in Relayed /\ current'[c] = Head(up[c]).n
      /\ \A e \in Clients \ {c} : up'[e] = up[e] /\ current'[e] = current[e]
    BY DEF BroadcastAsync, Receives, clientVars, RelayInv, SocketTypeOK
<1>3. /\ 1 \in RelayedIn(up[c]) /\ up[c][1] = Head(up[c])
    BY <1>2 DEF RelayedIn, RelayInv, SocketTypeOK
<1>4. News(c, Head(up[c]).n) /\ Head(up[c]).n <= said[c] /\ Given(c) /\ UpInOrder(c)
    BY <1>3 DEF RelayInv, Orderly, UpInOrder
<1>5. Audience(c) \in SUBSET Clients /\ c \notin Audience(c)
    BY DEF Audience, RelayInv, SocketTypeOK
<1>6. \A d \in Audience(c) : d # c /\ Newer(down[d], shown[d][c], c, current[c])'
    BY <1>2, <1>4, <1>5 DEF News
<1>7. /\ SendsNews(c)' /\ TakenOff(c)'
      /\ \A e \in Clients \ {c} : pc'[e] = pc[e] /\ to'[e] = to[e] /\ rest'[e] = rest[e]
    BY <1>2, <1>5, <1>6, GoOnOrder DEF RelayInv
<1>8. UpInOrder(c)'
    BY <1>2, <1>4, UpAfterTail DEF RelayInv
<1>9. Given(c)'
    BY <1>2, <1>4 DEF Given, News
<1>10. ASSUME NEW e \in Clients, e # c PROVE Orderly(e)'
    <2>1. Untouched(e)
        BY <1>2, <1>7, <1>10 DEF Untouched
    <2> QED BY <1>2, <2>1, QueuesKept, Bystander DEF RelayInv
<1>11. RelayedInOrder'
    BY <1>2, QueuesKept DEF RelayInv
<1> QED BY <1>1, <1>7, <1>8, <1>9, <1>10, <1>11 DEF RelayInv, Orderly

\* A receiver that is gone is passed over.
LEMMA ThrowKeeps ==
    ASSUME RelayInv, NEW c \in Clients, SendThrows(c)
    PROVE  RelayInv'
<1>1. SocketTypeOK'
    BY TaskTypes DEF RelayInv, HandleClientAsync
<1>2. /\ UNCHANGED <<down, shown, said, up, current>> /\ GoOn(c, rest[c])
      /\ pc[c] = "send" /\ rest[c] \in SUBSET Clients
    BY DEF SendThrows, clientVars, wireVars, RelayInv, SocketTypeOK
<1>3. \A d \in rest[c] : d # c /\ Newer(down[d], shown[d][c], c, current[c])'
    BY <1>2 DEF RelayInv, Orderly, SendsNews
<1>4. /\ SendsNews(c)' /\ TakenOff(c)'
      /\ \A e \in Clients \ {c} : pc'[e] = pc[e] /\ to'[e] = to[e] /\ rest'[e] = rest[e]
    BY <1>2, <1>3, GoOnOrder DEF RelayInv
<1>5. UpInOrder(c)' /\ Given(c)'
    BY <1>2 DEF RelayInv, Orderly, UpInOrder, Given, News, RelayedIn
<1>6. ASSUME NEW e \in Clients, e # c PROVE Orderly(e)'
    <2>1. Untouched(e)
        BY <1>2, <1>4, <1>6 DEF Untouched
    <2> QED BY <1>2, <2>1, QueuesKept, Bystander DEF RelayInv
<1>7. RelayedInOrder'
    BY <1>2, QueuesKept DEF RelayInv
<1> QED BY <1>1, <1>4, <1>5, <1>6, <1>7 DEF RelayInv, Orderly

\* The write: the packet comes after everything of its sender that the
\* receiver has had or will read before it, and before what the sender's task
\* has not relayed yet.
LEMMA WriteKeeps ==
    ASSUME RelayInv, NEW c \in Clients, SendPacketAsync(c)
    PROVE  RelayInv'
<1> DEFINE d == to[c]
           p == [from |-> c, n |-> current[c]]
<1>1. SocketTypeOK'
    BY TaskTypes DEF RelayInv, HandleClientAsync
<1>2. /\ down \in [Clients -> Seq(Delivery)]
      /\ shown \in [Clients -> [Clients -> Nat]]
      /\ current[c] \in Nat /\ said[c] \in Nat /\ rest[c] \in SUBSET Clients
      /\ pc[c] = "send" /\ d \in Clients /\ d # Nobody
    BY SocketAssumption DEF SendPacketAsync, RelayInv, SocketTypeOK
<1>3. /\ UNCHANGED <<shown, said, up, current>> /\ GoOn(c, rest[c])
      /\ down'[d] = Append(down[d], p)
      /\ \A e \in Clients \ {d} : down'[e] = down[e]
    BY <1>2 DEF SendPacketAsync, clientVars
<1>4. /\ d # c /\ d \notin rest[c] /\ Newer(down[d], shown[d][c], c, current[c])
      /\ \A e \in rest[c] : e # c /\ Newer(down[e], shown[e][c], c, current[c])
      /\ Given(c) /\ UpInOrder(c)
    BY <1>2 DEF RelayInv, Orderly, SendsNews, TakenOff
<1>5. p \in Delivery /\ p.from = c /\ p.n = current[c]
    BY <1>2 DEF Delivery
<1>6. ASSUME NEW e \in Clients, NEW n \in Nat, NEW r \in Clients,
             e = c => current[c] < n,
             Newer(down[r], shown[r][e], e, n)
      PROVE  Newer(down'[r], shown'[r][e], e, n)
    <2>1. CASE r = d
        <3>1. Newer(Append(down[d], p), shown[d][e], e, n)
            BY <1>2, <1>5, <1>6, <2>1, NewerAfterAppend
        <3> QED BY <1>3, <2>1, <3>1
    <2>2. CASE r # d
        BY <1>3, <1>6, <2>2
    <2> QED BY <2>1, <2>2
<1>7. ASSUME NEW n \in Nat, current[c] < n, News(c, n) PROVE News(c, n)'
    BY <1>6, <1>7 DEF News
<1>8. /\ SendsNews(c)' /\ TakenOff(c)'
      /\ \A e \in Clients \ {c} : pc'[e] = pc[e] /\ to'[e] = to[e] /\ rest'[e] = rest[e]
    <2>1. \A e \in rest[c] : e # c /\ Newer(down[e], shown[e][c], c, current[c])'
        BY <1>2, <1>3, <1>4
    <2> QED BY <1>2, <1>3, <2>1, GoOnOrder DEF RelayInv
<1>9. UpInOrder(c)'
    <2>1. ASSUME NEW i \in RelayedIn(up[c])
          PROVE  News(c, up[c][i].n)'
        <3>1. up[c][i].n \in Nat /\ current[c] < up[c][i].n /\ News(c, up[c][i].n)
            <4>1. up[c][i] \in Packet
                BY DEF RelayedIn, RelayInv, SocketTypeOK
            <4> QED BY <1>4, <4>1 DEF Packet, UpInOrder
        <3>2. PICK n \in Nat : n = up[c][i].n
            BY <3>1
        <3>3. News(c, n)'
            BY <1>7, <3>1, <3>2
        <3> QED BY <1>3, <3>2, <3>3
    <2> QED BY <1>3, <1>4, <2>1 DEF UpInOrder, RelayedIn
<1>10. Given(c)'
    <2>1. PICK n \in Nat : n = said[c] + 1
        BY <1>2
    <2>2. current[c] < n /\ News(c, n)
        BY <1>2, <1>4, <2>1 DEF Given
    <2>3. News(c, n)'
        BY <1>7, <2>2
    <2> QED BY <1>3, <1>4, <2>1, <2>3 DEF Given
<1>11. ASSUME NEW e \in Clients, e # c PROVE Orderly(e)'
    <2>1. Untouched(e)
        BY <1>3, <1>8, <1>11 DEF Untouched
    <2>2. NewsKept(e)
        BY <1>6, <1>11 DEF NewsKept
    <2> QED BY <2>1, <2>2, Bystander DEF RelayInv
<1>12. RelayedInOrder'
    <2>1. \A e \in Clients : InOrder(down'[d], shown'[d], e)
        <3>1. ASSUME NEW e \in Clients
              PROVE  InOrder(Append(down[d], p), shown[d], e)
            <4>1. InOrder(down[d], shown[d], e)
                BY <1>2 DEF RelayInv, RelayedInOrder
            <4>2. p.from = e => Newer(down[d], shown[d][e], e, p.n)
                BY <1>4, <1>5
            <4> QED BY <1>2, <1>5, <4>1, <4>2, OrderAfterAppend
        <3> QED BY <1>3, <3>1
    <2>2. \A i \in DOMAIN down'[d] : down'[d][i].from # d
        <3>1. \A i \in DOMAIN Append(down[d], p) :
                \/ i \in DOMAIN down[d] /\ Append(down[d], p)[i] = down[d][i]
                \/ Append(down[d], p)[i] = p
            BY <1>2, <1>5
        <3> QED BY <1>2, <1>3, <1>4, <1>5, <3>1 DEF RelayInv, RelayedInOrder
    <2>3. ASSUME NEW e \in Clients, e # d
          PROVE  /\ \A i \in DOMAIN down'[e] : down'[e][i].from # e
                 /\ \A x \in Clients : InOrder(down'[e], shown'[e], x)
        BY <1>3, <2>3 DEF RelayInv, RelayedInOrder
    <2>4. \A e \in Clients : shown'[e][e] = 0
        BY <1>3 DEF RelayInv, RelayedInOrder
    <2> QED BY <1>2, <2>1, <2>2, <2>3, <2>4 DEF RelayedInOrder, InOrder
<1> QED BY <1>1, <1>8, <1>9, <1>10, <1>11, <1>12 DEF RelayInv, Orderly

\* The check, the stop and the end of the process.
LEMMA ServerKeeps ==
    ASSUME RelayInv, HeartbeatCheck \/ Stop \/ Exit \/ UNCHANGED vars
    PROVE  RelayInv'
<1>1. SocketTypeOK'
    BY ServerTypes DEF RelayInv
<1>2. CASE HeartbeatCheck \/ Stop \/ UNCHANGED vars
    <2>1. UNCHANGED <<up, down, said, pc, current, to, rest, shown>>
        BY <1>2 DEF HeartbeatCheck, Stop, vars, clientVars, wireVars, taskVars
    <2>2. ASSUME NEW c \in Clients PROVE Untouched(c)
        BY <2>1 DEF Untouched
    <2> QED BY <1>1, <2>1, <2>2, QueuesKept, Bystander DEF RelayInv
<1>3. CASE Exit
    <2>1. /\ shown' = shown /\ said' = said
          /\ \A c \in Clients : up'[c] = << >> /\ down'[c] = << >> /\ pc'[c] = "ended"
                               /\ current'[c] = 0
        BY <1>3 DEF Exit
    <2>2. RelayedInOrder'
        BY <2>1 DEF RelayInv, RelayedInOrder, InOrder
    <2>3. ASSUME NEW c \in Clients PROVE Orderly(c)'
        <3>1. UpInOrder(c)' /\ SendsNews(c)' /\ TakenOff(c)'
            BY <2>1 DEF UpInOrder, RelayedIn, SendsNews, TakenOff
        <3>2. said[c] \in Nat /\ News(c, said[c] + 1)
            BY DEF RelayInv, Orderly, Given, SocketTypeOK
        <3>3. ASSUME NEW d \in Clients
              PROVE  Newer(down'[d], shown'[d][c], c, said'[c] + 1)
            <4>1. shown'[d][c] < said'[c] + 1
                BY <2>1, <3>2 DEF News, Newer
            <4>2. DOMAIN down'[d] = {}
                BY <2>1
            <4> QED BY <4>1, <4>2 DEF Newer
        <3>4. Given(c)'
            BY <2>1, <3>2, <3>3 DEF Given, News
        <3> QED BY <3>1, <3>4 DEF Orderly
    <2> QED BY <1>1, <2>2, <2>3 DEF RelayInv
<1> QED BY <1>2, <1>3

-----------------------------------------------------------------------------
LEMMA RelayInit == SocketInit => RelayInv
<1> SUFFICES ASSUME SocketInit PROVE RelayInv
    OBVIOUS
<1>1. /\ \A c \in Clients : /\ up[c] = << >> /\ down[c] = << >> /\ pc[c] = "none"
                            /\ current[c] = 0 /\ said[c] = 0
      /\ \A d, c \in Clients : shown[d][c] = 0
    BY DEF SocketInit
<1>2. RelayedInOrder
    <2>1. ASSUME NEW d \in Clients PROVE DOMAIN down[d] = {}
        <3>1. down[d] \in Seq(Delivery) /\ Len(down[d]) = 0
            BY <1>1, TypeInit DEF SocketTypeOK
        <3> QED BY <3>1
    <2>2. ASSUME NEW d \in Clients, NEW c \in Clients
          PROVE  InOrder(down[d], shown[d], c)
        BY <2>1 DEF InOrder
    <2>3. \A d \in Clients : shown[d][d] = 0
        BY <1>1
    <2> QED BY <2>1, <2>2, <2>3 DEF RelayedInOrder
<1>3. ASSUME NEW c \in Clients PROVE Orderly(c)
    <2>1. UpInOrder(c)
        BY <1>1 DEF UpInOrder, RelayedIn
    <2>2. Given(c)
        BY <1>1 DEF Given, News, Newer
    <2> QED BY <1>1, <2>1, <2>2 DEF Orderly, SendsNews, TakenOff
<1> QED BY <1>2, <1>3, TypeInit DEF RelayInv

LEMMA RelayStep == RelayInv /\ [SocketNext]_vars => RelayInv'
<1> SUFFICES ASSUME RelayInv, [SocketNext]_vars PROVE RelayInv'
    OBVIOUS
<1>1. ASSUME NEW c \in Clients, ClientStep(c) PROVE RelayInv'
    BY <1>1, SenderKeeps, ReceiverKeeps DEF ClientStep
<1>2. ASSUME NEW c \in Clients, HandleClientAsync(c) PROVE RelayInv'
    BY <1>2, ReceivedKeeps, BroadcastKeeps, WriteKeeps, ThrowKeeps
       DEF HandleClientAsync
<1> QED BY <1>1, <1>2, ServerKeeps DEF SocketNext, Over

(***************************************************************************)
(* Every variable of the server, its sessions and the clients keeps its    *)
(* type.                                                                   *)
(***************************************************************************)
THEOREM SocketTypes == SocketSpec => []SocketTypeOK
<1>1. RelayInv => SocketTypeOK
    BY DEF RelayInv
<1> QED BY <1>1, RelayInit, RelayStep, PTL DEF SocketSpec

(***************************************************************************)
(* Whatever the clients, the time-outs and a stop interrupt, players       *)
(* receive what another one sent in the order it was sent, at most once,   *)
(* and nothing of their own (GameServer.cs:122-144).                       *)
(***************************************************************************)
THEOREM RelayTheorem == SocketSpec => []RelayedInOrder
<1>1. RelayInv => RelayedInOrder
    BY DEF RelayInv
<1> QED BY <1>1, RelayInit, RelayStep, PTL DEF SocketSpec

-----------------------------------------------------------------------------
(***************************************************************************)
(* Nobody is missed.  The invariant follows the sessions that are to come: *)
(* a session whose player has received something of c before has what c's  *)
(* task relays now, or its turn comes.                                     *)
(***************************************************************************)
\* What d has received of c or will read, with 0 for nothing.
Received(c, d) == {shown[d][c]} \cup Numbers(down[d], c)

\* The turn of d comes in c's foreach.
Pending(c, d) == pc[c] = "send" /\ d \in rest[c] \cup {to[c]}

HasLogin(u) == \E i \in DOMAIN u : u[i].type = "Login"
LoginOnlyFirst(u) == \A i \in DOMAIN u : u[i].type = "Login" => i = 1

\* The server has not served the Login of d.
Fresh(d) == conn[d] = "away" \/ HasLogin(up[d])

Connects(c) ==
    /\ conn[c] = "away" => up[c] = << >> /\ pc[c] = "none"
    /\ pc[c] = "none" => current[c] = 0
    /\ LoginOnlyFirst(up[c])

\* Who is not logged in is in no copy and has received nothing.
Unseen(c, d) == Fresh(d) => d \notin sessions /\ Received(c, d) = {0} /\ ~Pending(c, d)

\* Nothing is received before it is served.
Past(c, d) == pc[c] # "ended" => \A n \in Received(c, d) : n <= current[c]

Reaches(c, d) ==
    (/\ pc[c] \in {"receive", "send"} /\ c # d
     /\ d \in sessions /\ CanWrite(d) /\ Received(c, d) # {0})
      => current[c] \in Received(c, d) \/ Pending(c, d)

Pair(c, d) == Unseen(c, d) /\ Past(c, d) /\ Reaches(c, d)

ReachInv ==
    /\ \A c \in Clients : Connects(c)
    /\ \A c, d \in Clients : Pair(c, d)

\* The queue to the server: a packet that is put in and one that is taken out.
LEMMA LoginsAppended ==
    ASSUME NEW u \in Seq(Packet), NEW p \in Packet, p.type # "Login", LoginOnlyFirst(u)
    PROVE  /\ LoginOnlyFirst(Append(u, p))
           /\ HasLogin(Append(u, p)) => HasLogin(u)
<1>1. \A i \in DOMAIN Append(u, p) :
        \/ i \in DOMAIN u /\ Append(u, p)[i] = u[i]
        \/ Append(u, p)[i] = p
    OBVIOUS
<1> QED BY <1>1 DEF LoginOnlyFirst, HasLogin

LEMMA LoginsTaken ==
    ASSUME NEW u \in Seq(Packet), u # << >>, LoginOnlyFirst(u)
    PROVE  ~HasLogin(Tail(u)) /\ LoginOnlyFirst(Tail(u))
<1>1. \A i \in DOMAIN Tail(u) :
        i \in Nat \ {0} /\ i + 1 \in DOMAIN u /\ Tail(u)[i] = u[i + 1]
    OBVIOUS
<1>2. \A i \in DOMAIN Tail(u) : Tail(u)[i].type # "Login"
    BY <1>1 DEF LoginOnlyFirst
<1> QED BY <1>2 DEF HasLogin, LoginOnlyFirst

LEMMA NoLogins == ~HasLogin(<< >>) /\ LoginOnlyFirst(<< >>)
BY DEF HasLogin, LoginOnlyFirst

\* The queue to a receiver: a packet that is written and one that is read.
LEMMA NumbersAppended ==
    ASSUME NEW q \in Seq(Delivery), NEW e \in Delivery, NEW c \in Clients
    PROVE  /\ Numbers(q, c) \subseteq Numbers(Append(q, e), c)
           /\ Numbers(Append(q, e), c) \subseteq Numbers(q, c) \cup {e.n}
           /\ e.from = c => e.n \in Numbers(Append(q, e), c)
           /\ e.from # c => Numbers(Append(q, e), c) = Numbers(q, c)
<1>1. /\ \A j \in DOMAIN Append(q, e) :
           \/ j \in DOMAIN q /\ Append(q, e)[j] = q[j]
           \/ j = Len(q) + 1 /\ Append(q, e)[j] = e
      /\ \A j \in DOMAIN q : j \in DOMAIN Append(q, e) /\ Append(q, e)[j] = q[j]
      /\ Len(q) + 1 \in DOMAIN Append(q, e) /\ Append(q, e)[Len(q) + 1] = e
    OBVIOUS
<1>2. Numbers(q, c) \subseteq Numbers(Append(q, e), c)
    <2>1. ASSUME NEW i \in DOMAIN q, q[i].from = c
          PROVE  q[i].n \in Numbers(Append(q, e), c)
        <3>1. i \in DOMAIN Append(q, e) /\ Append(q, e)[i] = q[i]
            BY <1>1
        <3> QED BY <2>1, <3>1 DEF Numbers
    <2> QED BY <2>1 DEF Numbers
<1>3. Numbers(Append(q, e), c) \subseteq Numbers(q, c) \cup {e.n}
    BY <1>1 DEF Numbers
<1>4. ASSUME e.from = c PROVE e.n \in Numbers(Append(q, e), c)
    <2>1. PICK k \in DOMAIN Append(q, e) : Append(q, e)[k] = e
        BY <1>1
    <2> QED BY <1>4, <2>1 DEF Numbers
<1>5. e.from # c => Numbers(Append(q, e), c) \subseteq Numbers(q, c)
    BY <1>1 DEF Numbers
<1> QED BY <1>2, <1>3, <1>4, <1>5

LEMMA NumbersTaken ==
    ASSUME NEW q \in Seq(Delivery), q # << >>, NEW c \in Clients
    PROVE  /\ Head(q).from = c => Numbers(q, c) = Numbers(Tail(q), c) \cup {Head(q).n}
           /\ Head(q).from # c => Numbers(q, c) = Numbers(Tail(q), c)
<1>1. /\ \A j \in DOMAIN Tail(q) : j + 1 \in DOMAIN q /\ Tail(q)[j] = q[j + 1]
      /\ \A j \in DOMAIN q :
           \/ j = 1
           \/ j - 1 \in DOMAIN Tail(q) /\ Tail(q)[j - 1] = q[j]
      /\ 1 \in DOMAIN q /\ Head(q) = q[1]
    OBVIOUS
<1>2. Numbers(Tail(q), c) \subseteq Numbers(q, c)
    <2>1. ASSUME NEW j \in DOMAIN Tail(q), Tail(q)[j].from = c
          PROVE  Tail(q)[j].n \in Numbers(q, c)
        <3>1. PICK i \in DOMAIN q : q[i] = Tail(q)[j]
            BY <1>1
        <3> QED BY <2>1, <3>1 DEF Numbers
    <2> QED BY <2>1 DEF Numbers
<1>3. ASSUME NEW i \in DOMAIN q, q[i].from = c
      PROVE  q[i] = Head(q) \/ q[i].n \in Numbers(Tail(q), c)
    <2>1. CASE i = 1
        BY <1>1, <2>1
    <2>2. ASSUME i # 1 PROVE q[i].n \in Numbers(Tail(q), c)
        <3>1. PICK j \in DOMAIN Tail(q) : Tail(q)[j] = q[i]
            BY <1>1, <2>2
        <3> QED BY <1>3, <3>1 DEF Numbers
    <2> QED BY <2>1, <2>2
<1>4. ASSUME Head(q).from = c PROVE Head(q).n \in Numbers(q, c)
    BY <1>1, <1>4 DEF Numbers
<1>5. Numbers(q, c) \subseteq Numbers(Tail(q), c) \cup {Head(q).n}
    BY <1>3 DEF Numbers
<1>6. ASSUME Head(q).from # c PROVE Numbers(q, c) \subseteq Numbers(Tail(q), c)
    BY <1>3, <1>6 DEF Numbers
<1> QED BY <1>2, <1>4, <1>5, <1>6

\* What is read of a sender is newer than what was read before.
LEMMA ReadIsNewer ==
    ASSUME NEW q \in Seq(Delivery), q # << >>, NEW last \in [Clients -> Nat],
           NEW c \in Clients, InOrder(q, last, c), Head(q).from = c
    PROVE  Head(q).n > last[c] /\ Head(q).n \in Nat
<1>1. 1 \in DOMAIN q /\ Head(q) = q[1] /\ q[1] \in Delivery
    OBVIOUS
<1>2. last[c] < q[1].n
    BY <1>1 DEF InOrder
<1> QED BY <1>1, <1>2 DEF Delivery

-----------------------------------------------------------------------------
(***************************************************************************)
(* The steps.  Most of them leave a pair alone, or take the receiver out.  *)
(***************************************************************************)
LEMMA PairKept ==
    ASSUME NEW c \in Clients, NEW d \in Clients, Pair(c, d),
           pc'[c] = pc[c], current'[c] = current[c], to'[c] = to[c], rest'[c] = rest[c],
           Received(c, d)' = Received(c, d),
           d \in sessions' => d \in sessions,
           CanWrite(d)' => CanWrite(d),
           Fresh(d)' => Fresh(d)
    PROVE  Pair(c, d)'
BY DEF Pair, Unseen, Past, Reaches, Pending

LEMMA SameQueue ==
    ASSUME NEW c \in Clients, NEW d \in Clients,
           down'[d] = down[d], shown'[d] = shown[d]
    PROVE  Received(c, d)' = Received(c, d)
BY DEF Received, Numbers

\* A client that connects was not known, and has sent nothing that is relayed.
LEMMA ConnectReach ==
    ASSUME RelayInv, ReachInv, NEW x \in Clients, ConnectAsync(x)
    PROVE  ReachInv'
<1>1. /\ UNCHANGED <<down, shown, current, to, rest, sessions, closed>>
      /\ conn[x] = "away" /\ conn' = [conn EXCEPT ![x] = "open"]
      /\ up' = [up EXCEPT ![x] = <<[type |-> "Login", n |-> 0]>>]
      /\ pc' = [pc EXCEPT ![x] = "receive"]
    BY DEF ConnectAsync, taskVars, tableVars
<1>2. /\ up[x] = << >> /\ pc[x] = "none" /\ current[x] = 0 /\ Fresh(x)
    BY <1>1 DEF ReachInv, Connects, Fresh
<1>3. /\ conn'[x] = "open" /\ up'[x] = <<[type |-> "Login", n |-> 0]>>
      /\ pc'[x] = "receive"
      /\ \A c \in Clients \ {x} : conn'[c] = conn[c] /\ up'[c] = up[c] /\ pc'[c] = pc[c]
    BY <1>1 DEF RelayInv, SocketTypeOK
<1>4. LoginOnlyFirst(up[x])'
    BY <1>3 DEF LoginOnlyFirst
<1>5. ASSUME NEW c \in Clients PROVE Connects(c)'
    BY <1>1, <1>3, <1>4 DEF ReachInv, Connects, LoginOnlyFirst
<1>6. ASSUME NEW c \in Clients, NEW d \in Clients PROVE Pair(c, d)'
    <2>1. Received(c, d)' = Received(c, d) /\ Pair(c, d)
        BY <1>1, SameQueue DEF ReachInv
    <2>2. Fresh(d)' => Fresh(d)
        BY <1>2, <1>3 DEF Fresh, HasLogin
    <2>3. d \in sessions /\ CanWrite(d)' => CanWrite(d)
        BY <1>1, <1>2, <1>3, <2>1 DEF CanWrite, Pair, Unseen
    <2>4. CASE c # x
        BY <1>1, <1>3, <2>1, <2>2, <2>3, <2>4
           DEF Pair, Unseen, Past, Reaches, Pending
    <2>5. CASE c = x
        <3>1. \A n \in Received(c, d) : n <= 0
            BY <1>2, <2>1, <2>5 DEF Pair, Past
        <3>2. \A n \in Received(c, d) : n \in Nat
            <4>1. shown[d][c] \in Nat /\ down[d] \in Seq(Delivery)
                BY DEF RelayInv, SocketTypeOK
            <4>2. \A i \in DOMAIN down[d] : down[d][i] \in Delivery
                BY <4>1
            <4> QED BY <4>1, <4>2 DEF Received, Numbers, Delivery
        <3>3. Received(c, d) # {}
            BY DEF Received
        <3>4. Received(c, d) = {0}
            BY <3>1, <3>2, <3>3
        <3>5. ~Pending(c, d)'
            BY <1>3, <2>5 DEF Pending
        <3>6. Fresh(d) => d \notin sessions'
            BY <1>1, <2>1 DEF Pair, Unseen
        <3> QED BY <1>1, <1>2, <2>1, <2>2, <2>5, <3>4, <3>5, <3>6
                DEF Pair, Unseen, Past, Reaches
    <2> QED BY <2>4, <2>5
<1> QED BY <1>5, <1>6 DEF ReachInv

\* What a client sends after its Login is no Login.
LEMMA SendReach ==
    ASSUME RelayInv, ReachInv, NEW x \in Clients, NEW type \in Kinds,
           SendRelayed(x, type) \/ SendQuiet(x, type)
    PROVE  ReachInv'
<1>1. /\ UNCHANGED <<conn, closed, down, shown, sessions, pc, current, to, rest>>
      /\ type # "Login" /\ conn[x] = "open"
    BY SocketAssumption
       DEF SendRelayed, SendQuiet, CanSend, taskVars, tableVars, Relayed, Quiet
<1>2. up[x] \in Seq(Packet) /\ said[x] \in Nat /\ LoginOnlyFirst(up[x])
    BY DEF RelayInv, SocketTypeOK, ReachInv, Connects
<1>3. PICK p \in Packet : p.type = type /\ up' = [up EXCEPT ![x] = Append(@, p)]
    <2>1. /\ [type |-> type, n |-> said[x] + 1] \in Packet
          /\ [type |-> type, n |-> 0] \in Packet
        BY <1>2 DEF Packet
    <2> QED BY <2>1 DEF SendRelayed, SendQuiet
<1>4. /\ up'[x] = Append(up[x], p)
      /\ \A c \in Clients \ {x} : up'[c] = up[c]
    BY <1>3 DEF RelayInv, SocketTypeOK
<1>5. LoginOnlyFirst(up[x])' /\ (HasLogin(up[x])' => HasLogin(up[x]))
    <2>1. /\ LoginOnlyFirst(Append(up[x], p))
          /\ HasLogin(Append(up[x], p)) => HasLogin(up[x])
        BY <1>1, <1>2, <1>3, LoginsAppended
    <2> QED BY <1>4, <2>1 DEF LoginOnlyFirst, HasLogin
<1>6. ASSUME NEW c \in Clients PROVE Connects(c)'
    BY <1>1, <1>4, <1>5 DEF ReachInv, Connects, LoginOnlyFirst
<1>7. ASSUME NEW c \in Clients, NEW d \in Clients PROVE Pair(c, d)'
    <2>1. Received(c, d)' = Received(c, d) /\ Pair(c, d)
        BY <1>1, SameQueue DEF ReachInv
    <2>2. Fresh(d)' => Fresh(d)
        BY <1>1, <1>4, <1>5 DEF Fresh, HasLogin
    <2>3. CanWrite(d)' => CanWrite(d)
        BY <1>1 DEF CanWrite
    <2> QED BY <1>1, <2>1, <2>2, <2>3, PairKept
<1> QED BY <1>6, <1>7 DEF ReachInv

\* The receiver reads: what it had last is forgotten only for something newer.
LEMMA ReadReach ==
    ASSUME RelayInv, ReachInv, NEW x \in Clients, ReceiveLoop(x)
    PROVE  ReachInv'
<1>1. /\ UNCHANGED <<conn, closed, up, sessions, pc, current, to, rest>>
      /\ down[x] # << >>
      /\ down' = [down EXCEPT ![x] = Tail(@)]
      /\ shown' = [shown EXCEPT ![x] = [@ EXCEPT ![Head(down[x]).from] = Head(down[x]).n]]
    BY DEF ReceiveLoop, taskVars, tableVars
<1>2. PICK q \in Seq(Delivery) : q = down[x]
    BY DEF RelayInv, SocketTypeOK
<1>3. /\ shown \in [Clients -> [Clients -> Nat]] /\ down \in [Clients -> Seq(Delivery)]
      /\ q # << >> /\ Head(q) \in Delivery
    BY <1>1, <1>2 DEF RelayInv, SocketTypeOK
<1>4. /\ down'[x] = Tail(q)
      /\ \A c \in Clients :
           shown'[x][c] = IF c = Head(q).from THEN Head(q).n ELSE shown[x][c]
      /\ \A d \in Clients \ {x} : down'[d] = down[d] /\ shown'[d] = shown[d]
    BY <1>1, <1>2, <1>3 DEF Delivery
<1>5. ASSUME NEW c \in Clients PROVE Connects(c)'
    BY <1>1 DEF ReachInv, Connects, LoginOnlyFirst
<1>6. ASSUME NEW c \in Clients, NEW d \in Clients PROVE Pair(c, d)'
    <2>1. Pair(c, d) /\ (Fresh(d)' = Fresh(d)) /\ (CanWrite(d)' = CanWrite(d))
        BY <1>1 DEF ReachInv, Fresh, CanWrite, HasLogin
    <2>2. CASE d # x
        <3>1. Received(c, d)' = Received(c, d)
            BY <1>4, <2>2, SameQueue
        <3> QED BY <1>1, <2>1, <3>1, PairKept
    <2>3. CASE d = x /\ Head(q).from # c
        <3>1. Numbers(q, c) = Numbers(Tail(q), c)
            BY <1>3, <2>3, NumbersTaken
        <3>2. Received(c, d)' = {shown'[x][c]} \cup Numbers(Tail(q), c)
            <4>1. Numbers(down[d], c)' = Numbers(Tail(q), c)
                <5>1. down'[d] = Tail(q)
                    BY <1>4, <2>3
                <5> QED BY <5>1 DEF Numbers
            <4> QED BY <2>3, <4>1 DEF Received
        <3>3. Received(c, d)' = Received(c, d)
            BY <1>2, <1>4, <2>3, <3>1, <3>2 DEF Received
        <3> QED BY <1>1, <2>1, <3>3, PairKept
    <2>4. CASE d = x /\ Head(q).from = c
        <3>1. Numbers(q, c) = Numbers(Tail(q), c) \cup {Head(q).n}
            BY <1>3, <2>4, NumbersTaken
        <3>2. Received(c, d)' = {Head(q).n} \cup Numbers(Tail(q), c)
            <4>1. Numbers(down[d], c)' = Numbers(Tail(q), c)
                <5>1. down'[d] = Tail(q)
                    BY <1>4, <2>4
                <5> QED BY <5>1 DEF Numbers
            <4>2. shown'[d][c] = Head(q).n
                BY <1>4, <2>4
            <4> QED BY <4>1, <4>2 DEF Received
        <3>3. Received(c, d) = {shown[x][c]} \cup Received(c, d)'
            BY <1>2, <2>4, <3>1, <3>2 DEF Received
        <3>4. Head(q).n > shown[x][c] /\ Head(q).n \in Nat
            <4>1. InOrder(q, shown[x], c) /\ shown[x] \in [Clients -> Nat]
                BY <1>2, <1>3 DEF RelayInv, RelayedInOrder
            <4> QED BY <1>3, <2>4, <4>1, ReadIsNewer
        <3>5. ~Fresh(d)
            <4>1. Head(q).n \in Received(c, d) /\ Head(q).n # 0
                BY <1>3, <3>2, <3>3, <3>4
            <4> QED BY <2>1, <4>1 DEF Pair, Unseen
        <3>6. Past(c, d)'
            BY <1>1, <2>1, <3>3 DEF Pair, Past
        <3>7. Pending(c, d)' = Pending(c, d)
            BY <1>1 DEF Pending
        <3>8. Reaches(c, d)'
            <4>1. SUFFICES ASSUME pc[c] \in {"receive", "send"}, c # d, d \in sessions,
                                  CanWrite(d), ~Pending(c, d)
                           PROVE  current[c] \in Received(c, d)'
                BY <1>1, <2>1, <3>7 DEF Reaches
            <4>2. Received(c, d) # {0}
                <5>1. Head(q).n \in Received(c, d) /\ shown[x][c] \in Nat
                    BY <1>3, <3>2, <3>3
                <5> QED BY <3>4, <5>1
            <4>3. current[c] \in Received(c, d)
                BY <2>1, <4>1, <4>2 DEF Pair, Reaches
            <4>4. Head(q).n <= current[c]
                BY <2>1, <3>2, <3>3, <4>1 DEF Pair, Past
            <4>5. shown[x][c] \in Nat /\ current[c] \in Nat
                BY <1>3 DEF RelayInv, SocketTypeOK
            <4> QED BY <3>3, <3>4, <4>3, <4>4, <4>5
        <3> QED BY <2>1, <3>5, <3>6, <3>8 DEF Pair, Unseen
    <2> QED BY <2>2, <2>3, <2>4
<1> QED BY <1>5, <1>6 DEF ReachInv

\* What is gone with a connection was for one who cannot be written to.
LEMMA DisconnectReach ==
    ASSUME RelayInv, ReachInv, NEW x \in Clients, Disconnect(x)
    PROVE  ReachInv'
<1>1. /\ UNCHANGED <<closed, up, shown, sessions, pc, current, to, rest>>
      /\ conn[x] = "open" /\ conn' = [conn EXCEPT ![x] = "shut"]
      /\ down' = [down EXCEPT ![x] = << >>]
    BY DEF Disconnect, taskVars, tableVars
<1>2. /\ conn'[x] = "shut" /\ down'[x] = << >>
      /\ \A d \in Clients \ {x} : conn'[d] = conn[d] /\ down'[d] = down[d]
    BY <1>1 DEF RelayInv, SocketTypeOK
<1>3. ASSUME NEW c \in Clients PROVE Connects(c)'
    BY <1>1, <1>2 DEF ReachInv, Connects, LoginOnlyFirst
<1>4. ASSUME NEW c \in Clients, NEW d \in Clients PROVE Pair(c, d)'
    <2>1. Pair(c, d)
        BY DEF ReachInv
    <2>2. Fresh(d)' => Fresh(d)
        BY <1>1, <1>2 DEF Fresh, HasLogin
    <2>3. CASE d # x
        <3>1. Received(c, d)' = Received(c, d)
            BY <1>1, <1>2, <2>3, SameQueue
        <3>2. CanWrite(d)' => CanWrite(d)
            BY <1>1, <1>2, <2>3 DEF CanWrite
        <3> QED BY <1>1, <2>1, <2>2, <3>1, <3>2, PairKept
    <2>4. CASE d = x
        <3>1. Numbers(down'[d], c) = {}
            BY <1>2, <2>4 DEF Numbers
        <3>2. Received(c, d)' = {shown[d][c]} /\ shown[d][c] \in Received(c, d)
            BY <1>1, <3>1 DEF Received, Numbers
        <3>3. ~CanWrite(d)'
            BY <1>2, <2>4 DEF CanWrite
        <3>4. Pending(c, d)' = Pending(c, d)
            BY <1>1 DEF Pending
        <3> QED BY <1>1, <2>1, <2>2, <3>2, <3>3, <3>4 DEF Pair, Unseen, Past, Reaches
    <2> QED BY <2>3, <2>4
<1> QED BY <1>3, <1>4 DEF ReachInv

\* A task that takes a packet from its queue: its own Login is gone then.
LEMMA TakenLogin ==
    ASSUME RelayInv, ReachInv, NEW x \in Clients, NEW types, Receives(x, types)
    PROVE  /\ pc[x] = "receive" /\ up[x] # << >> /\ Head(up[x]).type \in types
           /\ conn[x] # "away"
           /\ \A c \in Clients \ {x} : up'[c] = up[c]
           /\ ~HasLogin(up[x])' /\ LoginOnlyFirst(up[x])'
<1>1. /\ pc[x] = "receive" /\ up[x] # << >> /\ up' = [up EXCEPT ![x] = Tail(@)]
      /\ Head(up[x]).type \in types
    BY DEF Receives
<1>2. up'[x] = Tail(up[x]) /\ \A c \in Clients \ {x} : up'[c] = up[c]
    BY <1>1 DEF RelayInv, SocketTypeOK
<1>3. up[x] \in Seq(Packet) /\ LoginOnlyFirst(up[x]) /\ conn[x] # "away"
    BY <1>1 DEF RelayInv, SocketTypeOK, ReachInv, Connects
<1>4. ~HasLogin(Tail(up[x])) /\ LoginOnlyFirst(Tail(up[x]))
    BY <1>1, <1>3, LoginsTaken
<1> QED BY <1>1, <1>2, <1>3, <1>4 DEF HasLogin, LoginOnlyFirst

\* Whose Login is served has received nothing yet; another packet changes
\* nothing that the pairs are about.
LEMMA ServeReach ==
    ASSUME RelayInv, ReachInv, NEW x \in Clients,
           HandleLogin(x) \/ HandleHeartbeat(x) \/ HandleLogout(x)
    PROVE  ReachInv'
<1>1. /\ UNCHANGED <<conn, closed, down, shown, pc, current, to, rest>>
      /\ \/ sessions' = sessions \cup {x} /\ Receives(x, {"Login"})
         \/ sessions' = sessions /\ Receives(x, {"Heartbeat", "Logout"})
    BY DEF HandleLogin, HandleHeartbeat, HandleLogout, clientVars, taskVars, tableVars,
           Receives
<1>2. /\ pc[x] = "receive" /\ up[x] # << >> /\ conn[x] # "away"
      /\ sessions' # sessions => Head(up[x]).type = "Login"
      /\ \A c \in Clients \ {x} : up'[c] = up[c]
      /\ ~HasLogin(up[x])' /\ LoginOnlyFirst(up[x])'
    <2>1. CASE sessions' = sessions \cup {x} /\ Receives(x, {"Login"})
        BY <2>1, TakenLogin
    <2>2. CASE sessions' = sessions /\ Receives(x, {"Heartbeat", "Logout"})
        BY <2>2, TakenLogin
    <2> QED BY <1>1, <2>1, <2>2
<1>3. ASSUME NEW c \in Clients PROVE Connects(c)'
    BY <1>1, <1>2 DEF ReachInv, Connects, LoginOnlyFirst
<1>4. ASSUME sessions' # sessions PROVE Fresh(x)
    <2>1. 1 \in DOMAIN up[x] /\ Head(up[x]) = up[x][1]
        BY <1>2 DEF RelayInv, SocketTypeOK
    <2> QED BY <1>2, <1>4, <2>1 DEF Fresh, HasLogin
<1>5. ASSUME NEW c \in Clients, NEW d \in Clients PROVE Pair(c, d)'
    <2>1. Pair(c, d) /\ Received(c, d)' = Received(c, d) /\ CanWrite(d)' = CanWrite(d)
        BY <1>1, SameQueue DEF ReachInv, CanWrite
    <2>2. CASE d # x \/ sessions' = sessions
        <3>1. Fresh(d)' => Fresh(d)
            BY <1>1, <1>2 DEF Fresh, HasLogin
        <3>2. d \in sessions' => d \in sessions
            BY <1>1, <2>2
        <3> QED BY <1>1, <2>1, <3>1, <3>2, PairKept
    <2>3. CASE d = x /\ sessions' # sessions
        <3>1. ~Fresh(d)'
            BY <1>1, <1>2, <2>3 DEF Fresh
        <3>2. Received(c, d)' = {0}
            BY <1>4, <2>1, <2>3 DEF Pair, Unseen
        <3> QED BY <1>1, <2>1, <3>1, <3>2 DEF Pair, Unseen, Past, Reaches
    <2> QED BY <2>2, <2>3
<1> QED BY <1>3, <1>5 DEF ReachInv

\* The foreach: the sessions that are left are those whose turn comes.
LEMMA GoOnPending ==
    ASSUME SocketTypeOK, NEW c \in Clients, NEW left \in SUBSET Clients, GoOn(c, left)
    PROVE  /\ pc'[c] \in {"receive", "send"}
           /\ \A d \in Clients : Pending(c, d)' <=> d \in left
           /\ \A e \in Clients \ {c} :
                pc'[e] = pc[e] /\ to'[e] = to[e] /\ rest'[e] = rest[e]
<1>1. CASE /\ left = {}
           /\ pc' = [pc EXCEPT ![c] = "receive"]
           /\ to' = [to EXCEPT ![c] = Nobody]
           /\ rest' = [rest EXCEPT ![c] = {}]
    BY <1>1 DEF SocketTypeOK, Pending
<1>2. ASSUME NEW d \in left,
             pc' = [pc EXCEPT ![c] = "send"],
             to' = [to EXCEPT ![c] = d],
             rest' = [rest EXCEPT ![c] = left \ {d}]
      PROVE  /\ pc'[c] \in {"receive", "send"}
             /\ \A e \in Clients : Pending(c, e)' <=> e \in left
             /\ \A e \in Clients \ {c} :
                  pc'[e] = pc[e] /\ to'[e] = to[e] /\ rest'[e] = rest[e]
    <2>1. pc'[c] = "send" /\ to'[c] = d /\ rest'[c] = left \ {d}
        BY <1>2 DEF SocketTypeOK
    <2> QED BY <1>2, <2>1 DEF SocketTypeOK, Pending
<1> QED BY <1>1, <1>2 DEF GoOn

\* Every session of the copy comes to its turn.
LEMMA BroadcastReach ==
    ASSUME RelayInv, ReachInv, NEW x \in Clients, BroadcastAsync(x)
    PROVE  ReachInv'
<1>1. /\ UNCHANGED <<conn, closed, down, shown, sessions>>
      /\ Receives(x, Relayed) /\ GoOn(x, Audience(x))
      /\ current'[x] = Head(up[x]).n
      /\ \A c \in Clients \ {x} : current'[c] = current[c]
    BY DEF BroadcastAsync, clientVars, tableVars, RelayInv, SocketTypeOK
<1>2. /\ pc[x] = "receive" /\ up[x] # << >> /\ conn[x] # "away"
      /\ Head(up[x]).type \in Relayed
      /\ \A c \in Clients \ {x} : up'[c] = up[c]
      /\ ~HasLogin(up[x])' /\ LoginOnlyFirst(up[x])'
    BY <1>1, TakenLogin
<1>3. /\ pc'[x] \in {"receive", "send"}
      /\ \A d \in Clients : Pending(x, d)' <=> d \in Audience(x)
      /\ \A c \in Clients \ {x} : pc'[c] = pc[c] /\ to'[c] = to[c] /\ rest'[c] = rest[c]
    <2>1. SocketTypeOK /\ Audience(x) \in SUBSET Clients
        BY DEF Audience, RelayInv, SocketTypeOK
    <2> QED BY <1>1, <2>1, GoOnPending
<1>4. current[x] < current'[x] /\ current[x] \in Nat /\ current'[x] \in Nat
    <2>1. Head(up[x]) = up[x][1] /\ 1 \in DOMAIN up[x] /\ up[x][1] \in Packet
        BY <1>2 DEF RelayInv, SocketTypeOK
    <2>2. 1 \in RelayedIn(up[x])
        BY <1>2, <2>1 DEF RelayedIn
    <2> QED BY <1>1, <2>1, <2>2 DEF RelayInv, Orderly, UpInOrder, SocketTypeOK, Packet
<1>5. ASSUME NEW c \in Clients PROVE Connects(c)'
    BY <1>1, <1>2, <1>3 DEF ReachInv, Connects, LoginOnlyFirst
<1>6. ASSUME NEW c \in Clients, NEW d \in Clients PROVE Pair(c, d)'
    <2>1. Pair(c, d) /\ Received(c, d)' = Received(c, d) /\ CanWrite(d)' = CanWrite(d)
        BY <1>1, SameQueue DEF ReachInv, CanWrite
    <2>2. Fresh(d)' => Fresh(d)
        BY <1>1, <1>2 DEF Fresh, HasLogin
    <2>3. CASE c # x
        BY <1>1, <1>3, <2>1, <2>2, <2>3, PairKept
    <2>4. CASE c = x
        <3>1. Unseen(c, d)'
            BY <1>1, <1>3, <2>1, <2>2, <2>4 DEF Pair, Unseen, Audience
        <3>2. Past(c, d)'
            <4>1. \A n \in Received(c, d) : n <= current[x] /\ n \in Int
                <5>1. shown[d][c] \in Nat /\ down[d] \in Seq(Delivery)
                    BY DEF RelayInv, SocketTypeOK
                <5>2. \A i \in DOMAIN down[d] : down[d][i] \in Delivery
                    BY <5>1
                <5>3. \A n \in Received(c, d) : n \in Int
                    BY <5>1, <5>2 DEF Received, Numbers, Delivery
                <5> QED BY <1>2, <2>1, <2>4, <5>3 DEF Pair, Past
            <4> QED BY <1>4, <2>1, <2>4, <4>1 DEF Past
        <3>3. Reaches(c, d)'
            BY <1>1, <1>3, <2>4 DEF Reaches, Audience
        <3> QED BY <3>1, <3>2, <3>3 DEF Pair
    <2> QED BY <2>3, <2>4
<1> QED BY <1>5, <1>6 DEF ReachInv

\* The turn of one session: it has the packet, or cannot be written to.
LEMMA TurnReach ==
    ASSUME RelayInv, ReachInv, NEW x \in Clients, SendPacketAsync(x) \/ SendThrows(x)
    PROVE  ReachInv'
<1>1. /\ UNCHANGED <<conn, closed, up, shown, sessions, current>>
      /\ pc[x] = "send" /\ GoOn(x, rest[x])
    BY DEF SendPacketAsync, SendThrows, clientVars, wireVars, tableVars
<1>2. /\ pc'[x] \in {"receive", "send"}
      /\ \A d \in Clients : Pending(x, d)' <=> d \in rest[x]
      /\ \A c \in Clients \ {x} : pc'[c] = pc[c] /\ to'[c] = to[c] /\ rest'[c] = rest[c]
    <2>1. SocketTypeOK /\ rest[x] \in SUBSET Clients
        BY DEF RelayInv, SocketTypeOK
    <2> QED BY <1>1, <2>1, GoOnPending
<1>3. /\ to[x] \in Clients /\ current[x] \in Nat
      /\ down[to[x]] \in Seq(Delivery) /\ DOMAIN down = Clients
    BY <1>1 DEF RelayInv, SocketTypeOK
<1>4. PICK e \in Delivery : e = [from |-> x, n |-> current[x]]
    BY <1>3 DEF Delivery
<1>5. ASSUME NEW c \in Clients PROVE Connects(c)'
    BY <1>1, <1>2 DEF ReachInv, Connects, LoginOnlyFirst
<1>6. ASSUME NEW d \in Clients
      PROVE  /\ \A c \in Clients \ {x} : Received(c, d)' = Received(c, d)
             /\ d # to[x] \/ ~CanWrite(d) => Received(x, d)' = Received(x, d)
             /\ Received(x, d)' \subseteq Received(x, d) \cup {current[x]}
             /\ d = to[x] /\ CanWrite(d) => current[x] \in Received(x, d)'
    <2>1. CASE SendThrows(x) \/ d # to[x]
        <3>1. down'[d] = down[d]
            BY <1>3, <2>1 DEF SendPacketAsync, SendThrows, wireVars
        <3>2. \A c \in Clients : Received(c, d)' = Received(c, d)
            BY <1>1, <3>1, SameQueue
        <3>3. d # to[x] \/ ~CanWrite(d)
            BY <2>1 DEF SendThrows
        <3> QED BY <3>2, <3>3
    <2>2. CASE SendPacketAsync(x) /\ d = to[x]
        <3>1. down'[d] = Append(down[d], e) /\ CanWrite(d)
            BY <1>3, <1>4, <2>2 DEF SendPacketAsync
        <3>2. ASSUME NEW c \in Clients
              PROVE  Received(c, d)' = {shown[d][c]} \cup Numbers(Append(down[d], e), c)
            BY <1>1, <3>1 DEF Received, Numbers
        <3>3. e.from = x /\ e.n = current[x]
            BY <1>4
        <3>4. ASSUME NEW c \in Clients, c # x PROVE Received(c, d)' = Received(c, d)
            BY <1>3, <2>2, <3>2, <3>3, <3>4, NumbersAppended DEF Received
        <3>5. /\ Received(x, d)' \subseteq Received(x, d) \cup {current[x]}
              /\ current[x] \in Received(x, d)'
            BY <1>3, <2>2, <3>2, <3>3, NumbersAppended DEF Received
        <3> QED BY <2>2, <3>1, <3>4, <3>5
    <2> QED BY <2>1, <2>2
<1>7. ASSUME NEW c \in Clients, NEW d \in Clients PROVE Pair(c, d)'
    <2>1. Pair(c, d) /\ CanWrite(d)' = CanWrite(d) /\ Fresh(d)' = Fresh(d)
        BY <1>1 DEF ReachInv, CanWrite, Fresh, HasLogin
    <2>2. CASE c # x
        BY <1>1, <1>2, <1>6, <2>1, <2>2, PairKept
    <2>3. CASE c = x
        <3>1. Pending(x, d) <=> d \in rest[x] \cup {to[x]}
            BY <1>1 DEF Pending
        <3>2. Unseen(c, d)'
            BY <1>1, <1>2, <1>6, <2>1, <2>3, <3>1 DEF Pair, Unseen
        <3>3. Past(c, d)'
            BY <1>1, <1>3, <1>6, <2>1, <2>3 DEF Pair, Past
        <3>4. Reaches(c, d)'
            <4>1. CASE d \in rest[x]
                BY <1>2, <2>3, <4>1 DEF Reaches
            <4>2. CASE d = to[x]
                BY <1>1, <1>6, <2>1, <2>3, <4>2 DEF Reaches
            <4>3. CASE d \notin rest[x] \cup {to[x]}
                BY <1>1, <1>6, <2>1, <2>3, <3>1, <4>3 DEF Pair, Reaches
            <4> QED BY <4>1, <4>2, <4>3
        <3> QED BY <3>2, <3>3, <3>4 DEF Pair
    <2> QED BY <2>2, <2>3
<1> QED BY <1>5, <1>7 DEF ReachInv

\* A session is removed, by its own task.
LEMMA RemoveReach ==
    ASSUME RelayInv, ReachInv, NEW x \in Clients, RemoveSession(x), pc[x] = "receive"
    PROVE  ReachInv'
<1>1. /\ UNCHANGED <<conn, down, shown, to, rest>>
      /\ pc' = [pc EXCEPT ![x] = "ended"]
      /\ sessions' = sessions \ {x}
      /\ closed' = [closed EXCEPT ![x] = TRUE]
      /\ up' = [up EXCEPT ![x] = << >>]
      /\ current' = [current EXCEPT ![x] = 0]
    BY DEF RemoveSession, clientVars
<1>2. /\ pc'[x] = "ended" /\ current'[x] = 0 /\ up'[x] = << >> /\ closed'[x]
      /\ conn[x] # "away"
      /\ \A c \in Clients \ {x} : /\ pc'[c] = pc[c] /\ current'[c] = current[c]
                                  /\ up'[c] = up[c] /\ closed'[c] = closed[c]
    BY <1>1 DEF RelayInv, SocketTypeOK, ReachInv, Connects
<1>3. ASSUME NEW c \in Clients PROVE Connects(c)'
    BY <1>1, <1>2, NoLogins DEF ReachInv, Connects, LoginOnlyFirst
<1>4. ASSUME NEW c \in Clients, NEW d \in Clients PROVE Pair(c, d)'
    <2>1. Pair(c, d) /\ Received(c, d)' = Received(c, d)
        BY <1>1, SameQueue DEF ReachInv
    <2>2. Fresh(d)' => Fresh(d)
        BY <1>1, <1>2 DEF Fresh, HasLogin
    <2>3. (CanWrite(d)' => CanWrite(d)) /\ (d \in sessions' => d \in sessions)
        BY <1>1, <1>2 DEF CanWrite
    <2>4. CASE c # x
        BY <1>1, <1>2, <2>1, <2>2, <2>3, <2>4, PairKept
    <2>5. CASE c = x
        BY <1>2, <2>1, <2>2, <2>3, <2>5 DEF Pair, Unseen, Past, Reaches, Pending
    <2> QED BY <2>4, <2>5
<1> QED BY <1>3, <1>4 DEF ReachInv

\* The check, the stop and the end of the process take sessions out.
LEMMA ServerReach ==
    ASSUME RelayInv, ReachInv, HeartbeatCheck \/ Stop \/ Exit \/ UNCHANGED vars
    PROVE  ReachInv'
<1>1. CASE HeartbeatCheck \/ Stop \/ UNCHANGED vars
    <2>1. /\ UNCHANGED <<conn, up, down, shown, pc, current, to, rest>>
          /\ sessions' \subseteq sessions
          /\ \A c \in Clients : closed[c] => closed'[c]
        BY <1>1 DEF HeartbeatCheck, Stop, vars, clientVars, wireVars, taskVars, tableVars
    <2>2. ASSUME NEW c \in Clients PROVE Connects(c)'
        BY <2>1 DEF ReachInv, Connects, LoginOnlyFirst
    <2>3. ASSUME NEW c \in Clients, NEW d \in Clients PROVE Pair(c, d)'
        <3>1. Pair(c, d) /\ Received(c, d)' = Received(c, d)
            BY <2>1, SameQueue DEF ReachInv
        <3>2. (Fresh(d)' => Fresh(d)) /\ (CanWrite(d)' => CanWrite(d))
            BY <2>1 DEF Fresh, HasLogin, CanWrite
        <3> QED BY <2>1, <3>1, <3>2, PairKept
    <2> QED BY <2>2, <2>3 DEF ReachInv
<1>2. CASE Exit
    <2>1. /\ sessions' = {}
          /\ \A c \in Clients : /\ conn'[c] = "shut" /\ pc'[c] = "ended"
                                /\ up'[c] = << >>
        BY <1>2 DEF Exit
    <2>2. ASSUME NEW c \in Clients PROVE Connects(c)'
        BY <2>1, NoLogins DEF Connects, LoginOnlyFirst
    <2>3. ASSUME NEW d \in Clients PROVE ~Fresh(d)'
        BY <2>1 DEF Fresh, HasLogin
    <2>4. ASSUME NEW c \in Clients, NEW d \in Clients PROVE Pair(c, d)'
        BY <2>1, <2>3 DEF Pair, Unseen, Past, Reaches
    <2> QED BY <2>2, <2>4 DEF ReachInv
<1> QED BY <1>1, <1>2

LEMMA ReachInit == SocketInit => ReachInv
<1> SUFFICES ASSUME SocketInit PROVE ReachInv
    OBVIOUS
<1>1. /\ sessions = {}
      /\ \A c \in Clients : /\ conn[c] = "away" /\ up[c] = << >> /\ down[c] = << >>
                            /\ pc[c] = "none" /\ current[c] = 0
                            /\ \A d \in Clients : shown[c][d] = 0
    BY DEF SocketInit
<1>2. ASSUME NEW c \in Clients PROVE Connects(c)
    BY <1>1, NoLogins DEF Connects
<1>3. ASSUME NEW c \in Clients, NEW d \in Clients PROVE Pair(c, d)
    <2>1. Received(c, d) = {0}
        BY <1>1 DEF Received, Numbers
    <2> QED BY <1>1, <2>1 DEF Pair, Unseen, Past, Reaches, Pending
<1> QED BY <1>2, <1>3 DEF ReachInv

LEMMA ReachStep == RelayInv /\ ReachInv /\ [SocketNext]_vars => ReachInv'
<1> SUFFICES ASSUME RelayInv, ReachInv, [SocketNext]_vars PROVE ReachInv'
    OBVIOUS
<1>1. ASSUME NEW c \in Clients, ClientStep(c) PROVE ReachInv'
    BY <1>1, ConnectReach, SendReach, ReadReach, DisconnectReach DEF ClientStep
<1>2. ASSUME NEW c \in Clients, HandleClientAsync(c) PROVE ReachInv'
    BY <1>2, ServeReach, BroadcastReach, TurnReach, RemoveReach
       DEF HandleClientAsync, ReceiveEnds, ReceivePartialHeader
<1> QED BY <1>1, <1>2, ServerReach DEF SocketNext, Over

(***************************************************************************)
(* A receiver that fails costs nobody else a packet: who has received      *)
(* something of another player, and is still connected, has the last       *)
(* packet of it that was served (GameServer.cs:122-144, the catch in the   *)
(* foreach), whoever logs in, is timed out or leaves meanwhile.            *)
(***************************************************************************)
THEOREM MissTheorem == SocketSpec => []NoneMissed
<1>1. SocketInit => RelayInv /\ ReachInv
    BY RelayInit, ReachInit
<1>2. RelayInv /\ ReachInv /\ [SocketNext]_vars => (RelayInv /\ ReachInv)'
    BY RelayStep, ReachStep
<1>3. ReachInv => NoneMissed
    BY DEF ReachInv, Pair, Reaches, Pending, Received, NoneMissed
<1> QED BY <1>1, <1>2, <1>3, PTL DEF SocketSpec

=============================================================================
