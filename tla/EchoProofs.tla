------------------------------- MODULE EchoProofs -------------------------------
(***************************************************************************)
(* The echo servers and their clients: for any clients, any bounds and any *)
(* buffers.                                                                *)
(***************************************************************************)
EXTENDS EchoNetwork, SequenceTheorems, TLAPS

-----------------------------------------------------------------------------
(***************************************************************************)
(* Parts of streams.                                                       *)
(***************************************************************************)
\* A call of send or recv cuts a stream in two that follow each other.
LEMMA Cut ==
    ASSUME NEW s \in Seq(Nat), NEW n \in 1..Len(s)
    PROVE  /\ First(s, n) \in Seq(Nat) /\ Len(First(s, n)) = n
           /\ Rest(s, n) \in Seq(Nat) /\ Len(Rest(s, n)) = Len(s) - n
           /\ \A m \in Nat :
                Follows(s, m) => /\ Follows(First(s, n), m) /\ Follows(Rest(s, n), m + n)
                                 /\ s[n] = m + n
<1>1. /\ First(s, n) \in Seq(Nat) /\ Len(First(s, n)) = n
      /\ \A k \in 1..n : First(s, n)[k] = s[k]
  BY SubSeqProperties DEF First
<1>2. /\ Rest(s, n) \in Seq(Nat) /\ Len(Rest(s, n)) = Len(s) - n
      /\ \A k \in 1..(Len(s) - n) : Rest(s, n)[k] = s[n + k]
  BY SubSeqProperties DEF Rest
<1>3. ASSUME NEW m \in Nat, Follows(s, m)
      PROVE  /\ Follows(First(s, n), m) /\ Follows(Rest(s, n), m + n)
             /\ s[n] = m + n
  <2>1. \A k \in 1..Len(s) : s[k] = m + k
    BY <1>3 DEF Follows
  <2>2. \A k \in 1..n : First(s, n)[k] = m + k
    <3> TAKE k \in 1..n
    <3>1. k \in 1..Len(s)
      OBVIOUS
    <3> QED
      BY <1>1, <2>1, <3>1
  <2>3. \A k \in 1..(Len(s) - n) : Rest(s, n)[k] = (m + n) + k
    <3> TAKE k \in 1..(Len(s) - n)
    <3>1. n + k \in 1..Len(s) /\ m + (n + k) = (m + n) + k
      OBVIOUS
    <3> QED
      BY <1>2, <2>1, <3>1
  <2>4. DOMAIN First(s, n) = 1..n /\ DOMAIN Rest(s, n) = 1..(Len(s) - n)
    BY <1>1, <1>2
  <2> QED
    BY <2>1, <2>2, <2>3, <2>4 DEF Follows
<1> QED
  BY <1>1, <1>2, <1>3

LEMMA NothingRests ==
    ASSUME NEW s \in Seq(Nat)
    PROVE  Rest(s, Len(s)) = << >>
BY SubSeqEmpty DEF Rest

LEMMA NothingFollows == \A n : Follows(<< >>, n)
BY DEF Follows

\* Bytes that follow may be appended.
LEMMA Joined ==
    ASSUME NEW s \in Seq(Nat), NEW t \in Seq(Nat)
    PROVE  /\ s \o t \in Seq(Nat) /\ Len(s \o t) = Len(s) + Len(t)
           /\ \A m \in Nat :
                Follows(s, m) /\ Follows(t, m + Len(s)) => Follows(s \o t, m)
<1>1. /\ s \o t \in Seq(Nat) /\ Len(s \o t) = Len(s) + Len(t)
      /\ \A k \in 1..(Len(s) + Len(t)) :
           (s \o t)[k] = IF k <= Len(s) THEN s[k] ELSE t[k - Len(s)]
  BY ConcatProperties
<1>2. ASSUME NEW m \in Nat, Follows(s, m), Follows(t, m + Len(s))
      PROVE  Follows(s \o t, m)
  <2> SUFFICES ASSUME NEW k \in 1..(Len(s) + Len(t))
               PROVE  (s \o t)[k] = m + k
    BY <1>1 DEF Follows
  <2>1. CASE k <= Len(s)
    BY <1>1, <1>2, <2>1 DEF Follows
  <2>2. CASE k > Len(s)
    BY <1>1, <1>2, <2>2 DEF Follows
  <2> QED
    BY <2>1, <2>2
<1> QED
  BY <1>1, <1>2

\* erase closes the gap that it makes.
LEMMA Erasing ==
    ASSUME sockets \in Seq(Clients), NEW k \in 1..Len(sockets)
    PROVE  /\ Erased(k) \in Seq(Clients) /\ Len(Erased(k)) = Len(sockets) - 1
           /\ \A n \in 1..(Len(sockets) - 1) :
                Erased(k)[n] = IF n < k THEN sockets[n] ELSE sockets[n + 1]
<1> DEFINE s == SubSeq(sockets, 1, k - 1)
           t == SubSeq(sockets, k + 1, Len(sockets))
<1>1. /\ s \in Seq(Clients) /\ Len(s) = k - 1
      /\ \A n \in 1..(k - 1) : s[n] = sockets[n]
  BY SubSeqProperties
<1>2. /\ t \in Seq(Clients) /\ Len(t) = Len(sockets) - k
      /\ \A n \in 1..(Len(sockets) - k) : t[n] = sockets[k + n]
  BY SubSeqProperties
<1> HIDE DEF s, t
<1>3. /\ s \o t \in Seq(Clients) /\ Len(s \o t) = Len(sockets) - 1
      /\ \A n \in 1..(Len(sockets) - 1) :
           (s \o t)[n] = IF n <= k - 1 THEN s[n] ELSE t[n - (k - 1)]
  <2>1. /\ s \o t \in Seq(Clients) /\ Len(s \o t) = Len(s) + Len(t)
        /\ \A n \in 1..(Len(s) + Len(t)) :
             (s \o t)[n] = IF n <= Len(s) THEN s[n] ELSE t[n - Len(s)]
    BY <1>1, <1>2, ConcatProperties
  <2>2. Len(s) + Len(t) = Len(sockets) - 1
    BY <1>1, <1>2
  <2> QED
    BY <1>1, <2>1, <2>2
<1>4. Erased(k) = s \o t
  BY DEF Erased, s, t
<1>5. ASSUME NEW n \in 1..(Len(sockets) - 1)
      PROVE  (s \o t)[n] = IF n < k THEN sockets[n] ELSE sockets[n + 1]
  <2>1. CASE n < k
    BY <1>1, <1>3, <2>1
  <2>2. CASE n >= k
    <3>1. n - (k - 1) \in 1..(Len(sockets) - k) /\ k + (n - (k - 1)) = n + 1
      BY <2>2
    <3>2. (s \o t)[n] = t[n - (k - 1)]
      BY <1>3, <2>2
    <3>3. t[n - (k - 1)] = sockets[k + (n - (k - 1))]
      BY <1>2, <3>1
    <3> QED
      BY <2>2, <3>1, <3>2, <3>3
  <2>3. n < k \/ n >= k
    OBVIOUS
  <2> QED
    BY <2>1, <2>2, <2>3
<1> QED
  BY <1>3, <1>4, <1>5

-----------------------------------------------------------------------------
(***************************************************************************)
(* The inductive invariant.                                                *)
(***************************************************************************)
\* The connection of one client: where its main thread is, its end and the
\* server's, the reset, the bytes up and down, those in the server and those
\* of the line, and how many were sent and received.  A line is numbered on
\* from what was sent; a socket exists from connect to closesocket; a reset
\* leaves nothing; and the bytes in flight follow each other.
Sound(place, ours, theirs, lost, u, d, held, line, s, g) ==
    /\ place = "start" => /\ ours = "none" /\ theirs = "none" /\ ~lost
                          /\ u = << >> /\ d = << >> /\ held = << >> /\ s = 0 /\ g = 0
    /\ place \in {"input", "sendall", "send", "recv", "close"} => ours = "open"
    /\ Follows(line, s)
    /\ lost => u = << >> /\ d = << >>
    /\ ours = "open" /\ ~lost =>
         /\ Follows(d, g) /\ Follows(held, g + Len(d))
         /\ g + Len(d) + Len(held) <= s
         /\ theirs # "closed" =>
              /\ Follows(u, g + Len(d) + Len(held))
              /\ s = g + Len(d) + Len(held) + Len(u)

Stream(c) ==
    Sound(main[c], clientEnd[c], serverEnd[c], broken[c], up[c], down[c],
          InServer(c), rest[c], sent[c], got[c])

\* One server at most has the port.
OneServer == pc = "off" \/ single = "off"

\* What select found lasts until the loop has been there.
ReadyLasts ==
    /\ pc = "accept" =>
         \A c \in ready \ {Listener} : c \in Listed /\ Readable(c)
    /\ pc \in {"scan", "send"} =>
         \A k \in DOMAIN sockets :
           k >= i /\ (k = i => pc = "scan") /\ sockets[k] \in ready => Readable(sockets[k])

ServerOwns ==
    /\ OneServer
    /\ pc \in {"off", "ended", "crashed"} => sockets = << >>
    /\ \A c \in Clients : serverEnd[c] = "open" <=> c \in Served
    /\ \A j, k \in DOMAIN sockets : sockets[j] = sockets[k] => j = k

NetInv == NetTypeOK /\ ServerOwns /\ ReadyLasts /\ \A c \in Clients : Stream(c)

-----------------------------------------------------------------------------
LEMMA NetInitHolds == NetInit => NetInv
<1> SUFFICES ASSUME NetInit
             PROVE  NetInv
  OBVIOUS
<1> USE DEF NetInit, SocketsInit, ClientsInit, SelectInit, SingleInit
<1>1. NetTypeOK
  BY SocketsAssumption DEF NetTypeOK, SocketsTypeOK, ClientsTypeOK, SelectTypeOK, SingleTypeOK
<1>2. ServerOwns /\ ReadyLasts
  BY DEF ServerOwns, OneServer, ReadyLasts, Served, Listed
<1>3. \A c \in Clients : Stream(c)
  BY NothingFollows DEF Stream, Sound, InServer
<1> QED
  BY <1>1, <1>2, <1>3 DEF NetInv

\* A reset, or none, keeps the types.
LEMMA ResetTyped ==
    ASSUME SocketsTypeOK, NEW c \in Clients,
           \/ UNCHANGED <<broken, up, down>>
           \/ /\ broken' = [broken EXCEPT ![c] = TRUE]
              /\ up' = [up EXCEPT ![c] = << >>] /\ down' = [down EXCEPT ![c] = << >>]
    PROVE  /\ broken' \in [Clients -> BOOLEAN]
           /\ up' \in [Clients -> Seq(Nat)] /\ down' \in [Clients -> Seq(Nat)]
<1>1. << >> \in Seq(Nat)
  OBVIOUS
<1>2. CASE UNCHANGED <<broken, up, down>>
  BY <1>2 DEF SocketsTypeOK
<1>3. CASE up' = [up EXCEPT ![c] = << >>] /\ down' = [down EXCEPT ![c] = << >>]
           /\ broken' = [broken EXCEPT ![c] = TRUE]
  <2>1. broken' \in [Clients -> BOOLEAN]
    BY <1>3 DEF SocketsTypeOK
  <2>2. up' \in [Clients -> Seq(Nat)]
    BY <1>1, <1>3 DEF SocketsTypeOK
  <2>3. down' \in [Clients -> Seq(Nat)]
    BY <1>1, <1>3 DEF SocketsTypeOK
  <2> QED
    BY <2>1, <2>2, <2>3
<1> QED
  BY <1>2, <1>3

-----------------------------------------------------------------------------
(***************************************************************************)
(* Steps of a client.                                                      *)
(***************************************************************************)
\* A step that touches one connection.
Apart(c) ==
    \A x \in Clients \ {c} :
      /\ main'[x] = main[x] /\ rest'[x] = rest[x]
      /\ clientEnd'[x] = clientEnd[x] /\ serverEnd'[x] = serverEnd[x]
      /\ broken'[x] = broken[x] /\ up'[x] = up[x] /\ down'[x] = down[x]
      /\ sent'[x] = sent[x] /\ got'[x] = got[x]

ServersIdle == UNCHANGED <<selectVars, singleVars>>

\* What is left to show of a step that leaves the servers where they are.
LEMMA ClientStep ==
    ASSUME NetInv, NEW c \in Clients, ServersIdle, NetTypeOK', Apart(c), Stream(c)',
           serverEnd[c] = "open" <=> serverEnd'[c] = "open",
           Readable(c) => Readable(c)'
    PROVE  NetInv'
<1>1. /\ pc' = pc /\ sockets' = sockets /\ ready' = ready /\ i' = i /\ data' = data
      /\ single' = single /\ peer' = peer /\ echo' = echo
  BY DEF ServersIdle, selectVars, singleVars
<1>2. ServerOwns'
  BY <1>1 DEF NetInv, ServerOwns, OneServer, Served, Listed, Apart
<1>3. ASSUME NEW x \in Clients, Readable(x)
      PROVE  Readable(x)'
  BY <1>3 DEF Apart, Readable
<1>4. ReadyLasts'
  <2>1. \A x \in ready \ {Listener} : x \in Clients
    BY DEF NetInv, NetTypeOK, SelectTypeOK
  <2>2. \A n \in DOMAIN sockets : sockets[n] \in Clients
    BY DEF NetInv, NetTypeOK, SelectTypeOK
  <2>3. (\A x \in Clients : Readable(x) => Readable(x)') /\ Listed' = Listed
    BY <1>1, <1>3 DEF Listed
  <2> QED
    BY <1>1, <2>1, <2>2, <2>3 DEF NetInv, ReadyLasts
<1>5. ASSUME NEW x \in Clients, x # c
      PROVE  Stream(x)'
  <2>1. InServer(x)' = InServer(x)
    BY <1>1 DEF InServer
  <2> QED
    BY <2>1, <1>5 DEF NetInv, Stream, Apart
<1> QED
  BY <1>2, <1>4, <1>5 DEF NetInv

\* The bytes of the connection and in the server are of the types they have.
LEMMA StreamTypes ==
    ASSUME NetInv, NEW c \in Clients
    PROVE  /\ clientEnd[c] \in {"none", "open", "closed"}
           /\ serverEnd[c] \in {"none", "backlog", "open", "closed"} /\ broken[c] \in BOOLEAN
           /\ up[c] \in Seq(Nat) /\ down[c] \in Seq(Nat) /\ InServer(c) \in Seq(Nat)
           /\ rest[c] \in Seq(Nat) /\ sent[c] \in Nat /\ got[c] \in Nat
           /\ Sound(main[c], clientEnd[c], serverEnd[c], broken[c], up[c], down[c],
                    InServer(c), rest[c], sent[c], got[c])
<1>1. /\ clientEnd[c] \in {"none", "open", "closed"}
      /\ serverEnd[c] \in {"none", "backlog", "open", "closed"} /\ broken[c] \in BOOLEAN
      /\ up[c] \in Seq(Nat) /\ down[c] \in Seq(Nat)
      /\ rest[c] \in Seq(Nat) /\ sent[c] \in Nat /\ got[c] \in Nat
  BY DEF NetInv, NetTypeOK, SocketsTypeOK, ClientsTypeOK
<1>2. << >> \in Seq(Nat) /\ data \in Seq(Nat) /\ echo \in Seq(Nat)
  BY DEF NetInv, NetTypeOK, SelectTypeOK, SingleTypeOK
<1> QED
  BY <1>1, <1>2 DEF InServer, NetInv, Stream

LEMMA ConnectStep ==
    ASSUME NetInv, NEW c \in Clients, ServersIdle, ClientConnects(c)
    PROVE  NetInv'
<1>1. InServer(c)' = InServer(c)
  BY DEF InServer, ServersIdle, selectVars, singleVars
<1>2. CASE Connected(c, Listening) /\ receiver' \in [Clients -> {"none", "loop", "ended"}]
  <2>1. NetTypeOK'
    BY <1>2 DEF NetInv, NetTypeOK, SocketsTypeOK, ClientsTypeOK, SelectTypeOK, SingleTypeOK,
       Connected, ServersIdle, selectVars, singleVars
  <2>2. Apart(c)
    BY <1>2 DEF NetInv, NetTypeOK, SocketsTypeOK, ClientsTypeOK, Connected, Apart
  <2>3. Stream(c)' /\ serverEnd[c] = "none" /\ serverEnd'[c] = "backlog"
                 /\ up'[c] = up[c] /\ broken'[c] = broken[c] /\ clientEnd[c] = "none"
    BY <1>1, <1>2, StreamTypes, NothingFollows
       DEF NetInv, NetTypeOK, SocketsTypeOK, ClientsTypeOK, Connected, Stream, Sound
  <2> QED
    BY <2>1, <2>2, <2>3, ClientStep DEF Readable
<1>3. CASE ConnectFails(c)
  <2>1. NetTypeOK'
    BY <1>3 DEF NetInv, NetTypeOK, SocketsTypeOK, ClientsTypeOK, SelectTypeOK, SingleTypeOK,
       ConnectFails, socketVars, ServersIdle, selectVars, singleVars
  <2>2. Apart(c)
    BY <1>3 DEF NetInv, NetTypeOK, ClientsTypeOK, ConnectFails, socketVars, Apart
  <2>3. Stream(c)'
    BY <1>1, <1>3, StreamTypes
       DEF NetInv, NetTypeOK, ClientsTypeOK, ConnectFails, socketVars, Stream, Sound
  <2> QED
    BY <1>3, <2>1, <2>2, <2>3, ClientStep DEF Readable, ConnectFails, socketVars
<1> QED
  BY <1>2, <1>3 DEF ClientConnects, ConnectThreaded, ConnectPlain, Connected, NetInv, NetTypeOK, ClientsTypeOK

\* A line goes on from the bytes that were sent.
LEMMA Numbered ==
    ASSUME NetInv, NEW c \in Clients, NEW n \in Nat
    PROVE  Line(c, n) \in Seq(Nat) /\ Follows(Line(c, n), sent[c])
<1>1. sent[c] \in Nat
  BY StreamTypes
<1>2. Line(c, n) = [k \in 1..n |-> sent[c] + k]
  BY DEF Line
<1>3. Line(c, n) \in [1..n -> Nat]
  BY <1>1, <1>2
<1>4. Line(c, n) \in Seq(Nat)
  BY <1>3
<1>5. DOMAIN Line(c, n) = 1..n /\ \A k \in 1..n : Line(c, n)[k] = sent[c] + k
  BY <1>2
<1> QED
  BY <1>4, <1>5 DEF Follows

LEMMA UserStep ==
    ASSUME NetInv, NEW c \in Clients, ServersIdle, User(c)
    PROVE  NetInv'
<1> USE DEF socketVars
<1>1. InServer(c)' = InServer(c)
  BY DEF InServer, ServersIdle, selectVars, singleVars
<1>2. PICK n \in Nat : GetLine(c, n) \/ GetPlainLine(c, n) \/ Quit(c) \/ QuitPlain(c)
  BY ClientsAssumption DEF User
<1>3. n \in Nat
  BY <1>2
<1>4. PICK place \in {"input", "sendall", "send", "recv", "close"}, line \in {rest[c], Line(c, n)} :
        /\ main[c] = "input"
        /\ main' = [main EXCEPT ![c] = place] /\ rest' = [rest EXCEPT ![c] = line]
        /\ running' \in [Clients -> BOOLEAN] /\ receiver' = receiver /\ UNCHANGED socketVars
  <2>1. rest = [rest EXCEPT ![c] = rest[c]] /\ running \in [Clients -> BOOLEAN]
    BY DEF NetInv, NetTypeOK, ClientsTypeOK
  <2>2. CASE GetLine(c, n)
    BY <2>1, <2>2 DEF GetLine
  <2>3. CASE GetPlainLine(c, n)
    BY <2>1, <2>3 DEF GetPlainLine
  <2>4. CASE Quit(c) \/ QuitPlain(c)
    BY <2>1, <2>4 DEF Quit, QuitPlain
  <2> QED
    BY <1>2, <2>2, <2>3, <2>4
<1>5. line \in Seq(Nat) /\ Follows(line, sent[c])
  BY <1>3, Numbered, StreamTypes DEF Sound
<1>6. NetTypeOK'
  <2>1. SocketsTypeOK' /\ SelectTypeOK' /\ SingleTypeOK'
    BY <1>4 DEF NetInv, NetTypeOK, SocketsTypeOK, SelectTypeOK, SingleTypeOK,
       ServersIdle, selectVars, singleVars
  <2>2. ClientsTypeOK'
    BY <1>4, <1>5 DEF NetInv, NetTypeOK, ClientsTypeOK
  <2> QED
    BY <2>1, <2>2 DEF NetTypeOK
<1>7. Apart(c)
  BY <1>4 DEF NetInv, NetTypeOK, ClientsTypeOK, Apart
<1>8. Stream(c)'
  <2>1. main'[c] = place /\ rest'[c] = line /\ UNCHANGED socketVars
    BY <1>4 DEF NetInv, NetTypeOK, ClientsTypeOK
  <2>2. Sound(place, clientEnd[c], serverEnd[c], broken[c], up[c], down[c], InServer(c),
              line, sent[c], got[c])
    BY <1>4, <1>5, StreamTypes DEF Sound
  <2> QED
    BY <1>1, <2>1, <2>2 DEF Stream
<1> QED
  BY <1>4, <1>6, <1>7, <1>8, ClientStep DEF Readable

-----------------------------------------------------------------------------
(***************************************************************************)
(* Sending: part of the line goes up.                                      *)
(***************************************************************************)
LEMMA SendStep ==
    ASSUME NetInv, NEW c \in Clients, ServersIdle, SendALL(c) \/ PlainSend(c)
    PROVE  NetInv'
<1>1. InServer(c)' = InServer(c)
  BY DEF InServer, ServersIdle, selectVars, singleVars
<1>2. PICK n \in 1..Len(rest[c]) :
        /\ main[c] \in {"sendall", "send"} /\ ~broken[c]
        /\ WriteUp(c, First(rest[c], n))
        /\ sent' = [sent EXCEPT ![c] = @ + n]
        /\ rest' = [rest EXCEPT ![c] = Rest(@, n)]
        /\ \E place \in {"input", "sendall", "send", "recv"} : main' = [main EXCEPT ![c] = place]
        /\ UNCHANGED <<clientEnd, serverEnd, got, running, receiver>>
  BY DEF SendALL, PlainSend
<1>3. /\ up[c] \in Seq(Nat) /\ down[c] \in Seq(Nat) /\ InServer(c) \in Seq(Nat)
      /\ rest[c] \in Seq(Nat) /\ sent[c] \in Nat /\ got[c] \in Nat
      /\ clientEnd[c] = "open" /\ Follows(rest[c], sent[c])
      /\ Follows(down[c], got[c]) /\ Follows(InServer(c), got[c] + Len(down[c]))
      /\ got[c] + Len(down[c]) + Len(InServer(c)) <= sent[c]
      /\ serverEnd[c] # "closed" =>
           /\ Follows(up[c], got[c] + Len(down[c]) + Len(InServer(c)))
           /\ sent[c] = got[c] + Len(down[c]) + Len(InServer(c)) + Len(up[c])
  BY <1>2, StreamTypes DEF Sound
<1> DEFINE front == First(rest[c], n)
           back == Rest(rest[c], n)
<1>4. /\ front \in Seq(Nat) /\ Len(front) = n /\ back \in Seq(Nat)
      /\ Follows(front, sent[c]) /\ Follows(back, sent[c] + n)
  BY <1>3, Cut
<1> HIDE DEF front, back
<1>5. /\ up[c] \o front \in Seq(Nat) /\ Len(up[c] \o front) = Len(up[c]) + n
      /\ serverEnd[c] # "closed" =>
           Follows(up[c] \o front, got[c] + Len(down[c]) + Len(InServer(c)))
  <2> DEFINE m == got[c] + Len(down[c]) + Len(InServer(c))
  <2>1. m \in Nat
    BY <1>3
  <2>2. /\ up[c] \o front \in Seq(Nat) /\ Len(up[c] \o front) = Len(up[c]) + n
        /\ Follows(up[c], m) /\ Follows(front, m + Len(up[c])) => Follows(up[c] \o front, m)
    <3>1. up[c] \in Seq(Nat) /\ front \in Seq(Nat) /\ Len(front) = n
      BY <1>3, <1>4
    <3> QED
      BY <2>1, <3>1, Joined
  <2>3. serverEnd[c] # "closed" => Follows(up[c], m) /\ sent[c] = m + Len(up[c])
    BY <1>3
  <2> HIDE DEF m
  <2>4. serverEnd[c] # "closed" => Follows(up[c] \o front, m)
    BY <1>4, <2>2, <2>3
  <2> QED
    BY <2>2, <2>4 DEF m
<1>6. \/ /\ serverEnd[c] # "closed" /\ up' = [up EXCEPT ![c] = up[c] \o front]
         /\ UNCHANGED <<broken, down>>
      \/ /\ serverEnd[c] = "closed" /\ broken' = [broken EXCEPT ![c] = TRUE]
         /\ up' = [up EXCEPT ![c] = << >>] /\ down' = [down EXCEPT ![c] = << >>]
  BY <1>2 DEF WriteUp, Reset, front
<1>7. rest' = [rest EXCEPT ![c] = back]
  BY <1>2 DEF back
<1>8. NetTypeOK'
  <2>1. SelectTypeOK' /\ SingleTypeOK'
    BY DEF NetInv, NetTypeOK, SelectTypeOK, SingleTypeOK, ServersIdle, selectVars, singleVars
  <2>2. << >> \in Seq(Nat) /\ sent[c] + n \in Nat
    BY <1>3
  <2>3. SocketsTypeOK'
    <3> DEFINE Typed == /\ broken' \in [Clients -> BOOLEAN]
                        /\ up' \in [Clients -> Seq(Nat)] /\ down' \in [Clients -> Seq(Nat)]
    <3>3. /\ sent' \in [Clients -> Nat] /\ got' \in [Clients -> Nat]
          /\ clientEnd' = clientEnd /\ serverEnd' = serverEnd
      BY <1>2, <2>2 DEF NetInv, NetTypeOK, SocketsTypeOK
    <3>1. CASE up' = [up EXCEPT ![c] = up[c] \o front] /\ UNCHANGED <<broken, down>>
      <4>1. Typed
        BY <1>5, <3>1 DEF NetInv, NetTypeOK, SocketsTypeOK
      <4> QED
        BY <3>3, <4>1 DEF NetInv, NetTypeOK, SocketsTypeOK
    <3>2. CASE /\ broken' = [broken EXCEPT ![c] = TRUE]
               /\ up' = [up EXCEPT ![c] = << >>] /\ down' = [down EXCEPT ![c] = << >>]
      <4>1. Typed
        BY <3>2, ResetTyped DEF NetInv, NetTypeOK
      <4> QED
        BY <3>3, <4>1 DEF NetInv, NetTypeOK, SocketsTypeOK
    <3> QED
      BY <1>6, <3>1, <3>2
  <2>4. ClientsTypeOK'
    BY <1>2, <1>4, <1>7 DEF NetInv, NetTypeOK, ClientsTypeOK
  <2> QED
    BY <2>1, <2>3, <2>4 DEF NetTypeOK
<1>9. Apart(c)
  BY <1>2, <1>6, <1>7 DEF NetInv, NetTypeOK, SocketsTypeOK, ClientsTypeOK, Apart
<1>10. /\ main'[c] \in {"input", "sendall", "send", "recv"}
       /\ sent'[c] = sent[c] + n /\ rest'[c] = back /\ UNCHANGED <<clientEnd, serverEnd, got>>
       /\ \/ /\ serverEnd[c] # "closed" /\ up'[c] = up[c] \o front
             /\ broken'[c] = broken[c] /\ down'[c] = down[c]
          \/ broken'[c] /\ up'[c] = << >> /\ down'[c] = << >>
  BY <1>2, <1>6, <1>7 DEF NetInv, NetTypeOK, SocketsTypeOK, ClientsTypeOK
<1>11. Stream(c)'
  <2>1. Sound(main'[c], clientEnd[c], serverEnd[c], broken'[c], up'[c], down'[c], InServer(c),
              back, sent[c] + n, got[c])
    <3>1. CASE serverEnd[c] # "closed" /\ up'[c] = up[c] \o front
               /\ broken'[c] = broken[c] /\ down'[c] = down[c]
      <4>1. /\ got[c] + Len(down[c]) + Len(InServer(c)) <= sent[c] + n
            /\ sent[c] + n = got[c] + Len(down[c]) + Len(InServer(c)) + Len(up[c] \o front)
        <5> DEFINE g == got[c]
                   d == Len(down[c])
                   h == Len(InServer(c))
                   u == Len(up[c])
                   t == sent[c]
        <5>1. g \in Nat /\ d \in Nat /\ h \in Nat /\ u \in Nat /\ t \in Nat /\ n \in Nat
          BY <1>3
        <5>2. g + d + h <= t /\ t = g + d + h + u /\ Len(up[c] \o front) = u + n
          BY <1>3, <1>5, <3>1
        <5> HIDE DEF g, d, h, u, t
        <5>3. g + d + h <= t + n /\ t + n = g + d + h + (u + n)
          BY <5>1, <5>2
        <5>4. g + d + h <= t + n /\ t + n = g + d + h + Len(up[c] \o front)
          BY <5>2, <5>3
        <5> QED
          BY <5>4 DEF g, d, h, u, t
      <4>2. ~broken'[c]
        BY <1>2, <3>1
      <4> QED
        BY <1>3, <1>4, <1>5, <1>10, <3>1, <4>1, <4>2 DEF Sound
    <3>2. CASE broken'[c] /\ up'[c] = << >> /\ down'[c] = << >>
      BY <1>3, <1>4, <1>10, <3>2 DEF Sound
    <3> QED
      BY <1>10, <3>1, <3>2
  <2> QED
    BY <1>1, <1>10, <2>1 DEF Stream
<1>12. Readable(c) => Readable(c)'
  BY <1>2, <1>3, <1>5, <1>10 DEF Readable
<1> QED
  BY <1>8, <1>9, <1>10, <1>11, <1>12, ClientStep

(***************************************************************************)
(* Receiving: the byte that ends what is read is the n-th after the last.  *)
(***************************************************************************)
LEMMA ReceiveStep ==
    ASSUME NetInv, NEW c \in Clients, ServersIdle, ReceiveEcho(c) \/ PlainReceive(c)
    PROVE  NetInv'
<1>1. InServer(c)' = InServer(c)
  BY DEF InServer, ServersIdle, selectVars, singleVars
<1>2. PICK n \in 1..Len(down[c]) :
        /\ ReadDown(c, n)
        /\ clientEnd[c] = "open" \/ main[c] = "recv"
        /\ \E place \in {main[c], "input"} : main' = [main EXCEPT ![c] = place]
        /\ main'[c] # "start" \/ main'[c] = main[c]
        /\ UNCHANGED <<clientEnd, serverEnd, broken, up, sent, running, receiver, rest>>
  <2>1. main = [main EXCEPT ![c] = main[c]] /\ [main EXCEPT ![c] = "input"][c] = "input"
    BY DEF NetInv, NetTypeOK, ClientsTypeOK
  <2> QED
    BY <2>1 DEF ReceiveEcho, PlainReceive, clientVars
<1>3. /\ down[c] \in Seq(Nat) /\ InServer(c) \in Seq(Nat) /\ sent[c] \in Nat /\ got[c] \in Nat
      /\ clientEnd[c] = "open" /\ broken[c] = FALSE
      /\ Follows(down[c], got[c])
      /\ n \in Nat /\ Len(down[c]) \in Nat /\ Len(InServer(c)) \in Nat
  BY <1>2, StreamTypes DEF Sound
<1> DEFINE back == Rest(down[c], n)
<1>4. /\ back \in Seq(Nat) /\ Len(back) = Len(down[c]) - n
      /\ Follows(back, got[c] + n) /\ down[c][n] = got[c] + n
  BY <1>3, Cut
<1> HIDE DEF back
<1>5. got' = [got EXCEPT ![c] = got[c] + n] /\ down' = [down EXCEPT ![c] = back]
  <2>1. got' = [got EXCEPT ![c] = down[c][n]] /\ down' = [down EXCEPT ![c] = back]
    BY <1>2 DEF ReadDown, back
  <2> QED
    BY <1>4, <2>1
<1>6. NetTypeOK'
  <2>1. SelectTypeOK' /\ SingleTypeOK'
    BY DEF NetInv, NetTypeOK, SelectTypeOK, SingleTypeOK, ServersIdle, selectVars, singleVars
  <2>2. SocketsTypeOK'
    <3>1. got[c] + n \in Nat
      BY <1>3
    <3>2. down' \in [Clients -> Seq(Nat)] /\ got' \in [Clients -> Nat]
      BY <1>4, <1>5, <3>1 DEF NetInv, NetTypeOK, SocketsTypeOK
    <3>3. UNCHANGED <<clientEnd, serverEnd, broken, up, sent>>
      BY <1>2
    <3> QED
      BY <3>2, <3>3 DEF NetInv, NetTypeOK, SocketsTypeOK
  <2>3. ClientsTypeOK'
    BY <1>2 DEF NetInv, NetTypeOK, ClientsTypeOK
  <2> QED
    BY <2>1, <2>2, <2>3 DEF NetTypeOK
<1>7. Apart(c)
  BY <1>2, <1>5 DEF NetInv, NetTypeOK, SocketsTypeOK, ClientsTypeOK, Apart
<1>8. /\ got'[c] = got[c] + n /\ down'[c] = back /\ main'[c] \in {main[c], "input"}
  BY <1>2, <1>5 DEF NetInv, NetTypeOK, SocketsTypeOK, ClientsTypeOK
<1>9. Stream(c)'
  <2>1. (got[c] + n) + (Len(down[c]) - n) = got[c] + Len(down[c])
    BY <1>3
  <2>2. main[c] # "start"
    BY <1>3, StreamTypes DEF Sound
  <2>3. Sound(main'[c], clientEnd[c], serverEnd[c], broken[c], up[c], back, InServer(c),
              rest[c], sent[c], got[c] + n)
    BY <1>3, <1>4, <1>8, <2>1, <2>2, NothingFollows, StreamTypes DEF Sound
  <2> QED
    BY <1>1, <1>2, <1>8, <2>3 DEF Stream
<1>10. (Readable(c) => Readable(c)') /\ serverEnd' = serverEnd
  BY <1>2 DEF Readable
<1> QED
  BY <1>6, <1>7, <1>9, <1>10, ClientStep

(***************************************************************************)
(* Steps that end something: the socket stays as it is, is closed, or the  *)
(* connection is lost.                                                     *)
(***************************************************************************)
LEMMA QuietStep ==
    ASSUME NetInv, NEW c \in Clients, ServersIdle,
           SendALLFails(c) \/ Join(c) \/ PlainFails(c) \/ ReceiveStops(c) \/ ReceiveEnds(c)
    PROVE  NetInv'
<1>1. InServer(c)' = InServer(c)
  BY DEF InServer, ServersIdle, selectVars, singleVars
<1>2. /\ rest[c] \in Seq(Nat) /\ << >> \in Seq(Nat)
      /\ main = [main EXCEPT ![c] = main[c]] /\ rest = [rest EXCEPT ![c] = rest[c]]
      /\ running \in [Clients -> BOOLEAN] /\ receiver \in [Clients -> {"none", "loop", "ended"}]
  BY DEF NetInv, NetTypeOK, ClientsTypeOK
<1>3. PICK place \in {main[c], "close", "ended"}, line \in {rest[c], << >>} :
        /\ place = "close" => main[c] \in {"sendall", "send", "recv", "close"}
        /\ main' = [main EXCEPT ![c] = place] /\ rest' = [rest EXCEPT ![c] = line]
        /\ running' \in [Clients -> BOOLEAN]
        /\ receiver' \in [Clients -> {"none", "loop", "ended"}] /\ UNCHANGED socketVars
  <2>1. CASE SendALLFails(c)
    BY <1>2, <2>1 DEF SendALLFails, socketVars
  <2>2. CASE Join(c)
    BY <1>2, <2>2 DEF Join, socketVars
  <2>3. CASE PlainFails(c)
    BY <1>2, <2>3 DEF PlainFails, socketVars
  <2>4. CASE ReceiveStops(c)
    BY <1>2, <2>4 DEF ReceiveStops, socketVars
  <2>5. CASE ReceiveEnds(c)
    BY <1>2, <2>5 DEF ReceiveEnds, socketVars
  <2> QED
    BY <2>1, <2>2, <2>3, <2>4, <2>5
<1>4. NetTypeOK'
  <2>1. SocketsTypeOK' /\ SelectTypeOK' /\ SingleTypeOK'
    BY <1>3 DEF NetInv, NetTypeOK, SocketsTypeOK, SelectTypeOK, SingleTypeOK, socketVars,
       ServersIdle, selectVars, singleVars
  <2>2. ClientsTypeOK'
    BY <1>2, <1>3 DEF NetInv, NetTypeOK, ClientsTypeOK
  <2> QED
    BY <2>1, <2>2 DEF NetTypeOK
<1>5. Apart(c)
  BY <1>3 DEF NetInv, NetTypeOK, ClientsTypeOK, Apart, socketVars
<1>6. Stream(c)'
  <2>1. main'[c] = place /\ rest'[c] = line /\ UNCHANGED socketVars
    BY <1>3 DEF NetInv, NetTypeOK, ClientsTypeOK
  <2>2. Follows(line, sent[c])
    BY <1>3, StreamTypes, NothingFollows DEF Sound
  <2>3. Sound(place, clientEnd[c], serverEnd[c], broken[c], up[c], down[c], InServer(c),
              line, sent[c], got[c])
    BY <1>3, <2>2, StreamTypes DEF Sound
  <2> QED
    BY <1>1, <2>1, <2>3 DEF Stream, socketVars
<1> QED
  BY <1>3, <1>4, <1>5, <1>6, ClientStep DEF Readable, socketVars

LEMMA CloseStep ==
    ASSUME NetInv, NEW c \in Clients, ServersIdle,
           CloseThreaded(c) \/ ClosePlain(c)
    PROVE  NetInv'
<1>1. InServer(c)' = InServer(c)
  BY DEF InServer, ServersIdle, selectVars, singleVars
<1>2. PICK place \in {"join", "ended"} :
        /\ CloseClientEnd(c) /\ main' = [main EXCEPT ![c] = place]
        /\ UNCHANGED <<serverEnd, sent, got, running, receiver, rest>>
  BY DEF CloseThreaded, ClosePlain
<1>3. /\ clientEnd' = [clientEnd EXCEPT ![c] = "closed"]
      /\ \/ UNCHANGED <<broken, up, down>>
         \/ /\ broken' = [broken EXCEPT ![c] = TRUE]
            /\ up' = [up EXCEPT ![c] = << >>] /\ down' = [down EXCEPT ![c] = << >>]
  BY <1>2 DEF CloseClientEnd, Reset
<1>4. NetTypeOK'
  <2>1. SelectTypeOK' /\ SingleTypeOK'
    BY DEF NetInv, NetTypeOK, SelectTypeOK, SingleTypeOK, ServersIdle, selectVars, singleVars
  <2>2. /\ broken' \in [Clients -> BOOLEAN]
        /\ up' \in [Clients -> Seq(Nat)] /\ down' \in [Clients -> Seq(Nat)]
    BY <1>3, ResetTyped DEF NetInv, NetTypeOK
  <2>3. SocketsTypeOK'
    BY <1>2, <1>3, <2>2 DEF NetInv, NetTypeOK, SocketsTypeOK
  <2>4. ClientsTypeOK'
    BY <1>2 DEF NetInv, NetTypeOK, ClientsTypeOK
  <2> QED
    BY <2>1, <2>3, <2>4 DEF NetTypeOK
<1>5. Apart(c)
  BY <1>2, <1>3 DEF NetInv, NetTypeOK, SocketsTypeOK, ClientsTypeOK, Apart
<1>6. /\ main'[c] = place /\ clientEnd'[c] = "closed"
      /\ \/ broken'[c] = broken[c] /\ up'[c] = up[c] /\ down'[c] = down[c]
         \/ up'[c] = << >> /\ down'[c] = << >>
  BY <1>2, <1>3 DEF NetInv, NetTypeOK, SocketsTypeOK, ClientsTypeOK
<1>7. Stream(c)'
  <2>1. Sound(place, "closed", serverEnd[c], broken'[c], up'[c], down'[c], InServer(c),
              rest[c], sent[c], got[c])
    BY <1>2, <1>6, StreamTypes DEF Sound
  <2> QED
    BY <1>1, <1>2, <1>6, <2>1 DEF Stream
<1> QED
  BY <1>2, <1>4, <1>5, <1>6, <1>7, ClientStep DEF Readable

LEMMA LostStep ==
    ASSUME NetInv, NEW c \in Clients, ServersIdle, ConnectionLost(c), UNCHANGED clientVars
    PROVE  NetInv'
<1>1. InServer(c)' = InServer(c)
  BY DEF InServer, ServersIdle, selectVars, singleVars
<1>2. /\ broken' = [broken EXCEPT ![c] = TRUE]
      /\ up' = [up EXCEPT ![c] = << >>] /\ down' = [down EXCEPT ![c] = << >>]
      /\ UNCHANGED <<clientEnd, serverEnd, sent, got, main, running, receiver, rest>>
      /\ clientEnd[c] = "open" /\ << >> \in Seq(Nat)
  BY DEF ConnectionLost, Reset, clientVars
<1>3. NetTypeOK'
  <2>1. SelectTypeOK' /\ SingleTypeOK'
    BY DEF NetInv, NetTypeOK, SelectTypeOK, SingleTypeOK, ServersIdle, selectVars, singleVars
  <2>2. SocketsTypeOK' /\ ClientsTypeOK'
    BY <1>2 DEF NetInv, NetTypeOK, SocketsTypeOK, ClientsTypeOK
  <2> QED
    BY <2>1, <2>2 DEF NetTypeOK
<1>4. Apart(c)
  BY <1>2 DEF NetInv, NetTypeOK, SocketsTypeOK, Apart
<1>5. broken'[c] = TRUE /\ up'[c] = << >> /\ down'[c] = << >>
  BY <1>2 DEF NetInv, NetTypeOK, SocketsTypeOK
<1>6. Stream(c)'
  <2>1. Sound(main[c], clientEnd[c], serverEnd[c], TRUE, << >>, << >>, InServer(c),
              rest[c], sent[c], got[c])
    BY <1>2, StreamTypes DEF Sound
  <2> QED
    BY <1>1, <1>2, <1>5, <2>1 DEF Stream
<1> QED
  BY <1>2, <1>3, <1>4, <1>5, <1>6, ClientStep DEF Readable

LEMMA ClientSteps ==
    ASSUME NetInv, NEW c \in Clients, ServersIdle, Clientside(c)
    PROVE  NetInv'
BY ConnectStep, UserStep, SendStep, ReceiveStep, QuietStep, CloseStep
   DEF Clientside, MainThread, ReceiveLoop

-----------------------------------------------------------------------------
(***************************************************************************)
(* Steps of a server.                                                      *)
(***************************************************************************)
\* Only a client that is served has bytes in the server.
LEMMA HeldOfServed ==
    ASSUME NetInv, NEW x \in Clients, x \notin Served
    PROVE  InServer(x) = << >>
BY DEF NetInv, NetTypeOK, SelectTypeOK, InServer, Served, Listed

\* A server's step about one client.
LEMMA OneStream ==
    ASSUME NetInv, NEW c \in Clients, Apart(c), Stream(c)',
           \A x \in Clients \ {c} : InServer(x)' = InServer(x)
    PROVE  \A x \in Clients : Stream(x)'
BY DEF NetInv, Stream, Apart

\* A server's step about nobody.
LEMMA SameStreams ==
    ASSUME NetInv, UNCHANGED <<socketVars, clientVars>>,
           \A x \in Clients : InServer(x)' = InServer(x)
    PROVE  /\ \A x \in Clients : Stream(x)' /\ Readable(x)' = Readable(x)
           /\ SocketsTypeOK' /\ ClientsTypeOK'
BY DEF NetInv, NetTypeOK, SocketsTypeOK, ClientsTypeOK, Stream, Readable, socketVars, clientVars

\* push_back and erase, as sets.
LEMMA PushedBack ==
    ASSUME sockets \in Seq(Clients), NEW c \in Clients, sockets' = Append(sockets, c),
           c \notin Listed, \A j, k \in DOMAIN sockets : sockets[j] = sockets[k] => j = k
    PROVE  /\ sockets' \in Seq(Clients) /\ Listed' = Listed \cup {c}
           /\ \A j, k \in DOMAIN sockets' : sockets'[j] = sockets'[k] => j = k
           /\ DOMAIN sockets' = 1..(Len(sockets) + 1) /\ sockets'[Len(sockets) + 1] = c
           /\ \A k \in DOMAIN sockets : sockets'[k] = sockets[k]
<1>1. /\ sockets' \in Seq(Clients) /\ Len(sockets) \in Nat
      /\ DOMAIN sockets = 1..Len(sockets) /\ DOMAIN sockets' = 1..(Len(sockets) + 1)
      /\ sockets'[Len(sockets) + 1] = c /\ \A k \in 1..Len(sockets) : sockets'[k] = sockets[k]
  OBVIOUS
<1>2. Listed' = Listed \cup {c}
  BY <1>1 DEF Listed
<1> QED
  BY <1>1, <1>2 DEF Listed

LEMMA ErasedOne ==
    ASSUME sockets \in Seq(Clients), NEW n \in 1..Len(sockets), sockets' = Erased(n),
           \A j, k \in DOMAIN sockets : sockets[j] = sockets[k] => j = k
    PROVE  /\ sockets' \in Seq(Clients) /\ Listed' = Listed \ {sockets[n]}
           /\ \A j, k \in DOMAIN sockets' : sockets'[j] = sockets'[k] => j = k
           /\ DOMAIN sockets' = 1..(Len(sockets) - 1)
           /\ \A k \in DOMAIN sockets' :
                sockets'[k] = IF k < n THEN sockets[k] ELSE sockets[k + 1]
<1>1. /\ sockets' \in Seq(Clients) /\ Len(sockets) \in Nat /\ DOMAIN sockets = 1..Len(sockets)
      /\ DOMAIN sockets' = 1..(Len(sockets) - 1)
      /\ \A k \in 1..(Len(sockets) - 1) :
           sockets'[k] = IF k < n THEN sockets[k] ELSE sockets[k + 1]
  <2>1. /\ Erased(n) \in Seq(Clients) /\ Len(Erased(n)) = Len(sockets) - 1
        /\ \A k \in 1..(Len(sockets) - 1) :
             Erased(n)[k] = IF k < n THEN sockets[k] ELSE sockets[k + 1]
    BY Erasing
  <2>2. DOMAIN Erased(n) = 1..Len(Erased(n))
    BY <2>1
  <2> QED
    BY <2>1, <2>2
<1>2. ASSUME NEW j \in DOMAIN sockets', NEW k \in DOMAIN sockets', sockets'[j] = sockets'[k]
      PROVE  j = k
  <2> DEFINE from(m) == IF m < n THEN m ELSE m + 1
  <2>1. \A m \in 1..(Len(sockets) - 1) :
          from(m) \in 1..Len(sockets) /\ sockets'[m] = sockets[from(m)]
    BY <1>1
  <2> HIDE DEF from
  <2>2. from(j) = from(k)
    <3>1. /\ from(j) \in DOMAIN sockets /\ from(k) \in DOMAIN sockets
          /\ sockets[from(j)] = sockets[from(k)]
      BY <1>1, <1>2, <2>1
    <3> QED
      BY <3>1
  <2> QED
    BY <1>1, <2>2 DEF from
<1>3. Listed' = Listed \ {sockets[n]}
  <2>1. ASSUME NEW k \in 1..(Len(sockets) - 1)
        PROVE  sockets'[k] \in Listed \ {sockets[n]}
    BY <1>1 DEF Listed
  <2>2. ASSUME NEW k \in 1..Len(sockets), k # n
        PROVE  sockets[k] \in Listed'
    <3>1. CASE k < n
      BY <1>1, <3>1 DEF Listed
    <3>2. CASE k > n
      <4>1. k - 1 \in 1..(Len(sockets) - 1) /\ ~(k - 1 < n) /\ (k - 1) + 1 = k
        BY <3>2
      <4>2. sockets'[k - 1] = sockets[(k - 1) + 1]
        BY <1>1, <4>1
      <4> QED
        BY <1>1, <4>1, <4>2 DEF Listed
    <3> QED
      BY <2>2, <3>1, <3>2
  <2> QED
    BY <1>1, <2>1, <2>2 DEF Listed
<1> QED
  BY <1>1, <1>2, <1>3

-----------------------------------------------------------------------------
(***************************************************************************)
(* Steps that move no byte.                                                *)
(***************************************************************************)
\* What the steps of one server say of the other, and of the list it keeps.
LEMMA ServerFacts ==
    ASSUME NetInv
    PROVE  /\ sockets \in Seq(Clients) /\ Len(sockets) \in Nat /\ i \in Nat \ {0}
           /\ DOMAIN sockets = 1..Len(sockets) /\ Listed \subseteq Clients
           /\ \A j, k \in DOMAIN sockets : sockets[j] = sockets[k] => j = k
           /\ data \in Seq(Nat) /\ echo \in Seq(Nat)
           /\ pc = "off" \/ single = "off"
           /\ ready \subseteq Clients \cup {Listener} /\ Listener \notin Clients
<1>1. sockets \in Seq(Clients)
  BY DEF NetInv, NetTypeOK, SelectTypeOK
<1>2. Len(sockets) \in Nat /\ DOMAIN sockets = 1..Len(sockets) /\ Listed \subseteq Clients
  BY <1>1 DEF Listed
<1> QED
  BY <1>1, <1>2, SelectAssumption
     DEF NetInv, NetTypeOK, SelectTypeOK, SingleTypeOK, ServerOwns, OneServer

LEMMA StartStep ==
    ASSUME NetInv, Start, UNCHANGED clientVars
    PROVE  NetInv'
<1> USE DEF selectVars, singleVars, StartSelect, StartSelectFails, StartSingle, StartSingleFails
<1>1. /\ pc \in {"off", "ended", "crashed"} \/ single = "off"
      /\ UNCHANGED <<socketVars, clientVars, sockets, ready, i, data, peer, echo>>
      /\ \/ /\ single = "off" /\ pc = "off" /\ pc' \in {"select", "ended"} /\ single' = single
         \/ /\ single = "off" /\ pc = "off" /\ single' \in {"accept", "ended"} /\ pc' = pc
  BY DEF Start
<1>2. \A x \in Clients : InServer(x)' = InServer(x)
  BY <1>1 DEF InServer
<1>3. /\ \A x \in Clients : Stream(x)' /\ Readable(x)' = Readable(x)
      /\ SocketsTypeOK' /\ ClientsTypeOK'
  BY <1>1, <1>2, SameStreams
<1>4. SelectTypeOK' /\ SingleTypeOK'
  BY <1>1 DEF NetInv, NetTypeOK, SelectTypeOK, SingleTypeOK
<1>5. ServerOwns'
  BY <1>1 DEF NetInv, ServerOwns, OneServer, Served, Listed, socketVars
<1>6. ReadyLasts'
  BY <1>1 DEF ReadyLasts
<1> QED
  BY <1>3, <1>4, <1>5, <1>6 DEF NetInv, NetTypeOK

\* select, a round without accept, a client that is not ready or whose recv
\* fails, and the end of the round.
LEMMA RoundStep ==
    ASSUME NetInv, UNCHANGED <<clientVars, singleVars>>,
           Select \/ NoAccept \/ Skip \/ ReceiveError \/ EndScan
    PROVE  NetInv'
<1>1. /\ UNCHANGED <<socketVars, clientVars, sockets, data, single, peer, echo>>
      /\ pc \in {"select", "accept", "scan"} /\ pc' \in {"select", "accept", "scan"}
      /\ ready' \subseteq Clients \cup {Listener} /\ i' \in Nat \ {0}
  <2>1. Watched \subseteq Clients
    BY ServerFacts DEF Watched
  <2> QED
    BY <2>1, ServerFacts DEF Select, NoAccept, Skip, ReceiveError, EndScan, singleVars
<1>2. single = "off"
  BY <1>1, ServerFacts
<1>3. \A x \in Clients : InServer(x)' = InServer(x)
  BY <1>1, <1>2 DEF InServer
<1>4. /\ \A x \in Clients : Stream(x)' /\ Readable(x)' = Readable(x)
      /\ SocketsTypeOK' /\ ClientsTypeOK'
  BY <1>1, <1>3, SameStreams
<1>5. SelectTypeOK' /\ SingleTypeOK'
  BY <1>1 DEF NetInv, NetTypeOK, SelectTypeOK, SingleTypeOK
<1>6. ServerOwns' /\ Listed' = Listed
  BY <1>1, <1>2 DEF NetInv, ServerOwns, OneServer, Served, Listed, socketVars
<1>7. ReadyLasts'
  <2>1. CASE Select
    <3>1. pc' = "accept" /\ \A x \in ready' \ {Listener} : x \in Watched /\ Readable(x)
      BY <2>1 DEF Select
    <3>2. Watched \subseteq Listed
      BY DEF Watched, Listed
    <3> QED
      BY <1>4, <1>6, <3>1, <3>2, ServerFacts DEF ReadyLasts
  <2>2. CASE NoAccept
    <3>1. /\ pc = "accept" /\ pc' = "scan" /\ ready' = ready /\ i' = 1 /\ sockets' = sockets
          /\ Listener \notin ready
      BY <1>1, <2>2 DEF NoAccept
    <3>2. \A k \in DOMAIN sockets : sockets[k] \in ready => Readable(sockets[k])
      BY <3>1, ServerFacts DEF NetInv, ReadyLasts
    <3>3. \A k \in DOMAIN sockets : sockets[k] \in Clients
      BY ServerFacts
    <3> QED
      BY <1>4, <3>1, <3>2, <3>3 DEF ReadyLasts
  <2>3. CASE Skip \/ ReceiveError
    <3>1. pc = "scan" /\ pc' = "scan" /\ ready' = ready /\ i' = i + 1 /\ sockets' = sockets
      BY <1>1, <2>3 DEF Skip, ReceiveError
    <3>2. \A k \in DOMAIN sockets : k >= i /\ sockets[k] \in ready => Readable(sockets[k])
      BY <3>1 DEF NetInv, ReadyLasts
    <3>3. \A k \in DOMAIN sockets : sockets[k] \in Clients /\ (k >= i + 1 => k >= i)
      BY ServerFacts
    <3> QED
      BY <1>4, <3>1, <3>2, <3>3 DEF ReadyLasts
  <2>4. CASE EndScan
    BY <2>4 DEF EndScan, ReadyLasts
  <2> QED
    BY <2>1, <2>2, <2>3, <2>4
<1> QED
  BY <1>4, <1>5, <1>6, <1>7 DEF NetInv, NetTypeOK

-----------------------------------------------------------------------------
(***************************************************************************)
(* Accepting.                                                              *)
(***************************************************************************)
\* The server's end opens, or closes after a reset: no byte moves.
LEMMA AcceptedStream ==
    ASSUME NetInv, NEW c \in Clients, NEW end \in {"open", "closed"}, c \in Pending,
           end = "closed" => broken[c],
           serverEnd' = [serverEnd EXCEPT ![c] = end],
           UNCHANGED <<clientEnd, broken, up, down, sent, got, clientVars>>,
           \A x \in Clients : InServer(x)' = InServer(x)
    PROVE  /\ \A x \in Clients : Stream(x)' /\ Readable(x)' = Readable(x)
           /\ SocketsTypeOK' /\ ClientsTypeOK'
           /\ serverEnd'[c] = end /\ \A x \in Clients \ {c} : serverEnd'[x] = serverEnd[x]
           /\ serverEnd[c] = "backlog"
<1>1. /\ serverEnd'[c] = end /\ \A x \in Clients \ {c} : serverEnd'[x] = serverEnd[x]
      /\ serverEnd[c] = "backlog" /\ UNCHANGED <<main, running, receiver, rest>>
  BY DEF NetInv, NetTypeOK, SocketsTypeOK, Pending, clientVars
<1>2. Apart(c)
  BY <1>1 DEF Apart
<1>3. Stream(c)'
  <2>1. Sound(main[c], clientEnd[c], end, broken[c], up[c], down[c], InServer(c),
              rest[c], sent[c], got[c])
    BY <1>1, StreamTypes DEF Sound
  <2> QED
    BY <1>1, <2>1 DEF Stream
<1>4. SocketsTypeOK' /\ ClientsTypeOK'
  BY <1>1 DEF NetInv, NetTypeOK, SocketsTypeOK, ClientsTypeOK
<1> QED
  BY <1>1, <1>2, <1>3, <1>4, OneStream DEF Readable

LEMMA AcceptStep ==
    ASSUME NetInv, NEW c \in Clients, UNCHANGED <<clientVars, singleVars>>,
           Accept(c) \/ AcceptFails(c)
    PROVE  NetInv'
<1> USE DEF singleVars
<1>1. /\ pc = "accept" /\ pc' = "scan" /\ i' = 1 /\ UNCHANGED <<ready, data, single, peer, echo>>
      /\ single = "off" /\ c \in Pending
      /\ UNCHANGED <<clientEnd, broken, up, down, sent, got>>
  BY ServerFacts DEF Accept, AcceptFails
<1>2. \A x \in Clients : InServer(x)' = InServer(x)
  BY <1>1 DEF InServer
<1>3. c \notin Listed
  BY <1>1 DEF NetInv, ServerOwns, Served, Pending
<1>4. \A x \in ready \ {Listener} : x \in Listed /\ Readable(x)
  BY <1>1 DEF NetInv, ReadyLasts
<1>5. CASE Accept(c)
  <2>1. sockets' = Append(sockets, c) /\ serverEnd' = [serverEnd EXCEPT ![c] = "open"]
    BY <1>5 DEF Accept
  <2>2. /\ sockets' \in Seq(Clients) /\ Listed' = Listed \cup {c}
        /\ \A j, k \in DOMAIN sockets' : sockets'[j] = sockets'[k] => j = k
        /\ \A k \in DOMAIN sockets' : sockets'[k] \in Clients
    BY <1>3, <2>1, ServerFacts, PushedBack
  <2>3. /\ \A x \in Clients : Stream(x)' /\ Readable(x)' = Readable(x)
        /\ SocketsTypeOK' /\ ClientsTypeOK'
        /\ serverEnd'[c] = "open" /\ \A x \in Clients \ {c} : serverEnd'[x] = serverEnd[x]
    BY <1>1, <1>2, <2>1, AcceptedStream
  <2>4. SelectTypeOK' /\ SingleTypeOK'
    BY <1>1, <2>2 DEF NetInv, NetTypeOK, SelectTypeOK, SingleTypeOK
  <2>5. ServerOwns'
    BY <1>1, <2>2, <2>3 DEF NetInv, ServerOwns, OneServer, Served
  <2>6. ReadyLasts'
    BY <1>1, <1>4, <2>2, <2>3, ServerFacts DEF ReadyLasts
  <2> QED
    BY <2>3, <2>4, <2>5, <2>6 DEF NetInv, NetTypeOK
<1>6. CASE AcceptFails(c)
  <2>1. sockets' = sockets /\ serverEnd' = [serverEnd EXCEPT ![c] = "closed"] /\ broken[c]
    BY <1>6 DEF AcceptFails
  <2>2. /\ \A x \in Clients : Stream(x)' /\ Readable(x)' = Readable(x)
        /\ SocketsTypeOK' /\ ClientsTypeOK'
        /\ serverEnd'[c] = "closed" /\ \A x \in Clients \ {c} : serverEnd'[x] = serverEnd[x]
    BY <1>1, <1>2, <2>1, AcceptedStream
  <2>3. SelectTypeOK' /\ SingleTypeOK'
    BY <1>1, <2>1 DEF NetInv, NetTypeOK, SelectTypeOK, SingleTypeOK
  <2>4. ServerOwns' /\ Listed' = Listed
    BY <1>1, <1>3, <2>1, <2>2 DEF NetInv, ServerOwns, OneServer, Served, Listed
  <2>5. ReadyLasts'
    BY <1>1, <1>4, <2>1, <2>2, ServerFacts DEF ReadyLasts
  <2> QED
    BY <2>2, <2>3, <2>4, <2>5 DEF NetInv, NetTypeOK
<1> QED
  BY <1>5, <1>6

LEMMA AcceptOneStep ==
    ASSUME NetInv, NEW c \in Clients, UNCHANGED <<clientVars, selectVars>>, AcceptOne(c)
    PROVE  NetInv'
<1> USE DEF selectVars, AcceptOne
<1>1. /\ single = "accept" /\ pc = "off" /\ sockets = << >> /\ c \in Pending
      /\ UNCHANGED <<pc, sockets, ready, i, data, clientEnd, broken, up, down, sent, got, echo>>
  BY ServerFacts DEF NetInv, ServerOwns
<1>2. \A x \in Clients : InServer(x)' = InServer(x)
  BY <1>1 DEF InServer
<1>3. /\ \A x \in Clients : Stream(x)'
      /\ SocketsTypeOK' /\ ClientsTypeOK' /\ serverEnd'[c] = "open"
      /\ \A x \in Clients \ {c} : serverEnd'[x] = serverEnd[x]
  BY <1>1, <1>2, AcceptedStream
<1>4. SelectTypeOK' /\ SingleTypeOK'
  BY <1>1, SingleAssumption DEF NetInv, NetTypeOK, SelectTypeOK, SingleTypeOK
<1>5. ServerOwns'
  BY <1>1, <1>3 DEF NetInv, ServerOwns, OneServer, Served, Listed
<1>6. ReadyLasts'
  BY <1>1 DEF ReadyLasts
<1> QED
  BY <1>3, <1>4, <1>5, <1>6 DEF NetInv, NetTypeOK

-----------------------------------------------------------------------------
(***************************************************************************)
(* Receiving: bytes move from the connection into the server.              *)
(***************************************************************************)
LEMMA Taken ==
    ASSUME NetInv, NEW c \in Clients, NEW n \in 1..Len(up[c]), InServer(c) = << >>,
           serverEnd[c] = "open", InServer(c)' = First(up[c], n),
           \A x \in Clients \ {c} : InServer(x)' = InServer(x),
           up' = [up EXCEPT ![c] = Rest(@, n)],
           UNCHANGED <<clientEnd, serverEnd, broken, down, sent, got, clientVars>>
    PROVE  /\ \A x \in Clients : Stream(x)'
           /\ \A x \in Clients \ {c} : Readable(x)' = Readable(x)
           /\ SocketsTypeOK' /\ ClientsTypeOK' /\ First(up[c], n) \in Seq(Nat)
<1> DEFINE front == First(up[c], n)
           back == Rest(up[c], n)
<1>1. /\ up[c] \in Seq(Nat) /\ down[c] \in Seq(Nat) /\ sent[c] \in Nat /\ got[c] \in Nat
      /\ Len(down[c]) \in Nat /\ Len(up[c]) \in Nat /\ n \in Nat /\ up[c] # << >> /\ ~broken[c]
      /\ clientEnd[c] = "open" =>
           /\ Follows(down[c], got[c]) /\ Follows(up[c], got[c] + Len(down[c]))
           /\ sent[c] = got[c] + Len(down[c]) + Len(up[c])
  <2>1. up[c] \in Seq(Nat) /\ down[c] \in Seq(Nat) /\ sent[c] \in Nat /\ got[c] \in Nat
    BY StreamTypes
  <2>2. Len(down[c]) \in Nat /\ Len(up[c]) \in Nat /\ n \in Nat /\ up[c] # << >>
    BY <2>1
  <2>3. Len(<< >>) = 0
    OBVIOUS
  <2>4. /\ ~broken[c]
        /\ clientEnd[c] = "open" =>
             /\ Follows(down[c], got[c]) /\ Follows(up[c], got[c] + Len(down[c]) + 0)
             /\ sent[c] = got[c] + Len(down[c]) + 0 + Len(up[c])
    BY <2>2, <2>3, StreamTypes DEF Sound
  <2> QED
    BY <2>1, <2>2, <2>4
<1>2. /\ front \in Seq(Nat) /\ Len(front) = n /\ back \in Seq(Nat) /\ Len(back) = Len(up[c]) - n
      /\ clientEnd[c] = "open" =>
           /\ Follows(front, got[c] + Len(down[c])) /\ Follows(back, got[c] + Len(down[c]) + n)
  <2>1. got[c] + Len(down[c]) \in Nat
    BY <1>1
  <2> QED
    BY <1>1, <2>1, Cut
<1> HIDE DEF front, back
<1>3. up' = [up EXCEPT ![c] = back] /\ InServer(c)' = front
  BY DEF front, back
<1>4. up'[c] = back /\ Apart(c) /\ UNCHANGED <<main, rest>>
  BY <1>3 DEF NetInv, NetTypeOK, SocketsTypeOK, Apart, clientVars
<1>5. SocketsTypeOK' /\ ClientsTypeOK'
  <2>1. up' \in [Clients -> Seq(Nat)]
    BY <1>2, <1>3 DEF NetInv, NetTypeOK, SocketsTypeOK
  <2>2. ClientsTypeOK'
    BY DEF NetInv, NetTypeOK, ClientsTypeOK, clientVars
  <2> QED
    BY <2>1, <2>2 DEF NetInv, NetTypeOK, SocketsTypeOK
<1>6. Stream(c)'
  <2>1. /\ got[c] + Len(down[c]) + n <= got[c] + Len(down[c]) + Len(up[c])
        /\ got[c] + Len(down[c]) + Len(up[c]) = got[c] + Len(down[c]) + n + (Len(up[c]) - n)
    BY <1>1
  <2>2. Sound(main[c], clientEnd[c], serverEnd[c], broken[c], back, down[c], front,
              rest[c], sent[c], got[c])
    BY <1>1, <1>2, <2>1, StreamTypes DEF Sound
  <2> QED
    BY <1>3, <1>4, <2>2 DEF Stream
<1> QED
  BY <1>2, <1>4, <1>5, <1>6, OneStream DEF Readable, Apart, front

LEMMA ReceivedStep ==
    ASSUME NetInv, UNCHANGED <<clientVars, singleVars>>, Receive
    PROVE  NetInv'
<1> USE DEF singleVars
<1>0. PICK c \in Clients : c = sockets[i]
  BY ServerFacts DEF Receive
<1>1. PICK n \in 1..Len(up[c]) :
        /\ pc = "scan" /\ i \in DOMAIN sockets /\ data' = First(up[c], n)
        /\ up' = [up EXCEPT ![c] = Rest(@, n)] /\ pc' = "send"
        /\ UNCHANGED <<clientEnd, serverEnd, broken, down, sent, got, sockets, ready, i>>
  BY <1>0 DEF Receive
<1>2. /\ c \in Served /\ serverEnd[c] = "open" /\ single = "off"
      /\ UNCHANGED <<single, peer, echo>> /\ i <= Len(sockets) /\ i \in Nat \ {0}
      /\ i \in 1..Len(sockets)
  BY <1>0, <1>1, ServerFacts DEF NetInv, ServerOwns, Served, Listed
<1>3. InServer(c) = << >> /\ InServer(c)' = First(up[c], n)
      /\ \A x \in Clients \ {c} : InServer(x)' = InServer(x)
  BY <1>0, <1>1, <1>2 DEF InServer
<1>4. /\ \A x \in Clients : Stream(x)'
      /\ \A x \in Clients \ {c} : Readable(x)' = Readable(x)
      /\ SocketsTypeOK' /\ ClientsTypeOK' /\ First(up[c], n) \in Seq(Nat)
  BY <1>1, <1>2, <1>3, Taken
<1>5. SelectTypeOK' /\ SingleTypeOK'
  BY <1>1, <1>2, <1>4 DEF NetInv, NetTypeOK, SelectTypeOK, SingleTypeOK
<1>6. ServerOwns'
  BY <1>1, <1>2 DEF NetInv, ServerOwns, OneServer, Served, Listed
<1>7. ReadyLasts'
  <2> SUFFICES ASSUME NEW k \in DOMAIN sockets, k >= i, k # i, sockets[k] \in ready
               PROVE  Readable(sockets[k])'
    BY <1>1 DEF ReadyLasts
  <2>1. sockets[k] \in Clients \ {c} /\ Readable(sockets[k])
    BY <1>0, <1>1, ServerFacts DEF NetInv, ReadyLasts
  <2> QED
    BY <1>1, <1>4, <2>1
<1> QED
  BY <1>4, <1>5, <1>6, <1>7 DEF NetInv, NetTypeOK

LEMMA SingleReceivedStep ==
    ASSUME NetInv, UNCHANGED <<clientVars, selectVars>>, SingleReceive
    PROVE  NetInv'
<1> USE DEF selectVars
<1>1. PICK n \in 1..Len(up[peer]) :
        /\ single = "recv" /\ single' = "send" /\ echo' = First(up[peer], n)
        /\ up' = [up EXCEPT ![peer] = Rest(@, n)]
        /\ UNCHANGED <<clientEnd, serverEnd, broken, down, sent, got, peer>>
  BY DEF SingleReceive
<1>2. /\ peer \in Clients /\ peer \in Served /\ serverEnd[peer] = "open" /\ pc = "off"
      /\ sockets = << >> /\ UNCHANGED <<pc, sockets, ready, i, data>>
  BY <1>1, ServerFacts DEF NetInv, NetTypeOK, SingleTypeOK, ServerOwns, Served
<1>3. /\ InServer(peer) = << >> /\ InServer(peer)' = First(up[peer], n)
      /\ \A x \in Clients \ {peer} : InServer(x)' = InServer(x)
  BY <1>1, <1>2 DEF InServer
<1>4. /\ \A x \in Clients : Stream(x)'
      /\ SocketsTypeOK' /\ ClientsTypeOK' /\ First(up[peer], n) \in Seq(Nat)
  BY <1>1, <1>2, <1>3, Taken
<1>5. SelectTypeOK' /\ SingleTypeOK'
  BY <1>1, <1>2, <1>4 DEF NetInv, NetTypeOK, SelectTypeOK, SingleTypeOK
<1>6. ServerOwns'
  BY <1>1, <1>2 DEF NetInv, ServerOwns, OneServer, Served, Listed
<1>7. ReadyLasts'
  BY <1>2 DEF ReadyLasts
<1> QED
  BY <1>4, <1>5, <1>6, <1>7 DEF NetInv, NetTypeOK

-----------------------------------------------------------------------------
(***************************************************************************)
(* Echoing: part of what the server holds goes down.                       *)
(***************************************************************************)
LEMMA GivenBack ==
    ASSUME NetInv, NEW c \in Clients, NEW n \in 1..Len(InServer(c)), ~broken[c],
           WriteDown(c, First(InServer(c), n)), InServer(c)' = Rest(InServer(c), n),
           \A x \in Clients \ {c} : InServer(x)' = InServer(x),
           UNCHANGED <<clientEnd, serverEnd, sent, got, clientVars>>
    PROVE  /\ \A x \in Clients : Stream(x)' /\ (Readable(x) => Readable(x)')
           /\ SocketsTypeOK' /\ ClientsTypeOK' /\ Rest(InServer(c), n) \in Seq(Nat)
<1> DEFINE held == InServer(c)
           front == First(held, n)
           back == Rest(held, n)
           m == got[c]
<1>1. /\ up[c] \in Seq(Nat) /\ down[c] \in Seq(Nat) /\ held \in Seq(Nat)
      /\ sent[c] \in Nat /\ m \in Nat /\ Len(up[c]) \in Nat /\ Len(down[c]) \in Nat
      /\ Len(held) \in Nat /\ n \in 1..Len(held) /\ n \in Nat
  BY StreamTypes
<1> HIDE DEF held, m
<1>2. clientEnd[c] = "open" =>
        /\ Follows(down[c], m) /\ Follows(held, m + Len(down[c]))
        /\ m + Len(down[c]) + Len(held) <= sent[c]
        /\ serverEnd[c] # "closed" =>
             /\ Follows(up[c], m + Len(down[c]) + Len(held))
             /\ sent[c] = m + Len(down[c]) + Len(held) + Len(up[c])
  BY StreamTypes DEF Sound, held, m
<1>3. /\ front \in Seq(Nat) /\ Len(front) = n /\ back \in Seq(Nat) /\ Len(back) = Len(held) - n
      /\ clientEnd[c] = "open" =>
           /\ Follows(front, m + Len(down[c])) /\ Follows(back, m + Len(down[c]) + n)
  <2>1. m + Len(down[c]) \in Nat
    BY <1>1
  <2> QED
    BY <1>1, <1>2, <2>1, Cut
<1>4. WriteDown(c, front) /\ InServer(c)' = back
  BY DEF held
<1> HIDE DEF front, back
<1>5. /\ down[c] \o front \in Seq(Nat) /\ Len(down[c] \o front) = Len(down[c]) + n
      /\ clientEnd[c] = "open" => Follows(down[c] \o front, m)
  <2>1. /\ down[c] \o front \in Seq(Nat) /\ Len(down[c] \o front) = Len(down[c]) + Len(front)
        /\ Follows(down[c], m) /\ Follows(front, m + Len(down[c]))
             => Follows(down[c] \o front, m)
    BY <1>1, <1>3, Joined
  <2> QED
    BY <1>2, <1>3, <2>1
<1>6. \/ /\ clientEnd[c] = "open" /\ down' = [down EXCEPT ![c] = down[c] \o front]
         /\ UNCHANGED <<broken, up>>
      \/ /\ clientEnd[c] = "closed" /\ broken' = [broken EXCEPT ![c] = TRUE]
         /\ up' = [up EXCEPT ![c] = << >>] /\ down' = [down EXCEPT ![c] = << >>]
  BY <1>4 DEF WriteDown, Reset
<1>7. SocketsTypeOK' /\ ClientsTypeOK'
  <2>1. << >> \in Seq(Nat)
    OBVIOUS
  <2> QED
    BY <1>5, <1>6, <2>1 DEF NetInv, NetTypeOK, SocketsTypeOK, ClientsTypeOK, clientVars
<1>8. Apart(c) /\ UNCHANGED <<main, rest>>
  BY <1>6 DEF NetInv, NetTypeOK, SocketsTypeOK, Apart, clientVars
<1>9. \/ /\ clientEnd[c] = "open" /\ down'[c] = down[c] \o front /\ UNCHANGED <<broken, up>>
      \/ clientEnd[c] = "closed" /\ broken'[c] = TRUE /\ up'[c] = << >> /\ down'[c] = << >>
  BY <1>6 DEF NetInv, NetTypeOK, SocketsTypeOK
<1>10. Stream(c)'
  <2>1. Sound(main[c], clientEnd[c], serverEnd[c], broken'[c], up'[c], down'[c], back,
              rest[c], sent[c], m)
    <3>1. CASE clientEnd[c] = "open" /\ down'[c] = down[c] \o front /\ UNCHANGED <<broken, up>>
      <4>1. m + (Len(down[c]) + n) + (Len(held) - n) = m + Len(down[c]) + Len(held)
        BY <1>1
      <4>2. /\ m + (Len(down[c]) + n) = m + Len(down[c]) + n
        BY <1>1
      <4>3. main[c] # "start" /\ Follows(rest[c], sent[c])
        BY <3>1, StreamTypes DEF Sound
      <4>4. m + Len(down'[c]) + Len(back) = m + Len(down[c]) + Len(held)
        BY <1>3, <1>5, <3>1, <4>1
      <4>5. Follows(back, m + Len(down'[c])) /\ Follows(down'[c], m)
        BY <1>3, <1>5, <3>1, <4>2
      <4> QED
        BY <1>2, <3>1, <4>3, <4>4, <4>5 DEF Sound
    <3>2. CASE clientEnd[c] = "closed" /\ broken'[c] = TRUE /\ up'[c] = << >> /\ down'[c] = << >>
      BY <3>2, StreamTypes DEF Sound
    <3> QED
      BY <1>9, <3>1, <3>2
  <2> QED
    BY <1>4, <1>8, <2>1 DEF Stream, m
<1>11. \A x \in Clients : Readable(x) => Readable(x)'
  BY <1>8, <1>9 DEF Readable, Apart
<1> QED
  BY <1>3, <1>7, <1>8, <1>10, <1>11, OneStream DEF held, back

LEMMA SendAllStep ==
    ASSUME NetInv, UNCHANGED <<clientVars, singleVars>>, SendAll
    PROVE  NetInv'
<1> USE DEF singleVars
<1>0. PICK c \in Clients : c = sockets[i] /\ i \in 1..Len(sockets) /\ pc = "send"
  BY ServerFacts DEF SendAll, NetInv, NetTypeOK, SelectTypeOK
<1>1. PICK n \in 1..Len(data) :
        /\ ~broken[c] /\ WriteDown(c, First(data, n)) /\ data' = Rest(data, n)
        /\ \/ pc' = "scan" /\ i' = i + 1 /\ n = Len(data)
           \/ UNCHANGED <<pc, i>>
        /\ UNCHANGED <<clientEnd, serverEnd, sent, got, sockets, ready>>
  BY <1>0 DEF SendAll
<1>2. /\ serverEnd[c] = "open" /\ single = "off" /\ UNCHANGED <<single, peer, echo>>
      /\ i \in Nat \ {0} /\ i + 1 \in Nat \ {0} /\ data \in Seq(Nat)
  BY <1>0, ServerFacts DEF NetInv, ServerOwns, Served, Listed
<1>3. InServer(c) = data
  BY <1>0 DEF InServer
<1>4. InServer(c)' = Rest(data, n)
  <2>1. CASE UNCHANGED <<pc, i>>
    BY <1>0, <1>1, <2>1 DEF InServer
  <2>2. CASE pc' = "scan" /\ n = Len(data)
    <3>1. Rest(data, n) = << >>
      BY <1>2, <2>2, NothingRests
    <3> QED
      BY <1>2, <2>2, <3>1 DEF InServer
  <2> QED
    BY <1>1, <2>1, <2>2
<1>5. \A x \in Clients \ {c} : InServer(x)' = InServer(x)
  BY <1>0, <1>1, <1>2 DEF InServer
<1>6. /\ \A x \in Clients : Stream(x)' /\ (Readable(x) => Readable(x)')
      /\ SocketsTypeOK' /\ ClientsTypeOK' /\ Rest(data, n) \in Seq(Nat)
  BY <1>1, <1>3, <1>4, <1>5, GivenBack
<1>7. SelectTypeOK' /\ SingleTypeOK'
  BY <1>0, <1>1, <1>2, <1>6 DEF NetInv, NetTypeOK, SelectTypeOK, SingleTypeOK
<1>8. ServerOwns'
  BY <1>0, <1>1, <1>2 DEF NetInv, ServerOwns, OneServer, Served, Listed
<1>9. ReadyLasts'
  <2> SUFFICES ASSUME NEW k \in DOMAIN sockets, k > i, sockets[k] \in ready
               PROVE  Readable(sockets[k])'
    BY <1>0, <1>1, <1>2, ServerFacts DEF ReadyLasts
  <2>1. sockets[k] \in Clients /\ Readable(sockets[k])
    <3>1. k \in Nat /\ i \in Nat /\ k >= i /\ k # i
      BY <1>2, ServerFacts
    <3> QED
      BY <1>0, <3>1, ServerFacts DEF NetInv, ReadyLasts
  <2> QED
    BY <1>1, <1>6, <2>1
<1> QED
  BY <1>6, <1>7, <1>8, <1>9 DEF NetInv, NetTypeOK

LEMMA SingleSendStep ==
    ASSUME NetInv, UNCHANGED <<clientVars, selectVars>>, SingleSend
    PROVE  NetInv'
<1> USE DEF selectVars
<1>1. PICK n \in 1..Len(echo) :
        /\ single = "send" /\ ~broken[peer] /\ WriteDown(peer, First(echo, n))
        /\ echo' = Rest(echo, n) /\ single' \in {"recv", "send"}
        /\ single' = "recv" => n = Len(echo)
        /\ UNCHANGED <<clientEnd, serverEnd, sent, got, peer>>
  BY DEF SingleSend
<1>2. /\ peer \in Clients /\ pc = "off" /\ sockets = << >> /\ echo \in Seq(Nat)
      /\ UNCHANGED <<pc, sockets, ready, i, data>>
  BY <1>1, ServerFacts DEF NetInv, NetTypeOK, SingleTypeOK, ServerOwns
<1>3. InServer(peer) = echo
  BY <1>1, <1>2 DEF InServer
<1>4. InServer(peer)' = Rest(echo, n)
  <2>1. CASE single' = "send"
    BY <1>1, <1>2, <2>1 DEF InServer
  <2>2. CASE single' = "recv"
    <3>1. Rest(echo, n) = << >>
      BY <1>1, <1>2, <2>2, NothingRests
    <3> QED
      BY <1>2, <2>2, <3>1 DEF InServer
  <2> QED
    BY <1>1, <2>1, <2>2
<1>5. \A x \in Clients \ {peer} : InServer(x)' = InServer(x)
  BY <1>1, <1>2 DEF InServer
<1>6. /\ \A x \in Clients : Stream(x)'
      /\ SocketsTypeOK' /\ ClientsTypeOK' /\ Rest(echo, n) \in Seq(Nat)
  BY <1>1, <1>2, <1>3, <1>4, <1>5, GivenBack
<1>7. SelectTypeOK' /\ SingleTypeOK'
  BY <1>1, <1>2, <1>6 DEF NetInv, NetTypeOK, SelectTypeOK, SingleTypeOK
<1>8. ServerOwns'
  BY <1>1, <1>2 DEF NetInv, ServerOwns, OneServer, Served, Listed
<1>9. ReadyLasts'
  BY <1>2 DEF ReadyLasts
<1> QED
  BY <1>6, <1>7, <1>8, <1>9 DEF NetInv, NetTypeOK

-----------------------------------------------------------------------------
(***************************************************************************)
(* Closing one connection, and closing all.                                *)
(***************************************************************************)
\* The server closes a connection that is reset, or whose client is gone.
LEMMA ClosedStream ==
    ASSUME NetInv, NEW c \in Clients, serverEnd[c] = "open", CloseServerEnd(c),
           broken[c] \/ clientEnd[c] = "closed", InServer(c)' = << >>,
           \A x \in Clients \ {c} : InServer(x)' = InServer(x),
           UNCHANGED <<clientEnd, sent, got, clientVars>>
    PROVE  /\ \A x \in Clients : Stream(x)' /\ (Readable(x) => Readable(x)')
           /\ SocketsTypeOK' /\ ClientsTypeOK'
           /\ serverEnd'[c] = "closed" /\ \A x \in Clients \ {c} : serverEnd'[x] = serverEnd[x]
<1>1. /\ serverEnd' = [serverEnd EXCEPT ![c] = "closed"]
      /\ \/ UNCHANGED <<broken, up, down>>
         \/ /\ broken' = [broken EXCEPT ![c] = TRUE]
            /\ up' = [up EXCEPT ![c] = << >>] /\ down' = [down EXCEPT ![c] = << >>]
  BY DEF CloseServerEnd, Reset
<1>2. SocketsTypeOK' /\ ClientsTypeOK'
  <2>2. ClientsTypeOK'
    BY DEF NetInv, NetTypeOK, ClientsTypeOK, clientVars
  <2>1. serverEnd' \in [Clients -> {"none", "backlog", "open", "closed"}]
    BY <1>1 DEF NetInv, NetTypeOK, SocketsTypeOK
  <2>3. /\ broken' \in [Clients -> BOOLEAN]
        /\ up' \in [Clients -> Seq(Nat)] /\ down' \in [Clients -> Seq(Nat)]
    BY <1>1, ResetTyped DEF NetInv, NetTypeOK
  <2> QED
    BY <2>1, <2>2, <2>3 DEF NetInv, NetTypeOK, SocketsTypeOK
<1>3. Apart(c) /\ UNCHANGED <<main, rest>>
  BY <1>1 DEF NetInv, NetTypeOK, SocketsTypeOK, Apart, clientVars
<1>4. /\ serverEnd'[c] = "closed" /\ clientEnd'[c] = clientEnd[c]
      /\ \/ broken'[c] = broken[c] /\ up'[c] = up[c] /\ down'[c] = down[c]
         \/ broken'[c] = TRUE /\ up'[c] = << >> /\ down'[c] = << >>
  BY <1>1 DEF NetInv, NetTypeOK, SocketsTypeOK
<1>5. Stream(c)'
  <2>1. main[c] # "start" /\ broken'[c] \in BOOLEAN
    BY <1>2, StreamTypes DEF Sound, SocketsTypeOK
  <2>2. Sound(main[c], clientEnd[c], "closed", broken'[c], up'[c], down'[c], << >>,
              rest[c], sent[c], got[c])
    BY <1>4, <2>1, StreamTypes, NothingFollows DEF Sound
  <2> QED
    BY <1>3, <1>4, <2>2 DEF Stream
<1>6. \A x \in Clients : Readable(x) => Readable(x)'
  BY <1>3, <1>4 DEF Readable, Apart
<1> QED
  BY <1>2, <1>3, <1>4, <1>5, <1>6, OneStream DEF Apart

LEMMA EraseStep ==
    ASSUME NetInv, UNCHANGED <<clientVars, singleVars>>, ReceiveEnd \/ SendAllFails
    PROVE  NetInv'
<1> USE DEF singleVars
<1>0. PICK c \in Clients :
        /\ c = sockets[i] /\ i \in 1..Len(sockets) /\ pc \in {"scan", "send"} /\ pc' = "scan"
        /\ broken[c] \/ clientEnd[c] = "closed"
        /\ CloseServerEnd(c) /\ sockets' = Erased(i)
        /\ UNCHANGED <<clientEnd, sent, got, ready>> /\ data' \in {data, << >>}
        /\ \/ i' = i /\ pc = "scan"
           \/ i' = i + 1 /\ pc = "send"
  BY ServerFacts DEF ReceiveEnd, SendAllFails, CloseAndErase, NetInv, NetTypeOK, SelectTypeOK
<1>1. /\ serverEnd[c] = "open" /\ single = "off" /\ UNCHANGED <<single, peer, echo>>
      /\ c \in Listed
  BY <1>0, ServerFacts DEF NetInv, ServerOwns, Served, Listed
<1>2. InServer(c)' = << >> /\ \A x \in Clients \ {c} : InServer(x)' = InServer(x)
  BY <1>0, <1>1 DEF InServer
<1>3. /\ \A x \in Clients : Stream(x)' /\ (Readable(x) => Readable(x)')
      /\ SocketsTypeOK' /\ ClientsTypeOK'
      /\ serverEnd'[c] = "closed" /\ \A x \in Clients \ {c} : serverEnd'[x] = serverEnd[x]
  BY <1>0, <1>1, <1>2, ClosedStream
<1>4. /\ sockets' \in Seq(Clients) /\ Listed' = Listed \ {c}
      /\ \A j, k \in DOMAIN sockets' : sockets'[j] = sockets'[k] => j = k
      /\ DOMAIN sockets' = 1..(Len(sockets) - 1)
      /\ \A k \in DOMAIN sockets' : k >= i => sockets'[k] = sockets[k + 1]
  <2>1. /\ sockets' \in Seq(Clients) /\ Listed' = Listed \ {sockets[i]}
        /\ \A j, k \in DOMAIN sockets' : sockets'[j] = sockets'[k] => j = k
        /\ DOMAIN sockets' = 1..(Len(sockets) - 1)
        /\ \A k \in DOMAIN sockets' :
             sockets'[k] = IF k < i THEN sockets[k] ELSE sockets[k + 1]
    BY <1>0, ServerFacts, ErasedOne
  <2>2. \A k \in DOMAIN sockets' : k >= i => ~(k < i)
    BY <1>0, <2>1
  <2> QED
    BY <1>0, <2>1, <2>2
<1>5. SelectTypeOK' /\ SingleTypeOK'
  <2>1. data' \in Seq(Nat) /\ i' \in Nat \ {0}
    <3>1. << >> \in Seq(Nat) /\ data \in Seq(Nat) /\ i \in Nat \ {0} /\ i + 1 \in Nat \ {0}
      BY ServerFacts
    <3> QED
      BY <1>0, <3>1
  <2> QED
    BY <1>0, <1>1, <1>4, <2>1 DEF NetInv, NetTypeOK, SelectTypeOK, SingleTypeOK
<1>6. ServerOwns'
  BY <1>0, <1>1, <1>3, <1>4 DEF NetInv, ServerOwns, OneServer, Served
<1>7. ReadyLasts'
  <2> SUFFICES ASSUME NEW k \in DOMAIN sockets', k >= i', sockets'[k] \in ready
               PROVE  Readable(sockets[k])'
    BY <1>0 DEF ReadyLasts
  <2>1. k >= i /\ k + 1 \in DOMAIN sockets /\ k + 1 > i /\ k + 1 # i
    BY <1>0, <1>4, ServerFacts
  <2>2. sockets'[k] = sockets[k + 1]
    BY <1>4, <2>1
  <2>3. PICK x \in Clients : x = sockets[k + 1]
    BY <2>1, ServerFacts
  <2>4. Readable(x)
    BY <1>0, <2>1, <2>2, <2>3 DEF NetInv, ReadyLasts
  <2> QED
    BY <1>3, <2>2, <2>3, <2>4 DEF Readable
<1> QED
  BY <1>3, <1>5, <1>6, <1>7 DEF NetInv, NetTypeOK

\* The end of a server closes what it had, and leaves nothing in it.
LEMMA EndedStreams ==
    ASSUME NetInv, NEW crash \in BOOLEAN, EndServer(crash), UNCHANGED clientVars,
           \A x \in Clients : InServer(x)' = << >>
    PROVE  /\ \A x \in Clients : Stream(x)' /\ serverEnd'[x] # "open"
           /\ SocketsTypeOK' /\ ClientsTypeOK'
<1> DEFINE closing == {x \in Clients : serverEnd[x] \in {"backlog", "open"}}
           resets == {x \in closing : crash \/ serverEnd[x] = "backlog" \/ up[x] # << >>}
<1>1. /\ serverEnd' = [x \in Clients |-> IF x \in closing THEN "closed" ELSE serverEnd[x]]
      /\ broken' = [x \in Clients |-> broken[x] \/ x \in resets]
      /\ up' = [x \in Clients |-> IF x \in closing THEN << >> ELSE up[x]]
      /\ down' = [x \in Clients |-> IF x \in resets THEN << >> ELSE down[x]]
      /\ UNCHANGED <<clientEnd, sent, got, main, running, receiver, rest>>
  BY DEF EndServer, clientVars
<1>2. SocketsTypeOK' /\ ClientsTypeOK'
  <2>1. << >> \in Seq(Nat)
    OBVIOUS
  <2>2. /\ serverEnd' \in [Clients -> {"none", "backlog", "open", "closed"}]
        /\ broken' \in [Clients -> BOOLEAN]
    BY <1>1 DEF NetInv, NetTypeOK, SocketsTypeOK
  <2>3. up' \in [Clients -> Seq(Nat)] /\ down' \in [Clients -> Seq(Nat)]
    BY <1>1, <2>1 DEF NetInv, NetTypeOK, SocketsTypeOK
  <2> QED
    BY <1>1, <2>2, <2>3 DEF NetInv, NetTypeOK, SocketsTypeOK, ClientsTypeOK
<1>3. ASSUME NEW x \in Clients
      PROVE  Stream(x)' /\ serverEnd'[x] # "open"
  <2>1. CASE x \in resets
    <3>1. serverEnd'[x] = "closed" /\ broken'[x] = TRUE /\ up'[x] = << >> /\ down'[x] = << >>
      BY <1>1, <2>1
    <3>2. main[x] # "start"
      BY <2>1, StreamTypes DEF Sound
    <3>3. Sound(main[x], clientEnd[x], "closed", TRUE, << >>, << >>, << >>,
                rest[x], sent[x], got[x])
      BY <3>2, StreamTypes DEF Sound
    <3> QED
      BY <1>1, <1>3, <3>1, <3>3 DEF Stream
  <2>2. CASE x \in closing /\ x \notin resets
    <3>1. /\ serverEnd'[x] = "closed" /\ broken'[x] = broken[x]
          /\ up'[x] = << >> /\ up[x] = << >> /\ down'[x] = down[x]
      BY <1>1, <2>2, StreamTypes
    <3>2. main[x] # "start"
      BY <2>2, StreamTypes DEF Sound
    <3>3. clientEnd[x] = "open" /\ ~broken[x] =>
            Follows(down[x], got[x]) /\ got[x] + Len(down[x]) + Len(<< >>) <= sent[x]
      <4>1. /\ Len(down[x]) \in Nat /\ Len(InServer(x)) \in Nat /\ got[x] \in Nat
            /\ sent[x] \in Nat /\ Len(<< >>) = 0
        BY StreamTypes
      <4>2. clientEnd[x] = "open" /\ ~broken[x] =>
              Follows(down[x], got[x]) /\ got[x] + Len(down[x]) + Len(InServer(x)) <= sent[x]
        BY StreamTypes DEF Sound
      <4> QED
        BY <4>1, <4>2
    <3>4. Sound(main[x], clientEnd[x], "closed", broken[x], << >>, down[x], << >>,
                rest[x], sent[x], got[x])
      BY <3>1, <3>2, <3>3, StreamTypes, NothingFollows DEF Sound
    <3> QED
      BY <1>1, <1>3, <3>1, <3>4 DEF Stream
  <2>3. CASE x \notin closing
    <3>1. /\ serverEnd'[x] = serverEnd[x] /\ broken'[x] = broken[x]
          /\ up'[x] = up[x] /\ down'[x] = down[x] /\ serverEnd[x] # "open"
      BY <1>1, <2>3, StreamTypes
    <3>2. InServer(x) = << >>
      BY <3>1, HeldOfServed DEF NetInv, ServerOwns
    <3> QED
      BY <1>1, <1>3, <3>1, <3>2 DEF NetInv, Stream
  <2> QED
    BY <2>1, <2>2, <2>3
<1> QED
  BY <1>2, <1>3

LEMMA SelectEndStep ==
    ASSUME NetInv, UNCHANGED <<clientVars, singleVars>>, SelectFails \/ WriteOutside
    PROVE  NetInv'
<1> USE DEF singleVars
<1>1. /\ pc \in {"select", "scan"} /\ pc' \in {"ended", "crashed"} /\ single = "off"
      /\ sockets' = << >> /\ UNCHANGED <<single, peer, echo, data>>
      /\ ready' \in {ready, {}} /\ i' \in {i, 1}
      /\ \E crash \in BOOLEAN : EndServer(crash)
  BY ServerFacts DEF SelectFails, WriteOutside
<1>2. \A x \in Clients : InServer(x)' = << >>
  BY <1>1 DEF InServer
<1>3. /\ \A x \in Clients : Stream(x)' /\ serverEnd'[x] # "open"
      /\ SocketsTypeOK' /\ ClientsTypeOK'
  BY <1>1, <1>2, EndedStreams
<1>4. SelectTypeOK' /\ SingleTypeOK'
  <2>1. << >> \in Seq(Clients)
    OBVIOUS
  <2> QED
    BY <1>1, <2>1 DEF NetInv, NetTypeOK, SelectTypeOK, SingleTypeOK
<1>5. ServerOwns'
  BY <1>1, <1>3 DEF ServerOwns, OneServer, Served, Listed
<1>6. ReadyLasts'
  BY <1>1 DEF ReadyLasts
<1> QED
  BY <1>3, <1>4, <1>5, <1>6 DEF NetInv, NetTypeOK

LEMMA SingleEndStep ==
    ASSUME NetInv, UNCHANGED <<clientVars, selectVars>>, AcceptOneFails \/ SingleEnds
    PROVE  NetInv'
<1> USE DEF selectVars
<1>1. /\ single \in {"accept", "recv", "send"} /\ single' = "ended" /\ pc = "off"
      /\ sockets = << >> /\ UNCHANGED <<pc, sockets, ready, i, data, peer>>
      /\ echo' \in {echo, << >>} /\ EndServer(FALSE)
  BY ServerFacts DEF AcceptOneFails, SingleEnds, NetInv, ServerOwns
<1>2. \A x \in Clients : InServer(x)' = << >>
  BY <1>1 DEF InServer
<1>3. /\ \A x \in Clients : Stream(x)' /\ serverEnd'[x] # "open"
      /\ SocketsTypeOK' /\ ClientsTypeOK'
  BY <1>1, <1>2, EndedStreams
<1>4. SelectTypeOK' /\ SingleTypeOK'
  <2>1. << >> \in Seq(Nat)
    OBVIOUS
  <2> QED
    BY <1>1, <2>1 DEF NetInv, NetTypeOK, SelectTypeOK, SingleTypeOK
<1>5. ServerOwns'
  BY <1>1, <1>3 DEF ServerOwns, OneServer, Served, Listed
<1>6. ReadyLasts'
  BY <1>1 DEF ReadyLasts
<1> QED
  BY <1>3, <1>4, <1>5, <1>6 DEF NetInv, NetTypeOK

LEMMA IdleStep ==
    ASSUME NetInv, UNCHANGED netVars
    PROVE  NetInv'
<1>1. UNCHANGED <<socketVars, clientVars, selectVars, singleVars>>
  BY DEF netVars
<1>2. \A x \in Clients : InServer(x)' = InServer(x)
  BY <1>1 DEF InServer, selectVars, singleVars
<1>3. /\ \A x \in Clients : Stream(x)' /\ Readable(x)' = Readable(x)
      /\ SocketsTypeOK' /\ ClientsTypeOK'
  BY <1>1, <1>2, SameStreams
<1>4. SelectTypeOK' /\ SingleTypeOK'
  BY <1>1 DEF NetInv, NetTypeOK, SelectTypeOK, SingleTypeOK, selectVars, singleVars
<1>5. ServerOwns'
  BY <1>1 DEF NetInv, ServerOwns, OneServer, Served, Listed, socketVars, selectVars, singleVars
<1>6. ReadyLasts'
  BY <1>1 DEF NetInv, ReadyLasts, Listed, Readable, socketVars, selectVars
<1> QED
  BY <1>3, <1>4, <1>5, <1>6 DEF NetInv, NetTypeOK

-----------------------------------------------------------------------------
LEMMA NetInvKept ==
    ASSUME NetInv, [NetNext]_netVars
    PROVE  NetInv'
<1>1. CASE Start /\ UNCHANGED clientVars
  BY <1>1, StartStep
<1>2. CASE \E c \in Clients : Clientside(c) /\ UNCHANGED <<selectVars, singleVars>>
  BY <1>2, ClientSteps DEF ServersIdle
<1>3. CASE \E c \in Clients :
             ConnectionLost(c) /\ UNCHANGED <<clientVars, selectVars, singleVars>>
  BY <1>3, LostStep DEF ServersIdle
<1>4. CASE SelectStep /\ UNCHANGED <<clientVars, singleVars>>
  <2>1. CASE Select \/ NoAccept \/ Skip \/ ReceiveError \/ EndScan
    BY <1>4, <2>1, RoundStep
  <2>2. CASE Receive
    BY <1>4, <2>2, ReceivedStep
  <2>3. CASE SendAll
    BY <1>4, <2>3, SendAllStep
  <2>4. CASE ReceiveEnd \/ SendAllFails
    BY <1>4, <2>4, EraseStep
  <2>5. CASE \E c \in Clients : Accept(c) \/ AcceptFails(c)
    BY <1>4, <2>5, AcceptStep
  <2> QED
    BY <1>4, <2>1, <2>2, <2>3, <2>4, <2>5 DEF SelectStep
<1>5. CASE SingleStep /\ UNCHANGED <<clientVars, selectVars>>
  BY <1>5, AcceptOneStep, SingleReceivedStep, SingleSendStep, SingleEndStep DEF SingleStep
<1>6. CASE (SelectFails \/ WriteOutside) /\ UNCHANGED <<clientVars, singleVars>>
  BY <1>6, SelectEndStep
<1>7. CASE UNCHANGED netVars
  BY <1>7, IdleStep
<1> QED
  BY <1>1, <1>2, <1>3, <1>4, <1>5, <1>6, <1>7 DEF NetNext, ServerStep, Over

(***************************************************************************)
(* The invariant says what the runs check of the servers.                  *)
(***************************************************************************)
LEMMA NetInvShows ==
    ASSUME NetInv
    PROVE  NetTypeOK /\ EchoIntact /\ ListedIffOpen /\ ReadyIsReadable
<1>1. EchoIntact
  BY StreamTypes DEF EchoIntact, Sound
<1>2. ListedIffOpen
  BY DEF NetInv, ServerOwns, ListedIffOpen
<1>3. ReadyIsReadable
  BY DEF NetInv, ReadyLasts, ReadyIsReadable
<1> QED
  BY <1>1, <1>2, <1>3 DEF NetInv

(***************************************************************************)
(* Whatever send and recv cut, in both servers and both clients, and       *)
(* however connections are made, reset and closed, in any number: the      *)
(* bytes of a connection that holds are all there and in order             *)
(* (Server.cpp SendAll, Client.cpp SendALL).                               *)
(***************************************************************************)
THEOREM EchoStaysIntact == NetSpec => []EchoIntact
BY NetInitHolds, NetInvKept, NetInvShows, PTL DEF NetSpec

\* Every variable of the servers, the clients and the sockets keeps its type.
THEOREM NetTypes == NetSpec => []NetTypeOK
BY NetInitHolds, NetInvKept, NetInvShows, PTL DEF NetSpec

(***************************************************************************)
(* clientSockets, from which the loop erases while it goes through it, is  *)
(* the set of open connections (nonblockselect-tcp/Server.cpp:79-142).     *)
(***************************************************************************)
THEOREM ListIsRight == NetSpec => []ListedIffOpen
BY NetInitHolds, NetInvKept, NetInvShows, PTL DEF NetSpec

(***************************************************************************)
(* recv finds what select announced, whatever the clients did between the  *)
(* two calls, so it never waits (nonblockselect-tcp/Server.cpp:109-119).   *)
(***************************************************************************)
THEOREM SocketsAreServed == NetSpec => []ReadyIsReadable
BY NetInitHolds, NetInvKept, NetInvShows, PTL DEF NetSpec

-----------------------------------------------------------------------------
(***************************************************************************)
(* The refinement: what a step of the network is in the contract.          *)
(***************************************************************************)
Live == [c \in Clients |-> clientEnd[c] = "open"]

LEMMA ClientRefines ==
    ASSUME NetInv, NEW c \in Clients, Clientside(c)
    PROVE  Contract!ContractNext \/ UNCHANGED <<sent, got, Live>>
<1> USE DEF Live
<1>1. /\ clientEnd \in [Clients -> {"none", "open", "closed"}]
      /\ sent \in [Clients -> Nat] /\ got \in [Clients -> Nat]
  BY DEF NetInv, NetTypeOK, SocketsTypeOK
<1>2. CASE UNCHANGED <<clientEnd, sent, got>>
  BY <1>2
<1>3. CASE Connected(c, Listening)
  <2>1. clientEnd[c] = "none" /\ sent[c] = 0
    BY <1>3, StreamTypes DEF Connected, Sound
  <2>2. /\ clientEnd' = [clientEnd EXCEPT ![c] = "open"] /\ UNCHANGED <<sent, got>>
    BY <1>3 DEF Connected
  <2>3. Contract!Open(c)
    BY <1>1, <2>1, <2>2 DEF Contract!Open
  <2> QED
    BY <2>3 DEF Contract!ContractNext
<1>4. CASE SendALL(c) \/ PlainSend(c)
  <2>1. PICK n \in 1..Len(rest[c]) :
          /\ main[c] \in {"sendall", "send"} /\ sent' = [sent EXCEPT ![c] = @ + n]
          /\ UNCHANGED <<clientEnd, got>>
    BY <1>4 DEF SendALL, PlainSend
  <2>2. clientEnd[c] = "open" /\ n \in Nat \ {0}
    BY <2>1, StreamTypes DEF Sound
  <2>3. Contract!Say(c)
    <3>1. sent'[c] = sent[c] + n /\ sent' = [sent EXCEPT ![c] = sent'[c]]
      BY <1>1, <2>1
    <3>2. sent'[c] \in Nat /\ sent[c] < sent'[c]
      BY <1>1, <2>2, <3>1
    <3> QED
      BY <2>1, <2>2, <3>1, <3>2 DEF Contract!Say
  <2> QED
    BY <2>3 DEF Contract!ContractNext
<1>5. CASE ReceiveEcho(c) \/ PlainReceive(c)
  <2>1. PICK n \in 1..Len(down[c]) :
          /\ ReadDown(c, n) /\ UNCHANGED <<clientEnd, sent, broken>>
          /\ clientEnd[c] = "open" \/ main[c] = "recv"
    BY <1>5 DEF ReceiveEcho, PlainReceive
  <2>2. /\ clientEnd[c] = "open" /\ Follows(down[c], got[c]) /\ down[c] \in Seq(Nat)
        /\ got[c] + Len(down[c]) <= sent[c]
    <3>1. /\ clientEnd[c] = "open" /\ ~broken[c] /\ down[c] \in Seq(Nat)
          /\ InServer(c) \in Seq(Nat) /\ got[c] \in Nat /\ sent[c] \in Nat
      BY <2>1, StreamTypes DEF Sound
    <3>2. Follows(down[c], got[c]) /\ got[c] + Len(down[c]) + Len(InServer(c)) <= sent[c]
      BY <3>1, StreamTypes DEF Sound
    <3> QED
      BY <3>1, <3>2
  <2>3. got' = [got EXCEPT ![c] = got[c] + n] /\ n \in Nat \ {0} /\ got[c] + n <= sent[c]
    <3>1. down[c][n] = got[c] + n
      BY <2>2 DEF Follows
    <3> QED
      BY <1>1, <2>1, <2>2, <3>1 DEF ReadDown
  <2>4. got[c] + n \in (got[c] + 1)..sent[c]
    BY <1>1, <2>3
  <2>5. Contract!Hear(c)
    BY <1>1, <2>1, <2>2, <2>3, <2>4 DEF Contract!Hear
  <2> QED
    BY <2>5 DEF Contract!ContractNext
<1>6. CASE CloseThreaded(c) \/ ClosePlain(c)
  <2>1. clientEnd' = [clientEnd EXCEPT ![c] = "closed"] /\ UNCHANGED <<sent, got>>
    BY <1>6 DEF CloseThreaded, ClosePlain, CloseClientEnd
  <2>2. Contract!Leave(c)
    BY <1>1, <2>1 DEF Contract!Leave
  <2> QED
    BY <2>2 DEF Contract!ContractNext
<1>7. CASE ConnectFails(c) \/ User(c)
  BY <1>2, <1>7 DEF ConnectFails, User, GetLine, GetPlainLine, Quit, QuitPlain, socketVars
<1>8. CASE SendALLFails(c) \/ Join(c) \/ PlainFails(c) \/ ReceiveStops(c) \/ ReceiveEnds(c)
  BY <1>2, <1>8 DEF SendALLFails, Join, PlainFails, ReceiveStops, ReceiveEnds, socketVars
<1> QED
  BY <1>3, <1>4, <1>5, <1>6, <1>7, <1>8
     DEF Clientside, ClientConnects, ConnectThreaded, ConnectPlain, MainThread, ReceiveLoop

\* The contract does not see what the servers do.
LEMMA OthersStutter ==
    ASSUME NetInv, NetNext, ~\E c \in Clients : Clientside(c)
    PROVE  UNCHANGED <<sent, got, Live>>
<1> USE DEF Live, socketVars
<1>1. CASE Start
  BY <1>1 DEF Start, StartSelect, StartSelectFails, StartSingle, StartSingleFails
<1>2. CASE \E c \in Clients : ConnectionLost(c)
  BY <1>2 DEF ConnectionLost
<1>3. CASE SelectStep
  BY <1>3 DEF SelectStep, Select, NoAccept, Skip, Receive, ReceiveEnd, ReceiveError, EndScan,
              SendAll, SendAllFails, Accept, AcceptFails
<1>4. CASE SingleStep
  BY <1>4 DEF SingleStep, AcceptOne, AcceptOneFails, SingleReceive, SingleSend, SingleEnds,
              EndServer
<1>5. CASE SelectFails \/ WriteOutside
  BY <1>5 DEF SelectFails, WriteOutside, EndServer
<1>6. CASE Over
  BY <1>6 DEF Over, netVars
<1> QED
  BY <1>1, <1>2, <1>3, <1>4, <1>5, <1>6 DEF NetNext, ServerStep

(***************************************************************************)
(* Both servers keep the contract of an echo server with any clients of    *)
(* either kind: a client hears only what it said, and in order.            *)
(***************************************************************************)
THEOREM ServersEcho == NetSpec => EchoRefines
<1>1. NetInit => Contract!ContractInit
  BY DEF NetInit, SocketsInit, Contract!ContractInit
<1>2. NetInv /\ [NetNext]_netVars => [Contract!ContractNext]_<<sent, got, Live>>
  <2> SUFFICES ASSUME NetInv, [NetNext]_netVars
               PROVE  [Contract!ContractNext]_<<sent, got, Live>>
    OBVIOUS
  <2>1. CASE UNCHANGED netVars
    BY <2>1 DEF netVars, socketVars, Live
  <2>2. CASE NetNext
    BY <2>2, ClientRefines, OthersStutter
  <2> QED
    BY <2>1, <2>2
<1>3. <<sent, got, Live>> = Contract!contractVars
  BY DEF Contract!contractVars, Live
<1>4. NetInv /\ [NetNext]_netVars => [Contract!ContractNext]_(Contract!contractVars)
  BY <1>2, <1>3 DEF Contract!contractVars, Live
<1> QED
  BY <1>1, <1>4, NetInitHolds, NetInvKept, PTL DEF NetSpec, EchoRefines, Contract!ContractSpec

=============================================================================
