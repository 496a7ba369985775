------------------------------ MODULE EchoNetwork ------------------------------
(***************************************************************************)
(* The echo servers and clients together.  Every server listens on         *)
(* 127.0.0.1:9000 and every client connects to it, so that one server, of  *)
(* either kind, meets clients of both kinds.                               *)
(***************************************************************************)
EXTENDS EchoClients, SelectServer, SingleServer

netVars == <<socketVars, clientVars, selectVars, singleVars>>

NetInit == SocketsInit /\ ClientsInit /\ SelectInit /\ SingleInit

Listening == SelectListens \/ SingleListens

\* The second server that is started cannot bind the port.
Start ==
    \/ single = "off" /\ (StartSelect \/ StartSelectFails) /\ UNCHANGED singleVars
    \/ pc = "off" /\ (StartSingle \/ StartSingleFails) /\ UNCHANGED selectVars

ClientConnects(c) ==
    \/ ConnectThreaded(c, Listening) \/ ConnectPlain(c, Listening) \/ ConnectFails(c)

Clientside(c) ==
    ClientConnects(c) \/ User(c) \/ MainThread(c) \/ ReceiveLoop(c)

ServerStep ==
    \/ SelectStep /\ UNCHANGED <<clientVars, singleVars>>
    \/ SingleStep /\ UNCHANGED <<clientVars, selectVars>>

Over == (\A c \in Clients : main[c] = "ended") /\ UNCHANGED netVars

NetNext ==
    \/ Start /\ UNCHANGED clientVars
    \/ \E c \in Clients : Clientside(c) /\ UNCHANGED <<selectVars, singleVars>>
    \/ \E c \in Clients : ConnectionLost(c) /\ UNCHANGED <<clientVars, selectVars, singleVars>>
    \/ ServerStep
    \/ (SelectFails \/ WriteOutside) /\ UNCHANGED <<clientVars, singleVars>>
    \/ Over

NetSpec == NetInit /\ [][NetNext]_netVars

\* Threads run.  Nothing is assumed of users, of select and of the network.
NetFair ==
    /\ WF_netVars(ServerStep)
    /\ \A c \in Clients : WF_netVars(MainThread(c) /\ UNCHANGED <<selectVars, singleVars>>)
    /\ \A c \in Threaded : WF_netVars(ReceiveLoop(c) /\ UNCHANGED <<selectVars, singleVars>>)

FairNetSpec == NetSpec /\ NetFair

-----------------------------------------------------------------------------
\* What the server has received from c and not yet sent back.
InServer(c) ==
    IF pc = "send" /\ sockets[i] = c THEN data
    ELSE IF single = "send" /\ peer = c THEN echo
    ELSE << >>

\* The bytes of s are the ones that follow byte n.
Follows(s, n) == \A k \in DOMAIN s : s[k] = n + k

Listed == {sockets[k] : k \in DOMAIN sockets}

Served == Listed \cup (IF single \in {"recv", "send"} THEN {peer} ELSE {})

(***************************************************************************)
(* Types of the variables of servers and clients.                          *)
(***************************************************************************)
NetTypeOK == SocketsTypeOK /\ ClientsTypeOK /\ SelectTypeOK /\ SingleTypeOK

(***************************************************************************)
(* However send and recv cut the stream, the bytes a client has sent and   *)
(* not received back are, in this order: on the way down, in the server's  *)
(* buffer, on the way up; none is missing while the connection holds       *)
(* (SendAll and SendALL resume at data + totalSent).                       *)
(***************************************************************************)
EchoIntact ==
    \A c \in Clients :
      clientEnd[c] = "open" /\ ~broken[c] =>
        /\ Follows(down[c], got[c])
        /\ Follows(InServer(c), got[c] + Len(down[c]))
        /\ serverEnd[c] # "closed" =>
             /\ Follows(up[c], got[c] + Len(down[c]) + Len(InServer(c)))
             /\ sent[c] = got[c] + Len(down[c]) + Len(InServer(c)) + Len(up[c])

(***************************************************************************)
(* A server keeps exactly the sockets it has not closed, each once:        *)
(* nothing is used after closesocket and nothing is forgotten              *)
(* (nonblockselect-tcp/Server.cpp:123-141, erasing inside the loop).       *)
(***************************************************************************)
ListedIffOpen ==
    /\ \A c \in Clients : serverEnd[c] = "open" <=> c \in Served
    /\ \A j, k \in DOMAIN sockets : sockets[j] = sockets[k] => j = k

(***************************************************************************)
(* recv does not block the select server: what select found readable still *)
(* is when the loop comes to it, although clients went on and sockets were *)
(* erased in between (nonblockselect-tcp/Server.cpp:109-120).              *)
(***************************************************************************)
ReadyIsReadable ==
    pc = "scan" =>
      \A k \in DOMAIN sockets : k >= i /\ sockets[k] \in ready => Readable(sockets[k])

Contract == INSTANCE EchoContract
              WITH said <- sent, heard <- got,
                   live <- [c \in Clients |-> clientEnd[c] = "open"]

(***************************************************************************)
(* Either server keeps the contract with clients of either kind.           *)
(***************************************************************************)
EchoRefines == Contract!ContractSpec

-----------------------------------------------------------------------------
\* The select server waits for a plain client that does not receive.
WaitsFor(c) ==
    /\ pc = "send" /\ sockets[i] = c /\ ~broken[c]
    /\ c \in Plain /\ Len(down[c]) = DownLimit

NeverStalls == \A c \in Plain : []<>~WaitsFor(c)

(***************************************************************************)
(* Every byte of a threaded client in the select server's set comes back,  *)
(* unless the connection ends or the server is stuck for ever with a plain *)
(* client: no client starves another (nonblockselect-tcp/Server.cpp:109).  *)
(***************************************************************************)
EveryByteReturns ==
    NeverStalls =>
      \A c \in Threaded : \A n \in 1..MaxSent[c] :
        c \in Watched /\ sent[c] >= n
          ~> got[c] >= n \/ broken[c] \/ clientEnd[c] = "closed" \/ serverEnd[c] = "closed"

(***************************************************************************)
(* A client in the set that closes its end is erased, or its connection    *)
(* was reset by what it had not received                                   *)
(* (nonblockselect-tcp/Server.cpp:123-129).                                *)
(***************************************************************************)
GoneIsErased ==
    NeverStalls =>
      \A c \in Clients :
        c \in Watched /\ clientEnd[c] = "closed" ~> c \notin Listed \/ broken[c]

(***************************************************************************)
(* The threads of a client tell each other: when the server has closed the *)
(* connection, running becomes false, and a client that is closing ends    *)
(* with both its threads (nonblockselect-tcp/Client.cpp:80-115, 176-213).  *)
(***************************************************************************)
ClientWindsUp ==
    \A c \in Threaded :
      /\ serverEnd[c] = "closed" ~> ~running[c]
      /\ main[c] = "close" ~> main[c] = "ended"

\* Client and single server both wait in send, and neither receives.
BothSend(c) ==
    /\ peer = c /\ single = "send" /\ main[c] = "send"
    /\ Len(down[c]) = DownLimit /\ Len(up[c]) = UpLimit

Unanswered(c) == sent[c] + Len(rest[c]) - got[c]

(***************************************************************************)
(* A plain client of the single server gets on with a line, and with the   *)
(* answer if there is any to come, however send and recv cut them.  The    *)
(* exception is that both wait in send, each for the other to receive,     *)
(* which takes a line longer than the two directions hold                  *)
(* (chatserver-tcp/Client.cpp:49-63, chatserver-tcp/Server.cpp:76-99).     *)
(***************************************************************************)
PlainGetsOn ==
    \A c \in Plain :
      peer = c /\ main[c] \in {"send", "recv"} /\ Unanswered(c) > 0
        ~> \/ main[c] \in {"input", "close"}
           \/ BothSend(c) /\ Unanswered(c) > UpLimit + DownLimit

=============================================================================
