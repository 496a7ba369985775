------------------------------ MODULE EchoClients ------------------------------
(***************************************************************************)
(* The two console clients of the echo servers.  The threaded one          *)
(* (nonblockselect-tcp/Client.cpp) reads lines and sends them in its main  *)
(* thread and receives in a second one, over a non-blocking socket; the    *)
(* threads share the atomic flag running.  The plain one                   *)
(* (chatserver-tcp/Client.cpp) sends a line, receives once and starts      *)
(* again, over a blocking socket.                                          *)
(***************************************************************************)
EXTENDS EchoSockets

CONSTANTS
    Threaded,    \* the clients of the first kind
    LineSizes,   \* bound: the lengths of the lines that a client's user types
    MaxSent      \* bound: bytes that a client sends

ASSUME ClientsAssumption ==
    /\ Threaded \subseteq Clients
    /\ LineSizes \in [Clients -> SUBSET Nat]
    /\ MaxSent \in [Clients -> Nat]

VARIABLES
    main,      \* where the (main) thread of a client is
    running,   \* the flag; of a plain client, that its loop goes on
    receiver,  \* where ReceiveLoop is
    rest       \* the bytes of the line that are still to be sent

Plain == Clients \ Threaded
clientVars == <<main, running, receiver, rest>>

ClientsInit ==
    /\ main = [c \in Clients |-> "start"]
    /\ running = [c \in Clients |-> FALSE]
    /\ receiver = [c \in Clients |-> "none"]
    /\ rest = [c \in Clients |-> << >>]

ClientsTypeOK ==
    /\ main \in [Clients -> {"start", "input", "sendall", "send", "recv", "close", "join", "ended"}]
    /\ running \in [Clients -> BOOLEAN]
    /\ receiver \in [Clients -> {"none", "loop", "ended"}]
    /\ rest \in [Clients -> Seq(Nat)]

-----------------------------------------------------------------------------
\* The handshake needs no accept: a listening server is enough.
Connected(c, listening) ==
    /\ main[c] = "start" /\ listening
    /\ main' = [main EXCEPT ![c] = "input"]
    /\ running' = [running EXCEPT ![c] = TRUE]
    /\ clientEnd' = [clientEnd EXCEPT ![c] = "open"]
    /\ serverEnd' = [serverEnd EXCEPT ![c] = "backlog"]
    /\ UNCHANGED <<broken, up, down, sent, got, rest>>

ConnectThreaded(c, listening) ==
    /\ c \in Threaded /\ Connected(c, listening)
    /\ receiver' = [receiver EXCEPT ![c] = "loop"]

ConnectPlain(c, listening) ==
    /\ c \in Plain /\ Connected(c, listening)
    /\ UNCHANGED receiver

\* Any call up to connect fails, or nothing is heard of the connection for 5 s.
ConnectFails(c) ==
    /\ main[c] = "start"
    /\ main' = [main EXCEPT ![c] = "ended"]
    /\ UNCHANGED <<socketVars, running, receiver, rest>>

Line(c, n) == [k \in 1..n |-> sent[c] + k]

-----------------------------------------------------------------------------
(***************************************************************************)
(* The main thread of a threaded client.                                   *)
(***************************************************************************)
\* getline returns a line of n bytes.  Only then is running looked at again.
GetLine(c, n) ==
    /\ c \in Threaded /\ main[c] = "input" /\ n \in LineSizes[c] \ {0}
    /\ IF running[c]
       THEN /\ sent[c] + n <= MaxSent[c]
            /\ rest' = [rest EXCEPT ![c] = Line(c, n)]
            /\ main' = [main EXCEPT ![c] = "sendall"]
       ELSE /\ main' = [main EXCEPT ![c] = "close"]
            /\ UNCHANGED rest
    /\ UNCHANGED <<socketVars, running, receiver>>

\* /quit.  An empty line changes nothing while the client runs.
Quit(c) ==
    /\ c \in Threaded /\ main[c] = "input"
    /\ running' = [running EXCEPT ![c] = FALSE]
    /\ main' = [main EXCEPT ![c] = "close"]
    /\ UNCHANGED <<socketVars, receiver, rest>>

\* One call of send takes what fits.  It would block when nothing does: the
\* loop sleeps and tries again.
SendALL(c) ==
    /\ main[c] = "sendall" /\ ~broken[c]
    /\ \E n \in 1..Len(rest[c]) :
         /\ Len(up[c]) + n <= UpLimit
         /\ WriteUp(c, First(rest[c], n))
         /\ sent' = [sent EXCEPT ![c] = @ + n]
         /\ rest' = [rest EXCEPT ![c] = Rest(@, n)]
         /\ main' = [main EXCEPT ![c] = IF n = Len(rest[c]) THEN "input" ELSE @]
    /\ UNCHANGED <<clientEnd, serverEnd, got, running, receiver>>

SendALLFails(c) ==
    /\ main[c] = "sendall" /\ broken[c]
    /\ running' = [running EXCEPT ![c] = FALSE]
    /\ main' = [main EXCEPT ![c] = "close"]
    /\ rest' = [rest EXCEPT ![c] = << >>]
    /\ UNCHANGED <<socketVars, receiver>>

\* shutdown and closesocket, with ReceiveLoop still running.
CloseThreaded(c) ==
    /\ c \in Threaded /\ main[c] = "close"
    /\ CloseClientEnd(c)
    /\ main' = [main EXCEPT ![c] = "join"]
    /\ UNCHANGED <<serverEnd, sent, got, running, receiver, rest>>

Join(c) ==
    /\ main[c] = "join" /\ receiver[c] = "ended"
    /\ main' = [main EXCEPT ![c] = "ended"]
    /\ UNCHANGED <<socketVars, running, receiver, rest>>

-----------------------------------------------------------------------------
(***************************************************************************)
(* ReceiveLoop.  The flag is read before the socket, so that a last recv   *)
(* may come after it was cleared.  When there is nothing to receive        *)
(* (WSAEWOULDBLOCK) the loop goes round.                                   *)
(***************************************************************************)
ReceiveStops(c) ==
    /\ receiver[c] = "loop" /\ ~running[c]
    /\ receiver' = [receiver EXCEPT ![c] = "ended"]
    /\ UNCHANGED <<socketVars, main, running, rest>>

ReceiveEcho(c) ==
    /\ receiver[c] = "loop" /\ clientEnd[c] = "open"
    /\ \E n \in 1..Len(down[c]) : ReadDown(c, n)
    /\ UNCHANGED <<clientEnd, serverEnd, broken, up, sent, clientVars>>

\* Mutant: the loop is left but the flag stays.
ReceiveEndsAlone(c) ==
    /\ receiver[c] = "loop" /\ down[c] = << >>
    /\ clientEnd[c] = "closed" \/ broken[c] \/ serverEnd[c] = "closed"
    /\ receiver' = [receiver EXCEPT ![c] = "ended"]
    /\ UNCHANGED <<socketVars, main, running, rest>>

\* The server closed the connection, or recv fails: also because the main
\* thread has closed the socket meanwhile.
ReceiveEnds(c) ==
    /\ receiver[c] = "loop" /\ down[c] = << >>
    /\ clientEnd[c] = "closed" \/ broken[c] \/ serverEnd[c] = "closed"
    /\ receiver' = [receiver EXCEPT ![c] = "ended"]
    /\ running' = [running EXCEPT ![c] = FALSE]
    /\ UNCHANGED <<socketVars, main, rest>>

-----------------------------------------------------------------------------
(***************************************************************************)
(* The plain client: a line, one send, one recv.                           *)
(***************************************************************************)
\* The empty line is sent too: as nothing.
GetPlainLine(c, n) ==
    /\ c \in Plain /\ main[c] = "input" /\ n \in LineSizes[c]
    /\ sent[c] + n <= MaxSent[c]
    /\ rest' = [rest EXCEPT ![c] = Line(c, n)]
    /\ main' = [main EXCEPT ![c] = IF n = 0 THEN "recv" ELSE "send"]
    /\ UNCHANGED <<socketVars, running, receiver>>

QuitPlain(c) ==
    /\ c \in Plain /\ main[c] = "input"
    /\ main' = [main EXCEPT ![c] = "close"]
    /\ UNCHANGED <<socketVars, running, receiver, rest>>

\* A blocking send returns when all of it is on its way.
PlainSend(c) ==
    /\ main[c] = "send" /\ ~broken[c]
    /\ \E n \in 1..Len(rest[c]) :
         /\ Len(up[c]) + n <= UpLimit
         /\ WriteUp(c, First(rest[c], n))
         /\ sent' = [sent EXCEPT ![c] = @ + n]
         /\ rest' = [rest EXCEPT ![c] = Rest(@, n)]
         /\ main' = [main EXCEPT ![c] = IF n = Len(rest[c]) THEN "recv" ELSE @]
    /\ UNCHANGED <<clientEnd, serverEnd, got, running, receiver>>

\* One recv, however much of the answer has arrived.
PlainReceive(c) ==
    /\ main[c] = "recv"
    /\ \E n \in 1..Len(down[c]) : ReadDown(c, n)
    /\ main' = [main EXCEPT ![c] = "input"]
    /\ UNCHANGED <<clientEnd, serverEnd, broken, up, sent, running, receiver, rest>>

PlainFails(c) ==
    /\ c \in Plain
    /\ \/ main[c] = "send" /\ broken[c]
       \/ main[c] = "recv" /\ down[c] = << >> /\ (broken[c] \/ serverEnd[c] = "closed")
    /\ main' = [main EXCEPT ![c] = "close"]
    /\ rest' = [rest EXCEPT ![c] = << >>]
    /\ UNCHANGED <<socketVars, running, receiver>>

ClosePlain(c) ==
    /\ c \in Plain /\ main[c] = "close"
    /\ CloseClientEnd(c)
    /\ main' = [main EXCEPT ![c] = "ended"]
    /\ UNCHANGED <<serverEnd, sent, got, running, receiver, rest>>

-----------------------------------------------------------------------------
\* What the user does, and what the threads do by themselves.
User(c) ==
    \/ \E n \in LineSizes[c] : GetLine(c, n) \/ GetPlainLine(c, n)
    \/ Quit(c) \/ QuitPlain(c)

MainThread(c) ==
    \/ SendALL(c) \/ SendALLFails(c) \/ CloseThreaded(c) \/ Join(c)
    \/ PlainSend(c) \/ PlainReceive(c) \/ PlainFails(c) \/ ClosePlain(c)

ReceiveLoop(c) == ReceiveStops(c) \/ ReceiveEcho(c) \/ ReceiveEnds(c)

=============================================================================
