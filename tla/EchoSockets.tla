------------------------------ MODULE EchoSockets ------------------------------
(***************************************************************************)
(* The connections of the C++ echo programs (nonblockselect-tcp and        *)
(* chatserver-tcp): one TCP stream in each direction between a client and  *)
(* the server that has port 9000.  A byte is the number its client gave    *)
(* it, so an echo that is lost, repeated or out of order shows.            *)
(*                                                                         *)
(* This is Winsock as the programs use it.  Data that arrives at a closed  *)
(* end, or is unread when an end is closed, resets the connection; a reset *)
(* connection has nothing left to receive.                                 *)
(***************************************************************************)
EXTENDS Integers, Sequences

CONSTANTS
    Clients,
    UpLimit,     \* bytes that wait for the server without blocking the client
    DownLimit,   \* bytes that wait for a client without blocking the server
    BufferSize   \* bytes of a server's receive buffer (1024 in the code)

ASSUME SocketsAssumption ==
    UpLimit \in Nat /\ DownLimit \in Nat /\ BufferSize \in Nat \ {0}

VARIABLES
    clientEnd,   \* "none", "open" or "closed": the client's socket
    serverEnd,   \* "none", "backlog", "open" or "closed": the server's
    broken,      \* the connection was reset
    up, down,    \* bytes to the server, bytes to the client
    sent,        \* bytes the client has handed to its socket: numbers them
    got          \* the last byte the client has received

socketVars == <<clientEnd, serverEnd, broken, up, down, sent, got>>

SocketsInit ==
    /\ clientEnd = [c \in Clients |-> "none"]
    /\ serverEnd = [c \in Clients |-> "none"]
    /\ broken = [c \in Clients |-> FALSE]
    /\ up = [c \in Clients |-> << >>]
    /\ down = [c \in Clients |-> << >>]
    /\ sent = [c \in Clients |-> 0]
    /\ got = [c \in Clients |-> 0]

SocketsTypeOK ==
    /\ clientEnd \in [Clients -> {"none", "open", "closed"}]
    /\ serverEnd \in [Clients -> {"none", "backlog", "open", "closed"}]
    /\ broken \in [Clients -> BOOLEAN]
    /\ up \in [Clients -> Seq(Nat)] /\ down \in [Clients -> Seq(Nat)]
    /\ sent \in [Clients -> Nat] /\ got \in [Clients -> Nat]

-----------------------------------------------------------------------------
First(s, n) == SubSeq(s, 1, n)
Rest(s, n) == SubSeq(s, n + 1, Len(s))

Reset(c) ==
    /\ broken' = [broken EXCEPT ![c] = TRUE]
    /\ up' = [up EXCEPT ![c] = << >>]
    /\ down' = [down EXCEPT ![c] = << >>]

\* The server writes bytes: they wait for the client, or find its end closed.
WriteDown(c, bytes) ==
    \/ /\ clientEnd[c] = "open"
       /\ down' = [down EXCEPT ![c] = @ \o bytes]
       /\ UNCHANGED <<broken, up>>
    \/ clientEnd[c] = "closed" /\ Reset(c)

WriteUp(c, bytes) ==
    \/ /\ serverEnd[c] # "closed"
       /\ up' = [up EXCEPT ![c] = @ \o bytes]
       /\ UNCHANGED <<broken, down>>
    \/ serverEnd[c] = "closed" /\ Reset(c)

ReadDown(c, n) ==
    /\ n \in 1..Len(down[c])
    /\ got' = [got EXCEPT ![c] = down[c][n]]
    /\ down' = [down EXCEPT ![c] = Rest(@, n)]

CloseServerEnd(c) ==
    /\ serverEnd' = [serverEnd EXCEPT ![c] = "closed"]
    /\ IF up[c] # << >> THEN Reset(c) ELSE UNCHANGED <<broken, up, down>>

\* What the client has not received is gone.
CloseClientEnd(c) ==
    /\ clientEnd' = [clientEnd EXCEPT ![c] = "closed"]
    /\ IF down[c] # << >> THEN Reset(c) ELSE UNCHANGED <<broken, up, down>>

\* Connections that are established and not accepted.
Pending == {c \in Clients : serverEnd[c] = "backlog"}

\* The end of the process, or of main: lost are the connections it did not
\* accept, and those with something unread.  After a crash, all.
EndServer(crash) ==
    LET closing == {c \in Clients : serverEnd[c] \in {"backlog", "open"}}
        resets == {c \in closing : crash \/ serverEnd[c] = "backlog" \/ up[c] # << >>}
    IN  /\ serverEnd' = [c \in Clients |-> IF c \in closing THEN "closed" ELSE serverEnd[c]]
        /\ broken' = [c \in Clients |-> broken[c] \/ c \in resets]
        /\ up' = [c \in Clients |-> IF c \in closing THEN << >> ELSE up[c]]
        /\ down' = [c \in Clients |-> IF c \in resets THEN << >> ELSE down[c]]
        /\ UNCHANGED <<clientEnd, sent, got>>

\* What makes the server's socket readable: data, the end of it, or a reset.
Readable(c) == up[c] # << >> \/ broken[c] \/ clientEnd[c] = "closed"

\* A peer that is killed, or a network that fails.
ConnectionLost(c) ==
    /\ clientEnd[c] = "open" /\ serverEnd[c] \in {"backlog", "open"} /\ ~broken[c]
    /\ Reset(c)
    /\ UNCHANGED <<clientEnd, serverEnd, sent, got>>

=============================================================================
