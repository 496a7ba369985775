------------------------------ MODULE SelectServer ------------------------------
(***************************************************************************)
(* The echo server for many clients (nonblockselect-tcp/Server.cpp).  One  *)
(* thread: select, then accept, then one receive and its echo for every    *)
(* client that select found readable.  Its sockets block: an echo that     *)
(* does not fit makes the server wait for that client.                     *)
(***************************************************************************)
EXTENDS EchoSockets

CONSTANTS
    Listener,
    SetSize       \* sockets in an fd_set (FD_SETSIZE, 64): the rest is ignored

ASSUME SelectAssumption ==
    /\ Listener \notin Clients
    /\ SetSize \in Nat \ {0}

VARIABLES
    pc,        \* "off", "select", "accept", "scan", "send", "ended", "crashed"
    sockets,   \* clientSockets
    ready,     \* readSet after select
    i,         \* the index of the for loop, from 1
    data       \* what SendAll has still to send to sockets[i]

selectVars == <<pc, sockets, ready, i, data>>

SelectInit == pc = "off" /\ sockets = << >> /\ ready = {} /\ i = 1 /\ data = << >>

SelectTypeOK ==
    /\ pc \in {"off", "select", "accept", "scan", "send", "ended", "crashed"}
    /\ sockets \in Seq(Clients)
    /\ ready \subseteq Clients \cup {Listener}
    /\ i \in Nat \ {0}
    /\ data \in Seq(Nat)
    /\ pc = "send" => i <= Len(sockets)

SelectListens == pc \in {"select", "accept", "scan", "send"}

-----------------------------------------------------------------------------
StartSelect ==
    /\ pc = "off" /\ pc' = "select"
    /\ UNCHANGED <<socketVars, sockets, ready, i, data>>

\* WSAStartup, socket, bind or listen fails.
StartSelectFails ==
    /\ pc = "off" /\ pc' = "ended"
    /\ UNCHANGED <<socketVars, sockets, ready, i, data>>

\* FD_SET puts the listener and the first SetSize - 1 clients into the set.
Watched == {sockets[k] : k \in {j \in DOMAIN sockets : j < SetSize}}

\* Mutant: the loop does not look at readSet.
SelectAll ==
    /\ pc = "select"
    /\ \/ \E c \in Watched : Readable(c)
       \/ Pending # {}
    /\ ready' = Watched \cup (IF Pending # {} THEN {Listener} ELSE {})
    /\ pc' = "accept"
    /\ UNCHANGED <<socketVars, sockets, i, data>>

\* It blocks until something is ready.
Select ==
    /\ pc = "select"
    /\ ready' = {c \in Watched : Readable(c)}
                  \cup (IF Pending # {} THEN {Listener} ELSE {})
    /\ ready' # {}
    /\ pc' = "accept"
    /\ UNCHANGED <<socketVars, sockets, i, data>>

\* The loop is left; the process closes its sockets and ends.
SelectFails ==
    /\ pc = "select" /\ pc' = "ended"
    /\ EndServer(FALSE)
    /\ sockets' = << >>
    /\ UNCHANGED <<ready, i, data>>

Accept(c) ==
    /\ pc = "accept" /\ Listener \in ready /\ c \in Pending
    /\ serverEnd' = [serverEnd EXCEPT ![c] = "open"]
    /\ sockets' = Append(sockets, c)
    /\ pc' = "scan" /\ i' = 1
    /\ UNCHANGED <<clientEnd, broken, up, down, sent, got, ready, data>>

\* A connection that was reset before it is accepted may make accept fail.
AcceptFails(c) ==
    /\ pc = "accept" /\ Listener \in ready /\ c \in Pending /\ broken[c]
    /\ serverEnd' = [serverEnd EXCEPT ![c] = "closed"]
    /\ pc' = "scan" /\ i' = 1
    /\ UNCHANGED <<clientEnd, broken, up, down, sent, got, sockets, ready, data>>

NoAccept ==
    /\ pc = "accept" /\ Listener \notin ready
    /\ pc' = "scan" /\ i' = 1
    /\ UNCHANGED <<socketVars, sockets, ready, data>>

-----------------------------------------------------------------------------
(***************************************************************************)
(* The for loop over clientSockets.                                        *)
(***************************************************************************)
Erased(k) == SubSeq(sockets, 1, k - 1) \o SubSeq(sockets, k + 1, Len(sockets))

\* Mutant: the socket is closed and stays in the vector.
CloseOnly(c) == CloseServerEnd(c) /\ UNCHANGED sockets

\* closesocket and erase.
CloseAndErase(c) == CloseServerEnd(c) /\ sockets' = Erased(i)

Skip ==
    /\ pc = "scan" /\ i \in DOMAIN sockets /\ sockets[i] \notin ready
    /\ i' = i + 1
    /\ UNCHANGED <<socketVars, pc, sockets, ready, data>>

\* recv returns part of what is there.  When the buffer is full, the
\* terminating zero goes behind it, with any outcome.
Receive ==
    /\ pc = "scan" /\ i \in DOMAIN sockets /\ sockets[i] \in ready
    /\ LET c == sockets[i]
       IN  \E n \in 1..Len(up[c]) :
             /\ n <= BufferSize
             /\ data' = First(up[c], n)
             /\ up' = [up EXCEPT ![c] = Rest(@, n)]
             /\ pc' = "send"
    /\ UNCHANGED <<clientEnd, serverEnd, broken, down, sent, got, sockets, ready, i>>

\* Mutant: the end of the stream is taken for no data.
ReceiveEndSkips ==
    /\ pc = "scan" /\ i \in DOMAIN sockets /\ sockets[i] \in ready
    /\ LET c == sockets[i]
       IN  up[c] = << >> /\ ~broken[c] /\ clientEnd[c] = "closed"
    /\ i' = i + 1
    /\ UNCHANGED <<socketVars, pc, sockets, ready, data>>

\* recv returns 0: everything was received and the client has closed its end.
ReceiveEnd ==
    /\ pc = "scan" /\ i \in DOMAIN sockets /\ sockets[i] \in ready
    /\ LET c == sockets[i]
       IN  up[c] = << >> /\ ~broken[c] /\ clientEnd[c] = "closed" /\ CloseAndErase(c)
    /\ UNCHANGED <<clientEnd, sent, got, pc, ready, i, data>>

\* recv fails: it returns -1, a zero goes in front of the buffer, and SendAll
\* has nothing to do.  The socket stays.
ReceiveError ==
    /\ pc = "scan" /\ i \in DOMAIN sockets /\ sockets[i] \in ready
    /\ broken[sockets[i]]
    /\ i' = i + 1
    /\ UNCHANGED <<socketVars, pc, sockets, ready, data>>

\* The zero outside the buffer overwrites something that matters.
WriteOutside ==
    /\ pc = "scan" /\ i \in DOMAIN sockets /\ sockets[i] \in ready
    /\ broken[sockets[i]] \/ Len(up[sockets[i]]) >= BufferSize
    /\ pc' = "crashed"
    /\ EndServer(TRUE)
    /\ sockets' = << >> /\ ready' = {} /\ i' = 1
    /\ UNCHANGED data

\* readSet and i are local to the round.
EndScan ==
    /\ pc = "scan" /\ i \notin DOMAIN sockets
    /\ pc' = "select" /\ ready' = {} /\ i' = 1
    /\ UNCHANGED <<socketVars, sockets, data>>

-----------------------------------------------------------------------------
(***************************************************************************)
(* SendAll.                                                                *)
(***************************************************************************)
\* Mutant: the next call starts at data again instead of data + totalSent.
SendAllFromStart ==
    /\ pc = "send" /\ ~broken[sockets[i]]
    /\ LET c == sockets[i]
       IN  \E n \in 1..Len(data) :
             /\ Len(down[c]) + n <= DownLimit
             /\ WriteDown(c, First(data, n))
             /\ data' = First(data, Len(data) - n)
             /\ IF n = Len(data) THEN pc' = "scan" /\ i' = i + 1 ELSE UNCHANGED <<pc, i>>
    /\ UNCHANGED <<clientEnd, serverEnd, sent, got, sockets, ready>>

\* Mutant: after an echo the same socket is received from again.
SendAllStays ==
    /\ pc = "send" /\ ~broken[sockets[i]]
    /\ LET c == sockets[i]
       IN  \E n \in 1..Len(data) :
             /\ Len(down[c]) + n <= DownLimit
             /\ WriteDown(c, First(data, n))
             /\ data' = Rest(data, n)
             /\ pc' = IF n = Len(data) THEN "scan" ELSE pc
    /\ UNCHANGED <<clientEnd, serverEnd, sent, got, sockets, ready, i>>

\* Mutant: the echo goes to the socket that is first in the vector.
SendAllToFirst ==
    /\ pc = "send" /\ ~broken[sockets[i]]
    /\ LET c == sockets[1]
       IN  \E n \in 1..Len(data) :
             /\ Len(down[c]) + n <= DownLimit
             /\ WriteDown(c, First(data, n))
             /\ data' = Rest(data, n)
             /\ IF n = Len(data) THEN pc' = "scan" /\ i' = i + 1 ELSE UNCHANGED <<pc, i>>
    /\ UNCHANGED <<clientEnd, serverEnd, sent, got, sockets, ready>>

\* One call of send: as much as fits, blocking while nothing does.
SendAll ==
    /\ pc = "send" /\ ~broken[sockets[i]]
    /\ LET c == sockets[i]
       IN  \E n \in 1..Len(data) :
             /\ Len(down[c]) + n <= DownLimit
             /\ WriteDown(c, First(data, n))
             /\ data' = Rest(data, n)
             /\ IF n = Len(data) THEN pc' = "scan" /\ i' = i + 1 ELSE UNCHANGED <<pc, i>>
    /\ UNCHANGED <<clientEnd, serverEnd, sent, got, sockets, ready>>

\* Mutant: the error does not end SendAll.
SendAllFailsOn ==
    /\ pc = "send" /\ broken[sockets[i]]
    /\ CloseAndErase(sockets[i])
    /\ i' = i + 1
    /\ UNCHANGED <<clientEnd, sent, got, ready, pc, data>>

\* The loop steps over the client that moves into the erased place.
SendAllFails ==
    /\ pc = "send" /\ broken[sockets[i]]
    /\ CloseAndErase(sockets[i])
    /\ data' = << >> /\ pc' = "scan" /\ i' = i + 1
    /\ UNCHANGED <<clientEnd, sent, got, ready>>

SelectStep ==
    \/ Select \/ NoAccept \/ Skip \/ Receive \/ ReceiveEnd \/ ReceiveError
    \/ EndScan \/ SendAll \/ SendAllFails
    \/ \E c \in Clients : Accept(c) \/ AcceptFails(c)

=============================================================================
