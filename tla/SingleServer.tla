------------------------------ MODULE SingleServer ------------------------------
(***************************************************************************)
(* The echo server for one client (chatserver-tcp/Server.cpp): it accepts  *)
(* one connection, echoes what it receives until that connection ends, and *)
(* ends too.                                                               *)
(***************************************************************************)
EXTENDS EchoSockets

CONSTANT Nobody

ASSUME SingleAssumption == Nobody \notin Clients

VARIABLES
    single,   \* "off", "accept", "recv", "send" or "ended"
    peer,     \* the client it has accepted
    echo      \* what it has still to send back

singleVars == <<single, peer, echo>>

SingleInit == single = "off" /\ peer = Nobody /\ echo = << >>

SingleTypeOK ==
    /\ single \in {"off", "accept", "recv", "send", "ended"}
    /\ peer \in Clients \cup {Nobody}
    /\ single \in {"recv", "send"} => peer # Nobody
    /\ echo \in Seq(Nat)

SingleListens == single \in {"accept", "recv", "send"}

StartSingle ==
    /\ single = "off" /\ single' = "accept"
    /\ UNCHANGED <<socketVars, peer, echo>>

StartSingleFails ==
    /\ single = "off" /\ single' = "ended"
    /\ UNCHANGED <<socketVars, peer, echo>>

AcceptOne(c) ==
    /\ single = "accept" /\ c \in Pending
    /\ serverEnd' = [serverEnd EXCEPT ![c] = "open"]
    /\ peer' = c /\ single' = "recv"
    /\ UNCHANGED <<clientEnd, broken, up, down, sent, got, echo>>

AcceptOneFails ==
    /\ single = "accept" /\ \E c \in Pending : broken[c]
    /\ single' = "ended"
    /\ EndServer(FALSE)
    /\ UNCHANGED <<peer, echo>>

\* Mutant: what was received is shown and not sent back.
SingleReceiveOnly ==
    /\ single = "recv"
    /\ \E n \in 1..Len(up[peer]) : up' = [up EXCEPT ![peer] = Rest(@, n)]
    /\ UNCHANGED <<clientEnd, serverEnd, broken, down, sent, got, singleVars>>

\* recv leaves room for the terminating zero.
SingleReceive ==
    /\ single = "recv"
    /\ \E n \in 1..Len(up[peer]) :
         /\ n <= BufferSize - 1
         /\ echo' = First(up[peer], n)
         /\ up' = [up EXCEPT ![peer] = Rest(@, n)]
    /\ single' = "send"
    /\ UNCHANGED <<clientEnd, serverEnd, broken, down, sent, got, peer>>

\* The client has closed its end, or recv or send fails: the loop is left, and
\* both sockets are closed.
SingleEnds ==
    /\ \/ single \in {"recv", "send"} /\ broken[peer]
       \/ single = "recv" /\ up[peer] = << >> /\ clientEnd[peer] = "closed"
    /\ single' = "ended"
    /\ EndServer(FALSE)
    /\ echo' = << >>
    /\ UNCHANGED peer

\* A blocking send of everything, as far as it fits at a time.
SingleSend ==
    /\ single = "send" /\ ~broken[peer]
    /\ \E n \in 1..Len(echo) :
         /\ Len(down[peer]) + n <= DownLimit
         /\ WriteDown(peer, First(echo, n))
         /\ echo' = Rest(echo, n)
         /\ single' = IF n = Len(echo) THEN "recv" ELSE "send"
    /\ UNCHANGED <<clientEnd, serverEnd, sent, got, peer>>

SingleStep ==
    \/ \E c \in Clients : AcceptOne(c)
    \/ AcceptOneFails \/ SingleReceive \/ SingleSend \/ SingleEnds

=============================================================================
