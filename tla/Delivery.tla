------------------------------ MODULE Delivery ------------------------------
(***************************************************************************)
(* Who waits for whom: EnqueuePacketAsync awaits a write to the receiver's *)
(* connection, without a time-out, and a broadcast awaits one after the    *)
(* other.  A client that stops reading fills its connection; the tasks     *)
(* that write to it then wait, cleanups included.                          *)
(*                                                                         *)
(* Every step is a step of ChatServer; this module adds the writes between *)
(* two of them.  What a handler writes to its own client before it returns *)
(* is left out but at the end of a session: to wait there is, for everybody *)
(* else, not to send the next command.                                     *)
(***************************************************************************)
EXTENDS ChatServer, Sequences

CONSTANT Unreading  \* the clients that may stop reading

ASSUME DeliveryAssumption == Unreading \subseteq Clients

VARIABLES
    owed,  \* the rooms a task has yet to broadcast to, in order
    to     \* the receivers the task has yet to write to

deliveryVars == <<vars, owed, to>>

DeliveryInit ==
    /\ Init
    /\ owed = [t \in Tasks |-> << >>]
    /\ to = [t \in Tasks |-> {}]

Writing(t) == to[t] # {} \/ owed[t] # << >>

-----------------------------------------------------------------------------
(* What a step makes its task write before the next one.                    *)

Times(n, o) == [i \in 1..n |-> o]

\* RemoveClientAsync of a room that is not emptied: GAME_STOPPED, the new
\* host, and "Leave".
Farewells(r, c) ==
    LET stopped == IF r.State = "PLAYING" THEN 1 ELSE 0
        promoted == IF HostLeaves(r, c) THEN 1 ELSE 0
    IN  IF IsEmptied(r, c) \/ RemovalThrows(r, c) THEN 0 ELSE stopped + promoted + 1

\* The last member's cleanup says "Leave" to the room it has unlisted; a CHAT
\* that could not be saved is not sent.  A guest's READY is announced if it is
\* still the guest after the lock block, and a MOVE unless it is refused.
Broadcasts(t) ==
    CASE pc[t] \in {"moveLeave", "removeLeave"} ->
            {Times(Farewells(heap[oldRoom[t]], Subject(t)), oldRoom[t])}
      [] pc[t] = "removeUnlist" -> {<<oldRoom[t]>>}
      [] pc[t] = "moveEnter" -> {<<newRoom[t]>>}
      [] /\ pc[t] = "moveCheck" /\ pc'[t] = "idle"
         /\ heap[newRoom[t]].State = "PLAYING" -> {<<newRoom[t]>>}
      [] pc[t] = "startAnnounce" /\ pc'[t] = "idle" -> {<<oldRoom[t]>>}
      [] pc[t] = "chat" /\ pc'[t] = "idle" -> {<<CurrentRoom[t]>>}
      [] pc[t] = "playOpponent" /\ pc'[t] = "playSwitch" -> {<<CurrentRoom[t]>>}
      [] /\ pc[t] \in {"ready", "playOpponent"} /\ pc'[t] = "idle"
         /\ ~RoomIsGone(t) -> {<< >>, <<CurrentRoom[t]>>}
      [] OTHER -> {<< >>}

\* LOGIN_OK; "Current Room"; QUIT_OK, or the last answer before the connection
\* ended.
Answers(t) ==
    CASE pc[t] = "idle" /\ NickName' # NickName -> {{t}}
      [] pc[t] = "moveEnter" -> {{t}}
      [] pc[t] = "idle" /\ pc'[t] = "cleanup" -> {{}, {t}}
      [] OTHER -> {{}}

\* A room a broadcast has yet to read is not reclaimed.
OwedKept ==
    \A t \in Tasks, o \in Objects :
        o \in {owed[t][i] : i \in DOMAIN owed[t]} /\ Unreferenced(o)
            => heap'[o] = heap[o]

Tells(t) ==
    /\ ~Writing(t)
    /\ \E os \in Broadcasts(t) : owed' = [owed EXCEPT ![t] = os]
    /\ \E ds \in Answers(t) : to' = [to EXCEPT ![t] = ds]
    /\ OwedKept

ServerStep(t) == (t \in Clients /\ Handler(t)) \/ Removal(t)

-----------------------------------------------------------------------------
(* BroadcastAsync.                                                          *)

\* GetClientsSnapshot.
TakeReceivers(t) ==
    /\ to[t] = {} /\ owed[t] # << >>
    /\ to' = [to EXCEPT ![t] = heap[Head(owed[t])].clients]
    /\ owed' = [owed EXCEPT ![t] = Tail(@)]
    /\ UNCHANGED vars

\* The write is done, or fails: both are the same to the task.
WriteTo(t, c) ==
    /\ c \in to[t]
    /\ to' = [to EXCEPT ![t] = @ \ {c}]
    /\ UNCHANGED <<vars, owed>>

\* A write to a client that reads is done after a while, and one to a closed
\* session fails.
Prompt(c) == c \notin Unreading \/ pc[c] = "closed"

-----------------------------------------------------------------------------
DeliveryNext ==
    \/ \E c \in Clients : SessionStep(c) /\ Tells(c)
    \/ \E e \in Evictors : EvictorStep(e) /\ Tells(e)
    \/ \E t \in Tasks : TakeReceivers(t)
    \/ \E t \in Tasks, c \in Clients : WriteTo(t, c)
    \/ AllEnded /\ UNCHANGED <<owed, to>>

DeliverySpec == DeliveryInit /\ [][DeliveryNext]_deliveryVars

\* The thread pool runs every task that is ready.  A task whose receivers all
\* are prompt is not kept waiting; behind one that is not, anything may wait.
GoesOn(t) ==
    \/ ServerStep(t) /\ Tells(t)
    \/ TakeReceivers(t)
    \/ (\A c \in to[t] : Prompt(c)) /\ \E c \in Clients : WriteTo(t, c)

FairDelivery == DeliverySpec /\ \A t \in Tasks : WF_deliveryVars(GoesOn(t))

-----------------------------------------------------------------------------
\* The task waits for a client that may have stopped reading.
HeldUp(t) == \E c \in to[t] : ~Prompt(c)

\* ClientSession.cs:102-121: a session whose connection ends is out of its
\* room, out of the list and without nickname after a while, unless its
\* cleanup waits for ever for one client that does not read
\* (GameRoom.cs:160).
CleanUpCompletes ==
    \A c \in Clients : pc[c] = "cleanup" ~> (pc[c] = "closed" \/ []HeldUp(c))

=============================================================================
