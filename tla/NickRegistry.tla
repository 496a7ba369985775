---------------------------- MODULE NickRegistry ----------------------------
(***************************************************************************)
(* What LOGIN promises: a nickname, compared by its key, belongs to at     *)
(* most one client, from the moment it is granted until the client is      *)
(* gone; a client asks for one nickname in its life.                       *)
(***************************************************************************)
CONSTANTS Clients, Keys

VARIABLES
    owned,   \* the pairs <<client, key>> in force
    served   \* the clients that were granted a nickname, present or gone

vars == <<owned, served>>

Init == owned = {} /\ served = {}

Free(k) == \A c \in Clients : <<c, k>> \notin owned

Acquire(c, k) ==
    /\ c \notin served
    /\ Free(k)
    /\ owned' = owned \cup {<<c, k>>}
    /\ served' = served \cup {c}

Release(c, k) ==
    /\ <<c, k>> \in owned
    /\ owned' = owned \ {<<c, k>>}
    /\ UNCHANGED served

Next == \E c \in Clients, k \in Keys : Acquire(c, k) \/ Release(c, k)

Spec == Init /\ [][Next]_vars

=============================================================================
