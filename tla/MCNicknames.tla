----------------------------- MODULE MCNicknames -----------------------------
(***************************************************************************)
(* An instance of the chat server, with the writes its tasks wait for, in  *)
(* which clients compete for nicknames.  Upper and Lower differ only in    *)
(* case; a client that reads asks for Upper, the others for any.           *)
(***************************************************************************)
EXTENDS ChatProperties, Delivery

CONSTANTS Upper, Lower

Asked == [c \in Clients |-> IF c \in Unreading THEN Nicks ELSE {Upper}]
FoldCase == [n \in Nicks |-> IF n = Upper THEN Lower ELSE n]

=============================================================================
