------------------------------- MODULE MCExercises -------------------------------
(***************************************************************************)
(* The C++ exercises for TLC, each a program of its own: a behaviour runs  *)
(* one of them.                                                            *)
(*                                                                         *)
(* The bank has an account without interest, one of 15 percent, and two    *)
(* that are opened with a word, or the end of the input, for a number.     *)
(* Floats are coarse: a product is off by up to one part in 25.  Bound:    *)
(* new gives the first free addresses, one after the other (FirstFit).     *)
(***************************************************************************)
EXTENDS BankSystem, OwnedObjects, SortedStorage

VARIABLE program

\* 15 percent of 53 may come out above the exact 7.95, and of -20 at -3 or -2.
SomeAmounts == {-20, 53}

SomePlans ==
    {[kind |-> 1, rating |-> 0, rank |-> 0], [kind |-> 2, rating |-> 8, rank |-> 1],
     [kind |-> 2, rating |-> 5, rank |-> Word], [kind |-> 3, rating |-> End, rank |-> End]}

FirstFit ==
    LET given == {b \in Blocks : ~Live(b) /\ Live(b)'}
    IN  /\ \A b \in given, c \in Blocks : c < b => Live(c) \/ Live(c)'
        /\ \A k \in DOMAIN scope' :
             LET at == scope'[k].field
             IN  \A m, n \in DOMAIN at :
                   m < n /\ {at[m], at[n]} \subseteq given => at[m] < at[n]

Init ==
    /\ BankInit /\ ObjectsInit /\ StorageInit
    /\ program \in {"bank", "objects", "storage"}

Next ==
    \/ program = "bank" /\ BankNext /\ UNCHANGED <<vars, storage>>
    \/ program = "objects" /\ ObjectsNext /\ FirstFit /\ UNCHANGED <<bank, asked, storage>>
    \/ program = "storage" /\ StorageNext /\ UNCHANGED <<bank, asked, vars>>

\* The types of whatever program runs.
TypesOK == BankTypeOK /\ ObjectsTypeOK /\ StorageTypeOK

Spec == Init /\ [][Next /\ UNCHANGED program]_<<bank, asked, vars, storage, program>>

=============================================================================
