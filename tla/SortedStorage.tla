----------------------------- MODULE SortedStorage -----------------------------
(***************************************************************************)
(* DataStorage of the functor exercise (11-operator2/SortFunctor.cpp): an  *)
(* array of fixed size, and a bubble sort by the rule it is given.  The    *)
(* sort compares one pair of neighbours in a step; elements are counted    *)
(* from 1.                                                                 *)
(***************************************************************************)
EXTENDS Integers, Sequences

CONSTANTS
    Numbers,
    MAX_LEN,
    NoRule

ASSUME StorageAssumption ==
    Numbers \subseteq Int /\ MAX_LEN \in Nat /\ NoRule \notin {"ascending", "descending"}

VARIABLES
    arr,      \* its first idx elements
    rule,     \* the functor of the sort that runs
    i, j,     \* the loop variables of the sort
    sorted    \* the rule of the last sort, while its result is there

storage == <<arr, rule, i, j, sorted>>

Rules == {"ascending", "descending"}
idx == Len(arr)

StorageInit == arr = << >> /\ rule = NoRule /\ i = 0 /\ j = 0 /\ sorted = NoRule

\* The functors: whether two neighbours change places.
AscendingSort(num1, num2) == num1 > num2
DescendingSort(num1, num2) == num1 < num2

functor(r, num1, num2) ==
    IF r = "ascending" THEN AscendingSort(num1, num2) ELSE DescendingSort(num1, num2)

\* A full storage refuses the number.
AddData(num) ==
    /\ rule = NoRule
    /\ IF MAX_LEN <= idx THEN UNCHANGED storage
       ELSE /\ arr' = Append(arr, num)
            /\ sorted' = NoRule
            /\ UNCHANGED <<rule, i, j>>

\* Mutant: a later pass leaves the first pair out.
SortDataFromOne(r) ==
    /\ rule = NoRule
    /\ rule' = r /\ i' = 0 /\ j' = 1 /\ sorted' = NoRule
    /\ UNCHANGED arr

SortData(r) ==
    /\ rule = NoRule
    /\ rule' = r /\ i' = 0 /\ j' = 0 /\ sorted' = NoRule
    /\ UNCHANGED arr

\* Mutant: the second assignment of the exchange without the copy in temp.
CompareAndLose ==
    /\ rule # NoRule /\ i < idx - 1 /\ j < idx - 1
    /\ arr' = IF functor(rule, arr[j + 1], arr[j + 2])
              THEN [arr EXCEPT ![j + 1] = arr[j + 2]] ELSE arr
    /\ j' = j + 1
    /\ UNCHANGED <<rule, i, sorted>>

Compare ==
    /\ rule # NoRule /\ i < idx - 1 /\ j < idx - 1
    /\ arr' = IF functor(rule, arr[j + 1], arr[j + 2])
              THEN [arr EXCEPT ![j + 1] = arr[j + 2], ![j + 2] = arr[j + 1]] ELSE arr
    /\ j' = j + 1
    /\ UNCHANGED <<rule, i, sorted>>

NextPass ==
    /\ rule # NoRule /\ i < idx - 1 /\ j >= idx - 1
    /\ i' = i + 1 /\ j' = 0
    /\ UNCHANGED <<arr, rule, sorted>>

\* SortData returns.
EndSort ==
    /\ rule # NoRule /\ i >= idx - 1
    /\ sorted' = rule /\ rule' = NoRule
    /\ UNCHANGED <<arr, i, j>>

StorageNext ==
    \/ \E num \in Numbers : AddData(num)
    \/ \E r \in Rules : SortData(r)
    \/ Compare \/ NextPass \/ EndSort

StorageSpec == StorageInit /\ [][StorageNext]_storage

-----------------------------------------------------------------------------
(***************************************************************************)
(* Types; the storage is never longer than its array.                      *)
(***************************************************************************)
StorageTypeOK ==
    /\ arr \in Seq(Numbers) /\ idx <= MAX_LEN
    /\ rule \in Rules \cup {NoRule} /\ sorted \in Rules \cup {NoRule}
    /\ i \in 0..MAX_LEN /\ j \in 0..MAX_LEN

(***************************************************************************)
(* After SortData(functor) no element may come before a later one that the *)
(* functor would exchange it with, whatever the storage was filled with    *)
(* and however often it was sorted before.                                 *)
(***************************************************************************)
SortedByRule ==
    sorted # NoRule =>
      \A m, n \in 1..idx : m < n => ~functor(sorted, arr[m], arr[n])

Rearranged ==
    \E p \in [1..idx -> 1..idx] :
      {p[k] : k \in 1..idx} = 1..idx /\ arr' = [k \in 1..idx |-> arr[p[k]]]

(***************************************************************************)
(* Sorting loses and invents no number (the exchange in three assignments).*)
(***************************************************************************)
SortKeepsNumbers == [][rule # NoRule => Rearranged]_storage

=============================================================================
