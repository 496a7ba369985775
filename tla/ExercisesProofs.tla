---------------------------- MODULE ExercisesProofs ----------------------------
(***************************************************************************)
(* The bubble sort of DataStorage sorts, for any numbers and any size; and *)
(* whichever exercise runs, types are kept.                                *)
(***************************************************************************)
EXTENDS MCExercises, BankProofs, OwnedObjectsProofs

\* The last i elements have nothing before them that belongs behind them.
TailInPlace ==
    \A m, n \in 1..idx : m < n /\ n > idx - i => ~functor(rule, arr[m], arr[n])

\* What the pass carries along, arr[j + 1], belongs behind all it has passed.
CarriesLast ==
    \A m \in 1..j : j + 1 <= idx => ~functor(rule, arr[m], arr[j + 1])

\* The pass has left the element for the next place of the tail there.
PassHasPlaced ==
    i < idx /\ j + 1 >= idx - i =>
      \A m \in 1..(idx - i - 1) : ~functor(rule, arr[m], arr[idx - i])

Sorting ==
    rule # NoRule =>
      /\ sorted = NoRule /\ i <= idx /\ j <= idx
      /\ TailInPlace /\ CarriesLast /\ PassHasPlaced

StorageInv == StorageTypeOK /\ Sorting /\ SortedByRule

-----------------------------------------------------------------------------
\* The functors are the strict orders of the integers.
LEMMA FunctorOrders ==
    ASSUME NEW r \in Rules, NEW a \in Int, NEW b \in Int, NEW c \in Int
    PROVE  /\ functor(r, a, b) => ~functor(r, b, a)
           /\ ~functor(r, a, b) /\ ~functor(r, b, c) => ~functor(r, a, c)
BY DEF Rules, functor, AscendingSort, DescendingSort

\* A comparison exchanges two neighbours, or nothing.
LEMMA CompareChanges ==
    ASSUME StorageTypeOK, Sorting, Compare
    PROVE  /\ rule \in Rules /\ j + 1 \in 1..idx /\ j + 2 \in 1..idx
           /\ arr' \in Seq(Numbers) /\ Len(arr') = idx
           /\ \/ /\ functor(rule, arr[j + 1], arr[j + 2])
                 /\ arr'[j + 1] = arr[j + 2] /\ arr'[j + 2] = arr[j + 1]
              \/ ~functor(rule, arr[j + 1], arr[j + 2]) /\ arr' = arr
           /\ \A k \in 1..idx : k # j + 1 /\ k # j + 2 => arr'[k] = arr[k]
<1>1. rule \in Rules /\ j + 1 \in 1..idx /\ j + 2 \in 1..idx
  <2>1. rule \in Rules
    BY DEF StorageTypeOK, Compare
  <2>2. j \in Nat /\ j < idx - 1
    BY StorageAssumption DEF StorageAssumption, StorageTypeOK, Compare
  <2>3. idx \in Nat
    BY DEF StorageTypeOK, idx
  <2> QED
    BY <2>1, <2>2, <2>3
<1>2. CASE functor(rule, arr[j + 1], arr[j + 2])
  <2>1. arr' = [arr EXCEPT ![j + 1] = arr[j + 2], ![j + 2] = arr[j + 1]]
    BY <1>2 DEF Compare
  <2>2. arr \in [1..idx -> Numbers]
    BY DEF StorageTypeOK, idx
  <2>3. arr' \in [1..idx -> Numbers]
    BY <1>1, <2>1, <2>2
  <2>4. arr' \in Seq(Numbers) /\ Len(arr') = idx
    BY <2>3 DEF StorageTypeOK, idx
  <2> QED
    BY <1>1, <1>2, <2>1, <2>2, <2>4 DEF StorageTypeOK
<1>3. CASE ~functor(rule, arr[j + 1], arr[j + 2])
  BY <1>1, <1>3 DEF Compare, StorageTypeOK, idx
<1> QED
  BY <1>2, <1>3

\* A comparison takes the sort one pair further.
LEMMA CompareStep ==
    ASSUME StorageInv, Compare
    PROVE  StorageInv'
<1> USE StorageAssumption
<1> DEFINE F(a, b) == functor(rule, a, b)
<1>1. /\ rule \in Rules /\ rule' = rule /\ i' = i /\ j' = j + 1 /\ sorted' = sorted
      /\ idx' = idx /\ idx \in Nat /\ i \in Nat /\ j \in Nat /\ i < idx - 1 /\ j < idx - 1
  BY CompareChanges DEF StorageInv, StorageTypeOK, Compare, idx
<1>2. /\ arr \in Seq(Numbers) /\ arr' \in Seq(Numbers)
      /\ \A k \in 1..idx : arr[k] \in Int /\ arr'[k] \in Int
  <2>1. arr' \in Seq(Numbers) /\ Len(arr') = idx /\ arr \in Seq(Numbers)
    BY CompareChanges DEF StorageInv, StorageTypeOK
  <2>2. Numbers \subseteq Int
    BY DEF StorageAssumption
  <2>3. \A k \in 1..idx : arr[k] \in Numbers
    BY <2>1 DEF idx
  <2>4. \A k \in 1..idx : arr'[k] \in Numbers
    BY <2>1
  <2> QED
    BY <2>1, <2>2, <2>3, <2>4
<1>3. \A a, b, c \in Int : (F(a, b) => ~F(b, a)) /\ (~F(a, b) /\ ~F(b, c) => ~F(a, c))
  BY <1>1, FunctorOrders
<1>4. /\ \/ /\ F(arr[j + 1], arr[j + 2])
            /\ arr'[j + 1] = arr[j + 2] /\ arr'[j + 2] = arr[j + 1]
         \/ ~F(arr[j + 1], arr[j + 2]) /\ arr' = arr
      /\ \A k \in 1..idx : k # j + 1 /\ k # j + 2 => arr'[k] = arr[k]
  BY CompareChanges DEF StorageInv
<1>5. /\ \A m, n \in 1..idx : m < n /\ n > idx - i => ~F(arr[m], arr[n])
      /\ \A m \in 1..j : ~F(arr[m], arr[j + 1])
      /\ j + 1 >= idx - i => \A m \in 1..(idx - i - 1) : ~F(arr[m], arr[idx - i])
  BY <1>1 DEF StorageInv, Sorting, TailInPlace, CarriesLast, PassHasPlaced, Compare
\* In the tail nothing is exchanged.
<1>6. j + 2 > idx - i => arr' = arr
  BY <1>1, <1>4, <1>5
<1> HIDE DEF F
<1>7. \A m, n \in 1..idx : m < n /\ n > idx - i => ~F(arr'[m], arr'[n])
  <2>1. CASE j + 2 > idx - i
    BY <2>1, <1>5, <1>6
  <2>2. CASE j + 2 <= idx - i
    <3> SUFFICES ASSUME NEW m \in 1..idx, NEW n \in 1..idx, m < n, n > idx - i
                 PROVE  ~F(arr'[m], arr'[n])
      OBVIOUS
    <3>1. arr'[n] = arr[n]
      BY <1>1, <1>4, <2>2
    <3>2. arr'[m] = arr[m] \/ arr'[m] = arr[j + 1] \/ arr'[m] = arr[j + 2]
      BY <1>4
    <3>3. ~F(arr[m], arr[n]) /\ ~F(arr[j + 1], arr[n]) /\ ~F(arr[j + 2], arr[n])
      BY <1>1, <1>5, <2>2
    <3> QED
      BY <3>1, <3>2, <3>3
  <2> QED
    BY <2>1, <2>2, <1>1
<1>8. \A m \in 1..(j + 1) : ~F(arr'[m], arr'[j + 2])
  <2> SUFFICES ASSUME NEW m \in 1..(j + 1)
               PROVE  ~F(arr'[m], arr'[j + 2])
    OBVIOUS
  <2>1. m \in 1..idx /\ j + 1 \in 1..idx /\ j + 2 \in 1..idx /\ (m = j + 1 \/ m \in 1..j)
    BY <1>1
  <2>2. CASE F(arr[j + 1], arr[j + 2]) /\ arr'[j + 1] = arr[j + 2] /\ arr'[j + 2] = arr[j + 1]
    <3>1. CASE m = j + 1
      BY <3>1, <2>1, <2>2, <1>2, <1>3
    <3>2. CASE m \in 1..j
      <4>1. arr'[m] = arr[m]
        BY <3>2, <2>1, <1>1, <1>4
      <4> QED
        BY <4>1, <3>2, <2>2, <1>5
    <3> QED
      BY <3>1, <3>2, <2>1
  <2>3. CASE ~F(arr[j + 1], arr[j + 2]) /\ arr' = arr
    BY <2>1, <2>3, <1>2, <1>3, <1>5
  <2> QED
    BY <2>2, <2>3, <1>4
<1>9. j + 2 >= idx - i => \A m \in 1..(idx - i - 1) : ~F(arr'[m], arr'[idx - i])
  <2>1. CASE j + 2 > idx - i
    BY <2>1, <1>1, <1>5, <1>6
  <2>2. CASE j + 2 = idx - i
    BY <2>2, <1>1, <1>8
  <2> QED
    BY <2>1, <2>2, <1>1
<1>0. sorted = NoRule
  BY DEF StorageInv, Sorting, Compare
<1>10. Sorting'
  BY <1>1, <1>7, <1>8, <1>9, <1>0 DEF Sorting, TailInPlace, CarriesLast, PassHasPlaced, F
<1>11. StorageTypeOK'
  BY <1>1, <1>2 DEF StorageInv, StorageTypeOK
<1> QED
  BY <1>1, <1>10, <1>11, <1>0 DEF StorageInv, SortedByRule

\* SortData starts with nothing in place and nothing carried.
LEMMA SortDataStep ==
    ASSUME StorageInv, NEW r \in Rules, SortData(r)
    PROVE  StorageInv'
<1> USE StorageAssumption
<1>1. /\ rule' = r /\ i' = 0 /\ j' = 0 /\ sorted' = NoRule /\ arr' = arr /\ idx' = idx
      /\ idx \in Nat /\ r # NoRule
  BY DEF StorageInv, StorageTypeOK, SortData, Rules, idx
<1>2. TailInPlace'
  BY <1>1 DEF TailInPlace
<1>3. CarriesLast'
  BY <1>1 DEF CarriesLast
<1>4. PassHasPlaced'
  BY <1>1 DEF PassHasPlaced
<1>5. StorageTypeOK'
  BY <1>1 DEF StorageInv, StorageTypeOK
<1> QED
  BY <1>1, <1>2, <1>3, <1>4, <1>5 DEF StorageInv, Sorting, SortedByRule

\* The pass has put one element more in its place at the end.
LEMMA NextPassStep ==
    ASSUME StorageInv, NextPass
    PROVE  StorageInv'
<1> USE StorageAssumption
<1>1. /\ rule' = rule /\ rule # NoRule /\ sorted' = sorted /\ arr' = arr /\ idx' = idx
      /\ i' = i + 1 /\ j' = 0 /\ i < idx - 1 /\ j >= idx - 1
      /\ idx \in Nat /\ i \in Nat /\ j \in Nat /\ idx <= MAX_LEN
  BY DEF StorageInv, StorageTypeOK, NextPass, idx
<1>2. sorted = NoRule /\ TailInPlace /\ PassHasPlaced
  BY <1>1 DEF StorageInv, Sorting
<1>3. TailInPlace'
  <2> SUFFICES ASSUME NEW m \in 1..idx, NEW n \in 1..idx, m < n, n > idx - (i + 1)
               PROVE  ~functor(rule, arr[m], arr[n])
    BY <1>1 DEF TailInPlace
  <2>1. CASE n > idx - i
    BY <2>1, <1>2 DEF TailInPlace
  <2>2. CASE n = idx - i
    BY <2>2, <1>1, <1>2 DEF PassHasPlaced
  <2> QED
    BY <2>1, <2>2, <1>1
<1>4. CarriesLast'
  BY <1>1 DEF CarriesLast
<1>5. PassHasPlaced'
  BY <1>1 DEF PassHasPlaced
<1>6. StorageTypeOK'
  BY <1>1 DEF StorageInv, StorageTypeOK
<1> QED
  BY <1>1, <1>2, <1>3, <1>4, <1>5, <1>6 DEF StorageInv, Sorting, SortedByRule

\* When the passes end, everything but the first element is in its place,
\* and so is the first.
LEMMA EndSortStep ==
    ASSUME StorageInv, EndSort
    PROVE  StorageInv'
<1> USE StorageAssumption
<1>1. /\ rule' = NoRule /\ rule \in Rules /\ sorted' = rule /\ arr' = arr /\ idx' = idx
      /\ i' = i /\ j' = j /\ i >= idx - 1 /\ idx \in Nat /\ i \in Nat
  BY DEF StorageInv, StorageTypeOK, EndSort, idx
<1>2. TailInPlace
  BY DEF StorageInv, Sorting, EndSort
<1>3. \A m, n \in 1..idx : m < n => ~functor(rule, arr[m], arr[n])
  BY <1>1, <1>2 DEF TailInPlace
<1>4. StorageTypeOK'
  BY <1>1 DEF StorageInv, StorageTypeOK
<1> QED
  BY <1>1, <1>3, <1>4 DEF StorageInv, Sorting, SortedByRule

\* A number may be added only while no sort runs; it ends what sorted says.
LEMMA AddDataStep ==
    ASSUME StorageInv, NEW num \in Numbers, AddData(num)
    PROVE  StorageInv'
<1> USE StorageAssumption
<1>1. CASE UNCHANGED storage
  BY <1>1 DEF StorageInv, StorageTypeOK, Sorting, TailInPlace, CarriesLast, PassHasPlaced,
              SortedByRule, storage, idx
<1>2. CASE ~UNCHANGED storage
  <2>1. /\ rule' = NoRule /\ sorted' = NoRule /\ arr' = Append(arr, num)
        /\ i' = i /\ j' = j /\ ~(MAX_LEN <= idx)
    BY <1>2 DEF AddData
  <2>2. arr' \in Seq(Numbers) /\ idx' = idx + 1 /\ idx \in Nat
    BY <2>1 DEF StorageInv, StorageTypeOK, idx
  <2>3. StorageTypeOK'
    BY <2>1, <2>2 DEF StorageInv, StorageTypeOK
  <2> QED
    BY <2>1, <2>3 DEF StorageInv, Sorting, SortedByRule
<1> QED
  BY <1>1, <1>2

-----------------------------------------------------------------------------
(***************************************************************************)
(* Whatever is added and however often DataStorage::SortData runs, its two *)
(* loops leave the array in the order of the functor, and the array is     *)
(* never longer than MAX_LEN (SortFunctor.cpp).                            *)
(***************************************************************************)
THEOREM SortDataSorts == StorageSpec => [](StorageTypeOK /\ SortedByRule)
<1>1. StorageInit => StorageInv
  BY StorageAssumption DEF StorageInit, StorageInv, StorageTypeOK, Sorting, SortedByRule, idx
<1>2. StorageInv /\ [StorageNext]_storage => StorageInv'
  <2> SUFFICES ASSUME StorageInv, [StorageNext]_storage
               PROVE  StorageInv'
    OBVIOUS
  <2>1. CASE \E num \in Numbers : AddData(num)
    BY <2>1, AddDataStep
  <2>2. CASE \E r \in Rules : SortData(r)
    BY <2>2, SortDataStep
  <2>3. CASE Compare
    BY <2>3, CompareStep
  <2>4. CASE NextPass
    BY <2>4, NextPassStep
  <2>5. CASE EndSort
    BY <2>5, EndSortStep
  <2>6. CASE UNCHANGED storage
    BY <2>6 DEF StorageInv, StorageTypeOK, Sorting, TailInPlace, CarriesLast,
                PassHasPlaced, SortedByRule, storage, idx
  <2> QED
    BY <2>1, <2>2, <2>3, <2>4, <2>5, <2>6 DEF StorageNext
<1>3. StorageInv => StorageTypeOK /\ SortedByRule
  BY DEF StorageInv
<1> QED
  BY <1>1, <1>2, <1>3, PTL DEF StorageSpec

(***************************************************************************)
(* The exchange of SortData moves numbers and neither loses nor invents    *)
(* one, for every storage and every rule.                                  *)
(***************************************************************************)
THEOREM SortDataKeepsNumbers == StorageSpec => SortKeepsNumbers
<1>1. StorageInit => StorageInv
  BY StorageAssumption DEF StorageInit, StorageInv, StorageTypeOK, Sorting, SortedByRule, idx
<1>2. ASSUME StorageInv, [StorageNext]_storage
      PROVE  StorageInv' /\ [rule # NoRule => Rearranged]_storage
  <2>1. CASE UNCHANGED storage
    BY <2>1, <1>2 DEF StorageInv, StorageTypeOK, Sorting, TailInPlace, CarriesLast,
                PassHasPlaced, SortedByRule, storage, idx
  <2>2. ASSUME arr' = arr
        PROVE  Rearranged
    <3>1. arr \in [1..idx -> Numbers]
      BY <1>2 DEF StorageInv, StorageTypeOK, idx
    <3> DEFINE p == [k \in 1..idx |-> k]
    <3>2. p \in [1..idx -> 1..idx] /\ {p[k] : k \in 1..idx} = 1..idx
      OBVIOUS
    <3>3. arr' = [k \in 1..idx |-> arr[p[k]]]
      BY <2>2, <3>1
    <3> HIDE DEF p
    <3> QED
      BY <3>2, <3>3 DEF Rearranged
  <2>3. CASE \E num \in Numbers : AddData(num)
    BY <2>3, <1>2, AddDataStep DEF AddData
  <2>4. CASE \E r \in Rules : SortData(r)
    BY <2>4, <1>2, SortDataStep DEF SortData
  <2>5. CASE Compare
    <3>1. CASE arr' = arr
      BY <3>1, <2>2, <2>5, <1>2, CompareStep
    <3>2. CASE arr' # arr
      <4>1. /\ j + 1 \in 1..idx /\ j + 2 \in 1..idx /\ j \in Nat /\ idx \in Nat
            /\ arr' \in Seq(Numbers) /\ Len(arr') = idx
            /\ arr'[j + 1] = arr[j + 2] /\ arr'[j + 2] = arr[j + 1]
            /\ \A k \in 1..idx : k # j + 1 /\ k # j + 2 => arr'[k] = arr[k]
        BY <3>2, <2>5, <1>2, CompareChanges DEF StorageInv, StorageTypeOK, idx
      <4> DEFINE p == [k \in 1..idx |-> IF k = j + 1 THEN j + 2
                                        ELSE IF k = j + 2 THEN j + 1 ELSE k]
      <4>2. p \in [1..idx -> 1..idx] /\ \A k \in 1..idx : p[p[k]] = k
        BY <4>1
      <4>3. arr' = [k \in 1..idx |-> arr[p[k]]]
        BY <4>1
      <4> HIDE DEF p
      <4>4. {p[k] : k \in 1..idx} = 1..idx
        BY <4>2
      <4>5. Rearranged
        BY <4>2, <4>3, <4>4 DEF Rearranged
      <4> QED
        BY <4>5, <2>5, <1>2, CompareStep
    <3> QED
      BY <3>1, <3>2
  <2>6. CASE NextPass
    BY <2>6, <2>2, <1>2, NextPassStep DEF NextPass
  <2>7. CASE EndSort
    BY <2>7, <2>2, <1>2, EndSortStep DEF EndSort
  <2> QED
    BY <2>1, <2>3, <2>4, <2>5, <2>6, <2>7, <1>2 DEF StorageNext
<1>3. StorageInv /\ [StorageNext]_storage
        => StorageInv' /\ [rule # NoRule => Rearranged]_storage
  BY <1>2
<1> QED
  BY <1>1, <1>3, PTL DEF StorageSpec, SortKeepsNumbers

-----------------------------------------------------------------------------
\* A step is a step of one program, or of none.
LEMMA ProgramStep ==
    [Next /\ UNCHANGED program]_<<bank, asked, vars, storage, program>>
      => [BankNext]_<<bank, asked>> /\ [ObjectsNext]_vars /\ [StorageNext]_storage
BY DEF Next

(***************************************************************************)
(* Whichever exercise runs, its variables keep their types, and the arrays *)
(* their bounds: accounts, workers and stored numbers.                     *)
(***************************************************************************)
THEOREM ExercisesKeepTypes == Spec => []TypesOK
<1>1. Init => BankInit /\ ObjectsInit /\ StorageInit
  BY DEF Init
<1>2. Spec => BankSpec /\ ObjectsSpec /\ StorageSpec
  BY <1>1, ProgramStep, PTL DEF Spec, BankSpec, ObjectsSpec, StorageSpec
<1>3. StorageSpec => []StorageTypeOK
  BY SortDataSorts, PTL
<1>4. BankTypeOK /\ ObjectsTypeOK /\ StorageTypeOK => TypesOK
  BY DEF TypesOK
<1> QED
  BY <1>2, <1>3, <1>4, BankKeepsTypes, ObjectsKeepTypes, PTL

(***************************************************************************)
(* What is proved of the programs one by one holds of them all.            *)
(***************************************************************************)
THEOREM ExercisesKeepPromises ==
    Spec => /\ [](VersionsAgree /\ OthersStayDefined /\ SortedByRule)
            /\ OneOwner /\ LedgersKept /\ SecondNeverMoves /\ SortKeepsNumbers
<1>1. Init => BankInit /\ ObjectsInit /\ StorageInit
  BY DEF Init
<1>2. Spec => BankSpec /\ ObjectsSpec /\ StorageSpec
  BY <1>1, ProgramStep, PTL DEF Spec, BankSpec, ObjectsSpec, StorageSpec
<1>3. StorageSpec => []SortedByRule
  BY SortDataSorts, PTL
<1> QED
  BY <1>2, <1>3, RewritingsAgree, BlocksHaveOneOwner, UndefinedHasItsCause, PTL,
     VersionsKeepLedgers, SecondAccountIsLost, SortDataKeepsNumbers

=============================================================================
