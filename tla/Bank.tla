--------------------------------- MODULE Bank ---------------------------------
(***************************************************************************)
(* The bank program of the C++ exercises in its six versions, from an      *)
(* array of structs (01_bank) to derived account classes with interest     *)
(* (08-polymorphism, repeated in 09-virtual).  All versions are given the  *)
(* same input.                                                             *)
(*                                                                         *)
(* A version is a function from its state and the next request to its      *)
(* state.  A word typed where cin expects a number stores 0 and fails the  *)
(* stream, the end of the input only fails it: whatever is read later      *)
(* keeps its value.  The menu then repeats its last choice with local      *)
(* variables that were never set.  Nothing is claimed once such a variable *)
(* is used, the array is full, or a balance leaves the int: the state is   *)
(* "undefined".  Names are left out.                                       *)
(***************************************************************************)
EXTENDS Integers, Sequences

CONSTANTS
    Ids, Amounts,   \* numbers that are typed
    Plans,          \* version 6: the answers on kind, rating and rank
    Word, End,      \* a token that is no number, the end of the input
    Unset,          \* the value of a local variable before it is set
    None,
    Capacity,       \* of the array (100 in the code)
    IntMax,         \* the largest int (2^31 - 1)
    Precision,      \* money * rate, in float, is off by MaxSlip parts in Precision
    MaxSlip,        \* at most (five roundings to a float: less than 6 in 2^24)
    MaxRequests     \* bound: requests

ASSUME BankAssumption ==
    /\ Ids \subseteq Nat \ {0} /\ Amounts \subseteq Int
    /\ Plans # {}
    /\ \A p \in Plans : {p.kind, p.rating, p.rank} \subseteq Nat \cup {Word, End}
    /\ {Word, End, Unset, None} \cap Int = {}
    /\ Word # End /\ Unset \notin {Word, End}
    /\ Capacity \in Nat /\ IntMax \in Nat /\ MaxRequests \in Nat
    /\ Precision \in Nat \ {0} /\ MaxSlip \in 0..Precision

\* What does not fit an int is no number to cin.
ASSUME AmountsAssumption == Amounts \subseteq (-IntMax - 1)..IntMax

VARIABLES
    bank,    \* the state of every version
    asked    \* requests so far

Versions == {"v1", "v2", "v3", "v4", "v5", "v6"}

\* slip: how far off money * rate is this time.
Nothing ==
    [choice |-> End, id |-> End, money |-> End,
     plan |-> CHOOSE plan \in Plans : TRUE, slip |-> 0]

\* What may be typed next.  What no version reads is not there, and behind the
\* end of the input comes nothing.
Request ==
    {r \in [choice : 0..5 \cup {Word, End}, id : Ids \cup {Word, End},
            money : Amounts \cup {Word, End}, plan : Plans,
            slip : (-MaxSlip)..MaxSlip] :
       /\ r.choice \notin 1..4 => r.id = End
       /\ r.choice \notin 1..3 => r.money = End
       /\ r.choice # 1 => r.plan = Nothing.plan
       /\ r.choice # 2 \/ r.money \notin Amounts => r.slip = 0
       /\ r.id = End => r.money = End}

-----------------------------------------------------------------------------
(***************************************************************************)
(* What the versions have in common.                                       *)
(***************************************************************************)
ProgramState ==
    [accounts : Seq([id : Nat \cup {Word}, balance : Int, rate : Nat]),
     choice : 0..5 \cup {Unset}, good : BOOLEAN,
     screen : SUBSET ((1..Capacity) \X Int),
     status : {"running", "ended", "undefined"}]

Started ==
    [accounts |-> << >>, choice |-> Unset, good |-> TRUE, screen |-> {},
     status |-> "running"]

\* cin >> variable.
Extracted(good, token, before) ==
    IF ~good \/ token = End THEN before ELSE IF token = Word THEN 0 ELSE token

IsNumber(token) == token \notin {Word, End}

AtMenu(p, r) ==
    [p EXCEPT !.choice = Extracted(p.good, r.choice, p.choice),
              !.good = p.good /\ IsNumber(r.choice),
              !.screen = {}]

Undefined(p) == [p EXCEPT !.status = "undefined"]

IsInt(n) == n \in (-IntMax - 1)..IntMax

\* The loops stop at the first account with the number.
IsFirst(accounts, k, id) ==
    accounts[k].id = id /\ \A j \in 1..(k - 1) : accounts[j].id # id

Known(accounts, id) == \E k \in DOMAIN accounts : IsFirst(accounts, k, id)
First(accounts, id) == CHOOSE k \in DOMAIN accounts : IsFirst(accounts, k, id)

Appended(p, id, money, rate) ==
    IF Len(p.accounts) = Capacity THEN Undefined(p)
    ELSE [p EXCEPT !.accounts = Append(@, [id |-> id, balance |-> money, rate |-> rate])]

\* Mutant: the loop goes on behind the first account.
ChangedAll(p, id, money, extra) ==
    IF id = Unset \/ (money = Unset /\ Known(p.accounts, id)) THEN Undefined(p)
    ELSE [p EXCEPT !.accounts =
            [k \in DOMAIN @ |-> IF @[k].id = id
                                THEN [@[k] EXCEPT !.balance = @ + money + extra] ELSE @[k]]]

\* A loop over the accounts that adds two sums, one after the other, to the
\* first one with the number.
Changed(p, id, money, extra) ==
    LET k == First(p.accounts, id)
        n == p.accounts[k].balance + money
    IN  IF id = Unset /\ p.accounts # << >> THEN Undefined(p)
        ELSE IF ~Known(p.accounts, id) THEN p
        ELSE IF money = Unset \/ ~IsInt(n) \/ ~IsInt(extra) \/ ~IsInt(n + extra)
             THEN Undefined(p)
        ELSE [p EXCEPT !.accounts[k].balance = n + extra]

Negative(money) == IF money = Unset THEN Unset ELSE -money

\* The two numbers that inputmoney and outputmoney read, from version 2 on.
ReadId(p, r) == Extracted(p.good, r.id, Unset)
ReadMoney(p, r) == Extracted(p.good /\ IsNumber(r.id), r.money, Unset)
AfterBoth(p, r) == [p EXCEPT !.good = @ /\ IsNumber(r.id) /\ IsNumber(r.money)]

\* makecount from version 2 on: number, money, name.  The name is read last:
\* after a word it is never set, and its copy is undefined.
Made(p, r, rate) ==
    IF AfterBoth(p, r).good THEN Appended(p, r.id, r.money, rate)
    ELSE Undefined(AfterBoth(p, r))

\* info shows which accounts it lists and their balances.  An input that ends here
\* fails the next read, if not this one.
Shown(p, r, listed) ==
    [p EXCEPT !.screen = {<<k, p.accounts[k].balance>> : k \in listed},
              !.good = @ /\ r.id # End]

Quit(p) == [p EXCEPT !.status = "ended"]

=============================================================================
