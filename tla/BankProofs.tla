------------------------------ MODULE BankProofs ------------------------------
(***************************************************************************)
(* Proofs about the bank program: for any numbers, amounts, plans and size *)
(* of the array, every version keeps a ledger, and an account whose number *)
(* was given before never changes.                                         *)
(*                                                                         *)
(* A handler is first reduced to what it does to the accounts (Effect):    *)
(* nothing, one account more, or another balance for the first account     *)
(* with the number that was typed.  The rest of the argument is about      *)
(* sequences of accounts and does not look at the versions again.          *)
(***************************************************************************)
EXTENDS BankSystem, WellFoundedInduction, TLAPS

Keys == Ids \cup {Word}

RatesOf(v) == IF v = "v6" THEN {RateOf(plan) : plan \in Plans} ELSE {0}

Accounts(v) == Seq([id : Nat \cup {Word}, balance : Int, rate : RatesOf(v)])

\* What info has shown is left open.
IsState(v, p) ==
    p \in [accounts : Accounts(v), choice : 0..5 \cup {Unset}, good : BOOLEAN,
           screen : {p.screen}, status : {p.status}]

IsDefined(p) == p.good /\ p.status # "undefined"

\* Ledger's IsInterest.
Earned(money, rate, extra) ==
    LET unit == 100 * Precision
        least == money * rate * (Precision - MaxSlip)
        most == money * rate * (Precision + MaxSlip)
    IN  IF money * rate >= 0
        THEN 0 <= extra /\ least - unit < extra * unit /\ extra * unit <= most
        ELSE extra <= 0 /\ most <= extra * unit /\ extra * unit < least + unit

\* What the first account with a number may get for the sum that was typed.
Booked(v, before, money, after) ==
    \/ after = before - money
    \/ \E rate \in RatesOf(v), extra \in Int :
         after = before + money + extra /\ Earned(money, rate, extra)

Rebalanced(s, k, n) == [s EXCEPT ![k].balance = n]

Opens(v, s, r, t) ==
    /\ r.id \in Keys /\ r.money \in Amounts
    /\ \E rate \in RatesOf(v) :
         t = Append(s, [id |-> r.id, balance |-> r.money, rate |-> rate])

Moves(v, s, r, t) ==
    /\ r.id \in Keys /\ r.money \in Amounts /\ Known(s, r.id)
    /\ \E n \in Int :
         /\ t = Rebalanced(s, First(s, r.id), n)
         /\ Booked(v, s[First(s, r.id)].balance, r.money, n)

Effect(v, p, r, q) ==
    /\ IsState(v, q)
    /\ q.good => p.good
    /\ p.status = "undefined" => q.status = "undefined"
    /\ IsDefined(q) =>
         \/ q.accounts = p.accounts
         \/ Opens(v, p.accounts, r, q.accounts)
         \/ Moves(v, p.accounts, r, q.accounts)

-----------------------------------------------------------------------------
(***************************************************************************)
(* Requests and reads.                                                     *)
(***************************************************************************)

\* What is typed has the type its place asks for, if it can be read at all.
LEMMA RequestType ==
    ASSUME NEW r \in Request
    PROVE  /\ r.choice \in 0..5 \cup {Word, End}
           /\ r.id \in Ids \cup {Word, End}
           /\ r.money \in Amounts \cup {Word, End}
           /\ r.plan \in Plans
           /\ r.slip \in (-MaxSlip)..MaxSlip
BY DEF Request

\* The request that nobody types is one.
LEMMA NothingType ==
    ASSUME BankAssumption
    PROVE  Nothing \in Request
<1>1. (CHOOSE plan \in Plans : TRUE) \in Plans
    BY DEF BankAssumption
<1> QED
    BY <1>1 DEF Nothing, Request, BankAssumption

\* What is read of a plan: a number, or nothing.
LEMMA PlanType ==
    ASSUME BankAssumption, NEW plan \in Plans
    PROVE  /\ Rating(plan) \in Nat
           /\ RateOf(plan) \in Nat
<1>1. {plan.kind, plan.rating, plan.rank} \subseteq Nat \cup {Word, End}
    BY DEF BankAssumption
<1>2. Rating(plan) \in Nat
    BY <1>1 DEF Rating, Extracted
<1> HIDE DEF Rating
<1>3. (CASE Rank(plan) = 1 -> 7 [] Rank(plan) = 2 -> 4 [] OTHER -> 2) \in {7, 4, 2}
    OBVIOUS
<1> QED
    BY <1>2, <1>3 DEF RateOf

\* Every rate is a whole number of percent.
LEMMA RateType ==
    ASSUME BankAssumption, NEW v \in Versions
    PROVE  RatesOf(v) \subseteq Nat
<1>1. \A plan \in Plans : RateOf(plan) \in Nat
    BY PlanType
<1> QED
    BY <1>1 DEF RatesOf

\* The menu keeps the accounts; a choice that was read is the one typed.
LEMMA AtMenuStep ==
    ASSUME BankAssumption, NEW v \in Versions, NEW p, IsState(v, p), NEW r \in Request
    PROVE  LET m == AtMenu(p, r)
           IN  /\ IsState(v, m)
               /\ m.accounts = p.accounts
               /\ m.status = p.status
               /\ m.good => p.good /\ m.choice = r.choice
<1> DEFINE m == AtMenu(p, r)
<1>1. r.choice \in 0..5 \cup {Word, End} /\ 0 \in 0..5
    BY RequestType
<1>2. Extracted(p.good, r.choice, p.choice) \in 0..5 \cup {Unset}
    BY <1>1 DEF Extracted, IsState
<1>3. m \in [accounts : {p.accounts}, good : {p.good /\ IsNumber(r.choice)}, screen : {{}},
              choice : {Extracted(p.good, r.choice, p.choice)}, status : {p.status}]
    BY DEF AtMenu, IsState
<1>4. (p.good /\ IsNumber(r.choice)) \in BOOLEAN
    BY DEF IsNumber, IsState
<1>5. IsState(v, m)
    BY <1>2, <1>3, <1>4 DEF IsState
<1>6. m.good => p.good /\ m.choice = r.choice
    BY <1>3, <1>1 DEF Extracted, IsNumber, BankAssumption
<1> QED
    BY <1>3, <1>5, <1>6

-----------------------------------------------------------------------------
(***************************************************************************)
(* The loops.                                                              *)
(***************************************************************************)

\* The elements of a sequence have its type.
LEMMA ElementType ==
    ASSUME NEW T, NEW s \in Seq(T), NEW k \in DOMAIN s
    PROVE  s[k] \in T
OBVIOUS

\* There is one first account with a number.
LEMMA FirstUnique ==
    ASSUME NEW T, NEW s \in Seq(T), NEW n, NEW k \in DOMAIN s, IsFirst(s, k, n)
    PROVE  Known(s, n) /\ First(s, n) = k
<1>1. \A j \in DOMAIN s : IsFirst(s, j, n) => j = k
    BY DEF IsFirst
<1> QED
    BY <1>1 DEF Known, First

LEMMA FirstIsFirst ==
    ASSUME NEW T, NEW s \in Seq(T), NEW n, Known(s, n)
    PROVE  First(s, n) \in DOMAIN s /\ IsFirst(s, First(s, n), n)
BY DEF Known, First

\* The account that a loop stops at.
LEMMA AccountType ==
    ASSUME NEW v, NEW s \in Accounts(v), NEW n, Known(s, n)
    PROVE  s[First(s, n)] \in [id : Nat \cup {Word}, balance : Int, rate : RatesOf(v)]
<1> DEFINE T == [id : Nat \cup {Word}, balance : Int, rate : RatesOf(v)]
<1>1. s \in Seq(T)
    BY DEF Accounts
<1> HIDE DEF T
<1>2. s[First(s, n)] \in T
    BY <1>1, FirstIsFirst, ElementType
<1> QED
    BY <1>2 DEF T

LEMMA AppendedStep ==
    ASSUME BankAssumption, NEW v \in Versions, NEW p, IsState(v, p),
           NEW id \in Nat \cup {Word}, NEW money \in Int, NEW rate \in RatesOf(v)
    PROVE  LET q == Appended(p, id, money, rate)
           IN  /\ IsState(v, q)
               /\ q.good = p.good
               /\ p.status = "undefined" => q.status = "undefined"
               /\ \/ q.status = "undefined"
                  \/ q.accounts =
                       Append(p.accounts, [id |-> id, balance |-> money, rate |-> rate])
<1> DEFINE a == [id |-> id, balance |-> money, rate |-> rate]
<1>1. Append(p.accounts, a) \in Accounts(v)
    BY DEF IsState, Accounts
<1>2. CASE Len(p.accounts) = Capacity
    BY <1>2 DEF Appended, Undefined, IsState
<1>3. CASE Len(p.accounts) # Capacity
    BY <1>1, <1>3 DEF Appended, IsState
<1> QED
    BY <1>2, <1>3

LEMMA ChangedStep ==
    ASSUME BankAssumption, NEW v \in Versions, NEW p, IsState(v, p),
           NEW id, NEW money \in Int \cup {Unset}, NEW extra \in Int
    PROVE  LET q == Changed(p, id, money, extra)
           IN  /\ IsState(v, q)
               /\ q.good = p.good
               /\ p.status = "undefined" => q.status = "undefined"
               /\ \/ q.status = "undefined"
                  \/ q.accounts = p.accounts
                  \/ /\ Known(p.accounts, id) /\ money \in Int
                     /\ q.accounts =
                          Rebalanced(p.accounts, First(p.accounts, id),
                                     p.accounts[First(p.accounts, id)].balance + money + extra)
<1> DEFINE s == p.accounts
           k == First(s, id)
           n == s[k].balance + money
           q == Changed(p, id, money, extra)
<1>1. CASE q = p
    BY <1>1
<1>2. CASE q = Undefined(p)
    BY <1>2 DEF Undefined, IsState
<1>3. CASE /\ Known(s, id) /\ money \in Int
           /\ q = [p EXCEPT !.accounts[k].balance = n + extra]
    <2>1. k \in DOMAIN s
        BY <1>3, FirstIsFirst DEF IsState, Accounts
    <2>2. q.accounts = Rebalanced(s, k, n + extra)
        BY <1>3 DEF IsState, Rebalanced
    <2>3. s[k] \in [id : Nat \cup {Word}, balance : Int, rate : RatesOf(v)]
        BY <1>3, AccountType DEF IsState
    <2>4. n + extra \in Int
        BY <1>3, <2>3
    <2>5. [s[k] EXCEPT !.balance = n + extra]
            \in [id : Nat \cup {Word}, balance : Int, rate : RatesOf(v)]
        BY <2>3, <2>4
    <2>6. q.accounts \in Accounts(v)
        <3> DEFINE T == [id : Nat \cup {Word}, balance : Int, rate : RatesOf(v)]
                   e == [s[k] EXCEPT !.balance = n + extra]
        <3>1. s \in Seq(T) /\ e \in T
            BY <2>5 DEF IsState, Accounts
        <3> HIDE DEF T, e
        <3>2. [s EXCEPT ![k] = e] \in Seq(T)
            BY <2>1, <3>1
        <3> QED
            BY <2>2, <3>2 DEF Accounts, Rebalanced, T, e
    <2> QED
        BY <1>3, <2>2, <2>6 DEF IsState
<1> QED
    BY <1>1, <1>2, <1>3 DEF Changed

-----------------------------------------------------------------------------
(***************************************************************************)
(* The handlers.                                                           *)
(***************************************************************************)

\* Reading leaves the accounts alone, and an effect starts before it.
LEMMA EffectBefore ==
    ASSUME NEW v, NEW r, NEW p, NEW m, NEW q,
           m.accounts = p.accounts, m.status = p.status, m.good => p.good,
           Effect(v, m, r, q)
    PROVE  Effect(v, p, r, q)
BY DEF Effect

\* A step that keeps the accounts.
LEMMA KeptEffect ==
    ASSUME NEW v, NEW r, NEW m, NEW q, IsState(v, q),
           q.accounts = m.accounts, q.good => m.good,
           m.status = "undefined" => q.status = "undefined"
    PROVE  Effect(v, m, r, q)
BY DEF Effect

\* Undefined behaviour has no effect that matters.
LEMMA UndefinedEffect ==
    ASSUME NEW v, NEW r, NEW m, IsState(v, m)
    PROVE  Effect(v, m, r, Undefined(m))
<1>1. /\ IsState(v, Undefined(m)) /\ Undefined(m).good = m.good
      /\ Undefined(m).accounts = m.accounts /\ Undefined(m).status = "undefined"
    BY DEF Undefined, IsState
<1> QED
    BY <1>1, KeptEffect

\* A loop that books what was typed, for the account it finds.
LEMMA ChangedEffect ==
    ASSUME BankAssumption, NEW v \in Versions, NEW m, IsState(v, m), NEW r \in Request,
           NEW id, NEW money \in Int \cup {Unset}, NEW extra \in Int,
           m.good => id = r.id /\ r.id \in Keys /\ r.money \in Amounts,
           m.good /\ money \in Int /\ Known(m.accounts, id) =>
             LET b == m.accounts[First(m.accounts, id)].balance
             IN  Booked(v, b, r.money, b + money + extra)
    PROVE  Effect(v, m, r, Changed(m, id, money, extra))
<1> DEFINE s == m.accounts
           b == s[First(s, id)].balance
           q == Changed(m, id, money, extra)
<1> HIDE DEF q
<1>1. /\ IsState(v, q) /\ q.good = m.good
      /\ m.status = "undefined" => q.status = "undefined"
      /\ \/ q.status = "undefined"
         \/ q.accounts = s
         \/ /\ Known(s, id) /\ money \in Int
            /\ q.accounts = Rebalanced(s, First(s, id), b + money + extra)
    BY ChangedStep DEF q
<1>2. ASSUME Known(s, id), money \in Int PROVE b + money + extra \in Int
    <2>1. b \in Int
        BY <1>2, AccountType DEF IsState
    <2> QED
        BY <1>2, <2>1
<1>3. ASSUME IsDefined(q), Known(s, id), money \in Int,
             q.accounts = Rebalanced(s, First(s, id), b + money + extra)
      PROVE  Moves(v, s, r, q.accounts)
    <2>1. m.good
        BY <1>1, <1>3 DEF IsDefined
    <2> QED
        BY <1>2, <1>3, <2>1 DEF Moves
<1>4. Effect(v, m, r, q)
    BY <1>1, <1>3 DEF Effect, IsDefined
<1> QED
    BY <1>4 DEF q

LEMMA AppendedEffect ==
    ASSUME BankAssumption, NEW v \in Versions, NEW m, IsState(v, m), NEW r \in Request,
           NEW id \in Keys, NEW money \in Int, NEW rate \in RatesOf(v),
           m.good => id = r.id /\ money = r.money /\ r.money \in Amounts
    PROVE  Effect(v, m, r, Appended(m, id, money, rate))
<1> DEFINE q == Appended(m, id, money, rate)
<1> HIDE DEF q
<1>1. id \in Nat \cup {Word}
    BY DEF Keys, BankAssumption
<1>2. /\ IsState(v, q) /\ q.good = m.good
      /\ m.status = "undefined" => q.status = "undefined"
      /\ \/ q.status = "undefined"
         \/ q.accounts = Append(m.accounts, [id |-> id, balance |-> money, rate |-> rate])
    BY <1>1, AppendedStep DEF q
<1>3. Effect(v, m, r, q)
    BY <1>2 DEF Effect, IsDefined, Opens
<1> QED
    BY <1>3 DEF q

\* Both numbers, from version 2 on.
LEMMA BothRead ==
    ASSUME BankAssumption, NEW v \in Versions, NEW m, IsState(v, m), NEW r \in Request
    PROVE  LET a == AfterBoth(m, r)
           IN  /\ IsState(v, a) /\ a.accounts = m.accounts /\ a.status = m.status
               /\ ReadId(m, r) \in Nat \cup {Unset}
               /\ ReadMoney(m, r) \in Int \cup {Unset}
               /\ a.good => /\ m.good /\ r.id \in Ids /\ r.money \in Amounts
                            /\ ReadId(m, r) = r.id /\ ReadMoney(m, r) = r.money
<1> DEFINE a == AfterBoth(m, r)
<1>1. r.id \in Ids \cup {Word, End} /\ r.money \in Amounts \cup {Word, End}
    BY RequestType
<1>2. ReadId(m, r) \in Nat \cup {Unset} /\ ReadMoney(m, r) \in Int \cup {Unset}
    <2>1. r.id \in Nat \cup {Word, End} /\ r.money \in Int \cup {Word, End}
        BY <1>1 DEF BankAssumption
    <2>2. ReadId(m, r) \in Nat \cup {Unset}
        BY <2>1 DEF ReadId, Extracted
    <2>3. ReadMoney(m, r) \in Int \cup {Unset}
        BY <2>1 DEF ReadMoney, Extracted
    <2> QED
        BY <2>2, <2>3
<1>4. a \in [accounts : {m.accounts}, choice : {m.choice}, screen : {m.screen},
              status : {m.status}, good : {m.good /\ IsNumber(r.id) /\ IsNumber(r.money)}]
    BY DEF AfterBoth, IsState
<1>5. IsState(v, a)
    BY <1>4 DEF IsState, IsNumber
<1>6. a.good => /\ m.good /\ r.id \in Ids /\ r.money \in Amounts
                /\ ReadId(m, r) = r.id /\ ReadMoney(m, r) = r.money
    BY <1>1, <1>4 DEF IsNumber, ReadId, ReadMoney, Extracted
<1> QED
    BY <1>2, <1>4, <1>5, <1>6

\* The string and the number of version 1.
LEMMA LastRead ==
    ASSUME BankAssumption, NEW m, IsState("v1", m), NEW r \in Request
    PROVE  LET a == AfterLast(m, r)
           IN  /\ IsState("v1", a) /\ a.accounts = m.accounts /\ a.status = m.status
               /\ ReadLast(m, r) \in Int \cup {Unset}
               /\ a.good => /\ m.good /\ r.id \in Keys /\ r.money \in Amounts
                            /\ ReadString(m, r) = r.id /\ ReadLast(m, r) = r.money
<1> DEFINE a == AfterLast(m, r)
<1>1. r.id \in Ids \cup {Word, End} /\ r.money \in Amounts \cup {Word, End}
    BY RequestType
<1>2. ReadLast(m, r) \in Int \cup {Unset}
    <2>1. r.money \in Int \cup {Word, End}
        BY <1>1 DEF BankAssumption
    <2> QED
        BY <2>1 DEF ReadLast, Extracted
<1>4. a \in [accounts : {m.accounts}, choice : {m.choice}, screen : {m.screen},
              status : {m.status}, good : {m.good /\ r.id # End /\ IsNumber(r.money)}]
    BY DEF AfterLast, IsState
<1>5. IsState("v1", a)
    BY <1>4 DEF IsState, IsNumber
<1>6. a.good => /\ m.good /\ r.id \in Keys /\ r.money \in Amounts
                /\ ReadString(m, r) = r.id /\ ReadLast(m, r) = r.money
    BY <1>1, <1>4 DEF IsNumber, ReadString, ReadLast, Extracted, Keys
<1> QED
    BY <1>2, <1>4, <1>5, <1>6

\* info changes the screen, and the stream at most.
LEMMA ShownEffect ==
    ASSUME NEW v \in Versions, NEW m, IsState(v, m), NEW r, NEW listed
    PROVE  Effect(v, m, r, Shown(m, r, listed))
<1> DEFINE q == Shown(m, r, listed)
           screen == {<<k, m.accounts[k].balance>> : k \in listed}
<1> HIDE DEF screen
<1>1. q \in [accounts : {m.accounts}, choice : {m.choice}, screen : {screen},
              status : {m.status}, good : {m.good /\ r.id # End}]
    BY DEF Shown, IsState, screen
<1>2. IsState(v, q)
    BY <1>1 DEF IsState
<1> QED
    BY <1>1, <1>2, KeptEffect

LEMMA QuitEffect ==
    ASSUME NEW v \in Versions, NEW m, IsState(v, m), NEW r, m.status # "undefined"
    PROVE  Effect(v, m, r, Quit(m))
<1>1. /\ IsState(v, Quit(m)) /\ Quit(m).good = m.good
      /\ Quit(m).accounts = m.accounts
    BY DEF Quit, IsState
<1> QED
    BY <1>1, KeptEffect

LEMMA MadeEffect ==
    ASSUME BankAssumption, NEW v \in Versions, NEW m, IsState(v, m), NEW r \in Request,
           NEW rate, m.good => rate \in RatesOf(v)
    PROVE  Effect(v, m, r, Made(m, r, rate))
<1>1. CASE AfterBoth(m, r).good
    <2>1. m.good /\ r.id \in Keys /\ r.money \in Int /\ r.money \in Amounts
        BY <1>1, BothRead DEF Keys, BankAssumption
    <2>2. Effect(v, m, r, Appended(m, r.id, r.money, rate))
        BY <2>1, AppendedEffect
    <2> QED
        BY <1>1, <2>2 DEF Made
<1>2. CASE ~AfterBoth(m, r).good
    <2> DEFINE a == AfterBoth(m, r)
    <2>1. IsState(v, a) /\ a.accounts = m.accounts /\ a.status = m.status
        BY BothRead
    <2>2. Effect(v, a, r, Undefined(a))
        BY <2>1, UndefinedEffect
    <2>3. Effect(v, m, r, Undefined(a))
        BY <1>2, <2>1, <2>2, EffectBefore
    <2> QED
        BY <1>2, <2>3 DEF Made
<1> QED
    BY <1>1, <1>2

\* Money paid in without interest, and money taken out.
LEMMA PlainBooking ==
    ASSUME BankAssumption, NEW v \in Versions, NEW b, NEW money \in Int
    PROVE  /\ Booked(v, b, money, b + (-money) + 0) \/ b \notin Int
           /\ v # "v6" => Booked(v, b, money, b + money + 0)
<1>1. b \in Int => Booked(v, b, money, b + (-money) + 0)
    <2>1. b \in Int => b + (-money) + 0 = b - money
        OBVIOUS
    <2> QED
        BY <2>1 DEF Booked
<1>2. v # "v6" => Booked(v, b, money, b + money + 0)
    <2>1. Earned(money, 0, 0)
        <3>1. /\ money * 0 = 0 /\ 0 * (100 * Precision) = 0 /\ 100 * Precision > 0
              /\ 0 * (Precision - MaxSlip) = 0 /\ 0 * (Precision + MaxSlip) = 0
            BY DEF BankAssumption
        <3> QED
            BY <3>1 DEF Earned
    <2> QED
        BY <2>1 DEF Booked, RatesOf
<1> QED
    BY <1>1, <1>2

\* What was typed is paid in, or taken out.
LEMMA PaidIn ==
    ASSUME BankAssumption, NEW v \in Versions, v # "v6", NEW m, IsState(v, m),
           NEW r \in Request, NEW id, NEW money \in Int \cup {Unset},
           m.good => id = r.id /\ r.id \in Keys /\ r.money \in Amounts /\ money = r.money
    PROVE  Effect(v, m, r, Changed(m, id, money, 0))
<1>1. ASSUME m.good
      PROVE  LET b == m.accounts[First(m.accounts, id)].balance
             IN  Booked(v, b, r.money, b + money + 0)
    <2>1. r.money \in Int /\ money = r.money
        BY <1>1 DEF BankAssumption
    <2> QED
        BY <2>1, PlainBooking
<1> QED
    BY <1>1, ChangedEffect

LEMMA TakenOut ==
    ASSUME BankAssumption, NEW v \in Versions, NEW m, IsState(v, m),
           NEW r \in Request, NEW id, NEW money \in Int \cup {Unset},
           m.good => id = r.id /\ r.id \in Keys /\ r.money \in Amounts /\ money = r.money
    PROVE  Effect(v, m, r, Changed(m, id, Negative(money), 0))
<1> DEFINE taken == Negative(money)
<1>1. taken \in Int \cup {Unset} /\ (m.good => taken = -r.money)
    <2>1. Unset \notin Int /\ Amounts \subseteq Int
        BY DEF BankAssumption
    <2>2. CASE money = Unset
        BY <2>1, <2>2 DEF Negative
    <2>3. CASE money \in Int
        BY <2>1, <2>3 DEF Negative
    <2> QED
        BY <2>2, <2>3
<1> HIDE DEF taken
<1>2. ASSUME m.good, Known(m.accounts, id)
      PROVE  LET b == m.accounts[First(m.accounts, id)].balance
             IN  Booked(v, b, r.money, b + taken + 0)
    <2> DEFINE b == m.accounts[First(m.accounts, id)].balance
    <2>1. b \in Int
        BY <1>2, AccountType DEF IsState
    <2> QED
        BY <1>1, <1>2, <2>1, PlainBooking DEF BankAssumption
<1>3. /\ m.good => id = r.id /\ r.id \in Keys /\ r.money \in Amounts
      /\ m.good /\ taken \in Int /\ Known(m.accounts, id) =>
           LET b == m.accounts[First(m.accounts, id)].balance
           IN  Booked(v, b, r.money, b + taken + 0)
    BY <1>2
<1>4. taken \in Int \cup {Unset} /\ 0 \in Int
    BY <1>1
<1>5. Effect(v, m, r, Changed(m, id, taken, 0))
    BY <1>3, <1>4, ChangedEffect
<1> QED
    BY <1>5 DEF taken

\* inputmoney of versions 2 to 5, and outputmoney from version 2 on.
LEMMA InputEffect ==
    ASSUME BankAssumption, NEW v \in Versions, v # "v6",
           NEW m, IsState(v, m), NEW r \in Request
    PROVE  Effect(v, m, r, Changed(AfterBoth(m, r), ReadId(m, r), ReadMoney(m, r), 0))
<1> DEFINE a == AfterBoth(m, r)
<1>1. /\ IsState(v, a) /\ a.accounts = m.accounts /\ a.status = m.status
      /\ ReadMoney(m, r) \in Int \cup {Unset}
      /\ a.good => /\ m.good /\ r.id \in Ids /\ r.money \in Amounts
                   /\ ReadId(m, r) = r.id /\ ReadMoney(m, r) = r.money
    BY BothRead
<1> HIDE DEF a
<1>2. Effect(v, a, r, Changed(a, ReadId(m, r), ReadMoney(m, r), 0))
    BY <1>1, PaidIn DEF Keys
<1> QED
    BY <1>1, <1>2, EffectBefore DEF a

LEMMA OutputEffect ==
    ASSUME BankAssumption, NEW v \in Versions, NEW m, IsState(v, m), NEW r \in Request
    PROVE  Effect(v, m, r,
                  Changed(AfterBoth(m, r), ReadId(m, r), Negative(ReadMoney(m, r)), 0))
<1> DEFINE a == AfterBoth(m, r)
<1>1. /\ IsState(v, a) /\ a.accounts = m.accounts /\ a.status = m.status
      /\ ReadMoney(m, r) \in Int \cup {Unset}
      /\ a.good => /\ m.good /\ r.id \in Ids /\ r.money \in Amounts
                   /\ ReadId(m, r) = r.id /\ ReadMoney(m, r) = r.money
    BY BothRead
<1> HIDE DEF a
<1>2. Effect(v, a, r, Changed(a, ReadId(m, r), Negative(ReadMoney(m, r)), 0))
    BY <1>1, TakenOut DEF Keys
<1> QED
    BY <1>1, <1>2, EffectBefore DEF a

\* Whole numbers: a quotient, a product of more, and of a negative number.
LEMMA Quotient ==
    ASSUME NEW n \in Nat, NEW d \in Nat \ {0}
    PROVE  /\ n \div d \in Nat
           /\ (n \div d) * d <= n
           /\ n < (n \div d) * d + d
OBVIOUS

LEMMA MoreTimes ==
    ASSUME NEW c \in Nat, NEW a \in Int, NEW b \in Int, a <= b
    PROVE  c * a <= c * b
OBVIOUS

LEMMA NegativeTimes ==
    ASSUME NEW c \in Int, NEW a \in Int
    PROVE  (-c) * a = -(c * a)
OBVIOUS

\* Interest is cut towards zero; the product before that is within its slip.
LEMMA InterestBounds ==
    ASSUME BankAssumption, NEW money \in Int, NEW rate \in Nat,
           NEW slip \in (-MaxSlip)..MaxSlip
    PROVE  LET extra == Interest(money, rate, slip)
           IN  extra \in Int /\ Earned(money, rate, extra)
<1> DEFINE m == money * rate
           low == Precision - MaxSlip
           mid == Precision + slip
           high == Precision + MaxSlip
           unit == 100 * Precision
           extra == Interest(money, rate, slip)
<1>1. /\ m \in Int /\ unit \in Nat \ {0}
      /\ low \in Nat /\ mid \in Nat /\ high \in Nat /\ low <= mid /\ mid <= high
    BY DEF BankAssumption
<1>2. /\ extra = IF m * mid >= 0 THEN (m * mid) \div unit ELSE -((-(m * mid)) \div unit)
      /\ Earned(money, rate, extra) <=>
           IF m >= 0
           THEN 0 <= extra /\ m * low - unit < extra * unit /\ extra * unit <= m * high
           ELSE extra <= 0 /\ m * high <= extra * unit /\ extra * unit < m * low + unit
    BY DEF Interest, Earned
<1> SUFFICES extra \in Int /\ Earned(money, rate, extra)
    OBVIOUS
<1> HIDE DEF m, low, mid, high, unit, extra
<1>3. CASE m >= 0
    <2>1. m \in Nat /\ m * low <= m * mid /\ m * mid <= m * high
        BY <1>1, <1>3, MoreTimes
    <2>2. m * mid \in Nat
        BY <1>1, <2>1
    <2> DEFINE k == (m * mid) \div unit
    <2>3. k \in Nat /\ k * unit <= m * mid /\ m * mid < k * unit + unit
        BY <1>1, <2>2, Quotient
    <2>4. extra = k
        BY <1>2, <2>2
    <2>5. m * low \in Int /\ m * high \in Int /\ k * unit \in Int
        BY <1>1, <2>3
    <2> HIDE DEF k
    <2>6. 0 <= k /\ m * low - unit < k * unit /\ k * unit <= m * high
        BY <1>1, <2>1, <2>2, <2>3, <2>5
    <2> QED
        BY <1>2, <1>3, <2>3, <2>4, <2>6
<1>4. CASE ~(m >= 0)
    <2> DEFINE c == -m
    <2>1. /\ c \in Nat /\ m = -c
          /\ m * low = -(c * low) /\ m * mid = -(c * mid) /\ m * high = -(c * high)
        BY <1>1, <1>4, NegativeTimes
    <2> HIDE DEF c
    <2>2. c * low <= c * mid /\ c * mid <= c * high /\ c * mid \in Nat
        BY <1>1, <2>1, MoreTimes
    <2> DEFINE k == (c * mid) \div unit
    <2>3. k \in Nat /\ k * unit <= c * mid /\ c * mid < k * unit + unit
        BY <1>1, <2>2, Quotient
    <2>4. c * low \in Int /\ c * high \in Int /\ k * unit \in Int /\ 0 \div unit = 0
        BY <1>1, <2>1, <2>3
    <2>5. extra = -k
        <3>1. CASE c * mid = 0
            BY <1>2, <2>1, <2>4, <3>1
        <3>2. CASE c * mid > 0
            <4>1. ~(m * mid >= 0) /\ -(m * mid) = c * mid
                BY <2>1, <2>2, <3>2
            <4> QED
                BY <1>2, <4>1
        <3> QED
            BY <2>2, <3>1, <3>2
    <2> HIDE DEF k
    <2>6. extra * unit = -(k * unit)
        BY <1>1, <2>3, <2>5, NegativeTimes
    <2>7. extra \in Int /\ extra <= 0
        BY <2>3, <2>5
    <2>8. m * high <= extra * unit /\ extra * unit < m * low + unit
        BY <1>1, <2>1, <2>2, <2>3, <2>4, <2>6
    <2> QED
        BY <1>2, <1>4, <2>7, <2>8
<1> QED
    BY <1>3, <1>4

\* AddMoney with the rate of the account it finds.
LEMMA AddMoneyEffect ==
    ASSUME BankAssumption, NEW m, IsState("v6", m), NEW r \in Request
    PROVE  Effect("v6", m, r, AddMoney(AfterBoth(m, r), ReadId(m, r), ReadMoney(m, r), r.slip))
<1> DEFINE a == AfterBoth(m, r)
           id == ReadId(m, r)
           money == ReadMoney(m, r)
           f == a.accounts[First(a.accounts, id)]
           extra == IF Known(a.accounts, id) /\ money # Unset
                    THEN Interest(money, f.rate, r.slip) ELSE 0
<1>0. "v6" \in Versions
    BY DEF Versions
<1>1. /\ IsState("v6", a) /\ a.accounts = m.accounts /\ a.status = m.status
      /\ money \in Int \cup {Unset}
      /\ a.good => m.good /\ r.id \in Ids /\ r.money \in Amounts /\ id = r.id /\ money = r.money
    BY <1>0, BothRead
<1>2. r.slip \in (-MaxSlip)..MaxSlip
    BY RequestType
<1> HIDE DEF a, id, money
<1>3. ASSUME Known(a.accounts, id)
      PROVE  f.balance \in Int /\ f.rate \in RatesOf("v6") /\ f.rate \in Nat
    <2>1. f \in [id : Nat \cup {Word}, balance : Int, rate : RatesOf("v6")]
        BY <1>1, <1>3, AccountType DEF IsState
    <2> QED
        BY <1>0, <2>1, RateType
<1>4. extra \in Int
    <2>1. ASSUME Known(a.accounts, id), money # Unset
          PROVE  Interest(money, f.rate, r.slip) \in Int
        <3>1. money \in Int
            BY <1>1, <2>1
        <3> QED
            BY <1>2, <1>3, <2>1, <3>1, InterestBounds
    <2> QED
        BY <2>1
<1>5. ASSUME a.good, Known(a.accounts, id), money \in Int
      PROVE  Booked("v6", f.balance, r.money, f.balance + money + extra)
    <2>1. money # Unset /\ money = r.money /\ extra = Interest(money, f.rate, r.slip)
        BY <1>1, <1>5 DEF BankAssumption
    <2>2. Earned(money, f.rate, extra)
        BY <1>2, <1>3, <1>5, <2>1, InterestBounds
    <2> HIDE DEF extra
    <2> QED
        BY <1>3, <1>4, <1>5, <2>1, <2>2 DEF Booked
<1> HIDE DEF extra
<1>6. Effect("v6", a, r, Changed(a, id, money, extra))
    BY <1>0, <1>1, <1>4, <1>5, ChangedEffect DEF Keys
<1>7. Effect("v6", m, r, Changed(a, id, money, extra))
    BY <1>1, <1>6, EffectBefore
<1> QED
    BY <1>7 DEF AddMoney, extra, a, id, money

-----------------------------------------------------------------------------
(***************************************************************************)
(* The versions.                                                           *)
(***************************************************************************)

\* Every handler of every version has an effect of one of the three kinds.
LEMMA Effect_v1 ==
    ASSUME BankAssumption, NEW p, IsState("v1", p), p.status # "undefined", NEW r \in Request
    PROVE  Effect("v1", p, r, main_v1(p, r))
<1> DEFINE m == AtMenu(p, r)
           a == AfterLast(m, r)
           id == ReadString(m, r)
           money == ReadLast(m, r)
<1>0. "v1" \in Versions /\ 0 \in RatesOf("v1")
    BY DEF Versions, RatesOf
<1>1. /\ IsState("v1", m) /\ m.accounts = p.accounts /\ m.status = p.status
      /\ m.good => p.good
    BY <1>0, AtMenuStep
<1> HIDE DEF m
<1>2. /\ IsState("v1", a) /\ a.accounts = m.accounts /\ a.status = m.status
      /\ money \in Int \cup {Unset}
      /\ a.good => /\ m.good /\ r.id \in Keys /\ r.money \in Amounts
                   /\ id = r.id /\ money = r.money
    BY LastRead, <1>1
<1> HIDE DEF a, id, money
<1>3. Effect("v1", m, r, Undefined(m)) /\ Effect("v1", m, r, m)
    BY <1>1, UndefinedEffect, KeptEffect
<1>4. Effect("v1", m, r, makecount_v1(m, r))
    <2>1. CASE m.good /\ r.id # End /\ r.money # End
        <3>1. r.id \in Keys
            BY <2>1, RequestType DEF Keys
        <3>2. money \in Int
            <4>1. r.money \in Int \cup {Word}
                BY <2>1, RequestType DEF BankAssumption
            <4> QED
                BY <2>1, <4>1 DEF money, ReadLast, Extracted
        <3>3. Effect("v1", a, r, Appended(a, r.id, money, 0))
            BY <1>0, <1>2, <3>1, <3>2, AppendedEffect
        <3> QED
            BY <1>2, <2>1, <3>3, EffectBefore DEF makecount_v1, a, money
    <2> QED
        BY <1>3, <2>1 DEF makecount_v1
<1>5. Effect("v1", m, r, inputmoney_v1(m, r))
    <2>1. Effect("v1", a, r, Changed(a, id, money, 0))
        BY <1>0, <1>2, PaidIn
    <2> QED
        BY <1>2, <2>1, EffectBefore DEF inputmoney_v1, a, id, money
<1>6. Effect("v1", m, r, outputmoney_v1(m, r))
    <2>1. Effect("v1", a, r, Changed(a, id, Negative(money), 0))
        BY <1>0, <1>2, TakenOut
    <2> QED
        BY <1>2, <2>1, EffectBefore DEF outputmoney_v1, a, id, money
<1>7. Effect("v1", m, r, info_v1(m, r))
    BY <1>0, <1>1, ShownEffect DEF info_v1
<1>8. Effect("v1", m, r, Quit(m))
    BY <1>0, <1>1, QuitEffect
<1>9. Effect("v1", m, r, main_v1(p, r))
    BY <1>3, <1>4, <1>5, <1>6, <1>7, <1>8 DEF main_v1, m
<1> QED
    BY <1>1, <1>9, EffectBefore

LEMMA Effect_v2 ==
    ASSUME BankAssumption, NEW p, IsState("v2", p), p.status # "undefined", NEW r \in Request
    PROVE  Effect("v2", p, r, main_v2(p, r))
<1> DEFINE m == AtMenu(p, r)
<1>0. "v2" \in Versions /\ 0 \in RatesOf("v2")
    BY DEF Versions, RatesOf
<1>1. /\ IsState("v2", m) /\ m.accounts = p.accounts /\ m.status = p.status
      /\ m.good => p.good
    BY <1>0, AtMenuStep
<1> HIDE DEF m
<1>2. Effect("v2", m, r, Undefined(m)) /\ Effect("v2", m, r, m)
    BY <1>1, UndefinedEffect, KeptEffect
<1>3. Effect("v2", m, r, makecount_v2(m, r))
    BY <1>0, <1>1, MadeEffect DEF makecount_v2
<1>4. Effect("v2", m, r, inputmoney_v2(m, r))
    BY <1>0, <1>1, InputEffect DEF inputmoney_v2
<1>5. Effect("v2", m, r, outputmoney_v2(m, r))
    BY <1>0, <1>1, OutputEffect DEF outputmoney_v2
<1>6. Effect("v2", m, r, info_v2(m, r)) /\ Effect("v2", m, r, Quit(m))
    BY <1>0, <1>1, ShownEffect, QuitEffect DEF info_v2
<1>7. Effect("v2", m, r, main_v2(p, r))
    BY <1>2, <1>3, <1>4, <1>5, <1>6 DEF main_v2, m
<1> QED
    BY <1>1, <1>7, EffectBefore

LEMMA Effect_v3 ==
    ASSUME BankAssumption, NEW p, IsState("v3", p), p.status # "undefined", NEW r \in Request
    PROVE  Effect("v3", p, r, main_v3(p, r))
<1> DEFINE m == AtMenu(p, r)
<1>0. "v3" \in Versions /\ 0 \in RatesOf("v3")
    BY DEF Versions, RatesOf
<1>1. /\ IsState("v3", m) /\ m.accounts = p.accounts /\ m.status = p.status
      /\ m.good => p.good
    BY <1>0, AtMenuStep
<1> HIDE DEF m
<1>2. Effect("v3", m, r, Undefined(m)) /\ Effect("v3", m, r, m)
    BY <1>1, UndefinedEffect, KeptEffect
<1>3. Effect("v3", m, r, makecount_v3(m, r))
    BY <1>0, <1>1, MadeEffect DEF makecount_v3
<1>4. Effect("v3", m, r, inputmoney_v3(m, r))
    BY <1>0, <1>1, InputEffect DEF inputmoney_v3
<1>5. Effect("v3", m, r, outputmoney_v3(m, r))
    BY <1>0, <1>1, OutputEffect DEF outputmoney_v3
<1>6. Effect("v3", m, r, info_v3(m, r)) /\ Effect("v3", m, r, Quit(m))
    BY <1>0, <1>1, ShownEffect, QuitEffect DEF info_v3
<1>7. Effect("v3", m, r, main_v3(p, r))
    BY <1>2, <1>3, <1>4, <1>5, <1>6 DEF main_v3, m
<1> QED
    BY <1>1, <1>7, EffectBefore

LEMMA Effect_v4 ==
    ASSUME BankAssumption, NEW p, IsState("v4", p), p.status # "undefined", NEW r \in Request
    PROVE  Effect("v4", p, r, main_v4(p, r))
<1> DEFINE m == AtMenu(p, r)
<1>0. "v4" \in Versions /\ 0 \in RatesOf("v4")
    BY DEF Versions, RatesOf
<1>1. /\ IsState("v4", m) /\ m.accounts = p.accounts /\ m.status = p.status
      /\ m.good => p.good
    BY <1>0, AtMenuStep
<1> HIDE DEF m
<1>2. Effect("v4", m, r, Undefined(m)) /\ Effect("v4", m, r, m)
    BY <1>1, UndefinedEffect, KeptEffect
<1>3. Effect("v4", m, r, makecount_v4(m, r))
    BY <1>0, <1>1, MadeEffect DEF makecount_v4
<1>4. Effect("v4", m, r, inputmoney_v4(m, r))
    BY <1>0, <1>1, InputEffect DEF inputmoney_v4
<1>5. Effect("v4", m, r, outputmoney_v4(m, r))
    BY <1>0, <1>1, OutputEffect DEF outputmoney_v4
<1>6. Effect("v4", m, r, info_v4(m, r)) /\ Effect("v4", m, r, Quit(m))
    BY <1>0, <1>1, ShownEffect, QuitEffect DEF info_v4
<1>7. Effect("v4", m, r, main_v4(p, r))
    BY <1>2, <1>3, <1>4, <1>5, <1>6 DEF main_v4, m
<1> QED
    BY <1>1, <1>7, EffectBefore

LEMMA Effect_v5 ==
    ASSUME BankAssumption, NEW p, IsState("v5", p), p.status # "undefined", NEW r \in Request
    PROVE  Effect("v5", p, r, main_v5(p, r))
<1> DEFINE m == AtMenu(p, r)
<1>0. "v5" \in Versions /\ 0 \in RatesOf("v5")
    BY DEF Versions, RatesOf
<1>1. /\ IsState("v5", m) /\ m.accounts = p.accounts /\ m.status = p.status
      /\ m.good => p.good
    BY <1>0, AtMenuStep
<1> HIDE DEF m
<1>2. Effect("v5", m, r, Undefined(m)) /\ Effect("v5", m, r, m)
    BY <1>1, UndefinedEffect, KeptEffect
<1>3. Effect("v5", m, r, makecount_v5(m, r))
    BY <1>0, <1>1, MadeEffect DEF makecount_v5
<1>4. Effect("v5", m, r, inputmoney_v5(m, r))
    BY <1>0, <1>1, InputEffect DEF inputmoney_v5
<1>5. Effect("v5", m, r, outputmoney_v5(m, r))
    BY <1>0, <1>1, OutputEffect DEF outputmoney_v5
<1>6. Effect("v5", m, r, info_v5(m, r)) /\ Effect("v5", m, r, Quit(m))
    BY <1>0, <1>1, ShownEffect, QuitEffect DEF info_v5
<1>7. Effect("v5", m, r, main_v5(p, r))
    BY <1>2, <1>3, <1>4, <1>5, <1>6 DEF main_v5, m
<1> QED
    BY <1>1, <1>7, EffectBefore

\* makecount of version 6 reads more before and after the account is made.
LEMMA MakeCountEffect ==
    ASSUME BankAssumption, NEW m, IsState("v6", m), NEW r \in Request
    PROVE  Effect("v6", m, r, makecount_v6(m, r))
<1> DEFINE b == [m EXCEPT !.good = @ /\ IsNumber(r.plan.kind)]
           q == Made(b, r, RateOf(r.plan))
           t == makecount_v6(m, r)
<1>0. "v6" \in Versions /\ RateOf(r.plan) \in RatesOf("v6")
    BY RequestType DEF Versions, RatesOf
<1>1. IsState("v6", b) /\ b.accounts = m.accounts /\ b.status = m.status /\ (b.good => m.good)
    BY DEF IsState
<1> HIDE DEF b
<1>2. Effect("v6", b, r, q)
    BY <1>0, <1>1, MadeEffect
<1>3. Effect("v6", m, r, q)
    BY <1>1, <1>2, EffectBefore
<1>4. IsState("v6", q)
    BY <1>2 DEF Effect
<1>5. t = Undefined(q) \/ \E good \in BOOLEAN : t = [q EXCEPT !.good = @ /\ good]
    BY DEF makecount_v6, b
<1> SUFFICES Effect("v6", m, r, t)
    OBVIOUS
<1> HIDE DEF q, t
<1>6. CASE t = Undefined(q)
    <2>1. IsState("v6", t) /\ t.status = "undefined" /\ t.good = q.good
        BY <1>4, <1>6 DEF Undefined, IsState
    <2> QED
        BY <1>3, <2>1 DEF Effect, IsDefined
<1>7. CASE \E good \in BOOLEAN : t = [q EXCEPT !.good = @ /\ good]
    <2>1. /\ IsState("v6", t) /\ t.accounts = q.accounts /\ t.status = q.status
          /\ t.good => q.good
        BY <1>4, <1>7 DEF IsState
    <2> QED
        BY <1>3, <2>1 DEF Effect, IsDefined
<1> QED
    BY <1>5, <1>6, <1>7

LEMMA Effect_v6 ==
    ASSUME BankAssumption, NEW p, IsState("v6", p), p.status # "undefined", NEW r \in Request
    PROVE  Effect("v6", p, r, main_v6(p, r))
<1> DEFINE m == AtMenu(p, r)
<1>0. "v6" \in Versions
    BY DEF Versions
<1>1. /\ IsState("v6", m) /\ m.accounts = p.accounts /\ m.status = p.status
      /\ m.good => p.good
    BY <1>0, AtMenuStep
<1> HIDE DEF m
<1>2. Effect("v6", m, r, Undefined(m)) /\ Effect("v6", m, r, m)
    BY <1>1, UndefinedEffect, KeptEffect
<1>3. Effect("v6", m, r, makecount_v6(m, r))
    BY <1>1, MakeCountEffect
<1>4. Effect("v6", m, r, inputmoney_v6(m, r))
    BY <1>0, <1>1, AddMoneyEffect DEF inputmoney_v6
<1>5. Effect("v6", m, r, outputmoney_v6(m, r))
    BY <1>0, <1>1, OutputEffect DEF outputmoney_v6
<1>6. Effect("v6", m, r, info_v6(m, r)) /\ Effect("v6", m, r, Quit(m))
    BY <1>0, <1>1, ShownEffect, QuitEffect DEF info_v6
<1>7. Effect("v6", m, r, main_v6(p, r))
    BY <1>2, <1>3, <1>4, <1>5, <1>6 DEF main_v6, m
<1> QED
    BY <1>1, <1>7, EffectBefore

-----------------------------------------------------------------------------
(***************************************************************************)
(* Steps of all versions.                                                  *)
(***************************************************************************)
BankInv == bank = [v \in Versions |-> bank[v]] /\ \A v \in Versions : IsState(v, bank[v])

\* A version stands still, or takes a request.
Turn(v) ==
    \/ bank'[v] = bank[v]
    \/ /\ Running(bank[v])
       /\ \E r \in Request : Effect(v, bank[v], r, bank'[v])

LEMMA ProgramEffect ==
    ASSUME BankAssumption, NEW v \in Versions, NEW p, IsState(v, p), Running(p), NEW r \in Request
    PROVE  Effect(v, p, r, Program(v, p, r))
<1>1. p.status # "undefined"
    BY DEF Running
<1> QED
    BY <1>1, Effect_v1, Effect_v2, Effect_v3, Effect_v4, Effect_v5, Effect_v6
    DEF Program, Versions

LEMMA Turns ==
    ASSUME BankAssumption, BankInv, [BankNext]_<<bank, asked>>
    PROVE  BankInv' /\ \A v \in Versions : Turn(v)
<1>1. ASSUME NEW r \in Request, NEW who \in SUBSET Versions,
             \A v \in who : Running(bank[v]),
             bank' = [v \in Versions |-> IF v \in who THEN Program(v, bank[v], r) ELSE bank[v]]
      PROVE  BankInv' /\ \A v \in Versions : Turn(v)
    <2>1. \A v \in Versions : Turn(v)
        BY <1>1, ProgramEffect DEF BankInv, Turn
    <2>2. \A v \in Versions : IsState(v, bank'[v])
        BY <1>1, ProgramEffect DEF BankInv, Effect
    <2>3. bank' = [v \in Versions |-> bank'[v]]
        BY <1>1
    <2> QED
        BY <2>1, <2>2, <2>3 DEF BankInv
<1>2. CASE \E r \in Request : Type(r)
    <2>1. PICK r \in Request : Type(r)
        BY <1>2
    <2> DEFINE who == {v \in Versions : Running(bank[v])}
    <2>2. bank' = [v \in Versions |-> IF v \in who THEN Program(v, bank[v], r) ELSE bank[v]]
        BY <2>1 DEF Type
    <2> HIDE DEF who
    <2>3. who \in SUBSET Versions /\ \A v \in who : Running(bank[v])
        BY DEF who
    <2> QED
        BY <1>1, <2>2, <2>3
<1>3. CASE RunOn
    <2> DEFINE who == {v \in Versions : Running(bank[v]) /\ ~bank[v].good}
    <2>1. bank' = [v \in Versions |->
                     IF v \in who THEN Program(v, bank[v], Nothing) ELSE bank[v]]
        BY <1>3 DEF RunOn
    <2> HIDE DEF who
    <2>2. who \in SUBSET Versions /\ \A v \in who : Running(bank[v])
        BY DEF who
    <2> QED
        BY <1>1, <2>1, <2>2, NothingType
<1>4. CASE UNCHANGED <<bank, asked>>
    BY <1>4 DEF BankInv, Turn
<1> QED
    BY <1>2, <1>3, <1>4 DEF BankNext, Finished

LEMMA BankStarts ==
    ASSUME BankAssumption, BankInit
    PROVE  BankInv
<1>1. \A v \in Versions : IsState(v, Started)
    BY DEF IsState, Started, Accounts
<1> QED
    BY <1>1 DEF BankInit, BankInv

(***************************************************************************)
(* Every version keeps its state well-formed.                              *)
(***************************************************************************)
LEMMA BankInvariant == BankSpec => []BankInv
<1>1. BankInit => BankInv
    BY BankAssumption, BankStarts
<1>2. BankInv /\ [BankNext]_<<bank, asked>> => BankInv'
    BY BankAssumption, Turns
<1> QED
    BY <1>1, <1>2, PTL DEF BankSpec

-----------------------------------------------------------------------------
(***************************************************************************)
(* What an effect leaves alone.                                            *)
(***************************************************************************)

LEMMA SecondStays ==
    ASSUME NEW v, NEW s \in Accounts(v), NEW r, NEW t,
           t = s \/ Opens(v, s, r, t) \/ Moves(v, s, r, t),
           NEW k \in DOMAIN s, ~IsFirst(s, k, s[k].id)
    PROVE  t[k] = s[k]
<1>1. CASE Opens(v, s, r, t)
    <2> DEFINE T == [id : Nat \cup {Word}, balance : Int, rate : RatesOf(v)]
    <2>1. PICK a : t = Append(s, a)
        BY <1>1 DEF Opens
    <2>2. s \in Seq(T)
        BY DEF Accounts
    <2> HIDE DEF T
    <2> QED
        BY <2>1, <2>2
<1>2. CASE Moves(v, s, r, t)
    <2> DEFINE f == First(s, r.id)
    <2>1. IsFirst(s, f, r.id)
        BY <1>2, FirstIsFirst DEF Moves, Accounts
    <2>2. f # k
        BY <2>1 DEF IsFirst
    <2>3. PICK n : t = Rebalanced(s, f, n)
        BY <1>2 DEF Moves
    <2> HIDE DEF f
    <2> QED
        BY <2>2, <2>3 DEF Rebalanced
<1> QED
    BY <1>1, <1>2

(***************************************************************************)
(* For any input, whatever the number of accounts: the account that was    *)
(* given a number already in use is never paid into and never taken from,  *)
(* in all six versions.                                                    *)
(***************************************************************************)
THEOREM SecondAccountIsLost == BankSpec => SecondNeverMoves
<1> DEFINE A == bank' # bank =>
         \A v \in Versions : \A k \in DOMAIN bank[v].accounts :
           ~IsFirst(bank[v].accounts, k, bank[v].accounts[k].id) /\ Defined(v)'
             => bank'[v].accounts[k] = bank[v].accounts[k]
<1>1. BankInv /\ [BankNext]_<<bank, asked>> => A
    <2> SUFFICES ASSUME BankInv, [BankNext]_<<bank, asked>>, NEW v \in Versions,
                        NEW k \in DOMAIN bank[v].accounts,
                        ~IsFirst(bank[v].accounts, k, bank[v].accounts[k].id),
                        Defined(v)'
                 PROVE  bank'[v].accounts[k] = bank[v].accounts[k]
        OBVIOUS
    <2>1. Turn(v)
        BY BankAssumption, Turns
    <2>2. bank[v].accounts \in Accounts(v)
        BY DEF BankInv, IsState
    <2>3. CASE bank'[v] = bank[v]
        BY <2>3
    <2>4. CASE \E r \in Request : Effect(v, bank[v], r, bank'[v])
        <3>1. PICK r \in Request : Effect(v, bank[v], r, bank'[v])
            BY <2>4
        <3>2. IsDefined(bank'[v])
            BY DEF Defined, IsDefined
        <3> QED
            BY <2>2, <3>1, <3>2, SecondStays DEF Effect
    <2> QED
        BY <2>1, <2>3, <2>4 DEF Turn
<1>2. BankSpec => [][A]_<<bank, asked>>
    BY <1>1, BankInvariant, PTL DEF BankSpec
<1> QED
    BY <1>2 DEF SecondNeverMoves

-----------------------------------------------------------------------------
(***************************************************************************)
(* The ledger.                                                             *)
(***************************************************************************)

\* A set of natural numbers has a smallest one.
LEMMA Smallest ==
    ASSUME NEW T, T \subseteq Nat, T # {}
    PROVE  \E x \in T : \A y \in T : x <= y
<1> DEFINE R == {ss \in Nat \X Nat : ss[1] < ss[2]}
<1>1. IsWellFoundedOn(R, Nat)
    BY NatLessThanWellFounded DEF OpToRel
<1> HIDE DEF R
<1>2. PICK x \in T : \A y \in T : ~(<<y, x>> \in R)
    BY <1>1, WFMin
<1>3. ASSUME NEW y \in T PROVE x <= y
    <2>1. ~(y < x)
        BY <1>2 DEF R
    <2> QED
        BY <2>1
<1> QED
    BY <1>3

\* Where a number is used, it is used first.
LEMMA UsedIsKnown ==
    ASSUME NEW T, NEW s \in Seq(T), NEW j \in DOMAIN s
    PROVE  Known(s, s[j].id)
<1> DEFINE U == {k \in DOMAIN s : s[k].id = s[j].id}
<1>0. U \subseteq Nat /\ j \in U
    OBVIOUS
<1> HIDE DEF U
<1>1. PICK k \in U : \A i \in U : k <= i
    BY <1>0, Smallest
<1>2. IsFirst(s, k, s[j].id)
    BY <1>1 DEF IsFirst, U
<1> QED
    BY <1>2 DEF Known, U

ViewOf(s) ==
    [n \in Ids \cup {Word} |-> IF Known(s, n) THEN s[First(s, n)].balance ELSE None]

\* One account more is seen if its number is new.
LEMMA ViewAppend ==
    ASSUME NEW T, NEW s \in Seq(T), NEW a \in T, a.id \in Keys
    PROVE  ViewOf(Append(s, a)) = IF Known(s, a.id) THEN ViewOf(s)
                                  ELSE [ViewOf(s) EXCEPT ![a.id] = a.balance]
<1> DEFINE t == Append(s, a)
<1>1. t \in Seq(T) /\ DOMAIN t = 1..(Len(s) + 1) /\ t[Len(s) + 1] = a
      /\ \A k \in DOMAIN s : k \in 1..Len(s) /\ t[k] = s[k]
    OBVIOUS
<1>2. DOMAIN s = 1..Len(s) /\ Len(s) \in Nat
    OBVIOUS
<1> HIDE DEF t
<1>3. ASSUME NEW n, Known(s, n)
      PROVE  Known(t, n) /\ t[First(t, n)] = s[First(s, n)]
    <2> DEFINE k == First(s, n)
    <2>1. k \in DOMAIN s /\ IsFirst(s, k, n)
        BY <1>3, FirstIsFirst
    <2> HIDE DEF k
    <2>2. k \in DOMAIN t /\ IsFirst(t, k, n)
        BY <1>1, <1>2, <2>1 DEF IsFirst
    <2>3. Known(t, n) /\ First(t, n) = k
        BY <1>1, <2>2, FirstUnique
    <2> QED
        BY <1>1, <2>1, <2>3 DEF k
<1>4. ASSUME NEW n, ~Known(s, n), n # a.id
      PROVE  ~Known(t, n)
    <2> SUFFICES ASSUME NEW j \in DOMAIN t, IsFirst(t, j, n) PROVE FALSE
        BY DEF Known
    <2>1. j # Len(s) + 1
        BY <1>1, <1>4 DEF IsFirst
    <2>2. j \in DOMAIN s /\ IsFirst(s, j, n)
        BY <1>1, <1>2, <2>1 DEF IsFirst
    <2> QED
        BY <1>4, <2>2 DEF Known
<1>5. ASSUME ~Known(s, a.id)
      PROVE  Known(t, a.id) /\ t[First(t, a.id)] = a
    <2>1. \A j \in DOMAIN s : s[j].id # a.id
        BY <1>5, UsedIsKnown
    <2>2. Len(s) + 1 \in DOMAIN t /\ IsFirst(t, Len(s) + 1, a.id)
        BY <1>1, <1>2, <2>1 DEF IsFirst
    <2>3. Known(t, a.id) /\ First(t, a.id) = Len(s) + 1
        BY <1>1, <2>2, FirstUnique
    <2> QED
        BY <1>1, <2>3
<1>6. CASE Known(s, a.id)
    <2>1. \A n \in Keys : ViewOf(t)[n] = ViewOf(s)[n]
        BY <1>3, <1>4, <1>6 DEF ViewOf, Keys
    <2> QED
        BY <1>6, <2>1 DEF ViewOf, Keys, t
<1>7. CASE ~Known(s, a.id)
    <2>1. \A n \in Keys : ViewOf(t)[n] = IF n = a.id THEN a.balance ELSE ViewOf(s)[n]
        BY <1>3, <1>4, <1>5, <1>7 DEF ViewOf, Keys
    <2>2. ViewOf(t) = [ViewOf(s) EXCEPT ![a.id] = a.balance]
        BY <2>1 DEF ViewOf, Keys
    <2> QED
        BY <1>7, <2>2 DEF t
<1> QED
    BY <1>6, <1>7

\* Another balance of the first account with a number is seen under it.
LEMMA ViewRebalanced ==
    ASSUME NEW v, NEW s \in Accounts(v), NEW id \in Keys, Known(s, id), NEW b \in Int,
           BankAssumption
    PROVE  /\ ViewOf(Rebalanced(s, First(s, id), b)) = [ViewOf(s) EXCEPT ![id] = b]
           /\ ViewOf(s)[id] = s[First(s, id)].balance
<1> DEFINE f == First(s, id)
           t == Rebalanced(s, f, b)
           T == [id : Nat \cup {Word}, balance : Int, rate : RatesOf(v)]
<1>1. s \in Seq(T)
    BY DEF Accounts
<1>2. f \in DOMAIN s /\ IsFirst(s, f, id)
    BY <1>1, FirstIsFirst
<1>3. s[f] \in T
    BY AccountType
<1> HIDE DEF f
<1>4. DOMAIN t = DOMAIN s /\ t[f] = [s[f] EXCEPT !.balance = b]
      /\ \A k \in DOMAIN s \ {f} : t[k] = s[k]
    BY <1>2 DEF Rebalanced
<1>5. t[f].id = s[f].id /\ t[f].balance = b /\ t[f] \in T
    BY <1>3, <1>4
<1>6. \A k \in DOMAIN s : t[k].id = s[k].id
    BY <1>4, <1>5
<1>7. t \in Seq(T)
    <2> DEFINE e == [s[f] EXCEPT !.balance = b]
    <2>1. e \in T
        BY <1>4, <1>5
    <2> HIDE DEF T, e
    <2>2. [s EXCEPT ![f] = e] \in Seq(T)
        BY <1>1, <1>2, <2>1
    <2> QED
        BY <2>2 DEF Rebalanced, e
<1> HIDE DEF t, T
<1>8. \A k \in DOMAIN s : \A n : IsFirst(t, k, n) <=> IsFirst(s, k, n)
    <2> SUFFICES ASSUME NEW k \in DOMAIN s, NEW n
                 PROVE  IsFirst(t, k, n) <=> IsFirst(s, k, n)
        OBVIOUS
    <2>1. 1..(k - 1) \subseteq DOMAIN s
        BY <1>1
    <2> QED
        BY <1>6, <2>1 DEF IsFirst
<1>9. ASSUME NEW n, Known(s, n)
      PROVE  Known(t, n) /\ First(t, n) = First(s, n)
    BY <1>1, <1>4, <1>7, <1>8, <1>9, FirstIsFirst, FirstUnique
<1>10. ASSUME NEW n, ~Known(s, n) PROVE ~Known(t, n)
    BY <1>4, <1>8, <1>10 DEF Known
<1>11. ASSUME NEW n, Known(s, n), n # id PROVE First(s, n) # f
    BY <1>1, <1>2, <1>11, FirstIsFirst DEF IsFirst
<1>12. ASSUME NEW n \in Keys
       PROVE  ViewOf(t)[n] = IF n = id THEN b ELSE ViewOf(s)[n]
    <2>1. CASE n = id
        BY <1>5, <1>9, <2>1 DEF ViewOf, Keys, f
    <2>2. CASE n # id /\ Known(s, n)
        <3>1. First(s, n) \in DOMAIN s \ {f}
            BY <1>1, <1>11, <2>2, FirstIsFirst
        <3> QED
            BY <1>4, <1>9, <2>2, <3>1 DEF ViewOf, Keys
    <2>3. CASE n # id /\ ~Known(s, n)
        BY <1>10, <2>3 DEF ViewOf, Keys
    <2> QED
        BY <2>1, <2>2, <2>3
<1>13. ViewOf(t) = [ViewOf(s) EXCEPT ![id] = b]
    BY <1>12 DEF ViewOf, Keys
<1> QED
    BY <1>13 DEF ViewOf, Keys, t, f

\* A step of a version is a step of its ledger, or none.
LEMMA LedgerTurn ==
    ASSUME BankAssumption, BankInv, NEW v \in Versions, Turn(v)
    PROVE  [LedgerOf(v)!LedgerNext]_<<View(v), Defined(v)>>
<1> DEFINE s == bank[v].accounts
           t == bank'[v].accounts
<1>1. /\ View(v) = ViewOf(s) /\ View(v)' = ViewOf(t)
      /\ Defined(v) = IsDefined(bank[v]) /\ Defined(v)' = IsDefined(bank'[v])
    BY DEF View, ViewOf, Defined, IsDefined
<1>2. s \in Accounts(v)
    BY DEF BankInv, IsState
<1>3. CASE bank'[v] = bank[v]
    BY <1>1, <1>3
<1>4. CASE \E r \in Request : Effect(v, bank[v], r, bank'[v])
    <2>1. PICK r \in Request : Effect(v, bank[v], r, bank'[v])
        BY <1>4
    <2>2. CASE ~IsDefined(bank[v])
        <3>1. ~IsDefined(bank'[v])
            BY <2>1, <2>2 DEF Effect, IsDefined
        <3> QED
            BY <1>1, <2>2, <3>1 DEF LedgerOf!LedgerNext, LedgerOf!Garbage
    <2>3. CASE IsDefined(bank[v]) /\ ~IsDefined(bank'[v])
        BY <1>1, <2>3 DEF LedgerOf!LedgerNext, LedgerOf!Fail
    <2>4. CASE IsDefined(bank[v]) /\ IsDefined(bank'[v])
        <3>1. CASE t = s
            BY <1>1, <2>4, <3>1
        <3>2. CASE Opens(v, s, r, t)
            <4> DEFINE T == [id : Nat \cup {Word}, balance : Int, rate : RatesOf(v)]
            <4>1. PICK rate \in RatesOf(v) :
                    t = Append(s, [id |-> r.id, balance |-> r.money, rate |-> rate])
                BY <3>2 DEF Opens
            <4> DEFINE a == [id |-> r.id, balance |-> r.money, rate |-> rate]
            <4>2. r.id \in Keys /\ r.money \in Amounts
                BY <3>2 DEF Opens
            <4>a. a \in T /\ s \in Seq(T) /\ a.id = r.id /\ a.balance = r.money
                BY <1>2, <4>2 DEF Keys, BankAssumption, Accounts
            <4>b. t = Append(s, a)
                BY <4>1
            <4> HIDE DEF T, a
            <4>3. ViewOf(t) = IF Known(s, r.id) THEN ViewOf(s)
                              ELSE [ViewOf(s) EXCEPT ![r.id] = r.money]
                BY <4>2, <4>a, <4>b, ViewAppend
            <4>4. CASE Known(s, r.id)
                BY <1>1, <2>4, <4>3, <4>4
            <4>5. CASE ~Known(s, r.id)
                <5>1. View(v)[r.id] = None
                    BY <1>1, <4>2, <4>5 DEF ViewOf, Keys
                <5>2. LedgerOf(v)!Open(r.id)
                    BY <1>1, <2>4, <4>2, <4>3, <4>5, <5>1 DEF LedgerOf!Open
                <5> QED
                    BY <4>2, <5>2 DEF LedgerOf!LedgerNext, Keys
            <4> QED
                BY <4>4, <4>5
        <3>3. CASE Moves(v, s, r, t)
            <4> DEFINE f == First(s, r.id)
            <4>1. r.id \in Keys /\ r.money \in Amounts /\ Known(s, r.id)
                BY <3>3 DEF Moves
            <4>2. PICK n \in Int : t = Rebalanced(s, f, n) /\ Booked(v, s[f].balance, r.money, n)
                BY <3>3 DEF Moves
            <4>3. s[f].balance \in Int
                BY <1>2, <4>1, AccountType
            <4>4. ViewOf(t) = [ViewOf(s) EXCEPT ![r.id] = n] /\ ViewOf(s)[r.id] = s[f].balance
                BY <1>2, <4>1, <4>2, ViewRebalanced
            <4>5. View(v)[r.id] = s[f].balance /\ View(v)'[r.id] = n
                BY <1>1, <4>1, <4>4 DEF ViewOf, Keys
            <4>6. View(v)[r.id] # None
                BY <4>3, <4>5 DEF BankAssumption
            <4>7. \/ View(v)'[r.id] = View(v)[r.id] - r.money
                  \/ \E rate \in RatesOf(v) :
                       LedgerOf(v)!IsInterest(r.money, rate, View(v)'[r.id] - View(v)[r.id] - r.money)
                <5>1. CASE n = s[f].balance - r.money
                    BY <4>5, <5>1
                <5>2. CASE \E rate \in RatesOf(v), extra \in Int :
                              n = s[f].balance + r.money + extra /\ Earned(r.money, rate, extra)
                    <6>1. PICK rate \in RatesOf(v), extra \in Int :
                              n = s[f].balance + r.money + extra /\ Earned(r.money, rate, extra)
                        BY <5>2
                    <6>2. r.money \in Int
                        BY <4>1 DEF BankAssumption
                    <6>3. n - s[f].balance - r.money = extra
                        BY <4>3, <6>1, <6>2
                    <6>4. LedgerOf(v)!IsInterest(r.money, rate, extra)
                        BY <6>1 DEF LedgerOf!IsInterest, Earned
                    <6> QED
                        BY <4>5, <6>3, <6>4
                <5> QED
                    BY <4>2, <5>1, <5>2 DEF Booked
            <4>8. View(v)' = [View(v) EXCEPT ![r.id] = View(v)'[r.id]]
                BY <1>1, <4>4, <4>5
            <4>9. LedgerOf(v)!Move(r.id)
                BY <1>1, <2>4, <4>1, <4>6, <4>7, <4>8 DEF LedgerOf!Move, RatesOf
            <4> QED
                BY <4>1, <4>9 DEF LedgerOf!LedgerNext, Keys
        <3> QED
            BY <2>1, <2>4, <3>1, <3>2, <3>3 DEF Effect
    <2> QED
        BY <2>2, <2>3, <2>4
<1> QED
    BY <1>3, <1>4 DEF Turn

(***************************************************************************)
(* For any input, every version keeps a ledger: an account per number,     *)
(* opened once, and changed one at a time by what was typed and by         *)
(* interest, until the input cannot be read or a sum leaves the int.       *)
(***************************************************************************)
THEOREM VersionsKeepLedgers == BankSpec => LedgersKept
<1> DEFINE A == \/ bank' = bank
                \/ \A v \in Versions :
                     [LedgerOf(v)!LedgerNext]_<<View(v), Defined(v)>>
<1>1. BankInit => \A v \in Versions : LedgerOf(v)!LedgerInit
    <2> SUFFICES ASSUME BankInit, NEW v \in Versions PROVE LedgerOf(v)!LedgerInit
        OBVIOUS
    <2>1. bank[v] = Started
        BY DEF BankInit
    <2>2. Defined(v) = TRUE
        BY <2>1 DEF Defined, Started
    <2>3. View(v) = [n \in Ids \cup {Word} |-> None]
        BY <2>1 DEF View, Started, Known
    <2> QED
        BY <2>2, <2>3 DEF LedgerOf!LedgerInit
<1>2. BankInv /\ [BankNext]_<<bank, asked>> => A
    BY BankAssumption, Turns, LedgerTurn
<1>3. BankSpec => [][A]_<<bank, asked>>
    BY <1>2, BankInvariant, PTL DEF BankSpec
<1>4. BankSpec => \A v \in Versions : LedgerOf(v)!LedgerInit
    BY <1>1 DEF BankSpec
<1> QED
    BY <1>3, <1>4 DEF LedgersKept

-----------------------------------------------------------------------------
(***************************************************************************)
(* The rewritings agree.  What a readable request does to the accounts is  *)
(* the same in all versions (Does), except for the rate of an account and  *)
(* the interest on what is paid in.                                        *)
(***************************************************************************)
ReadableRequest(r) ==
    /\ r.choice \in 0..5
    /\ r.choice \in {1, 2, 3} => r.id \in Ids /\ r.money \in Amounts
    /\ r.choice = 4 => r.id # End

\* The two sums are added to the account with the number, or leave the int.
Posted(s, id, money, extra, q) ==
    LET k == First(s, id)
        n == s[k].balance + money
    IN  /\ ~Known(s, id) => q.accounts = s /\ q.status = "running"
        /\ Known(s, id) /\ IsInt(n) /\ IsInt(extra) /\ IsInt(n + extra) =>
             q.accounts = Rebalanced(s, k, n + extra) /\ q.status = "running"
        /\ Known(s, id) /\ ~(IsInt(n) /\ IsInt(extra) /\ IsInt(n + extra)) => q.status = "undefined"

Opened(s, r, rate, q) ==
    /\ Len(s) = Capacity => q.status = "undefined"
    /\ Len(s) # Capacity =>
         /\ q.status = "running"
         /\ q.accounts = Append(s, [id |-> r.id, balance |-> r.money, rate |-> rate])

Does(s, r, rate, extra, q) ==
    /\ q.good
    /\ r.choice = 1 => Opened(s, r, rate, q)
    /\ r.choice = 2 => Posted(s, r.id, r.money, extra, q)
    /\ r.choice = 3 => Posted(s, r.id, -r.money, 0, q)
    /\ r.choice \in {0, 4} => q.accounts = s /\ q.status = "running"
    /\ r.choice = 5 => q.accounts = s /\ q.status = "ended"

Lines(s) == {<<k, s[k].balance>> : k \in DOMAIN s}

\* What the operations on the array do, field by field.
LEMMA AppendedIs ==
    ASSUME NEW v, NEW p, IsState(v, p), p.status = "running", p.good, NEW r, NEW rate
    PROVE  LET q == Appended(p, r.id, r.money, rate)
           IN  Opened(p.accounts, r, rate, q) /\ q.good /\ q.screen = p.screen
<1>1. CASE Len(p.accounts) = Capacity
    BY <1>1 DEF Appended, Undefined, IsState, Opened
<1>2. CASE Len(p.accounts) # Capacity
    BY <1>2 DEF Appended, IsState, Opened
<1> QED BY <1>1, <1>2

LEMMA ChangedIs ==
    ASSUME BankAssumption, NEW v, NEW p, IsState(v, p), p.status = "running", p.good,
           NEW id \in Int, NEW money \in Int, NEW extra \in Int
    PROVE  LET q == Changed(p, id, money, extra)
           IN  Posted(p.accounts, id, money, extra, q) /\ q.good /\ q.screen = p.screen
<1> DEFINE s == p.accounts
           k == First(s, id)
           n == s[k].balance + money
           q == Changed(p, id, money, extra)
<1>1. id # Unset /\ money # Unset
    BY DEF BankAssumption
<1>2. CASE ~Known(s, id)
    <2>1. q = p
        BY <1>1, <1>2 DEF Changed
    <2> QED BY <1>2, <2>1 DEF Posted
<1>3. CASE Known(s, id) /\ IsInt(n) /\ IsInt(extra) /\ IsInt(n + extra)
    <2>1. q = [p EXCEPT !.accounts[k].balance = n + extra]
        BY <1>1, <1>3 DEF Changed
    <2>2. q.accounts = Rebalanced(s, k, n + extra)
        BY <2>1 DEF IsState, Rebalanced
    <2>3. q.status = "running" /\ q.good /\ q.screen = p.screen
        BY <2>1 DEF IsState
    <2> QED BY <1>3, <2>2, <2>3 DEF Posted
<1>4. CASE Known(s, id) /\ ~(IsInt(n) /\ IsInt(extra) /\ IsInt(n + extra))
    <2>1. q = Undefined(p)
        BY <1>1, <1>4 DEF Changed
    <2>2. q.status = "undefined" /\ q.good /\ q.screen = p.screen
        BY <2>1 DEF IsState, Undefined
    <2> QED BY <1>4, <2>2 DEF Posted
<1> QED BY <1>2, <1>3, <1>4

LEMMA ShownIs ==
    ASSUME NEW v, NEW p, IsState(v, p), NEW r, NEW listed
    PROVE  LET q == Shown(p, r, listed)
           IN  /\ q.accounts = p.accounts /\ q.status = p.status
               /\ q.good = (p.good /\ r.id # End)
               /\ q.screen = {<<k, p.accounts[k].balance>> : k \in listed}
<1> DEFINE screen == {<<k, p.accounts[k].balance>> : k \in listed}
<1> HIDE DEF screen
<1>1. Shown(p, r, listed)
        \in [accounts : {p.accounts}, choice : {p.choice}, screen : {screen},
             status : {p.status}, good : {p.good /\ r.id # End}]
    BY DEF Shown, IsState, screen
<1> QED BY <1>1 DEF screen

LEMMA QuitIs ==
    ASSUME NEW v, NEW p, IsState(v, p)
    PROVE  /\ Quit(p).accounts = p.accounts /\ Quit(p).status = "ended"
           /\ Quit(p).good = p.good /\ Quit(p).screen = p.screen
BY DEF Quit, IsState

\* Reading what can be read.
LEMMA MenuRead ==
    ASSUME BankAssumption, NEW v \in Versions, NEW p, IsState(v, p), p.good,
           NEW r \in Request, r.choice \in 0..5
    PROVE  LET m == AtMenu(p, r)
           IN  /\ IsState(v, m) /\ m.accounts = p.accounts /\ m.status = p.status
               /\ m.good /\ m.choice = r.choice /\ m.screen = {}
<1> DEFINE m == AtMenu(p, r)
<1>1. m \in [accounts : {p.accounts}, good : {p.good /\ IsNumber(r.choice)}, screen : {{}},
              choice : {Extracted(p.good, r.choice, p.choice)}, status : {p.status}]
    BY DEF AtMenu, IsState
<1>2. IsNumber(r.choice)
    BY DEF IsNumber, BankAssumption
<1>3. m.good /\ m.screen = {}
    BY <1>1, <1>2
<1> QED BY <1>3, AtMenuStep

LEMMA NumbersRead ==
    ASSUME BankAssumption, NEW v, NEW m, IsState(v, m), m.good,
           NEW r \in Request, r.id \in Ids, r.money \in Amounts
    PROVE  /\ AfterBoth(m, r).good /\ AfterLast(m, r).good
           /\ AfterBoth(m, r).screen = m.screen /\ AfterLast(m, r).screen = m.screen
           /\ ReadId(m, r) = r.id /\ ReadString(m, r) = r.id
           /\ ReadMoney(m, r) = r.money /\ ReadLast(m, r) = r.money
           /\ r.id \in Int /\ r.money \in Int /\ r.id # End /\ r.money # End
<1>1. r.id \in Int /\ r.money \in Int
    <2>1. \A id \in Ids : id \in Int
        BY DEF BankAssumption
    <2>2. \A money \in Amounts : money \in Int
        BY DEF BankAssumption
    <2> QED BY <2>1, <2>2
<1>2. /\ r.id # End /\ r.money # End /\ r.id # Word /\ r.money # Word
      /\ IsNumber(r.id) /\ IsNumber(r.money)
    BY <1>1 DEF BankAssumption, IsNumber
<1>3. AfterBoth(m, r).good /\ AfterBoth(m, r).screen = m.screen
    BY <1>2 DEF AfterBoth, IsState
<1>4. AfterLast(m, r).good /\ AfterLast(m, r).screen = m.screen
    BY <1>2 DEF AfterLast, IsState
<1>5. ReadId(m, r) = r.id /\ ReadString(m, r) = r.id
    BY <1>2 DEF ReadId, ReadString, Extracted
<1>6. ReadMoney(m, r) = r.money /\ ReadLast(m, r) = r.money
    BY <1>2 DEF ReadMoney, ReadLast, Extracted
<1> QED BY <1>1, <1>2, <1>3, <1>4, <1>5, <1>6

\* Version 2 stays defined only if everything can be read, and does it then.
LEMMA Does_v2 ==
    ASSUME BankAssumption, NEW p, IsState("v2", p), Running(p), p.good, NEW r \in Request,
           IsDefined(main_v2(p, r))
    PROVE  /\ ReadableRequest(r) /\ Does(p.accounts, r, 0, 0, main_v2(p, r))
           /\ main_v2(p, r).screen = IF r.choice = 4 THEN Lines(p.accounts) ELSE {}
<1> DEFINE m == AtMenu(p, r)
           a == AfterBoth(m, r)
           q == main_v2(p, r)
<1>0. "v2" \in Versions /\ 0 \in RatesOf("v2")
    BY DEF Versions, RatesOf
<1>1. IsState("v2", m) /\ m.accounts = p.accounts /\ m.status = "running"
    BY <1>0, AtMenuStep DEF Running
<1>2. m.good
    <2> HIDE DEF m
    <2>1. \/ q = Undefined(m) \/ q = m \/ q = Quit(m)
          \/ q = makecount_v2(m, r) \/ q = inputmoney_v2(m, r)
          \/ q = outputmoney_v2(m, r) \/ q = info_v2(m, r)
        BY DEF main_v2, m
    <2>2. Undefined(m).good = m.good /\ Quit(m).good = m.good
        BY <1>1 DEF Undefined, Quit, IsState
    <2>3. makecount_v2(m, r).good => m.good
        BY <1>0, <1>1, MadeEffect DEF makecount_v2, Effect
    <2>4. inputmoney_v2(m, r).good => m.good
        BY <1>0, <1>1, InputEffect DEF inputmoney_v2, Effect
    <2>5. outputmoney_v2(m, r).good => m.good
        BY <1>0, <1>1, OutputEffect DEF outputmoney_v2, Effect
    <2>6. info_v2(m, r).good => m.good
        BY <1>0, <1>1, ShownEffect DEF info_v2, Effect
    <2> QED BY <2>1, <2>2, <2>3, <2>4, <2>5, <2>6 DEF IsDefined
<1>3. r.choice \in 0..5 /\ p.good
    <2>1. m \in [accounts : {p.accounts}, good : {p.good /\ IsNumber(r.choice)}, screen : {{}},
                  choice : {Extracted(p.good, r.choice, p.choice)}, status : {p.status}]
        BY DEF AtMenu, IsState
    <2> QED BY <1>2, <2>1, RequestType DEF IsNumber
<1>4. m.choice = r.choice /\ m.screen = {}
    BY <1>0, <1>3, MenuRead
<1> HIDE DEF m
<1>5. m.choice # Unset
    BY <1>3, <1>4 DEF BankAssumption
<1>6. /\ IsState("v2", a) /\ a.accounts = m.accounts /\ a.status = m.status
      /\ a.good => r.id \in Ids /\ r.money \in Amounts
    BY <1>0, <1>1, BothRead
<1>7. CASE r.choice = 0
    <2>1. q = m
        BY <1>4, <1>5, <1>7 DEF main_v2, m
    <2> QED BY <1>1, <1>2, <1>4, <1>7, <2>1 DEF ReadableRequest, Does
<1>8. CASE r.choice = 1
    <2>1. q = Made(m, r, 0)
        BY <1>4, <1>5, <1>8 DEF main_v2, makecount_v2, m
    <2>2. a.good
        <3>1. Undefined(a).status = "undefined"
            BY <1>6 DEF Undefined, IsState
        <3> QED BY <2>1, <3>1 DEF Made, IsDefined
    <2>3. q = Appended(m, r.id, r.money, 0)
        BY <2>1, <2>2 DEF Made
    <2>4. Opened(m.accounts, r, 0, q) /\ q.good /\ q.screen = m.screen
        BY <1>1, <1>2, <2>3, AppendedIs
    <2> QED BY <1>1, <1>4, <1>6, <1>8, <2>2, <2>4 DEF ReadableRequest, Does
<1>9. CASE r.choice \in {2, 3}
    <2> DEFINE money == IF r.choice = 2 THEN ReadMoney(m, r) ELSE Negative(ReadMoney(m, r))
    <2>1. q = Changed(a, ReadId(m, r), money, 0)
        BY <1>4, <1>5, <1>9 DEF main_v2, inputmoney_v2, outputmoney_v2, m
    <2>2. a.good
        <3>1. ReadMoney(m, r) \in Int \cup {Unset}
            BY <1>0, <1>1, BothRead
        <3>2. money \in Int \cup {Unset}
            BY <3>1 DEF Negative
        <3>3. PICK n \in Int \cup {Unset} : n = money
            BY <3>2
        <3>4. PICK b : b = a
            OBVIOUS
        <3>5. Changed(b, ReadId(m, r), n, 0).good = b.good
            BY <1>0, <1>6, <3>4, ChangedStep
        <3>6. q.good = a.good
            BY <2>1, <3>3, <3>4, <3>5
        <3> QED BY <3>6 DEF IsDefined
    <2>3. /\ a.screen = m.screen /\ ReadId(m, r) = r.id /\ ReadMoney(m, r) = r.money
          /\ r.id \in Int /\ r.money \in Int
        BY <1>1, <1>2, <1>6, <2>2, NumbersRead
    <2>4. money = (IF r.choice = 2 THEN r.money ELSE -r.money) /\ money \in Int
        BY <2>3 DEF Negative, BankAssumption
    <2> HIDE DEF a, money
    <2>5. Posted(a.accounts, r.id, money, 0, q) /\ q.good /\ q.screen = a.screen
        BY <1>1, <1>6, <2>1, <2>2, <2>3, <2>4, ChangedIs
    <2>6. Does(p.accounts, r, 0, 0, q)
        BY <1>1, <1>6, <1>9, <2>4, <2>5 DEF Does
    <2> QED BY <1>4, <1>6, <1>9, <2>2, <2>3, <2>5, <2>6 DEF ReadableRequest
<1>10. CASE r.choice = 4
    <2>1. q = Shown(m, r, DOMAIN m.accounts)
        BY <1>4, <1>5, <1>10 DEF main_v2, info_v2, m
    <2>2. /\ q.accounts = m.accounts /\ q.status = m.status /\ q.good = (m.good /\ r.id # End)
          /\ q.screen = Lines(m.accounts)
        BY <1>1, <2>1, ShownIs DEF Lines
    <2>3. q.good /\ r.id # End /\ q.screen = Lines(p.accounts)
        BY <1>1, <2>2 DEF IsDefined
    <2>4. Does(p.accounts, r, 0, 0, q)
        BY <1>1, <1>10, <2>2, <2>3 DEF Does
    <2> QED BY <1>10, <2>3, <2>4 DEF ReadableRequest
<1>11. CASE r.choice = 5
    <2>1. q = Quit(m)
        BY <1>4, <1>5, <1>11 DEF main_v2, m
    <2> QED BY <1>1, <1>2, <1>4, <1>11, <2>1, QuitIs DEF ReadableRequest, Does
<1> QED BY <1>3, <1>7, <1>8, <1>9, <1>10, <1>11

\* Version 1 does the same with what can be read.
LEMMA Does_v1 ==
    ASSUME BankAssumption, NEW p, IsState("v1", p), Running(p), p.good, NEW r \in Request,
           ReadableRequest(r)
    PROVE  /\ Does(p.accounts, r, 0, 0, main_v1(p, r))
           /\ main_v1(p, r).screen \subseteq IF r.choice = 4 THEN Lines(p.accounts) ELSE {}
<1> DEFINE m == AtMenu(p, r)
           a == AfterLast(m, r)
           q == main_v1(p, r)
<1>0. "v1" \in Versions /\ r.choice \in 0..5 /\ p.status = "running"
    BY DEF Versions, ReadableRequest, Running
<1>1. /\ IsState("v1", m) /\ m.accounts = p.accounts /\ m.status = "running"
      /\ m.good /\ m.choice = r.choice /\ m.screen = {}
    BY <1>0, MenuRead
<1> HIDE DEF m
<1>2. m.choice # Unset
    BY <1>0, <1>1 DEF BankAssumption
<1>3. ASSUME r.choice \in {1, 2, 3}
      PROVE  /\ IsState("v1", a) /\ a.accounts = p.accounts /\ a.status = "running"
             /\ a.good /\ a.screen = {}
             /\ ReadString(m, r) = r.id /\ ReadLast(m, r) = r.money
             /\ r.id \in Int /\ r.money \in Int /\ r.id # End /\ r.money # End
    BY <1>1, <1>3, LastRead, NumbersRead DEF ReadableRequest
<1>4. CASE r.choice = 0
    <2>1. q = m
        BY <1>1, <1>2, <1>4 DEF main_v1, m
    <2> QED BY <1>1, <1>4, <2>1 DEF Does
<1>5. CASE r.choice = 1
    <2>1. q = Appended(a, r.id, r.money, 0)
        BY <1>1, <1>2, <1>3, <1>5 DEF main_v1, makecount_v1, m
    <2> HIDE DEF a
    <2> DEFINE t == Appended(a, r.id, r.money, 0)
    <2>2. Opened(a.accounts, r, 0, t) /\ t.good /\ t.screen = a.screen
        <3>1. IsState("v1", a) /\ a.status = "running" /\ a.good
            BY <1>3, <1>5
        <3> QED BY <3>1, AppendedIs
    <2> HIDE DEF t
    <2>3. Opened(a.accounts, r, 0, q) /\ q.good /\ q.screen = a.screen
        BY <2>1, <2>2 DEF t
    <2> QED BY <1>3, <1>5, <2>3 DEF Does
<1>6. CASE r.choice = 2
    <2>1. q = Changed(a, r.id, r.money, 0)
        BY <1>1, <1>2, <1>3, <1>6 DEF main_v1, inputmoney_v1, m
    <2> HIDE DEF a
    <2>2. Posted(a.accounts, r.id, r.money, 0, q) /\ q.good /\ q.screen = a.screen
        BY <1>3, <1>6, <2>1, ChangedIs
    <2> QED BY <1>3, <1>6, <2>2 DEF Does
<1>7. CASE r.choice = 3
    <2>1. q = Changed(a, r.id, Negative(r.money), 0)
        BY <1>1, <1>2, <1>3, <1>7 DEF main_v1, outputmoney_v1, m
    <2>2. Negative(r.money) = -r.money /\ -r.money \in Int
        BY <1>3, <1>7 DEF Negative, BankAssumption
    <2> HIDE DEF a
    <2>3. Posted(a.accounts, r.id, -r.money, 0, q) /\ q.good /\ q.screen = a.screen
        BY <1>3, <1>7, <2>1, <2>2, ChangedIs
    <2> QED BY <1>3, <1>7, <2>3 DEF Does
<1>8. CASE r.choice = 4
    <2> DEFINE listed == {k \in DOMAIN m.accounts : m.accounts[k].id = ReadString(m, r)}
    <2>1. q = Shown(m, r, listed)
        BY <1>1, <1>2, <1>8 DEF main_v1, info_v1, m
    <2>2. listed \subseteq DOMAIN m.accounts
        OBVIOUS
    <2> HIDE DEF listed
    <2>3. /\ q.accounts = m.accounts /\ q.status = m.status /\ q.good = (m.good /\ r.id # End)
          /\ q.screen = {<<k, m.accounts[k].balance>> : k \in listed}
        BY <1>1, <2>1, ShownIs
    <2>4. q.screen \subseteq Lines(m.accounts)
        BY <2>2, <2>3 DEF Lines
    <2>5. r.id # End
        BY <1>8 DEF ReadableRequest
    <2> HIDE DEF q
    <2>6. q.good /\ q.accounts = p.accounts /\ q.status = "running"
        BY <1>1, <2>3, <2>5
    <2>7. Does(p.accounts, r, 0, 0, q)
        BY <1>8, <2>6 DEF Does
    <2>8. q.screen \subseteq IF r.choice = 4 THEN Lines(p.accounts) ELSE {}
        BY <1>1, <1>8, <2>4
    <2> QED BY <2>7, <2>8 DEF q
<1>9. CASE r.choice = 5
    <2>1. q = Quit(m)
        BY <1>1, <1>2, <1>9 DEF main_v1, m
    <2> QED BY <1>1, <1>9, <2>1, QuitIs DEF Does
<1> QED BY <1>0, <1>4, <1>5, <1>6, <1>7, <1>8, <1>9

\* Without a rate there is no interest.
LEMMA NoInterest ==
    ASSUME BankAssumption, NEW money \in Int, NEW slip \in (-MaxSlip)..MaxSlip
    PROVE  Interest(money, 0, slip) = 0
<1>1. money * 0 * (Precision + slip) = 0
    BY DEF BankAssumption
<1>2. 100 * Precision \in Nat \ {0}
    BY DEF BankAssumption
<1>3. 0 \div (100 * Precision) = 0
    BY <1>2
<1> QED BY <1>1, <1>3 DEF Interest

\* Version 6 gives a new account a rate, and pays interest where there is one.
LEMMA Does_v6 ==
    ASSUME BankAssumption, NEW p, IsState("v6", p), Running(p), p.good, NEW r \in Request,
           ReadableRequest(r), IsDefined(main_v6(p, r))
    PROVE  \E rate \in Nat, extra \in Int :
             /\ Does(p.accounts, r, rate, extra, main_v6(p, r))
             /\ Known(p.accounts, r.id) /\ p.accounts[First(p.accounts, r.id)].rate = 0
                  => extra = 0
<1> DEFINE m == AtMenu(p, r)
           a == AfterBoth(m, r)
           q == main_v6(p, r)
           s == p.accounts
           f == s[First(s, r.id)]
<1>0. /\ "v6" \in Versions /\ r.choice \in 0..5
      /\ RateOf(r.plan) \in RatesOf("v6") /\ RateOf(r.plan) \in Nat
    <2>1. RateOf(r.plan) \in RatesOf("v6")
        BY RequestType DEF RatesOf
    <2> QED BY <2>1, RateType DEF Versions, ReadableRequest
<1>1. /\ IsState("v6", m) /\ m.accounts = s /\ m.status = "running"
      /\ m.good /\ m.choice = r.choice
    BY <1>0, MenuRead DEF Running
<1> HIDE DEF m
<1>2. m.choice # Unset
    BY <1>0, <1>1 DEF BankAssumption
<1>3. ASSUME r.choice \in {1, 2, 3}
      PROVE  /\ IsState("v6", a) /\ a.accounts = s /\ a.status = "running" /\ a.good
             /\ ReadId(m, r) = r.id /\ ReadMoney(m, r) = r.money
             /\ r.id \in Int /\ r.money \in Int
    BY <1>0, <1>1, <1>3, BothRead, NumbersRead DEF ReadableRequest
<1>10. IsDefined(q)
    OBVIOUS
<1>4. SUFFICES ASSUME r.choice # 2
               PROVE  \E rate \in Nat : Does(s, r, rate, 0, q)
    <2>1. CASE r.choice = 2
        <3> DEFINE extra == IF Known(s, r.id) THEN Interest(r.money, f.rate, r.slip) ELSE 0
        <3>1. r.money # Unset /\ r.id \in Int /\ r.money \in Int /\ r.slip \in (-MaxSlip)..MaxSlip
            BY <1>3, <2>1, RequestType DEF BankAssumption
        <3>2. Known(s, r.id) => f.rate \in Nat
            <4>1. ASSUME Known(s, r.id) PROVE f.rate \in RatesOf("v6")
                BY <4>1, AccountType DEF IsState
            <4> QED BY <1>0, <4>1, RateType
        <3>3. extra \in Int
            <4>1. ASSUME Known(s, r.id) PROVE Interest(r.money, f.rate, r.slip) \in Int
                BY <3>1, <3>2, <4>1, InterestBounds
            <4> QED BY <4>1
        <3>4. Known(s, r.id) /\ f.rate = 0 => extra = 0
            BY <3>1, NoInterest
        <3>5. q = Changed(a, r.id, r.money, extra)
            <4>1. q = AddMoney(a, r.id, r.money, r.slip)
                BY <1>1, <1>2, <1>3, <2>1 DEF main_v6, inputmoney_v6, m
            <4> QED BY <1>3, <2>1, <3>1, <4>1 DEF AddMoney
        <3> HIDE DEF a, extra, q
        <3>6. Posted(a.accounts, r.id, r.money, extra, q) /\ q.good
            BY <1>3, <2>1, <3>1, <3>3, <3>5, ChangedIs
        <3>7. Does(s, r, 0, extra, q)
            BY <1>3, <2>1, <3>6 DEF Does
        <3> QED BY <3>3, <3>4, <3>7 DEF q
    <2>2. CASE r.choice # 2
        BY <1>4, <2>2
    <2> QED BY <2>1, <2>2
<1>5. CASE r.choice = 0
    <2>1. q = m
        BY <1>1, <1>2, <1>5 DEF main_v6, m
    <2>2. Does(s, r, 0, 0, q)
        BY <1>1, <1>5, <2>1 DEF Does
    <2> QED BY <2>2
<1>6. CASE r.choice = 1
    <2>1. q = Appended(m, r.id, r.money, RateOf(r.plan))
        <3> DEFINE b == [m EXCEPT !.good = @ /\ IsNumber(r.plan.kind)]
                   t == Made(b, r, RateOf(r.plan))
        <3>1. q = makecount_v6(m, r)
            BY <1>1, <1>2, <1>6 DEF main_v6, m
        <3>2. IsState("v6", b) /\ b.good = IsNumber(r.plan.kind)
            BY <1>1 DEF IsState, IsNumber
        <3>3. IsState("v6", t)
            <4> HIDE DEF b
            <4>1. Effect("v6", b, r, Made(b, r, RateOf(r.plan)))
                BY <1>0, <3>2, MadeEffect
            <4> QED BY <4>1 DEF Effect
        <3>4. \/ q = Undefined(t)
              \/ q = [t EXCEPT !.good = /\ @ /\ IsNumber(r.plan.rating)
                                        /\ r.plan.kind # 1 => IsNumber(r.plan.rank)]
            BY <3>1 DEF makecount_v6
        <3> HIDE DEF t, q, b
        <3>5. /\ q = [t EXCEPT !.good = /\ @ /\ IsNumber(r.plan.rating)
                                       /\ r.plan.kind # 1 => IsNumber(r.plan.rank)]
              /\ t.good /\ q.good
            BY <1>10, <3>3, <3>4 DEF IsDefined, Undefined, IsState
        <3>6. q = t
            BY <3>3, <3>5 DEF IsState
        <3>7. IsNumber(r.plan.kind)
            <4>1. AfterBoth(b, r).good => b.good
                BY <3>2 DEF AfterBoth, IsState
            <4>2. ~AfterBoth(b, r).good => t.good = AfterBoth(b, r).good
                BY <3>2 DEF t, Made, Undefined, AfterBoth, IsState
            <4> QED BY <3>2, <3>5, <4>1, <4>2
        <3>8. b = m
            BY <1>1, <3>7 DEF b, IsState
        <3> QED BY <1>3, <1>6, <3>6, <3>8 DEF t, Made
    <2>2. Opened(s, r, RateOf(r.plan), q) /\ q.good
        BY <1>1, <2>1, AppendedIs
    <2>3. Does(s, r, RateOf(r.plan), 0, q)
        BY <1>6, <2>2 DEF Does
    <2> QED BY <1>0, <2>3
<1>7. CASE r.choice = 3
    <2>1. q = Changed(a, r.id, Negative(r.money), 0)
        BY <1>1, <1>2, <1>3, <1>7 DEF main_v6, outputmoney_v6, m
    <2>2. Negative(r.money) = -r.money /\ -r.money \in Int
        BY <1>3, <1>7 DEF Negative, BankAssumption
    <2> HIDE DEF a
    <2>3. Posted(a.accounts, r.id, -r.money, 0, q) /\ q.good
        BY <1>3, <1>7, <2>1, <2>2, ChangedIs
    <2>4. Does(s, r, 0, 0, q)
        BY <1>3, <1>7, <2>3 DEF Does
    <2> QED BY <2>4
<1>8. CASE r.choice = 4
    <2>1. q = Shown(m, r, DOMAIN m.accounts)
        BY <1>1, <1>2, <1>8 DEF main_v6, info_v6, m
    <2>2. q.accounts = s /\ q.status = "running" /\ q.good
        <3>1. /\ q.accounts = m.accounts /\ q.status = m.status
              /\ q.good = (m.good /\ r.id # End)
            BY <1>1, <2>1, ShownIs
        <3>2. r.id # End
            BY <1>8 DEF ReadableRequest
        <3> HIDE DEF q
        <3> QED BY <1>1, <3>1, <3>2
    <2>3. Does(s, r, 0, 0, q)
        BY <1>8, <2>2 DEF Does
    <2> QED BY <2>3
<1>9. CASE r.choice = 5
    <2>1. q = Quit(m)
        BY <1>1, <1>2, <1>9 DEF main_v6, m
    <2>2. Does(s, r, 0, 0, q)
        BY <1>1, <1>9, <2>1, QuitIs DEF Does
    <2> QED BY <2>2
<1> QED BY <1>0, <1>4, <1>5, <1>6, <1>7, <1>8, <1>9

\* Versions 2 to 5 are the same program.
LEMMA SamePrograms ==
    ASSUME NEW p, NEW r
    PROVE  /\ main_v3(p, r) = main_v2(p, r)
           /\ main_v4(p, r) = main_v2(p, r)
           /\ main_v5(p, r) = main_v2(p, r)
<1>1. main_v3(p, r) = main_v2(p, r)
    BY DEF main_v2, makecount_v2, inputmoney_v2, outputmoney_v2, info_v2,
           main_v3, makecount_v3, inputmoney_v3, outputmoney_v3, info_v3
<1>2. main_v4(p, r) = main_v2(p, r)
    BY DEF main_v2, makecount_v2, inputmoney_v2, outputmoney_v2, info_v2,
           main_v4, makecount_v4, inputmoney_v4, outputmoney_v4, info_v4
<1>3. main_v5(p, r) = main_v2(p, r)
    BY DEF main_v2, makecount_v2, inputmoney_v2, outputmoney_v2, info_v2,
           main_v5, makecount_v5, inputmoney_v5, outputmoney_v5, info_v5
<1> QED BY <1>1, <1>2, <1>3

\* The same accounts, but for what interest may have added.
Kin(s, t) ==
    /\ Len(s) = Len(t)
    /\ \A k \in DOMAIN t : s[k].id = t[k].id /\ (s[k].rate = 0 => t[k].balance = s[k].balance)

LEMMA KinFinds ==
    ASSUME NEW s \in Accounts("v6"), NEW t \in Accounts("v2"), Kin(s, t), NEW id
    PROVE  /\ DOMAIN s = DOMAIN t
           /\ Known(s, id) <=> Known(t, id)
           /\ Known(t, id) => First(s, id) = First(t, id) /\ First(t, id) \in DOMAIN t
<1>1. DOMAIN s = 1..Len(s) /\ DOMAIN t = 1..Len(t) /\ Len(t) \in Nat
    BY DEF Accounts
<1>2. DOMAIN s = DOMAIN t
    BY <1>1 DEF Kin
<1>3. ASSUME NEW k \in DOMAIN t PROVE IsFirst(s, k, id) <=> IsFirst(t, k, id)
    <2>1. \A j \in 1..(k - 1) : j \in DOMAIN t
        BY <1>1
    <2> QED BY <2>1 DEF Kin, IsFirst
<1>4. Known(s, id) <=> Known(t, id)
    BY <1>2, <1>3 DEF Known
<1>5. ASSUME Known(t, id) PROVE First(s, id) = First(t, id) /\ First(t, id) \in DOMAIN t
    <2>1. First(t, id) \in DOMAIN t /\ IsFirst(t, First(t, id), id)
        BY <1>5, FirstIsFirst DEF Accounts
    <2>2. IsFirst(s, First(t, id), id) /\ First(t, id) \in DOMAIN s
        BY <1>2, <1>3, <2>1
    <2>3. First(s, id) = First(t, id)
        BY <2>2, FirstUnique DEF Accounts
    <2> QED BY <2>1, <2>3
<1> QED BY <1>2, <1>4, <1>5

\* An account is opened in both.
LEMMA KinOpened ==
    ASSUME NEW s \in Accounts("v6"), NEW t \in Accounts("v2"), Kin(s, t), NEW r, NEW rate,
           NEW p, Opened(s, r, rate, p), p.status # "undefined",
           NEW q, Opened(t, r, 0, q), q.status # "undefined"
    PROVE  Kin(p.accounts, q.accounts) /\ p.status = q.status
<1> DEFINE a == [id |-> r.id, balance |-> r.money, rate |-> rate]
           b == [id |-> r.id, balance |-> r.money, rate |-> 0]
<1>1. /\ p.accounts = Append(s, a) /\ q.accounts = Append(t, b)
      /\ p.status = "running" /\ q.status = "running"
    BY DEF Opened
<1>2. /\ Len(Append(s, a)) = Len(s) + 1 /\ Len(Append(t, b)) = Len(t) + 1
      /\ DOMAIN Append(t, b) = 1..(Len(t) + 1) /\ Len(t) \in Nat
      /\ DOMAIN s = 1..Len(s) /\ DOMAIN t = 1..Len(t)
      /\ \A k \in DOMAIN s : Append(s, a)[k] = s[k]
      /\ \A k \in DOMAIN t : Append(t, b)[k] = t[k]
      /\ Append(s, a)[Len(s) + 1] = a /\ Append(t, b)[Len(t) + 1] = b
    BY DEF Accounts
<1>3. ASSUME NEW k \in DOMAIN Append(t, b)
      PROVE  /\ Append(s, a)[k].id = Append(t, b)[k].id
             /\ Append(s, a)[k].rate = 0 => Append(t, b)[k].balance = Append(s, a)[k].balance
    <2>1. CASE k \in DOMAIN t
        BY <1>2, <2>1 DEF Kin
    <2>2. CASE k = Len(t) + 1
        BY <1>2, <2>2 DEF Kin
    <2>3. k \in DOMAIN t \/ k = Len(t) + 1
        BY <1>2
    <2> QED BY <2>1, <2>2, <2>3
<1> QED BY <1>1, <1>2, <1>3 DEF Kin

\* Both book on the account they find, one perhaps with interest.
LEMMA KinPosted ==
    ASSUME NEW s \in Accounts("v6"), NEW t \in Accounts("v2"), Kin(s, t),
           NEW id, NEW money \in Int, NEW extra \in Int,
           Known(s, id) /\ s[First(s, id)].rate = 0 => extra = 0,
           NEW p, Posted(s, id, money, extra, p), p.status # "undefined",
           NEW q, Posted(t, id, money, 0, q), q.status # "undefined"
    PROVE  Kin(p.accounts, q.accounts) /\ p.status = q.status
<1>1. CASE ~Known(t, id)
    <2>1. ~Known(s, id)
        BY <1>1, KinFinds
    <2> QED BY <1>1, <2>1 DEF Posted
<1>2. CASE Known(t, id)
    <2>1. PICK k \in DOMAIN t : k = First(t, id) /\ k = First(s, id)
        BY <1>2, KinFinds
    <2>2. Known(s, id) /\ DOMAIN s = DOMAIN t
        BY <1>2, KinFinds
    <2>3. /\ p.accounts = Rebalanced(s, k, s[k].balance + money + extra)
          /\ q.accounts = Rebalanced(t, k, t[k].balance + money + 0)
          /\ p.status = "running" /\ q.status = "running"
        BY <1>2, <2>1, <2>2 DEF Posted
    <2>4. /\ s[k] \in [id : Nat \cup {Word}, balance : Int, rate : RatesOf("v6")]
          /\ t[k] \in [id : Nat \cup {Word}, balance : Int, rate : RatesOf("v2")]
        BY <1>2, <2>1, <2>2, AccountType
    <2> DEFINE a == [s[k] EXCEPT !.balance = s[k].balance + money + extra]
               b == [t[k] EXCEPT !.balance = t[k].balance + money + 0]
    <2>5. a.id = s[k].id /\ a.rate = s[k].rate /\ a.balance = s[k].balance + money + extra
        BY <2>4
    <2>6. b.id = t[k].id /\ b.balance = t[k].balance + money + 0
        BY <2>4
    <2>7. /\ p.accounts = [s EXCEPT ![k] = a] /\ q.accounts = [t EXCEPT ![k] = b]
        BY <2>3 DEF Rebalanced
    <2>8. a.id = b.id /\ (a.rate = 0 => b.balance = a.balance)
        BY <1>2, <2>1, <2>2, <2>4, <2>5, <2>6 DEF Kin
    <2> HIDE DEF a, b
    <2>9. /\ Len(p.accounts) = Len(s) /\ Len(q.accounts) = Len(t)
          /\ DOMAIN q.accounts = DOMAIN t
          /\ p.accounts[k] = a /\ q.accounts[k] = b
          /\ \A j \in DOMAIN t : j # k => p.accounts[j] = s[j] /\ q.accounts[j] = t[j]
        BY <2>2, <2>7 DEF Accounts
    <2>10. Kin(p.accounts, q.accounts)
        BY <2>8, <2>9 DEF Kin
    <2> QED BY <2>3, <2>10
<1> QED BY <1>1, <1>2

LEMMA KinDoes ==
    ASSUME BankAssumption, NEW s \in Accounts("v6"), NEW t \in Accounts("v2"), Kin(s, t),
           NEW r \in Request, ReadableRequest(r), NEW rate, NEW extra \in Int,
           Known(s, r.id) /\ s[First(s, r.id)].rate = 0 => extra = 0,
           NEW p, Does(s, r, rate, extra, p), p.status # "undefined",
           NEW q, Does(t, r, 0, 0, q), q.status # "undefined"
    PROVE  Kin(p.accounts, q.accounts) /\ p.status = q.status
<1>1. CASE r.choice = 1
    BY <1>1, KinOpened DEF Does
<1>2. ASSUME r.choice \in {2, 3} PROVE r.money \in Int /\ -r.money \in Int
    <2>1. r.money \in Amounts
        BY <1>2 DEF ReadableRequest
    <2>2. \A money \in Amounts : money \in Int
        BY DEF BankAssumption
    <2>3. r.money \in Int
        BY <2>1, <2>2
    <2> QED BY <2>3
<1>3. CASE r.choice = 2
    BY <1>2, <1>3, KinPosted DEF Does
<1>4. CASE r.choice = 3
    <2>1. PICK money \in Int : money = -r.money
        BY <1>2, <1>4
    <2>2. PICK none \in Int : none = 0
        OBVIOUS
    <2>3. Posted(s, r.id, money, none, p) /\ Posted(t, r.id, money, 0, q)
        BY <1>4, <2>1, <2>2 DEF Does
    <2> QED BY <2>2, <2>3, KinPosted
<1>5. CASE r.choice \in {0, 4, 5}
    BY <1>5 DEF Does
<1> QED BY <1>1, <1>3, <1>4, <1>5 DEF ReadableRequest

-----------------------------------------------------------------------------
\* Version 1 and version 2, and what version 6 keeps of version 2.
LikeFirst(p, q) ==
    IsDefined(q) =>
      /\ IsDefined(p) /\ p.accounts = q.accounts /\ p.status = q.status
      /\ p.screen \subseteq q.screen

LikeSixth(p, q) ==
    IsDefined(q) /\ IsDefined(p) => p.status = q.status /\ Kin(p.accounts, q.accounts)

AgreeInv ==
    /\ bank["v3"] = bank["v2"] /\ bank["v4"] = bank["v2"] /\ bank["v5"] = bank["v2"]
    /\ LikeFirst(bank["v1"], bank["v2"])
    /\ LikeSixth(bank["v6"], bank["v2"])

\* A version acts if it runs, and in a turn without the user if its input failed.
Acts(v, alone) == Running(bank[v]) /\ (alone => ~bank[v].good)

LEMMA CommonTurn ==
    ASSUME BankAssumption, BankNext
    PROVE  \E r \in Request, alone \in BOOLEAN :
             \/ bank' = bank
             \/ \A v \in Versions :
                  bank'[v] = IF Acts(v, alone) THEN Program(v, bank[v], r) ELSE bank[v]
<1>1. ASSUME NEW r \in Request, Type(r)
      PROVE  \A v \in Versions :
               bank'[v] = IF Acts(v, FALSE) THEN Program(v, bank[v], r) ELSE bank[v]
    BY <1>1 DEF Type, Acts
<1>2. ASSUME RunOn
      PROVE  \A v \in Versions :
               bank'[v] = IF Acts(v, TRUE) THEN Program(v, bank[v], Nothing) ELSE bank[v]
    BY <1>2 DEF RunOn, Acts
<1>3. CASE Finished
    BY <1>3, NothingType DEF Finished
<1> QED BY <1>1, <1>2, <1>3, NothingType DEF BankNext

\* Who is undefined after a turn, or had an input that failed, stays so.
LEMMA DefinedBefore ==
    ASSUME BankAssumption, BankInv, NEW v \in Versions, NEW r \in Request,
           NEW alone \in BOOLEAN, Acts(v, alone), IsDefined(Program(v, bank[v], r))
    PROVE  IsDefined(bank[v]) /\ ~alone /\ IsState(v, bank[v])
<1>1. Effect(v, bank[v], r, Program(v, bank[v], r)) /\ IsState(v, bank[v])
    BY ProgramEffect DEF BankInv, Acts
<1> QED BY <1>1 DEF Effect, IsDefined, Acts, Running

LEMMA AgreeStep ==
    ASSUME BankAssumption, BankInv, AgreeInv, [BankNext]_<<bank, asked>>
    PROVE  AgreeInv'
<1>1. SUFFICES ASSUME NEW r \in Request, NEW alone \in BOOLEAN,
                      \A v \in Versions :
                        bank'[v] = IF Acts(v, alone) THEN Program(v, bank[v], r) ELSE bank[v]
               PROVE  AgreeInv'
    <2>1. CASE bank' = bank
        BY <2>1 DEF AgreeInv
    <2>2. CASE BankNext
        BY <1>1, <2>1, <2>2, CommonTurn
    <2> QED BY <2>1, <2>2
<1> DEFINE p == bank["v2"]
           q == bank'["v2"]
<1>2. /\ Versions = {"v1", "v2", "v3", "v4", "v5", "v6"}
      /\ \A s : \A x \in {"v2", "v3", "v4", "v5"} : Program(x, s, r) = main_v2(s, r)
      /\ \A s : Program("v1", s, r) = main_v1(s, r) /\ Program("v6", s, r) = main_v6(s, r)
    BY SamePrograms DEF Versions, Program
<1>3. bank'["v3"] = q /\ bank'["v4"] = q /\ bank'["v5"] = q
    BY <1>1, <1>2 DEF AgreeInv, Acts
<1>4. ASSUME IsDefined(q), ~Acts("v2", alone)
      PROVE  /\ q = p
             /\ bank'["v1"] = bank["v1"]
             /\ IsDefined(bank["v6"]) => bank'["v6"] = bank["v6"]
    <2>1. q = p
        BY <1>1, <1>2, <1>4
    <2>2. ~Acts("v1", alone)
        BY <1>4, <2>1 DEF Acts, AgreeInv, LikeFirst, Running, IsDefined
    <2>3. IsDefined(bank["v6"]) => ~Acts("v6", alone)
        BY <1>4, <2>1 DEF Acts, AgreeInv, LikeSixth, Running, IsDefined
    <2> QED BY <1>1, <1>2, <2>1, <2>2, <2>3
<1>5. ASSUME IsDefined(q), Acts("v2", alone)
      PROVE  /\ IsDefined(p) /\ Running(p) /\ p.good /\ ~alone
             /\ ReadableRequest(r) /\ Does(p.accounts, r, 0, 0, q)
             /\ q.screen = IF r.choice = 4 THEN Lines(p.accounts) ELSE {}
             /\ IsState("v2", p)
    <2>1. q = main_v2(p, r) /\ q = Program("v2", p, r)
        BY <1>1, <1>2, <1>5
    <2>2. IsDefined(p) /\ ~alone /\ IsState("v2", p)
        BY <1>2, <1>5, <2>1, DefinedBefore
    <2>3. p.good /\ Running(p)
        BY <1>5, <2>2 DEF IsDefined, Acts
    <2>4. PICK x : x = p
        OBVIOUS
    <2>5. /\ ReadableRequest(r) /\ Does(x.accounts, r, 0, 0, main_v2(x, r))
          /\ main_v2(x, r).screen = IF r.choice = 4 THEN Lines(x.accounts) ELSE {}
        <3>1. /\ IsState("v2", x) /\ Running(x) /\ x.good
              /\ IsDefined(main_v2(x, r))
            BY <1>5, <2>1, <2>2, <2>3, <2>4
        <3> HIDE DEF p, q
        <3> QED BY <3>1, Does_v2
    <2> QED BY <2>1, <2>2, <2>3, <2>4, <2>5
<1>6. LikeFirst(bank'["v1"], q)
    <2>1. CASE ~Acts("v2", alone)
        BY <1>4, <2>1 DEF AgreeInv, LikeFirst
    <2>2. CASE Acts("v2", alone)
        <3>1. SUFFICES ASSUME IsDefined(q)
                       PROVE  /\ IsDefined(bank'["v1"]) /\ bank'["v1"].accounts = q.accounts
                              /\ bank'["v1"].status = q.status
                              /\ bank'["v1"].screen \subseteq q.screen
            BY DEF LikeFirst
        <3>2. PICK p1 : p1 = bank["v1"]
            OBVIOUS
        <3>3. PICK q1 : q1 = bank'["v1"]
            OBVIOUS
        <3>4. /\ IsState("v1", p1) /\ Running(p1) /\ p1.good /\ p1.accounts = p.accounts
              /\ Acts("v1", alone)
            BY <1>2, <1>5, <2>2, <3>1, <3>2
               DEF AgreeInv, LikeFirst, IsDefined, Running, Acts, BankInv
        <3>5. q1 = main_v1(p1, r)
            BY <1>1, <1>2, <3>2, <3>3, <3>4
        <3>6. /\ Does(p.accounts, r, 0, 0, q1)
              /\ q1.screen \subseteq IF r.choice = 4 THEN Lines(p.accounts) ELSE {}
            BY <1>5, <2>2, <3>1, <3>4, <3>5, Does_v1
        <3>7. Does(p.accounts, r, 0, 0, q) /\ q.status # "undefined" /\ r.choice \in 0..5
            BY <1>5, <2>2, <3>1 DEF IsDefined, ReadableRequest
        <3>8. /\ q1.good /\ q1.status = q.status /\ q1.accounts = q.accounts
            <4> HIDE DEF p, q
            <4>1. r.choice \in {0, 4, 5} \/ r.choice = 1 \/ r.choice = 2 \/ r.choice = 3
                BY <3>7
            <4> QED BY <3>6, <3>7, <4>1 DEF Does, Opened, Posted
        <3> QED BY <1>5, <2>2, <3>1, <3>3, <3>6, <3>7, <3>8 DEF IsDefined
    <2> QED BY <2>1, <2>2
<1>7. LikeSixth(bank'["v6"], q)
    <2>1. CASE ~Acts("v2", alone)
        <3>1. SUFFICES ASSUME IsDefined(q), IsDefined(bank'["v6"])
                       PROVE  /\ bank'["v6"].status = q.status
                              /\ Kin(bank'["v6"].accounts, q.accounts)
            BY DEF LikeSixth
        <3>2. IsDefined(bank["v6"])
            BY <1>1, <1>2, <3>1, DefinedBefore
        <3> QED BY <1>4, <2>1, <3>1, <3>2 DEF AgreeInv, LikeSixth
    <2>2. CASE Acts("v2", alone)
        <3>1. SUFFICES ASSUME IsDefined(q), IsDefined(bank'["v6"])
                       PROVE  /\ Kin(bank'["v6"].accounts, q.accounts)
                              /\ bank'["v6"].status = q.status
            BY DEF LikeSixth
        <3>2. PICK p6 : p6 = bank["v6"]
            OBVIOUS
        <3>3. PICK q6 : q6 = bank'["v6"]
            OBVIOUS
        <3>4. IsDefined(p6)
            BY <1>1, <1>2, <3>1, <3>2, DefinedBefore
        <3>5. /\ IsState("v6", p6) /\ Running(p6) /\ p6.good /\ Kin(p6.accounts, p.accounts)
              /\ Acts("v6", alone)
            BY <1>2, <1>5, <2>2, <3>1, <3>2, <3>4
               DEF AgreeInv, LikeSixth, IsDefined, Running, Acts, BankInv
        <3>6. q6 = main_v6(p6, r)
            BY <1>1, <1>2, <3>2, <3>3, <3>5
        <3>7. PICK rate \in Nat, extra \in Int :
                /\ Does(p6.accounts, r, rate, extra, q6)
                /\ Known(p6.accounts, r.id) /\ p6.accounts[First(p6.accounts, r.id)].rate = 0
                     => extra = 0
            BY <1>5, <2>2, <3>1, <3>3, <3>5, <3>6, Does_v6
        <3>8. p6.accounts \in Accounts("v6") /\ p.accounts \in Accounts("v2")
            BY <1>5, <2>2, <3>1, <3>5 DEF IsState
        <3>9. q.status # "undefined" /\ q6.status # "undefined"
            BY <3>1, <3>3 DEF IsDefined
        <3>10. ReadableRequest(r) /\ Does(p.accounts, r, 0, 0, q)
            BY <1>5, <2>2, <3>1
        <3> HIDE DEF p, q
        <3>11. Kin(q6.accounts, q.accounts) /\ q6.status = q.status
            BY <3>5, <3>7, <3>8, <3>9, <3>10, KinDoes
        <3> QED BY <3>3, <3>11
    <2> QED BY <2>1, <2>2
<1> QED BY <1>3, <1>6, <1>7 DEF AgreeInv

(***************************************************************************)
(* The rewritings keep the behaviour (01_bank/main.cpp to                  *)
(* 08-polymorphism/main.v6.cpp): as long as the input is readable and      *)
(* version 2 is defined, versions 2 to 5 are in the same state, version 1  *)
(* has the same accounts, and the accounts of version 6 that bear no       *)
(* interest have the same balance.                                         *)
(***************************************************************************)
THEOREM RewritingsAgree == BankSpec => []VersionsAgree
<1>1. BankInit => BankInv /\ AgreeInv
    <2> SUFFICES ASSUME BankInit PROVE BankInv /\ AgreeInv
        OBVIOUS
    <2>1. \A v \in Versions : bank[v] = Started
        BY DEF BankInit
    <2>2. Started.accounts = << >> /\ Started.screen = {}
        BY DEF Started
    <2>3. Kin(<< >>, << >>)
        BY DEF Kin
    <2> QED BY <2>1, <2>2, <2>3, BankAssumption, BankStarts
            DEF AgreeInv, LikeFirst, LikeSixth, Versions
<1>2. BankInv /\ AgreeInv /\ [BankNext]_<<bank, asked>> => (BankInv /\ AgreeInv)'
    BY BankAssumption, Turns, AgreeStep
<1>3. AgreeInv => VersionsAgree
    BY DEF AgreeInv, LikeFirst, LikeSixth, Kin, IsDefined, Defined, VersionsAgree
<1> QED BY <1>1, <1>2, <1>3, PTL DEF BankSpec

-----------------------------------------------------------------------------
(***************************************************************************)
(* Types and bounds.                                                       *)
(***************************************************************************)

\* What IsState leaves open.
Bounded(p) ==
    /\ Len(p.accounts) <= Capacity
    /\ \A k \in DOMAIN p.accounts : IsInt(p.accounts[k].balance)
    /\ p.screen \subseteq (1..Capacity) \X Int
    /\ p.status \in {"running", "ended", "undefined"}

\* What reads and ends a program leaves its accounts alone.
LEMMA BoundedRest ==
    ASSUME NEW v, NEW p, IsState(v, p), Bounded(p), NEW q, IsState(v, q),
           q.accounts = p.accounts, q.screen = {} \/ q.screen = p.screen,
           q.status \in {p.status, "ended", "undefined"}
    PROVE  Bounded(q)
BY DEF Bounded

LEMMA BoundedReads ==
    ASSUME BankAssumption, NEW v \in Versions, NEW p, IsState(v, p), Bounded(p),
           NEW r \in Request
    PROVE  /\ Bounded(AtMenu(p, r)) /\ Bounded(AfterBoth(p, r))
           /\ v = "v1" => Bounded(AfterLast(p, r))
           /\ Bounded(Undefined(p)) /\ Bounded(Quit(p))
<1>1. Bounded(AtMenu(p, r))
    <2>1. AtMenu(p, r).screen = {}
        BY DEF AtMenu, IsState
    <2> QED BY <2>1, AtMenuStep, BoundedRest
<1>2. Bounded(AfterBoth(p, r))
    <2>1. AfterBoth(p, r).screen = p.screen
        BY DEF AfterBoth, IsState
    <2> QED BY <2>1, BothRead, BoundedRest
<1>3. v = "v1" => Bounded(AfterLast(p, r))
    <2>1. AfterLast(p, r).screen = p.screen
        BY DEF AfterLast, IsState
    <2> QED BY <2>1, LastRead, BoundedRest
<1>4. Bounded(Undefined(p)) /\ Bounded(Quit(p))
    BY DEF Undefined, Quit, IsState, Bounded
<1> QED BY <1>1, <1>2, <1>3, <1>4

\* The array is never longer than it is, and what was typed fits an int.
LEMMA BoundedAppended ==
    ASSUME BankAssumption, NEW v \in Versions, NEW p, IsState(v, p), Bounded(p),
           NEW id, NEW money, IsInt(money), NEW rate
    PROVE  Bounded(Appended(p, id, money, rate))
<1> DEFINE a == [id |-> id, balance |-> money, rate |-> rate]
           s == p.accounts
           q == Appended(p, id, money, rate)
<1>1. CASE Len(s) = Capacity
    BY <1>1 DEF Appended, Undefined, IsState, Bounded
<1>2. CASE Len(s) # Capacity
    <2>1. q.accounts = Append(s, a) /\ q.screen = p.screen /\ q.status = p.status
        BY <1>2 DEF Appended, IsState
    <2>2. s \in Seq([id : Nat \cup {Word}, balance : Int, rate : RatesOf(v)])
        BY DEF IsState, Accounts
    <2>3. Len(s) \in Nat /\ Len(s) < Capacity
        BY <1>2, <2>2 DEF Bounded, BankAssumption
    <2>4. /\ Len(Append(s, a)) = Len(s) + 1 /\ DOMAIN Append(s, a) = 1..(Len(s) + 1)
          /\ DOMAIN s = 1..Len(s)
          /\ \A k \in 1..Len(s) : Append(s, a)[k] = s[k]
          /\ Append(s, a)[Len(s) + 1] = a
        BY <2>2
    <2>5. \A k \in 1..(Len(s) + 1) : IsInt(Append(s, a)[k].balance)
        <3>1. \A k \in 1..(Len(s) + 1) : k \in 1..Len(s) \/ k = Len(s) + 1
            BY <2>3
        <3> QED BY <2>4, <3>1 DEF Bounded
    <2> HIDE DEF q, a
    <2>6. Len(q.accounts) <= Capacity
        BY <2>1, <2>3, <2>4 DEF BankAssumption
    <2>7. Bounded(q)
        BY <2>1, <2>4, <2>5, <2>6 DEF Bounded
    <2> QED BY <2>7 DEF q
<1> QED BY <1>1, <1>2

\* A sum that leaves the int is undefined and not booked.
LEMMA BoundedChanged ==
    ASSUME NEW v, NEW p, IsState(v, p), Bounded(p), NEW id, NEW money, NEW extra
    PROVE  Bounded(Changed(p, id, money, extra))
<1> DEFINE s == p.accounts
           k == First(s, id)
           n == s[k].balance + money
           q == Changed(p, id, money, extra)
<1>1. CASE q = p
    BY <1>1
<1>2. CASE q = Undefined(p)
    BY <1>2 DEF Undefined, IsState, Bounded
<1>3. CASE /\ Known(s, id) /\ IsInt(n + extra)
           /\ q = [p EXCEPT !.accounts[k].balance = n + extra]
    <2> DEFINE e == n + extra
    <2>1. s \in Seq([id : Nat \cup {Word}, balance : Int, rate : RatesOf(v)])
        BY DEF IsState, Accounts
    <2>2. k \in DOMAIN s
        BY <1>3, <2>1, FirstIsFirst
    <2>3. s[k] \in [id : Nat \cup {Word}, balance : Int, rate : RatesOf(v)]
        BY <2>1, <2>2, ElementType
    <2>4. /\ q.accounts = Rebalanced(s, k, e) /\ q.screen = p.screen /\ q.status = p.status
        BY <1>3 DEF IsState, Rebalanced
    <2>5. IsInt(e)
        BY <1>3
    <2> HIDE DEF e, q
    <2>6. /\ Len(Rebalanced(s, k, e)) = Len(s) /\ DOMAIN Rebalanced(s, k, e) = DOMAIN s
          /\ Rebalanced(s, k, e)[k].balance = e
          /\ \A j \in DOMAIN s : j # k => Rebalanced(s, k, e)[j] = s[j]
        BY <2>1, <2>2, <2>3 DEF Rebalanced
    <2>7. Bounded(q)
        BY <2>4, <2>5, <2>6 DEF Bounded
    <2> QED BY <2>7 DEF q
<1> QED BY <1>1, <1>2, <1>3 DEF Changed

\* info lists accounts of the array.
LEMMA BoundedShown ==
    ASSUME BankAssumption, NEW v, NEW p, IsState(v, p), Bounded(p), NEW r,
           NEW listed \in SUBSET (DOMAIN p.accounts)
    PROVE  Bounded(Shown(p, r, listed))
<1> DEFINE s == p.accounts
           q == Shown(p, r, listed)
<1>1. s \in Seq([id : Nat \cup {Word}, balance : Int, rate : RatesOf(v)])
    BY DEF IsState, Accounts
<1>2. q.accounts = s /\ q.status = p.status
      /\ q.screen = {<<k, s[k].balance>> : k \in listed}
    BY DEF Shown, IsState
<1> HIDE DEF q
<1>3. ASSUME NEW k \in listed
      PROVE  k \in 1..Capacity /\ s[k].balance \in Int
    <2>1. DOMAIN s = 1..Len(s) /\ Len(s) \in Nat /\ Len(s) <= Capacity
        BY <1>1 DEF Bounded
    <2>2. s[k] \in [id : Nat \cup {Word}, balance : Int, rate : RatesOf(v)]
        <3> DEFINE T == [id : Nat \cup {Word}, balance : Int, rate : RatesOf(v)]
        <3>1. s \in Seq(T) /\ k \in DOMAIN s
            BY <1>1
        <3> HIDE DEF T
        <3>2. s[k] \in T
            BY <3>1, ElementType
        <3> QED BY <3>2 DEF T
    <2> QED BY <2>1, <2>2 DEF BankAssumption
<1>4. q.screen \subseteq (1..Capacity) \X Int
    BY <1>2, <1>3
<1>5. Bounded(q)
    BY <1>2, <1>4 DEF Bounded
<1> QED BY <1>5 DEF q

\* What all versions but the first do.
LEMMA BoundedHandlers ==
    ASSUME BankAssumption, NEW v \in Versions, NEW m, IsState(v, m), Bounded(m),
           NEW r \in Request
    PROVE  /\ \A rate : Bounded(Made(m, r, rate))
           /\ \A money, extra : Bounded(Changed(AfterBoth(m, r), ReadId(m, r), money, extra))
           /\ Bounded(Shown(m, r, DOMAIN m.accounts))
<1> DEFINE a == AfterBoth(m, r)
<1>1. IsState(v, a) /\ Bounded(a)
    BY BothRead, BoundedReads
<1> HIDE DEF a
<1>2. ASSUME NEW rate
      PROVE  Bounded(Made(m, r, rate))
    <2>1. CASE a.good
        <3>1. r.money \in Amounts
            BY <2>1, BothRead DEF a
        <3>2. IsInt(r.money)
            BY <3>1, AmountsAssumption DEF IsInt
        <3> QED BY <2>1, <3>2, BoundedAppended DEF Made, a
    <2>2. CASE ~a.good
        BY <1>1, <2>2, BoundedReads DEF Made, a
    <2> QED BY <2>1, <2>2
<1>3. \A money, extra : Bounded(Changed(a, ReadId(m, r), money, extra))
    BY <1>1, BoundedChanged
<1>4. Bounded(Shown(m, r, DOMAIN m.accounts))
    BY BoundedShown
<1> QED BY <1>2, <1>3, <1>4 DEF a

LEMMA BoundedFirst ==
    ASSUME BankAssumption, NEW p, IsState("v1", p), Bounded(p), NEW r \in Request
    PROVE  Bounded(main_v1(p, r))
<1> DEFINE m == AtMenu(p, r)
           a == AfterLast(m, r)
<1>0. "v1" \in Versions
    BY DEF Versions
<1>1. IsState("v1", m) /\ Bounded(m)
    BY <1>0, AtMenuStep, BoundedReads
<1> HIDE DEF m
<1>2. IsState("v1", a) /\ Bounded(a)
    BY <1>0, <1>1, LastRead, BoundedReads
<1>3. Bounded(Undefined(m)) /\ Bounded(Quit(m))
    BY <1>0, <1>1, BoundedReads
<1>4. Bounded(makecount_v1(m, r))
    <2>1. CASE m.good /\ r.id # End /\ r.money # End
        <3>1. r.money \in Amounts \cup {Word}
            BY <2>1, RequestType
        <3>2. IsInt(ReadLast(m, r))
            <4>1. ReadLast(m, r) \in Amounts \cup {0}
                BY <2>1, <3>1 DEF ReadLast, Extracted
            <4>2. IsInt(0)
                BY DEF IsInt, BankAssumption
            <4> QED BY <4>1, <4>2, AmountsAssumption DEF IsInt
        <3> QED BY <1>0, <1>2, <2>1, <3>2, BoundedAppended DEF makecount_v1
    <2> QED BY <1>3, <2>1 DEF makecount_v1
<1>5. Bounded(inputmoney_v1(m, r)) /\ Bounded(outputmoney_v1(m, r))
    BY <1>2, BoundedChanged DEF inputmoney_v1, outputmoney_v1
<1>6. Bounded(info_v1(m, r))
    BY <1>1, BoundedShown DEF info_v1
<1> QED BY <1>1, <1>3, <1>4, <1>5, <1>6 DEF main_v1, m

LEMMA BoundedProgram ==
    ASSUME BankAssumption, NEW v \in Versions, NEW p, IsState(v, p), Bounded(p),
           NEW r \in Request
    PROVE  Bounded(Program(v, p, r))
<1> DEFINE m == AtMenu(p, r)
<1>1. IsState(v, m) /\ Bounded(m)
    BY AtMenuStep, BoundedReads
<1>2. Bounded(Undefined(m)) /\ Bounded(Quit(m))
    BY <1>1, BoundedReads
<1>3. /\ \A rate : Bounded(Made(m, r, rate))
      /\ \A money, extra : Bounded(Changed(AfterBoth(m, r), ReadId(m, r), money, extra))
      /\ Bounded(Shown(m, r, DOMAIN m.accounts))
    BY <1>1, BoundedHandlers
<1> HIDE DEF m
<1>4. CASE v = "v1"
    BY <1>4, BoundedFirst DEF Program
<1>5. CASE v = "v2"
    <2>1. Bounded(main_v2(p, r))
        BY <1>1, <1>2, <1>3 DEF main_v2, m, makecount_v2, inputmoney_v2, outputmoney_v2, info_v2
    <2> QED BY <1>5, <2>1 DEF Program
<1>6. CASE v = "v3"
    <2>1. Bounded(main_v3(p, r))
        BY <1>1, <1>2, <1>3 DEF main_v3, m, makecount_v3, inputmoney_v3, outputmoney_v3, info_v3
    <2> QED BY <1>6, <2>1 DEF Program
<1>7. CASE v = "v4"
    <2>1. Bounded(main_v4(p, r))
        BY <1>1, <1>2, <1>3 DEF main_v4, m, makecount_v4, inputmoney_v4, outputmoney_v4, info_v4
    <2> QED BY <1>7, <2>1 DEF Program
<1>8. CASE v = "v5"
    <2>1. Bounded(main_v5(p, r))
        BY <1>1, <1>2, <1>3 DEF main_v5, m, makecount_v5, inputmoney_v5, outputmoney_v5, info_v5
    <2> QED BY <1>8, <2>1 DEF Program
<1>9. CASE v = "v6"
    <2>1. Bounded(makecount_v6(m, r))
        <3> DEFINE b == [m EXCEPT !.good = @ /\ IsNumber(r.plan.kind)]
                   q == Made(b, r, RateOf(r.plan))
        <3>1. IsState(v, b) /\ Bounded(b)
            BY <1>1 DEF IsState, Bounded, IsNumber
        <3>2. IsState(v, q)
            <4>1. RateOf(r.plan) \in RatesOf(v)
                BY <1>9, RequestType DEF RatesOf
            <4> HIDE DEF b
            <4>2. Effect(v, b, r, Made(b, r, RateOf(r.plan)))
                BY <3>1, <4>1, MadeEffect
            <4> QED BY <4>2 DEF Effect
        <3>3. Bounded(q)
            <4> HIDE DEF b
            <4> QED BY <3>1, BoundedHandlers
        <3> HIDE DEF q
        <3>4. Bounded(Undefined(q))
            BY <3>2, <3>3, BoundedReads
        <3>5. ASSUME NEW good PROVE Bounded([q EXCEPT !.good = good])
            BY <3>2, <3>3 DEF IsState, Bounded
        <3> QED BY <3>4, <3>5 DEF makecount_v6, q
    <2>2. Bounded(main_v6(p, r))
        BY <1>1, <1>2, <1>3, <2>1 DEF main_v6, m, inputmoney_v6, outputmoney_v6, info_v6, AddMoney
    <2> QED BY <1>9, <2>2 DEF Program
<1> QED BY <1>4, <1>5, <1>6, <1>7, <1>8, <1>9 DEF Versions

BoundedInv == asked \in 0..MaxRequests /\ \A v \in Versions : Bounded(bank[v])

LEMMA BoundedStep ==
    ASSUME BankAssumption, BankInv, BoundedInv, [BankNext]_<<bank, asked>>
    PROVE  BoundedInv'
<1>1. CASE \E r \in Request : Type(r)
    <2>1. PICK r \in Request : Type(r)
        BY <1>1
    <2>2. \A v \in Versions : Bounded(bank'[v])
        BY <2>1, BoundedProgram DEF Type, BankInv, BoundedInv
    <2>3. asked' \in 0..MaxRequests
        BY <2>1 DEF Type, BoundedInv, BankAssumption
    <2> QED BY <2>2, <2>3 DEF BoundedInv
<1>2. CASE RunOn
    <2>1. \A v \in Versions : Bounded(bank'[v])
        BY <1>2, BoundedProgram, NothingType DEF RunOn, BankInv, BoundedInv
    <2> QED BY <1>2, <2>1 DEF RunOn, BoundedInv
<1>3. CASE UNCHANGED <<bank, asked>>
    BY <1>3 DEF BoundedInv
<1> QED BY <1>1, <1>2, <1>3 DEF BankNext, Finished

(***************************************************************************)
(* For any input: no version has more accounts than its array, no balance  *)
(* leaves the int, and info shows accounts that are there                  *)
(* (01_bank/main.cpp to 08-polymorphism/main.v6.cpp).                      *)
(***************************************************************************)
THEOREM BankKeepsTypes == BankSpec => []BankTypeOK
<1>1. BankInit => BankInv /\ BoundedInv
    <2> SUFFICES ASSUME BankInit PROVE BoundedInv
        BY BankAssumption, BankStarts
    <2>1. Bounded(Started)
        <3>1. Started.accounts = << >> /\ Started.screen = {} /\ Started.status = "running"
            BY DEF Started
        <3>2. Len(<< >>) = 0 /\ DOMAIN << >> = {} /\ 0 <= Capacity
            BY BankAssumption DEF BankAssumption
        <3> QED BY <3>1, <3>2 DEF Bounded
    <2>2. asked = 0 /\ 0 \in 0..MaxRequests
        BY BankAssumption DEF BankInit, BankAssumption
    <2> QED BY <2>1, <2>2 DEF BankInit, BoundedInv
<1>2. BankInv /\ BoundedInv /\ [BankNext]_<<bank, asked>> => (BankInv /\ BoundedInv)'
    BY BankAssumption, Turns, BoundedStep
<1>3. BankInv /\ BoundedInv => BankTypeOK
    <2> SUFFICES ASSUME BankInv, BoundedInv PROVE BankTypeOK
        OBVIOUS
    <2>1. ASSUME NEW v \in Versions
          PROVE  bank[v] \in ProgramState
        <3> DEFINE T == [id : Nat \cup {Word}, balance : Int, rate : RatesOf(v)]
                   U == [id : Nat \cup {Word}, balance : Int, rate : Nat]
                   s == bank[v].accounts
        <3>1. s \in Seq(T)
            BY DEF BankInv, IsState, Accounts
        <3>2. T \subseteq U
            BY BankAssumption, RateType
        <3> HIDE DEF T, U
        <3>3. s \in Seq(U)
            BY <3>1, <3>2
        <3> QED BY <3>3 DEF BankInv, IsState, BoundedInv, Bounded, ProgramState, U
    <2>2. bank \in [Versions -> ProgramState]
        BY <2>1 DEF BankInv
    <2> QED BY <2>2 DEF BankTypeOK, BoundedInv, Bounded
<1> QED BY <1>1, <1>2, <1>3, PTL DEF BankSpec

=============================================================================
