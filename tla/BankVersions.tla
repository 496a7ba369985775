------------------------------ MODULE BankVersions ------------------------------
(***************************************************************************)
(* The six versions of the bank program, handler by handler, side by side: *)
(* each is an edited copy of the one before.  A handler is a function of   *)
(* the program p, which has read its choice, and of the request r, which   *)
(* holds what is typed next.                                               *)
(***************************************************************************)
EXTENDS Bank

-----------------------------------------------------------------------------
(***************************************************************************)
(* 01_bank/main.cpp: an array of structs.  The number of an account is a   *)
(* string, empty when nothing is read, and the money is read last.         *)
(***************************************************************************)
Empty == 0
ReadString(p, r) == IF p.good /\ r.id # End THEN r.id ELSE Empty
ReadLast(p, r) == Extracted(p.good /\ r.id # End, r.money, Unset)
AfterLast(p, r) == [p EXCEPT !.good = @ /\ r.id # End /\ IsNumber(r.money)]

makecount_v1(p, r) ==
    IF p.good /\ r.id # End /\ r.money # End
    THEN Appended(AfterLast(p, r), r.id, ReadLast(p, r), 0)
    ELSE Undefined(p)

inputmoney_v1(p, r) ==
    Changed(AfterLast(p, r), ReadString(p, r), ReadLast(p, r), 0)

outputmoney_v1(p, r) ==
    Changed(AfterLast(p, r), ReadString(p, r), Negative(ReadLast(p, r)), 0)

\* Every account with the number, not only the first.
info_v1(p, r) ==
    Shown(p, r, {k \in DOMAIN p.accounts : p.accounts[k].id = ReadString(p, r)})

main_v1(p, r) ==
    LET m == AtMenu(p, r)
    IN  CASE m.choice = Unset -> Undefined(m)
          [] m.choice = 1 -> makecount_v1(m, r)
          [] m.choice = 2 -> inputmoney_v1(m, r)
          [] m.choice = 3 -> outputmoney_v1(m, r)
          [] m.choice = 4 -> info_v1(m, r)
          [] m.choice = 5 -> Quit(m)
          [] OTHER -> m

-----------------------------------------------------------------------------
(***************************************************************************)
(* 04/main.v2.cpp: objects on the heap. The number is an int, the name is  *)
(* read last, and info shows all accounts.                                 *)
(***************************************************************************)
makecount_v2(p, r) == Made(p, r, 0)

inputmoney_v2(p, r) == Changed(AfterBoth(p, r), ReadId(p, r), ReadMoney(p, r), 0)

outputmoney_v2(p, r) ==
    Changed(AfterBoth(p, r), ReadId(p, r), Negative(ReadMoney(p, r)), 0)

info_v2(p, r) == Shown(p, r, DOMAIN p.accounts)

main_v2(p, r) ==
    LET m == AtMenu(p, r)
    IN  CASE m.choice = Unset -> Undefined(m)
          [] m.choice = 1 -> makecount_v2(m, r)
          [] m.choice = 2 -> inputmoney_v2(m, r)
          [] m.choice = 3 -> outputmoney_v2(m, r)
          [] m.choice = 4 -> info_v2(m, r)
          [] m.choice = 5 -> Quit(m)
          [] OTHER -> m

-----------------------------------------------------------------------------
(***************************************************************************)
(* 05/main.v3.cpp: accounts get a copy constructor, which nothing calls.   *)
(***************************************************************************)
makecount_v3(p, r) == Made(p, r, 0)

inputmoney_v3(p, r) == Changed(AfterBoth(p, r), ReadId(p, r), ReadMoney(p, r), 0)

outputmoney_v3(p, r) ==
    Changed(AfterBoth(p, r), ReadId(p, r), Negative(ReadMoney(p, r)), 0)

info_v3(p, r) == Shown(p, r, DOMAIN p.accounts)

main_v3(p, r) ==
    LET m == AtMenu(p, r)
    IN  CASE m.choice = Unset -> Undefined(m)
          [] m.choice = 1 -> makecount_v3(m, r)
          [] m.choice = 2 -> inputmoney_v3(m, r)
          [] m.choice = 3 -> outputmoney_v3(m, r)
          [] m.choice = 4 -> info_v3(m, r)
          [] m.choice = 5 -> Quit(m)
          [] OTHER -> m

-----------------------------------------------------------------------------
(***************************************************************************)
(* 06-friend,static,const/main.v4.cpp: const member functions.             *)
(***************************************************************************)
makecount_v4(p, r) == Made(p, r, 0)

inputmoney_v4(p, r) == Changed(AfterBoth(p, r), ReadId(p, r), ReadMoney(p, r), 0)

outputmoney_v4(p, r) ==
    Changed(AfterBoth(p, r), ReadId(p, r), Negative(ReadMoney(p, r)), 0)

info_v4(p, r) == Shown(p, r, DOMAIN p.accounts)

main_v4(p, r) ==
    LET m == AtMenu(p, r)
    IN  CASE m.choice = Unset -> Undefined(m)
          [] m.choice = 1 -> makecount_v4(m, r)
          [] m.choice = 2 -> inputmoney_v4(m, r)
          [] m.choice = 3 -> outputmoney_v4(m, r)
          [] m.choice = 4 -> info_v4(m, r)
          [] m.choice = 5 -> Quit(m)
          [] OTHER -> m

-----------------------------------------------------------------------------
(***************************************************************************)
(* 07-inheritance/main.v5.cpp: the array and the handlers move into a      *)
(* class, AccountHandler.                                                  *)
(***************************************************************************)
makecount_v5(p, r) == Made(p, r, 0)

inputmoney_v5(p, r) == Changed(AfterBoth(p, r), ReadId(p, r), ReadMoney(p, r), 0)

\* Mutant: the handlers were copied into the class with the sign lost.
outputmoney_v5Plus(p, r) ==
    Changed(AfterBoth(p, r), ReadId(p, r), ReadMoney(p, r), 0)

outputmoney_v5(p, r) ==
    Changed(AfterBoth(p, r), ReadId(p, r), Negative(ReadMoney(p, r)), 0)

info_v5(p, r) == Shown(p, r, DOMAIN p.accounts)

main_v5(p, r) ==
    LET m == AtMenu(p, r)
    IN  CASE m.choice = Unset -> Undefined(m)
          [] m.choice = 1 -> makecount_v5(m, r)
          [] m.choice = 2 -> inputmoney_v5(m, r)
          [] m.choice = 3 -> outputmoney_v5(m, r)
          [] m.choice = 4 -> info_v5(m, r)
          [] m.choice = 5 -> Quit(m)
          [] OTHER -> m

-----------------------------------------------------------------------------
(***************************************************************************)
(* 08-polymorphism/main.v6.cpp: accounts with interest.                    *)
(***************************************************************************)
\* cin >> rate, which is 0 before, and >> rank, which is not set before.
Rating(plan) == Extracted(TRUE, plan.rating, 0)
Rank(plan) == Extracted(IsNumber(plan.rating), plan.rank, Unset)

\* Every kind but 1 has a rank.
RateOf(plan) ==
    IF plan.kind = 1 THEN Rating(plan)
    ELSE Rating(plan) + (CASE Rank(plan) = 1 -> 7 [] Rank(plan) = 2 -> 4 [] OTHER -> 2)

\* Mutant: the interest is rounded down, also of a sum below zero.
InterestFloored(money, rate, slip) ==
    (money * rate * (Precision + slip)) \div (100 * Precision)

\* money * rate in float, cut to an int.  The sum, the rate and the product are
\* rounded to floats: the product may lie above or below the exact one.
Interest(money, rate, slip) ==
    LET n == money * rate * (Precision + slip)
        unit == 100 * Precision
    IN  IF n >= 0 THEN n \div unit ELSE -((-n) \div unit)

\* Virtual AddMoney: the account that is found says at which rate.
AddMoney(p, id, money, slip) ==
    LET rate == p.accounts[First(p.accounts, id)].rate
        extra == IF Known(p.accounts, id) /\ money # Unset
                 THEN Interest(money, rate, slip) ELSE 0
    IN  Changed(p, id, money, extra)

\* The kind is read before number, money and name, rating and rank after them.
\* A rating that cannot be read is 0, a rank is then used without being set.
makecount_v6(p, r) ==
    LET q == Made([p EXCEPT !.good = @ /\ IsNumber(r.plan.kind)], r, RateOf(r.plan))
        ranked == r.plan.kind # 1
    IN  IF ranked /\ Rank(r.plan) = Unset THEN Undefined(q)
        ELSE [q EXCEPT !.good = /\ @ /\ IsNumber(r.plan.rating)
                                /\ ranked => IsNumber(r.plan.rank)]

inputmoney_v6(p, r) == AddMoney(AfterBoth(p, r), ReadId(p, r), ReadMoney(p, r), r.slip)

outputmoney_v6(p, r) ==
    Changed(AfterBoth(p, r), ReadId(p, r), Negative(ReadMoney(p, r)), 0)

info_v6(p, r) == Shown(p, r, DOMAIN p.accounts)

main_v6(p, r) ==
    LET m == AtMenu(p, r)
    IN  CASE m.choice = Unset -> Undefined(m)
          [] m.choice = 1 -> makecount_v6(m, r)
          [] m.choice = 2 -> inputmoney_v6(m, r)
          [] m.choice = 3 -> outputmoney_v6(m, r)
          [] m.choice = 4 -> info_v6(m, r)
          [] m.choice = 5 -> Quit(m)
          [] OTHER -> m

=============================================================================
