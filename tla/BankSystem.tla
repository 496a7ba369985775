------------------------------- MODULE BankSystem -------------------------------
(***************************************************************************)
(* The versions of the bank program run on the same input, and what they   *)
(* should have in common.                                                  *)
(***************************************************************************)
EXTENDS BankVersions

Program(v, p, r) ==
    CASE v = "v1" -> main_v1(p, r)
      [] v = "v2" -> main_v2(p, r)
      [] v = "v3" -> main_v3(p, r)
      [] v = "v4" -> main_v4(p, r)
      [] v = "v5" -> main_v5(p, r)
      [] v = "v6" -> main_v6(p, r)

Running(p) == p.status = "running"

BankInit == bank = [v \in Versions |-> Started] /\ asked = 0

\* The user types a request: every version that still reads takes it.
Type(r) ==
    /\ asked < MaxRequests
    /\ asked' = asked + 1
    /\ bank' = [v \in Versions |->
                  IF Running(bank[v]) THEN Program(v, bank[v], r) ELSE bank[v]]

\* With a failed stream the menu goes round without the user.
RunOn ==
    /\ \E v \in Versions : Running(bank[v]) /\ ~bank[v].good
    /\ bank' = [v \in Versions |->
                  IF Running(bank[v]) /\ ~bank[v].good
                  THEN Program(v, bank[v], Nothing) ELSE bank[v]]
    /\ UNCHANGED asked

Finished == asked = MaxRequests /\ UNCHANGED <<bank, asked>>

BankNext == (\E r \in Request : Type(r)) \/ RunOn \/ Finished

BankSpec == BankInit /\ [][BankNext]_<<bank, asked>>

-----------------------------------------------------------------------------
(***************************************************************************)
(* Types of the programs' variables; an account is numbered by what was    *)
(* typed.                                                                  *)
(***************************************************************************)
BankTypeOK ==
    /\ bank \in [Versions -> ProgramState]
    /\ asked \in 0..MaxRequests
    /\ \A v \in Versions :
         /\ Len(bank[v].accounts) <= Capacity
         /\ \A k \in DOMAIN bank[v].accounts : IsInt(bank[v].accounts[k].balance)

Defined(v) == bank[v].good /\ bank[v].status # "undefined"

\* What a version says of the accounts it can find.
View(v) ==
    [n \in Ids \cup {Word} |->
       IF Known(bank[v].accounts, n)
       THEN bank[v].accounts[First(bank[v].accounts, n)].balance
       ELSE None]

LedgerOf(v) ==
    INSTANCE Ledger
    WITH Numbers <- Ids \cup {Word}, Sums <- Amounts,
         Rates <- IF v = "v6" THEN {RateOf(plan) : plan \in Plans} ELSE {0},
         balance <- View(v), valid <- Defined(v)

(***************************************************************************)
(* As long as the input is readable, every version keeps a ledger: what    *)
(* its loops find under a number is an account that is opened once and     *)
(* changes by what is typed, and at most one account changes at a time.    *)
(***************************************************************************)
LedgersKept ==
    /\ \A v \in Versions : LedgerOf(v)!LedgerInit
    /\ [][\/ bank' = bank
          \/ \A v \in Versions :
               [LedgerOf(v)!LedgerNext]_<<View(v), Defined(v)>>]_<<bank, asked>>

(***************************************************************************)
(* The rewritings keep the behaviour: on the same readable input the       *)
(* versions 2 to 5 are in the same state, version 1 has the same accounts  *)
(* and shows the part of them that it is asked for, and version 6 differs  *)
(* in accounts with a rate only.                                           *)
(***************************************************************************)
VersionsAgree ==
    Defined("v2") =>
      /\ \A v \in {"v3", "v4", "v5"} : bank[v] = bank["v2"]
      /\ Defined("v1") /\ bank["v1"].accounts = bank["v2"].accounts
      /\ bank["v1"].screen \subseteq bank["v2"].screen
      /\ Defined("v6") =>
           /\ Len(bank["v6"].accounts) = Len(bank["v2"].accounts)
           /\ \A k \in DOMAIN bank["v2"].accounts :
                LET a == bank["v2"].accounts[k]
                    b == bank["v6"].accounts[k]
                IN  a.id = b.id /\ (b.rate = 0 => a.balance = b.balance)

(***************************************************************************)
(* The number of an account may be given again, but the money is never on  *)
(* the second account: it keeps its balance for ever.                      *)
(***************************************************************************)
SecondNeverMoves ==
    [][bank' # bank =>
         \A v \in Versions : \A k \in DOMAIN bank[v].accounts :
           ~IsFirst(bank[v].accounts, k, bank[v].accounts[k].id) /\ Defined(v)'
             => bank'[v].accounts[k] = bank[v].accounts[k]]_<<bank, asked>>

=============================================================================
