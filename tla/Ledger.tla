-------------------------------- MODULE Ledger --------------------------------
(***************************************************************************)
(* What the bank programs promise: an account per number, which is opened  *)
(* once, and from then on only changes by what is paid in or taken out,    *)
(* and by interest on what is paid in.  Interest is worked out in float,   *)
(* off by MaxSlip parts in Precision, and loses less than one unit to      *)
(* rounding.                                                               *)
(***************************************************************************)
EXTENDS Integers

CONSTANTS
    Numbers,   \* of accounts
    Sums,      \* what can be paid or taken
    Rates,     \* percent
    Precision, MaxSlip,
    None       \* no balance: the account does not exist

VARIABLES
    balance,
    valid      \* the program is still defined, and its input readable

ledgerVars == <<balance, valid>>

LedgerInit == balance = [n \in Numbers |-> None] /\ valid = TRUE

Open(n) ==
    /\ valid /\ valid' /\ balance[n] = None
    /\ \E s \in Sums : balance' = [balance EXCEPT ![n] = s]

\* Rounding is towards zero, whatever the sign.
IsInterest(s, rate, extra) ==
    LET unit == 100 * Precision
        least == s * rate * (Precision - MaxSlip)
        most == s * rate * (Precision + MaxSlip)
    IN  IF s * rate >= 0
        THEN 0 <= extra /\ least - unit < extra * unit /\ extra * unit <= most
        ELSE extra <= 0 /\ most <= extra * unit /\ extra * unit < least + unit

Move(n) ==
    /\ valid /\ valid' /\ balance[n] # None
    /\ \E s \in Sums, rate \in Rates :
         \/ IsInterest(s, rate, balance'[n] - balance[n] - s)
         \/ balance'[n] = balance[n] - s
    /\ balance' = [balance EXCEPT ![n] = balance'[n]]

Fail == valid /\ ~valid'
Garbage == ~valid /\ ~valid'

LedgerNext == (\E n \in Numbers : Open(n) \/ Move(n)) \/ Fail \/ Garbage

LedgerSpec == LedgerInit /\ [][LedgerNext]_ledgerVars

=============================================================================
