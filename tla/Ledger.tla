---------------------------------- MODULE Ledger ----------------------------------
(***************************************************************************)
(* What a prepaid click budget promises its employer: money comes in by    *)
(* payments of the advertised amounts, goes out one click at a time, and   *)
(* never below nothing.  Overlapping notices of the first payment may make *)
(* the balance start over from the opening amount.                         *)
(***************************************************************************)
EXTENDS Naturals

CONSTANTS
    Price,  \* of one click
    Amount, \* what one payment may credit
    Opening \* what the first payment credits

VARIABLES
    balance, billed, credited,
    overlapped \* two notices of the first payment have overlapped

ledgerVars == <<balance, billed, credited, overlapped>>

LedgerInit == balance = 0 /\ billed = 0 /\ credited = 0 /\ overlapped = FALSE

Credit(amount) ==
    /\ balance' = balance + amount /\ credited' = credited + amount
    /\ UNCHANGED <<billed, overlapped>>

BillClick ==
    /\ balance >= Price
    /\ balance' = balance - Price /\ billed' = billed + 1
    /\ UNCHANGED <<credited, overlapped>>

NoticesOverlap == overlapped' = TRUE /\ UNCHANGED <<balance, billed, credited>>

StartOver ==
    /\ overlapped
    /\ balance' = Opening /\ credited' = credited + Opening
    /\ UNCHANGED <<billed, overlapped>>

LedgerNext == BillClick \/ NoticesOverlap \/ StartOver \/ \E amount \in Amount : Credit(amount)

LedgerSpec == LedgerInit /\ [][LedgerNext]_ledgerVars

=============================================================================
