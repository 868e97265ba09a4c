------------------------------- MODULE ApiCalls -------------------------------
(***************************************************************************)
(* What the small services of the API have in common: calls in progress.   *)
(* A call is a chain of awaited statements with no transaction around it,  *)
(* so each slot of `call' holds one call between two awaits; calls in      *)
(* different slots interleave freely and may die at any await.             *)
(***************************************************************************)
EXTENDS Naturals, Sequences, FiniteSets

CONSTANTS
    Slot,  \* calls the API can be serving at the same time
    Faults \* TRUE: a call may die between two awaits

VARIABLE call

ASSUME ApiCallsAssumption == IsFiniteSet(Slot) /\ Slot # {} /\ Faults \in BOOLEAN

Free == [step |-> "free"]
NoCalls == [r \in Slot |-> Free]
At(r, s) == call[r].step = s
Begin(r, c) == At(r, "free") /\ call' = [call EXCEPT ![r] = c]
Proceed(r, s) == call' = [call EXCEPT ![r].step = s]
Return(r) == call' = [call EXCEPT ![r] = Free]

\* A statement or provider call throws, or the process dies: what the call has
\* written so far stays.
Abort(r) == Faults /\ ~At(r, "free") /\ Return(r)

\* Overlapping calls: how many can come between a call's read and its write.
Overlap == Cardinality(Slot) - 1
=============================================================================
