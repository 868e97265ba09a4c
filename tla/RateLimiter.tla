------------------------------- MODULE RateLimiter -------------------------------
(***************************************************************************)
(* RateLimiterService.consume: a fixed window per key in Redis.  INCR      *)
(* creates the counter, and only the call that saw it become 1 gives it    *)
(* its expiry, in a command of its own.                                    *)
(***************************************************************************)
EXTENDS ApiCalls

CONSTANTS LimitKey, \* the keys counted, e.g. one per user for sending codes
          Limit     \* calls allowed per window

VARIABLE windows \* per key, the Redis counter and what happened in its window

limiterVars == <<windows, call>>

\* count is capped one above the limit, where it no longer matters; ends: the key
\* has an expiry.  allowed and lost are history: calls let through in this window;
\* a call died before it could set the expiry.
Window == [count : 0..(Limit + 1), ends : BOOLEAN, allowed : Nat, lost : BOOLEAN]
Fresh == [count |-> 0, ends |-> FALSE, allowed |-> 0, lost |-> FALSE]
LimiterCall == [step : {"expire", "decide"}, key : LimitKey, count : 1..(Limit + 1)]

ASSUME LimiterAssumption == Limit \in Nat \ {0}

LimiterInit == windows = [k \in LimitKey |-> Fresh] /\ call = NoCalls

\* Mutant: the expiry is set by the call that reaches the limit.
IncrLate(r, k) ==
    LET n == IF windows[k].count > Limit THEN Limit + 1 ELSE windows[k].count + 1 IN
    /\ windows' = [windows EXCEPT ![k].count = n]
    /\ Begin(r, [step |-> IF n = Limit THEN "expire" ELSE "decide", key |-> k, count |-> n])

Incr(r, k) ==
    LET n == IF windows[k].count > Limit THEN Limit + 1 ELSE windows[k].count + 1 IN
    /\ windows' = [windows EXCEPT ![k].count = n]
    /\ Begin(r, [step |-> IF n = 1 THEN "expire" ELSE "decide", key |-> k, count |-> n])

Expire(r) ==
    /\ At(r, "expire")
    /\ windows' = [windows EXCEPT ![call[r].key].ends = TRUE]
    /\ Proceed(r, "decide")

\* The caller goes on or throws TooManyRequestsException.
Decide(r) ==
    LET c == call[r] IN
    /\ At(r, "decide")
    /\ windows' = IF c.count <= Limit THEN [windows EXCEPT ![c.key].allowed = @ + 1]
                  ELSE windows
    /\ Return(r)

\* The window is over, and Redis drops the key.  Bound: no call is between INCR
\* and its answer for the whole of a window.
WindowEnds(k) ==
    /\ windows[k].ends
    /\ ~\E r \in Slot : ~At(r, "free") /\ call[r].key = k
    /\ windows' = [windows EXCEPT ![k] = Fresh]
    /\ UNCHANGED call

AbortConsume(r) ==
    /\ Abort(r)
    /\ windows' = IF At(r, "expire") THEN [windows EXCEPT ![call[r].key].lost = TRUE]
                  ELSE windows

LimiterNext ==
    \/ \E r \in Slot : \/ \E k \in LimitKey : Incr(r, k)
                       \/ Expire(r) \/ Decide(r) \/ AbortConsume(r)
    \/ \E k \in LimitKey : WindowEnds(k)

LimiterSpec == LimiterInit /\ [][LimiterNext]_limiterVars

-----------------------------------------------------------------------------
(* Properties *)

\* Counters and calls have their shape.
LimiterTypeOK ==
    /\ windows \in [LimitKey -> Window]
    /\ \A r \in Slot : call[r] \in {Free} \cup LimiterCall

\* However calls overlap: a window lets no more than the limit through, and every
\* window that was opened ends, unless the one call that sets its expiry dies
\* first, which closes the key for good.
WindowsLimitAndEnd ==
    \A k \in LimitKey : LET w == windows[k] IN
        /\ w.allowed <= Limit
        /\ w.count > 0 /\ ~w.ends => w.lost \/ \E r \in Slot : At(r, "expire") /\ call[r].key = k

=============================================================================
