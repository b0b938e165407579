----------------------------- MODULE RateLimit -----------------------------
(***************************************************************************)
(* The limit on sign-ins and sign-ups per address (core/rate_limit.py): a  *)
(* counter in Redis for each address and each window of the clock.  One    *)
(* address is followed.                                                    *)
(*                                                                         *)
(* A request reads the clock, then runs INCR and EXPIRE in one pipeline,   *)
(* which Redis (external) executes at once, but whenever it gets there:    *)
(* the client has no time limit.  Redis may be out of reach, and may lose  *)
(* its counters when it restarts.                                          *)
(***************************************************************************)
EXTENDS Naturals, FiniteSets, FiniteSetsExt

CONSTANTS
    Limit,          \* self.requests: admitted per window
    Window,         \* self.window, in ticks
    Horizon,        \* bound: the ticks followed
    MaxWaiting      \* bound: the requests between the clock and Redis

ASSUME RateAssumption ==
    Limit \in Nat /\ Window \in Nat \ {0} /\ Horizon \in Nat /\ MaxWaiting \in Nat

VARIABLES
    now,
    waiting,        \* how many requests of each tick wait for Redis
    counter,        \* the keys of Redis: count and tick of expiry
    admitted,       \* how many requests of each tick were let in by the count
    forgotten,      \* Redis has lost a counter
    late            \* history: a request was counted when the counter of its
                    \* window may have expired

rateVars == <<now, waiting, counter, admitted, forgotten, late>>

Ticks == 0 .. Horizon
WindowOf(t) == t \div Window
NoKey == [count |-> 0, until |-> 0]

RateInit ==
    /\ now = 0
    /\ waiting = [t \in Ticks |-> 0]
    /\ counter = [w \in {WindowOf(t) : t \in Ticks} |-> NoKey]
    /\ admitted = [t \in Ticks |-> 0]
    /\ forgotten = FALSE
    /\ late = FALSE

Total(f, S) == FoldSet(LAMBDA t, sum : f[t] + sum, 0, S)

\* Bound: once its counter has refused one, a window has no more requests.
Arrive ==
    /\ Total(waiting, Ticks) < MaxWaiting
    /\ counter[WindowOf(now)].count <= Limit
    /\ waiting' = [waiting EXCEPT ![now] = @ + 1]
    /\ UNCHANGED <<now, counter, admitted, forgotten, late>>

\* Mutant: the count before the increment decides.
AllowedBefore(count) == count - 1 <= Limit

\* check: the count after the increment decides.
Allowed(count) == count <= Limit

\* A counter is kept for two windows from its last request on.
Check(t) ==
    LET w == WindowOf(t)
        count == counter[w].count + 1
    IN  /\ waiting[t] > 0
        /\ waiting' = [waiting EXCEPT ![t] = @ - 1]
        /\ counter' = [counter EXCEPT ![w] = [count |-> count, until |-> now + 2 * Window]]
        /\ admitted' = [admitted EXCEPT ![t] = IF Allowed(count) THEN @ + 1 ELSE @]
        /\ late' = (late \/ now >= (w + 2) * Window)
        /\ UNCHANGED <<now, forgotten>>

\* Redis cannot be reached, or times out: the request is let in uncounted.
Unchecked(t) ==
    /\ waiting[t] > 0
    /\ waiting' = [waiting EXCEPT ![t] = @ - 1]
    /\ UNCHANGED <<now, counter, admitted, forgotten, late>>

\* Once is enough: nothing is promised after.
Restart ==
    /\ ~forgotten
    /\ counter' = [w \in DOMAIN counter |-> NoKey]
    /\ forgotten' = TRUE
    /\ UNCHANGED <<now, waiting, admitted, late>>

\* Time passes; keys expire.
Pass ==
    /\ now < Horizon
    /\ now' = now + 1
    /\ counter' = [w \in DOMAIN counter |->
                      IF counter[w].until <= now' THEN NoKey ELSE counter[w]]
    /\ UNCHANGED <<waiting, admitted, forgotten, late>>

RateNext ==
    \/ Arrive \/ Restart \/ Pass
    \/ \E t \in Ticks : Check(t) \/ Unchecked(t)

-----------------------------------------------------------------------------
(* Properties. *)

RateTypeOK ==
    /\ now \in Ticks
    /\ waiting \in [Ticks -> 0 .. MaxWaiting]
    /\ admitted \in [Ticks -> Nat]

\* Over any stretch of a window's length, wherever it begins, at most twice
\* the limit is let in on the count, though a request may reach its counter in
\* a later window than the one it came in.  That ends when Redis loses its
\* counters, and with a request that reaches Redis more than a window after its
\* own: the counter may have expired, and starts again.  (Those let in because
\* Redis cannot be reached are not on the count.)
TwiceAtMost ==
    forgotten \/ late \/ \A t \in Ticks :
        Total(admitted, {u \in Ticks : t <= u /\ u < t + Window}) <= 2 * Limit
=============================================================================
