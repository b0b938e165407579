-------------------------------- MODULE Ssr --------------------------------
(***************************************************************************)
(* How the server of apps/web2 answers for a page: server.ts around the    *)
(* framework, the error middleware of start.ts inside it, and the single   *)
(* slot of lib/error-capture.ts, into which whatever reaches console.error *)
(* is recorded if it is an Error, and from which server.ts takes it again. *)
(*                                                                         *)
(* The framework (external) loads its entry on the first request, lets a   *)
(* handler throw, and turns a throw with a status code, or one past the    *)
(* middleware, into an opaque JSON answer of its own after logging it.  It *)
(* sends a page as a stream, and logs what fails while that goes on.       *)
(* An error is the number of the request it belongs to, 0 of none.         *)
(***************************************************************************)
EXTENDS Naturals

CONSTANTS
    Visits,         \* the requests for a page: numbers from 1
    MaxAge          \* bound: the ticks an error is kept

ASSUME SsrAssumption == Visits \subseteq Nat \ {0} /\ MaxAge \in Nat

VARIABLES
    entry,          \* the promise of the server entry
    visit,          \* where each request is
    slot,           \* lastCapturedError: whose, and how old
    logged,         \* for each request that was swallowed, the error logged
    bare,           \* history: the requests swallowed for what is no Error
    crowded         \* two requests have been in the server at once

ssrVars == <<entry, visit, slot, logged, bare, crowded>>

\* An error has expired at MaxAge: the clock is followed only that far.
NoError == [of |-> 0, age |-> MaxAge]
Record(e) == [of |-> e, age |-> 0]

\* console.error of what was thrown for a request: recorded only if an Error.
Thrown(v) == {slot, Record(v)}

SsrInit ==
    /\ entry = "none"
    /\ visit = [v \in Visits |-> "away"]
    /\ slot = NoError
    /\ logged = [v \in Visits |-> 0]
    /\ bare = {}
    /\ crowded = FALSE

At(v, from, to) == visit[v] = from /\ visit' = [visit EXCEPT ![v] = to]

\* Answered with the error page, whose button reloads: another request.
ErrorPage(v, from) == At(v, from, "errorPage")

-----------------------------------------------------------------------------
\* A request comes in; nothing makes it.
Come(v) ==
    /\ At(v, "away", "waiting")
    /\ UNCHANGED <<entry, slot, logged, bare, crowded>>

\* getServerEntry: the first request starts the import, whose promise all
\* others share, the rejected one too.
Import ==
    /\ entry = "none"
    /\ \E v \in Visits : visit[v] = "waiting"
    /\ entry' \in {"loaded", "failed"}
    /\ UNCHANGED <<visit, slot, logged, bare, crowded>>

Enter(v) ==
    /\ entry = "loaded"
    /\ At(v, "waiting", "handling")
    /\ crowded' = (crowded \/ \E w \in Visits : visit[w] \in {"handling", "opaque", "streaming"})
    /\ UNCHANGED <<entry, slot, logged, bare>>

\* Mutant: the rejected import is not caught.
EntryUncaught(v) ==
    /\ entry = "failed"
    /\ At(v, "waiting", "dropped")
    /\ UNCHANGED <<entry, slot, logged, bare, crowded>>

\* catch: the error is logged, which records it, and the error page sent.
EntryFails(v) ==
    /\ entry = "failed"
    /\ ErrorPage(v, "waiting")
    /\ slot' \in Thrown(v)
    /\ UNCHANGED <<entry, logged, bare, crowded>>

\* The handler answers: a page, which may still be streamed, or an answer of
\* its own that says what went wrong (a 404, a 500 that is not the framework's).
Handled(v) ==
    /\ At(v, "handling", "page") \/ At(v, "handling", "streaming")
    /\ UNCHANGED <<entry, slot, logged, bare, crowded>>

\* The stream ends, with what failed logged.
Streamed(v) ==
    /\ At(v, "streaming", "page")
    /\ slot' \in Thrown(v)
    /\ UNCHANGED <<entry, logged, bare, crowded>>

\* It throws an error without a status code: the middleware logs it and
\* answers with the error page.
Caught(v) ==
    /\ ErrorPage(v, "handling")
    /\ slot' \in Thrown(v)
    /\ UNCHANGED <<entry, logged, bare, crowded>>

\* Mutant: what the framework logs is not recorded.
SwallowedUnseen(v) ==
    /\ At(v, "handling", "opaque")
    /\ UNCHANGED <<entry, slot, logged, bare, crowded>>

\* It throws one with a status code, which the middleware passes on, or
\* outside of the middleware: the framework swallows it.
Swallowed(v) ==
    /\ At(v, "handling", "opaque")
    /\ \/ slot' = Record(v) /\ bare' = bare
       \/ slot' = slot /\ bare' = bare \cup {v}
    /\ UNCHANGED <<entry, logged, crowded>>

\* consumeLastCapturedError: the error of the slot if it is recent, and the
\* slot is empty.
Consumed == IF slot.age < MaxAge THEN slot.of ELSE 0

\* What is in the slot once that is logged: the same error again, or the one
\* made up when nothing was captured.  The listeners capture what is no Error
\* too, and even nothing at all.
Logged(v) ==
    IF slot.age = MaxAge THEN {Record(v)}
    ELSE IF slot.of = 0 THEN {Record(0), Record(v), NoError}
    ELSE {Record(slot.of)}

\* The opaque answer, and no other, is exchanged for the error page.
Normalize(v) ==
    /\ ErrorPage(v, "opaque")
    /\ logged' = [logged EXCEPT ![v] = Consumed]
    /\ slot' \in Logged(v)
    /\ UNCHANGED <<entry, bare, crowded>>

\* An error no request belongs to, recorded by the listeners.
Stray ==
    /\ slot # Record(0)
    /\ slot' = Record(0)
    /\ UNCHANGED <<entry, visit, logged, bare, crowded>>

Age ==
    /\ slot.age < MaxAge
    /\ slot' = [slot EXCEPT !.age = @ + 1]
    /\ UNCHANGED <<entry, visit, logged, bare, crowded>>

\* The server goes on with the requests it has.
SsrProgress ==
    \/ Import
    \/ \E v \in Visits :
          \/ Enter(v) \/ EntryFails(v) \/ Handled(v) \/ Streamed(v)
          \/ Caught(v) \/ Swallowed(v) \/ Normalize(v)

SsrNext == SsrProgress \/ Stray \/ Age \/ \E v \in Visits : Come(v)

SsrFairness == WF_ssrVars(SsrProgress)

-----------------------------------------------------------------------------
(* Properties. *)

SsrTypeOK ==
    /\ entry \in {"none", "loaded", "failed"}
    /\ visit \in [Visits -> {"away", "waiting", "handling", "opaque", "streaming", "page",
                             "errorPage"}]
    /\ slot \in [of : {0} \cup Visits, age : 0 .. MaxAge]

\* Every visitor is answered, with a page or with the error page: also after
\* the import has failed, and never with the framework's opaque JSON.
EveryVisitAnswered ==
    \A v \in Visits : (visit[v] = "waiting") ~> (visit[v] \in {"streaming", "page", "errorPage"})

\* With one request in the server at a time, until its stream has ended, the
\* error logged for one that was swallowed is no other request's: what earlier
\* requests left in the slot is overwritten first.  That fails for what is
\* thrown and is no Error, which is not recorded, and for two at a time, which
\* may log each other's (hazard).
OwnErrorWhenAlone == crowded \/ \A v \in Visits \ bare : logged[v] \in {0, v}
=============================================================================
