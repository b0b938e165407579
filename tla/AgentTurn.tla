----------------------------- MODULE AgentTurn -----------------------------
(***************************************************************************)
(* One turn of the shopping agent in the backend (run_shopping_agent in    *)
(* agents/orchestrator.py): the model (external) is asked, the tools it    *)
(* asks for are run and recorded, and it is asked again, five times at     *)
(* most.  Everything the turn stores, what its tools do to the cart        *)
(* included, is one transaction, committed once before the answer is       *)
(* returned.  A statement of a tool or of the audit may fail outside any   *)
(* savepoint: the error is caught, but the transaction is spoiled, and the *)
(* next statement of the turn fails instead.  The process may stop.        *)
(***************************************************************************)
EXTENDS Naturals

CONSTANTS
    MaxIterations,  \* MAX_ITERATIONS
    MaxTools        \* bound: the tools asked for in one answer of the model

ASSUME TurnAssumption == MaxIterations \in Nat /\ MaxTools \in Nat

VARIABLES
    turn,           \* where the turn is
    written,        \* the rows written since the last commit
    stored,         \* the rows committed
    reply           \* what the caller got: "none", "answer" or "error"

turnVars == <<turn, written, stored, reply>>

Iterations == 1 .. MaxIterations

\* The rows of a turn: for the tools, the iterations that have some.
NoRows == [user |-> 0, calls |-> {}, results |-> {}, cart |-> {}, answers |-> 0]

TurnInit ==
    /\ turn = [at |-> "idle", iteration |-> 0, tools |-> 0, spoiled |-> FALSE]
    /\ written = NoRows
    /\ stored = NoRows
    /\ reply = "none"

\* A prompt arrives; nothing makes it.
Prompted ==
    /\ turn.at = "idle"
    /\ turn' = [turn EXCEPT !.at = "begin"]
    /\ UNCHANGED <<written, stored, reply>>

\* An exception nobody catches ends the request: its session is rolled back.
Raise ==
    /\ turn' = [turn EXCEPT !.at = "over"]
    /\ written' = NoRows
    /\ reply' = "error"

\* A statement of the turn, which may fail, and does if the transaction is
\* spoiled.
Write(rows, next) ==
    \/ ~turn.spoiled /\ written' = rows /\ turn' = next /\ UNCHANGED reply
    \/ Raise

\* A statement has failed and its error was caught.
Spoil ==
    /\ ~turn.spoiled
    /\ turn' = [turn EXCEPT !.spoiled = TRUE]
    /\ UNCHANGED <<written, reply>>

\* The audit of the request, which may fail, the session and the prompt.
Begin ==
    /\ turn.at = "begin"
    /\ Write([written EXCEPT !.user = 1], [turn EXCEPT !.at = "model"]) \/ Spoil
    /\ UNCHANGED stored

\* Mutant: the iterations are not counted.
AskModelUncounted ==
    /\ turn.at = "model"
    /\ turn' \in {[turn EXCEPT !.at = "close"]} \cup
                 {[turn EXCEPT !.at = "tools", !.tools = n] : n \in 1 .. MaxTools}
    /\ UNCHANGED <<written, stored, reply>>

\* The model: an answer, an error (answered in its place), or tools to run;
\* after the last iteration an answer is made up.  The text of an answer may
\* be one that _parse_agent_response, or the use of its result, fails on.
AskModel ==
    /\ turn.at = "model"
    /\ \/ /\ turn' \in IF turn.iteration < MaxIterations
                       THEN {[turn EXCEPT !.at = "close", !.iteration = @ + 1]} \cup
                            {[turn EXCEPT !.at = "tools", !.iteration = @ + 1, !.tools = n] :
                                 n \in 1 .. MaxTools}
                       ELSE {[turn EXCEPT !.at = "close"]}
          /\ UNCHANGED <<written, reply>>
       \/ turn.iteration < MaxIterations /\ Raise
    /\ UNCHANGED stored

\* A tool is run: it changes the cart, in a savepoint of its own, or nothing;
\* then its call and its result are recorded, and the next one is run.  What a
\* tool raises is its result, and policies that cannot be read deny it; what
\* else is raised (by arguments that are no mapping, say, or by the policies'
\* evaluation) ends the turn as a failing statement does.
ToolRows ==
    {[written EXCEPT !.calls = @ \cup {turn.iteration}, !.results = @ \cup {turn.iteration},
                     !.cart = @ \cup changed] : changed \in SUBSET {turn.iteration}}

RunTool ==
    /\ turn.at = "tools" /\ turn.tools > 0
    /\ \/ \E rows \in ToolRows : Write(rows, [turn EXCEPT !.tools = @ - 1])
       \/ Spoil
    /\ UNCHANGED stored

NextIteration ==
    /\ turn.at = "tools" /\ turn.tools = 0
    /\ turn' = [turn EXCEPT !.at = "model"]
    /\ UNCHANGED <<written, stored, reply>>

\* The answer is stored with all there is, in the turn's only commit, which
\* may fail.
CloseInTwo ==
    /\ turn.at = "close"
    /\ \/ /\ stored' = written
          /\ written' = [NoRows EXCEPT !.answers = 1]
          /\ turn' = [turn EXCEPT !.at = "audit"]
          /\ UNCHANGED reply
       \/ Raise /\ UNCHANGED stored

Close ==
    /\ turn.at = "close"
    /\ \/ /\ stored' = [written EXCEPT !.answers = 1]
          /\ written' = NoRows
          /\ turn' = [turn EXCEPT !.at = "audit"]
          /\ UNCHANGED reply
       \/ Raise /\ UNCHANGED stored

\* The audit of the finished turn is written after the commit and never
\* committed itself; then the caller has the answer.  When writing it fails
\* the exception is caught, but the rollback has expired the session row whose
\* id the result still reads, and the caller has an error.
AuditAndReply ==
    /\ turn.at = "audit"
    /\ turn' = [turn EXCEPT !.at = "over"]
    /\ written' = NoRows
    /\ reply' \in {"answer", "error"}
    /\ UNCHANGED stored

\* The process stops: what is not committed is gone.
Stop ==
    /\ turn.at \notin {"idle", "over"}
    /\ turn' = [turn EXCEPT !.at = "over"]
    /\ written' = NoRows
    /\ UNCHANGED <<stored, reply>>

TurnStep == Begin \/ AskModel \/ RunTool \/ NextIteration \/ Close \/ AuditAndReply
TurnNext == Prompted \/ TurnStep \/ Stop

\* The server goes on with the turn it has begun.
TurnFairness == WF_turnVars(TurnStep)

-----------------------------------------------------------------------------
(* Properties. *)

TurnTypeOK ==
    /\ turn.at \in {"idle", "begin", "model", "tools", "close", "audit", "over"}
    /\ turn.iteration \in 0 .. MaxIterations
    /\ written.calls \subseteq Iterations
    /\ reply \in {"none", "answer", "error"}

\* A turn is stored whole or not at all: what was asked, one answer, a result
\* for the tool calls, and of the cart only what a recorded call changed.
\* Whoever has the answer finds the turn in the session the next time, and
\* before the commit nothing is found, however the turn stops (the one commit
\* of run_shopping_agent is its last statement but the audit; an error of the
\* audit comes after it and leaves the turn stored).
TurnStoredWhole ==
    /\ stored # NoRows =>
          /\ stored.user = 1 /\ stored.answers = 1
          /\ stored.results = stored.calls
          /\ stored.cart \subseteq stored.calls
    /\ reply = "answer" => stored # NoRows
    /\ turn.at \notin {"audit", "over"} => stored = NoRows

\* A turn that has begun ends, whatever the model asks for and whatever its
\* tools do (the loop of run_shopping_agent asks the model five times).
TurnEnds == turn.at = "begin" ~> turn.at = "over"
=============================================================================
