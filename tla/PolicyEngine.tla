---------------------------- MODULE PolicyEngine ----------------------------
(***************************************************************************)
(* The policies of a tenant and their evaluation                           *)
(* (services/policy_engine.py).  One query reads the active policies, in   *)
(* no order the code asks for; a loop then goes through them and stops at  *)
(* the first that denies.  What is judged is an action with a context,     *)
(* from which the caller may leave things out.                             *)
(*                                                                         *)
(* The policies the merchant center makes are of a type no clause of the   *)
(* loop names (PoliciesPage.tsx:24): they are among the "other" ones here, *)
(* and so are the actions the checkout and the tools of the agent ask      *)
(* about: none of them is PAYMENT or DISCOUNT.                             *)
(***************************************************************************)
EXTENDS Integers, FiniteSets, Sequences, SequencesExt

CONSTANTS
    PolicyIds,      \* the policies a tenant may have
    Levels          \* amounts and discounts: some numbers

ASSUME PolicyAssumption == IsFiniteSet(PolicyIds) /\ Levels \subseteq Nat

VARIABLES
    policies,       \* the table
    judged          \* the request just judged, with the verdict

policyVars == <<policies, judged>>

\* A rule or a piece of context that is not there.
Absent == -1

Policy ==
    [type : {"TRANSACTION_LIMIT", "DISCOUNT_LIMIT"}, limit : Levels \cup {Absent},
     required : {FALSE}, active : BOOLEAN]
    \cup [type : {"CONFIRMATION_REQUIREMENT"}, limit : {Absent},
          required : BOOLEAN, active : BOOLEAN]
    \cup [type : {"other"}, limit : {Absent}, required : {FALSE}, active : BOOLEAN]

NoPolicy == [type |-> "none", limit |-> Absent, required |-> FALSE, active |-> FALSE]

PolicyRequests ==
    [action : {"PAYMENT", "DISCOUNT", "other"}, amount : Levels \cup {Absent},
     confirmed : BOOLEAN, discount : Levels \cup {Absent}]

NotJudged == [verdict |-> "none"]

PolicyInit ==
    /\ policies = [i \in PolicyIds |-> NoPolicy]
    /\ judged = NotJudged

\* Created, or any field of it updated; between two evaluations, each of which
\* reads the table once.
WritePolicy ==
    /\ judged = NotJudged
    /\ \E i \in PolicyIds, p \in Policy : policies' = [policies EXCEPT ![i] = p]
    /\ UNCHANGED judged

-----------------------------------------------------------------------------
(* Evaluation. *)

ActivePolicies == {policies[i] : i \in {j \in PolicyIds : policies[j].active}}

\* The clauses of the loop, one per type of policy.
DeniesAmount(p, r) ==
    /\ p.type = "TRANSACTION_LIMIT" /\ r.action = "PAYMENT"
    /\ p.limit # Absent
    /\ (r.amount = Absent \/ r.amount > p.limit)

DeniesUnconfirmed(p, r) ==
    /\ p.type = "CONFIRMATION_REQUIREMENT" /\ r.action = "PAYMENT"
    /\ p.required
    /\ ~r.confirmed

DeniesDiscount(p, r) ==
    /\ p.type = "DISCOUNT_LIMIT" /\ r.action \in {"DISCOUNT", "PAYMENT"}
    /\ p.limit # Absent /\ r.discount # Absent
    /\ r.discount > p.limit

Denies(p, r) == DeniesAmount(p, r) \/ DeniesUnconfirmed(p, r) \/ DeniesDiscount(p, r)

\* Evaluating a policy fails when it compares what cannot be compared (rules
\* and contexts hold any JSON), or when the audit of its denial is not written.
MayRaise(p, r) ==
    \/ p.type = "TRANSACTION_LIMIT" /\ r.action = "PAYMENT"
       /\ Absent \notin {p.limit, r.amount}
    \/ p.type = "DISCOUNT_LIMIT" /\ r.action \in {"DISCOUNT", "PAYMENT"}
       /\ Absent \notin {p.limit, r.discount}
    \/ DeniesUnconfirmed(p, r)

\* Mutant: a policy that has something to say and does not deny ends the loop.
VerdictOfFirst(list, r) ==
    LET go[i \in 1 .. Len(list) + 1] ==
            IF i > Len(list) THEN "ALLOW"
            ELSE IF Denies(list[i], r) THEN "DENY"
            ELSE IF list[i].limit >= 0 THEN "ALLOW"
            ELSE go[i + 1]
    IN  go[1]

\* The loop, over the rows in the order they came.
Verdict(list, r) ==
    LET go[i \in 1 .. Len(list) + 1] ==
            IF i > Len(list) THEN "ALLOW"
            ELSE IF Denies(list[i], r) THEN "DENY"
            ELSE go[i + 1]
    IN  go[1]

\* evaluate: a query that fails denies; a policy that fails, whichever comes
\* first, leaves the caller with an exception.
Judge ==
    /\ judged = NotJudged
    /\ \E r \in PolicyRequests :
          \/ \E list \in SetToSeqs(ActivePolicies) :
                judged' = [verdict |-> Verdict(list, r), request |-> r, read |-> TRUE]
          \/ /\ \E p \in ActivePolicies : MayRaise(p, r)
             /\ judged' = [verdict |-> "raised", request |-> r, read |-> TRUE]
          \/ judged' = [verdict |-> "DENY", request |-> r, read |-> FALSE]
    /\ UNCHANGED policies

Report ==
    /\ judged # NotJudged
    /\ judged' = NotJudged
    /\ UNCHANGED policies

PolicyNext == WritePolicy \/ Judge \/ Report

-----------------------------------------------------------------------------
(* Properties. *)

PolicyTypeOK == \A i \in PolicyIds : policies[i] \in Policy \cup {NoPolicy}

\* What a policy lets through, for a request it concerns: a payment within
\* its amount, a confirmed one, a discount within its percentage, or a
\* request that has none.
LetsThrough(p, r) ==
    CASE p.type = "TRANSACTION_LIMIT" /\ r.action = "PAYMENT" ->
            p.limit = Absent \/ r.amount \in 0 .. p.limit
      [] p.type = "CONFIRMATION_REQUIREMENT" /\ r.action = "PAYMENT" ->
            p.required => r.confirmed
      [] p.type = "DISCOUNT_LIMIT" /\ r.action # "other" ->
            p.limit = Absent \/ r.discount <= p.limit
      [] OTHER -> TRUE

\* "Fail closed (DENY) if any policy is violated" (policy_engine.py:56), and
\* only then, if there is a verdict: it does not depend on the order the rows
\* came in or on what the policies before a violated one let through, and an
\* amount or a confirmation that the caller left out of a payment denies.  A
\* discount left out is let through, whatever the limit.
DeniedIffViolated ==
    judged.verdict \notin {"none", "raised"} =>
        (judged.verdict = "ALLOW" <=>
            /\ judged.read
            /\ \A p \in ActivePolicies : LetsThrough(p, judged.request))
=============================================================================
