---------------------------- MODULE FindOrInsert ----------------------------
(***************************************************************************)
(* The two operations of the backend that look for a row and insert it     *)
(* when there is none, with no constraint to stop a second one: the stock  *)
(* of a product (InventoryRepository.upsert; its unique constraint does    *)
(* not hold for a NULL variant, and the route names no other) and the      *)
(* variant of a visitor in an experiment (participate_in_experiment).      *)
(* One product and one visitor are followed.                               *)
(*                                                                         *)
(* A request is split at its statements; only its commit is seen by        *)
(* others, and it may be refused or stopped before that.                   *)
(***************************************************************************)
EXTENDS Naturals, FiniteSets

CONSTANTS
    Callers,        \* request slots
    Quantities,     \* the stocks a merchant may set
    Variants,       \* the variants of the experiment
    MaxRows         \* bound: the rows inserted of each kind

ASSUME FirstAssumption == MaxRows \in Nat

VARIABLES
    tableOf,        \* the rows of each kind: a number and what the row says
    inserted,       \* how many have been inserted of each kind
    caller,         \* what each request does, and the row it has found
    told,           \* what the visitor was told he sees
    overlapping     \* the kinds two requests have worked on at once

firstVars == <<tableOf, inserted, caller, told, overlapping>>

Kinds == {"stock", "participant"}
Says(kind) == IF kind = "stock" THEN Quantities ELSE Variants

NoRow == 0
IdleCaller == [kind |-> "none", found |-> NoRow]

FirstInit ==
    /\ tableOf = [k \in Kinds |-> {}]
    /\ inserted = [k \in Kinds |-> 0]
    /\ caller = [c \in Callers |-> IdleCaller]
    /\ told = {}
    /\ overlapping = {}

\* The look-up: with two rows scalar_one_or_none raises, now and ever after.
Find(c, kind) ==
    /\ caller[c] = IdleCaller
    /\ Cardinality(tableOf[kind]) <= 1
    /\ \E found \in IF tableOf[kind] = {} THEN {NoRow} ELSE {r.id : r \in tableOf[kind]} :
          caller' = [caller EXCEPT ![c] = [kind |-> kind, found |-> found]]
    /\ overlapping' = overlapping \cup
          {k \in {kind} : \E d \in Callers : caller[d].kind = k}
    /\ UNCHANGED <<tableOf, inserted, told>>

\* What a caller learns at the end: the visitor his variant.
Learn(kind, value) == told' = IF kind = "participant" THEN told \cup {value} ELSE told

Done(c) == caller' = [caller EXCEPT ![c] = IdleCaller] /\ UNCHANGED overlapping

\* Mutant: a row is inserted whether or not one was found.
InsertAlways(c, kind) ==
    /\ caller[c].kind = kind
    /\ inserted[kind] < MaxRows
    /\ inserted' = [inserted EXCEPT ![kind] = @ + 1]
    /\ \E value \in Says(kind) :
          /\ tableOf' = [tableOf EXCEPT ![kind] = @ \cup {[id |-> inserted'[kind], says |-> value]}]
          /\ Learn(kind, value)
    /\ Done(c)

\* None was found: the merchant's stock, or a variant drawn at random.
Insert(c, kind) ==
    /\ caller[c].kind = kind /\ caller[c].found = NoRow
    /\ inserted[kind] < MaxRows
    /\ inserted' = [inserted EXCEPT ![kind] = @ + 1]
    /\ \E value \in Says(kind) :
          /\ tableOf' = [tableOf EXCEPT ![kind] = @ \cup {[id |-> inserted'[kind], says |-> value]}]
          /\ Learn(kind, value)
    /\ Done(c)

\* One was found: its stock is set by primary key.
SetFound(c) ==
    /\ caller[c].kind = "stock" /\ caller[c].found # NoRow
    /\ \E value \in Quantities :
          tableOf' = [tableOf EXCEPT !["stock"] =
              {IF r.id = caller[c].found THEN [r EXCEPT !.says = value] ELSE r : r \in @}]
    /\ Done(c)
    /\ UNCHANGED <<inserted, told>>

\* One was found: the visitor keeps his variant.
KeepFound(c) ==
    /\ caller[c].kind = "participant" /\ caller[c].found # NoRow
    /\ \E r \in tableOf["participant"] : r.id = caller[c].found /\ Learn("participant", r.says)
    /\ Done(c)
    /\ UNCHANGED <<tableOf, inserted>>

\* Refused, or stopped: nothing is committed, nobody is told.
GiveUp(c) ==
    /\ caller[c] # IdleCaller
    /\ Done(c)
    /\ UNCHANGED <<tableOf, inserted, told>>

FirstNext ==
    \E c \in Callers :
        \/ \E kind \in Kinds : Find(c, kind) \/ Insert(c, kind)
        \/ SetFound(c) \/ KeepFound(c) \/ GiveUp(c)

-----------------------------------------------------------------------------
(* Properties. *)

FirstTypeOK ==
    /\ \A k \in Kinds : tableOf[k] \subseteq [id : 1 .. MaxRows, says : Says(k)]
    /\ told \subseteq Variants
    /\ overlapping \subseteq Kinds

\* A product has one stock and a visitor one variant, the one he is told
\* again and again, as long as no two requests look for the row at once.
\* When they do there may be two, and every later look-up raises (hazard).
OneRowAlone ==
    /\ \A k \in Kinds \ overlapping : Cardinality(tableOf[k]) <= 1
    /\ "participant" \notin overlapping =>
          told \in {{}, {r.says : r \in tableOf["participant"]}}
=============================================================================
