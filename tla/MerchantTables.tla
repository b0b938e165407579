--------------------------- MODULE MerchantTables ---------------------------
(***************************************************************************)
(* The pages of the merchant center of apps/web2 that only list: the       *)
(* products (AdminProductsPage.tsx), and those made of                     *)
(* AdminGenericPage.tsx.  A table whose route names an endpoint asks it;   *)
(* the others say that the backend has none.  All of them share one query  *)
(* client (external), which keeps an answer under the key it was asked for *)
(* until it is unused for a while.                                         *)
(***************************************************************************)

CONSTANT
    Tables          \* the tables opened, among those named below

VARIABLES
    table,          \* the table shown, or "elsewhere"
    questions,      \* what is asked: the key and the table it is for
    answers         \* what is kept: the key, whose answer it is, and what came

tableVars == <<table, questions, answers>>

Asking == {"orders", "categories", "growth", "products"}
Missing == {"audit", "customers"}

\* An answer: a list, an object with items, or neither (an empty list, or a
\* failure).  Each page reads some, and takes the rest for nothing there.
TableShapes == {"array", "items", "neither"}
GenericRows(shape) == shape \in {"array", "items"}
ProductRows(shape) == shape = "items"

TableInit == table = "elsewhere" /\ questions = {} /\ answers = {}

\* The endpoint.
TableKey(t) == t

AnswerOf(t) == {a \in answers : a.key = TableKey(t)}

OpenTable ==
    /\ table' \in (Tables \cup {"elsewhere"}) \ {table}
    /\ UNCHANGED <<questions, answers>>

\* The table shown asks its endpoint when it appears, and again whenever its
\* answer is stale; a key already asked for is not asked twice.
AskTable ==
    /\ table \in Asking
    /\ TableKey(table) \notin {q.key : q \in questions}
    /\ questions' = questions \cup {[key |-> TableKey(table), of |-> table]}
    /\ UNCHANGED <<table, answers>>

\* Answered, for the table shown or for one that was left.
TableAnswer(q) ==
    /\ questions' = questions \ {q}
    /\ \E shape \in TableShapes :
          answers' = {a \in answers : a.key # q.key} \cup
                        {[key |-> q.key, of |-> q.of, shape |-> shape]}
    /\ UNCHANGED table

\* Failed for good: what was kept stays.
TableFailed(q) ==
    /\ questions' = questions \ {q}
    /\ answers' = IF q.key \in {a.key : a \in answers} THEN answers
                  ELSE answers \cup {[key |-> q.key, of |-> q.of, shape |-> "neither"]}
    /\ UNCHANGED table

\* An answer no table shows is dropped.
DropAnswer ==
    /\ \E a \in answers \ AnswerOf(table) : answers' = answers \ {a}
    /\ UNCHANGED <<table, questions>>

\* What the table shows: that its endpoint is missing, that it waits, its
\* rows, or that there are none.
Displayed(t) ==
    CASE t \in Missing      -> "missing"
      [] AnswerOf(t) = {}   -> "loading"
      [] OTHER -> IF \E a \in AnswerOf(t) :
                        IF t = "products" THEN ProductRows(a.shape) ELSE GenericRows(a.shape)
                  THEN "rows" ELSE "empty"

TableNext ==
    \/ OpenTable \/ AskTable \/ DropAnswer
    \/ \E q \in questions : TableAnswer(q) \/ TableFailed(q)

-----------------------------------------------------------------------------
(* Properties. *)

TableTypeOK ==
    /\ table \in Tables \cup {"elsewhere"}
    /\ table \in Tables => Displayed(table) \in {"missing", "loading", "rows", "empty"}

\* The rows of a table are its own endpoint's, however fast the merchant goes
\* from table to table and however late the answers come: the tables share
\* one cache, and most of them one component.
OwnRows ==
    Displayed(table) = "rows" => \A a \in AnswerOf(table) : a.of = table
=============================================================================
