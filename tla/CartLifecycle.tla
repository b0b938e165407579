--------------------------- MODULE CartLifecycle ----------------------------
(***************************************************************************)
(* What shopping promises a customer: one cart at a time is open, its      *)
(* content is ordered once, as it stands, and a cart that was ordered is   *)
(* never touched again.                                                    *)
(***************************************************************************)
CONSTANTS Cart, None

VARIABLES
  stage,     \* the stage of each cart: "NONE", "ACTIVE", "CONVERTED"
  content,   \* its rows
  ordered    \* the lines of its order, None while it has none

vars == <<stage, content, ordered>>

Init ==
  /\ stage   = [c \in Cart |-> "NONE"]
  /\ content = [c \in Cart |-> {}]
  /\ ordered = [c \in Cart |-> None]

\* Only the content of c changes, to whatever it changes to.
FillOnly(c) == content' = [content EXCEPT ![c] = content'[c]]

Open(c) ==
  /\ \A d \in Cart : stage[d] # "ACTIVE"
  /\ stage[c] = "NONE"
  /\ stage' = [stage EXCEPT ![c] = "ACTIVE"]
  /\ FillOnly(c)
  /\ UNCHANGED ordered

Fill(c) ==
  /\ stage[c] = "ACTIVE"
  /\ FillOnly(c)
  /\ UNCHANGED <<stage, ordered>>

Convert(c) ==
  /\ stage[c] = "ACTIVE"
  /\ stage'   = [stage EXCEPT ![c] = "CONVERTED"]
  /\ ordered' = [ordered EXCEPT ![c] = content[c]]
  /\ UNCHANGED content

Next == \E c \in Cart : Open(c) \/ Fill(c) \/ Convert(c)

Spec == Init /\ [][Next]_vars
=============================================================================
