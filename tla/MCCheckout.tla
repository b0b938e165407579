----------------------------- MODULE MCCheckout -----------------------------
(***************************************************************************)
(* Instances of Checkout for TLC.                                          *)
(***************************************************************************)
EXTENDS CheckoutInv, TLC

\* All rows and workers are interchangeable.
Alike == Permutations(Worker) \cup Permutations(Cart) \cup Permutations(Item)
         \cup Permutations(Quote) \cup Permutations(Order)
=============================================================================
