------------------------------ MODULE Merchant ------------------------------
(***************************************************************************)
(* The two pages of the merchant center of apps/web2 that change           *)
(* something: API keys (ApiKeysPage.tsx) and policies (PoliciesPage.tsx).  *)
(* Their dialogs are modal: while one is open nothing behind it is         *)
(* pressed, but the answer of an earlier call may still arrive.            *)
(*                                                                         *)
(* A key is a number.  The backend hands the secret of a key out once, in  *)
(* the answer to its creation; the answer may be lost.                     *)
(***************************************************************************)
EXTENDS Naturals, FiniteSets

CONSTANTS
    MaxKeys,        \* bound: the keys made
    MaxPolicies,    \* bound: the policies made
    MaxUnderWay     \* bound: the calls under way

ASSUME MerchantAssumption == MaxKeys \in Nat /\ MaxPolicies \in Nat

VARIABLES
    center,         \* the page shown: "keys" or "policies"
    keyPage,        \* the page of the keys
    policyPage,     \* the page of the policies: its dialog, its list
    merchantCalls,  \* the calls of both under way
    merchantStore   \* the keys and the policies of the tenant

merchantVars == <<center, keyPage, policyPage, merchantCalls, merchantStore>>

Keys == 1 .. MaxKeys

\* open: the key the dialog is about; secret: what it shows for one.
FreshKeyPage ==
    [named |-> FALSE, open |-> 0, secret |-> 0, copied |-> FALSE, listed |-> {}, stale |-> TRUE]

\* amount: the dialog's field is not empty.
FreshPolicyPage == [open |-> FALSE, amount |-> TRUE, listed |-> 0, stale |-> TRUE]

MerchantInit ==
    /\ center = "keys"
    /\ keyPage = FreshKeyPage
    /\ policyPage = FreshPolicyPage
    /\ merchantCalls = {}
    /\ merchantStore = [made |-> 0, revoked |-> {}, policies |-> 0]

\* A page is opened; the calls of the one before go on without it.
Move ==
    /\ center' \in {"keys", "policies"}
    /\ keyPage' = FreshKeyPage
    /\ policyPage' = FreshPolicyPage
    /\ merchantCalls' = {[c EXCEPT !.own = FALSE] : c \in merchantCalls}
    /\ UNCHANGED merchantStore

-----------------------------------------------------------------------------
(* Calls. *)

Pending(kind) == \E c \in merchantCalls : c.own /\ c.kind = kind

Place(kind, k) ==
    /\ Cardinality(merchantCalls) < MaxUnderWay
    /\ merchantCalls' = merchantCalls \cup
          {[kind |-> kind, key |-> k, state |-> "sent", own |-> TRUE]}

\* The backend makes the key, revokes it (once more), or makes the policy.
ServeMerchant(c) ==
    /\ c.state = "sent"
    /\ \/ /\ c.kind = "create" /\ merchantStore.made < MaxKeys
          /\ merchantStore' = [merchantStore EXCEPT !.made = @ + 1]
       \/ /\ c.kind = "revoke"
          /\ merchantStore' = [merchantStore EXCEPT !.revoked = @ \cup {c.key}]
       \/ /\ c.kind = "policy" /\ merchantStore.policies < MaxPolicies
          /\ merchantStore' = [merchantStore EXCEPT !.policies = @ + 1]
    /\ merchantCalls' = (merchantCalls \ {c}) \cup
          {[c EXCEPT !.state = "done", !.key = IF c.kind = "create" THEN merchantStore'.made ELSE @]}
    /\ UNCHANGED <<center, keyPage, policyPage>>

\* Refused, or answered in vain: a key that was made stays, and nobody has
\* its secret.
DropCall(c) ==
    /\ merchantCalls' = merchantCalls \ {c}
    /\ UNCHANGED <<center, keyPage, policyPage, merchantStore>>

Settled(c, kind) ==
    /\ c.kind = kind /\ c.state = "done"
    /\ merchantCalls' = merchantCalls \ {c}
    /\ UNCHANGED <<center, merchantStore>>

-----------------------------------------------------------------------------
(* API keys. *)

\* The dialog about a new key, which covers the page; and the table behind it,
\* whose rows that are not revoked have a button.
KeyDialog == keyPage.open # 0
KeyRows == keyPage.listed

OnKeys == center = "keys" /\ ~KeyDialog

TypeName ==
    /\ OnKeys
    /\ keyPage' = [keyPage EXCEPT !.named = ~@]
    /\ UNCHANGED <<center, policyPage, merchantCalls, merchantStore>>

\* Mutant: the button does not wait for the key under way.
GenerateAgain ==
    /\ OnKeys
    /\ keyPage.named
    /\ Place("create", 0)
    /\ UNCHANGED <<center, keyPage, policyPage, merchantStore>>

Generate ==
    /\ OnKeys
    /\ keyPage.named
    /\ ~Pending("create")
    /\ Place("create", 0)
    /\ UNCHANGED <<center, keyPage, policyPage, merchantStore>>

\* After a confirmation of the browser's.
Revoke ==
    /\ OnKeys
    /\ \E k \in KeyRows : Place("revoke", k)
    /\ UNCHANGED <<center, keyPage, policyPage, merchantStore>>

\* The answer to a creation calls the secret secret_key; the page reads
\* secret, which is not there.
CreateReply(k) == [id |-> k, secret_key |-> k]
SecretOf(reply) == IF "secret" \in DOMAIN reply THEN reply.secret ELSE 0

Created(c) ==
    /\ Settled(c, "create")
    /\ keyPage' = IF c.own THEN [keyPage EXCEPT !.open = c.key,
                                                !.secret = SecretOf(CreateReply(c.key)),
                                                !.named = FALSE, !.stale = TRUE]
                  ELSE [keyPage EXCEPT !.stale = TRUE]
    /\ UNCHANGED policyPage

Revoked(c) ==
    /\ Settled(c, "revoke")
    /\ keyPage' = [keyPage EXCEPT !.stale = TRUE]
    /\ UNCHANGED policyPage

\* The list, on arrival and after each answer.
ListKeys ==
    /\ center = "keys"
    /\ keyPage.stale
    /\ keyPage' = [keyPage EXCEPT !.stale = FALSE,
                                  !.listed = (1 .. merchantStore.made) \ merchantStore.revoked]
    /\ UNCHANGED <<center, policyPage, merchantCalls, merchantStore>>

\* The check mark stays for two seconds, and is the page's, not the dialog's.
CopySecret ==
    /\ KeyDialog
    /\ keyPage' = [keyPage EXCEPT !.copied = TRUE]
    /\ UNCHANGED <<center, policyPage, merchantCalls, merchantStore>>

CopiedOver ==
    /\ keyPage.copied
    /\ keyPage' = [keyPage EXCEPT !.copied = FALSE]
    /\ UNCHANGED <<center, policyPage, merchantCalls, merchantStore>>

\* "I've copied it", or a click outside.
Dismiss ==
    /\ KeyDialog
    /\ keyPage' = [keyPage EXCEPT !.open = 0, !.secret = 0]
    /\ UNCHANGED <<center, policyPage, merchantCalls, merchantStore>>

-----------------------------------------------------------------------------
(* Policies. *)

\* The dialog may be closed, and opened again, while its call is under way;
\* the answer then closes it.
ToggleDialog ==
    /\ center = "policies"
    /\ policyPage' = [policyPage EXCEPT !.open = ~@]
    /\ UNCHANGED <<center, keyPage, merchantCalls, merchantStore>>

TypeAmount ==
    /\ policyPage.open
    /\ policyPage' = [policyPage EXCEPT !.amount = ~@]
    /\ UNCHANGED <<center, keyPage, merchantCalls, merchantStore>>

CreatePolicy ==
    /\ policyPage.open /\ policyPage.amount
    /\ ~Pending("policy")
    /\ Place("policy", 0)
    /\ UNCHANGED <<center, keyPage, policyPage, merchantStore>>

PolicyCreated(c) ==
    /\ Settled(c, "policy")
    /\ policyPage' = [policyPage EXCEPT !.stale = TRUE, !.open = IF c.own THEN FALSE ELSE @]
    /\ UNCHANGED keyPage

\* The table below, with as many rows.
PolicyRows == policyPage.listed

\* The list, on arrival and after each answer.
ListPolicies ==
    /\ center = "policies"
    /\ policyPage.stale
    /\ policyPage' = [policyPage EXCEPT !.stale = FALSE, !.listed = merchantStore.policies]
    /\ UNCHANGED <<center, keyPage, merchantCalls, merchantStore>>

-----------------------------------------------------------------------------
MerchantNext ==
    \/ Move \/ TypeName \/ Generate \/ Revoke \/ ListKeys
    \/ CopySecret \/ CopiedOver \/ Dismiss \/ ToggleDialog \/ TypeAmount \/ CreatePolicy
    \/ ListPolicies
    \/ \E c \in merchantCalls :
          ServeMerchant(c) \/ DropCall(c) \/ Created(c) \/ Revoked(c) \/ PolicyCreated(c)

-----------------------------------------------------------------------------
(* Properties. *)

\* What is listed exists: nothing ever takes a policy away.
MerchantTypeOK ==
    /\ keyPage.open \in {0} \cup Keys
    /\ KeyRows \subseteq 1 .. merchantStore.made
    /\ policyPage \in [open : BOOLEAN, amount : BOOLEAN, listed : 0 .. MaxPolicies, stale : BOOLEAN]
    /\ PolicyRows <= merchantStore.policies
    /\ merchantStore \in [made : {0} \cup Keys, revoked : SUBSET Keys, policies : 0 .. MaxPolicies]

\* The dialog with a new key stays about that key until the merchant closes
\* it or leaves: no answer puts another key, or nothing, in its place
\* before the only look at the secret is over.
KeyStaysOpen ==
    [][keyPage.open # 0 /\ keyPage'.open # keyPage.open => keyPage'.open = 0]_merchantVars
=============================================================================
