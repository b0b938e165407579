------------------------------ MODULE PagesInv ------------------------------
(***************************************************************************)
(* The inductive invariants behind the properties of the pages of          *)
(* apps/web2.                                                              *)
(***************************************************************************)
EXTENDS Session, CheckoutPage, Assistant, Browse, Merchant, MerchantTables

-----------------------------------------------------------------------------
(* Buying. *)

\* An order is of a quote that was made, of a cart that is used up; it is asked
\* to be paid for only when it exists.
BackendOK ==
    /\ backend \in [cart : Cart, filled : BOOLEAN, quotes : {0} \cup Quote,
                    cartOf : [Quote -> {0} \cup Cart], orders : SUBSET Quote,
                    asked : [Quote -> Nat], created : SUBSET Quote]
    /\ \A q \in Quote : q > backend.quotes => backend.cartOf[q] = 0
    /\ \A o \in backend.orders : backend.cartOf[o] \in 1 .. (backend.cart - 1)
    /\ \A o \in Quote : backend.asked[o] # 0 => o \in backend.orders
    /\ backend.created \subseteq backend.orders

Settles(c) == c.kind = "confirm" /\ c.state = "done"

\* A call is about what its kind says; the answer to a confirmation is the order,
\* which nobody has asked to be paid for, and is given once.
CallsOK ==
    /\ \A c \in calls :
         /\ c.kind \in {"confirm", "payment"} => c.of \in Quote
         /\ c.kind = "quote" /\ c.state = "done" => c.result \in Quote
         /\ Settles(c) => /\ c.result = c.of /\ c.of \in backend.orders
                          /\ backend.asked[c.of] = 0
         /\ c.kind = "payment" /\ c.state = "done" => c.of \in backend.created
    /\ \A c, d \in calls : Settles(c) /\ Settles(d) /\ c.of = d.of => c = d

\* The page waits for one call at most, that for a payment is for its order, and
\* it waits for none when it has the payment.
PageOK ==
    /\ \A c, d \in calls : c.own /\ d.own => c = d
    /\ \A c \in calls : c.own /\ c.kind = "payment" => c.of = wiz.order
    /\ wiz.step = 4 => wiz.quote # 0
    /\ wiz.step = 5 => Idle

FlowInv == FlowTypeOK /\ BackendOK /\ CallsOK /\ PageOK /\ PaidForOnce /\ ReceivedMeansCreated

-----------------------------------------------------------------------------
(* The session of a document. *)

DataKinds == {"query", "catalog"}
FormKinds == {"login", "register", "tenants"}

\* Until a document is replaced, or once a form that was left has signed in,
\* nothing is said of whose it is.
Settling(d) == d.leaving \/ d.overtaken

\* What a request was stamped with: the session of the document, or none.
RequestsOK(d) ==
    \A r \in d.reqs :
        /\ r.accepted => r.cred.token # 0
        /\ r.kind \in DataKinds =>
              r.cred \in Credentials /\ (Settling(d) \/ r.cred \in {d.auth, Nobody})
        /\ r.mine => r.kind \in FormKinds /\ d.page \in AsksForNone

\* The document of a form has asked for nothing in the name of the session it
\* begins, nor in that of an earlier one.
FormOK(d) ==
    /\ d.form.mode = "tenant-select" => d.form.token # 0
    /\ d.page \in AsksForNone /\ ~ Settling(d) =>
          d.cached = {} /\ \A r \in d.reqs : r.kind \in DataKinds => r.cred = Nobody

\* What is kept was answered to somebody, and to the session shown.
CacheOK(d) == Nobody \notin d.cached /\ (Settling(d) \/ d.cached \subseteq {d.auth})

GuardOK(d) == Guarded(d.page) => SignedIn(d.auth) \/ d.leaving

DocumentOK(d) == d \in Documents /\ RequestsOK(d) /\ FormOK(d) /\ CacheOK(d) /\ GuardOK(d)

SessionInv ==
    /\ storage \in Credentials
    /\ minted \in 0 .. MaxTokens
    /\ expired \subseteq 1 .. minted
    /\ DocumentOK(doc)

-----------------------------------------------------------------------------
(* The conversation with the agent. *)

AiPages == [shown : BOOLEAN, messages : Seq(Messages), session : 0 .. MaxPrompts,
            watched : 0 .. MaxPrompts, sent : 0 .. MaxPrompts, overlapped : BOOLEAN,
            confirmed : [Prompt -> Nat]]

Chats == [of : Prompt, session : 0 .. MaxPrompts, state : {"sent", "done", "refused"}, own : BOOLEAN]

\* The prompts for which the backend is still to open a session.
Sessionless == {n \in Prompt : \E c \in chats : c.of = n /\ c.state = "sent" /\ c.session = 0}

\* A prompt has one chat; the sessions opened are no more than the prompts sent.
ChatsOK ==
    /\ aiPage \in AiPages /\ chats \subseteq Chats /\ sessions \in Nat
    /\ \A c \in chats : /\ c.of <= aiPage.sent /\ c.session <= sessions
                        /\ c.state = "done" => c.session # 0
    /\ \A c, d \in chats : c.of = d.of => c = d
    /\ sessions + Cardinality(Sessionless) <= aiPage.sent
    /\ aiPage.session <= sessions

\* Until the page has a session nothing was answered in it and one prompt at most
\* awaits an answer; from then on all its chats are of that session.
SessionOK ==
    aiPage.overlapped \/
        /\ aiPage.session = 0 => Spoken = {} /\ \A c, d \in chats : c.own /\ d.own => c = d
        /\ aiPage.session # 0 => \A c \in chats : c.own => c.session = aiPage.session

\* A prompt is answered once, a card comes with an answer, and what was not
\* answered was not confirmed.
CardsOK ==
    /\ \A i \in DOMAIN aiPage.messages \ Spoken : aiPage.messages[i].card = "none"
    /\ \A i, j \in Spoken : aiPage.messages[i].of = aiPage.messages[j].of => i = j
    /\ \A i \in Spoken : aiPage.messages[i].of <= aiPage.sent
    /\ \A c \in chats, i \in Spoken : c.own => aiPage.messages[i].of # c.of
    /\ \A n \in Prompt : aiPage.confirmed[n] = 0 \/ \E i \in Spoken : aiPage.messages[i].of = n

AddsOK == \A a \in adds : ~ a.token

AssistantInv ==
    /\ AssistantTypeOK /\ ChatsOK /\ SessionOK /\ CardsOK /\ AddsOK
    /\ OneConversation /\ AskedOnce
-----------------------------------------------------------------------------
(* The catalog and the cart page. *)

\* What is asked and what is kept is under the key of the search it is for.
Findings == {[key |-> SearchKey(s), for |-> s] : s \in Searches}

\* A call that changes the cart asks for a quantity the pages count.
Edits == [kind : {"add", "card", "put", "delete"}, quantity : Nat, last : BOOLEAN]

EditsOK == item.quantity > 0 /\ edits \subseteq Edits

BrowseInv ==
    /\ BrowseTypeOK /\ EditsOK /\ LegalQuantities
    /\ asked \subseteq Findings /\ kept \subseteq Findings

-----------------------------------------------------------------------------
(* The merchant center. *)

MerchantCalls == [kind : {"create", "revoke", "policy"}, key : {0} \cup Keys,
                  state : {"sent", "done"}, own : BOOLEAN]

KeyPages == [named : BOOLEAN, open : {0} \cup Keys, secret : Nat, copied : BOOLEAN,
             listed : SUBSET Keys, stale : BOOLEAN]

Creations == {c \in merchantCalls : c.own /\ c.kind = "create"}

\* The page awaits one new key at most, and none while it shows one.
CreationsOK ==
    /\ \A c, d \in Creations : c = d
    /\ keyPage.open # 0 => Creations = {}

\* What is revoked was made, and a call that made a key says which.
StoreOK ==
    /\ merchantCalls \subseteq MerchantCalls
    /\ \A c \in merchantCalls :
          /\ c.kind = "create" /\ c.state = "done" => c.key # 0
          /\ c.kind = "revoke" => c.key # 0
    /\ keyPage \in KeyPages

MerchantInv == MerchantTypeOK /\ StoreOK /\ CreationsOK

\* A table asks, and its answer is kept, under its own key.
TablesInv ==
    /\ table \in Tables \cup {"elsewhere"}
    /\ \A q \in questions \cup answers : q.key = TableKey(q.of)
-----------------------------------------------------------------------------
(* Each part by itself, whatever is answered when and whatever is not. *)

SessionSpec == SessionInit /\ [][SessionNext]_sessionVars
FlowSpec == FlowInit /\ [][FlowNext]_flowVars
AssistantSpec == AssistantInit /\ [][AssistantNext]_assistantVars
BrowseSpec == BrowseInit /\ [][BrowseNext]_browseVars
MerchantSpec == MerchantInit /\ [][MerchantNext]_merchantVars
TablesSpec == TableInit /\ [][TableNext]_tableVars
=============================================================================
