----------------------------- MODULE Assistant -----------------------------
(***************************************************************************)
(* Shopping with the agent, as AIPage.tsx of apps/web2 drives it: prompts  *)
(* and answers, the card that asks before something is put in the cart,    *)
(* and the sessions the backend keeps the conversation in.                 *)
(*                                                                         *)
(* A prompt is a number.  Typing waits for the answer of the last prompt,  *)
(* the suggested prompts do not, so several chats may be under way, and    *)
(* answer in any order.  A call is sent, carried out or refused, and       *)
(* answered; the answer may be lost after the work was done.               *)
(*                                                                         *)
(* The backend (external here) carries the conversation on in the session  *)
(* it is given, or opens one; and adds to the cart only on a confirmation  *)
(* token, which it hands out with a 402 and this page never sends back.    *)
(***************************************************************************)
EXTENDS Naturals, Sequences, FiniteSets

CONSTANTS
    MaxPrompts,     \* bound: the prompts ever sent
    MaxPosts        \* bound: the calls that add to the cart under way

ASSUME AssistantAssumption == MaxPrompts \in Nat /\ MaxPosts \in Nat

VARIABLES
    aiPage,         \* the page: what it shows and the session it has
    chats,          \* the calls of the agent under way
    adds,           \* the calls that add to the cart under way
    sessions,       \* the sessions the backend has opened: 1 .. sessions
    inCart          \* the recommendations (by their prompt) in the cart

assistantVars == <<aiPage, chats, adds, sessions, inCart>>

Prompt == 1 .. MaxPrompts
CardStates == {"none", "pending", "done", "cancelled"}
Messages == [role : {"user", "ai"}, of : Prompt, session : {0} \cup Prompt, card : CardStates]

\* watched: the chat whose state the page shows, the last one sent.
\* overlapped: a prompt went out without a session while another had.
\* confirmed: how often the card of a prompt was confirmed.
FreshPage(sent) ==
    [shown |-> FALSE, messages |-> <<>>, session |-> 0, watched |-> 0, sent |-> sent,
     overlapped |-> FALSE, confirmed |-> [n \in Prompt |-> 0]]

AssistantInit ==
    /\ aiPage = FreshPage(0)
    /\ chats = {}
    /\ adds = {}
    /\ sessions = 0
    /\ inCart = {}

-----------------------------------------------------------------------------
(* The conversation. *)

\* The page is opened or left.  The calls of a page that was left go on.
Visit ==
    /\ aiPage' = [FreshPage(aiPage.sent) EXCEPT !.shown = ~aiPage.shown]
    /\ chats' = {[c EXCEPT !.own = FALSE] : c \in chats}
    /\ UNCHANGED <<adds, sessions, inCart>>

Waiting == \E c \in chats : c.own /\ c.of = aiPage.watched

\* Mutant: the session of the answers is not sent along.
SayAnew ==
    LET n == aiPage.sent + 1 IN
    /\ aiPage.shown
    /\ n \in Prompt
    /\ aiPage' = [aiPage EXCEPT
          !.messages = Append(@, [role |-> "user", of |-> n, session |-> 0, card |-> "none"]),
          !.watched = n, !.sent = n]
    /\ chats' = chats \cup {[of |-> n, session |-> 0, state |-> "sent", own |-> TRUE]}
    /\ UNCHANGED <<adds, sessions, inCart>>

\* send: the prompt is shown at once, and goes out with the session the page
\* has now.
Say ==
    LET n == aiPage.sent + 1 IN
    /\ aiPage.shown
    /\ n \in Prompt
    /\ aiPage' = [aiPage EXCEPT
          !.messages = Append(@, [role |-> "user", of |-> n, session |-> 0, card |-> "none"]),
          !.watched = n, !.sent = n,
          !.overlapped = @ \/ \E c \in chats : c.own /\ aiPage.session = 0]
    /\ chats' = chats \cup {[of |-> n, session |-> aiPage.session, state |-> "sent", own |-> TRUE]}
    /\ UNCHANGED <<adds, sessions, inCart>>

SayTyped == ~Waiting /\ Say
SaySuggested == Say

\* The backend: the turn is committed in the session given, or in a new one
\* when it is given none; or it fails and leaves nothing.
RunTurn(c) ==
    /\ c.state = "sent"
    /\ \/ /\ sessions' = IF c.session = 0 THEN sessions + 1 ELSE sessions
          /\ chats' = (chats \ {c}) \cup
                {[c EXCEPT !.state = "done", !.session = IF @ = 0 THEN sessions' ELSE @]}
       \/ /\ chats' = (chats \ {c}) \cup {[c EXCEPT !.state = "refused"]}
          /\ UNCHANGED sessions
    /\ UNCHANGED <<aiPage, adds, inCart>>

\* onSuccess: the session of the answer is the page's; an answer that
\* recommends something comes with a card for the first of it.
Replied(c) ==
    /\ c.state = "done"
    /\ chats' = chats \ {c}
    /\ \E card \in {"none", "pending"} :
          aiPage' = IF ~c.own THEN aiPage
                    ELSE [aiPage EXCEPT
                            !.session = c.session,
                            !.messages = Append(@, [role |-> "ai", of |-> c.of,
                                                    session |-> c.session, card |-> card])]
    /\ UNCHANGED <<adds, sessions, inCart>>

\* onError: a toast, and the page waits no longer.
Unreplied(c) ==
    /\ c.state \in {"done", "refused"}
    /\ chats' = chats \ {c}
    /\ UNCHANGED <<aiPage, adds, sessions, inCart>>

-----------------------------------------------------------------------------
(* The cart. *)

Post(n) ==
    /\ Cardinality(adds) < MaxPosts
    /\ adds' = adds \cup {[of |-> n, token |-> FALSE]}

\* The buttons of the card of message i.
Confirm(i) ==
    /\ aiPage.messages[i].card = "pending"
    /\ Post(aiPage.messages[i].of)
    /\ aiPage' = [aiPage EXCEPT !.messages[i].card = "done",
                                !.confirmed[aiPage.messages[i].of] = @ + 1]
    /\ UNCHANGED <<chats, sessions, inCart>>

Cancel(i) ==
    /\ aiPage.messages[i].card = "pending"
    /\ aiPage' = [aiPage EXCEPT !.messages[i].card = "cancelled"]
    /\ UNCHANGED <<chats, adds, sessions, inCart>>

\* Mutant: a card that is done may be reviewed too.
ReviewAny(i) ==
    /\ aiPage.messages[i].card \in {"cancelled", "done"}
    /\ aiPage' = [aiPage EXCEPT !.messages[i].card = "pending"]
    /\ UNCHANGED <<chats, adds, sessions, inCart>>

ReviewAgain(i) ==
    /\ aiPage.messages[i].card = "cancelled"
    /\ aiPage' = [aiPage EXCEPT !.messages[i].card = "pending"]
    /\ UNCHANGED <<chats, adds, sessions, inCart>>

\* The picks beside the conversation are those of the last answer shown, if
\* it has any, and each has a button of its own that asks nothing.
Spoken == {i \in DOMAIN aiPage.messages : aiPage.messages[i].role = "ai"}
Latest == CHOOSE i \in Spoken : \A j \in Spoken : j <= i

Picks ==
    IF Spoken = {} THEN {} ELSE {m \in {aiPage.messages[Latest]} : m.card # "none"}

AddPick ==
    /\ \E m \in Picks : Post(m.of)
    /\ UNCHANGED <<aiPage, chats, sessions, inCart>>

\* The backend adds what comes with a token; without one it answers 402,
\* which the page reports as a failure.
ServeAdd(a) ==
    /\ inCart' = IF a.token THEN inCart \cup {a.of} ELSE inCart
    /\ adds' = adds \ {a}
    /\ UNCHANGED <<aiPage, chats, sessions>>

-----------------------------------------------------------------------------
AssistantNext ==
    \/ Visit \/ SayTyped \/ SaySuggested
    \/ \E c \in chats : RunTurn(c) \/ Replied(c) \/ Unreplied(c)
    \/ \E i \in DOMAIN aiPage.messages : Confirm(i) \/ Cancel(i) \/ ReviewAgain(i)
    \/ AddPick
    \/ \E a \in adds : ServeAdd(a)

-----------------------------------------------------------------------------
(* Properties. *)

AssistantTypeOK ==
    /\ aiPage.messages \in Seq(Messages)
    /\ aiPage.session \in 0 .. sessions
    /\ sessions \in 0 .. MaxPrompts
    /\ inCart \subseteq Prompt

\* A conversation stays in one session of the backend, whatever answers are
\* lost or late, unless its first prompts overlapped: then each of them opens
\* a session and the conversation is spread over them (hazard).
OneConversation ==
    \/ aiPage.overlapped
    \/ \A i \in Spoken : aiPage.messages[i].session = aiPage.session

\* The shopper is asked once: a card that was confirmed, with the cancelling
\* and reviewing before, is never offered again while the conversation lasts.
AskedOnce ==
    \A i \in Spoken :
        aiPage.confirmed[aiPage.messages[i].of] =
            IF aiPage.messages[i].card = "done" THEN 1 ELSE 0

\* What the card says once confirmed (AIPage.tsx:53-54): "Action completed",
\* "The product was added after availability and policy checks."
DoneMeansAdded ==
    \A i \in Spoken :
        aiPage.messages[i].card = "done" =>
            aiPage.messages[i].of \in inCart \cup {a.of : a \in adds}
=============================================================================
