----------------------------- MODULE ServerInv -----------------------------
(***************************************************************************)
(* The inductive invariants of the parts of MCStorefront that are not a    *)
(* page of web2: the server that answers for its pages, the older          *)
(* storefront, and four parts of the backend that share nothing with the   *)
(* payments and the checkout.  TLC checks them as invariants of the runs'  *)
(* parts; ServerProofs proves them.                                        *)
(***************************************************************************)
EXTENDS Ssr, Legacy, RateLimit, AgentTurn, FindOrInsert, PolicyEngine

-----------------------------------------------------------------------------
(* The server of the pages. *)

InServer == {v \in Visits : visit[v] \in {"handling", "opaque", "streaming"}}

\* With one request in the server at a time the slot holds, until its answer is
\* made, its own error, one of no request, or one too old to be taken, unless
\* what it threw is no Error.
SlotOK ==
    /\ InServer # {} => entry = "loaded"
    /\ crowded \/
          /\ \A v, w \in InServer : v = w
          /\ \A v \in Visits \ bare :
                visit[v] = "opaque" => slot.of \in {0, v} \/ slot.age = MaxAge

SsrInv ==
    /\ SsrTypeOK
    /\ logged \in [Visits -> {0} \cup Visits] /\ bare \subseteq Visits
    /\ SlotOK
    /\ OwnErrorWhenAlone

-----------------------------------------------------------------------------
(* The older storefront. *)

Sites ==
    [page : SitePages, user : Anyone, authBusy : BOOLEAN, cart : Anyone, lines : BOOLEAN,
     cartBusy : BOOLEAN, formBusy : BOOLEAN, which : {"none", "orders", "products", "policies", "audit"},
     list : Anyone, shape : {"array", "items", "neither"}, popup : Anyone, disturbed : BOOLEAN]

CallKinds == {"me", "signin", "signup", "cart", "edit", "chat", "quote", "confirm", "pay", "list"}

OpenCalls == [kind : CallKinds, token : Anyone, as : Anyone, own : BOOLEAN]

Tills == [quote : Anyone, busy : BOOLEAN]

Talks == [messages : Seq({"assistant", "user"}), busy : BOOLEAN]

\* The invariant is stated of five values, those of the variables: a step first
\* finds what it makes of them, then stays on the page or goes to another.

\* What a page shows goes with the page, and the answers meant for it are taken
\* by no other.
PlacesOK(s, t, calls) ==
    /\ s.user # 0 => ~s.authBusy
    /\ s.list # 0 => s.page = "admin"
    /\ t.quote # 0 => s.page = "checkout"
    /\ \A c \in calls : c.own /\ c.kind = "quote" => s.page = "checkout"
    /\ \A c \in calls : c.own /\ c.kind = "list" => s.page = "admin"

\* Unless the session was disturbed: one call at most asks who is signed in, when
\* nobody is shown; what is fetched is the user's who is shown; a cart is changed
\* for nobody or for him; a quote of a session that is over is confirmed with no
\* token at all, and gone before the next sign-in.
CallOK(c, l, s, t) ==
    /\ c.kind = "me" => c.token = l /\ s.user = 0
    /\ c.kind \in {"cart", "quote", "list"} => c.token # 0 /\ c.token = l /\ s.user = l
    /\ c.kind = "edit" => c.as \in {0, s.user}
    /\ c.kind \in {"confirm", "pay"} => c.token = l /\ s.user = l
    /\ c.kind = "signin" /\ s.user = 0 => t.quote = 0

ProvidersOK(l, s, t, calls) ==
    s.disturbed \/
        /\ \A c, d \in calls : c.kind = "me" /\ d.kind = "me" => c = d
        /\ \A c \in calls : CallOK(c, l, s, t)
        /\ t.quote # 0 => s.user = l
        /\ s.user \in {0, l} /\ s.cart \in {0, s.user}
        /\ s.list \in {0, s.user} /\ s.popup \in {0, s.user}
        /\ s.user # 0 => t.quote \in {0, s.user}

OwnChats(calls) == {c \in calls : c.kind = "chat" /\ c.own}

\* The conversation awaits one answer at most, to its last message, and is
\* there only while the home page is.
TalkOK(s, k, calls) ==
    /\ Len(k.messages) > 0
    /\ \A c, d \in OwnChats(calls) : c = d
    /\ OwnChats(calls) # {} => /\ k.busy /\ s.page = "home"
                              /\ k.messages[Len(k.messages)] = "user"
    /\ \A i \in 2 .. Len(k.messages) :
          k.messages[i] = "assistant" => k.messages[i - 1] = "user"

Good(l, s, t, k, calls) ==
    /\ l \in Anyone /\ s \in Sites /\ t \in Tills /\ k \in Talks /\ calls \subseteq OpenCalls
    /\ PlacesOK(s, t, calls) /\ ProvidersOK(l, s, t, calls) /\ TalkOK(s, k, calls)

LegacyInv == MayStay(site) /\ Good(local, site, till, talk, open)

-----------------------------------------------------------------------------
(* The limit on sign-ins. *)

TicksOf(w) == {t \in Ticks : WindowOf(t) = w}
Counters == [count : Nat, until : Nat]

\* What the counters of a window that Redis lost had let in.
Earlier == IF forgotten THEN Limit ELSE 0

\* A counter outlives its window by one, and says how many of its requests were
\* let in at most: until a request comes to it later than that.
CountersOK ==
    late \/ \A w \in DOMAIN counter :
        /\ counter[w].count > 0 => counter[w].until >= (w + 2) * Window
        /\ now < (w + 2) * Window => Total(admitted, TicksOf(w)) <= counter[w].count + Earlier
        /\ Total(admitted, TicksOf(w)) <= Limit + Earlier

RateInv ==
    /\ now \in Ticks /\ forgotten \in BOOLEAN /\ late \in BOOLEAN
    /\ waiting \in [Ticks -> Nat] /\ admitted \in [Ticks -> Nat]
    /\ counter \in [{WindowOf(t) : t \in Ticks} -> Counters]
    /\ \A t \in Ticks : waiting[t] > 0 => t <= now
    /\ Total(waiting, Ticks) <= MaxWaiting
    /\ CountersOK

-----------------------------------------------------------------------------
(* A turn of the agent. *)

Turns == [at : {"idle", "begin", "model", "tools", "close", "audit", "over"},
          iteration : 0 .. MaxIterations, tools : 0 .. MaxTools, spoiled : BOOLEAN]

RowSets == [user : {0, 1}, calls : SUBSET Iterations, results : SUBSET Iterations,
            cart : SUBSET Iterations, answers : {0, 1}]

\* A turn under way has stored nothing, has its prompt, and a result and a call
\* for whatever its tools did.
UnderWay ==
    /\ turn.at \in {"model", "tools", "close"} => written.user = 1
    /\ turn.at = "tools" => turn.iteration > 0
    /\ written.results = written.calls /\ written.cart \subseteq written.calls
    /\ turn.at = "audit" => stored # NoRows
    /\ reply # "none" => turn.at = "over"

TurnInv ==
    /\ turn \in Turns /\ written \in RowSets /\ stored \in RowSets
    /\ reply \in {"none", "answer", "error"}
    /\ UnderWay /\ TurnStoredWhole

-----------------------------------------------------------------------------
(* Rows that are looked for and inserted. *)

RowsOf(k) == [id : 1 .. MaxRows, says : Says(k)]

\* With one request at a time of a kind: it knows what the table has, which is
\* one row or none.
AloneOK(k) ==
    /\ \A c, d \in Callers : caller[c].kind = k /\ caller[d].kind = k => c = d
    /\ \/ tableOf[k] = {}
       \/ \E r \in RowsOf(k) : tableOf[k] = {r}
    /\ \A c \in Callers :
          caller[c].kind = k =>
              IF tableOf[k] = {} THEN caller[c].found = NoRow
              ELSE \A r \in tableOf[k] : caller[c].found = r.id

FirstInv ==
    /\ FirstTypeOK
    /\ tableOf = [k \in Kinds |-> tableOf[k]]
    /\ inserted \in [Kinds -> Nat]
    /\ caller \in [Callers -> [kind : {"none"} \cup Kinds, found : Nat]]
    /\ \A k \in Kinds \ overlapping : AloneOK(k)
    /\ OneRowAlone

-----------------------------------------------------------------------------
(* The policies. *)

PolicyInv ==
    /\ PolicyTypeOK
    /\ policies \in [PolicyIds -> Policy \cup {NoPolicy}]
    /\ judged = NotJudged \/ judged.request \in PolicyRequests
    /\ DeniedIffViolated

-----------------------------------------------------------------------------
(* Each part by itself. *)

SsrSpec == SsrInit /\ [][SsrNext]_ssrVars
LegacySpec == LegacyInit /\ [][LegacyNext]_legacyVars
RateSpec == RateInit /\ [][RateNext]_rateVars
TurnSpec == TurnInit /\ [][TurnNext]_turnVars
FirstSpec == FirstInit /\ [][FirstNext]_firstVars
PolicySpec == PolicyInit /\ [][PolicyNext]_policyVars
=============================================================================
