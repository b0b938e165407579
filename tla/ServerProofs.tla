---------------------------- MODULE ServerProofs ----------------------------
(***************************************************************************)
(* Proofs about the parts of ServerInv, for every number of visits,        *)
(* accounts, requests, rounds and policies: their invariants are inductive *)
(* and imply what the runs check.  The parts share nothing, so each has a  *)
(* specification of its own; StorefrontProofs puts them together.          *)
(***************************************************************************)
EXTENDS ServerInv, Sums

-----------------------------------------------------------------------------
(* The server of the pages. *)

\* Where a request is.
Places == {"away", "waiting", "handling", "opaque", "streaming", "page", "errorPage"}

LEMMA SsrStart == SsrInit => SsrInv
<1> SUFFICES ASSUME SsrInit PROVE SsrInv
  OBVIOUS
<1> USE SsrAssumption DEF SsrInit, NoError
<1>1. SsrTypeOK /\ logged \in [Visits -> {0} \cup Visits]
  BY DEF SsrTypeOK, Places
<1>2. InServer = {}
  BY DEF InServer
<1>3. SlotOK /\ OwnErrorWhenAlone
  BY <1>2 DEF SlotOK, OwnErrorWhenAlone
<1>4. QED
  BY <1>1, <1>3 DEF SsrInv

\* A request goes on, and nobody is in the server who was not before.
LEMMA Goes ==
  ASSUME SsrInv, NEW v \in Visits, NEW from,
         NEW to \in Places,
         At(v, from, to), UNCHANGED <<entry, crowded>>,
         slot' \in [of : {0} \cup Visits, age : 0 .. MaxAge],
         to \in {"handling", "opaque", "streaming"} => from \in {"handling", "opaque", "streaming"},
         to = "opaque" => slot'.of \in {0, v} \/ v \in bare',
         slot' = slot \/ from \in {"handling", "opaque", "streaming"} \/ entry # "loaded",
         logged' \in [Visits -> {0} \cup Visits],
         bare \subseteq bare', bare' \subseteq Visits,
         crowded \/ \A w \in Visits \ bare : logged'[w] = logged[w] \/ logged'[w] \in {0, w}
  PROVE  SsrInv'
<1> USE DEF At
<1>1. visit \in [Visits -> Places]
  BY DEF SsrInv, SsrTypeOK, Places
<1>2. SsrTypeOK'
  BY <1>1 DEF SsrInv, SsrTypeOK, Places
<1>3. visit'[v] = to /\ \A w \in Visits : w # v => visit'[w] = visit[w]
  BY <1>1
<1>4. InServer' \subseteq InServer
  BY <1>3 DEF InServer
<1>5. SlotOK'
  <2>1. InServer' # {} => entry' = "loaded"
    BY <1>4 DEF SsrInv, SlotOK
  <2>2. ASSUME ~ crowded PROVE \A x, w \in InServer' : x = w
    BY <1>4, <2>2 DEF SsrInv, SlotOK
  <2>3. ASSUME ~ crowded, NEW w \in Visits \ bare', visit'[w] = "opaque"
        PROVE  slot'.of \in {0, w} \/ slot'.age = MaxAge
    <3>1. CASE w = v
      BY <1>3, <2>3, <3>1
    <3>2. CASE w # v
      <4>1. visit[w] = "opaque" /\ w \in InServer
        BY <1>3, <2>3, <3>2 DEF InServer
      <4>2. v \notin InServer /\ entry = "loaded"
        BY <2>3, <3>2, <4>1 DEF SsrInv, SlotOK
      <4>3. slot' = slot
        BY <4>2 DEF InServer
      <4>4. QED
        BY <2>3, <4>1, <4>3 DEF SsrInv, SlotOK
    <3>3. QED
      BY <3>1, <3>2
  <2>4. QED
    BY <2>1, <2>2, <2>3 DEF SlotOK
<1>6. OwnErrorWhenAlone'
  BY DEF SsrInv, OwnErrorWhenAlone
<1>7. QED
  BY <1>2, <1>5, <1>6 DEF SsrInv

LEMMA SsrStep == SsrInv /\ [SsrNext]_ssrVars => SsrInv'
<1> SUFFICES ASSUME SsrInv, [SsrNext]_ssrVars PROVE SsrInv'
  OBVIOUS
<1> USE SsrAssumption
<1>0. /\ visit \in [Visits -> Places]
      /\ slot \in [of : {0} \cup Visits, age : 0 .. MaxAge]
      /\ slot.of \in {0} \cup Visits /\ slot.age \in 0 .. MaxAge
      /\ logged \in [Visits -> {0} \cup Visits] /\ bare \subseteq Visits
  BY DEF SsrInv, SsrTypeOK, Places
<1>1. \A e \in {0} \cup Visits : /\ Record(e) \in [of : {0} \cup Visits, age : 0 .. MaxAge]
                                 /\ Record(e).of = e
  BY DEF Record
<1>16. \A v \in Visits : \A e \in Thrown(v) : e \in [of : {0} \cup Visits, age : 0 .. MaxAge]
  <2>1. ASSUME NEW v \in Visits, NEW e \in Thrown(v)
        PROVE  e \in [of : {0} \cup Visits, age : 0 .. MaxAge]
    <3>1. v \in {0} \cup Visits
      OBVIOUS
    <3>2. Record(v) \in [of : {0} \cup Visits, age : 0 .. MaxAge]
      BY <1>1, <3>1, Zenon
    <3>3. e = slot \/ e = Record(v)
      BY <2>1 DEF Thrown
    <3>4. QED
      BY <1>0, <3>2, <3>3, Zenon
  <2>2. QED
    BY <2>1
<1>2. CASE Import
  <2>1. InServer = {} /\ UNCHANGED <<visit, slot, logged, bare, crowded>> /\ InServer' = InServer
    BY <1>2 DEF Import, SsrInv, SlotOK, InServer
  <2>2. SlotOK'
    BY <2>1 DEF SsrInv, SlotOK
  <2>3. SsrTypeOK' /\ OwnErrorWhenAlone'
    BY <1>2, <2>1 DEF Import, SsrInv, SsrTypeOK, OwnErrorWhenAlone, Places
  <2>4. QED
    BY <1>0, <2>1, <2>2, <2>3 DEF SsrInv
<1>3. ASSUME NEW v \in Visits, Come(v) PROVE SsrInv'
  BY <1>0, <1>3, Goes DEF Come, Places
<1>4. ASSUME NEW v \in Visits, Enter(v) PROVE SsrInv'
  <2>1. /\ entry = "loaded" /\ visit'[v] = "handling" /\ UNCHANGED <<entry, slot, logged, bare>>
        /\ \A w \in Visits : w # v => visit'[w] = visit[w]
        /\ crowded' <=> crowded \/ InServer # {}
    BY <1>0, <1>4 DEF Enter, At, InServer
  <2>2. visit' \in [Visits -> Places]
    BY <1>0, <1>4 DEF Enter, At, Places
  <2>3. InServer' = InServer \cup {v}
    BY <2>1 DEF InServer
  <2>4. SlotOK'
    BY <2>1, <2>3 DEF SsrInv, SlotOK, InServer
  <2>5. SsrTypeOK' /\ OwnErrorWhenAlone'
    BY <2>1, <2>2 DEF SsrInv, SsrTypeOK, OwnErrorWhenAlone, Places
  <2>6. QED
    BY <1>0, <2>1, <2>4, <2>5 DEF SsrInv
<1>5. ASSUME NEW v \in Visits, EntryFails(v) PROVE SsrInv'
  <2>1. /\ At(v, "waiting", "errorPage") /\ UNCHANGED <<entry, logged, bare, crowded>>
        /\ slot' \in Thrown(v) /\ entry # "loaded"
    BY <1>5 DEF EntryFails, ErrorPage
  <2>2. slot' \in [of : {0} \cup Visits, age : 0 .. MaxAge]
    BY <1>16, <2>1
  <2>3. QED
    BY <1>0, <2>1, <2>2, Goes DEF Places
<1>6. ASSUME NEW v \in Visits, Handled(v) PROVE SsrInv'
  BY <1>0, <1>6, Goes DEF Handled, Places
<1>7. ASSUME NEW v \in Visits, Caught(v) PROVE SsrInv'
  <2>1. /\ At(v, "handling", "errorPage") /\ UNCHANGED <<entry, logged, bare, crowded>>
        /\ slot' \in Thrown(v)
    BY <1>7 DEF Caught, ErrorPage
  <2>2. slot' \in [of : {0} \cup Visits, age : 0 .. MaxAge]
    BY <1>16, <2>1
  <2>3. QED
    BY <1>0, <2>1, <2>2, Goes DEF Places
<1>15. ASSUME NEW v \in Visits, Streamed(v) PROVE SsrInv'
  <2>1. /\ At(v, "streaming", "page") /\ UNCHANGED <<entry, logged, bare, crowded>>
        /\ slot' \in Thrown(v)
    BY <1>15 DEF Streamed
  <2>2. slot' \in [of : {0} \cup Visits, age : 0 .. MaxAge]
    BY <1>16, <2>1
  <2>3. QED
    BY <1>0, <2>1, <2>2, Goes DEF Places
<1>8. ASSUME NEW v \in Visits, Swallowed(v) PROVE SsrInv'
  BY <1>0, <1>1, <1>8, Goes DEF Swallowed, Places
<1>9. ASSUME NEW v \in Visits, Normalize(v) PROVE SsrInv'
  <2>1. Consumed \in {0} \cup Visits /\ (crowded \/ v \in bare \/ Consumed \in {0, v})
    BY <1>0, <1>9 DEF Normalize, ErrorPage, At, Consumed, SsrInv, SlotOK
  <2>2. slot' \in [of : {0} \cup Visits, age : 0 .. MaxAge]
    <3>1. slot' \in Logged(v)
      BY <1>9 DEF Normalize
    <3>2. NoError \in [of : {0} \cup Visits, age : 0 .. MaxAge]
      BY DEF NoError
    <3>3. \E e \in {0} \cup Visits : slot' = Record(e) \/ slot' = NoError
      BY <1>0, <3>1 DEF Logged
    <3>4. QED
      BY <1>1, <3>2, <3>3
  <2>3. /\ logged' \in [Visits -> {0} \cup Visits]
        /\ \A w \in Visits : logged'[w] = logged[w] \/ (w = v /\ logged'[w] = Consumed)
    BY <1>0, <1>9, <2>1 DEF Normalize
  <2>4. At(v, "opaque", "errorPage") /\ UNCHANGED <<entry, bare, crowded>>
    BY <1>9 DEF Normalize, ErrorPage
  <2>5. QED
    BY <1>0, <2>1, <2>2, <2>3, <2>4, Goes DEF Places
<1>10. ASSUME UNCHANGED <<entry, visit, logged, bare, crowded>>,
              slot' \in [of : {0} \cup Visits, age : 0 .. MaxAge],
              slot'.of = 0 \/ (slot'.of = slot.of /\ (slot.age = MaxAge => slot'.age = MaxAge))
       PROVE  SsrInv'
  <2>1. InServer' = InServer
    BY <1>10 DEF InServer
  <2>2. SlotOK'
    BY <1>10, <2>1 DEF SsrInv, SlotOK
  <2>3. SsrTypeOK' /\ OwnErrorWhenAlone'
    BY <1>10 DEF SsrInv, SsrTypeOK, OwnErrorWhenAlone
  <2>4. QED
    BY <1>0, <1>10, <2>2, <2>3 DEF SsrInv
<1>11. CASE Stray
  BY <1>1, <1>10, <1>11 DEF Stray
<1>12. CASE Age
  BY <1>0, <1>10, <1>12 DEF Age
<1>13. CASE UNCHANGED ssrVars
  BY <1>0, <1>10, <1>13 DEF ssrVars
<1>14. QED
  BY <1>2, <1>3, <1>4, <1>5, <1>6, <1>7, <1>8, <1>9, <1>11, <1>12, <1>13, <1>15
     DEF SsrNext, SsrProgress

\* With one request in the server at a time, the error logged for one that was swallowed
\* is its own or nobody's, whatever earlier requests left in the slot, if what
\* it threw is an Error.
THEOREM SsrSafe == SsrSpec => [](SsrTypeOK /\ OwnErrorWhenAlone)
<1>1. SsrInv => SsrTypeOK /\ OwnErrorWhenAlone
  BY DEF SsrInv
<1>2. QED
  BY SsrStart, SsrStep, <1>1, PTL DEF SsrSpec

-----------------------------------------------------------------------------
(* The older storefront. *)

\* What one of the two providers or a page does comes to new values of the five
\* variables; what is left is whether the page stays.
LEMMA StillGood ==
  ASSUME NEW s, MayStay(s), Good(local', s, till', talk', open'), site' = s
  PROVE  LegacyInv'
BY DEF LegacyInv

LEMMA Now == LegacyInv => MayStay(site) /\ Good(local, site, till, talk, open)
BY DEF LegacyInv

\* A call that has been answered.
LEMMA CallsGo ==
  ASSUME NEW l, NEW s, NEW t, NEW k, NEW calls, NEW some \in SUBSET calls,
         Good(l, s, t, k, calls)
  PROVE  Good(l, s, t, k, some)
<1>0. some \subseteq calls
  OBVIOUS
<1>1. PlacesOK(s, t, some)
  BY <1>0 DEF Good, PlacesOK
<1>2. ProvidersOK(l, s, t, some)
  BY <1>0 DEF Good, ProvidersOK
<1>3. TalkOK(s, k, some)
  <2>1. OwnChats(some) \subseteq OwnChats(calls)
    BY <1>0 DEF OwnChats
  <2>2. QED
    BY <2>1 DEF Good, TalkOK
<1>4. QED
  BY <1>0, <1>1, <1>2, <1>3 DEF Good

\* A call that is sent, other than one that asks who is signed in.
LEMMA OneMore ==
  ASSUME NEW l, NEW s, NEW t, NEW k, NEW calls, NEW c \in OpenCalls,
         Good(l, s, t, k, calls),
         c.kind \notin {"me", "chat"},
         s.disturbed \/ CallOK(c, l, s, t),
         c.kind = "quote" => s.page = "checkout",
         c.kind = "list" => s.page = "admin"
  PROVE  Good(l, s, t, k, calls \cup {c})
<1>1. PlacesOK(s, t, calls \cup {c})
  BY DEF Good, PlacesOK
<1>2. ProvidersOK(l, s, t, calls \cup {c})
  BY DEF Good, ProvidersOK
<1>3. TalkOK(s, k, calls \cup {c})
  <2>1. OwnChats(calls \cup {c}) = OwnChats(calls)
    BY DEF OwnChats
  <2>2. QED
    BY <2>1 DEF Good, TalkOK
<1>4. calls \cup {c} \subseteq OpenCalls
  BY DEF Good
<1>5. QED
  BY <1>1, <1>2, <1>3, <1>4 DEF Good

LEMMA SentIs ==
  ASSUME LegacyInv, NEW kind \in CallKinds, NEW as \in Anyone
  PROVE  /\ Sent(kind, as) \in OpenCalls
         /\ Sent(kind, as).kind = kind /\ Sent(kind, as).as = as
         /\ Sent(kind, as).token = local /\ Sent(kind, as).own = TRUE
BY DEF Sent, CallWith, OpenCalls, LegacyInv, Good

\* A quote is asked for by the user who is shown.
LEMMA QuoteAsked ==
  ASSUME LegacyInv, NEW s, NEW t, NEW u, NEW k, NEW calls, Good(local', s, u, k, calls), Quotes(s, t),
         local' = local \/ s.cart = 0
  PROVE  /\ Sent("quote", 0) \in OpenCalls
         /\ Sent("quote", 0).kind = "quote"
         /\ s.disturbed \/ CallOK(Sent("quote", 0), local', s, u)
<1>1. "quote" \in CallKinds /\ 0 \in Anyone
  BY DEF CallKinds, Anyone
<1>2. Sent("quote", 0) \in OpenCalls /\ Sent("quote", 0).kind = "quote" /\ Sent("quote", 0).token = local
  BY <1>1, SentIs
<1>3. local' = local /\ s.cart # 0
  BY DEF Quotes
<1>4. s.disturbed \/ (s.user = local /\ local # 0)
  BY <1>3 DEF Good, ProvidersOK
<1>5. QED
  BY <1>2, <1>3, <1>4 DEF CallOK

LEMMA Stays ==
  ASSUME LegacyInv, NEW s, NEW calls, Good(local', s, till, talk, calls), MayStay(s),
         local' = local \/ s.cart = 0, Stay(s, calls)
  PROVE  LegacyInv'
<1>1. CASE ~Quotes(s, till)
  <2>1. site' = s /\ till' = till /\ open' = calls /\ talk' = talk
    BY <1>1 DEF Stay
  <2>2. QED
    BY <2>1, StillGood
<1>2. CASE Quotes(s, till)
  <2> DEFINE q == Sent("quote", 0)
             t == [till EXCEPT !.busy = TRUE]
  <2>1. site' = s /\ till' = t /\ open' = calls \cup {q} /\ talk' = talk
    BY <1>2 DEF Stay
  <2>2. t \in Tills /\ t.quote = till.quote
    BY DEF Good, Tills
  <2>3. Good(local', s, t, talk, calls)
    BY <2>2 DEF Good, PlacesOK, ProvidersOK, CallOK
  <2>4. q \in OpenCalls /\ q.kind = "quote" /\ (s.disturbed \/ CallOK(q, local', s, t))
    BY <1>2, <2>3, QuoteAsked
  <2>5. s.page = "checkout"
    BY <1>2 DEF Quotes
  <2> HIDE DEF q, t
  <2>6. Good(local', s, t, talk, calls \cup {q})
    BY <2>3, <2>4, <2>5, OneMore
  <2>7. QED
    BY <2>1, <2>6, StillGood
<1>3. QED
  BY <1>1, <1>2

\* Another page has nothing of the one that was left.
LEMMA Moves ==
  ASSUME NEW l, NEW s, NEW t, NEW k, NEW calls, NEW page \in SitePages, NEW u \in Tills,
         NEW k1 \in {k, FreshTalk}, Good(l, s, t, k, calls), u.quote = 0
  PROVE  Good(l, Arriving(s, page), u, k1, Left(calls))
<1> DEFINE s1 == Arriving(s, page)
<1>1. /\ s1 \in Sites /\ s1.page = page /\ s1.list = 0 /\ s1.user = s.user /\ s1.cart = s.cart
      /\ s1.popup = s.popup /\ s1.disturbed = s.disturbed /\ s1.authBusy = s.authBusy
  BY DEF Arriving, Good, Sites, Anyone
<1> HIDE DEF s1
<1>2. /\ Left(calls) \subseteq OpenCalls
      /\ \A c \in Left(calls) : \E d \in calls :
            /\ c.kind = d.kind /\ c.token = d.token /\ c.as = d.as
            /\ c = [d EXCEPT !.own = @ /\ d.kind \in {"cart", "edit"}]
            /\ c.own => c.kind \in {"cart", "edit"}
  <2>1. calls \subseteq OpenCalls
    BY DEF Good
  <2>2. ASSUME NEW d \in calls, NEW c, c = [d EXCEPT !.own = @ /\ d.kind \in {"cart", "edit"}]
        PROVE  /\ c \in OpenCalls /\ c.kind = d.kind /\ c.token = d.token /\ c.as = d.as
               /\ c.own => c.kind \in {"cart", "edit"}
    BY <2>1, <2>2 DEF OpenCalls
  <2>3. QED
    BY <2>2 DEF Left
<1>3. PlacesOK(s1, u, Left(calls))
  BY <1>1, <1>2 DEF PlacesOK, Good
<1>4. ProvidersOK(l, s1, u, Left(calls))
  <2>1. CASE s.disturbed
    BY <1>1, <2>1 DEF ProvidersOK
  <2>2. CASE ~s.disturbed
    <3>1. ASSUME NEW c \in Left(calls), NEW d \in Left(calls), c.kind = "me", d.kind = "me"
          PROVE  c = d
      BY <1>2, <2>2, <3>1 DEF Good, ProvidersOK
    <3>2. ASSUME NEW c \in Left(calls) PROVE CallOK(c, l, s1, u)
      <4>1. PICK d \in calls : c.kind = d.kind /\ c.token = d.token /\ c.as = d.as
        BY <1>2
      <4>2. CallOK(d, l, s, t)
        BY <2>2 DEF Good, ProvidersOK
      <4>3. QED
        BY <1>1, <4>1, <4>2 DEF CallOK
    <3>3. QED
      BY <1>1, <2>2, <3>1, <3>2 DEF Good, ProvidersOK
  <2>3. QED
    BY <2>1, <2>2
<1>5. TalkOK(s1, k1, Left(calls))
  <2>1. OwnChats(Left(calls)) = {}
    BY <1>2 DEF OwnChats
  <2>2. FreshTalk.messages = <<"assistant">>
    BY DEF FreshTalk
  <2>3. QED
    BY <2>1, <2>2 DEF TalkOK, Good
<1>6. k1 \in Talks
  <2>1. FreshTalk \in Talks
    BY DEF FreshTalk, Talks
  <2>2. k \in Talks
    BY DEF Good
  <2>3. QED
    BY <2>1, <2>2
<1>7. QED
  BY <1>1, <1>2, <1>3, <1>4, <1>5, <1>6 DEF Good, s1

LEMMA GoesTo ==
  ASSUME LegacyInv, NEW s, NEW calls, NEW page \in SitePages, Good(local', s, till, talk, calls),
         local' = local \/ s.cart = 0, GoTo(s, page, calls)
  PROVE  LegacyInv'
<1>1. PICK to \in SitePages : to = IF MayStay(Arriving(s, page)) THEN page ELSE "home"
  BY DEF SitePages
<1> DEFINE s1 == Arriving(s, to)
           t == [FreshTill EXCEPT !.busy = Quotes(s1, FreshTill)]
           q == Sent("quote", 0)
<1>2. /\ site' = s1 /\ till' = t /\ talk' = FreshTalk
      /\ open' = IF Quotes(s1, FreshTill) THEN Left(calls) \cup {q} ELSE Left(calls)
  BY <1>1, Zenon DEF GoTo
<1>3. MayStay(s1) /\ s1.cart = s.cart
  BY <1>1 DEF MayStay, Arriving, Good, Sites
<1>4. t.quote = 0 /\ t \in Tills
  <2>1. Quotes(s1, FreshTill) \in BOOLEAN
    BY DEF Quotes
  <2>2. QED
    BY <2>1 DEF FreshTill, Tills, Anyone
<1> HIDE DEF t
<1>5. Good(local', s1, t, FreshTalk, Left(calls))
  BY <1>4, Moves
<1>6. CASE ~Quotes(s1, FreshTill)
  BY <1>2, <1>3, <1>5, <1>6, StillGood
<1>7. CASE Quotes(s1, FreshTill)
  <2>1. q \in OpenCalls /\ q.kind = "quote" /\ (s1.disturbed \/ CallOK(q, local', s1, t))
    BY <1>3, <1>5, <1>7, QuoteAsked
  <2>2. s1.page = "checkout"
    BY <1>7 DEF Quotes
  <2> HIDE DEF q, s1
  <2>3. Good(local', s1, t, FreshTalk, Left(calls) \cup {q})
    BY <1>5, <2>1, <2>2, OneMore
  <2>4. QED
    BY <1>2, <1>3, <1>7, <2>3, StillGood
<1>8. QED
  BY <1>6, <1>7

LEMMA Becomes ==
  ASSUME LegacyInv, NEW s, NEW calls, Good(local', s, till, talk, calls),
         local' = local \/ s.cart = 0, Become(s, calls)
  PROVE  LegacyInv'
BY Stays, GoesTo DEF Become, SitePages

\* What differs says nothing of a session, or is gone.
LEMMA Alike ==
  ASSUME NEW l, NEW s, NEW t, NEW k, NEW calls, NEW s1 \in Sites, NEW t1 \in Tills,
         Good(l, s, t, k, calls),
         s1.page = s.page, s1.user = s.user, s1.authBusy = s.authBusy, s1.list = s.list,
         s1.cart \in {0, s.cart}, s1.popup \in {0, s.popup}, s1.disturbed = s.disturbed,
         t1.quote = t.quote
  PROVE  Good(l, s1, t1, k, calls) /\ (MayStay(s) => MayStay(s1))
<1>1. PlacesOK(s1, t1, calls)
  BY DEF Good, PlacesOK
<1>2. ProvidersOK(l, s1, t1, calls)
  BY DEF Good, ProvidersOK, CallOK
<1>3. TalkOK(s1, k, calls)
  BY DEF Good, TalkOK
<1>4. QED
  BY <1>1, <1>2, <1>3 DEF Good, MayStay

LEMMA Opened ==
  ASSUME NEW l \in Anyone, NEW page \in SitePages,
         NEW m, m = [kind |-> "me", token |-> l, as |-> 0, own |-> TRUE]
  PROVE  MayStay(FreshSite(page)) /\ Good(l, FreshSite(page), FreshTill, FreshTalk, {m})
<1> DEFINE s == FreshSite(page)
<1>1. /\ s \in Sites /\ s.user = 0 /\ s.cart = 0 /\ s.list = 0 /\ s.popup = 0 /\ s.authBusy = TRUE
  BY DEF FreshSite, Sites, Anyone
<1>2. FreshTill \in Tills /\ FreshTill.quote = 0
  BY DEF FreshTill, Tills, Anyone
<1>3. {m} \subseteq OpenCalls /\ m.kind = "me" /\ m.token = l
  BY DEF OpenCalls, CallKinds, Anyone
<1> HIDE DEF s
<1>4. PlacesOK(s, FreshTill, {m})
  BY <1>1, <1>2, <1>3 DEF PlacesOK
<1>5. ProvidersOK(l, s, FreshTill, {m})
  BY <1>1, <1>2, <1>3 DEF ProvidersOK, CallOK
<1>6. FreshTalk \in Talks /\ TalkOK(s, FreshTalk, {m})
  <2>1. OwnChats({m}) = {}
    BY <1>3 DEF OwnChats
  <2>2. FreshTalk.messages = <<"assistant">> /\ FreshTalk \in Talks
    BY DEF FreshTalk, Talks
  <2>3. QED
    BY <2>1, <2>2 DEF TalkOK
<1>7. MayStay(s)
  BY <1>1 DEF MayStay
<1>8. QED
  BY <1>1, <1>2, <1>3, <1>4, <1>5, <1>6, <1>7 DEF Good, s

LEMMA LegacyStart == LegacyInit => LegacyInv
<1> SUFFICES ASSUME LegacyInit PROVE LegacyInv
  OBVIOUS
<1>1. local \in Anyone /\ "home" \in SitePages
  BY DEF LegacyInit, SitePages
<1>2. open = {[kind |-> "me", token |-> local, as |-> 0, own |-> TRUE]}
  BY DEF LegacyInit, Sent, CallWith
<1>3. QED
  BY <1>1, <1>2, Opened DEF LegacyInit, LegacyInv

LEMMA ReloadStep == LegacyInv /\ Reload => LegacyInv'
<1> SUFFICES ASSUME LegacyInv, NEW p \in SitePages, Document(p), local' = local PROVE LegacyInv'
  BY DEF Reload
<1>1. local' \in Anyone
  BY DEF LegacyInv, Good
<1>2. open' = {[kind |-> "me", token |-> local', as |-> 0, own |-> TRUE]}
  BY DEF Document, CallWith
<1>3. /\ MayStay(FreshSite(p))
      /\ Good(local', FreshSite(p), FreshTill, FreshTalk,
              {[kind |-> "me", token |-> local', as |-> 0, own |-> TRUE]})
  BY <1>1, Opened
<1>4. QED
  BY <1>2, <1>3, StillGood DEF Document

LEMMA FollowStep == LegacyInv /\ Follow => LegacyInv'
BY Now, GoesTo DEF Follow

LEMMA FormStep == LegacyInv /\ (SignIn \/ SignUp) => LegacyInv'
<1> SUFFICES ASSUME LegacyInv, NEW k \in {"signin", "signup"}, local' = local, talk' = talk,
                    till' = till, site' = [site EXCEPT !.formBusy = TRUE],
                    open' = open \cup {Sent(k, 0)}, site.page \in {"login", "register"}
             PROVE  LegacyInv'
  BY DEF SignIn, SignUp, LoginForm, RegisterForm
<1> DEFINE c == Sent(k, 0)
<1>1. c \in OpenCalls /\ c.kind = k
  <2>1. k \in CallKinds /\ 0 \in Anyone
    BY DEF CallKinds, Anyone
  <2>2. QED
    BY <2>1, SentIs
<1>2. site \in Sites /\ till \in Tills /\ till.quote = 0
  BY DEF LegacyInv, Good, PlacesOK
<1>3. Good(local, site', till, talk, open) /\ MayStay(site')
  <2>1. /\ site' \in Sites /\ site'.page = site.page /\ site'.user = site.user
        /\ site'.authBusy = site.authBusy /\ site'.list = site.list /\ site'.cart = site.cart
        /\ site'.popup = site.popup /\ site'.disturbed = site.disturbed
    BY <1>2 DEF Sites
  <2>2. QED
    BY <1>2, <2>1, Now, Alike
<1>4. CallOK(c, local, site', till)
  BY <1>1, <1>2 DEF CallOK
<1> HIDE DEF c
<1>5. Good(local, site', till, talk, open \cup {c})
  BY <1>1, <1>3, <1>4, OneMore
<1>6. QED
  BY <1>3, <1>5, StillGood DEF c

LEMMA FormFailedStep ==
  ASSUME LegacyInv, NEW c \in open, FormFailed(c)
  PROVE  LegacyInv'
<1>1. site \in Sites /\ till \in Tills
  BY DEF LegacyInv, Good
<1>2. /\ site' \in Sites /\ site'.page = site.page /\ site'.user = site.user
      /\ site'.authBusy = site.authBusy /\ site'.list = site.list /\ site'.cart = site.cart
      /\ site'.popup = site.popup /\ site'.disturbed = site.disturbed
  BY <1>1 DEF Sites, FormFailed
<1>3. Good(local, site', till, talk, open) /\ MayStay(site')
  BY <1>1, <1>2, Now, Alike
<1>4. Good(local, site', till, talk, open \ {c})
  BY <1>3, CallsGo
<1>5. QED
  BY <1>3, <1>4, StillGood DEF FormFailed

LEMMA SignedUpStep ==
  ASSUME LegacyInv, NEW c \in open, SignedUp(c)
  PROVE  LegacyInv'
<1>1. Good(local', site, till, talk, open \ {c}) /\ local' = local
  BY Now, CallsGo DEF SignedUp
<1>2. QED
  BY <1>1, GoesTo DEF SignedUp, SitePages

\* The token changes: from then on nothing is promised.
LEMMA Shaken ==
  ASSUME NEW l, NEW s, NEW t, NEW k, NEW calls, NEW l1 \in Anyone, NEW s1,
         Good(l, s, t, k, calls), s1 = [s EXCEPT !.disturbed = TRUE]
  PROVE  Good(l1, s1, t, k, calls) /\ (MayStay(s) => MayStay(s1))
<1>1. /\ s1 \in Sites /\ s1.disturbed = TRUE /\ s1.page = s.page /\ s1.user = s.user
      /\ s1.authBusy = s.authBusy /\ s1.list = s.list
  BY DEF Good, Sites
<1>2. PlacesOK(s1, t, calls) /\ TalkOK(s1, k, calls)
  BY <1>1 DEF Good, PlacesOK, TalkOK
<1>3. ProvidersOK(l1, s1, t, calls)
  BY <1>1 DEF ProvidersOK
<1>4. QED
  BY <1>1, <1>2, <1>3 DEF Good, MayStay

LEMMA OtherTabStep == LegacyInv /\ OtherTabSigns => LegacyInv'
<1> SUFFICES ASSUME LegacyInv, OtherTabSigns PROVE LegacyInv'
  OBVIOUS
<1>1. Good(local', site', till, talk, open) /\ MayStay(site')
  BY Now, Shaken DEF OtherTabSigns
<1>2. QED
  BY <1>1, StillGood DEF OtherTabSigns

LEMMA SignedInStep ==
  ASSUME LegacyInv, NEW c \in open, SignedInAs(c)
  PROVE  LegacyInv'
<1>1. PICK a \in Accounts :
         /\ local' = a /\ open' = (open \ {c}) \cup {[c EXCEPT !.kind = "me", !.token = a, !.as = a]}
         /\ c.kind = "signin" /\ talk' = talk /\ till' = till
         /\ site' = [site EXCEPT !.disturbed = @ \/ local # 0 \/ UnderWayFor(open \ {c})]
  BY DEF SignedInAs
<1> DEFINE B == open \ {c}
           m == [c EXCEPT !.kind = "me", !.token = a, !.as = a]
<1>2. /\ site \in Sites /\ open \subseteq OpenCalls /\ a \in Anyone /\ a # 0
      /\ MayStay(site) /\ Good(local, site, till, talk, open)
  BY LegacyAssumption DEF Anyone, LegacyInv, Good
<1>3. m \in OpenCalls /\ m.kind = "me" /\ m.token = a
  BY <1>2 DEF OpenCalls, CallKinds
<1>4. /\ site' \in Sites /\ site'.page = site.page /\ site'.user = site.user
      /\ site'.authBusy = site.authBusy /\ site'.list = site.list /\ site'.cart = site.cart
      /\ site'.popup = site.popup
      /\ site'.disturbed = (site.disturbed \/ local # 0 \/ UnderWayFor(B))
  <2>1. UnderWayFor(B) \in BOOLEAN
    BY DEF UnderWayFor
  <2>2. QED
    BY <1>1, <1>2, <2>1 DEF Sites
<1>5. Good(local, site, till, talk, B)
  BY <1>2, CallsGo
<1> HIDE DEF m
<1>6. PlacesOK(site', till, B \cup {m})
  BY <1>3, <1>4, <1>5 DEF Good, PlacesOK
<1>7. TalkOK(site', talk, B \cup {m})
  <2>1. OwnChats(B \cup {m}) = OwnChats(B)
    BY <1>3 DEF OwnChats
  <2>2. QED
    BY <1>4, <1>5, <2>1 DEF Good, TalkOK
<1>8. ProvidersOK(a, site', till, B \cup {m})
  <2>1. CASE site'.disturbed
    BY <2>1 DEF ProvidersOK
  <2>2. CASE ~site'.disturbed
    <3>1. /\ ~site.disturbed /\ local = 0 /\ site.popup = 0
          /\ \A d \in B : d.kind \in {"chat", "signup"}
      BY <1>4, <2>2 DEF UnderWayFor
    <3>2. site.user = 0 /\ site.cart = 0 /\ site.list = 0
      BY <1>5, <3>1 DEF Good, ProvidersOK
    <3>3. till.quote = 0
      BY <1>1, <1>2, <3>1, <3>2 DEF Good, ProvidersOK, CallOK
    <3>4. CallOK(m, a, site', till)
      BY <1>3, <1>4, <3>2 DEF CallOK
    <3>5. ASSUME NEW d \in B PROVE CallOK(d, a, site', till)
      BY <3>1 DEF CallOK
    <3>6. \A d, e \in B \cup {m} : d.kind = "me" /\ e.kind = "me" => d = e
      BY <3>1
    <3>7. QED
      BY <1>4, <3>1, <3>2, <3>3, <3>4, <3>5, <3>6 DEF ProvidersOK
  <2>3. QED
    BY <2>1, <2>2
<1>9. Good(local', site', till', talk', open')
  <2>1. till \in Tills /\ talk \in Talks /\ B \subseteq OpenCalls
    BY <1>5 DEF Good
  <2>2. open' = B \cup {m}
    BY <1>1 DEF m
  <2> HIDE DEF B
  <2>3. QED
    BY <1>1, <1>2, <1>3, <1>4, <1>6, <1>7, <1>8, <2>1, <2>2 DEF Good
<1>10. QED
  BY <1>2, <1>4, <1>9, StillGood DEF MayStay

\* The server has said who the token stands for, or nothing.
LEMMA UserLoadedStep ==
  ASSUME LegacyInv, NEW c \in open, UserLoaded(c)
  PROVE  LegacyInv'
<1>1. c.kind = "me" /\ local' = local
  BY DEF UserLoaded
<1>2. PICK u \in {0, c.token} :
        LET s == [AsUser(site, u) EXCEPT !.authBusy = FALSE,
                                         !.formBusy = IF c.own THEN FALSE ELSE @]
            calls == (open \ {c}) \cup CartCall(u)
        IN  IF c.as = 0 \/ site.page = "home" THEN Become(s, calls) ELSE GoTo(s, "home", calls)
  BY DEF UserLoaded
<1> DEFINE s == [AsUser(site, u) EXCEPT !.authBusy = FALSE,
                                        !.formBusy = IF c.own THEN FALSE ELSE @]
           B == open \ {c}
<1>3. /\ site \in Sites /\ open \subseteq OpenCalls /\ c \in OpenCalls /\ u \in Anyone
      /\ Good(local, site, till, talk, open) /\ Good(local, site, till, talk, B)
  <2>1. Good(local, site, till, talk, open) /\ Good(local, site, till, talk, B)
    BY Now, CallsGo
  <2>2. open \subseteq OpenCalls /\ site \in Sites
    BY <2>1 DEF Good
  <2>3. QED
    BY <2>1, <2>2 DEF OpenCalls, Anyone
<1>4. /\ s \in Sites /\ s.page = site.page /\ s.user = u /\ s.authBusy = FALSE
      /\ s.list = site.list /\ s.popup = site.popup /\ s.disturbed = site.disturbed
      /\ s.cart \in {0, site.cart}
  BY <1>3 DEF AsUser, Sites, Anyone
<1> HIDE DEF s
<1>5. Good(local, s, till, talk, B)
  <2>1. PlacesOK(s, till, B) /\ TalkOK(s, talk, B)
    BY <1>3, <1>4 DEF Good, PlacesOK, TalkOK
  <2>2. ProvidersOK(local, s, till, B)
    <3>1. CASE site.disturbed
      BY <1>4, <3>1 DEF ProvidersOK
    <3>2. CASE ~site.disturbed
      <4>1. /\ CallOK(c, local, site, till)
            /\ \A d \in B : d.kind # "me" /\ CallOK(d, local, site, till)
            /\ till.quote # 0 => site.user = local
            /\ site.cart \in {0, site.user} /\ site.list \in {0, site.user}
            /\ site.popup \in {0, site.user}
        BY <1>1, <1>3, <3>2 DEF Good, ProvidersOK
      <4>2. /\ c.token = local /\ site.user = 0 /\ site.cart = 0 /\ site.list = 0
            /\ site.popup = 0 /\ u \in {0, local}
        BY <1>1, <4>1 DEF CallOK
      <4>3. till.quote # 0 => u = local /\ u = 0
        BY <4>1, <4>2
      <4>4. ASSUME NEW d \in B PROVE CallOK(d, local, s, till)
        <5>1. d.kind # "me" /\ CallOK(d, local, site, till)
          BY <4>1
        <5>2. QED
          BY <1>4, <4>2, <5>1 DEF CallOK
      <4>5. QED
        BY <1>4, <4>1, <4>2, <4>3, <4>4 DEF ProvidersOK
    <3>3. QED
      BY <3>1, <3>2
  <2>3. QED
    BY <1>3, <1>4, <2>1, <2>2 DEF Good
<1>6. Good(local, s, till, talk, B \cup CartCall(u))
  <2>1. CASE u = 0
    <3>1. B \cup CartCall(u) = B
      BY <2>1 DEF CartCall
    <3>2. QED
      BY <1>5, <3>1
  <2>2. CASE u # 0
    <3> DEFINE k == Sent("cart", u)
    <3>1. "cart" \in CallKinds
      BY DEF CallKinds
    <3>2. k \in OpenCalls /\ k.kind = "cart" /\ k.token = local
      BY <1>3, <3>1, SentIs
    <3>3. s.disturbed \/ local = u
      BY <1>1, <1>3, <1>4, <2>2 DEF Good, ProvidersOK, CallOK
    <3>4. s.disturbed \/ CallOK(k, local, s, till)
      BY <1>4, <2>2, <3>2, <3>3 DEF CallOK
    <3>5. B \cup CartCall(u) = B \cup {k}
      BY <2>2 DEF CartCall
    <3> HIDE DEF k
    <3>6. QED
      BY <1>5, <3>2, <3>4, <3>5, OneMore
  <2>3. QED
    BY <2>1, <2>2
<1>7. Become(s, B \cup CartCall(u)) \/ GoTo(s, "home", B \cup CartCall(u))
  BY <1>2, Zenon DEF s
<1> HIDE DEF B
<1>8. QED
  BY <1>1, <1>6, <1>7, Becomes, GoesTo DEF SitePages

\* The list of a merchant who signs out is gone with its page.
LEMMA LogoutStep == LegacyInv /\ Logout => LegacyInv'
<1> SUFFICES ASSUME LegacyInv, Logout PROVE LegacyInv'
  OBVIOUS
<1> DEFINE s == [AsUser(site, 0) EXCEPT !.disturbed = @ \/ UnderWayFor(open)]
           s0 == [s EXCEPT !.list = 0]
<1>1. local' = 0 /\ site.user # 0 /\ Become(s, open)
  BY DEF Logout, SignOut, Bar
<1>2. /\ site \in Sites /\ open \subseteq OpenCalls /\ till \in Tills /\ talk \in Talks
      /\ MayStay(site) /\ Good(local, site, till, talk, open) /\ ~site.authBusy
  BY <1>1 DEF LegacyInv, Good, PlacesOK
<1>3. /\ s \in Sites /\ s.page = site.page /\ s.user = 0 /\ s.authBusy = site.authBusy
      /\ s.list = site.list /\ s.popup = site.popup /\ s.cart = 0
      /\ s.disturbed = (site.disturbed \/ UnderWayFor(open))
  <2>1. UnderWayFor(open) \in BOOLEAN
    BY DEF UnderWayFor
  <2>2. QED
    BY <1>1, <1>2, <2>1 DEF AsUser, Sites, Anyone
<1> HIDE DEF s
<1>4. /\ s0 \in Sites /\ s0.page = site.page /\ s0.user = 0 /\ s0.authBusy = site.authBusy
      /\ s0.list = 0 /\ s0.popup = site.popup /\ s0.cart = 0
      /\ s0.disturbed = (site.disturbed \/ UnderWayFor(open))
  BY <1>3 DEF Sites, Anyone
<1> HIDE DEF s0
<1>5. Good(0, s0, till, talk, open)
  <2>1. PlacesOK(s0, till, open) /\ TalkOK(s0, talk, open)
    BY <1>2, <1>4 DEF Good, PlacesOK, TalkOK
  <2>2. ProvidersOK(0, s0, till, open)
    <3>1. CASE s0.disturbed
      BY <3>1 DEF ProvidersOK
    <3>2. CASE ~s0.disturbed
      <4>1. s0.popup = 0 /\ \A d \in open : d.kind \in {"chat", "signup"}
        BY <1>4, <3>2 DEF UnderWayFor
      <4>2. \A d \in open : CallOK(d, 0, s0, till)
        BY <4>1 DEF CallOK
      <4>3. QED
        BY <1>4, <4>1, <4>2 DEF ProvidersOK
    <3>3. QED
      BY <3>1, <3>2
  <2>3. QED
    BY <1>2, <1>4, <2>1, <2>2 DEF Good, Anyone
<1>6. CASE site.page = "admin"
  <2>1. ~MayStay(s)
    BY <1>2, <1>3, <1>6, LegacyAssumption DEF MayStay
  <2>2. GoTo(s, "home", open)
    BY <1>1, <2>1 DEF Become
  <2>3. \A p : Arriving(s0, p) = Arriving(s, p)
    BY <1>3 DEF Arriving, s0, Sites
  <2>4. GoTo(s0, "home", open)
    BY <2>2, <2>3 DEF GoTo
  <2>5. QED
    BY <1>1, <1>4, <1>5, <2>4, GoesTo DEF SitePages
<1>7. CASE site.page # "admin"
  <2>1. s0 = s
    BY <1>2, <1>3, <1>7 DEF Good, PlacesOK, s0, Sites
  <2>2. QED
    BY <1>1, <1>4, <1>5, <2>1, Becomes
<1>8. QED
  BY <1>6, <1>7

LEMMA ChangeCartStep == LegacyInv /\ (AddRecommended \/ EditCart) => LegacyInv'
<1> SUFFICES ASSUME LegacyInv, ChangeCart, UNCHANGED <<local, talk, till>> PROVE LegacyInv'
  BY DEF AddRecommended, EditCart, ChangeCart
<1> DEFINE c == Sent("edit", site.user)
           s == [site EXCEPT !.cartBusy = TRUE]
<1>1. /\ MayStay(site) /\ Good(local, site, till, talk, open)
      /\ site \in Sites /\ till \in Tills /\ site.user \in Anyone
  BY DEF LegacyInv, Good, Sites
<1>2. c \in OpenCalls /\ c.kind = "edit" /\ c.as = site.user
  <2>1. "edit" \in CallKinds
    BY DEF CallKinds
  <2>2. QED
    BY <1>1, <2>1, SentIs
<1>3. /\ s \in Sites /\ s.page = site.page /\ s.user = site.user /\ s.authBusy = site.authBusy
      /\ s.list = site.list /\ s.cart = site.cart /\ s.popup = site.popup
      /\ s.disturbed = site.disturbed
  BY <1>1 DEF Sites
<1>4. site' = s /\ open' = open \cup {c}
  BY DEF ChangeCart
<1> HIDE DEF c, s
<1>5. Good(local, s, till, talk, open) /\ MayStay(s)
  BY <1>1, <1>3, Alike
<1>6. CallOK(c, local, s, till)
  BY <1>2, <1>3 DEF CallOK
<1>7. Good(local, s, till, talk, open \cup {c})
  BY <1>2, <1>5, <1>6, OneMore
<1>8. QED
  BY <1>4, <1>5, <1>7, StillGood

\* What comes for the cart is the user's, or nothing comes.
LEMMA CartLoadedStep ==
  ASSUME LegacyInv, NEW c \in open, CartLoaded(c)
  PROVE  LegacyInv'
<1> DEFINE B == open \ {c}
<1>1. /\ MayStay(site) /\ Good(local, site, till, talk, open) /\ Good(local, site, till, talk, B)
      /\ site \in Sites /\ till \in Tills /\ c \in OpenCalls /\ c.kind = "cart" /\ local' = local
  <2>1. MayStay(site) /\ Good(local, site, till, talk, open)
    BY Now
  <2>2. Good(local, site, till, talk, B)
    BY <2>1, CallsGo
  <2>3. QED
    BY <2>1, <2>2 DEF CartLoaded, Good
<1>2. CASE /\ site' = [site EXCEPT !.cartBusy = FALSE] /\ open' = B
           /\ UNCHANGED <<talk, till>>
  <2>1. /\ site' \in Sites /\ site'.page = site.page /\ site'.user = site.user
        /\ site'.authBusy = site.authBusy /\ site'.list = site.list /\ site'.cart = site.cart
        /\ site'.popup = site.popup /\ site'.disturbed = site.disturbed
    BY <1>1, <1>2 DEF Sites
  <2>2. Good(local, site', till, talk, B) /\ MayStay(site')
    BY <1>1, <2>1, Alike
  <2>3. QED
    BY <1>1, <1>2, <2>2, StillGood
<1>3. ASSUME c.token # 0, NEW lines \in BOOLEAN,
             Become([site EXCEPT !.cart = c.token, !.lines = lines, !.cartBusy = FALSE], B)
      PROVE  LegacyInv'
  <2> DEFINE s == [site EXCEPT !.cart = c.token, !.lines = lines, !.cartBusy = FALSE]
  <2>1. /\ s \in Sites /\ s.page = site.page /\ s.user = site.user /\ s.authBusy = site.authBusy
        /\ s.list = site.list /\ s.cart = c.token /\ s.popup = site.popup
        /\ s.disturbed = site.disturbed
    BY <1>1 DEF Sites, OpenCalls
  <2>2. Become(s, B)
    BY <1>3
  <2> HIDE DEF s
  <2>3. site.disturbed \/ c.token = site.user
    BY <1>1 DEF Good, ProvidersOK, CallOK
  <2>4. PlacesOK(s, till, B) /\ TalkOK(s, talk, B)
    BY <1>1, <2>1 DEF Good, PlacesOK, TalkOK
  <2>5. ProvidersOK(local, s, till, B)
    BY <1>1, <2>1, <2>3 DEF Good, ProvidersOK, CallOK
  <2>6. Good(local, s, till, talk, B)
    BY <1>1, <2>1, <2>4, <2>5 DEF Good
  <2>7. QED
    BY <1>1, <2>2, <2>6, Becomes
<1>4. QED
  BY <1>2, <1>3 DEF CartLoaded

LEMMA CartEditedStep ==
  ASSUME LegacyInv, NEW c \in open, CartEdited(c)
  PROVE  LegacyInv'
<1> DEFINE B == open \ {c}
<1>1. /\ MayStay(site) /\ Good(local, site, till, talk, open) /\ Good(local, site, till, talk, B)
      /\ site \in Sites /\ till \in Tills /\ c \in OpenCalls /\ c.kind = "edit"
  <2>1. MayStay(site) /\ Good(local, site, till, talk, open)
    BY Now
  <2>2. Good(local, site, till, talk, B)
    BY <2>1, CallsGo
  <2>3. QED
    BY <2>1, <2>2 DEF CartEdited, Good
<1>2. /\ local' = local /\ talk' = talk /\ till' = till
      /\ open' = B \/ open' = B \cup CartCall(c.as)
  BY DEF CartEdited
<1>3. /\ site' \in Sites /\ site'.page = site.page /\ site'.user = site.user
      /\ site'.authBusy = site.authBusy /\ site'.list = site.list /\ site'.cart \in {0, site.cart}
      /\ site'.popup = site.popup /\ site'.disturbed = site.disturbed
  BY <1>1 DEF CartEdited, Sites, Anyone
<1>4. Good(local, site', till, talk, B) /\ MayStay(site')
  BY <1>1, <1>3, Alike
<1>5. CASE open' = B
  BY <1>2, <1>4, <1>5, StillGood
<1>6. CASE open' = B \cup CartCall(c.as) /\ c.as # 0
  <2> DEFINE k == Sent("cart", c.as)
  <2>1. "cart" \in CallKinds /\ c.as \in Anyone
    BY <1>1 DEF CallKinds, OpenCalls
  <2>2. k \in OpenCalls /\ k.kind = "cart" /\ k.token = local
    BY <2>1, SentIs
  <2>3. site'.disturbed \/ (local # 0 /\ site'.user = local)
    BY <1>1, <1>3, <1>6 DEF Good, ProvidersOK, CallOK
  <2>4. site'.disturbed \/ CallOK(k, local, site', till)
    BY <2>2, <2>3 DEF CallOK
  <2>5. open' = B \cup {k}
    BY <1>6 DEF CartCall
  <2> HIDE DEF k
  <2>6. Good(local, site', till, talk, B \cup {k})
    BY <1>4, <2>2, <2>4, OneMore
  <2>7. QED
    BY <1>2, <1>4, <2>5, <2>6, StillGood
<1>7. QED
  BY <1>2, <1>5, <1>6 DEF CartCall

LEMMA Added ==
  ASSUME NEW m \in Seq({"assistant", "user"}), NEW x \in {"assistant", "user"}
  PROVE  /\ Append(m, x) \in Seq({"assistant", "user"}) /\ Len(Append(m, x)) = Len(m) + 1
         /\ Len(m) \in Nat
         /\ Append(m, x)[Len(m) + 1] = x
         /\ \A i \in 1 .. Len(m) : Append(m, x)[i] = m[i]
  OBVIOUS

\* A message after which the turns are still taken.
LEMMA TurnsTaken ==
  ASSUME NEW m \in Seq({"assistant", "user"}), NEW x \in {"assistant", "user"},
         Len(m) > 0, x = "assistant" => m[Len(m)] = "user",
         \A i \in 2 .. Len(m) : m[i] = "assistant" => m[i - 1] = "user",
         NEW i \in 2 .. Len(Append(m, x)), Append(m, x)[i] = "assistant"
  PROVE  Append(m, x)[i - 1] = "user"
<1> DEFINE n == Append(m, x)
<1>1. /\ Len(n) = Len(m) + 1 /\ Len(m) \in Nat /\ n[Len(m) + 1] = x
      /\ \A j \in 1 .. Len(m) : n[j] = m[j]
  BY Added
<1>0. i \in 2 .. Len(n) /\ n[i] = "assistant"
  OBVIOUS
<1> HIDE DEF n
<1>2. i - 1 \in 1 .. Len(m)
  BY <1>0, <1>1
<1>3. ASSUME i = Len(m) + 1 PROVE n[i - 1] = "user"
  BY <1>0, <1>1, <1>2, <1>3
<1>4. ASSUME i # Len(m) + 1 PROVE n[i - 1] = "user"
  <2>1. i \in 2 .. Len(m) /\ i \in 1 .. Len(m)
    BY <1>0, <1>1, <1>4
  <2>2. m[i] = "assistant"
    BY <1>0, <1>1, <2>1
  <2>3. m[i - 1] = "user"
    BY <2>1, <2>2
  <2>4. QED
    BY <1>1, <1>2, <2>3
<1>5. n[i - 1] = "user"
  BY <1>3, <1>4
<1>6. QED
  BY <1>5 DEF n

LEMMA LegacySayStep == LegacyInv /\ SayToChat => LegacyInv'
<1> SUFFICES ASSUME LegacyInv, SayToChat PROVE LegacyInv'
  OBVIOUS
<1> DEFINE chat == Sent("chat", 0)
           m == talk.messages
           n == Append(m, "user")
<1>1. /\ site.page = "home" /\ ~talk.busy /\ local' = local /\ site' = site /\ till' = till
      /\ talk' = [messages |-> n, busy |-> TRUE] /\ open' = open \cup {chat}
  BY DEF SayToChat, Home
<1>2. MayStay(site) /\ Good(local, site, till, talk, open) /\ m \in Seq({"assistant", "user"})
  BY DEF LegacyInv, Good, Talks
<1>3. chat \in OpenCalls /\ chat.kind = "chat"
  <2>1. "chat" \in CallKinds /\ 0 \in Anyone
    BY DEF CallKinds, Anyone
  <2>2. QED
    BY <2>1, SentIs
<1>4. /\ n \in Seq({"assistant", "user"}) /\ Len(n) = Len(m) + 1 /\ Len(m) \in Nat
      /\ n[Len(m) + 1] = "user"
  BY <1>2, Added
<1>5. \A i \in 2 .. Len(n) : n[i] = "assistant" => n[i - 1] = "user"
  <2>1. Len(m) > 0 /\ \A i \in 2 .. Len(m) : m[i] = "assistant" => m[i - 1] = "user"
    BY <1>2 DEF Good, TalkOK
  <2>2. QED
    BY <1>2, <2>1, TurnsTaken
<1> HIDE DEF chat, n
<1>6. talk' \in Talks /\ talk'.messages = n /\ talk'.busy
  BY <1>1, <1>4 DEF Talks
<1>7. OwnChats(open \cup {chat}) \subseteq {chat}
  BY <1>1, <1>2 DEF Good, TalkOK, OwnChats
<1>8. TalkOK(site, talk', open \cup {chat})
  <2>1. Len(n) > 0 /\ n[Len(n)] = "user"
    BY <1>4
  <2>2. OwnChats(open \cup {chat}) # {} =>
           talk'.busy /\ site.page = "home" /\ talk'.messages[Len(talk'.messages)] = "user"
    BY <1>1, <1>6, <2>1
  <2>3. \A c, d \in OwnChats(open \cup {chat}) : c = d
    BY <1>7
  <2>4. QED
    BY <1>5, <1>6, <2>1, <2>2, <2>3 DEF TalkOK
<1>9. PlacesOK(site, till, open \cup {chat})
  BY <1>2, <1>3 DEF Good, PlacesOK
<1>10. ProvidersOK(local, site, till, open \cup {chat})
  BY <1>2, <1>3 DEF Good, ProvidersOK, CallOK
<1>11. Good(local, site, till, talk', open \cup {chat})
  BY <1>2, <1>3, <1>6, <1>8, <1>9, <1>10 DEF Good
<1>12. QED
  BY <1>1, <1>2, <1>11, StillGood

LEMMA LegacyRepliedStep ==
  ASSUME LegacyInv, NEW c \in open, ChatReplied(c)
  PROVE  LegacyInv'
<1> DEFINE B == open \ {c}
           m == talk.messages
           n == Append(m, "assistant")
<1>1. /\ c.kind = "chat" /\ local' = local /\ site' = site /\ till' = till /\ open' = B
      /\ \/ talk' = talk
         \/ talk' = [messages |-> n, busy |-> FALSE] /\ c.own
         \/ talk' = [talk EXCEPT !.busy = FALSE] /\ c.own
  BY DEF ChatReplied
<1>2. /\ MayStay(site) /\ Good(local, site, till, talk, open) /\ Good(local, site, till, talk, B)
      /\ talk \in Talks /\ m \in Seq({"assistant", "user"})
  <2>1. MayStay(site) /\ Good(local, site, till, talk, open)
    BY Now
  <2>2. Good(local, site, till, talk, B)
    BY <2>1, CallsGo
  <2>3. QED
    BY <2>1, <2>2 DEF Good, Talks
<1>3. CASE talk' = talk
  BY <1>1, <1>2, <1>3, StillGood
<1>4. CASE c.own /\ talk' \in {[messages |-> n, busy |-> FALSE], [talk EXCEPT !.busy = FALSE]}
  <2>1. /\ OwnChats(B) = {} /\ m[Len(m)] = "user" /\ Len(m) > 0
        /\ \A i \in 2 .. Len(m) : m[i] = "assistant" => m[i - 1] = "user"
    BY <1>1, <1>2, <1>4 DEF Good, TalkOK, OwnChats
  <2>2. /\ n \in Seq({"assistant", "user"}) /\ Len(n) = Len(m) + 1 /\ Len(m) \in Nat
    BY <1>2, Added
  <2>3. \A i \in 2 .. Len(n) : n[i] = "assistant" => n[i - 1] = "user"
    BY <1>2, <2>1, TurnsTaken
  <2> HIDE DEF n
  <2>4. talk' \in Talks /\ (talk'.messages = n \/ talk'.messages = m)
    <3>1. CASE talk' = [messages |-> n, busy |-> FALSE]
      BY <2>2, <3>1 DEF Talks
    <3>2. CASE talk' = [talk EXCEPT !.busy = FALSE]
      BY <1>2, <3>2 DEF Talks
    <3>3. QED
      BY <1>4, <3>1, <3>2
  <2>5. TalkOK(site, talk', B)
    <3>0. OwnChats(B) = {}
      BY <2>1
    <3>1. CASE talk'.messages = n
      <4>1. Len(n) > 0
        BY <2>2
      <4>2. QED
        BY <2>3, <3>0, <3>1, <4>1 DEF TalkOK
    <3>2. CASE talk'.messages = m
      BY <2>1, <3>2 DEF TalkOK
    <3>3. QED
      BY <2>4, <3>1, <3>2
  <2>6. Good(local, site, till, talk', B)
    BY <1>2, <2>4, <2>5 DEF Good
  <2>7. QED
    BY <1>1, <1>2, <2>6, StillGood
<1>5. QED
  BY <1>1, <1>3, <1>4

\* The answers to the checkout page.
LEMMA TillStep ==
  ASSUME LegacyInv, NEW c \in open, QuoteMade(c) \/ OrderMade(c)
  PROVE  LegacyInv'
<1> DEFINE B == open \ {c}
<1>1. /\ MayStay(site) /\ Good(local, site, till, talk, open) /\ Good(local, site, till, talk, B)
      /\ site \in Sites /\ till \in Tills /\ c \in OpenCalls
      /\ local' = local /\ site' = site /\ talk' = talk
  <2>1. MayStay(site) /\ Good(local, site, till, talk, open)
    BY Now
  <2>2. Good(local, site, till, talk, B)
    BY <2>1, CallsGo
  <2>3. QED
    BY <2>1, <2>2 DEF QuoteMade, OrderMade, Good
<1>2. ASSUME till' \in Tills, till'.quote = till.quote, open' = B
      PROVE  LegacyInv'
  <2>1. Good(local, site, till', talk, B)
    BY <1>1, <1>2, Alike
  <2>2. QED
    BY <1>1, <1>2, <2>1, StillGood
<1>3. ASSUME c.kind = "quote", c.own, c.token # 0, open' = B,
             till' = [till EXCEPT !.quote = c.token, !.busy = FALSE]
      PROVE  LegacyInv'
  <2>1. till' \in Tills /\ till'.quote = c.token
    BY <1>1, <1>3 DEF Tills, OpenCalls
  <2>2. site.disturbed \/ (c.token = local /\ site.user = local)
    BY <1>1, <1>3 DEF Good, ProvidersOK, CallOK
  <2>3. site.page = "checkout"
    BY <1>1, <1>3 DEF Good, PlacesOK
  <2>4. PlacesOK(site, till', B)
    BY <1>1, <2>3 DEF Good, PlacesOK
  <2>5. ProvidersOK(local, site, till', B)
    <3>1. CASE site.disturbed
      BY <3>1 DEF ProvidersOK
    <3>2. CASE ~site.disturbed
      <4>1. \A d \in B : CallOK(d, local, site, till')
        BY <1>1, <1>3, <2>2, <3>2 DEF Good, ProvidersOK, CallOK
      <4>2. QED
        BY <1>1, <2>1, <2>2, <3>2, <4>1 DEF Good, ProvidersOK
    <3>3. QED
      BY <3>1, <3>2
  <2>6. Good(local, site, till', talk, B)
    BY <1>1, <2>1, <2>4, <2>5 DEF Good
  <2>7. QED
    BY <1>1, <1>3, <2>6, StillGood
<1>4. ASSUME c.kind = "confirm", c.token = c.as, till' = till,
             open' = B \cup {[c EXCEPT !.kind = "pay", !.token = local]}
      PROVE  LegacyInv'
  <2> DEFINE k == [c EXCEPT !.kind = "pay", !.token = local]
  <2>1. k \in OpenCalls /\ k.kind = "pay" /\ k.token = local
    BY <1>1 DEF OpenCalls, CallKinds, Good
  <2>2. site.disturbed \/ site.user = local
    BY <1>1, <1>4 DEF Good, ProvidersOK, CallOK
  <2> HIDE DEF k
  <2>3. site.disturbed \/ CallOK(k, local, site, till)
    BY <2>1, <2>2 DEF CallOK
  <2>4. Good(local, site, till, talk, B \cup {k})
    BY <1>1, <2>1, <2>3, OneMore
  <2>5. QED
    BY <1>1, <1>4, <2>4, StillGood DEF k
<1>5. till' = till \/ till' = [till EXCEPT !.busy = FALSE]
                   \/ (c.own /\ till' = [till EXCEPT !.quote = c.token, !.busy = FALSE])
  BY DEF QuoteMade, OrderMade, Tell
<1>6. ASSUME till' = till \/ till' = [till EXCEPT !.busy = FALSE]
      PROVE  till' \in Tills /\ till'.quote = till.quote
  BY <1>1, <1>6 DEF Tills
<1>7. CASE QuoteMade(c)
  <2>1. c.kind = "quote" /\ open' = B
    BY <1>7 DEF QuoteMade
  <2>2. \/ till' = till \/ till' = [till EXCEPT !.busy = FALSE]
        \/ c.own /\ c.token # 0 /\ till' = [till EXCEPT !.quote = c.token, !.busy = FALSE]
    BY <1>7 DEF QuoteMade, Tell
  <2>3. QED
    BY <1>2, <1>3, <1>6, <2>1, <2>2
<1>8. CASE OrderMade(c)
  <2>1. \/ /\ c.kind = "confirm" /\ c.token = c.as /\ till' = till
           /\ open' = B \cup {[c EXCEPT !.kind = "pay", !.token = local]}
        \/ /\ open' = B
           /\ till' = till \/ till' = [till EXCEPT !.busy = FALSE]
    BY <1>8 DEF OrderMade, Tell
  <2>2. QED
    BY <1>2, <1>4, <1>6, <2>1
<1>9. QED
  BY <1>7, <1>8

LEMMA ConfirmAndPayStep == LegacyInv /\ ConfirmAndPay => LegacyInv'
<1> SUFFICES ASSUME LegacyInv, ConfirmAndPay PROVE LegacyInv'
  OBVIOUS
<1> DEFINE c == Sent("confirm", till.quote)
           t == [till EXCEPT !.busy = TRUE]
<1>1. /\ till' = t /\ open' = open \cup {c} /\ till.quote # 0
      /\ local' = local /\ site' = site /\ talk' = talk
  BY DEF ConfirmAndPay, TillShown
<1>2. /\ MayStay(site) /\ Good(local, site, till, talk, open) /\ site \in Sites
      /\ till \in Tills /\ till.quote \in Anyone
  BY DEF LegacyInv, Good, Tills
<1>3. t \in Tills /\ t.quote = till.quote
  BY <1>2 DEF Tills
<1>4. c \in OpenCalls /\ c.kind = "confirm" /\ c.token = local
  <2>1. "confirm" \in CallKinds
    BY DEF CallKinds
  <2>2. QED
    BY <1>2, <2>1, SentIs
<1> HIDE DEF c, t
<1>5. Good(local, site, t, talk, open)
  BY <1>2, <1>3, Alike
<1>6. site.disturbed \/ CallOK(c, local, site, t)
  BY <1>1, <1>2, <1>4 DEF Good, ProvidersOK, CallOK
<1>7. Good(local, site, t, talk, open \cup {c})
  BY <1>4, <1>5, <1>6, OneMore
<1>8. QED
  BY <1>1, <1>2, <1>7, StillGood

\* The payment window opens for an order of the user's.
LEMMA PaymentMadeStep ==
  ASSUME LegacyInv, NEW c \in open, PaymentMade(c)
  PROVE  LegacyInv'
<1> DEFINE B == open \ {c}
<1>1. /\ MayStay(site) /\ Good(local, site, till, talk, open) /\ Good(local, site, till, talk, B)
      /\ site \in Sites /\ till \in Tills /\ c \in OpenCalls
  <2>1. MayStay(site) /\ Good(local, site, till, talk, open)
    BY Now
  <2>2. Good(local, site, till, talk, B)
    BY <2>1, CallsGo
  <2>3. QED
    BY <2>1, <2>2 DEF Good
<1>2. /\ c.kind = "pay" /\ open' = B /\ local' = local /\ talk' = talk
      /\ till' \in {till, [till EXCEPT !.busy = FALSE]}
      /\ site' = site \/ (c.token = c.as /\ site' = [site EXCEPT !.popup = c.as])
  BY DEF PaymentMade, Tell
<1>3. till' \in Tills /\ till'.quote = till.quote
  BY <1>1, <1>2 DEF Tills
<1>4. Good(local, site, till', talk, B)
  BY <1>1, <1>3, Alike
<1>5. CASE site' = site
  BY <1>1, <1>2, <1>4, <1>5, StillGood
<1>6. CASE c.token = c.as /\ site' = [site EXCEPT !.popup = c.as]
  <2>1. /\ site' \in Sites /\ site'.page = site.page /\ site'.user = site.user
        /\ site'.authBusy = site.authBusy /\ site'.list = site.list /\ site'.cart = site.cart
        /\ site'.popup = c.as /\ site'.disturbed = site.disturbed
    BY <1>1, <1>6 DEF Sites, OpenCalls
  <2>2. site.disturbed \/ c.as = site.user
    BY <1>1, <1>2, <1>6 DEF Good, ProvidersOK, CallOK
  <2>3. PlacesOK(site', till', B) /\ TalkOK(site', talk, B) /\ MayStay(site')
    BY <1>1, <1>4, <2>1 DEF Good, PlacesOK, TalkOK, MayStay
  <2>4. ProvidersOK(local, site', till', B)
    BY <1>4, <2>1, <2>2 DEF Good, ProvidersOK, CallOK
  <2>5. Good(local, site', till', talk, B)
    BY <1>4, <2>1, <2>3, <2>4 DEF Good
  <2>6. QED
    BY <1>2, <2>3, <2>5, StillGood
<1>7. QED
  BY <1>2, <1>5, <1>6

LEMMA PopupStep == LegacyInv /\ PopupDone => LegacyInv'
<1> SUFFICES ASSUME LegacyInv, PopupDone PROVE LegacyInv'
  OBVIOUS
<1> DEFINE s == [site EXCEPT !.popup = 0]
<1>1. GoTo(s, "order", open) \/ Stay(s, open)
  BY DEF PopupDone
<1>2. /\ MayStay(site) /\ Good(local, site, till, talk, open) /\ site \in Sites /\ till \in Tills
      /\ local' = local
  BY DEF LegacyInv, Good, PopupDone
<1>3. /\ s \in Sites /\ s.page = site.page /\ s.user = site.user /\ s.authBusy = site.authBusy
      /\ s.list = site.list /\ s.cart = site.cart /\ s.popup = 0 /\ s.disturbed = site.disturbed
  BY <1>2 DEF Sites, Anyone
<1> HIDE DEF s
<1>4. Good(local', s, till, talk, open) /\ MayStay(s)
  BY <1>2, <1>3, Alike
<1>5. QED
  BY <1>1, <1>2, <1>4, Stays, GoesTo DEF SitePages

LEMMA OpenListStep == LegacyInv /\ OpenList => LegacyInv'
<1> SUFFICES ASSUME LegacyInv, OpenList PROVE LegacyInv'
  OBVIOUS
<1> DEFINE s0 == Arriving(site, "admin")
           k == Sent("list", 0)
<1>1. /\ site.page = "admin" /\ ~site.authBusy /\ open' = Left(open) \cup {k}
      /\ local' = local /\ talk' = talk /\ till' = till
  BY DEF OpenList, Menu
<1>2. PICK w \in SiteLists : site' = [s0 EXCEPT !.which = w]
  BY DEF OpenList, Menu
<1> DEFINE s == [s0 EXCEPT !.which = w]
<1>3. /\ MayStay(site) /\ Good(local, site, till, talk, open) /\ site \in Sites /\ till \in Tills
  BY DEF LegacyInv, Good
<1>4. /\ s0 \in Sites /\ s0.page = "admin" /\ s0.user = site.user /\ s0.authBusy = site.authBusy
      /\ s0.disturbed = site.disturbed
  BY <1>1, <1>3 DEF Arriving, Sites, Anyone
<1>5. /\ s \in Sites /\ s.page = "admin" /\ s.user = site.user /\ s.authBusy = site.authBusy
      /\ s.disturbed = site.disturbed /\ s.list = s0.list /\ s.cart = s0.cart /\ s.popup = s0.popup
  BY <1>4, LegacyAssumption DEF Sites
<1>6. "list" \in CallKinds /\ 0 \in Anyone /\ "admin" \in SitePages
  BY DEF CallKinds, Anyone, SitePages
<1>7. k \in OpenCalls /\ k.kind = "list" /\ k.token = local
  BY <1>6, SentIs
<1> HIDE DEF s0, s, k
<1>8. till.quote = 0
  BY <1>1, <1>3 DEF Good, PlacesOK
<1>9. Good(local, s0, till, talk, Left(open))
  BY <1>3, <1>6, <1>8, Moves DEF s0
<1>10. site.user \in Merchants /\ site.user # 0 /\ MayStay(s) /\ MayStay(s0)
  BY <1>1, <1>3, <1>4, <1>5, LegacyAssumption DEF MayStay
<1>11. s.disturbed \/ CallOK(k, local, s, till)
  BY <1>3, <1>4, <1>5, <1>7, <1>10 DEF Good, ProvidersOK, CallOK
<1>12. Good(local, s, till, talk, Left(open))
  BY <1>3, <1>4, <1>5, <1>9, Alike
<1>13. Good(local, s, till, talk, Left(open) \cup {k})
  BY <1>5, <1>7, <1>12, <1>11, OneMore
<1>14. QED
  BY <1>1, <1>2, <1>10, <1>13, StillGood DEF s

LEMMA ListLoadedStep ==
  ASSUME LegacyInv, NEW c \in open, ListLoaded(c)
  PROVE  LegacyInv'
<1> DEFINE B == open \ {c}
<1>1. /\ MayStay(site) /\ Good(local, site, till, talk, open) /\ Good(local, site, till, talk, B)
      /\ site \in Sites /\ c \in OpenCalls
  <2>1. MayStay(site) /\ Good(local, site, till, talk, open)
    BY Now
  <2>2. Good(local, site, till, talk, B)
    BY <2>1, CallsGo
  <2>3. QED
    BY <2>1, <2>2 DEF Good
<1>2. /\ c.kind = "list" /\ open' = B /\ local' = local /\ talk' = talk /\ till' = till
      /\ \/ site' = site
         \/ c.own /\ \E sh \in {"array", "items", "neither"} :
                         site' = [site EXCEPT !.list = c.token, !.shape = sh]
  BY DEF ListLoaded
<1>3. CASE site' = site
  BY <1>1, <1>2, <1>3, StillGood
<1>4. ASSUME c.own, NEW sh \in {"array", "items", "neither"},
             site' = [site EXCEPT !.list = c.token, !.shape = sh]
      PROVE  LegacyInv'
  <2>1. /\ site' \in Sites /\ site'.page = site.page /\ site'.user = site.user
        /\ site'.authBusy = site.authBusy /\ site'.list = c.token /\ site'.cart = site.cart
        /\ site'.popup = site.popup /\ site'.disturbed = site.disturbed
    BY <1>1, <1>4 DEF Sites, OpenCalls
  <2>2. (site.disturbed \/ c.token = site.user) /\ site.page = "admin"
    BY <1>1, <1>2, <1>4 DEF Good, ProvidersOK, CallOK, PlacesOK
  <2>3. PlacesOK(site', till, B) /\ TalkOK(site', talk, B) /\ MayStay(site')
    BY <1>1, <2>1, <2>2 DEF Good, PlacesOK, TalkOK, MayStay
  <2>4. ProvidersOK(local, site', till, B)
    BY <1>1, <2>1, <2>2 DEF Good, ProvidersOK, CallOK
  <2>5. Good(local, site', till, talk, B)
    BY <1>1, <2>1, <2>3, <2>4 DEF Good
  <2>6. QED
    BY <1>2, <2>3, <2>5, StillGood
<1>5. QED
  BY <1>2, <1>3, <1>4

LEMMA LegacyIsInductive == LegacyInv /\ [LegacyNext]_legacyVars => LegacyInv'
<1> SUFFICES ASSUME LegacyInv, [LegacyNext]_legacyVars PROVE LegacyInv'
  OBVIOUS
<1>1. CASE Reload
  BY <1>1, ReloadStep
<1>2. CASE Follow
  BY <1>2, FollowStep
<1>3. CASE SignIn \/ SignUp
  BY <1>3, FormStep
<1>4. CASE Logout
  BY <1>4, LogoutStep
<1>5. CASE OtherTabSigns
  BY <1>5, OtherTabStep
<1>6. CASE AddRecommended \/ EditCart
  BY <1>6, ChangeCartStep
<1>7. CASE SayToChat
  BY <1>7, LegacySayStep
<1>8. CASE ConfirmAndPay
  BY <1>8, ConfirmAndPayStep
<1>9. CASE PopupDone
  BY <1>9, PopupStep
<1>10. CASE OpenList
  BY <1>10, OpenListStep
<1>11. ASSUME NEW c \in open, UserLoaded(c) \/ SignedInAs(c) \/ SignedUp(c) \/ FormFailed(c)
       PROVE  LegacyInv'
  BY <1>11, UserLoadedStep, SignedInStep, SignedUpStep, FormFailedStep
<1>12. ASSUME NEW c \in open, CartLoaded(c) \/ CartEdited(c) \/ ChatReplied(c) \/ ListLoaded(c)
       PROVE  LegacyInv'
  BY <1>12, CartLoadedStep, CartEditedStep, LegacyRepliedStep, ListLoadedStep
<1>13. ASSUME NEW c \in open, QuoteMade(c) \/ OrderMade(c) \/ PaymentMade(c)
       PROVE  LegacyInv'
  BY <1>13, TillStep, PaymentMadeStep
<1>14. CASE UNCHANGED legacyVars
  <2>1. /\ local' = local /\ site' = site /\ talk' = talk /\ till' = till /\ open' = open
    BY <1>14 DEF legacyVars
  <2>2. QED
    BY <2>1, Now, StillGood
<1>15. QED
  BY <1>1, <1>2, <1>3, <1>4, <1>5, <1>6, <1>7, <1>8, <1>9, <1>10, <1>11, <1>12, <1>13, <1>14
     DEF LegacyNext

\* In the older storefront who is shown as signed in is who the browser acts for,
\* and the cart, the rows, the quote and the payment window are his, until a session
\* begins or ends over something that is under way for one, or in another tab
\* (AuthContext.loadUser, CartContext.refreshCart, apiClient); and the chat answers
\* each prompt once at most, in its turn, whatever comes back late (ai-chat.tsx).
THEOREM LegacySafe == LegacySpec => [](LegacyTypeOK /\ ShownIsSignedIn /\ TakesTurns)
<1>1. LegacySpec => []LegacyInv
  BY LegacyStart, LegacyIsInductive, PTL DEF LegacySpec
<1>2. LegacyInv => LegacyTypeOK /\ ShownIsSignedIn /\ TakesTurns
  <2>1. LegacyInv => LegacyTypeOK
    BY DEF LegacyInv, Good, LegacyTypeOK, Sites, Talks
  <2>2. LegacyInv => ShownIsSignedIn
    BY DEF LegacyInv, Good, ProvidersOK, ShownIsSignedIn, ListDrawn, OrdersTable, AuditTable,
           ProductsTable, PoliciesTable
  <2>3. LegacyInv => TakesTurns
    BY DEF LegacyInv, Good, TalkOK, TakesTurns
  <2>4. QED
    BY <2>1, <2>2, <2>3
<1>3. QED
  BY <1>1, <1>2, PTL

-----------------------------------------------------------------------------
(* The limit on sign-ins. *)

LEMMA TotalIsSum ==
  ASSUME NEW f, NEW S
  PROVE  Total(f, S) = SumOver(f, S)
  BY Zenon DEF Total, FoldSet, MapThenFoldSet, SumOver, IsSum, Chosen

LEMMA TicksAre ==
  /\ Window \in Nat /\ Window > 0
  /\ Limit \in Nat /\ MaxWaiting \in Nat /\ Horizon \in Nat
  /\ Ticks \subseteq Nat /\ IsFiniteSet(Ticks)
  /\ \A w : TicksOf(w) \subseteq Ticks
<1>1. IsFiniteSet(Ticks)
  BY RateAssumption, FS_Interval DEF Ticks
<1>2. QED
  BY <1>1, RateAssumption DEF Ticks, TicksOf

\* A window begins at a multiple of its length, and ends before the next.
LEMMA WindowSpan ==
  ASSUME NEW t \in Nat
  PROVE  /\ WindowOf(t) \in Nat
         /\ WindowOf(t) * Window <= t
         /\ t < WindowOf(t) * Window + Window
<1>1. Window \in Nat /\ Window > 0
  BY TicksAre
<1>2. WindowOf(t) \in Nat /\ t = Window * WindowOf(t) + (t % Window) /\ t % Window \in 0 .. Window - 1
  BY <1>1 DEF WindowOf
<1>3. QED
  BY <1>1, <1>2

\* Two windows are apart by a length at least, for each between them.
LEMMA Multiples ==
  ASSUME NEW a \in Nat, NEW b \in Nat, a < b
  PROVE  a * Window + Window <= b * Window
<1>1. Window \in Nat /\ b - a - 1 \in Nat
  BY TicksAre
<1> DEFINE c == b - a - 1
<1>2. c * Window \in Nat /\ b = a + 1 + c
  BY <1>1
<1>0. c \in Nat
  BY <1>1
<1> HIDE DEF c
<1>3. b * Window = (a * Window + Window) + c * Window
  <2>1. \A x, y, z \in Nat : (x + y) * z = x * z + y * z
    OBVIOUS
  <2>2. (a + 1) * Window = a * Window + Window
    BY <1>1
  <2>3. ((a + 1) + c) * Window = (a + 1) * Window + c * Window
    <3>1. a + 1 \in Nat /\ c \in Nat
      BY <1>0
    <3> DEFINE y == a + 1
    <3>2. y \in Nat /\ Window \in Nat
      BY <1>1
    <3> HIDE DEF y
    <3>3. (y + c) * Window = y * Window + c * Window
      BY <3>1, <3>2
    <3>4. QED
      BY <3>3 DEF y
  <2>4. QED
    BY <1>2, <2>2, <2>3
<1>4. a * Window + Window \in Nat
  BY <1>1
<1> DEFINE d == a * Window + Window
           e == c * Window
<1>5. b * Window = d + e /\ d \in Nat /\ e \in Nat
  BY <1>2, <1>3, <1>4
<1> HIDE DEF d, e
<1>6. d <= b * Window
  BY <1>5
<1>7. QED
  BY <1>6 DEF d

\* What comes less than a window's length later is in the same window or the next.
LEMMA NextWindow ==
  ASSUME NEW t \in Nat, NEW u \in Nat, t <= u, u < t + Window
  PROVE  WindowOf(u) \in {WindowOf(t), WindowOf(t) + 1}
<1> DEFINE a == WindowOf(t)
           b == WindowOf(u)
<1>1. /\ a \in Nat /\ a * Window <= t /\ t < a * Window + Window
      /\ b \in Nat /\ b * Window <= u /\ u < b * Window + Window
      /\ Window \in Nat
  BY WindowSpan, TicksAre
<1> HIDE DEF a, b
<1>2. ~ (b < a)
  BY <1>1, Multiples
<1>3. ~ (a + 1 < b)
  <2>1. SUFFICES ASSUME a + 1 < b PROVE FALSE
    OBVIOUS
  <2>2. (a + 1) * Window + Window <= b * Window
    BY <1>1, <2>1, Multiples
  <2>3. (a + 1) * Window = a * Window + Window
    BY <1>1
  <2>4. QED
    BY <1>1, <2>2, <2>3
<1>4. b \in {a, a + 1}
  BY <1>1, <1>2, <1>3
<1>5. QED
  BY <1>4 DEF a, b

\* The end of the window after the one of t.
LEMMA AfterNext ==
  ASSUME NEW t \in Nat
  PROVE  /\ (WindowOf(t) + 2) * Window \in Nat
         /\ (WindowOf(t) + 2) * Window <= t + 2 * Window
<1> DEFINE a == WindowOf(t)
<1>1. a \in Nat /\ a * Window <= t /\ t < a * Window + Window /\ Window \in Nat
  BY WindowSpan, TicksAre
<1> HIDE DEF a
<1>2. (a + 2) * Window = a * Window + 2 * Window /\ a * Window \in Nat
  BY <1>1
<1>3. (a + 2) * Window \in Nat /\ (a + 2) * Window <= t + 2 * Window
  BY <1>1, <1>2
<1>4. QED
  BY <1>3 DEF a

\* A sum of a function on the ticks, over ticks: where one of them changes.
LEMMA TotalChange ==
  ASSUME NEW f \in [Ticks -> Nat], NEW g \in [Ticks -> Nat], NEW t \in Ticks,
         \A u \in Ticks : u # t => g[u] = f[u], NEW S \in SUBSET Ticks
  PROVE  /\ Total(f, S) \in Nat /\ Total(g, S) \in Nat
         /\ t \in S => Total(g, S) + f[t] = Total(f, S) + g[t]
         /\ t \notin S => Total(g, S) = Total(f, S)
<1>1. Numbers(f, S) /\ Numbers(g, S) /\ IsFiniteSet(S)
  BY TicksAre, FS_Subset DEF Numbers
<1>2. /\ SumOver(f, S) \in Nat /\ SumOver(g, S) \in Nat
      /\ t \in S => SumOver(g, S) + f[t] = SumOver(f, S) + g[t]
      /\ t \notin S => SumOver(g, S) = SumOver(f, S)
  BY <1>1, SumRemove, SumChange, SumCongruence
<1>3. QED
  BY <1>2, TotalIsSum

LEMMA TotalOfSome ==
  ASSUME NEW f \in [Ticks -> Nat], NEW S \in SUBSET Ticks
  PROVE  /\ Total(f, S) \in Nat
         /\ \A t \in S : f[t] <= Total(f, S)
         /\ Total(f, {}) = 0
         /\ (\A t \in S : f[t] = 0) => Total(f, S) = 0
         /\ \A T \in SUBSET S : Total(f, T) <= Total(f, S)
<1>1. Numbers(f, S) /\ \A T \in SUBSET S : Numbers(f, T)
  BY TicksAre, FS_Subset DEF Numbers
<1>2. SumOver(f, S) \in Nat /\ \A T \in SUBSET S : SumOver(f, T) <= SumOver(f, S)
  BY <1>1, SumRemove, SumPart
<1>3. ASSUME NEW t \in S PROVE f[t] <= SumOver(f, S)
  <2>1. SumOver(f, S) = f[t] + SumOver(f, S \ {t}) /\ SumOver(f, S \ {t}) \in Nat
    BY <1>1, SumRemove
  <2>2. QED
    BY <1>2, <2>1
<1>4. SumOver(f, {}) = 0
  BY <1>1, SumPick DEF Numbers
<1>5. ASSUME \A t \in S : f[t] = 0 PROVE SumOver(f, S) = 0
  <2>1. CASE S = {}
    BY <1>4, <2>1
  <2>2. CASE S # {}
    <3> DEFINE F == {T \in SUBSET S : SumOver(f, T) = 0}
    <3>1. {} \in F
      BY <1>4
    <3>2. ASSUME NEW T \in SUBSET S, NEW x \in S, T \in F, x \notin T PROVE T \cup {x} \in F
      <4>1. Numbers(f, T \cup {x}) /\ IsFiniteSet(T)
        BY <1>1 DEF Numbers
      <4>2. SumOver(f, T \cup {x}) = f[x] + SumOver(f, T)
        BY <3>2, <4>1, SumAdd
      <4>3. QED
        BY <1>5, <3>2, <4>2
    <3> HIDE DEF F
    <3>3. S \in F
      BY <1>1, <3>1, <3>2, FiniteInduction DEF Numbers
    <3>4. QED
      BY <3>3 DEF F
  <2>3. QED
    BY <2>1, <2>2
<1>6. QED
  BY <1>2, <1>3, <1>4, <1>5, TotalIsSum

LEMMA TotalOfTwo ==
  ASSUME NEW f \in [Ticks -> Nat], NEW A \in SUBSET Ticks, NEW B \in SUBSET Ticks
  PROVE  Total(f, A \cup B) <= Total(f, A) + Total(f, B)
<1>1. Numbers(f, A \cup B)
  BY TicksAre, FS_Subset DEF Numbers
<1>2. QED
  BY <1>1, SumUnion, TotalIsSum

LEMMA RateStart == RateInit => RateInv
<1> SUFFICES ASSUME RateInit PROVE RateInv
  OBVIOUS
<1> USE DEF RateInit
<1>1. /\ now \in Ticks /\ forgotten \in BOOLEAN /\ late \in BOOLEAN
      /\ waiting \in [Ticks -> Nat] /\ admitted \in [Ticks -> Nat]
  <2>1. now \in Ticks
    BY RateAssumption DEF Ticks
  <2>2. QED
    BY <2>1
<1>2. counter \in [{WindowOf(t) : t \in Ticks} -> Counters]
      /\ \A w \in DOMAIN counter : counter[w].count = 0
  BY DEF NoKey, Counters
<1>3. \A S \in SUBSET Ticks : Total(waiting, S) = 0 /\ Total(admitted, S) = 0
  <2>1. \A t \in Ticks : waiting[t] = 0 /\ admitted[t] = 0
    OBVIOUS
  <2>2. QED
    BY <1>1, <2>1, TotalOfSome
<1>4. CountersOK
  <2>1. ASSUME NEW w \in DOMAIN counter
        PROVE  Total(admitted, TicksOf(w)) = 0 /\ counter[w].count = 0
    BY <1>2, <1>3, TicksAre
  <2>2. Earlier \in Nat /\ Limit \in Nat
    BY TicksAre DEF Earlier
  <2> HIDE DEF RateInit
  <2>3. ASSUME NEW w \in DOMAIN counter
        PROVE  /\ counter[w].count > 0 => counter[w].until >= (w + 2) * Window
               /\ Total(admitted, TicksOf(w)) <= counter[w].count + Earlier
               /\ Total(admitted, TicksOf(w)) <= Limit + Earlier
    BY <2>1, <2>2
  <2>4. QED
    BY <2>3 DEF CountersOK
<1>5. Total(waiting, Ticks) <= MaxWaiting
  <2>1. Ticks \in SUBSET Ticks
    OBVIOUS
  <2>2. Total(waiting, Ticks) = 0
    BY <1>3, <2>1, Zenon
  <2>3. QED
    BY <2>2, TicksAre
<1>6. QED
  <2>1. \A t \in Ticks : waiting[t] > 0 => t <= now
    OBVIOUS
  <2>2. QED
    BY <1>1, <1>2, <1>4, <1>5, <2>1 DEF RateInv

LEMMA ArriveStep == RateInv /\ Arrive => RateInv'
<1> SUFFICES ASSUME RateInv, Arrive PROVE RateInv'
  OBVIOUS
<1>1. /\ now' = now /\ counter' = counter /\ admitted' = admitted
      /\ forgotten' = forgotten /\ late' = late
      /\ waiting' = [waiting EXCEPT ![now] = @ + 1] /\ Total(waiting, Ticks) < MaxWaiting
  BY DEF Arrive
<1>2. /\ now \in Ticks /\ waiting \in [Ticks -> Nat] /\ now \in Nat
      /\ \A t \in Ticks : waiting[t] > 0 => t <= now
  BY TicksAre DEF RateInv
<1>3. waiting' \in [Ticks -> Nat] /\ waiting'[now] = waiting[now] + 1
      /\ \A t \in Ticks : t # now => waiting'[t] = waiting[t]
  BY <1>1, <1>2
<1>4. CountersOK'
  BY <1>1 DEF RateInv, CountersOK, Earlier
<1>5. Total(waiting', Ticks) <= MaxWaiting
  <2>1. Total(waiting', Ticks) + waiting[now] = Total(waiting, Ticks) + waiting'[now]
        /\ Total(waiting, Ticks) \in Nat /\ Total(waiting', Ticks) \in Nat
    BY <1>2, <1>3, TotalChange
  <2>2. QED
    BY <1>1, <1>2, <1>3, <2>1, TicksAre
<1>6. \A t \in Ticks : waiting'[t] > 0 => t <= now'
  BY <1>1, <1>2, <1>3, TicksAre
<1>7. QED
  BY <1>1, <1>3, <1>4, <1>5, <1>6 DEF RateInv

\* A request goes: one waits less, of its tick.
LEMMA OneLess ==
  ASSUME RateInv, NEW t \in Ticks, waiting[t] > 0, now' = now,
         waiting' = [waiting EXCEPT ![t] = @ - 1]
  PROVE  /\ waiting' \in [Ticks -> Nat]
         /\ \A u \in Ticks : waiting'[u] > 0 => u <= now'
         /\ Total(waiting', Ticks) <= MaxWaiting
<1>1. waiting \in [Ticks -> Nat] /\ Total(waiting, Ticks) <= MaxWaiting
  BY DEF RateInv
<1>2. waiting' \in [Ticks -> Nat] /\ waiting'[t] = waiting[t] - 1
      /\ \A u \in Ticks : u # t => waiting'[u] = waiting[u]
  BY <1>1
<1>3. Total(waiting', Ticks) + waiting[t] = Total(waiting, Ticks) + waiting'[t]
      /\ Total(waiting, Ticks) \in Nat /\ Total(waiting', Ticks) \in Nat
  <2> DEFINE f == waiting
             g == waiting'
  <2>1. /\ f \in [Ticks -> Nat] /\ g \in [Ticks -> Nat] /\ Ticks \in SUBSET Ticks
        /\ \A u \in Ticks : u # t => g[u] = f[u]
    BY <1>1, <1>2
  <2> HIDE DEF f, g
  <2>2. Total(g, Ticks) + f[t] = Total(f, Ticks) + g[t]
        /\ Total(f, Ticks) \in Nat /\ Total(g, Ticks) \in Nat
    BY <2>1, TotalChange
  <2>3. QED
    BY <2>2 DEF f, g
<1>4. Total(waiting', Ticks) <= MaxWaiting
  BY <1>1, <1>2, <1>3, TicksAre
<1>5. QED
  BY <1>1, <1>2, <1>4 DEF RateInv

LEMMA UncheckedStep ==
  ASSUME RateInv, NEW t \in Ticks, Unchecked(t)
  PROVE  RateInv'
<1>1. /\ now' = now /\ counter' = counter /\ admitted' = admitted
      /\ forgotten' = forgotten /\ late' = late
      /\ waiting' = [waiting EXCEPT ![t] = @ - 1] /\ waiting[t] > 0
  BY DEF Unchecked
<1>2. CountersOK'
  BY <1>1 DEF RateInv, CountersOK, Earlier
<1>3. QED
  BY <1>1, <1>2, OneLess DEF RateInv

LEMMA CheckStep ==
  ASSUME RateInv, NEW t \in Ticks, Check(t)
  PROVE  RateInv'
<1> DEFINE w == WindowOf(t)
           count == counter[w].count + 1
           end == (w + 2) * Window
<1>1. /\ now' = now /\ forgotten' = forgotten /\ Earlier' = Earlier
      /\ waiting' = [waiting EXCEPT ![t] = @ - 1] /\ waiting[t] > 0
      /\ counter' = [counter EXCEPT ![w] = [count |-> count, until |-> now + 2 * Window]]
      /\ admitted' = [admitted EXCEPT ![t] = IF Allowed(count) THEN @ + 1 ELSE @]
  BY DEF Check, Earlier
<1>2. /\ now \in Ticks /\ admitted \in [Ticks -> Nat] /\ forgotten \in BOOLEAN
      /\ counter \in [{WindowOf(u) : u \in Ticks} -> Counters]
      /\ t <= now
  BY <1>1 DEF RateInv
<1>3. /\ now \in Nat /\ t \in Nat /\ w \in Nat /\ w \in {WindowOf(u) : u \in Ticks}
      /\ counter[w].count \in Nat
      /\ Window \in Nat /\ Limit \in Nat
      /\ Earlier \in Nat
  BY <1>2, TicksAre, WindowSpan DEF Counters, Earlier
<1>4. end \in Nat /\ end <= t + 2 * Window
  BY <1>3, AfterNext
<1> HIDE DEF end
<1>5. now + 2 * Window >= end
  BY <1>2, <1>3, <1>4
<1>12. late' \in BOOLEAN
  BY DEF Check, RateInv
<1>13. ~late' => ~late /\ ~(now >= end)
  BY DEF Check, end
<1> DEFINE a == admitted[t] + 1
<1>6. admitted' \in [Ticks -> Nat] /\ (\A u \in Ticks : u # t => admitted'[u] = admitted[u])
      /\ admitted'[t] = (IF count <= Limit THEN a ELSE admitted[t])
      /\ admitted[t] \in Nat
  BY <1>1, <1>2 DEF Allowed
<1>7. /\ DOMAIN counter' = DOMAIN counter /\ DOMAIN counter = {WindowOf(u) : u \in Ticks}
      /\ counter'[w] = [count |-> count, until |-> now + 2 * Window]
      /\ \A x \in DOMAIN counter : x # w => counter'[x] = counter[x]
  BY <1>1, <1>2, <1>3
<1>8. counter' \in [{WindowOf(u) : u \in Ticks} -> Counters]
  <2> DEFINE key == [count |-> count, until |-> now + 2 * Window]
  <2>1. key \in Counters
    BY <1>3 DEF Counters
  <2> HIDE DEF key
  <2>2. QED
    BY <1>1, <1>2, <2>1 DEF key
<1>9. CountersOK'
  <2>0. SUFFICES ASSUME ~late' PROVE CountersOK'
    BY DEF CountersOK
  <2>4. ~late /\ now < end
    <3>1. ~late /\ ~(now >= end)
      BY <1>13, <2>0
    <3>2. QED
      BY <1>3, <1>4, <3>1
  <2>1. ASSUME NEW x \in DOMAIN counter, x # w
        PROVE  /\ counter'[x].count > 0 => counter'[x].until >= (x + 2) * Window
               /\ now' < (x + 2) * Window =>
                     Total(admitted', TicksOf(x)) <= counter'[x].count + Earlier'
               /\ Total(admitted', TicksOf(x)) <= Limit + Earlier'
    <3>1. Total(admitted', TicksOf(x)) = Total(admitted, TicksOf(x))
      <4>1. t \notin TicksOf(x)
        BY <2>1 DEF TicksOf
      <4>2. QED
        BY <1>2, <1>6, <4>1, TotalChange, TicksAre
    <3>2. counter'[x] = counter[x]
      BY <1>7, <2>1
    <3>3. QED
      BY <1>1, <2>4, <3>1, <3>2 DEF RateInv, CountersOK
  <2>2. /\ counter'[w].count > 0 => counter'[w].until >= end
        /\ Total(admitted', TicksOf(w)) <= counter'[w].count + Earlier'
        /\ Total(admitted', TicksOf(w)) <= Limit + Earlier'
    <3>1. Total(admitted, TicksOf(w)) <= counter[w].count + Earlier
          /\ Total(admitted, TicksOf(w)) <= Limit + Earlier
      BY <1>3, <1>7, <2>4 DEF RateInv, CountersOK, end
    <3>2. t \in TicksOf(w)
      BY DEF TicksOf
    <3>3. /\ Total(admitted', TicksOf(w)) + admitted[t] = Total(admitted, TicksOf(w)) + admitted'[t]
          /\ Total(admitted, TicksOf(w)) \in Nat /\ Total(admitted', TicksOf(w)) \in Nat
      BY <1>2, <1>6, <3>2, TotalChange, TicksAre
    <3>4. counter'[w].count = count /\ counter'[w].until = now + 2 * Window
      BY <1>7
    <3> DEFINE T == Total(admitted, TicksOf(w))
               U == Total(admitted', TicksOf(w))
    <3>5. U <= counter[w].count + 1 + Earlier /\ U <= Limit + Earlier
      <4>1. CASE count <= Limit
        <5>1. U = T + 1
          BY <1>6, <3>3, <4>1
        <5>2. QED
          BY <1>3, <3>1, <3>3, <4>1, <5>1
      <4>2. CASE ~ (count <= Limit)
        <5>1. U = T
          BY <1>6, <3>3, <4>2
        <5>2. QED
          BY <1>3, <3>1, <3>3, <4>2, <5>1
      <4>3. QED
        BY <4>1, <4>2
    <3>6. QED
      BY <1>1, <1>5, <3>4, <3>5
  <2>3. QED
    BY <1>7, <2>1, <2>2 DEF CountersOK, end
<1>10. /\ waiting' \in [Ticks -> Nat] /\ Total(waiting', Ticks) <= MaxWaiting
       /\ \A u \in Ticks : waiting'[u] > 0 => u <= now'
  BY <1>1, OneLess
<1>11. QED
  BY <1>1, <1>2, <1>6, <1>8, <1>9, <1>10, <1>12 DEF RateInv

LEMMA RestartStep == RateInv /\ Restart => RateInv'
<1> SUFFICES ASSUME RateInv, Restart PROVE RateInv'
  OBVIOUS
<1>1. /\ now' = now /\ waiting' = waiting /\ admitted' = admitted /\ forgotten' = TRUE
      /\ late' = late
      /\ counter' = [w \in DOMAIN counter |-> NoKey] /\ Earlier = 0 /\ Earlier' = Limit
  BY DEF Restart, Earlier
<1>2. /\ counter' \in [{WindowOf(t) : t \in Ticks} -> Counters]
      /\ \A w \in DOMAIN counter : counter'[w].count = 0
  BY <1>1 DEF RateInv, NoKey, Counters
<1>3. CountersOK'
  <2>0. SUFFICES ASSUME ~late PROVE CountersOK'
    BY <1>1 DEF CountersOK
  <2>1. ASSUME NEW w \in DOMAIN counter
        PROVE  /\ counter'[w].count = 0
               /\ Total(admitted', TicksOf(w)) <= counter'[w].count + Earlier'
               /\ Total(admitted', TicksOf(w)) <= Limit + Earlier'
    <3>1. Total(admitted, TicksOf(w)) <= Limit + 0
      BY <1>1, <2>0 DEF RateInv, CountersOK
    <3>2. Total(admitted, TicksOf(w)) \in Nat
      BY TotalOfSome, TicksAre DEF RateInv
    <3>3. QED
      BY <1>1, <1>2, <3>1, <3>2, TicksAre
  <2>2. DOMAIN counter' = DOMAIN counter
    BY <1>1
  <2>3. QED
    BY <2>1, <2>2 DEF CountersOK
<1>4. QED
  BY <1>1, <1>2, <1>3 DEF RateInv

LEMMA PassStep == RateInv /\ Pass => RateInv'
<1> SUFFICES ASSUME RateInv, Pass PROVE RateInv'
  OBVIOUS
<1>1. /\ now' = now + 1 /\ now < Horizon
      /\ waiting' = waiting /\ admitted' = admitted /\ forgotten' = forgotten /\ late' = late
      /\ Earlier' = Earlier
      /\ counter' = [w \in DOMAIN counter |->
                        IF counter[w].until <= now' THEN NoKey ELSE counter[w]]
  BY DEF Pass, Earlier
<1>2. /\ now \in Nat /\ now' \in Ticks /\ now' \in Nat
      /\ Ticks \subseteq Nat /\ Window \in Nat
  <2>1. now \in 0 .. Horizon /\ Horizon \in Nat
    BY TicksAre DEF RateInv, Ticks
  <2>2. now + 1 \in 0 .. Horizon
    BY <1>1, <2>1
  <2>3. QED
    BY <1>1, <2>1, <2>2, TicksAre DEF Ticks
<1>3. \A t \in Ticks : waiting'[t] > 0 => t <= now'
  BY <1>1, <1>2 DEF RateInv
<1>4. counter \in [{WindowOf(t) : t \in Ticks} -> Counters]
  BY DEF RateInv
<1>5. ASSUME NEW w \in DOMAIN counter
      PROVE  /\ counter'[w] \in Counters
             /\ counter'[w] = NoKey \/ counter'[w] = counter[w]
             /\ counter[w].until > now' => counter'[w] = counter[w]
  BY <1>1, <1>2, <1>4 DEF NoKey, Counters
<1>6. counter' \in [{WindowOf(t) : t \in Ticks} -> Counters] /\ DOMAIN counter' = DOMAIN counter
  BY <1>1, <1>4, <1>5
<1>7. CountersOK'
  <2>0. SUFFICES ASSUME ~late PROVE CountersOK'
    BY <1>1 DEF CountersOK
  <2>1. ASSUME NEW w \in DOMAIN counter
        PROVE  /\ counter'[w].count > 0 => counter'[w].until >= (w + 2) * Window
               /\ now' < (w + 2) * Window =>
                     Total(admitted', TicksOf(w)) <= counter'[w].count + Earlier'
               /\ Total(admitted', TicksOf(w)) <= Limit + Earlier'
    <3> DEFINE end == (w + 2) * Window
    <3>0. w \in Nat /\ end \in Nat
      <4>1. w \in Nat
        BY <1>2, <1>4, <2>1, WindowSpan
      <4>2. QED
        BY <1>2, <4>1
    <3>1. /\ counter[w].count > 0 => counter[w].until >= end
          /\ now < end => Total(admitted, TicksOf(w)) <= counter[w].count + Earlier
          /\ Total(admitted, TicksOf(w)) <= Limit + Earlier
          /\ counter[w].count \in Nat /\ counter[w].until \in Nat
      BY <1>4, <2>0 DEF RateInv, CountersOK, Counters
    <3> HIDE DEF end
    <3>2. counter'[w].count > 0 => counter'[w].until >= end
      BY <1>5, <3>1 DEF NoKey
    <3>3. ASSUME now' < end
          PROVE  Total(admitted', TicksOf(w)) <= counter'[w].count + Earlier'
      <4>1. now < end
        BY <1>1, <1>2, <3>0, <3>3
      <4>2. counter'[w].count = counter[w].count
        <5>1. CASE counter[w].count > 0
          <6>1. counter[w].until > now'
            BY <1>2, <3>0, <3>1, <3>3, <5>1
          <6>2. QED
            BY <1>5, <6>1
        <5>2. CASE counter[w].count = 0
          BY <1>5, <5>2 DEF NoKey
        <5>3. QED
          BY <3>1, <5>1, <5>2
      <4>3. QED
        BY <1>1, <3>1, <4>1, <4>2
    <3>4. QED
      BY <1>1, <3>1, <3>2, <3>3 DEF end
  <2>2. QED
    BY <1>6, <2>1 DEF CountersOK
<1>8. QED
  BY <1>1, <1>2, <1>3, <1>6, <1>7 DEF RateInv

LEMMA RateIsInductive == RateInv /\ [RateNext]_rateVars => RateInv'
<1> SUFFICES ASSUME RateInv, [RateNext]_rateVars PROVE RateInv'
  OBVIOUS
<1>1. CASE Arrive
  BY <1>1, ArriveStep
<1>2. CASE Restart
  BY <1>2, RestartStep
<1>3. CASE Pass
  BY <1>3, PassStep
<1>4. ASSUME NEW t \in Ticks, Check(t) PROVE RateInv'
  BY <1>4, CheckStep
<1>5. ASSUME NEW t \in Ticks, Unchecked(t) PROVE RateInv'
  BY <1>5, UncheckedStep
<1>6. CASE UNCHANGED rateVars
  BY <1>6 DEF rateVars, RateInv, CountersOK, Earlier
<1>7. QED
  BY <1>1, <1>2, <1>3, <1>4, <1>5, <1>6 DEF RateNext

LEMMA RateTypes == RateInv => RateTypeOK
<1> SUFFICES ASSUME RateInv PROVE RateTypeOK
  OBVIOUS
<1>1. /\ now \in Ticks /\ waiting \in [Ticks -> Nat] /\ admitted \in [Ticks -> Nat]
      /\ Total(waiting, Ticks) <= MaxWaiting
  BY DEF RateInv
<1>2. Limit \in Nat /\ MaxWaiting \in Nat
  BY TicksAre
<1>3. ASSUME NEW t \in Ticks PROVE waiting[t] \in 0 .. MaxWaiting
  <2>1. waiting[t] <= Total(waiting, Ticks) /\ Total(waiting, Ticks) \in Nat
    BY <1>1, TotalOfSome
  <2>2. QED
    BY <1>1, <1>2, <2>1
<1>5. QED
  BY <1>1, <1>3 DEF RateTypeOK

LEMMA TwoWindows == RateInv => TwiceAtMost
<1> SUFFICES ASSUME RateInv, ~forgotten, ~late, NEW t \in Ticks
             PROVE  Total(admitted, {u \in Ticks : t <= u /\ u < t + Window}) <= 2 * Limit
  BY DEF TwiceAtMost
<1> DEFINE S == {u \in Ticks : t <= u /\ u < t + Window}
           A == TicksOf(WindowOf(t))
           B == TicksOf(WindowOf(t) + 1)
<1>1. admitted \in [Ticks -> Nat] /\ Limit \in Nat
      /\ A \in SUBSET Ticks /\ B \in SUBSET Ticks /\ A \cup B \in SUBSET Ticks
  BY TicksAre DEF RateInv
<1>2. S \in SUBSET (A \cup B)
  BY NextWindow, TicksAre DEF TicksOf
<1>3. Total(admitted, A) <= Limit
  BY <1>1 DEF RateInv, CountersOK, Earlier
<1>4. Total(admitted, B) <= Limit
  <2>1. CASE B = {}
    <3>1. Total(admitted, {}) = 0
      BY <1>1, TotalOfSome
    <3>2. QED
      BY <1>1, <2>1, <3>1
  <2>2. CASE B # {}
    <3>1. WindowOf(t) + 1 \in DOMAIN counter
      BY <2>2 DEF TicksOf, RateInv
    <3>2. QED
      BY <1>1, <3>1 DEF RateInv, CountersOK, Earlier
  <2>3. QED
    BY <2>1, <2>2
<1> HIDE DEF S, A, B
<1>5. /\ Total(admitted, S) <= Total(admitted, A \cup B)
      /\ Total(admitted, A \cup B) <= Total(admitted, A) + Total(admitted, B)
      /\ Total(admitted, A \cup B) \in Nat
  BY <1>1, <1>2, TotalOfSome, TotalOfTwo
<1>6. /\ Total(admitted, A) \in Nat /\ Total(admitted, B) \in Nat /\ Total(admitted, S) \in Nat
  <2>1. S \in SUBSET Ticks
    BY <1>1, <1>2
  <2>2. QED
    BY <1>1, <2>1, TotalOfSome
<1>7. Total(admitted, S) <= 2 * Limit
  BY <1>1, <1>3, <1>4, <1>5, <1>6
<1>8. QED
  BY <1>7 DEF S

\* Over any stretch of a window's length at most twice the limit is let in on
\* the count (RateLimiter.check), whatever the limit, the window and the number
\* of requests, and whichever window they reach Redis in: unless Redis lost its
\* counters, or was reached after the window following a request's own.
THEOREM RateSafe == RateSpec => [](RateTypeOK /\ TwiceAtMost)
<1>1. RateSpec => []RateInv
  BY RateStart, RateIsInductive, PTL DEF RateSpec
<1>2. QED
  BY <1>1, RateTypes, TwoWindows, PTL

-----------------------------------------------------------------------------
(* A turn of the agent. *)

LEMMA TurnStart == TurnInit => TurnInv
<1> SUFFICES ASSUME TurnInit PROVE TurnInv
  OBVIOUS
<1> USE TurnAssumption DEF TurnInit
<1>1. turn \in Turns /\ NoRows \in RowSets
  BY DEF Turns, RowSets, NoRows
<1>2. UnderWay /\ TurnStoredWhole
  BY DEF UnderWay, TurnStoredWhole, NoRows
<1>3. QED
  BY <1>1, <1>2 DEF TurnInv

\* The turn ends with what is stored, and an error if not an answer.
LEMMA TurnOver ==
  ASSUME TurnInv, turn' = [turn EXCEPT !.at = "over"], written' = NoRows, stored' = stored,
         \/ reply' \in {reply, "none", "error"}
         \/ turn.at = "audit" /\ reply' = "answer"
  PROVE  TurnInv'
<1>1. turn' \in Turns /\ turn'.at = "over"
  BY DEF TurnInv, Turns
<1>2. NoRows \in RowSets /\ NoRows.results = NoRows.calls /\ NoRows.cart \subseteq NoRows.calls
  BY DEF NoRows, RowSets
<1>3. UnderWay'
  BY <1>1, <1>2 DEF UnderWay
<1>4. TurnStoredWhole'
  BY <1>1 DEF TurnInv, UnderWay, TurnStoredWhole
<1>5. QED
  BY <1>1, <1>2, <1>3, <1>4 DEF TurnInv

\* The turn goes on; nothing is stored and nobody is answered.
LEMMA TurnGoes ==
  ASSUME TurnInv, turn.at \in {"idle", "begin", "model", "tools"}, turn' \in Turns,
         turn'.at \in {"begin", "model", "tools", "close"},
         turn'.at = "tools" => turn'.iteration > 0,
         written' \in RowSets, written'.results = written'.calls,
         written'.cart \subseteq written'.calls,
         turn'.at \in {"model", "tools", "close"} => written'.user = 1,
         UNCHANGED <<stored, reply>>
  PROVE  TurnInv'
BY DEF TurnInv, UnderWay, TurnStoredWhole

LEMMA TurnStepSound == TurnInv /\ [TurnNext]_turnVars => TurnInv'
<1> SUFFICES ASSUME TurnInv, [TurnNext]_turnVars PROVE TurnInv'
  OBVIOUS
<1> USE TurnAssumption
<1>0. /\ turn \in Turns /\ written \in RowSets /\ stored \in RowSets
      /\ reply \in {"none", "answer", "error"}
      /\ turn.iteration \in 0 .. MaxIterations /\ turn.tools \in 0 .. MaxTools
      /\ written.calls \subseteq Iterations /\ written.results = written.calls
      /\ written.cart \subseteq written.calls
      /\ turn.at \notin {"audit", "over"} => stored = NoRows /\ reply = "none"
  BY DEF TurnInv, UnderWay, TurnStoredWhole, Turns, RowSets
<1>1. ASSUME Raise, UNCHANGED stored PROVE TurnInv'
  BY <1>1, TurnOver DEF Raise
<1>2. ASSUME Spoil, turn.at \in {"begin", "tools"}, UNCHANGED stored PROVE TurnInv'
  <2>1. turn' \in Turns /\ turn'.at = turn.at /\ turn'.iteration = turn.iteration
    BY <1>0, <1>2 DEF Spoil, Turns
  <2>2. QED
    BY <1>0, <1>2, <2>1, TurnGoes DEF Spoil, TurnInv, UnderWay
<1>3. CASE Prompted
  <2>1. turn' \in Turns /\ turn'.at = "begin"
    BY <1>0, <1>3 DEF Prompted, Turns
  <2>2. QED
    BY <1>0, <1>3, <2>1, TurnGoes DEF Prompted, TurnInv, UnderWay
<1>4. CASE Begin
  <2>1. CASE ~ turn.spoiled /\ written' = [written EXCEPT !.user = 1]
             /\ turn' = [turn EXCEPT !.at = "model"] /\ UNCHANGED <<stored, reply>>
    <3>1. turn' \in Turns /\ turn'.at = "model"
      BY <1>0, <2>1 DEF Turns
    <3>2. /\ written' \in RowSets /\ written'.user = 1 /\ written'.calls = written.calls
          /\ written'.results = written.results /\ written'.cart = written.cart
          /\ written'.answers = written.answers
      BY <1>0, <2>1 DEF RowSets
    <3>3. QED
      BY <1>0, <1>4, <2>1, <3>1, <3>2, TurnGoes DEF Begin, TurnInv, UnderWay
  <2>2. QED
    BY <1>1, <1>2, <1>4, <2>1 DEF Begin, Write
<1>5. CASE AskModel
  <2>3. CASE Raise
    BY <1>1, <1>5, <2>3 DEF AskModel
  <2>1. ASSUME ~ Raise
        PROVE  /\ turn' \in Turns /\ turn'.at \in {"close", "tools"}
               /\ turn'.at = "tools" => turn'.iteration > 0
               /\ turn.at = "model" /\ UNCHANGED <<written, stored, reply>>
    <3>1. CASE turn.iteration < MaxIterations
      <4> DEFINE i == turn.iteration + 1
      <4>0. i \in 0 .. MaxIterations /\ i > 0
        BY <1>0, <3>1
      <4> HIDE DEF i
      <4>1. ASSUME turn' = [turn EXCEPT !.at = "close", !.iteration = i]
            PROVE  turn' \in Turns /\ turn'.at = "close"
        BY <1>0, <4>0, <4>1 DEF Turns
      <4>2. ASSUME NEW n \in 1 .. MaxTools,
                   turn' = [turn EXCEPT !.at = "tools", !.iteration = i, !.tools = n]
            PROVE  turn' \in Turns /\ turn'.at = "tools" /\ turn'.iteration > 0
        <5>1. n \in 0 .. MaxTools
          OBVIOUS
        <5>2. QED
          BY <1>0, <4>0, <4>2, <5>1 DEF Turns
      <4>3. QED
        BY <1>5, <2>1, <3>1, <4>1, <4>2 DEF AskModel, i
    <3>2. CASE ~ (turn.iteration < MaxIterations)
      BY <1>0, <1>5, <2>1, <3>2 DEF AskModel, Turns
    <3>3. QED
      BY <3>1, <3>2
  <2>2. CASE ~ Raise
    BY <1>0, <2>1, <2>2, TurnGoes DEF TurnInv, UnderWay
  <2>4. QED
    BY <2>2, <2>3
<1>6. CASE RunTool
  <2>1. turn.iteration \in Iterations
    BY <1>0, <1>6 DEF RunTool, Iterations, TurnInv, UnderWay
  <2>2. ASSUME NEW changed \in SUBSET {turn.iteration}, ~ turn.spoiled,
               written' = [written EXCEPT !.calls = @ \cup {turn.iteration},
                                          !.results = @ \cup {turn.iteration},
                                          !.cart = @ \cup changed],
               turn' = [turn EXCEPT !.tools = @ - 1], UNCHANGED <<stored, reply>>
        PROVE  TurnInv'
    <3> DEFINE C == written.calls \cup {turn.iteration}
               K == written.cart \cup changed
    <3>1. C \subseteq Iterations /\ K \subseteq C
      BY <1>0, <2>1
    <3>2. written' = [written EXCEPT !.calls = C, !.results = C, !.cart = K]
      BY <1>0, <2>2
    <3> HIDE DEF C, K
    <3>3. /\ written' \in RowSets /\ written'.user = written.user /\ written'.calls = C
          /\ written'.results = C /\ written'.cart = K /\ written'.answers = written.answers
      BY <1>0, <3>1, <3>2 DEF RowSets
    <3>4. turn' \in Turns /\ turn'.at = turn.at /\ turn'.iteration = turn.iteration
      BY <1>0, <1>6, <2>2 DEF Turns, RunTool
    <3>5. QED
      BY <1>0, <1>6, <2>2, <3>1, <3>3, <3>4, TurnGoes DEF RunTool, TurnInv, UnderWay
  <2>3. QED
    BY <1>1, <1>2, <1>6, <2>2 DEF RunTool, Write, ToolRows
<1>7. CASE NextIteration
  <2>1. turn' \in Turns /\ turn'.at = "model"
    BY <1>0, <1>7 DEF NextIteration, Turns
  <2>2. QED
    BY <1>0, <1>7, <2>1, TurnGoes DEF NextIteration, TurnInv, UnderWay
<1>8. CASE Close
  <2>1. CASE /\ stored' = [written EXCEPT !.answers = 1] /\ written' = NoRows
             /\ turn' = [turn EXCEPT !.at = "audit"] /\ UNCHANGED reply
    <3>1. turn' \in Turns /\ turn'.at = "audit"
      BY <1>0, <2>1 DEF Turns
    <3>2. /\ stored' \in RowSets /\ stored'.user = written.user /\ stored'.calls = written.calls
          /\ stored'.results = written.results /\ stored'.cart = written.cart
          /\ stored'.answers = 1
      BY <1>0, <2>1 DEF RowSets
    <3>3. NoRows \in RowSets /\ NoRows.results = NoRows.calls /\ NoRows.cart \subseteq NoRows.calls
          /\ NoRows.answers = 0
      BY DEF NoRows, RowSets
    <3>4. stored' # NoRows
      BY <3>2, <3>3
    <3>5. UnderWay'
      BY <1>0, <1>8, <2>1, <3>1, <3>3, <3>4 DEF UnderWay, Close
    <3>6. TurnStoredWhole'
      BY <1>0, <1>8, <2>1, <3>1, <3>2, <3>4 DEF TurnStoredWhole, Close, TurnInv, UnderWay
    <3>7. QED
      BY <1>0, <2>1, <3>1, <3>2, <3>3, <3>5, <3>6 DEF TurnInv
  <2>2. QED
    BY <1>1, <1>8, <2>1 DEF Close
<1>9. CASE AuditAndReply
  BY <1>9, TurnOver DEF AuditAndReply
<1>10. CASE Stop
  BY <1>10, TurnOver DEF Stop
<1>11. CASE UNCHANGED turnVars
  BY <1>11 DEF turnVars, TurnInv, UnderWay, TurnStoredWhole
<1>12. QED
  BY <1>3, <1>4, <1>5, <1>6, <1>7, <1>8, <1>9, <1>10, <1>11 DEF TurnNext, TurnStep

\* A turn is stored whole or not at all, however it stops, and whoever has its answer
\* finds it stored.
THEOREM TurnSafe == TurnSpec => [](TurnTypeOK /\ TurnStoredWhole)
<1>1. TurnInv => TurnTypeOK /\ TurnStoredWhole
  BY DEF TurnInv, TurnTypeOK, Turns, RowSets
<1>2. QED
  BY TurnStart, TurnStepSound, <1>1, PTL DEF TurnSpec

-----------------------------------------------------------------------------
(* Rows that are looked for and inserted. *)

RowCallers == [kind : {"none"} \cup Kinds, found : Nat]

LEMMA FirstFacts ==
  ASSUME FirstInv
  PROVE  /\ DOMAIN tableOf = Kinds
         /\ \A k \in Kinds : tableOf[k] \subseteq RowsOf(k)
         /\ \A k \in Kinds : \A r \in tableOf[k] : r.id \in Nat \ {0} /\ r.says \in Says(k)
         /\ inserted \in [Kinds -> Nat] /\ caller \in [Callers -> RowCallers]
         /\ \A c \in Callers : caller[c].kind \in {"none"} \cup Kinds
         /\ told \subseteq Variants /\ overlapping \subseteq Kinds
         /\ Kinds = {"stock", "participant"}
         /\ Says("stock") = Quantities /\ Says("participant") = Variants
<1>1. /\ tableOf = [k \in Kinds |-> tableOf[k]]
      /\ \A k \in Kinds : tableOf[k] \subseteq RowsOf(k)
      /\ inserted \in [Kinds -> Nat] /\ caller \in [Callers -> RowCallers]
      /\ told \subseteq Variants /\ overlapping \subseteq Kinds
  BY DEF FirstInv, FirstTypeOK, RowsOf, RowCallers
<1>2. \A k \in Kinds : \A r \in RowsOf(k) : r.id \in Nat \ {0} /\ r.says \in Says(k)
  BY FirstAssumption DEF RowsOf
<1>3. \A c \in Callers : caller[c].kind \in {"none"} \cup Kinds
  BY <1>1 DEF RowCallers
<1>4. Says("stock") = Quantities /\ Says("participant") = Variants
  BY DEF Says
<1>5. DOMAIN tableOf = Kinds
  BY <1>1
<1>6. QED
  BY <1>1, <1>2, <1>3, <1>4, <1>5 DEF Kinds

\* What a step has to show.
FirstParts ==
    /\ DOMAIN tableOf = Kinds /\ tableOf = [k \in Kinds |-> tableOf[k]]
    /\ \A k \in Kinds : tableOf[k] \subseteq RowsOf(k)
    /\ inserted \in [Kinds -> Nat] /\ caller \in [Callers -> RowCallers]
    /\ told \subseteq Variants /\ overlapping \subseteq Kinds
    /\ \A k \in Kinds \ overlapping : AloneOK(k)
    /\ "participant" \notin overlapping =>
          told = {} \/ \E r \in tableOf["participant"] : told = {r.says}

LEMMA FirstFrom == FirstParts => FirstInv
<1> SUFFICES ASSUME FirstParts PROVE FirstInv
  OBVIOUS
<1>1. ASSUME NEW k \in Kinds \ overlapping PROVE Cardinality(tableOf[k]) <= 1
  <2>1. CASE tableOf[k] = {}
    BY <2>1, FS_EmptySet
  <2>2. CASE tableOf[k] # {}
    <3>1. PICK r : tableOf[k] = {r}
      BY <2>2 DEF AloneOK, FirstParts
    <3>2. Cardinality({r}) = 1
      BY FS_Singleton, Zenon
    <3>3. QED
      BY <3>1, <3>2
  <2>3. QED
    BY <2>1, <2>2
<1>2. ASSUME "participant" \notin overlapping
      PROVE  told \in {{}, {r.says : r \in tableOf["participant"]}}
  <2>1. CASE told # {}
    <3>1. PICK r \in tableOf["participant"] : told = {r.says}
      BY <1>2, <2>1 DEF FirstParts
    <3>2. tableOf["participant"] = {r}
      BY <1>2, <3>1 DEF AloneOK, Kinds, FirstParts
    <3>3. QED
      BY <3>1, <3>2
  <2>2. QED
    BY <2>1
<1>3. OneRowAlone
  <2>1. \A k \in Kinds \ overlapping : Cardinality(tableOf[k]) <= 1
    BY <1>1
  <2>2. "participant" \notin overlapping =>
           told \in {{}, {r.says : r \in tableOf["participant"]}}
    BY <1>2
  <2>3. QED
    BY <2>1, <2>2, Zenon DEF OneRowAlone
<1>4. FirstTypeOK
  BY DEF FirstTypeOK, RowsOf, FirstParts
<1>5. QED
  BY <1>3, <1>4 DEF FirstInv, RowCallers, FirstParts

LEMMA FirstFromNext == FirstParts' => FirstInv'
BY FirstFrom, PTL

\* What the visitor was told is what his row says.
LEMMA ToldOK ==
  ASSUME FirstInv, "participant" \notin overlapping
  PROVE  told = {} \/ \E r \in tableOf["participant"] : told = {r.says}
<1>1. CASE told = {r.says : r \in tableOf["participant"]}
  <2>1. CASE tableOf["participant"] = {}
    BY <1>1, <2>1
  <2>2. CASE tableOf["participant"] # {}
    <3>1. PICK r : tableOf["participant"] = {r}
      BY <2>2 DEF FirstInv, AloneOK, Kinds
    <3>2. QED
      BY <1>1, <3>1
  <2>3. QED
    BY <2>1, <2>2
<1>2. QED
  BY <1>1 DEF FirstInv, OneRowAlone

LEMMA FirstStart == FirstInit => FirstInv
<1> SUFFICES ASSUME FirstInit PROVE FirstInv
  OBVIOUS
<1>1. DOMAIN tableOf = Kinds /\ \A k \in Kinds : tableOf[k] = {}
  BY DEF FirstInit
<1>2. caller \in [Callers -> RowCallers] /\ \A c \in Callers : caller[c].kind = "none"
  BY DEF FirstInit, RowCallers, IdleCaller, NoRow
<1>3. \A k \in Kinds : AloneOK(k)
  BY <1>1, <1>2 DEF AloneOK, Kinds
<1>4. QED
  BY <1>1, <1>2, <1>3, FirstFrom DEF FirstInit, FirstParts

\* A caller is idle again.
LEMMA DoneFacts ==
  ASSUME FirstInv, NEW c \in Callers, Done(c)
  PROVE  /\ caller' \in [Callers -> RowCallers] /\ overlapping' = overlapping
         /\ \A d \in Callers : caller'[d].kind # "none" => d # c /\ caller'[d] = caller[d]
<1>1. IdleCaller \in RowCallers /\ IdleCaller.kind = "none"
  BY DEF IdleCaller, RowCallers, NoRow
<1>2. QED
  BY <1>1, FirstFacts DEF Done

LEMMA FindStep ==
  ASSUME FirstInv, NEW c \in Callers, NEW kind \in Kinds, Find(c, kind)
  PROVE  FirstInv'
<1>1. PICK found \in IF tableOf[kind] = {} THEN {NoRow} ELSE {r.id : r \in tableOf[kind]} :
          caller' = [caller EXCEPT ![c] = [kind |-> kind, found |-> found]]
  BY DEF Find
<1>2. /\ UNCHANGED <<tableOf, inserted, told>> /\ overlapping \subseteq overlapping'
      /\ overlapping' \subseteq Kinds
      /\ kind \notin overlapping' => \A d \in Callers : caller[d].kind # kind
  BY FirstFacts DEF Find
<1>3. found \in Nat
  BY <1>1, FirstFacts DEF NoRow
<1>4. /\ caller' \in [Callers -> RowCallers]
      /\ caller'[c].kind = kind /\ caller'[c].found = found
      /\ \A d \in Callers : d # c => caller'[d] = caller[d]
  BY <1>1, <1>3, FirstFacts DEF RowCallers
<1>5. ASSUME NEW k \in Kinds \ overlapping' PROVE AloneOK(k)'
  <2>1. AloneOK(k)
    BY <1>2 DEF FirstInv
  <2>2. CASE k = kind
    <3>1. \A d \in Callers : caller'[d].kind = k => d = c
      BY <1>2, <1>4, <1>5, <2>2
    <3>2. IF tableOf[k] = {} THEN found = NoRow ELSE \A r \in tableOf[k] : found = r.id
      BY <1>1, <2>1, <2>2 DEF AloneOK
    <3>3. QED
      BY <1>2, <1>4, <2>1, <3>1, <3>2 DEF AloneOK, RowsOf
  <2>3. CASE k # kind
    BY <1>2, <1>4, <2>1, <2>3 DEF AloneOK, RowsOf
  <2>4. QED
    BY <2>2, <2>3
<1>6. "participant" \notin overlapping' =>
            told' = {} \/ \E r \in tableOf["participant"]' : told' = {r.says}
  BY <1>2, ToldOK
<1>7. tableOf' = [k \in Kinds |-> tableOf'[k]] /\ \A k \in Kinds : tableOf'[k] \subseteq RowsOf(k)'
  BY <1>2, FirstFacts DEF FirstInv, RowsOf
<1>8. QED
  BY <1>2, <1>4, <1>5, <1>6, <1>7, FirstFacts, FirstFromNext DEF FirstParts

LEMMA InsertStep ==
  ASSUME FirstInv, NEW c \in Callers, NEW kind \in Kinds, Insert(c, kind)
  PROVE  FirstInv'
<1> USE FirstAssumption
<1>1. PICK value \in Says(kind) :
          /\ tableOf' = [tableOf EXCEPT ![kind] =
                            @ \cup {[id |-> inserted'[kind], says |-> value]}]
          /\ Learn(kind, value)
  BY DEF Insert
<1> DEFINE r == [id |-> inserted'[kind], says |-> value]
<1>2. inserted' \in [Kinds -> Nat] /\ inserted'[kind] \in 1 .. MaxRows
  BY FirstFacts DEF Insert
<1>3. r \in RowsOf(kind) /\ r.says = value
  BY <1>2 DEF RowsOf
<1>4. tableOf' = [tableOf EXCEPT ![kind] = @ \cup {r}]
  BY <1>1
<1> HIDE DEF r
<1>5. /\ DOMAIN tableOf' = Kinds /\ tableOf'[kind] = tableOf[kind] \cup {r}
      /\ \A k \in Kinds : k # kind => tableOf'[k] = tableOf[k]
  BY <1>4, FirstFacts
<1>6. \A k \in Kinds : RowsOf(k)' = RowsOf(k)
  BY DEF RowsOf
<1>7. \A k \in Kinds : tableOf'[k] \subseteq RowsOf(k)'
  BY <1>3, <1>5, <1>6, FirstFacts
<1>8. kind \notin overlapping => tableOf[kind] = {}
  BY FirstFacts DEF Insert, FirstInv, AloneOK, NoRow
<1>9. ASSUME NEW k \in Kinds \ overlapping' PROVE AloneOK(k)'
  <2>1. AloneOK(k)
    BY <1>9, DoneFacts DEF FirstInv, Insert
  <2>2. \A d \in Callers : caller'[d].kind = k => d # c /\ caller'[d] = caller[d]
    BY DoneFacts DEF Insert, Kinds
  <2>3. CASE k = kind
    <3>1. \A d \in Callers : caller'[d].kind # k
      BY <2>1, <2>2, <2>3 DEF AloneOK, Insert
    <3>2. tableOf'[k] = {r}
      BY <1>5, <1>8, <1>9, <2>3, DoneFacts DEF Insert
    <3>3. QED
      BY <1>3, <1>6, <2>3, <3>1, <3>2 DEF AloneOK
  <2>4. CASE k # kind
    BY <1>5, <1>6, <2>1, <2>2, <2>4 DEF AloneOK
  <2>5. QED
    BY <2>3, <2>4
<1>10. /\ told' \subseteq Variants
       /\ "participant" \notin overlapping' =>
            told' = {} \/ \E s \in tableOf'["participant"] : told' = {s.says}
  <2>1. CASE kind = "participant"
    <3>1. told' = told \cup {value} /\ value \in Variants
      BY <1>1, <2>1, FirstFacts DEF Learn
    <3>2. "participant" \notin overlapping => told = {}
      BY <1>8, <2>1, ToldOK
    <3>3. QED
      BY <1>3, <1>5, <2>1, <3>1, <3>2, DoneFacts, FirstFacts DEF Insert
  <2>2. CASE kind # "participant"
    <3>1. told' = told /\ tableOf'["participant"] = tableOf["participant"]
      BY <1>1, <1>5, <2>2, FirstFacts DEF Learn
    <3>2. QED
      BY <3>1, ToldOK, DoneFacts, FirstFacts DEF Insert
  <2>3. QED
    BY <2>1, <2>2
<1>11. tableOf' = [k \in Kinds |-> tableOf'[k]]
  BY <1>4, <1>5, FirstFacts DEF FirstInv
<1>12. QED
  BY <1>2, <1>5, <1>7, <1>9, <1>10, <1>11, DoneFacts, FirstFacts, FirstFromNext DEF Insert, FirstParts

LEMMA SetFoundStep ==
  ASSUME FirstInv, NEW c \in Callers, SetFound(c)
  PROVE  FirstInv'
<1>1. PICK value \in Quantities :
          tableOf' = [tableOf EXCEPT !["stock"] =
              {IF r.id = caller[c].found THEN [r EXCEPT !.says = value] ELSE r : r \in @}]
  BY DEF SetFound
<1> DEFINE new(r) == IF r.id = caller[c].found THEN [r EXCEPT !.says = value] ELSE r
<1>2. \A r \in RowsOf("stock") : new(r) \in RowsOf("stock")
  BY <1>1, FirstFacts DEF RowsOf
<1>3. /\ DOMAIN tableOf' = Kinds /\ tableOf'["stock"] = {new(r) : r \in tableOf["stock"]}
      /\ tableOf'["participant"] = tableOf["participant"]
  BY <1>1, FirstFacts
<1>4. \A k \in Kinds : RowsOf(k)' = RowsOf(k)
  BY DEF RowsOf
<1> HIDE DEF new
<1>5. \A k \in Kinds : tableOf'[k] \subseteq RowsOf(k)'
  BY <1>2, <1>3, <1>4, FirstFacts
<1>6. UNCHANGED <<inserted, told, overlapping>>
  BY DEF SetFound, Done
<1>7. ASSUME NEW k \in Kinds \ overlapping' PROVE AloneOK(k)'
  <2>1. AloneOK(k)
    BY <1>6, <1>7 DEF FirstInv
  <2>2. \A d \in Callers : caller'[d].kind = k => d # c /\ caller'[d] = caller[d]
    BY DoneFacts DEF SetFound, Kinds
  <2>3. CASE k = "stock"
    <3>1. \A d \in Callers : caller'[d].kind # k
      BY <2>1, <2>2, <2>3 DEF AloneOK, SetFound
    <3>2. PICK r \in RowsOf(k) : tableOf[k] = {r}
      BY <2>1, <2>3 DEF AloneOK, SetFound
    <3>3. tableOf'[k] = {new(r)} /\ new(r) \in RowsOf(k)'
      BY <1>2, <1>3, <1>4, <2>3, <3>2
    <3>4. QED
      BY <3>1, <3>3 DEF AloneOK
  <2>4. CASE k = "participant"
    BY <1>3, <1>4, <2>1, <2>2, <2>4 DEF AloneOK
  <2>5. QED
    BY <2>3, <2>4, FirstFacts
<1>8. "participant" \notin overlapping' =>
            told' = {} \/ \E r \in tableOf'["participant"] : told' = {r.says}
  BY <1>3, <1>6, ToldOK
<1>9. tableOf' = [k \in Kinds |-> tableOf'[k]]
  BY <1>1, <1>3, FirstFacts DEF FirstInv
<1>10. QED
  BY <1>3, <1>5, <1>6, <1>7, <1>8, <1>9, DoneFacts, FirstFacts, FirstFromNext DEF SetFound, FirstParts

\* A step that leaves the rows alone.
LEMMA KeepStep ==
  ASSUME FirstInv, NEW c \in Callers, Done(c), UNCHANGED <<tableOf, inserted>>,
         told' = told \/ \E r \in tableOf["participant"] : told' = told \cup {r.says}
  PROVE  FirstInv'
<1>1. \A k \in Kinds : RowsOf(k)' = RowsOf(k)
  BY DEF RowsOf
<1>2. ASSUME NEW k \in Kinds \ overlapping' PROVE AloneOK(k)'
  <2>1. AloneOK(k)
    BY <1>2, DoneFacts DEF FirstInv
  <2>2. \A d \in Callers : caller'[d].kind = k => caller'[d] = caller[d]
    BY DoneFacts DEF Kinds
  <2>3. QED
    BY <1>1, <2>1, <2>2 DEF AloneOK
<1>3. told' \subseteq Variants
  BY FirstFacts
<1>4. ASSUME "participant" \notin overlapping'
      PROVE  told' = {} \/ \E r \in tableOf'["participant"] : told' = {r.says}
  <2>1. CASE told' = told
    BY <1>4, <2>1, DoneFacts, ToldOK
  <2>2. ASSUME NEW r \in tableOf["participant"], told' = told \cup {r.says}
        PROVE  told' = {r.says}
    <3>1. PICK s : tableOf["participant"] = {s}
      BY <1>4, <2>2, DoneFacts DEF FirstInv, AloneOK, Kinds
    <3>2. s = r
      BY <2>2, <3>1
    <3>3. QED
      BY <1>4, <2>2, <3>1, <3>2, DoneFacts, ToldOK
  <2>3. QED
    BY <2>1, <2>2
<1>5. tableOf' = [k \in Kinds |-> tableOf'[k]]
  BY DEF FirstInv
<1>6. QED
  BY <1>1, <1>2, <1>3, <1>4, <1>5, DoneFacts, FirstFacts, FirstFromNext DEF FirstParts

LEMMA FirstStep == FirstInv /\ [FirstNext]_firstVars => FirstInv'
<1> SUFFICES ASSUME FirstInv, [FirstNext]_firstVars PROVE FirstInv'
  OBVIOUS
<1>1. ASSUME NEW c \in Callers, KeepFound(c) PROVE FirstInv'
  BY <1>1, KeepStep DEF KeepFound, Learn
<1>2. ASSUME NEW c \in Callers, GiveUp(c) PROVE FirstInv'
  BY <1>2, KeepStep DEF GiveUp
<1>3. CASE UNCHANGED firstVars
  BY <1>3 DEF firstVars, FirstInv, FirstTypeOK, AloneOK, RowsOf, OneRowAlone
<1>4. QED
  BY <1>1, <1>2, <1>3, FindStep, InsertStep, SetFoundStep DEF FirstNext

\* A product has one stock and a visitor the one variant he is told again and again, as
\* long as no two requests look for the row at once.
THEOREM FirstSafe == FirstSpec => [](FirstTypeOK /\ OneRowAlone)
<1>1. FirstInv => FirstTypeOK /\ OneRowAlone
  BY DEF FirstInv
<1>2. QED
  BY FirstStart, FirstStep, <1>1, PTL DEF FirstSpec

-----------------------------------------------------------------------------
(* The policies. *)

\* The loop denies exactly when one of the rows does, wherever it comes.
LEMMA VerdictDenies ==
  ASSUME NEW list, Len(list) \in Nat, NEW r
  PROVE  Verdict(list, r) =
            IF \E j \in 1 .. Len(list) : Denies(list[j], r) THEN "DENY" ELSE "ALLOW"
<1> DEFINE n == Len(list)
           d(i) == Denies(list[i], r)
           body(g) == [i \in 1 .. n + 1 |-> IF i > n THEN "ALLOW" ELSE IF d(i) THEN "DENY"
                                            ELSE g[i + 1]]
           w == [i \in 1 .. n + 1 |-> IF \E j \in i .. n : d(j) THEN "DENY" ELSE "ALLOW"]
           it == CHOOSE g : g = body(g)
<1>1. Verdict(list, r) = it[1]
  BY DEF Verdict
<1>2. n \in Nat
  OBVIOUS
<1> HIDE DEF n, d
<1>3. w = body(w)
  <2>1. ASSUME NEW i \in 1 .. n + 1 PROVE w[i] = body(w)[i]
    <3>1. CASE i > n
      <4>1. ~ \E j \in i .. n : d(j)
        BY <1>2, <3>1
      <4>2. QED
        BY <1>2, <3>1, <4>1
    <3>2. CASE i <= n
      <4>1. i + 1 \in 1 .. n + 1 /\ i \in i .. n /\ i .. n = {i} \cup ((i + 1) .. n)
        BY <1>2, <3>2
      <4>2. w[i + 1] = IF \E j \in (i + 1) .. n : d(j) THEN "DENY" ELSE "ALLOW"
        BY <4>1
      <4>3. body(w)[i] = IF d(i) THEN "DENY" ELSE w[i + 1]
        BY <1>2, <3>2
      <4>4. w[i] = IF \E j \in i .. n : d(j) THEN "DENY" ELSE "ALLOW"
        OBVIOUS
      <4> HIDE DEF w, body
      <4>5. QED
        BY <4>1, <4>2, <4>3, <4>4
    <3>3. QED
      BY <1>2, <3>1, <3>2
  <2> DEFINE bw == body(w)
  <2>2. DOMAIN bw = 1 .. n + 1 /\ DOMAIN w = 1 .. n + 1
    OBVIOUS
  <2>3. bw = [i \in 1 .. n + 1 |-> bw[i]] /\ w = [i \in 1 .. n + 1 |-> w[i]]
    OBVIOUS
  <2> HIDE DEF w
  <2>4. QED
    BY <2>1, <2>3
<1>4. it = body(it)
  <2>1. \E g : g = body(g)
    BY <1>3
  <2> HIDE DEF body
  <2>2. QED
    BY <2>1, Zenon
<1> HIDE DEF it
<1>5. \A k \in Nat : k <= n => it[n + 1 - k] = w[n + 1 - k]
  <2> DEFINE N == {k \in Nat : k <= n => it[n + 1 - k] = w[n + 1 - k]}
  <2>1. 0 \in N
    <3>1. it[n + 1] = "ALLOW"
      BY <1>2, <1>4
    <3>2. w[n + 1] = body(w)[n + 1] /\ body(w)[n + 1] = "ALLOW"
      BY <1>2, <1>3
    <3>3. QED
      BY <1>2, <3>1, <3>2
  <2>2. ASSUME NEW k \in Nat, k \in N PROVE k + 1 \in N
    <3>1. SUFFICES ASSUME k + 1 <= n PROVE it[n + 1 - (k + 1)] = w[n + 1 - (k + 1)]
      OBVIOUS
    <3> DEFINE i == n - k
    <3>2. /\ i \in 1 .. n + 1 /\ i <= n /\ i + 1 = n + 1 - k /\ i = n + 1 - (k + 1)
      BY <1>2, <3>1
    <3>3. it[i + 1] = w[i + 1]
      BY <1>2, <2>2, <3>1, <3>2
    <3> HIDE DEF i
    <3>4. it[i] = IF d(i) THEN "DENY" ELSE it[i + 1]
      BY <1>2, <1>4, <3>2
    <3>5. w[i] = body(w)[i] /\ body(w)[i] = IF d(i) THEN "DENY" ELSE w[i + 1]
      BY <1>2, <1>3, <3>2
    <3> HIDE DEF w, body
    <3>6. it[i] = w[i]
      BY <3>3, <3>4, <3>5
    <3>7. QED
      BY <3>2, <3>6
  <2> HIDE DEF N
  <2>3. \A k \in Nat : k \in N
    BY <2>1, <2>2, NatSetInduction
  <2>4. QED
    BY <2>3 DEF N
<1>6. it[1] = w[1]
  <2>1. n + 1 - n = 1 /\ n <= n
    BY <1>2
  <2> HIDE DEF w
  <2>2. it[n + 1 - n] = w[n + 1 - n]
    BY <1>2, <1>5, <2>1
  <2>3. QED
    BY <2>1, <2>2
<1>7. w[1] = IF \E j \in 1 .. n : d(j) THEN "DENY" ELSE "ALLOW"
  BY <1>2
<1>8. QED
  BY <1>1, <1>6, <1>7 DEF n, d

\* A policy denies what it does not let through.
LEMMA DeniesOrLets ==
  ASSUME NEW p \in Policy, NEW r \in PolicyRequests
  PROVE  Denies(p, r) <=> ~ LetsThrough(p, r)
<1> USE PolicyAssumption DEF Absent
<1>1. /\ r.action \in {"PAYMENT", "DISCOUNT", "other"} /\ r.confirmed \in BOOLEAN
      /\ r.amount = -1 \/ r.amount \in Nat
      /\ r.discount = -1 \/ r.discount \in Nat
  BY DEF PolicyRequests
<1>2. /\ p.type \in {"TRANSACTION_LIMIT", "DISCOUNT_LIMIT", "CONFIRMATION_REQUIREMENT", "other"}
      /\ p.limit = -1 \/ p.limit \in Nat
      /\ p.required \in BOOLEAN
  BY DEF Policy
<1>3. CASE p.type = "TRANSACTION_LIMIT"
  <2>1. r.amount \in 0 .. p.limit <=> r.amount # -1 /\ r.amount <= p.limit
    BY <1>1, <1>2
  <2>2. QED
    BY <1>1, <1>2, <1>3, <2>1
       DEF Denies, DeniesAmount, DeniesUnconfirmed, DeniesDiscount, LetsThrough
<1>4. CASE p.type = "CONFIRMATION_REQUIREMENT"
  BY <1>1, <1>2, <1>4
     DEF Denies, DeniesAmount, DeniesUnconfirmed, DeniesDiscount, LetsThrough
<1>5. CASE p.type = "DISCOUNT_LIMIT"
  BY <1>1, <1>2, <1>5
     DEF Denies, DeniesAmount, DeniesUnconfirmed, DeniesDiscount, LetsThrough
<1>6. CASE p.type = "other"
  BY <1>1, <1>2, <1>6
     DEF Denies, DeniesAmount, DeniesUnconfirmed, DeniesDiscount, LetsThrough
<1>7. QED
  BY <1>2, <1>3, <1>4, <1>5, <1>6

\* The rows the query reads are the active policies, each of them once.
LEMMA RowsRead ==
  ASSUME PolicyInv, NEW list \in SetToSeqs(ActivePolicies)
  PROVE  /\ Len(list) \in Nat
         /\ \A p : p \in ActivePolicies <=> \E j \in 1 .. Len(list) : p = list[j]
<1> DEFINE S == ActivePolicies
           J == {j \in PolicyIds : policies[j].active}
           f == [j \in J |-> policies[j]]
<1>1. IsFiniteSet(J)
  BY PolicyAssumption, FS_Subset
<1>2. f \in Surjection(J, S)
  BY DEF ActivePolicies, Surjection
<1>3. IsFiniteSet(S)
  BY <1>1, <1>2, FS_Surjection
<1> HIDE DEF S, J, f
<1>4. Cardinality(S) \in Nat
  BY <1>3, FS_CardinalityType
<1> DEFINE D == 1 .. Cardinality(S)
<1>5. list \in [D -> S] /\ \A i, j \in D : i # j => list[i] # list[j]
  BY DEF SetToSeqs, S
<1>6. list \in Injection(D, S)
  BY <1>5 DEF Injection, IsInjective
<1>7. IsFiniteSet(D) /\ Cardinality(D) = Cardinality(S)
  BY <1>4, FS_Interval
<1>8. list \in Surjection(D, S)
  BY <1>3, <1>6, <1>7, FS_Injection
<1>9. Len(list) = Cardinality(S)
  BY <1>4, <1>5
<1>10. QED
  BY <1>4, <1>5, <1>8, <1>9 DEF Surjection, S

LEMMA PolicyStart == PolicyInit => PolicyInv
<1> SUFFICES ASSUME PolicyInit PROVE PolicyInv
  OBVIOUS
<1>1. policies \in [PolicyIds -> Policy \cup {NoPolicy}] /\ judged = NotJudged
  BY DEF PolicyInit
<1>2. QED
  BY <1>1 DEF PolicyInv, PolicyTypeOK, DeniedIffViolated, NotJudged

LEMMA JudgeStep == PolicyInv /\ Judge => PolicyInv'
<1> SUFFICES ASSUME PolicyInv, Judge PROVE PolicyInv'
  OBVIOUS
<1>1. PICK r \in PolicyRequests :
          \/ \E list \in SetToSeqs(ActivePolicies) :
                judged' = [verdict |-> Verdict(list, r), request |-> r, read |-> TRUE]
          \/ judged' = [verdict |-> "raised", request |-> r, read |-> TRUE]
          \/ judged' = [verdict |-> "DENY", request |-> r, read |-> FALSE]
  BY DEF Judge
<1>2. policies' = policies /\ ActivePolicies' = ActivePolicies
  BY DEF Judge, ActivePolicies
<1>3. PolicyTypeOK' /\ policies' \in [PolicyIds -> Policy \cup {NoPolicy}]
  BY <1>2 DEF PolicyInv, PolicyTypeOK
<1>4. judged'.request = r
  BY <1>1
<1>5. DeniedIffViolated'
  <2>1. ASSUME NEW list \in SetToSeqs(ActivePolicies),
               judged' = [verdict |-> Verdict(list, r), request |-> r, read |-> TRUE]
        PROVE  DeniedIffViolated'
    <3>1. judged'.verdict = Verdict(list, r) /\ judged'.read /\ judged'.request = r
      BY <2>1
    <3>2. Verdict(list, r) = "ALLOW" <=> \A j \in 1 .. Len(list) : ~ Denies(list[j], r)
      BY RowsRead, VerdictDenies
    <3>3. ActivePolicies \subseteq Policy
      BY DEF ActivePolicies, PolicyInv, NoPolicy
    <3>4. \A j \in 1 .. Len(list) : list[j] \in ActivePolicies
      BY RowsRead
    <3>5. Verdict(list, r) = "ALLOW" <=> \A p \in ActivePolicies : ~ Denies(p, r)
      BY <3>2, <3>4, RowsRead
    <3>6. Verdict(list, r) = "ALLOW" <=> \A p \in ActivePolicies : LetsThrough(p, r)
      BY <3>3, <3>5, DeniesOrLets
    <3>7. QED
      BY <1>2, <3>1, <3>6 DEF DeniedIffViolated, LetsThrough
  <2>2. CASE judged' = [verdict |-> "DENY", request |-> r, read |-> FALSE]
    <3>1. judged'.verdict = "DENY" /\ ~ judged'.read
      BY <2>2
    <3>2. QED
      BY <3>1 DEF DeniedIffViolated
  <2>3. CASE judged' = [verdict |-> "raised", request |-> r, read |-> TRUE]
    <3>1. judged'.verdict = "raised"
      BY <2>3
    <3>2. QED
      BY <3>1 DEF DeniedIffViolated
  <2>4. QED
    BY <1>1, <2>1, <2>2, <2>3
<1>6. QED
  BY <1>3, <1>4, <1>5 DEF PolicyInv

LEMMA PolicyStep == PolicyInv /\ [PolicyNext]_policyVars => PolicyInv'
<1> SUFFICES ASSUME PolicyInv, [PolicyNext]_policyVars PROVE PolicyInv'
  OBVIOUS
<1>1. CASE WritePolicy
  BY <1>1 DEF WritePolicy, PolicyInv, PolicyTypeOK, DeniedIffViolated, NotJudged
<1>2. CASE Report
  BY <1>2 DEF Report, PolicyInv, PolicyTypeOK, DeniedIffViolated, NotJudged
<1>3. CASE UNCHANGED policyVars
  BY <1>3 DEF policyVars, PolicyInv, PolicyTypeOK, DeniedIffViolated, ActivePolicies, LetsThrough
<1>4. QED
  BY <1>1, <1>2, <1>3, JudgeStep DEF PolicyNext

\* A verdict denies if and only if a policy in force is violated or the policies cannot
\* be read, whatever the order the rows come in.
THEOREM PolicySafe == PolicySpec => [](PolicyTypeOK /\ DeniedIffViolated)
<1>1. PolicyInv => PolicyTypeOK /\ DeniedIffViolated
  BY DEF PolicyInv
<1>2. QED
  BY PolicyStart, PolicyStep, <1>1, PTL DEF PolicySpec
=============================================================================
