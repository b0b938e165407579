---------------------------- MODULE PagesProofs ----------------------------
(***************************************************************************)
(* Proofs about the pages of apps/web2, for every value of the bounds.     *)
(***************************************************************************)
EXTENDS PagesInv, FiniteSetTheorems, TLAPS

-----------------------------------------------------------------------------
(* Buying. *)

LEMMA FlowStart == FlowInit => FlowInv
<1> SUFFICES ASSUME FlowInit PROVE FlowInv
  OBVIOUS
<1> USE FlowAssumption DEF FlowInit, FreshWizard, Cart, Quote
<1>1. FlowTypeOK
  BY DEF FlowTypeOK, Steps
<1>2. BackendOK
  BY DEF BackendOK
<1>3. CallsOK /\ PageOK
  BY DEF CallsOK, PageOK, Idle
<1>4. PaidForOnce /\ ReceivedMeansCreated
  BY DEF PaidForOnce, OrderFound, ReceivedMeansCreated
<1>5. QED
  BY <1>1, <1>2, <1>3, <1>4 DEF FlowInv

\* The calls of a page that is left keep all but their page.
LEMMA Disowned ==
  ASSUME calls \subseteq Calls
  PROVE  /\ Disown \subseteq Calls
         /\ \A d \in Disown : \E c \in calls : d = [c EXCEPT !.own = FALSE]
         /\ \A c \in Calls : LET d == [c EXCEPT !.own = FALSE] IN
              /\ d \in Calls /\ ~ d.own
              /\ d.kind = c.kind /\ d.of = c.of /\ d.state = c.state /\ d.result = c.result
              /\ d.knows = c.knows
  BY DEF Disown, Calls

\* Leaving the page, for another or by the timer.
LEMMA LeavingStep ==
  ASSUME FlowInv, page' \in {"checkout", "order", "elsewhere"}, NEW o \in {0} \cup backend.orders,
         wiz' = [FreshWizard EXCEPT !.order = o], page' = "order" => o \in backend.orders,
         calls' = Disown, redirect' \in {0, redirect}, backend' = backend
  PROVE  FlowInv'
<1> USE DEF FlowInv
<1>0. calls \subseteq Calls
  BY DEF FlowTypeOK
<1>1. FlowTypeOK'
  <2>1. o \in {0} \cup Quote
    BY DEF BackendOK
  <2>2. FreshWizard \in [step : Steps, customer : BOOLEAN, shipping : BOOLEAN, error : BOOLEAN,
                         cart : {0} \cup Cart, quote : {0} \cup Quote, order : {0} \cup Quote]
    BY DEF FreshWizard, Steps
  <2>3. wiz' \in [step : Steps, customer : BOOLEAN, shipping : BOOLEAN, error : BOOLEAN,
                  cart : {0} \cup Cart, quote : {0} \cup Quote, order : {0} \cup Quote]
    BY <2>1, <2>2
  <2>4. QED
    BY <1>0, <2>3, Disowned DEF FlowTypeOK
<1>2. BackendOK' /\ PaidForOnce'
  BY DEF BackendOK, PaidForOnce
<1>3. CallsOK'
  <2>1. ASSUME NEW d \in Disown
        PROVE  \E c \in calls : d = [c EXCEPT !.own = FALSE] /\ c \in Calls
    BY <1>0, Disowned
  <2>2. ASSUME NEW c \in calls, c \in Calls, NEW d, d = [c EXCEPT !.own = FALSE]
        PROVE  /\ d.kind \in {"confirm", "payment"} => d.of \in Quote
               /\ d.kind = "quote" /\ d.state = "done" => d.result \in Quote
               /\ Settles(d) => d.result = d.of /\ d.of \in backend.orders /\ backend.asked[d.of] = 0
               /\ d.kind = "payment" /\ d.state = "done" => d.of \in backend.created
               /\ Settles(d) => Settles(c)
               /\ d.of = c.of
    <3>1. d.kind = c.kind /\ d.of = c.of /\ d.state = c.state /\ d.result = c.result
      BY <2>2, <1>0, Disowned
    <3>2. QED
      BY <3>1, <2>2 DEF CallsOK, Settles
  <2>3. \A d \in calls' : /\ d.kind \in {"confirm", "payment"} => d.of \in Quote
                          /\ d.kind = "quote" /\ d.state = "done" => d.result \in Quote
                          /\ Settles(d) => d.result = d.of /\ d.of \in backend.orders /\ backend.asked[d.of] = 0
                          /\ d.kind = "payment" /\ d.state = "done" => d.of \in backend.created
    BY <2>1, <2>2
  <2>4. ASSUME NEW d \in calls', NEW e \in calls', Settles(d), Settles(e), d.of = e.of
        PROVE  d = e
    <3>1. PICK c \in calls : d = [c EXCEPT !.own = FALSE] /\ c \in Calls
      BY <2>1
    <3>2. PICK f \in calls : e = [f EXCEPT !.own = FALSE] /\ f \in Calls
      BY <2>1
    <3>3. Settles(c) /\ Settles(f) /\ c.of = f.of
      BY <3>1, <3>2, <2>2, <2>4
    <3>4. QED
      BY <3>1, <3>2, <3>3 DEF CallsOK
  <2>5. QED
    BY <2>3, <2>4 DEF CallsOK, Settles
<1>4. PageOK'
  <2>1. \A d \in calls' : ~ d.own
    BY <1>0, Disowned
  <2>2. QED
    BY <2>1 DEF PageOK, FreshWizard, Idle
<1>5. ReceivedMeansCreated'
  BY DEF ReceivedMeansCreated, FreshWizard, OrderFound
<1>6. QED
  BY <1>1, <1>2, <1>3, <1>4, <1>5

\* A call that ended is forgotten; what it shows in its page is checked below.
LEMMA EndedCall ==
  ASSUME FlowInv, NEW c \in calls, calls' = calls \ {c}, backend' = backend
  PROVE  BackendOK' /\ CallsOK' /\ PaidForOnce' /\ calls' \subseteq Calls
<1> USE DEF FlowInv
<1>1. BackendOK' /\ PaidForOnce'
  BY DEF BackendOK, PaidForOnce
<1>2. CallsOK'
  BY DEF CallsOK, Settles
<1>3. QED
  BY <1>1, <1>2 DEF FlowTypeOK

\* A call gives way to another of the same page.
LEMMA NextCall ==
  ASSUME FlowInv, NEW c \in calls, NEW d \in Calls, calls' = (calls \ {c}) \cup {d},
         d.own = c.own, wiz'.step = wiz.step, wiz'.quote = wiz.quote,
         c.own /\ d.kind = "payment" => d.of = wiz'.order,
         wiz'.order = wiz.order \/ c.own
  PROVE  calls' \subseteq Calls /\ PageOK'
<1> USE DEF FlowInv
<1>1. calls' \subseteq Calls
  BY DEF FlowTypeOK
<1>2. \A e, f \in calls' : e.own /\ f.own => e = f
  BY DEF PageOK
<1>3. \A e \in calls' : e.own /\ e.kind = "payment" => e.of = wiz'.order
  BY DEF PageOK
<1>4. wiz'.step = 5 => Idle'
  BY DEF PageOK, Idle
<1>5. QED
  BY <1>1, <1>2, <1>3, <1>4 DEF PageOK

LEMMA ServeStep ==
  ASSUME FlowInv, NEW c \in calls, Serve(c)
  PROVE  FlowInv'
<1> USE FlowAssumption DEF FlowInv, Serve
<1>0. c \in Calls /\ c.state = "sent" /\ wiz' = wiz /\ page' = page /\ redirect' = redirect
  BY DEF FlowTypeOK
<1>1. CASE /\ calls' = (calls \ {c}) \cup {[c EXCEPT !.state = "refused"]}
           /\ UNCHANGED backend
  <2> DEFINE d == [c EXCEPT !.state = "refused"]
  <2>1. /\ d \in Calls /\ d.own = c.own /\ d.kind = c.kind /\ d.of = c.of
        /\ d.state = "refused"
    BY <1>0 DEF Calls
  <2>2. calls' = (calls \ {c}) \cup {d}
    BY <1>1
  <2> HIDE DEF d
  <2>3. calls' \subseteq Calls /\ PageOK'
    <3>1. c.own /\ d.kind = "payment" => d.of = wiz'.order
      BY <2>1, <1>0 DEF PageOK
    <3>2. QED
      BY <3>1, <2>1, <2>2, <1>0, NextCall
  <2>4. CallsOK'
    BY <1>1, <2>1, <2>2 DEF CallsOK, Settles
  <2>5. BackendOK' /\ PaidForOnce' /\ ReceivedMeansCreated'
    BY <1>0, <1>1 DEF BackendOK, PaidForOnce, OrderFound, ReceivedMeansCreated
  <2>6. QED
    BY <2>3, <2>4, <2>5, <1>0 DEF FlowTypeOK
<1>2. CASE /\ c.kind = "quote"
           /\ c.of = backend.cart /\ backend.filled
           /\ backend.quotes < MaxQuotes
           /\ backend' = [backend EXCEPT !.quotes = @ + 1, !.cartOf[backend.quotes + 1] = c.of]
           /\ calls' = (calls \ {c}) \cup {[c EXCEPT !.state = "done", !.result = backend.quotes + 1]}
  <2> DEFINE d == [c EXCEPT !.state = "done", !.result = backend.quotes + 1]
  <2>0. backend.quotes + 1 \in Quote /\ backend.quotes \in Nat
    BY <1>2 DEF BackendOK, Quote
  <2>1. /\ d \in Calls /\ d.own = c.own /\ d.kind = "quote" /\ d.of = c.of
        /\ d.state = "done" /\ d.result = backend.quotes + 1
    BY <1>0, <1>2, <2>0 DEF Calls
  <2>2. calls' = (calls \ {c}) \cup {d}
    BY <1>2
  <2> HIDE DEF d
  <2>3. calls' \subseteq Calls /\ PageOK'
    BY <2>1, <2>2, <1>0, NextCall
  <2>4. /\ backend'.orders = backend.orders /\ backend'.asked = backend.asked
        /\ backend'.created = backend.created /\ backend'.cart = backend.cart
        /\ backend'.quotes = backend.quotes + 1
        /\ backend'.cartOf = [backend.cartOf EXCEPT ![backend.quotes + 1] = backend.cart]
    BY <1>2 DEF BackendOK
  <2>5. CallsOK'
    BY <2>0, <2>1, <2>2, <2>4 DEF CallsOK, Settles
  <2>6. BackendOK'
    <3>1. backend' \in [cart : Cart, filled : BOOLEAN, quotes : {0} \cup Quote,
                    cartOf : [Quote -> {0} \cup Cart], orders : SUBSET Quote,
                    asked : [Quote -> Nat], created : SUBSET Quote]
      BY <1>2, <2>0 DEF BackendOK
    <3>2. \A q \in Quote : q > backend'.quotes => backend'.cartOf[q] = 0
      BY <2>0, <2>4 DEF BackendOK, Quote
    <3>3. ASSUME NEW o \in backend'.orders
          PROVE  backend'.cartOf[o] \in 1 .. (backend'.cart - 1)
      <4>1. o \in Quote /\ backend.cartOf[o] \in 1 .. (backend.cart - 1)
        BY <2>4, <3>3 DEF BackendOK
      <4>2. o # backend.quotes + 1
        BY <2>0, <4>1 DEF BackendOK, Quote
      <4>3. QED
        BY <4>1, <4>2, <2>4 DEF BackendOK
    <3>4. QED
      BY <3>1, <3>2, <3>3, <2>4 DEF BackendOK
  <2>7. PaidForOnce' /\ ReceivedMeansCreated'
    BY <1>0, <2>4 DEF PaidForOnce, OrderFound, ReceivedMeansCreated
  <2>8. QED
    BY <2>3, <2>5, <2>6, <2>7, <1>0 DEF FlowTypeOK
<1>3. CASE /\ c.kind = "confirm"
           /\ backend.cartOf[c.of] = backend.cart /\ backend.filled
           /\ backend.cart < MaxCarts
           /\ backend' = [backend EXCEPT !.orders = @ \cup {c.of}, !.cart = @ + 1, !.filled = FALSE]
           /\ calls' = (calls \ {c}) \cup {[c EXCEPT !.state = "done", !.result = c.of]}
  <2> DEFINE d == [c EXCEPT !.state = "done", !.result = c.of]
  <2>0. c.of \in Quote /\ backend.cart \in Nat
    BY <1>3 DEF CallsOK, BackendOK, Cart
  <2>1. /\ d \in Calls /\ d.own = c.own /\ d.kind = "confirm" /\ d.of = c.of
        /\ d.state = "done" /\ d.result = c.of
    BY <1>0, <1>3, <2>0 DEF Calls
  <2>2. calls' = (calls \ {c}) \cup {d}
    BY <1>3
  <2> HIDE DEF d
  <2>3. calls' \subseteq Calls /\ PageOK'
    BY <2>1, <2>2, <1>0, NextCall
  <2>4. /\ backend'.orders = backend.orders \cup {c.of} /\ backend'.asked = backend.asked
        /\ backend'.created = backend.created /\ backend'.cart = backend.cart + 1
        /\ backend'.quotes = backend.quotes /\ backend'.cartOf = backend.cartOf
    BY <1>3 DEF BackendOK
  \* The quote is of the active cart, so it was not confirmed before.
  <2>5. c.of \notin backend.orders /\ backend.asked[c.of] = 0
    BY <1>3, <2>0 DEF BackendOK
  <2>6. CallsOK'
    <3>1. \A e \in calls' \ {d} : Settles(e) => e.of # c.of
      BY <2>2, <2>5 DEF CallsOK
    <3>2. QED
      BY <2>0, <2>1, <2>2, <2>4, <2>5, <3>1 DEF CallsOK, Settles
  <2>7. BackendOK'
    <3>1. backend' \in [cart : Cart, filled : BOOLEAN, quotes : {0} \cup Quote,
                    cartOf : [Quote -> {0} \cup Cart], orders : SUBSET Quote,
                    asked : [Quote -> Nat], created : SUBSET Quote]
      <4>1. backend.cart + 1 \in Cart
        BY <1>3, <2>0 DEF Cart
      <4>2. QED
        BY <1>3, <2>0, <4>1 DEF BackendOK
    <3>2. \A o \in backend'.orders : backend'.cartOf[o] \in 1 .. (backend'.cart - 1)
      BY <1>3, <2>0, <2>4 DEF BackendOK, Cart
    <3>3. QED
      BY <3>1, <3>2, <2>4 DEF BackendOK
  <2>8. PaidForOnce' /\ ReceivedMeansCreated'
    BY <1>0, <2>4 DEF PaidForOnce, OrderFound, ReceivedMeansCreated
  <2>9. QED
    BY <2>3, <2>6, <2>7, <2>8, <1>0 DEF FlowTypeOK
<1>4. CASE /\ c.kind = "payment"
           /\ c.of \in backend.orders
           /\ backend' = [backend EXCEPT !.created = @ \cup {c.of}]
           /\ calls' = (calls \ {c}) \cup {[c EXCEPT !.state = "done", !.result = c.of]}
  <2> DEFINE d == [c EXCEPT !.state = "done", !.result = c.of]
  <2>0. c.of \in Quote
    BY <1>4 DEF CallsOK
  <2>1. /\ d \in Calls /\ d.own = c.own /\ d.kind = "payment" /\ d.of = c.of
        /\ d.state = "done" /\ d.result = c.of
    BY <1>0, <1>4, <2>0 DEF Calls
  <2>2. calls' = (calls \ {c}) \cup {d}
    BY <1>4
  <2> HIDE DEF d
  <2>3. calls' \subseteq Calls /\ PageOK'
    <3>1. c.own /\ d.kind = "payment" => d.of = wiz'.order
      BY <2>1, <1>0, <1>4 DEF PageOK
    <3>2. QED
      BY <3>1, <2>1, <2>2, <1>0, NextCall
  <2>4. /\ backend'.orders = backend.orders /\ backend'.asked = backend.asked
        /\ backend'.created = backend.created \cup {c.of} /\ backend'.cart = backend.cart
        /\ backend'.quotes = backend.quotes /\ backend'.cartOf = backend.cartOf
    BY <1>4 DEF BackendOK
  <2>5. CallsOK'
    BY <2>0, <2>1, <2>2, <2>4 DEF CallsOK, Settles
  <2>6. BackendOK'
    BY <1>4, <2>0, <2>4 DEF BackendOK
  <2>7. PaidForOnce' /\ ReceivedMeansCreated'
    BY <1>0, <2>4 DEF PaidForOnce, OrderFound, ReceivedMeansCreated
  <2>8. QED
    BY <2>3, <2>5, <2>6, <2>7, <1>0 DEF FlowTypeOK
<1>5. QED
  BY <1>1, <1>2, <1>3, <1>4 DEF Carried

\* What a callback shows in the page it was made for, if that is still there.
LEMMA CallbackStep ==
  ASSUME FlowInv, NEW c \in calls, Quoted(c) \/ Confirmed(c) \/ Paid(c) \/ Failed(c)
  PROVE  FlowInv'
<1> USE FlowAssumption DEF FlowInv
<1>0. c \in Calls
  BY DEF FlowTypeOK
<1>1. CASE Quoted(c)
  <2>1. BackendOK' /\ CallsOK' /\ PaidForOnce' /\ calls' \subseteq Calls
    BY <1>1, EndedCall DEF Quoted
  <2>2. FlowTypeOK'
    <3>1. c.result \in Quote
      BY <1>1 DEF Quoted, CallsOK
    <3>2. wiz' \in [step : Steps, customer : BOOLEAN, shipping : BOOLEAN, error : BOOLEAN,
                    cart : {0} \cup Cart, quote : {0} \cup Quote, order : {0} \cup Quote]
      <4>1. CASE c.own
        <5>1. wiz' = [wiz EXCEPT !.quote = c.result, !.step = 4, !.error = FALSE]
          BY <1>1, <4>1 DEF Quoted, Show
        <5>2. wiz \in [step : Steps, customer : BOOLEAN, shipping : BOOLEAN, error : BOOLEAN,
                       cart : {0} \cup Cart, quote : {0} \cup Quote, order : {0} \cup Quote]
          BY DEF FlowTypeOK
        <5>3. 4 \in Steps
          BY DEF Steps
        <5> HIDE DEF FlowInv
        <5>4. QED
          BY <3>1, <5>1, <5>2, <5>3
      <4>2. CASE ~ c.own
        BY <1>1, <4>2 DEF FlowTypeOK, Quoted, Show
      <4>3. QED
        BY <4>1, <4>2
    <3>3. QED
      BY <1>1, <2>1, <3>2 DEF FlowTypeOK, Quoted
  <2>3. c.own => wiz.step # 5
    BY DEF PageOK, Idle
  <2>4. wiz'.step = 5 => wiz.step = 5 /\ wiz'.order = wiz.order
    BY <1>1 DEF Quoted, Show, FlowTypeOK
  <2>5. PageOK'
    <3>1. wiz'.order = wiz.order
      BY <1>1 DEF Quoted, Show, FlowTypeOK
    <3>2. wiz'.step = 4 => wiz'.quote # 0
      BY <1>1 DEF Quoted, Show, FlowTypeOK, PageOK, CallsOK, Quote
    <3>3. QED
      BY <1>1, <2>4, <3>1, <3>2 DEF Quoted, PageOK, Idle
  <2>6. ReceivedMeansCreated'
    <3>1. wiz'.order = wiz.order
      BY <1>1 DEF Quoted, Show, FlowTypeOK
    <3>2. QED
      BY <1>1, <2>4, <3>1 DEF Quoted, OrderFound, ReceivedMeansCreated
  <2>7. QED
    BY <2>1, <2>2, <2>5, <2>6
<1>2. CASE Confirmed(c)
  <2> DEFINE d == [Call("payment", c.result, c.own) EXCEPT !.knows = c.own]
  <2>0. /\ c.of \in Quote /\ c.result = c.of /\ c.of \in backend.orders
        /\ backend.asked[c.of] = 0
    BY <1>2 DEF Confirmed, CallsOK, Settles
  <2>1. /\ d \in Calls /\ d.own = c.own /\ d.kind = "payment" /\ d.of = c.of
        /\ d.state = "sent"
    BY <1>0, <2>0 DEF Calls, Call, Callable
  <2>2. calls' = (calls \ {c}) \cup {d}
    BY <1>2 DEF Confirmed
  <2> HIDE DEF d
  <2>3. /\ wiz'.step = wiz.step /\ wiz'.quote = wiz.quote
        /\ wiz'.order = IF c.own THEN c.of ELSE wiz.order
    BY <1>2, <2>0 DEF Confirmed, Show, FlowTypeOK
  <2>4. calls' \subseteq Calls /\ PageOK'
    BY <2>1, <2>2, <2>3, NextCall
  <2>5. /\ backend'.orders = backend.orders
        /\ backend'.asked = [backend.asked EXCEPT ![c.of] = 1]
        /\ backend'.created = backend.created /\ backend'.cart = backend.cart
        /\ backend'.quotes = backend.quotes /\ backend'.cartOf = backend.cartOf
    BY <1>2, <2>0 DEF Confirmed, BackendOK
  <2>6. CallsOK'
    <3>1. \A e \in calls' : Settles(e) => e \in calls /\ e.of # c.of
      BY <1>2, <2>1, <2>2 DEF Confirmed, CallsOK, Settles
    <3>2. \A e \in calls' : Settles(e) => /\ e.result = e.of /\ e.of \in backend'.orders
                                         /\ backend'.asked[e.of] = 0
      BY <2>5, <3>1 DEF CallsOK, BackendOK
    <3>3. \A e \in calls' : /\ e.kind \in {"confirm", "payment"} => e.of \in Quote
                            /\ e.kind = "quote" /\ e.state = "done" => e.result \in Quote
                            /\ e.kind = "payment" /\ e.state = "done" => e.of \in backend'.created
      BY <2>0, <2>1, <2>2, <2>5 DEF CallsOK
    <3>4. \A e, f \in calls' : Settles(e) /\ Settles(f) /\ e.of = f.of => e = f
      BY <3>1 DEF CallsOK
    <3>5. QED
      BY <3>2, <3>3, <3>4 DEF CallsOK, Settles
  <2>7. BackendOK'
    BY <1>2, <2>0, <2>5 DEF Confirmed, BackendOK
  <2>8. PaidForOnce'
    BY <2>0, <2>5 DEF PaidForOnce, BackendOK
  <2>9. ReceivedMeansCreated'
    <3>1. c.own => wiz.step # 5
      BY DEF PageOK, Idle
    <3>2. QED
      BY <1>2, <2>0, <2>3, <2>5, <3>1 DEF Confirmed, OrderFound, ReceivedMeansCreated
  <2>10. FlowTypeOK'
    BY <1>2, <2>0, <2>4 DEF Confirmed, Show, FlowTypeOK
  <2>11. QED
    BY <2>4, <2>6, <2>7, <2>8, <2>9, <2>10
<1>3. CASE Paid(c)
  <2>0. c.of \in Quote /\ c.of \in backend.created
    BY <1>3 DEF Paid, CallsOK
  <2>1. BackendOK' /\ CallsOK' /\ PaidForOnce' /\ calls' \subseteq Calls
    BY <1>3, EndedCall DEF Paid
  <2>2. FlowTypeOK'
    BY <1>3, <2>0, <2>1 DEF FlowTypeOK, Paid, Show, Steps
  <2>3. wiz'.order = wiz.order /\ wiz'.quote = wiz.quote
        /\ wiz'.step = IF c.own THEN 5 ELSE wiz.step
    BY <1>3 DEF Paid, Show, FlowTypeOK
  <2>4. PageOK'
    <3>1. c.own => Idle'
      BY <1>3 DEF Paid, PageOK, Idle
    <3>2. QED
      BY <1>3, <2>3, <3>1 DEF Paid, PageOK, Idle
  <2>5. c.own => wiz.order \in backend.created
    BY <1>3, <2>0 DEF Paid, PageOK
  <2>6. ReceivedMeansCreated'
    BY <1>3, <2>0, <2>3, <2>5 DEF Paid, OrderFound, ReceivedMeansCreated
  <2>7. QED
    BY <2>1, <2>2, <2>4, <2>6
<1>4. CASE Failed(c)
  <2>1. BackendOK' /\ CallsOK' /\ PaidForOnce' /\ calls' \subseteq Calls
    BY <1>4, EndedCall DEF Failed
  <2>2. FlowTypeOK'
    BY <1>4, <2>1 DEF FlowTypeOK, Failed, Show
  <2>3. wiz'.step = wiz.step /\ wiz'.quote = wiz.quote /\ wiz'.order = wiz.order
    BY <1>4 DEF Failed, Show, FlowTypeOK
  <2>4. PageOK' /\ ReceivedMeansCreated'
    BY <1>4, <2>3 DEF Failed, PageOK, Idle, OrderFound, ReceivedMeansCreated
  <2>5. QED
    BY <2>1, <2>2, <2>4
<1>5. QED
  BY <1>1, <1>2, <1>3, <1>4

LEMMA FlowStep == FlowInv /\ [FlowNext]_flowVars => FlowInv'
<1> SUFFICES ASSUME FlowInv, [FlowNext]_flowVars PROVE FlowInv'
  OBVIOUS
<1> DEFINE Wizards == [step : Steps, customer : BOOLEAN, shipping : BOOLEAN, error : BOOLEAN,
                        cart : {0} \cup Cart, quote : {0} \cup Quote, order : {0} \cup Quote]
<1>1. ASSUME NEW p \in {"checkout", "elsewhere"}, Open(p)
      PROVE  FlowInv'
  <2>1. wiz' = [FreshWizard EXCEPT !.order = 0]
    BY <1>1 DEF Open, FreshWizard
  <2>2. QED
    BY <1>1, <2>1, LeavingStep DEF Open
<1>2. ASSUME OpenOrder \/ Redirect
      PROVE  FlowInv'
  <2>1. PICK o \in backend.orders : OrderOpened(o)
    BY <1>2 DEF OpenOrder, Redirect, OrdersListed, FlowInv, BackendOK, OrderFound, ReceivedMeansCreated
  <2>2. redirect' \in {0, redirect}
    BY <1>2 DEF OpenOrder, Redirect
  <2>3. QED
    BY <2>1, <2>2, LeavingStep DEF OrderOpened
\* The shopper's steps on the page, the calls as they are.
<1>3. ASSUME UNCHANGED <<page, calls, redirect, backend>>,
             wiz'.step \in Steps, wiz'.step = 5 => wiz.step = 5 /\ wiz'.order = wiz.order,
             wiz'.step = 4 => wiz'.quote # 0, wiz'.order = wiz.order,
             wiz' \in Wizards
      PROVE  FlowInv'
  <2>1. FlowTypeOK' /\ BackendOK' /\ PaidForOnce' /\ ReceivedMeansCreated'
    BY <1>3 DEF FlowInv, FlowTypeOK, BackendOK, PaidForOnce, OrderFound, ReceivedMeansCreated
  <2>2. CallsOK'
    BY <1>3 DEF FlowInv, CallsOK, Settles
  <2>3. PageOK'
    BY <1>3 DEF FlowInv, PageOK, Idle
  <2>4. QED
    BY <2>1, <2>2, <2>3 DEF FlowInv
<1>4. ASSUME CartAnswer
      PROVE  FlowInv'
  <2>1. backend.cart \in Cart
    BY DEF FlowInv, BackendOK
  <2>2. wiz' = [wiz EXCEPT !.cart = backend.cart]
    BY <1>4 DEF CartAnswer
  <2>3. QED
    BY <1>3, <1>4, <2>1, <2>2 DEF CartAnswer, FlowInv, FlowTypeOK, PageOK
<1>5. ASSUME TypeCustomer \/ TypeShipping
      PROVE  FlowInv'
  BY <1>3, <1>5 DEF TypeCustomer, TypeShipping, FlowInv, FlowTypeOK, PageOK
<1>6. ASSUME Back
      PROVE  FlowInv'
  <2>1. wiz' = [wiz EXCEPT !.step = wiz.step - 1] /\ wiz.step - 1 \in 1 .. 3
    BY <1>6 DEF Back
  <2>2. QED
    BY <1>3, <1>6, <2>1 DEF Back, FlowInv, FlowTypeOK, Steps
<1>7. ASSUME Continue
      PROVE  FlowInv'
  <2>0. wiz.step \in 1 .. 4 /\ Idle
    BY <1>7 DEF Continue, FlowInv, FlowTypeOK, Steps
  <2>b. wiz \in Wizards
    BY DEF FlowInv, FlowTypeOK
  <2>1. CASE wiz.step \in {1, 2}
    <3>0. UNCHANGED <<page, calls, redirect, backend>>
      BY <1>7, <2>1 DEF Continue, Send, Call
    <3>1. \/ wiz' = [wiz EXCEPT !.error = FALSE, !.step = wiz.step + 1]
          \/ wiz' = [wiz EXCEPT !.error = TRUE]
      BY <1>7, <2>1 DEF Continue, Send, Call
    <3>2. /\ wiz' \in Wizards /\ wiz'.order = wiz.order /\ wiz'.step \in 1 .. 3
      <4>1. wiz.step + 1 \in 2 .. 3 /\ wiz.step + 1 \in Steps
        BY <2>1 DEF Steps
      <4>2. CASE wiz' = [wiz EXCEPT !.error = FALSE, !.step = wiz.step + 1]
        <5>1. wiz' \in Wizards
          BY <2>b, <4>1, <4>2
        <5>2. wiz'.order = wiz.order /\ wiz'.step = wiz.step + 1
          BY <2>b, <4>2
        <5>3. QED
          BY <4>1, <5>1, <5>2
      <4>3. CASE wiz' = [wiz EXCEPT !.error = TRUE]
        <5>1. wiz' \in Wizards
          BY <2>b, <4>3
        <5>2. wiz'.order = wiz.order /\ wiz'.step = wiz.step
          BY <2>b, <4>3
        <5>3. QED
          BY <2>1, <5>1, <5>2
      <4>4. QED
        BY <3>1, <4>2, <4>3
    <3>3. QED
      BY <1>3, <3>0, <3>1, <3>2 DEF Steps
  <2>2. CASE wiz.step = 3 /\ wiz.cart = 0
    <3>0. UNCHANGED <<page, calls, redirect, backend>>
      BY <1>7, <2>2 DEF Continue, Send, Call
    <3>1. wiz' = [wiz EXCEPT !.error = TRUE]
      <4>1. wiz' = [wiz EXCEPT !.error = wiz.cart = 0]
        BY <1>7, <2>2 DEF Continue, Send, Call
      <4>2. (wiz.cart = 0) = TRUE
        BY <2>2
      <4>3. QED
        BY <4>1, <4>2, Zenon
    <3>2. wiz' \in Wizards /\ wiz'.order = wiz.order /\ wiz'.step = 3
      BY <2>2, <2>b, <3>1
    <3>3. QED
      BY <1>3, <3>0, <3>1, <3>2 DEF Steps
  <2>3. ASSUME NEW c \in Calls, ~ c.knows, c.state = "sent", c.kind \in {"quote", "confirm"},
               c.kind = "confirm" => c.of \in Quote, Send(c),
               wiz' = [wiz EXCEPT !.error = FALSE], wiz.step # 5,
               UNCHANGED <<page, redirect, backend>>
        PROVE  FlowInv'
    <3>1. FlowTypeOK'
      BY <2>3 DEF FlowInv, FlowTypeOK, Send
    <3>2. BackendOK' /\ PaidForOnce' /\ ReceivedMeansCreated'
      BY <2>3 DEF FlowInv, FlowTypeOK, BackendOK, PaidForOnce, OrderFound, ReceivedMeansCreated
    <3>3. CallsOK'
      BY <2>3 DEF FlowInv, CallsOK, Settles, Send
    <3>4. PageOK'
      BY <2>0, <2>3 DEF FlowInv, FlowTypeOK, PageOK, Idle, Send
    <3>5. QED
      BY <3>1, <3>2, <3>3, <3>4 DEF FlowInv
  <2>4. CASE wiz.step = 3 /\ wiz.cart # 0
    <3> DEFINE c == Call("quote", wiz.cart, TRUE)
    <3>1. c \in Calls /\ ~ c.knows /\ c.state = "sent" /\ c.kind = "quote"
      BY <2>4 DEF Call, Calls, Callable, FlowInv, FlowTypeOK
    <3>2. Send(c) /\ UNCHANGED <<page, redirect, backend>>
      BY <1>7, <2>4 DEF Continue, Send, Call
    <3>3. wiz' = [wiz EXCEPT !.error = FALSE]
      <4>1. wiz' = [wiz EXCEPT !.error = wiz.cart = 0]
        BY <1>7, <2>4 DEF Continue, Send, Call
      <4>2. (wiz.cart = 0) = FALSE
        BY <2>4
      <4>3. QED
        BY <4>1, <4>2, Zenon
    <3> HIDE DEF c
    <3>4. QED
      BY <2>3, <2>4, <3>1, <3>2, <3>3
  <2>5. CASE wiz.step = 4
    <3> DEFINE c == Call("confirm", wiz.quote, TRUE)
    <3>1. /\ c \in Calls /\ ~ c.knows /\ c.state = "sent" /\ c.kind = "confirm"
          /\ c.of \in Quote
      BY <2>5 DEF Call, Calls, Callable, FlowInv, FlowTypeOK, PageOK
    <3>2. Send(c) /\ wiz' = [wiz EXCEPT !.error = FALSE] /\ UNCHANGED <<page, redirect, backend>>
      BY <1>7, <2>5 DEF Continue, Send, Call
    <3> HIDE DEF c
    <3>3. QED
      BY <2>3, <2>5, <3>1, <3>2
  <2>6. QED
    BY <2>0, <2>1, <2>2, <2>4, <2>5
<1>8. ASSUME Fill
      PROVE  FlowInv'
  <2>1. /\ backend' = [backend EXCEPT !.filled = TRUE]
        /\ UNCHANGED <<page, wiz, calls, redirect>>
    BY <1>8 DEF Fill
  <2>2. BackendOK' /\ PaidForOnce' /\ ReceivedMeansCreated'
    BY <2>1 DEF FlowInv, BackendOK, PaidForOnce, OrderFound, ReceivedMeansCreated
  <2>3. CallsOK'
    BY <2>1 DEF FlowInv, CallsOK, Settles, BackendOK
  <2>4. QED
    BY <2>1, <2>2, <2>3 DEF FlowInv, FlowTypeOK, PageOK, Idle
<1>9. ASSUME NEW c \in calls, Serve(c)
      PROVE  FlowInv'
  BY <1>9, ServeStep
<1>10. ASSUME NEW c \in calls, Quoted(c) \/ Confirmed(c) \/ Paid(c) \/ Lost(c) \/ Refused(c)
       PROVE  FlowInv'
  BY <1>10, CallbackStep DEF Lost, Refused
<1>11. ASSUME UNCHANGED flowVars
       PROVE  FlowInv'
  <2>1. CallsOK'
    BY <1>11 DEF flowVars, FlowInv, CallsOK, Settles
  <2>2. QED
    BY <1>11, <2>1 DEF flowVars, FlowInv, FlowTypeOK, BackendOK, PageOK, Idle, PaidForOnce,
                       OrderFound, ReceivedMeansCreated
<1>12. QED
  BY <1>1, <1>2, <1>4, <1>5, <1>6, <1>7, <1>8, <1>9, <1>10, <1>11 DEF FlowNext

\* However often the shopper goes back, leaves and returns, and whatever answers
\* are lost, an order is asked to be paid for once, and what the page calls
\* received is a payment the backend has created.
THEOREM FlowSafe == FlowSpec => [](FlowTypeOK /\ PaidForOnce /\ ReceivedMeansCreated)
<1>1. FlowInv => FlowTypeOK /\ PaidForOnce /\ ReceivedMeansCreated
  BY DEF FlowInv
<1>2. QED
  BY FlowStart, FlowStep, <1>1, PTL DEF FlowSpec

-----------------------------------------------------------------------------
(* The session of a document. *)

\* A route under the root has no route above it.
LEMMA ChainOfTop ==
  ASSUME NEW r \in Routes, Parent[r] = Root
  PROVE  Chain(r) \subseteq {r}
<1>1. Root \notin Routes
  BY DEF Root, Routes
<1> HIDE DEF Root
<1>2. QED
  BY <1>1 DEF Chain

LEMMA FormRoutes ==
  ASSUME NEW r \in AsksForNone
  PROVE  r \in Routes /\ Parent[r] = Root /\ ~ Guarded(r)
<1>1. r \in {"/login", "/register"} /\ r \in Routes
  BY DEF AsksForNone, Routes
<1>2. Parent[r] = Root
  BY <1>1 DEF Parent, AsksForNone
<1>3. QED
  BY <1>1, <1>2, ChainOfTop DEF Guarded, AsksForToken

LEMMA HomeRoute == "/" \in Routes /\ "/" \notin AsksForNone /\ ~ Guarded("/")
<1>1. "/" \in Routes /\ Parent["/"] = Root
  BY DEF Parent, Routes
<1>2. QED
  BY <1>1, ChainOfTop DEF Guarded, AsksForToken, AsksForNone

\* Where a navigation ends, a visitor is let in.
LEMMA LandingOK ==
  ASSUME NEW r \in Routes
  PROVE  /\ Landing(r, TRUE) \in Routes /\ Landing(r, FALSE) \in Routes
         /\ ~ Guarded(Landing(r, FALSE))
         /\ Landing(r, TRUE) \notin AsksForNone
<1>1. "/login" \in AsksForNone
  BY DEF AsksForNone
<1>2. QED
  BY <1>1, FormRoutes, HomeRoute DEF Landing

LEMMA FreshFormOK ==
  ASSUME NEW p
  PROVE  FreshForm(p) \in Forms /\ FreshForm(p).mode # "tenant-select"
BY SessionAssumption DEF FreshForm, Forms, Modes

LEMMA FreshSound ==
  ASSUME storage \in Credentials, NEW p \in Routes, ~ Guarded(p)
  PROVE  DocumentOK(FreshDocument(p))
<1> DEFINE d == FreshDocument(p)
<1>1. /\ d.page = p /\ d.auth = storage /\ d.form = FreshForm(p) /\ d.reqs = {} /\ d.cached = {}
      /\ ~ d.leaving /\ ~ d.overtaken
  BY DEF FreshDocument
<1>2. d \in Documents
  BY FreshFormOK DEF FreshDocument, Documents
<1> HIDE DEF d
<1>3. DocumentOK(d)
  BY <1>1, <1>2, FreshFormOK DEF DocumentOK, RequestsOK, FormOK, CacheOK, GuardOK
<1>4. QED
  BY <1>3 DEF d

\* The fields of a document.
LEMMA DocumentFields ==
  ASSUME NEW d \in Documents
  PROVE  /\ d.page \in Routes /\ d.auth \in Credentials /\ d.form \in Forms
         /\ d.reqs \subseteq Requests /\ d.cached \subseteq Credentials
         /\ d.homing \in BOOLEAN /\ d.leaving \in BOOLEAN /\ d.overtaken \in BOOLEAN
BY DEF Documents

LEMMA GotoSound ==
  ASSUME NEW d, DocumentOK(d), NEW p \in Routes,
         Guarded(p) => SignedIn(d.auth) \/ d.leaving,
         p \in AsksForNone => ~ SignedIn(d.auth)
  PROVE  DocumentOK(Goto(d, p))
<1>1. CASE p = d.page
  BY <1>1 DEF Goto
<1>2. CASE p # d.page
  <2> DEFINE f == FreshForm(p)
             q(r) == [r EXCEPT !.mine = FALSE]
             R == {q(r) : r \in d.reqs}
             e == [d EXCEPT !.page = p, !.form = f, !.reqs = R]
  <2>1. d \in Documents /\ d.reqs \subseteq Requests /\ d.auth \in Credentials
    BY DocumentFields DEF DocumentOK
  <2>2. f \in Forms /\ f.mode # "tenant-select"
    BY FreshFormOK
  <2>3. ASSUME NEW r \in Requests
        PROVE  /\ q(r) \in Requests /\ ~ q(r).mine /\ q(r).kind = r.kind /\ q(r).cred = r.cred
               /\ q(r).accepted = r.accepted
    BY DEF Requests
  <2> HIDE DEF f, q
  <2>4. R \subseteq Requests
    BY <2>1, <2>3
  <2>5. \A x \in R : \E r \in d.reqs : /\ x.kind = r.kind /\ x.cred = r.cred
                                       /\ x.accepted = r.accepted /\ ~ x.mine
    BY <2>1, <2>3
  <2> HIDE DEF R
  <2>6. /\ e.page = p /\ e.auth = d.auth /\ e.form = f /\ e.reqs = R /\ e.cached = d.cached
        /\ e.leaving = d.leaving /\ e.overtaken = d.overtaken
    BY <2>1 DEF Documents
  <2>7. e \in Documents
    BY <2>1, <2>2, <2>4 DEF Documents
  <2>8. Goto(d, p) = e
    BY <1>2 DEF Goto, e, f, R, q
  <2> HIDE DEF e
  <2>9. Settling(e) <=> Settling(d)
    BY <2>6 DEF Settling
  <2>10. RequestsOK(e)
    BY <2>5, <2>6, <2>9 DEF DocumentOK, RequestsOK, Settling
  <2>11. p \in AsksForNone => d.auth = Nobody
    BY <2>1, SessionAssumption DEF Credentials, Someone, SignedIn
  <2>12. FormOK(e)
    BY <2>2, <2>5, <2>6, <2>9, <2>11 DEF DocumentOK, RequestsOK, FormOK, CacheOK, Settling
  <2>13. CacheOK(e) /\ GuardOK(e)
    BY <2>6, <2>9 DEF DocumentOK, CacheOK, GuardOK, Settling
  <2>14. QED
    BY <2>7, <2>8, <2>10, <2>12, <2>13 DEF DocumentOK
<1>3. QED
  BY <1>1, <1>2

LEMMA UnauthorizedSound ==
  ASSUME NEW d, DocumentOK(d)
  PROVE  DocumentOK(Unauthorized(d))
<1> DEFINE e == [d EXCEPT !.auth = Nobody, !.leaving = @ \/ d.page # "/login"]
<1>1. d \in Documents /\ Nobody \in Credentials
  BY DEF DocumentOK, Credentials
<1>2. /\ e.page = d.page /\ e.auth = Nobody /\ e.form = d.form /\ e.reqs = d.reqs
      /\ e.cached = d.cached /\ e.overtaken = d.overtaken
      /\ e.leaving <=> d.leaving \/ d.page # "/login"
  BY <1>1 DEF Documents
<1>3. e \in Documents
  BY <1>1 DEF Documents
<1>4. Unauthorized(d) = e
  BY DEF Unauthorized
<1> HIDE DEF e
<1>5. "/login" \in AsksForNone
  BY DEF AsksForNone
<1>6. RequestsOK(e) /\ FormOK(e) /\ CacheOK(e)
  BY <1>2, <1>5 DEF DocumentOK, RequestsOK, FormOK, CacheOK, Settling
<1>7. GuardOK(e)
  BY <1>2, <1>5, FormRoutes DEF GuardOK
<1>8. QED
  BY <1>3, <1>4, <1>6, <1>7 DEF DocumentOK

\* A request is answered, whatever its form then shows.
LEMMA SettleSound ==
  ASSUME NEW d, DocumentOK(d), NEW r \in d.reqs, NEW f \in Forms,
         f.mode = "tenant-select" => f.token # 0
  PROVE  /\ DocumentOK(Settle(d, r, f)) /\ Settle(d, r, f).page = d.page
         /\ DocumentOK([d EXCEPT !.reqs = @ \ {r}])
<1>1. ASSUME NEW g \in Forms, g.mode = "tenant-select" => g.token # 0
      PROVE  LET e == [d EXCEPT !.reqs = @ \ {r}, !.form = g] IN DocumentOK(e) /\ e.page = d.page
  <2> DEFINE e == [d EXCEPT !.reqs = @ \ {r}, !.form = g]
  <2>1. d \in Documents
    BY DEF DocumentOK
  <2>2. /\ e.page = d.page /\ e.auth = d.auth /\ e.form = g /\ e.reqs = d.reqs \ {r}
        /\ e.cached = d.cached /\ e.leaving = d.leaving /\ e.overtaken = d.overtaken
    BY <2>1 DEF Documents
  <2>3. e \in Documents
    BY <2>1 DEF Documents
  <2> HIDE DEF e
  <2>4. DocumentOK(e)
    BY <1>1, <2>2, <2>3 DEF DocumentOK, RequestsOK, FormOK, CacheOK, GuardOK, Settling
  <2>5. QED
    BY <2>2, <2>4 DEF e
<1>2. d \in Documents /\ d.form \in Forms /\ (d.form.mode = "tenant-select" => d.form.token # 0)
  BY DocumentFields DEF DocumentOK, FormOK
<1>3. [d EXCEPT !.reqs = @ \ {r}] = [d EXCEPT !.reqs = @ \ {r}, !.form = d.form]
  BY <1>2 DEF Documents
<1>4. DocumentOK([d EXCEPT !.reqs = @ \ {r}])
  BY <1>1, <1>2, <1>3
<1>5. CASE r.mine
  <2>1. [f EXCEPT !.loading = FALSE] \in Forms
    BY DEF Forms
  <2>2. [f EXCEPT !.loading = FALSE].mode = f.mode /\ [f EXCEPT !.loading = FALSE].token = f.token
    BY DEF Forms
  <2>3. Settle(d, r, f) = [d EXCEPT !.reqs = @ \ {r}, !.form = [f EXCEPT !.loading = FALSE]]
    BY <1>5 DEF Settle
  <2>4. QED
    BY <1>1, <1>4, <2>1, <2>2, <2>3
<1>6. CASE ~ r.mine
  <2>1. Settle(d, r, f) = [d EXCEPT !.reqs = @ \ {r}, !.form = d.form]
    BY <1>6 DEF Settle
  <2>2. QED
    BY <1>1, <1>2, <1>4, <2>1
<1>7. QED
  BY <1>5, <1>6

\* A form begins a session: its own, or one it was left with.
LEMMA SetAuthSound ==
  ASSUME NEW d, DocumentOK(d), NEW c \in Someone, NEW m \in BOOLEAN,
         m => d.page \in AsksForNone
  PROVE  DocumentOK(SetAuth(d, c, m))
<1> DEFINE e == [d EXCEPT !.auth = c, !.homing = TRUE, !.overtaken = @ \/ ~m]
<1>1. d \in Documents /\ c \in Credentials /\ c.token # 0
  BY SessionAssumption DEF DocumentOK, Credentials, Someone
<1>2. /\ e.page = d.page /\ e.auth = c /\ e.form = d.form /\ e.reqs = d.reqs
      /\ e.cached = d.cached /\ e.leaving = d.leaving
      /\ e.overtaken <=> d.overtaken \/ ~m
  BY <1>1 DEF Documents
<1>3. e \in Documents
  BY <1>1 DEF Documents
<1>4. SetAuth(d, c, m) = e
  BY DEF SetAuth
<1> HIDE DEF e
<1>5. RequestsOK(e) /\ FormOK(e) /\ CacheOK(e)
  BY <1>2 DEF DocumentOK, RequestsOK, FormOK, CacheOK, Settling
<1>6. GuardOK(e)
  BY <1>1, <1>2 DEF GuardOK, SignedIn
<1>7. QED
  BY <1>3, <1>4, <1>5, <1>6 DEF DocumentOK

\* A request is sent, in the name of the session of the moment.
LEMMA SendSound ==
  ASSUME NEW d, DocumentOK(d), NEW r \in Requests, NEW f \in Forms,
         f.mode = "tenant-select" => f.token # 0,
         r.accepted => r.cred.token # 0,
         r.kind \in DataKinds => r.cred = d.auth /\ d.page \notin AsksForNone,
         r.mine => r.kind \in FormKinds /\ d.page \in AsksForNone
  PROVE  DocumentOK([d EXCEPT !.form = f, !.reqs = @ \cup {r}])
<1> DEFINE e == [d EXCEPT !.form = f, !.reqs = @ \cup {r}]
<1>1. d \in Documents /\ d.auth \in Credentials
  BY DocumentFields DEF DocumentOK
<1>2. /\ e.page = d.page /\ e.auth = d.auth /\ e.form = f /\ e.reqs = d.reqs \cup {r}
      /\ e.cached = d.cached /\ e.leaving = d.leaving /\ e.overtaken = d.overtaken
  BY <1>1 DEF Documents
<1>3. e \in Documents
  BY <1>1 DEF Documents
<1> HIDE DEF e
<1>4. DocumentOK(e)
  BY <1>1, <1>2, <1>3 DEF DocumentOK, RequestsOK, FormOK, CacheOK, GuardOK, Settling
<1>5. QED
  BY <1>4 DEF e

\* What the documents ask for, a form asks for none of.
LEMMA FormsAskNothing ==
  ASSUME NEW p \in AsksForNone
  PROVE  Asks(Shown(p)) \cap DataKinds = {}
<1>1. Shown(p) = p
  BY FormRoutes DEF Shown
<1>2. p \in {"/login", "/register"}
  BY DEF AsksForNone
<1>3. QED
  BY <1>1, <1>2 DEF Asks, DataKinds, CatalogPages, OwnDataPages, ActPages

LEMMA SessionStart == SessionInit => SessionInv
<1> SUFFICES ASSUME SessionInit PROVE SessionInv
  OBVIOUS
<1>1. storage \in Credentials /\ minted \in 0 .. MaxTokens /\ expired \subseteq 1 .. minted
  BY SessionAssumption DEF SessionInit, Credentials
<1>2. DocumentOK(doc)
  BY <1>1, HomeRoute, FreshSound DEF SessionInit
<1>3. QED
  BY <1>1, <1>2 DEF SessionInv

LEMMA SessionStep == SessionInv /\ [SessionNext]_sessionVars => SessionInv'
<1> SUFFICES ASSUME SessionInv, [SessionNext]_sessionVars PROVE SessionInv'
  OBVIOUS
<1> USE SessionAssumption
<1>0. /\ storage \in Credentials /\ minted \in 0 .. MaxTokens /\ expired \subseteq 1 .. minted
      /\ DocumentOK(doc)
  BY DEF SessionInv
<1>a. /\ doc \in Documents /\ doc.page \in Routes /\ doc.auth \in Credentials /\ doc.form \in Forms
      /\ doc.reqs \subseteq Requests /\ doc.leaving \in BOOLEAN
      /\ (doc.form.mode = "tenant-select" => doc.form.token # 0)
  BY <1>0, DocumentFields DEF DocumentOK, FormOK
\* A step of the document alone.
<1>b. ASSUME UNCHANGED <<storage, minted, expired>>, DocumentOK(doc')
      PROVE  SessionInv'
  BY <1>b, <1>0 DEF SessionInv
<1>1. CASE Navigate
  <2>1. PICK r \in Links(doc.page) \cap Pages :
             /\ ~doc.leaving
             /\ doc' = Goto(doc, Landing(r, SignedIn(doc.auth)))
             /\ UNCHANGED <<storage, minted, expired>>
    BY <1>1, Zenon DEF Navigate
  <2>2. CASE SignedIn(doc.auth)
    <3>1. SignedIn(doc.auth) = TRUE
      BY <2>2
    <3>2. doc' = Goto(doc, Landing(r, TRUE))
      BY <2>1, <3>1, Zenon
    <3>3. DocumentOK(doc')
      BY <1>0, <2>2, <3>2, LandingOK, GotoSound
    <3>4. QED
      BY <1>b, <2>1, <3>3
  <2>3. CASE ~ SignedIn(doc.auth)
    <3>1. SignedIn(doc.auth) = FALSE
      BY <2>3
    <3>2. doc' = Goto(doc, Landing(r, FALSE))
      BY <2>1, <3>1, Zenon
    <3>3. DocumentOK(doc')
      BY <1>0, <2>3, <3>2, LandingOK, GotoSound
    <3>4. QED
      BY <1>b, <2>1, <3>3
  <2>4. QED
    BY <2>2, <2>3
<1>2. CASE Load
  <2>1. PICK r \in Pages : /\ doc' = FreshDocument(Landing(r, FALSE))
                           /\ UNCHANGED <<storage, minted, expired>>
    BY <1>2, Zenon DEF Load
  <2>2. DocumentOK(doc')
    BY <1>0, <2>1, LandingOK, FreshSound
  <2>3. QED
    BY <1>b, <2>1, <2>2
<1>3. CASE Leave
  <2>1. "/login" \in Routes /\ ~ Guarded("/login")
    BY FormRoutes DEF AsksForNone
  <2>2. DocumentOK(doc')
    BY <1>0, <1>3, <2>1, FreshSound DEF Leave
  <2>3. QED
    BY <1>b, <1>3, <2>2 DEF Leave
<1>4. CASE GoHome
  <2> DEFINE d == Goto(doc, "/")
  <2>1. DocumentOK(d)
    BY <1>0, HomeRoute, GotoSound
  <2>2. doc' = [d EXCEPT !.homing = FALSE] /\ UNCHANGED <<storage, minted, expired>>
    BY <1>4 DEF GoHome
  <2> HIDE DEF d
  <2>3. d \in Documents
    BY <2>1 DEF DocumentOK
  <2>4. /\ doc'.page = d.page /\ doc'.auth = d.auth /\ doc'.form = d.form /\ doc'.reqs = d.reqs
        /\ doc'.cached = d.cached /\ doc'.leaving = d.leaving /\ doc'.overtaken = d.overtaken
        /\ doc' \in Documents
    BY <2>2, <2>3 DEF Documents
  <2>5. DocumentOK(doc')
    BY <2>1, <2>4 DEF DocumentOK, RequestsOK, FormOK, CacheOK, GuardOK, Settling
  <2>6. QED
    BY <1>b, <2>2, <2>5
<1>5. CASE Submit
  <2> DEFINE r == Request(doc.form.mode, doc.auth, TRUE)
             f == [doc.form EXCEPT !.loading = TRUE]
  <2>1. doc.form.mode \in {"login", "register"} /\ doc.page \in AsksForNone
    BY <1>5 DEF Submit, FormShown
  <2>2. /\ r \in Requests /\ r.kind = doc.form.mode /\ r.cred = doc.auth
        /\ r.accepted => r.cred.token # 0
    <3>1. doc.auth \in [token : 0 .. MaxTokens, tenant : Tenants \cup {"none"}]
      BY <1>a DEF Credentials, Someone, Nobody
    <3>2. Valid(doc.auth.token) \in BOOLEAN /\ (Valid(doc.auth.token) => doc.auth.token # 0)
      BY DEF Valid
    <3>3. QED
      BY <2>1, <3>1, <3>2 DEF Request, Requests
  <2>3. f \in Forms /\ f.mode # "tenant-select"
    BY <1>a, <2>1 DEF Forms
  <2>4. doc' = [doc EXCEPT !.form = f, !.reqs = @ \cup {r}] /\ UNCHANGED <<storage, minted, expired>>
    BY <1>5 DEF Submit, Request, Documents
  <2> HIDE DEF r, f
  <2>5. DocumentOK(doc')
    BY <1>0, <2>1, <2>2, <2>3, <2>4, SendSound DEF DataKinds, FormKinds
  <2>6. QED
    BY <1>b, <2>4, <2>5
<1>6. CASE ToggleMode
  <2>1. doc' \in Documents /\ doc'.form.mode # "tenant-select"
    BY <1>6, <1>a DEF ToggleMode, Documents, Forms, Modes
  <2>2. /\ doc'.page = doc.page /\ doc'.auth = doc.auth /\ doc'.reqs = doc.reqs
        /\ doc'.cached = doc.cached /\ doc'.leaving = doc.leaving /\ doc'.overtaken = doc.overtaken
    BY <1>6, <1>a DEF ToggleMode, Documents
  <2>3. DocumentOK(doc')
    BY <1>0, <2>1, <2>2 DEF DocumentOK, RequestsOK, FormOK, CacheOK, GuardOK, Settling
  <2>4. QED
    BY <1>b, <1>6, <2>3 DEF ToggleMode
<1>7. CASE SelectTenant
  <2>1. PICK x \in doc.form.offered :
             /\ storage' = [token |-> doc.form.token, tenant |-> x]
             /\ doc' = SetAuth(doc, storage', TRUE)
             /\ UNCHANGED <<minted, expired>>
    BY <1>7 DEF SelectTenant, SetAuth
  <2>2. storage' \in Someone
    BY <1>7, <1>a, <2>1 DEF SelectTenant, Someone, Forms
  <2>3. doc.page \in AsksForNone
    BY <1>7 DEF SelectTenant, FormShown
  <2>4. DocumentOK(doc')
    BY <1>0, <2>1, <2>2, <2>3, SetAuthSound
  <2>5. QED
    BY <1>0, <2>1, <2>2, <2>4 DEF SessionInv, Credentials
<1>8. ASSUME NEW r \in doc.reqs, RegisterAnswer(r)
      PROVE  SessionInv'
  <2>1. [doc.form EXCEPT !.mode = "login"] \in Forms /\ [doc.form EXCEPT !.mode = "login"].mode = "login"
    BY <1>a DEF Forms, Modes
  <2>2. DocumentOK(doc')
    BY <1>8, <1>0, <1>a, <2>1, SettleSound DEF RegisterAnswer
  <2>3. QED
    BY <1>b, <1>8, <2>2 DEF RegisterAnswer
<1>9. ASSUME NEW r \in doc.reqs, LoginAnswer(r)
      PROVE  SessionInv'
  <2>1. CASE /\ minted < MaxTokens
             /\ minted' = minted + 1
             /\ LET c == [token |-> minted', tenant |-> r.cred.tenant] IN
                doc' = [doc EXCEPT !.reqs = (@ \ {r}) \cup {Request("tenants", c, r.mine)}]
    <3> DEFINE c == [token |-> minted', tenant |-> r.cred.tenant]
               q == Request("tenants", c, r.mine)
               d == [doc EXCEPT !.reqs = @ \ {r}]
    <3>1. DocumentOK(d)
      BY <1>0, <1>a, SettleSound
    <3>2. /\ q \in Requests /\ q.kind = "tenants" /\ q.mine = r.mine /\ q.cred = c
          /\ q.accepted => q.cred.token # 0
      BY <1>0, <1>a, <2>1 DEF Request, Requests, Valid
    <3>3. d.page = doc.page /\ d.form = doc.form /\ d.reqs = doc.reqs \ {r}
      BY <1>a DEF Documents
    <3>4. r.mine => doc.page \in AsksForNone
      BY <1>0 DEF DocumentOK, RequestsOK
    <3>5. doc' = [d EXCEPT !.form = doc.form, !.reqs = @ \cup {q}]
      BY <1>a, <2>1 DEF Request, Documents
    <3> HIDE DEF d, q
    <3>6. DocumentOK(doc')
      BY <1>a, <3>1, <3>2, <3>3, <3>4, <3>5, SendSound DEF DataKinds, FormKinds
    <3>7. minted' \in 0 .. MaxTokens /\ expired' \subseteq 1 .. minted' /\ storage' = storage
      BY <1>0, <1>9, <2>1 DEF LoginAnswer
    <3>8. QED
      BY <1>0, <3>6, <3>7 DEF SessionInv
  <2>2. CASE doc' = Settle(doc, r, doc.form) /\ UNCHANGED minted
    <3>1. DocumentOK(doc')
      BY <1>0, <1>a, <2>2, SettleSound
    <3>2. QED
      BY <1>b, <1>9, <2>2, <3>1 DEF LoginAnswer
  <2>3. QED
    BY <1>9, <2>1, <2>2, Zenon DEF LoginAnswer
<1>10. ASSUME NEW r \in doc.reqs, TenantsAnswer(r)
       PROVE  SessionInv'
  <2>0. /\ r \in Requests /\ r.mine \in BOOLEAN /\ r.cred.token \in 0 .. MaxTokens
        /\ (r.accepted => r.cred.token # 0)
        /\ (r.mine => doc.page \in AsksForNone)
    BY <1>0, <1>a DEF DocumentOK, RequestsOK, Requests
  <2>1. DocumentOK(Settle(doc, r, doc.form)) /\ Settle(doc, r, doc.form).page = doc.page
    BY <1>0, <1>a, SettleSound
  <2>2. CASE UNCHANGED storage /\ doc' = Settle(doc, r, doc.form)
    BY <1>b, <1>10, <2>1, <2>2 DEF TenantsAnswer
  <2>3. CASE storage' = Nobody /\ doc' = Unauthorized(Settle(doc, r, doc.form))
    <3>1. DocumentOK(doc')
      BY <2>1, <2>3, UnauthorizedSound
    <3>2. QED
      BY <1>0, <1>10, <2>3, <3>1 DEF TenantsAnswer, SessionInv, Credentials
  <2>4. ASSUME NEW x \in Tenants, r.accepted,
               storage' = [token |-> r.cred.token, tenant |-> x],
               doc' = SetAuth(Settle(doc, r, doc.form), storage', r.mine)
        PROVE  SessionInv'
    <3>1. storage' \in Someone
      BY <2>0, <2>4 DEF Someone
    <3>2. DocumentOK(doc')
      BY <2>0, <2>1, <2>4, <3>1, SetAuthSound
    <3>3. QED
      BY <1>0, <1>10, <3>1, <3>2 DEF TenantsAnswer, SessionInv, Credentials
  <2>5. ASSUME NEW ts \in SUBSET Tenants, r.accepted, UNCHANGED storage,
               doc' = Settle(doc, r, [doc.form EXCEPT !.mode = "tenant-select",
                                                      !.token = r.cred.token,
                                                      !.offered = ts])
        PROVE  SessionInv'
    <3> DEFINE f == [doc.form EXCEPT !.mode = "tenant-select", !.token = r.cred.token,
                                     !.offered = ts]
    <3>1. f \in Forms /\ f.token = r.cred.token
      BY <1>a, <2>0 DEF Forms, Modes
    <3> HIDE DEF f
    <3>2. DocumentOK(Settle(doc, r, f))
      BY <1>0, <2>0, <2>5, <3>1, SettleSound
    <3>3. DocumentOK(doc')
      BY <2>5, <3>2 DEF f
    <3>4. QED
      BY <1>b, <1>10, <2>5, <3>3 DEF TenantsAnswer
  <2>6. QED
    BY <1>10, <2>2, <2>3, <2>4, <2>5, Zenon DEF TenantsAnswer
<1>11. CASE AskData
  <2>1. PICK kind \in Asks(Shown(doc.page)) :
             /\ ~doc.leaving
             /\ doc' = [doc EXCEPT !.reqs = @ \cup {Request(kind, doc.auth, FALSE)}]
             /\ UNCHANGED <<storage, minted, expired>>
    BY <1>11 DEF AskData, Request
  <2> DEFINE r == Request(kind, doc.auth, FALSE)
  <2>2. kind \in {"catalog", "query", "act"}
    BY DEF Asks
  <2>3. /\ r \in Requests /\ r.kind = kind /\ r.cred = doc.auth /\ ~ r.mine
        /\ r.accepted => r.cred.token # 0
    <3>1. doc.auth \in [token : 0 .. MaxTokens, tenant : Tenants \cup {"none"}]
      BY <1>a DEF Credentials, Someone, Nobody
    <3>2. Valid(doc.auth.token) \in BOOLEAN /\ (Valid(doc.auth.token) => doc.auth.token # 0)
      BY DEF Valid
    <3>3. QED
      BY <2>2, <3>1, <3>2 DEF Request, Requests
  <2>4. r.kind \in DataKinds => doc.page \notin AsksForNone
    BY <2>3, FormsAskNothing
  <2>5. doc' = [doc EXCEPT !.form = doc.form, !.reqs = @ \cup {r}]
    BY <1>a, <2>1 DEF Request, Documents
  <2> HIDE DEF r
  <2>6. DocumentOK(doc')
    BY <1>0, <1>a, <2>3, <2>4, <2>5, SendSound
  <2>7. QED
    BY <1>b, <2>1, <2>6
<1>12. ASSUME NEW r \in doc.reqs, Answer(r)
       PROVE  SessionInv'
  <2> DEFINE d == [doc EXCEPT !.reqs = @ \ {r}]
  <2>1. DocumentOK(d)
    BY <1>0, <1>a, SettleSound
  <2>2. /\ d.page = doc.page /\ d.auth = doc.auth /\ d.form = doc.form /\ d.reqs = doc.reqs \ {r}
        /\ d.cached = doc.cached /\ d.leaving = doc.leaving /\ d.overtaken = doc.overtaken
        /\ d \in Documents
    BY <1>a DEF Documents
  <2>3. CASE UNCHANGED storage /\ doc' = d
    BY <1>b, <1>12, <2>1, <2>3 DEF Answer
  <2>4. CASE storage' = Nobody /\ doc' = Unauthorized(d)
    <3> HIDE DEF d
    <3>1. DocumentOK(doc')
      BY <2>1, <2>4, UnauthorizedSound
    <3>2. QED
      BY <1>0, <1>12, <2>4, <3>1 DEF Answer, SessionInv, Credentials
  <2>5. CASE /\ IF r.kind = "catalog" THEN r.cred.tenant # "none" ELSE r.accepted
             /\ UNCHANGED storage
             /\ doc' = [d EXCEPT !.cached = IF r.kind = "act" THEN @ ELSE @ \cup {r.cred}]
    <3>1. CASE r.kind = "act"
      <4>1. doc' = d
        BY <2>2, <2>5, <3>1 DEF Documents
      <4>2. QED
        BY <2>3, <2>5, <4>1
    <3>2. CASE r.kind \in DataKinds
      <4> HIDE DEF d
      <4>1. r.cred \in Credentials /\ (Settling(doc) \/ r.cred \in {doc.auth, Nobody})
        BY <1>0, <3>2 DEF DocumentOK, RequestsOK
      <4>2. r.cred # Nobody
        BY <1>0, <2>5, <3>2 DEF DocumentOK, RequestsOK, Nobody
      <4>3. doc' = [d EXCEPT !.cached = @ \cup {r.cred}]
        BY <2>5, <3>2 DEF DataKinds
      <4>4. /\ doc'.page = d.page /\ doc'.auth = d.auth /\ doc'.form = d.form
            /\ doc'.reqs = d.reqs /\ doc'.cached = d.cached \cup {r.cred}
            /\ doc'.leaving = d.leaving /\ doc'.overtaken = d.overtaken
            /\ doc' \in Documents
        BY <2>2, <4>1, <4>3 DEF Documents
      <4>5. doc.page \in AsksForNone => Settling(doc)
        BY <1>0, <3>2, <4>2 DEF DocumentOK, FormOK
      <4>6. DocumentOK(doc')
        BY <2>1, <2>2, <4>1, <4>2, <4>4, <4>5
           DEF DocumentOK, RequestsOK, FormOK, CacheOK, GuardOK, Settling
      <4>7. QED
        BY <1>b, <1>12, <2>5, <4>6 DEF Answer
    <3>3. QED
      BY <1>12, <3>1, <3>2 DEF Answer, DataKinds
  <2>6. QED
    BY <1>12, <2>3, <2>4, <2>5, Zenon DEF Answer
<1>13. CASE Expire
  BY <1>13, <1>0 DEF Expire, SessionInv
<1>14. CASE OtherTab
  <2>1. CASE /\ minted < MaxTokens
             /\ minted' = minted + 1
             /\ \E x \in Tenants : storage' = [token |-> minted', tenant |-> x]
    <3>1. minted' \in 1 .. MaxTokens /\ expired' \subseteq 1 .. minted' /\ doc' = doc
      BY <1>0, <1>14, <2>1 DEF OtherTab
    <3>2. storage' \in Someone
      BY <2>1, <3>1 DEF Someone
    <3>3. QED
      BY <1>0, <3>1, <3>2 DEF SessionInv, Credentials
  <2>2. CASE storage' = Nobody /\ UNCHANGED minted
    BY <1>0, <1>14, <2>2 DEF OtherTab, SessionInv, Credentials
  <2>3. QED
    BY <1>14, <2>1, <2>2 DEF OtherTab
<1>15. CASE UNCHANGED sessionVars
  BY <1>0, <1>15 DEF sessionVars, SessionInv
<1>16. QED
  BY <1>1, <1>2, <1>3, <1>4, <1>5, <1>6, <1>7, <1>8, <1>9, <1>10, <1>11, <1>12, <1>13, <1>14,
     <1>15, Zenon DEF SessionNext, FormAnswer

\* What a document keeps was answered to the session it shows, and a page behind
\* a guard is shown to somebody, until the document is left.
LEMMA SessionGoal ==
  SessionInv => SessionTypeOK /\ OneSessionPerDocument /\ GuardedPagesHaveSession
BY DEF SessionInv, DocumentOK, CacheOK, GuardOK, Settling, SessionTypeOK, OneSessionPerDocument,
       GuardedPagesHaveSession

\* A document never shows what was answered in the name of one session beside what was
\* answered in the name of another, and a page that needs a session shows nothing
\* without one: whatever tabs, answers and expiries come between.
THEOREM SessionSafe ==
  SessionSpec => [](SessionTypeOK /\ OneSessionPerDocument /\ GuardedPagesHaveSession)
BY SessionStart, SessionStep, SessionGoal, PTL DEF SessionSpec

-----------------------------------------------------------------------------
(* The conversation with the agent. *)

\* Sets of prompts are finite, and are counted.
LEMMA PromptSets ==
  ASSUME NEW S \in SUBSET Prompt, NEW T \in SUBSET Prompt, NEW n \in Prompt
  PROVE  /\ Cardinality(S) \in Nat /\ Cardinality(T) \in Nat
         /\ S \subseteq T => Cardinality(S) <= Cardinality(T)
         /\ S \subseteq T \cup {n} => Cardinality(S) <= Cardinality(T) + 1
         /\ n \in T /\ S \subseteq T \ {n} => Cardinality(S) + 1 <= Cardinality(T)
<1>1. IsFiniteSet(Prompt)
  BY FS_Interval, AssistantAssumption DEF Prompt
<1>2. IsFiniteSet(S) /\ IsFiniteSet(T)
  BY <1>1, FS_Subset
<1>3. Cardinality(S) \in Nat /\ Cardinality(T) \in Nat
  BY <1>2, FS_CardinalityType
<1>4. S \subseteq T => Cardinality(S) <= Cardinality(T)
  BY <1>2, FS_Subset
<1>5. S \subseteq T \cup {n} => Cardinality(S) <= Cardinality(T) + 1
  <2>1. /\ IsFiniteSet(T \cup {n})
        /\ Cardinality(T \cup {n}) = IF n \in T THEN Cardinality(T) ELSE Cardinality(T) + 1
    BY <1>2, FS_AddElement
  <2>2. S \subseteq T \cup {n} => Cardinality(S) <= Cardinality(T \cup {n})
    BY <2>1, FS_Subset
  <2>3. QED
    BY <1>3, <2>1, <2>2
<1>6. n \in T /\ S \subseteq T \ {n} => Cardinality(S) + 1 <= Cardinality(T)
  <2>1. /\ IsFiniteSet(T \ {n})
        /\ Cardinality(T \ {n}) = IF n \in T THEN Cardinality(T) - 1 ELSE Cardinality(T)
    BY <1>2, FS_RemoveElement
  <2>2. S \subseteq T \ {n} => Cardinality(S) <= Cardinality(T \ {n})
    BY <2>1, FS_Subset
  <2>3. QED
    BY <1>3, <2>1, <2>2
<1>7. QED
  BY <1>3, <1>4, <1>5, <1>6

LEMMA AssistantStart == AssistantInit => AssistantInv
<1> SUFFICES ASSUME AssistantInit PROVE AssistantInv
  OBVIOUS
<1> USE AssistantAssumption
<1>1. /\ aiPage.shown = FALSE /\ aiPage.messages = <<>> /\ aiPage.session = 0
      /\ aiPage.watched = 0 /\ aiPage.sent = 0 /\ aiPage.overlapped = FALSE
      /\ aiPage.confirmed = [n \in Prompt |-> 0]
      /\ chats = {} /\ adds = {} /\ sessions = 0 /\ inCart = {}
  BY DEF AssistantInit, FreshPage
<1>2. Spoken = {} /\ Sessionless = {}
  BY <1>1 DEF Spoken, Sessionless
<1>3. AssistantTypeOK /\ aiPage \in AiPages
  BY <1>1 DEF AssistantTypeOK, AiPages, AssistantInit, FreshPage
<1>4. ChatsOK
  BY <1>1, <1>2, <1>3, FS_EmptySet DEF ChatsOK
<1>5. SessionOK /\ CardsOK /\ AddsOK /\ OneConversation /\ AskedOnce
  BY <1>1, <1>2 DEF SessionOK, CardsOK, AddsOK, OneConversation, AskedOnce
<1>6. QED
  BY <1>3, <1>4, <1>5 DEF AssistantInv

\* The page is left: all its chats are another page's.
LEMMA VisitStep == AssistantInv /\ Visit => AssistantInv'
<1> SUFFICES ASSUME AssistantInv, Visit PROVE AssistantInv'
  OBVIOUS
<1> USE AssistantAssumption DEF AssistantInv
<1>1. /\ aiPage'.shown \in BOOLEAN /\ aiPage'.messages = <<>> /\ aiPage'.session = 0
      /\ aiPage'.watched = 0 /\ aiPage'.sent = aiPage.sent /\ aiPage'.overlapped = FALSE
      /\ aiPage'.confirmed = [n \in Prompt |-> 0] /\ aiPage' \in AiPages
      /\ adds' = adds /\ sessions' = sessions /\ inCart' = inCart
  <2> DEFINE x == ~aiPage.shown
  <2>1. x \in BOOLEAN /\ aiPage.sent \in 0 .. MaxPrompts
    BY DEF ChatsOK, AiPages
  <2>2. /\ aiPage' = [FreshPage(aiPage.sent) EXCEPT !.shown = x]
        /\ adds' = adds /\ sessions' = sessions /\ inCart' = inCart
    BY DEF Visit
  <2> HIDE DEF x
  <2>3. <<>> \in Seq(Messages) /\ [n \in Prompt |-> 0] \in [Prompt -> Nat]
    OBVIOUS
  <2>4. aiPage' = [shown |-> x, messages |-> <<>>, session |-> 0, watched |-> 0,
                   sent |-> aiPage.sent, overlapped |-> FALSE,
                   confirmed |-> [n \in Prompt |-> 0]]
    BY <2>2 DEF FreshPage
  <2> HIDE DEF AssistantInv
  <2>5. aiPage' \in AiPages
    BY <2>1, <2>3, <2>4 DEF AiPages
  <2>6. QED
    BY <2>1, <2>2, <2>4, <2>5
<1>2. chats \subseteq Chats /\ chats' = {[c EXCEPT !.own = FALSE] : c \in chats}
  BY DEF ChatsOK, Visit
<1>3. \A d \in chats' : \E c \in chats : /\ d = [c EXCEPT !.own = FALSE] /\ c \in Chats
                                         /\ d \in Chats /\ ~ d.own /\ d.of = c.of
                                         /\ d.state = c.state /\ d.session = c.session
  BY <1>2 DEF Chats
<1>4. Spoken' = {}
  BY <1>1 DEF Spoken
<1>5. Sessionless' \subseteq Sessionless
  BY <1>3 DEF Sessionless
<1>6. Cardinality(Sessionless') <= Cardinality(Sessionless) /\ Cardinality(Sessionless') \in Nat
      /\ Cardinality(Sessionless) \in Nat
  <2>1. CASE Prompt = {}
    BY <2>1, <1>5, FS_EmptySet DEF Sessionless
  <2>2. CASE Prompt # {}
    <3>1. PICK n \in Prompt : TRUE
      BY <2>2
    <3>2. Sessionless \in SUBSET Prompt /\ Sessionless' \in SUBSET Prompt
      BY <1>5 DEF Sessionless
    <3>3. QED
      BY <1>5, <3>2, PromptSets
  <2>3. QED
    BY <2>1, <2>2
<1>7. ChatsOK'
  <2>1. chats' \subseteq Chats /\ sessions' \in Nat
    BY <1>1, <1>3 DEF ChatsOK
  <2>2. \A d \in chats' : /\ d.of <= aiPage'.sent /\ d.session <= sessions'
                          /\ d.state = "done" => d.session # 0
    BY <1>1, <1>3 DEF ChatsOK
  <2>3. ASSUME NEW d \in chats', NEW e \in chats', d.of = e.of
        PROVE  d = e
    <3>1. PICK c \in chats : d = [c EXCEPT !.own = FALSE] /\ d.of = c.of
      BY <1>3
    <3>2. PICK f \in chats : e = [f EXCEPT !.own = FALSE] /\ e.of = f.of
      BY <1>3
    <3>3. QED
      BY <2>3, <3>1, <3>2 DEF ChatsOK
  <2>4. sessions' + Cardinality(Sessionless') <= aiPage'.sent
    BY <1>1, <1>6 DEF ChatsOK, AiPages
  <2>5. QED
    BY <1>1, <2>1, <2>2, <2>3, <2>4 DEF ChatsOK
<1>8. SessionOK' /\ CardsOK'
  BY <1>1, <1>3, <1>4 DEF SessionOK, CardsOK
<1>9. AssistantTypeOK' /\ AddsOK' /\ OneConversation' /\ AskedOnce'
  BY <1>1, <1>4 DEF AssistantTypeOK, AddsOK, OneConversation, AskedOnce, ChatsOK
<1>10. QED
  BY <1>7, <1>8, <1>9

\* What the provers are told of the page and its chats.
LEMMA AssistantFacts ==
  ASSUME AssistantInv
  PROVE  /\ aiPage \in AiPages /\ aiPage.messages \in Seq(Messages) /\ aiPage.sent \in 0 .. MaxPrompts
         /\ aiPage.session \in 0 .. MaxPrompts /\ aiPage.session <= sessions
         /\ aiPage.confirmed \in [Prompt -> Nat] /\ aiPage.overlapped \in BOOLEAN
         /\ chats \subseteq Chats /\ sessions \in Nat /\ sessions <= MaxPrompts
         /\ inCart \subseteq Prompt
         /\ Sessionless \subseteq Prompt /\ DOMAIN aiPage.messages = 1 .. Len(aiPage.messages)
         /\ Len(aiPage.messages) \in Nat
BY AssistantAssumption
   DEF AssistantInv, ChatsOK, AiPages, AssistantTypeOK, Sessionless

\* A chat that ended, the page as it is.
LEMMA ChatEnds ==
  ASSUME AssistantInv, NEW c \in chats, chats' = chats \ {c},
         UNCHANGED <<aiPage, adds, sessions, inCart>>
  PROVE  AssistantInv'
<1> USE DEF AssistantInv
<1>1. Sessionless' \subseteq Sessionless /\ Spoken' = Spoken
  BY DEF Sessionless, Spoken
<1>2. Cardinality(Sessionless') <= Cardinality(Sessionless) /\ Cardinality(Sessionless') \in Nat
      /\ Cardinality(Sessionless) \in Nat
  BY <1>1, AssistantFacts, PromptSets DEF Chats
<1>3. ChatsOK'
  BY <1>2, AssistantFacts DEF ChatsOK
<1>4. SessionOK' /\ CardsOK' /\ AddsOK'
  BY <1>1 DEF SessionOK, CardsOK, AddsOK
<1>5. AssistantTypeOK' /\ OneConversation' /\ AskedOnce'
  BY <1>1 DEF AssistantTypeOK, OneConversation, AskedOnce
<1>6. QED
  BY <1>3, <1>4, <1>5

LEMMA RunTurnStep ==
  ASSUME AssistantInv, NEW c \in chats, RunTurn(c)
  PROVE  AssistantInv'
<1> USE AssistantAssumption DEF AssistantInv
<1>0. /\ c \in Chats /\ c.of \in Prompt /\ c.session \in 0 .. MaxPrompts /\ c.state = "sent"
      /\ c.of <= aiPage.sent /\ c.session <= sessions
      /\ UNCHANGED <<aiPage, adds, inCart>>
  BY DEF ChatsOK, Chats, RunTurn
<1>1. /\ Cardinality(Sessionless) \in Nat /\ Sessionless \subseteq Prompt
      /\ sessions + Cardinality(Sessionless) <= aiPage.sent
  BY <1>0, AssistantFacts, PromptSets DEF ChatsOK
<1>2. Spoken' = Spoken
  BY <1>0 DEF Spoken
<1>3. ASSUME NEW d \in Chats, chats' = (chats \ {c}) \cup {d}, d.of = c.of, d.own = c.own,
             d.state \in {"done", "refused"}, d.state = "done" => d.session # 0,
             d.session <= sessions', c.session # 0 => d.session = c.session,
             sessions' = sessions \/ (sessions' = sessions + 1 /\ c.session = 0)
      PROVE  AssistantInv'
  <2>1. Sessionless' \subseteq Sessionless \ {c.of}
    BY <1>3 DEF Sessionless, ChatsOK
  <2>2. c.session = 0 => c.of \in Sessionless
    BY <1>0 DEF Sessionless
  <2>3. Cardinality(Sessionless') \in Nat /\ sessions' + Cardinality(Sessionless') <= aiPage.sent
    <3>1. Cardinality(Sessionless') \in Nat /\ Cardinality(Sessionless') <= Cardinality(Sessionless)
      BY <1>0, <1>1, <2>1, PromptSets
    <3>2. c.session = 0 => Cardinality(Sessionless') + 1 <= Cardinality(Sessionless)
      BY <1>0, <1>1, <2>1, <2>2, PromptSets
    <3>3. QED
      BY <1>0, <1>1, <1>3, <3>1, <3>2, AssistantFacts
  <2>4. sessions' \in Nat /\ sessions' <= MaxPrompts /\ sessions <= sessions'
    BY <1>3, <2>3, AssistantFacts
  <2>5. ChatsOK'
    <3>1. chats' \subseteq Chats /\ aiPage' \in AiPages
      BY <1>0, <1>3 DEF ChatsOK
    <3>2. \A e \in chats' : /\ e.of <= aiPage'.sent /\ e.session <= sessions'
                            /\ e.state = "done" => e.session # 0
      <4>1. ASSUME NEW e \in chats PROVE e.session <= sessions'
        BY <2>4, AssistantFacts DEF ChatsOK, Chats
      <4>2. QED
        BY <1>0, <1>3, <4>1 DEF ChatsOK
    <3>3. \A e, f \in chats' : e.of = f.of => e = f
      BY <1>3 DEF ChatsOK
    <3>4. sessions' + Cardinality(Sessionless') <= aiPage'.sent /\ aiPage'.session <= sessions'
      BY <1>0, <2>3, <2>4, AssistantFacts
    <3>5. QED
      BY <2>4, <3>1, <3>2, <3>3, <3>4 DEF ChatsOK
  <2>6. SessionOK'
    BY <1>0, <1>2, <1>3 DEF SessionOK
  <2>7. CardsOK'
    BY <1>0, <1>2, <1>3 DEF CardsOK
  <2>8. AssistantTypeOK'
    BY <1>0, <2>4, AssistantFacts DEF AssistantTypeOK
  <2>9. AddsOK' /\ OneConversation' /\ AskedOnce'
    BY <1>0, <1>2 DEF AddsOK, OneConversation, AskedOnce
  <2>10. QED
    BY <2>5, <2>6, <2>7, <2>8, <2>9
<1>4. CASE /\ sessions' = IF c.session = 0 THEN sessions + 1 ELSE sessions
           /\ chats' = (chats \ {c}) \cup
                {[c EXCEPT !.state = "done", !.session = IF @ = 0 THEN sessions' ELSE @]}
  <2> DEFINE d == [c EXCEPT !.state = "done", !.session = IF @ = 0 THEN sessions' ELSE @]
  <2>1. sessions' \in 0 .. MaxPrompts /\ sessions <= sessions' /\ (c.session = 0 => sessions' # 0)
    <3>1. c.session = 0 => c.of \in Sessionless
      BY <1>0 DEF Sessionless
    <3>2. c.session = 0 => 1 <= Cardinality(Sessionless)
      <4>1. c.of \in Sessionless => Cardinality({}) + 1 <= Cardinality(Sessionless)
        BY <1>0, <1>1, PromptSets
      <4>2. QED
        BY <3>1, <4>1, FS_EmptySet
    <3>3. QED
      BY <1>1, <1>4, <3>2, AssistantFacts
  <2>2. /\ d \in Chats /\ d.of = c.of /\ d.own = c.own /\ d.state = "done"
        /\ d.session = IF c.session = 0 THEN sessions' ELSE c.session
    BY <1>0, <2>1 DEF Chats
  <2> HIDE DEF d
  <2>3. d.session # 0 /\ d.session <= sessions' /\ (c.session # 0 => d.session = c.session)
    BY <1>0, <2>1, <2>2, AssistantFacts
  <2>4. chats' = (chats \ {c}) \cup {d}
    BY <1>4 DEF d
  <2>5. QED
    BY <1>3, <1>4, <2>2, <2>3, <2>4
<1>5. CASE chats' = (chats \ {c}) \cup {[c EXCEPT !.state = "refused"]} /\ UNCHANGED sessions
  <2> DEFINE d == [c EXCEPT !.state = "refused"]
  <2>1. /\ d \in Chats /\ d.of = c.of /\ d.own = c.own /\ d.state = "refused"
        /\ d.session = c.session
    BY <1>0 DEF Chats
  <2> HIDE DEF d
  <2>2. chats' = (chats \ {c}) \cup {d}
    BY <1>5 DEF d
  <2>3. QED
    BY <1>0, <1>3, <1>5, <2>1, <2>2
<1>6. QED
  BY <1>4, <1>5 DEF RunTurn

\* A message shown is a message.
LEMMA ShownMessage ==
  ASSUME AssistantInv, NEW i \in DOMAIN aiPage.messages
  PROVE  /\ aiPage.messages[i] \in Messages
         /\ aiPage.messages[i].of \in Prompt /\ aiPage.messages[i].of \in Nat
         /\ aiPage.messages[i].card \in CardStates
<1>1. aiPage.messages[i] \in Messages
  BY AssistantFacts
<1>2. QED
  BY <1>1, AssistantAssumption DEF Messages, Prompt

\* A message is shown below the others.
LEMMA Below1 ==
  ASSUME AssistantInv, NEW m \in Messages, aiPage'.messages = Append(aiPage.messages, m)
  PROVE  LET n == Len(aiPage.messages) + 1 IN
         /\ aiPage'.messages \in Seq(Messages) /\ DOMAIN aiPage'.messages = 1 .. n
         /\ n \notin DOMAIN aiPage.messages
         /\ aiPage'.messages[n] = m
         /\ \A i \in DOMAIN aiPage.messages :
               i \in DOMAIN aiPage'.messages /\ aiPage'.messages[i] = aiPage.messages[i]
         /\ DOMAIN aiPage'.messages = DOMAIN aiPage.messages \cup {n}
         /\ Spoken' = IF m.role = "ai" THEN Spoken \cup {n} ELSE Spoken
         /\ \A i \in Spoken : i \in DOMAIN aiPage.messages /\ aiPage'.messages[i] = aiPage.messages[i]
<1> DEFINE n == Len(aiPage.messages) + 1
<1>1. /\ aiPage.messages \in Seq(Messages) /\ Len(aiPage.messages) \in Nat
      /\ DOMAIN aiPage.messages = 1 .. Len(aiPage.messages)
  BY AssistantFacts
<1>2. /\ aiPage'.messages \in Seq(Messages) /\ DOMAIN aiPage'.messages = 1 .. n
      /\ aiPage'.messages[n] = m
      /\ \A i \in DOMAIN aiPage.messages : aiPage'.messages[i] = aiPage.messages[i]
  BY <1>1
<1>3. n \notin DOMAIN aiPage.messages /\ 1 .. n = DOMAIN aiPage.messages \cup {n}
  BY <1>1
<1> HIDE DEF n
<1>4. Spoken' = IF m.role = "ai" THEN Spoken \cup {n} ELSE Spoken
  BY <1>2, <1>3 DEF Spoken
<1>5. QED
  BY <1>2, <1>3, <1>4 DEF n, Spoken

LEMMA SayStep == AssistantInv /\ Say => AssistantInv'
<1> SUFFICES ASSUME AssistantInv, Say PROVE AssistantInv'
  OBVIOUS
<1> USE AssistantAssumption
<1> DEFINE n == aiPage.sent + 1
           m == [role |-> "user", of |-> n, session |-> 0, card |-> "none"]
           c == [of |-> n, session |-> aiPage.session, state |-> "sent", own |-> TRUE]
           o == aiPage.overlapped \/ \E e \in chats : e.own /\ aiPage.session = 0
           k == Len(aiPage.messages) + 1
<1>1. /\ n \in Prompt
      /\ aiPage' = [aiPage EXCEPT !.messages = Append(@, m), !.watched = n, !.sent = n,
                                  !.overlapped = o]
      /\ chats' = chats \cup {c} /\ UNCHANGED <<adds, sessions, inCart>>
  BY DEF Say
<1>2. aiPage \in AiPages /\ o \in BOOLEAN /\ n \in 0 .. MaxPrompts
  BY <1>1, AssistantFacts DEF Prompt
<1>3. m \in Messages /\ m.role = "user" /\ m.card = "none"
  BY <1>1 DEF Messages, CardStates
<1>4. /\ c \in Chats /\ c.of = n /\ c.own /\ c.session = aiPage.session /\ c.state = "sent"
  BY <1>1, AssistantFacts DEF Chats
<1>5. \A e \in chats : e.of # n /\ e.of <= n
  BY AssistantFacts DEF AssistantInv, ChatsOK, Chats, Prompt
<1>6. o => aiPage.overlapped \/ \E e \in chats : e.own /\ aiPage.session = 0
  OBVIOUS
<1>7. ~ o => ~ aiPage.overlapped /\ (aiPage.session = 0 => \A e \in chats : ~ e.own)
  OBVIOUS
<1> HIDE DEF m, c, o
<1>8. /\ aiPage'.messages = Append(aiPage.messages, m) /\ aiPage'.sent = n
      /\ aiPage'.session = aiPage.session /\ aiPage'.overlapped = o
      /\ aiPage'.confirmed = aiPage.confirmed
  BY <1>1, <1>2 DEF AiPages
<1>9. /\ aiPage'.messages \in Seq(Messages)
      /\ DOMAIN aiPage'.messages = DOMAIN aiPage.messages \cup {k}
      /\ aiPage'.messages[k] = m /\ Spoken' = Spoken /\ k \notin DOMAIN aiPage.messages
      /\ \A i \in DOMAIN aiPage.messages : aiPage'.messages[i] = aiPage.messages[i]
      /\ \A i \in Spoken : i \in DOMAIN aiPage.messages /\ aiPage'.messages[i] = aiPage.messages[i]
  BY <1>3, <1>8, Below1
<1> HIDE DEF k
<1>10. aiPage' \in AiPages
  BY <1>1, <1>2, <1>8, <1>9 DEF AiPages
<1>11. ChatsOK'
  <2>1. Sessionless' \subseteq Sessionless \cup {n}
    BY <1>1, <1>4 DEF Sessionless
  <2>2. /\ Cardinality(Sessionless') \in Nat /\ Cardinality(Sessionless) \in Nat
        /\ Cardinality(Sessionless') <= Cardinality(Sessionless) + 1
    BY <1>1, <2>1, AssistantFacts, PromptSets
  <2>3. sessions' + Cardinality(Sessionless') <= aiPage'.sent
    BY <1>1, <1>8, <2>2, AssistantFacts DEF AssistantInv, ChatsOK
  <2>4. \A e \in chats' : /\ e.of <= aiPage'.sent /\ e.session <= sessions'
                          /\ e.state = "done" => e.session # 0
    BY <1>1, <1>2, <1>4, <1>5, <1>8, AssistantFacts DEF AssistantInv, ChatsOK
  <2>5. \A e, f \in chats' : e.of = f.of => e = f
    BY <1>1, <1>4, <1>5 DEF AssistantInv, ChatsOK
  <2>6. QED
    BY <1>1, <1>4, <1>8, <1>10, <2>3, <2>4, <2>5 DEF AssistantInv, ChatsOK
<1>12. SessionOK'
  BY <1>1, <1>4, <1>7, <1>8, <1>9 DEF AssistantInv, SessionOK
<1>13. CardsOK'
  <2>1. \A i \in DOMAIN aiPage'.messages \ Spoken' : aiPage'.messages[i].card = "none"
    BY <1>3, <1>9 DEF AssistantInv, CardsOK
  <2>2. \A i \in Spoken : aiPage.messages[i].of # n
    <3>1. ASSUME NEW i \in Spoken
          PROVE  aiPage.messages[i].of \in Nat /\ aiPage.messages[i].of <= aiPage.sent
      BY <1>9, ShownMessage DEF AssistantInv, CardsOK
    <3>2. QED
      BY <3>1, AssistantFacts
  <2>3. /\ \A i, j \in Spoken' : aiPage'.messages[i].of = aiPage'.messages[j].of => i = j
        /\ \A i \in Spoken' : aiPage'.messages[i].of = aiPage.messages[i].of
    BY <1>9 DEF AssistantInv, CardsOK
  <2>4. ASSUME NEW i \in Spoken' PROVE aiPage'.messages[i].of <= aiPage'.sent
    <3>1. aiPage.messages[i].of \in Nat /\ aiPage.messages[i].of <= aiPage.sent
      BY <1>9, ShownMessage DEF AssistantInv, CardsOK
    <3>2. aiPage'.messages[i].of = aiPage.messages[i].of
      BY <2>3
    <3>3. aiPage'.sent = aiPage.sent + 1 /\ aiPage.sent \in Nat
      BY <1>8, AssistantFacts
    <3>4. QED
      BY <3>1, <3>2, <3>3
  <2>5. \A e \in chats', i \in Spoken' : e.own => aiPage'.messages[i].of # e.of
    BY <1>1, <1>4, <1>9, <2>2, <2>3 DEF AssistantInv, CardsOK
  <2>6. \A p \in Prompt : aiPage'.confirmed[p] = 0 \/ \E i \in Spoken' : aiPage'.messages[i].of = p
    BY <1>8, <1>9 DEF AssistantInv, CardsOK
  <2>7. QED
    BY <2>1, <2>3, <2>4, <2>5, <2>6 DEF CardsOK
<1>14. AssistantTypeOK' /\ AddsOK'
  BY <1>1, <1>8, <1>9, AssistantFacts DEF AssistantInv, AssistantTypeOK, AddsOK
<1>15. OneConversation'
  BY <1>7, <1>8, <1>9 DEF AssistantInv, OneConversation
<1>16. AskedOnce'
  BY <1>8, <1>9 DEF AssistantInv, AskedOnce
<1>17. QED
  BY <1>11, <1>12, <1>13, <1>14, <1>15, <1>16 DEF AssistantInv

LEMMA RepliedStep ==
  ASSUME AssistantInv, NEW c \in chats, Replied(c)
  PROVE  AssistantInv'
<1> USE AssistantAssumption
<1>0. /\ c \in Chats /\ c.of \in Prompt /\ c.session \in 1 .. MaxPrompts /\ c.state = "done"
      /\ c.of <= aiPage.sent /\ c.session <= sessions /\ c.session # 0
      /\ chats' = chats \ {c} /\ UNCHANGED <<adds, sessions, inCart>>
  BY DEF AssistantInv, ChatsOK, Chats, Replied
<1>1. CASE ~ c.own
  <2>1. aiPage' = aiPage
    BY <1>1 DEF Replied
  <2>2. QED
    BY <1>0, <2>1, ChatEnds
<1>2. CASE c.own
  <2>1. PICK card \in {"none", "pending"} :
             aiPage' = [aiPage EXCEPT
                            !.session = c.session,
                            !.messages = Append(@, [role |-> "ai", of |-> c.of,
                                                    session |-> c.session, card |-> card])]
    BY <1>2 DEF Replied
  <2> DEFINE m == [role |-> "ai", of |-> c.of, session |-> c.session, card |-> card]
             k == Len(aiPage.messages) + 1
  <2>2. /\ m \in Messages /\ m.role = "ai" /\ m.of = c.of /\ m.session = c.session
        /\ m.card # "done"
    BY <1>0 DEF Messages, CardStates, Prompt
  <2>3. aiPage' = [aiPage EXCEPT !.session = c.session, !.messages = Append(@, m)]
    BY <2>1
  <2> HIDE DEF m
  <2>4. /\ aiPage'.messages = Append(aiPage.messages, m) /\ aiPage'.sent = aiPage.sent
        /\ aiPage'.session = c.session /\ aiPage'.overlapped = aiPage.overlapped
        /\ aiPage'.confirmed = aiPage.confirmed
    BY <2>3, AssistantFacts DEF AiPages
  <2>5. /\ aiPage'.messages \in Seq(Messages)
        /\ DOMAIN aiPage'.messages = DOMAIN aiPage.messages \cup {k}
        /\ aiPage'.messages[k] = m /\ Spoken' = Spoken \cup {k} /\ k \notin DOMAIN aiPage.messages
        /\ \A i \in DOMAIN aiPage.messages : aiPage'.messages[i] = aiPage.messages[i]
        /\ \A i \in Spoken : i \in DOMAIN aiPage.messages /\ aiPage'.messages[i] = aiPage.messages[i]
    BY <2>2, <2>4, Below1
  <2> HIDE DEF k
  <2>6. aiPage' \in AiPages
    <3>1. c.session \in 0 .. MaxPrompts /\ aiPage \in AiPages
      BY <1>0, AssistantFacts
    <3>2. QED
      BY <2>3, <2>4, <2>5, <3>1 DEF AiPages
  <2>7. ChatsOK'
    <3>1. Sessionless' \subseteq Sessionless
      BY <1>0 DEF Sessionless
    <3>2. /\ Cardinality(Sessionless') <= Cardinality(Sessionless)
          /\ Cardinality(Sessionless') \in Nat /\ Cardinality(Sessionless) \in Nat
      BY <1>0, <3>1, AssistantFacts, PromptSets
    <3>3. sessions' + Cardinality(Sessionless') <= aiPage'.sent
      BY <1>0, <2>4, <3>2, AssistantFacts DEF AssistantInv, ChatsOK
    <3>4. QED
      BY <1>0, <2>4, <2>6, <3>3, AssistantFacts DEF AssistantInv, ChatsOK
  <2>8. SessionOK'
    BY <1>0, <1>2, <2>4 DEF AssistantInv, SessionOK
  <2>9. \A i \in Spoken : aiPage.messages[i].of # c.of
    BY <1>2 DEF AssistantInv, CardsOK
  <2>10. CardsOK'
    <3>1. \A i \in DOMAIN aiPage'.messages \ Spoken' : aiPage'.messages[i].card = "none"
      BY <2>5 DEF AssistantInv, CardsOK
    <3>2. \A i, j \in Spoken' : aiPage'.messages[i].of = aiPage'.messages[j].of => i = j
      BY <2>2, <2>5, <2>9 DEF AssistantInv, CardsOK
    <3>3. \A i \in Spoken' : aiPage'.messages[i].of <= aiPage'.sent
      BY <1>0, <2>2, <2>4, <2>5 DEF AssistantInv, CardsOK
    <3>4. \A d \in chats', i \in Spoken' : d.own => aiPage'.messages[i].of # d.of
      BY <1>0, <2>2, <2>5 DEF AssistantInv, CardsOK, ChatsOK
    <3>5. \A n \in Prompt : aiPage'.confirmed[n] = 0 \/ \E i \in Spoken' : aiPage'.messages[i].of = n
      BY <2>4, <2>5 DEF AssistantInv, CardsOK
    <3>6. QED
      BY <3>1, <3>2, <3>3, <3>4, <3>5 DEF CardsOK
  <2>11. AssistantTypeOK' /\ AddsOK'
    BY <1>0, <2>4, <2>5, AssistantFacts DEF AssistantInv, AssistantTypeOK, AddsOK
  <2>12. OneConversation'
    <3>1. ASSUME ~ aiPage.overlapped PROVE \A i \in Spoken : aiPage.messages[i].session = c.session
      BY <1>2, <3>1 DEF AssistantInv, OneConversation, SessionOK
    <3>2. QED
      BY <2>2, <2>4, <2>5, <3>1 DEF OneConversation
  <2>13. AskedOnce'
    <3>1. aiPage.confirmed[c.of] = 0
      BY <1>0, <2>9 DEF AssistantInv, CardsOK
    <3>2. QED
      BY <2>2, <2>4, <2>5, <3>1 DEF AssistantInv, AskedOnce
  <2>14. QED
    BY <2>7, <2>8, <2>10, <2>11, <2>12, <2>13 DEF AssistantInv
<1>3. QED
  BY <1>1, <1>2

\* A card is marked, the rest of the conversation stays.
LEMMA MarkedMessage ==
  ASSUME NEW s \in Seq(Messages), NEW i \in DOMAIN s, NEW v \in CardStates,
         NEW t, t = [s EXCEPT ![i].card = v]
  PROVE  /\ t \in Seq(Messages) /\ DOMAIN t = DOMAIN s
         /\ t[i].of = s[i].of /\ t[i].role = s[i].role /\ t[i].session = s[i].session
         /\ t[i].card = v
         /\ \A j \in DOMAIN s : j # i => t[j] = s[j]
<1> DEFINE m == [s[i] EXCEPT !.card = v]
<1>1. s[i] \in Messages
  OBVIOUS
<1>2. /\ m \in Messages /\ m.of = s[i].of /\ m.role = s[i].role /\ m.session = s[i].session
      /\ m.card = v
  BY <1>1 DEF Messages
<1>3. t = [s EXCEPT ![i] = m]
  OBVIOUS
<1> HIDE DEF m
<1>4. t \in Seq(Messages) /\ DOMAIN t = DOMAIN s /\ t[i] = m
  BY <1>2, <1>3
<1>5. \A j \in DOMAIN s : j # i => t[j] = s[j]
  BY <1>3
<1>6. QED
  BY <1>2, <1>4, <1>5

\* The card of an answer is marked; how often it was confirmed follows.
LEMMA MarkStep ==
  ASSUME AssistantInv, NEW i \in DOMAIN aiPage.messages, NEW v \in CardStates,
         aiPage.messages[i].card \in {"pending", "cancelled"},
         NEW x \in Nat, x = (IF v = "done" THEN 1 ELSE 0),
         aiPage'.messages = [aiPage.messages EXCEPT ![i].card = v],
         aiPage'.confirmed = [aiPage.confirmed EXCEPT ![aiPage.messages[i].of] = x],
         aiPage' \in AiPages, aiPage'.sent = aiPage.sent, aiPage'.session = aiPage.session,
         aiPage'.overlapped = aiPage.overlapped,
         UNCHANGED <<chats, sessions, inCart>>, AddsOK'
  PROVE  AssistantInv'
<1> USE AssistantAssumption
<1>0. /\ i \in Spoken /\ aiPage.messages \in Seq(Messages) /\ aiPage.messages[i] \in Messages
      /\ aiPage.messages[i].of \in Prompt /\ aiPage.confirmed \in [Prompt -> Nat]
  BY AssistantFacts, ShownMessage DEF AssistantInv, CardsOK
<1>1. /\ aiPage'.messages[i].of = aiPage.messages[i].of
      /\ aiPage'.messages[i].role = aiPage.messages[i].role
      /\ aiPage'.messages[i].session = aiPage.messages[i].session
      /\ aiPage'.messages[i].card = v
      /\ DOMAIN aiPage'.messages = DOMAIN aiPage.messages
      /\ \A j \in DOMAIN aiPage.messages : j # i => aiPage'.messages[j] = aiPage.messages[j]
  BY <1>0, MarkedMessage
<1>2. Spoken' = Spoken
  BY <1>1 DEF Spoken
<1>3. /\ aiPage'.messages \in Seq(Messages)
  BY DEF AiPages
<1>4. /\ \A j \in Spoken : /\ j \in DOMAIN aiPage.messages
                           /\ aiPage'.messages[j].of = aiPage.messages[j].of
                           /\ aiPage'.messages[j].session = aiPage.messages[j].session
                           /\ j # i => aiPage'.messages[j].card = aiPage.messages[j].card
  BY <1>1 DEF Spoken
<1>5. /\ aiPage'.confirmed[aiPage.messages[i].of] = x
      /\ \A n \in Prompt : n # aiPage.messages[i].of => aiPage'.confirmed[n] = aiPage.confirmed[n]
  BY <1>0
<1>6. ChatsOK'
  <2>1. Sessionless' = Sessionless
    BY DEF Sessionless
  <2>2. QED
    BY <2>1 DEF AssistantInv, ChatsOK
<1>7. SessionOK'
  BY <1>2 DEF AssistantInv, SessionOK
<1>8. CardsOK'
  <2>1. \A j \in DOMAIN aiPage'.messages \ Spoken' : aiPage'.messages[j].card = "none"
    BY <1>0, <1>1, <1>2 DEF AssistantInv, CardsOK
  <2>2. \A n \in Prompt : aiPage'.confirmed[n] = 0 \/ \E j \in Spoken' : aiPage'.messages[j].of = n
    BY <1>0, <1>2, <1>4, <1>5 DEF AssistantInv, CardsOK
  <2>3. QED
    BY <1>2, <1>4, <2>1, <2>2 DEF AssistantInv, CardsOK
<1>9. AssistantTypeOK'
  BY <1>3 DEF AssistantInv, AssistantTypeOK
<1>10. OneConversation'
  BY <1>2, <1>4 DEF AssistantInv, OneConversation
<1>11. AskedOnce'
  <2>1. ASSUME NEW j \in Spoken, j # i
        PROVE  /\ aiPage.messages[j].of # aiPage.messages[i].of
               /\ aiPage.messages[j].of \in Prompt
    BY <1>0, <1>4, <2>1, ShownMessage DEF AssistantInv, CardsOK
  <2>2. ASSUME NEW j \in Spoken
        PROVE  aiPage'.confirmed[aiPage'.messages[j].of] =
                  IF aiPage'.messages[j].card = "done" THEN 1 ELSE 0
    <3>1. CASE j = i
      BY <1>1, <1>5, <3>1
    <3>2. CASE j # i
      <4>1. /\ aiPage'.messages[j].of = aiPage.messages[j].of
            /\ aiPage'.messages[j].card = aiPage.messages[j].card
            /\ aiPage'.confirmed[aiPage.messages[j].of] = aiPage.confirmed[aiPage.messages[j].of]
        BY <1>4, <1>5, <2>1, <3>2
      <4>2. QED
        BY <4>1 DEF AssistantInv, AskedOnce
    <3>3. QED
      BY <3>1, <3>2
  <2>3. QED
    BY <1>2, <2>2 DEF AskedOnce
<1>12. QED
  BY <1>6, <1>7, <1>8, <1>9, <1>10, <1>11 DEF AssistantInv

LEMMA AssistantStep == AssistantInv /\ [AssistantNext]_assistantVars => AssistantInv'
<1> SUFFICES ASSUME AssistantInv, [AssistantNext]_assistantVars PROVE AssistantInv'
  OBVIOUS
<1> USE AssistantAssumption
\* The calls that add to the cart, the page and its chats as they are.
<1>2. ASSUME UNCHANGED <<aiPage, chats, sessions, inCart>>, AddsOK'
      PROVE  AssistantInv'
  <2>1. Spoken' = Spoken /\ Sessionless' = Sessionless
    BY <1>2 DEF Spoken, Sessionless
  <2>2. ChatsOK' /\ SessionOK' /\ CardsOK' /\ AssistantTypeOK'
    BY <1>2, <2>1 DEF AssistantInv, ChatsOK, SessionOK, CardsOK, AssistantTypeOK
  <2>3. OneConversation' /\ AskedOnce'
    BY <1>2, <2>1 DEF AssistantInv, OneConversation, AskedOnce
  <2>4. QED
    BY <1>2, <2>2, <2>3 DEF AssistantInv
<1>3. CASE Visit
  BY <1>3, VisitStep
<1>4. CASE SayTyped \/ SaySuggested
  BY <1>4, SayStep DEF SayTyped, SaySuggested
<1>5. ASSUME NEW c \in chats, RunTurn(c) \/ Replied(c) \/ Unreplied(c)
      PROVE  AssistantInv'
  BY <1>5, RunTurnStep, RepliedStep, ChatEnds DEF Unreplied
<1>6. ASSUME NEW i \in DOMAIN aiPage.messages, Confirm(i)
      PROVE  AssistantInv'
  <2>1. /\ aiPage.messages[i] \in Messages /\ aiPage.messages[i].of \in Prompt
        /\ aiPage.messages[i].card = "pending" /\ i \in Spoken
    BY <1>6, ShownMessage DEF Confirm, AssistantInv, CardsOK
  <2>2. aiPage.confirmed[aiPage.messages[i].of] = 0
    BY <2>1 DEF AssistantInv, AskedOnce
  <2>3. aiPage' = [aiPage EXCEPT !.messages[i].card = "done",
                                 !.confirmed[aiPage.messages[i].of] = @ + 1]
    BY <1>6 DEF Confirm
  <2>4. /\ aiPage'.messages = [aiPage.messages EXCEPT ![i].card = "done"]
        /\ aiPage'.confirmed = [aiPage.confirmed EXCEPT ![aiPage.messages[i].of] = 1]
        /\ aiPage'.sent = aiPage.sent /\ aiPage'.session = aiPage.session
        /\ aiPage'.overlapped = aiPage.overlapped
    BY <2>1, <2>2, <2>3, AssistantFacts DEF AiPages
  <2>5. [aiPage.messages EXCEPT ![i].card = "done"] \in Seq(Messages)
    <3>1. aiPage.messages \in Seq(Messages) /\ "done" \in CardStates
      BY AssistantFacts DEF CardStates
    <3>2. QED
      BY <3>1, MarkedMessage, Zenon
  <2>6. [aiPage.confirmed EXCEPT ![aiPage.messages[i].of] = 1] \in [Prompt -> Nat]
    BY AssistantFacts
  <2>7. aiPage' \in AiPages
    BY <2>3, <2>4, <2>5, <2>6, AssistantFacts DEF AiPages
  <2>8. AddsOK'
    BY <1>6 DEF Confirm, Post, AddsOK, AssistantInv
  <2>9. QED
    BY <1>6, <2>1, <2>4, <2>7, <2>8, MarkStep DEF Confirm, CardStates
<1>7. ASSUME NEW i \in DOMAIN aiPage.messages, NEW v \in {"pending", "cancelled"},
             aiPage.messages[i].card \in {"pending", "cancelled"},
             aiPage' = [aiPage EXCEPT !.messages[i].card = v],
             UNCHANGED <<chats, adds, sessions, inCart>>
      PROVE  AssistantInv'
  <2>1. /\ aiPage.messages[i] \in Messages /\ aiPage.messages[i].of \in Prompt /\ i \in Spoken
        /\ aiPage.messages[i].card # "done"
    BY <1>7, ShownMessage DEF AssistantInv, CardsOK
  <2>2. aiPage.confirmed[aiPage.messages[i].of] = 0
    BY <2>1 DEF AssistantInv, AskedOnce
  <2>3. /\ aiPage'.messages = [aiPage.messages EXCEPT ![i].card = v]
        /\ aiPage'.confirmed = aiPage.confirmed
        /\ aiPage'.sent = aiPage.sent /\ aiPage'.session = aiPage.session
        /\ aiPage'.overlapped = aiPage.overlapped
    BY <1>7, AssistantFacts DEF AiPages
  <2>4. aiPage.confirmed = [aiPage.confirmed EXCEPT ![aiPage.messages[i].of] = 0]
    BY <2>1, <2>2, AssistantFacts
  <2>5. [aiPage.messages EXCEPT ![i].card = v] \in Seq(Messages)
    <3>1. aiPage.messages \in Seq(Messages) /\ v \in CardStates
      BY AssistantFacts DEF CardStates
    <3>2. QED
      BY <3>1, MarkedMessage, Zenon
  <2>6. aiPage' \in AiPages
    BY <1>7, <2>3, <2>5, AssistantFacts DEF AiPages
  <2>7. AddsOK'
    BY <1>7 DEF AddsOK, AssistantInv
  <2>8. v \in CardStates /\ 0 \in Nat /\ 0 = (IF v = "done" THEN 1 ELSE 0)
    BY DEF CardStates
  <2>9. aiPage'.confirmed = [aiPage.confirmed EXCEPT ![aiPage.messages[i].of] = 0]
    BY <2>3, <2>4
  <2>10. UNCHANGED <<chats, sessions, inCart>>
    BY <1>7
  <2>11. QED
    BY <1>7, <2>3, <2>6, <2>7, <2>8, <2>9, <2>10, MarkStep, Zenon
<1>8. ASSUME NEW i \in DOMAIN aiPage.messages, Cancel(i) \/ ReviewAgain(i)
      PROVE  AssistantInv'
  BY <1>7, <1>8 DEF Cancel, ReviewAgain
<1>9. CASE AddPick
  BY <1>2, <1>9 DEF AddPick, Post, AddsOK, AssistantInv
<1>10. ASSUME NEW a \in adds, ServeAdd(a)
       PROVE  AssistantInv'
  BY <1>2, <1>10 DEF ServeAdd, AddsOK, AssistantInv
<1>11. CASE UNCHANGED assistantVars
  BY <1>2, <1>11 DEF assistantVars, AddsOK, AssistantInv
<1>12. QED
  BY <1>3, <1>4, <1>5, <1>6, <1>8, <1>9, <1>10, <1>11 DEF AssistantNext
\* Once a session is there a conversation stays in it, whatever answers are lost or late,
\* and a card that was confirmed is not offered again.
THEOREM AssistantSafe == AssistantSpec => [](AssistantTypeOK /\ OneConversation /\ AskedOnce)
<1>1. AssistantInv => AssistantTypeOK /\ OneConversation /\ AskedOnce
  BY DEF AssistantInv
<1>2. QED
  BY AssistantStart, AssistantStep, <1>1, PTL DEF AssistantSpec

-----------------------------------------------------------------------------
(* The catalog and the cart page. *)

\* Two searches with one key are one search.
LEMMA SearchKeyTells ==
  ASSUME NEW s \in Searches, NEW t \in Searches, SearchKey(s) = SearchKey(t)
  PROVE  s = t
<1>1. s.text = t.text /\ s.category = t.category
  BY DEF SearchKey
<1>2. /\ s = [text |-> s.text, category |-> s.category]
      /\ t = [text |-> t.text, category |-> t.category]
  BY DEF Searches
<1>3. QED
  BY <1>1, <1>2

\* The question of a search.
LEMMA FindingOf ==
  ASSUME NEW s \in Searches
  PROVE  [key |-> SearchKey(s), for |-> s] \in Findings
BY DEF Findings

LEMMA BrowseStart == BrowseInit => BrowseInv
<1> SUFFICES ASSUME BrowseInit PROVE BrowseInv
  OBVIOUS
<1> USE BrowseAssumption
<1>1. BrowseTypeOK
  <2>1. search \in Searches
    BY DEF BrowseInit, NoSearch, Searches
  <2>2. item \in [of : Products, quantity : Nat, variant : {0} \cup Products]
    BY DEF BrowseInit, FreshItem, Products
  <2>3. QED
    BY <2>1, <2>2 DEF BrowseInit, BrowseTypeOK
<1>2. EditsOK /\ LegalQuantities /\ asked = {} /\ kept = {}
  BY DEF BrowseInit, EditsOK, LegalQuantities, FreshItem
<1>3. QED
  BY <1>1, <1>2 DEF BrowseInv

\* A call is placed that asks for a quantity the backend has room for.
LEMMA StartSound ==
  ASSUME BrowseInv, NEW e \in Edits, NEW kinds,
         e.kind # "delete" => e.quantity > 0, Start(e, kinds), UNCHANGED item
  PROVE  BrowseInv'
<1>1. ASSUME NEW d \in edits'
      PROVE  d \in Edits /\ (d.kind # "delete" => d.quantity > 0)
  <2>1. CASE d = e
    BY <2>1
  <2>2. CASE d # e
    <3>1. PICK f \in edits : d = IF f.kind \in kinds THEN [f EXCEPT !.last = FALSE] ELSE f
      BY <2>2 DEF Start
    <3>2. d \in Edits /\ d.quantity = f.quantity /\ d.kind = f.kind
      BY <3>1 DEF BrowseInv, EditsOK, Edits
    <3>3. QED
      BY <3>2 DEF BrowseInv, LegalQuantities
  <2>3. QED
    BY <2>1, <2>2
<1>2. UNCHANGED <<at, search, asked, kept, line, item>>
  BY DEF Start
<1>3. QED
  BY <1>1, <1>2 DEF BrowseInv, BrowseTypeOK, EditsOK, LegalQuantities

LEMMA BrowseStep == BrowseInv /\ [BrowseNext]_browseVars => BrowseInv'
<1> SUFFICES ASSUME BrowseInv, [BrowseNext]_browseVars PROVE BrowseInv'
  OBVIOUS
<1> USE BrowseAssumption DEF BrowseInv
<1>0. /\ line \in Nat /\ item \in [of : Products, quantity : Nat, variant : {0} \cup Products]
      /\ item.of \in Products /\ item.quantity \in Nat /\ item.quantity > 0 /\ search \in Searches
  BY DEF BrowseTypeOK, EditsOK
<1>1. CASE TypeOrPick
  BY <1>1 DEF TypeOrPick, BrowseTypeOK, EditsOK, LegalQuantities
<1>2. CASE Search
  <2>1. asked' \subseteq Findings /\ UNCHANGED <<at, search, kept, item, line, edits>>
    BY <1>0, <1>2, FindingOf DEF Search
  <2>2. QED
    BY <2>1 DEF BrowseTypeOK, EditsOK, LegalQuantities
<1>3. ASSUME NEW a \in asked, Found(a) PROVE BrowseInv'
  <2>1. /\ asked' \subseteq Findings /\ kept' \subseteq Findings
        /\ UNCHANGED <<at, search, item, line, edits>>
    BY <1>3 DEF Found
  <2>2. QED
    BY <2>1 DEF BrowseTypeOK, EditsOK, LegalQuantities
<1>4. CASE Forget
  <2>1. /\ asked' \subseteq Findings /\ kept' \subseteq Findings
        /\ UNCHANGED <<at, search, item, line, edits>>
    BY <1>4 DEF Forget
  <2>2. QED
    BY <2>1 DEF BrowseTypeOK, EditsOK, LegalQuantities
<1>5. CASE Turn
  <2>1. /\ item' \in [of : Products, quantity : Nat, variant : {0} \cup Products]
        /\ item'.quantity > 0
    <3>1. ASSUME NEW id \in Products, item' = FreshItem(id)
          PROVE  /\ item' \in [of : Products, quantity : Nat, variant : {0} \cup Products]
                 /\ item'.quantity > 0
      BY <3>1 DEF FreshItem
    <3>2. CASE item' = [item EXCEPT !.of = 3 - @]
      <4>1. 3 - item.of \in Products
        BY <1>0 DEF Products
      <4> DEFINE o == 3 - item.of
      <4>2. o \in Products /\ item' = [item EXCEPT !.of = o]
        BY <3>2, <4>1
      <4> HIDE DEF o
      <4>3. QED
        BY <1>0, <4>2
    <3>3. 1 \in Products
      BY DEF Products
    <3>4. QED
      BY <1>5, <3>1, <3>2, <3>3 DEF Turn
  <2>2. at' \in {"list", "product", "cart"} /\ search' \in Searches /\ UNCHANGED <<asked, kept, line>>
    BY <1>5 DEF Turn, BrowseTypeOK, NoSearch, Searches
  <2>3. ASSUME NEW d \in edits'
        PROVE  d \in Edits /\ (d.kind # "delete" => d.quantity > 0)
    <3>1. PICK f \in edits : d = f \/ d = [f EXCEPT !.last = FALSE]
      BY <1>5 DEF Turn
    <3>2. d \in Edits /\ d.quantity = f.quantity /\ d.kind = f.kind
      BY <3>1 DEF EditsOK, Edits
    <3>3. QED
      BY <3>2 DEF LegalQuantities
  <2>4. QED
    BY <2>1, <2>2, <2>3 DEF BrowseTypeOK, EditsOK, LegalQuantities
<1>6. ASSUME item' \in [of : Products, quantity : Nat, variant : {0} \cup Products],
             item'.quantity > 0, UNCHANGED <<at, search, asked, kept, line, edits>>
      PROVE  BrowseInv'
  BY <1>6 DEF BrowseTypeOK, EditsOK, LegalQuantities
<1>7. CASE PickVariant
  BY <1>0, <1>6, <1>7 DEF PickVariant
<1>8. CASE Fewer
  <2>1. Larger(1, item.quantity - 1) \in Nat /\ Larger(1, item.quantity - 1) > 0
    BY <1>0 DEF Larger
  <2>2. /\ item' = [item EXCEPT !.quantity = Larger(1, item.quantity - 1)]
        /\ UNCHANGED <<at, search, asked, kept, line, edits>>
    BY <1>8 DEF Fewer
  <2>3. QED
    BY <1>0, <1>6, <2>1, <2>2
<1>9. CASE More
  BY <1>0, <1>6, <1>9 DEF More
<1>10. CASE AddItem
  <2>1. Edit("add", item.quantity) \in Edits /\ Edit("add", item.quantity).quantity > 0
    BY <1>0 DEF Edit, Edits
  <2>2. QED
    BY <1>10, <2>1, StartSound DEF AddItem
<1>11. CASE AddCard
  <2>1. Edit("card", 1) \in Edits /\ Edit("card", 1).quantity > 0
    BY DEF Edit, Edits
  <2>2. QED
    BY <1>11, <2>1, StartSound DEF AddCard
<1>12. CASE CartShown
  BY <1>12 DEF CartShown, BrowseTypeOK, EditsOK, LegalQuantities
<1>13. ASSUME NEW q \in Nat
       PROVE  /\ Update(q) \in Edits
              /\ Update(q).kind # "delete" => Update(q).quantity > 0
  BY DEF Update, Edit, Edits
<1>14. CASE Change(1) \/ Change(-1)
  <2>1. PICK by \in {1, -1} : Change(by)
    BY <1>14
  <2>2. line + by \in Nat
    BY <1>0, <2>1 DEF Change, LineShown
  <2>3. QED
    BY <1>13, <2>1, <2>2, StartSound DEF Change
<1>15. CASE RemoveLine
  BY <1>13, <1>15, StartSound DEF RemoveLine
<1>16. ASSUME NEW e \in edits, Declined(e) PROVE BrowseInv'
  BY <1>16 DEF Declined, BrowseTypeOK, EditsOK, LegalQuantities
<1>17. CASE UNCHANGED browseVars
  BY <1>17 DEF browseVars, BrowseTypeOK, EditsOK, LegalQuantities
<1>18. QED
  BY <1>1, <1>2, <1>3, <1>4, <1>5, <1>7, <1>8, <1>9, <1>10, <1>11, <1>12, <1>14, <1>15, <1>16, <1>17
     DEF BrowseNext

LEMMA BrowseGoal == BrowseInv => BrowseTypeOK /\ ListMatchesSearch /\ LegalQuantities
<1> SUFFICES ASSUME BrowseInv PROVE ListMatchesSearch
  BY DEF BrowseInv
<1>1. ASSUME NEW k \in kept, k.key = SearchKey(search) PROVE k.for = search
  <2>1. k.for \in Searches /\ search \in Searches /\ k.key = SearchKey(k.for)
    BY DEF BrowseInv, BrowseTypeOK, Findings
  <2>2. QED
    BY <1>1, <2>1, SearchKeyTells
<1>2. QED
  BY <1>1 DEF ListMatchesSearch, Listed

\* A search is shown the products that were asked for with it, in whatever order the
\* answers come, and no page asks for a quantity the backend refuses.
THEOREM BrowseSafe == BrowseSpec => [](BrowseTypeOK /\ ListMatchesSearch /\ LegalQuantities)
BY BrowseStart, BrowseStep, BrowseGoal, PTL DEF BrowseSpec

-----------------------------------------------------------------------------
(* The merchant center. *)

PolicyPages == [open : BOOLEAN, amount : BOOLEAN, listed : 0 .. MaxPolicies, stale : BOOLEAN]

MerchantStores == [made : {0} \cup Keys, revoked : SUBSET Keys, policies : 0 .. MaxPolicies]

LEMMA MerchantFacts ==
  ASSUME MerchantInv
  PROVE  /\ keyPage \in KeyPages /\ policyPage \in PolicyPages /\ merchantStore \in MerchantStores
         /\ merchantStore.made \in Nat /\ merchantStore.made <= MaxKeys
         /\ keyPage.listed \subseteq 1 .. merchantStore.made
         /\ policyPage.listed <= merchantStore.policies
         /\ merchantCalls \subseteq MerchantCalls
BY MerchantAssumption
   DEF MerchantInv, MerchantTypeOK, KeyRows, PolicyRows, StoreOK, KeyPages, PolicyPages, MerchantStores, Keys

LEMMA MerchantStart == MerchantInit => MerchantInv
<1> SUFFICES ASSUME MerchantInit PROVE MerchantInv
  OBVIOUS
<1> USE MerchantAssumption
<1>1. keyPage = FreshKeyPage /\ policyPage = FreshPolicyPage /\ merchantCalls = {}
      /\ merchantStore = [made |-> 0, revoked |-> {}, policies |-> 0]
  BY DEF MerchantInit
<1>2. /\ FreshKeyPage \in KeyPages /\ FreshKeyPage.open = 0 /\ FreshKeyPage.listed = {}
      /\ FreshPolicyPage \in PolicyPages /\ FreshPolicyPage.listed = 0
  BY DEF FreshKeyPage, FreshPolicyPage, KeyPages, PolicyPages
<1>3. merchantStore \in MerchantStores
  BY <1>1 DEF MerchantStores
<1>4. QED
  BY <1>1, <1>2, <1>3
     DEF MerchantInv, MerchantTypeOK, KeyRows, PolicyRows, StoreOK, CreationsOK, Creations, KeyPages, PolicyPages,
         MerchantStores

\* The pages change, the calls and the store do not.
LEMMA PageStep ==
  ASSUME MerchantInv, UNCHANGED <<merchantCalls, merchantStore>>,
         keyPage' \in KeyPages, keyPage'.listed \subseteq 1 .. merchantStore.made,
         keyPage'.open \in {0, keyPage.open}, policyPage' \in PolicyPages,
         policyPage'.listed <= merchantStore.policies
  PROVE  MerchantInv'
<1>1. Creations' = Creations /\ keyPage'.open \in {0} \cup Keys
  BY DEF Creations, KeyPages
<1>2. MerchantTypeOK'
  BY <1>1 DEF MerchantInv, MerchantTypeOK, KeyRows, PolicyRows, PolicyPages
<1>3. StoreOK'
  BY DEF MerchantInv, StoreOK, KeyPages
<1>4. CreationsOK'
  BY <1>1 DEF MerchantInv, CreationsOK
<1>5. QED
  BY <1>2, <1>3, <1>4 DEF MerchantInv

\* A call is placed; one that makes a key, when none is awaited or shown.
LEMMA PlaceStep ==
  ASSUME MerchantInv, NEW kind \in {"create", "revoke", "policy"}, NEW k \in {0} \cup Keys,
         kind = "revoke" => k # 0, Place(kind, k),
         kind = "create" => keyPage.open = 0 /\ ~ Pending("create"),
         UNCHANGED <<keyPage, policyPage, merchantStore>>
  PROVE  MerchantInv'
<1> DEFINE c == [kind |-> kind, key |-> k, state |-> "sent", own |-> TRUE]
<1>1. c \in MerchantCalls /\ c.kind = kind /\ c.state = "sent" /\ c.key = k
  BY DEF MerchantCalls
<1>2. merchantCalls' = merchantCalls \cup {c}
  BY DEF Place
<1> HIDE DEF c
<1>3. kind # "create" => Creations' = Creations
  BY <1>1, <1>2 DEF Creations
<1>4. kind = "create" => Creations = {} /\ Creations' \subseteq {c}
  BY <1>2 DEF Creations, Pending
<1>5. CreationsOK'
  BY <1>3, <1>4 DEF MerchantInv, CreationsOK
<1>6. StoreOK'
  BY <1>1, <1>2 DEF MerchantInv, StoreOK
<1>7. MerchantTypeOK'
  BY DEF MerchantInv, MerchantTypeOK, KeyRows, PolicyRows
<1>8. QED
  BY <1>5, <1>6, <1>7 DEF MerchantInv

\* A call is over.
LEMMA SettledStep ==
  ASSUME MerchantInv, NEW c \in merchantCalls, merchantCalls' = merchantCalls \ {c},
         UNCHANGED merchantStore, keyPage' \in KeyPages, policyPage' \in PolicyPages,
         keyPage'.listed = keyPage.listed, policyPage'.listed = policyPage.listed,
         keyPage'.open = keyPage.open \/ c \in Creations
  PROVE  MerchantInv'
<1>1. Creations' = Creations \ {c}
  BY DEF Creations
<1>2. MerchantTypeOK'
  BY DEF MerchantInv, MerchantTypeOK, KeyRows, PolicyRows, KeyPages, PolicyPages
<1>3. StoreOK'
  BY DEF MerchantInv, StoreOK, KeyPages
<1>4. CreationsOK'
  BY <1>1 DEF MerchantInv, CreationsOK
<1>5. QED
  BY <1>2, <1>3, <1>4 DEF MerchantInv

LEMMA ServeMerchantStep ==
  ASSUME MerchantInv, NEW c \in merchantCalls, ServeMerchant(c)
  PROVE  MerchantInv'
<1> USE MerchantAssumption
<1>0. /\ c \in MerchantCalls /\ c.state = "sent" /\ c.kind \in {"create", "revoke", "policy"}
      /\ c.key \in {0} \cup Keys
      /\ c.kind = "revoke" => c.key # 0
      /\ UNCHANGED <<keyPage, policyPage>>
  BY MerchantFacts DEF MerchantCalls, MerchantInv, StoreOK, ServeMerchant
<1>1. /\ merchantStore' \in MerchantStores /\ merchantStore.made <= merchantStore'.made
      /\ merchantStore.policies <= merchantStore'.policies
      /\ c.kind = "create" => merchantStore'.made \in Keys
  <2>1. CASE c.kind = "create" /\ merchantStore.made < MaxKeys
             /\ merchantStore' = [merchantStore EXCEPT !.made = @ + 1]
    <3>1. merchantStore.made + 1 \in Keys
      BY <2>1, MerchantFacts DEF Keys
    <3>2. merchantStore' \in MerchantStores /\ merchantStore'.made = merchantStore.made + 1
          /\ merchantStore'.policies = merchantStore.policies /\ merchantStore.policies \in Nat
      BY <2>1, <3>1, MerchantFacts DEF MerchantStores
    <3>3. QED
      BY <3>1, <3>2, MerchantFacts
  <2>2. CASE c.kind = "revoke"
             /\ merchantStore' = [merchantStore EXCEPT !.revoked = @ \cup {c.key}]
    <3> DEFINE r == merchantStore.revoked \cup {c.key}
    <3>1. r \in SUBSET Keys
      BY <1>0, <2>2, MerchantFacts DEF MerchantStores
    <3>2. merchantStore' = [merchantStore EXCEPT !.revoked = r]
      BY <2>2
    <3> HIDE DEF r
    <3>3. merchantStore' \in MerchantStores /\ merchantStore'.made = merchantStore.made
          /\ merchantStore'.policies = merchantStore.policies /\ merchantStore.policies \in Nat
      BY <3>1, <3>2, MerchantFacts DEF MerchantStores
    <3>4. QED
      BY <2>2, <3>3, MerchantFacts
  <2>3. CASE c.kind = "policy" /\ merchantStore.policies < MaxPolicies
             /\ merchantStore' = [merchantStore EXCEPT !.policies = @ + 1]
    <3>1. merchantStore' \in MerchantStores /\ merchantStore'.made = merchantStore.made
          /\ merchantStore'.policies = merchantStore.policies + 1 /\ merchantStore.policies \in Nat
      BY <2>3, MerchantFacts DEF MerchantStores
    <3>2. QED
      BY <2>3, <3>1, MerchantFacts
  <2>4. QED
    BY <2>1, <2>2, <2>3 DEF ServeMerchant
<1> DEFINE k == IF c.kind = "create" THEN merchantStore'.made ELSE c.key
           d == [c EXCEPT !.state = "done", !.key = k]
<1>2. /\ k \in {0} \cup Keys
      /\ c.kind = "create" => k # 0
      /\ c.kind = "revoke" => k # 0
  BY <1>0, <1>1 DEF Keys
<1>3. merchantCalls' = (merchantCalls \ {c}) \cup {d}
  BY DEF ServeMerchant
<1> HIDE DEF k
<1>4. d \in MerchantCalls /\ d.kind = c.kind /\ d.own = c.own /\ d.key = k /\ d.state = "done"
  BY <1>0, <1>2 DEF MerchantCalls
<1> HIDE DEF d
<1>5. IF c \in Creations THEN Creations' \subseteq (Creations \ {c}) \cup {d}
                         ELSE Creations' \subseteq Creations
  BY <1>3, <1>4 DEF Creations
<1>6. CreationsOK'
  BY <1>0, <1>5 DEF MerchantInv, CreationsOK
<1>7. StoreOK'
  BY <1>0, <1>2, <1>3, <1>4 DEF MerchantInv, StoreOK
<1>8. MerchantTypeOK'
  <2>1. 1 .. merchantStore.made \subseteq 1 .. merchantStore'.made
    <3>1. merchantStore'.made \in Nat
      BY <1>1 DEF MerchantStores, Keys
    <3>2. QED
      BY <1>1, <3>1, MerchantFacts
  <2>2. policyPage'.listed <= merchantStore'.policies
    <3>1. policyPage.listed \in Nat /\ merchantStore.policies \in Nat /\ merchantStore'.policies \in Nat
      BY <1>1, MerchantFacts DEF PolicyPages, MerchantStores
    <3>2. QED
      BY <1>0, <1>1, <3>1, MerchantFacts
  <2>3. QED
    BY <1>0, <1>1, <2>1, <2>2
       DEF MerchantInv, MerchantTypeOK, KeyRows, PolicyRows, MerchantStores, PolicyPages
<1>9. QED
  BY <1>6, <1>7, <1>8 DEF MerchantInv

LEMMA MoveStep == MerchantInv /\ Move => MerchantInv'
<1> SUFFICES ASSUME MerchantInv, Move PROVE MerchantInv'
  OBVIOUS
<1>1. /\ keyPage' \in KeyPages /\ keyPage'.open = 0 /\ keyPage'.listed = {}
      /\ policyPage' \in PolicyPages /\ policyPage'.listed = 0 /\ UNCHANGED merchantStore
  BY MerchantAssumption DEF Move, FreshKeyPage, FreshPolicyPage, KeyPages, PolicyPages
<1>2. ASSUME NEW d \in merchantCalls'
      PROVE  /\ d \in MerchantCalls /\ d \notin Creations'
             /\ d.kind = "create" /\ d.state = "done" => d.key # 0
             /\ d.kind = "revoke" => d.key # 0
  <2>1. PICK c \in merchantCalls : d = [c EXCEPT !.own = FALSE]
    BY DEF Move
  <2>2. /\ d \in MerchantCalls /\ d.kind = c.kind /\ d.state = c.state /\ d.key = c.key
        /\ d.own = FALSE
    BY <2>1, MerchantFacts DEF MerchantCalls
  <2>3. QED
    BY <2>2 DEF Creations, MerchantInv, StoreOK
<1>3. Creations' = {}
  BY <1>2 DEF Creations
<1>4. MerchantTypeOK' /\ StoreOK' /\ CreationsOK'
  BY <1>1, <1>2, <1>3
     DEF MerchantInv, MerchantTypeOK, KeyRows, PolicyRows, StoreOK, CreationsOK, KeyPages, PolicyPages
<1>5. QED
  BY <1>4 DEF MerchantInv

LEMMA MerchantStep == MerchantInv /\ [MerchantNext]_merchantVars => MerchantInv'
<1> SUFFICES ASSUME MerchantInv, [MerchantNext]_merchantVars PROVE MerchantInv'
  OBVIOUS
<1> USE MerchantAssumption
<1>0. /\ keyPage \in KeyPages /\ policyPage \in PolicyPages
      /\ keyPage.listed \subseteq 1 .. merchantStore.made /\ keyPage.open \in {0} \cup Keys
      /\ merchantStore.policies \in 0 .. MaxPolicies /\ 1 .. merchantStore.made \subseteq Keys
      /\ policyPage.open \in BOOLEAN /\ policyPage.listed <= merchantStore.policies
  BY MerchantFacts DEF KeyPages, MerchantStores, Keys, PolicyPages
<1>1. ASSUME UNCHANGED <<merchantCalls, merchantStore, policyPage>>,
             TypeName \/ ListKeys \/ CopySecret \/ CopiedOver \/ Dismiss
      PROVE  MerchantInv'
  <2>1. /\ keyPage' \in KeyPages /\ keyPage'.listed \subseteq 1 .. merchantStore.made
        /\ keyPage'.open \in {0, keyPage.open}
    <3>1. CASE TypeName
      BY <1>0, <3>1 DEF TypeName, KeyPages
    <3>2. CASE ListKeys
      <4> DEFINE L == (1 .. merchantStore.made) \ merchantStore.revoked
      <4>1. L \in SUBSET Keys /\ L \subseteq 1 .. merchantStore.made
        BY <1>0
      <4>2. keyPage' = [keyPage EXCEPT !.stale = FALSE, !.listed = L]
        BY <3>2 DEF ListKeys
      <4> HIDE DEF L
      <4>3. QED
        BY <1>0, <4>1, <4>2 DEF KeyPages
    <3>3. CASE CopySecret
      BY <1>0, <3>3 DEF CopySecret, KeyPages
    <3>4. CASE CopiedOver
      BY <1>0, <3>4 DEF CopiedOver, KeyPages
    <3>5. CASE Dismiss
      BY <1>0, <3>5 DEF Dismiss, KeyPages
    <3>6. QED
      BY <1>1, <3>1, <3>2, <3>3, <3>4, <3>5
  <2>2. QED
    BY <1>0, <1>1, <2>1, PageStep
<1>2. CASE TypeName \/ ListKeys \/ CopySecret \/ CopiedOver \/ Dismiss
  BY <1>1, <1>2 DEF TypeName, ListKeys, CopySecret, CopiedOver, Dismiss
<1>3. CASE Generate
  BY <1>0, <1>3, PlaceStep DEF Generate, OnKeys, KeyDialog
<1>4. CASE Revoke
  <2>1. PICK k \in keyPage.listed : Place("revoke", k)
    BY <1>4 DEF Revoke, KeyRows
  <2>2. k \in Keys /\ k # 0
    BY <1>0 DEF Keys
  <2>3. QED
    BY <1>4, <2>1, <2>2, PlaceStep DEF Revoke
<1>5. CASE CreatePolicy
  BY <1>5, PlaceStep DEF CreatePolicy
<1>6. CASE ToggleDialog \/ TypeAmount \/ ListPolicies
  <2>1. policyPage' \in PolicyPages /\ policyPage'.listed <= merchantStore.policies
    <3>1. CASE ToggleDialog
      BY <1>0, <3>1 DEF ToggleDialog, PolicyPages
    <3>2. CASE TypeAmount
      <4> DEFINE a == ~ policyPage.amount
      <4>1. policyPage' = [policyPage EXCEPT !.amount = a] /\ a \in BOOLEAN
        BY <3>2 DEF TypeAmount
      <4> HIDE DEF a
      <4>2. QED
        BY <1>0, <4>1 DEF PolicyPages
    <3>3. CASE ListPolicies
      <4> DEFINE n == merchantStore.policies
      <4>1. policyPage' = [policyPage EXCEPT !.stale = FALSE, !.listed = n] /\ n \in 0 .. MaxPolicies
        BY <1>0, <3>3 DEF ListPolicies
      <4>2. n <= n
        BY <4>1
      <4> HIDE DEF n
      <4>3. policyPage' \in PolicyPages /\ policyPage'.listed = n
        BY <1>0, <4>1 DEF PolicyPages
      <4>4. QED
        BY <4>2, <4>3 DEF n
    <3>4. QED
      BY <1>6, <3>1, <3>2, <3>3
  <2>2. UNCHANGED <<keyPage, merchantCalls, merchantStore>>
    BY <1>6 DEF ToggleDialog, TypeAmount, ListPolicies
  <2>3. QED
    BY <1>0, <2>1, <2>2, PageStep
<1>7. CASE Move
  BY <1>7, MoveStep
<1>8. ASSUME NEW c \in merchantCalls, DropCall(c) \/ Revoked(c)
      PROVE  MerchantInv'
  <2>1. /\ keyPage' \in KeyPages /\ keyPage'.listed = keyPage.listed
        /\ keyPage'.open = keyPage.open
    BY <1>0, <1>8 DEF DropCall, Revoked, KeyPages
  <2>2. QED
    BY <1>0, <1>8, <2>1, SettledStep DEF DropCall, Revoked, Settled
<1>9. ASSUME NEW c \in merchantCalls, PolicyCreated(c)
      PROVE  MerchantInv'
  <2> DEFINE o == IF c.own THEN FALSE ELSE policyPage.open
  <2>1. o \in BOOLEAN /\ policyPage' = [policyPage EXCEPT !.stale = TRUE, !.open = o]
    BY <1>0, <1>9 DEF PolicyCreated
  <2> HIDE DEF o
  <2>2. policyPage' \in PolicyPages /\ policyPage'.listed = policyPage.listed
    BY <1>0, <2>1 DEF PolicyPages
  <2>3. QED
    BY <1>0, <1>9, <2>2, SettledStep DEF PolicyCreated, Settled
<1>10. ASSUME NEW c \in merchantCalls, Created(c)
       PROVE  MerchantInv'
  <2>1. c \in MerchantCalls /\ c.key \in Keys /\ c.kind = "create"
    BY <1>10, MerchantFacts DEF Created, Settled, MerchantCalls, MerchantInv, StoreOK
  <2>2. SecretOf(CreateReply(c.key)) \in Nat
    BY DEF SecretOf, CreateReply
  <2>3. CASE c.own
    <3>1. keyPage' = [keyPage EXCEPT !.open = c.key, !.secret = SecretOf(CreateReply(c.key)),
                                     !.named = FALSE, !.stale = TRUE]
      BY <1>10, <2>3 DEF Created
    <3>2. keyPage' \in KeyPages /\ keyPage'.listed = keyPage.listed
      BY <1>0, <2>1, <2>2, <3>1 DEF KeyPages
    <3>3. c \in Creations
      BY <2>1, <2>3 DEF Creations
    <3>4. QED
      BY <1>0, <1>10, <3>2, <3>3, SettledStep DEF Created, Settled
  <2>4. CASE ~ c.own
    <3>1. keyPage' \in KeyPages /\ keyPage'.listed = keyPage.listed /\ keyPage'.open = keyPage.open
      BY <1>0, <1>10, <2>4 DEF Created, KeyPages
    <3>2. QED
      BY <1>0, <1>10, <3>1, SettledStep DEF Created, Settled
  <2>5. QED
    BY <2>3, <2>4
<1>11. ASSUME NEW c \in merchantCalls, ServeMerchant(c)
       PROVE  MerchantInv'
  BY <1>11, ServeMerchantStep
<1>12. CASE UNCHANGED merchantVars
  BY <1>0, <1>12, PageStep DEF merchantVars
<1>13. QED
  BY <1>2, <1>3, <1>4, <1>5, <1>6, <1>7, <1>8, <1>9, <1>10, <1>11, <1>12 DEF MerchantNext

\* A key that is shown is followed by none.
LEMMA KeyStays ==
  MerchantInv /\ [MerchantNext]_merchantVars =>
     (keyPage.open # 0 /\ keyPage'.open # keyPage.open => keyPage'.open = 0)
<1> SUFFICES ASSUME MerchantInv, MerchantNext, keyPage.open # 0, keyPage'.open # keyPage.open
             PROVE  keyPage'.open = 0
  BY DEF merchantVars
<1>0. keyPage \in KeyPages
  BY MerchantFacts
<1>1. CASE Move
  BY <1>1 DEF Move, FreshKeyPage
<1>2. CASE Dismiss
  BY <1>0, <1>2 DEF Dismiss, KeyPages
<1>3. ASSUME NEW c \in merchantCalls, Created(c) PROVE FALSE
  <2>1. CASE c.own
    BY <1>3, <2>1 DEF Created, Settled, Creations, MerchantInv, CreationsOK
  <2>2. CASE ~ c.own
    BY <1>0, <1>3, <2>2 DEF Created, KeyPages
  <2>3. QED
    BY <2>1, <2>2
<1>4. ASSUME ~ Move, ~ Dismiss, \A c \in merchantCalls : ~ Created(c)
      PROVE  keyPage'.open = keyPage.open
  BY <1>0, <1>4
     DEF MerchantNext, TypeName, Generate, Revoke, ListKeys, CopySecret, CopiedOver, ToggleDialog,
         TypeAmount, CreatePolicy, ListPolicies, ServeMerchant, DropCall, Revoked, PolicyCreated,
         KeyPages
<1>5. QED
  BY <1>1, <1>2, <1>3, <1>4

\* The one look at the secret of a new key lasts until the merchant ends it: no answer
\* that arrives meanwhile puts another key, or nothing, in its place.
THEOREM KeyIsShown == MerchantSpec => []MerchantTypeOK /\ KeyStaysOpen
<1>1. MerchantInv => MerchantTypeOK
  BY DEF MerchantInv
<1>2. MerchantInv /\ [MerchantNext]_merchantVars =>
         [keyPage.open # 0 /\ keyPage'.open # keyPage.open => keyPage'.open = 0]_merchantVars
  BY KeyStays
<1>3. QED
  BY MerchantStart, MerchantStep, <1>1, <1>2, PTL DEF MerchantSpec, KeyStaysOpen

-----------------------------------------------------------------------------
(* The tables of the merchant. *)

LEMMA TablesStart == TableInit => TablesInv
BY DEF TableInit, TablesInv

LEMMA TablesStep == TablesInv /\ [TableNext]_tableVars => TablesInv'
<1> SUFFICES ASSUME TablesInv, [TableNext]_tableVars PROVE TablesInv'
  OBVIOUS
<1>1. CASE OpenTable \/ UNCHANGED tableVars
  BY <1>1 DEF TablesInv, OpenTable, tableVars
<1>2. CASE AskTable
  BY <1>2 DEF TablesInv, AskTable
<1>3. CASE DropAnswer
  BY <1>3 DEF TablesInv, DropAnswer
<1>4. ASSUME NEW q \in questions, TableAnswer(q) PROVE TablesInv'
  BY <1>4 DEF TablesInv, TableAnswer
<1>5. ASSUME NEW q \in questions, TableFailed(q) PROVE TablesInv'
  BY <1>5 DEF TablesInv, TableFailed
<1>6. QED
  BY <1>1, <1>2, <1>3, <1>4, <1>5 DEF TableNext

LEMMA TablesGoal == TablesInv => TableTypeOK /\ OwnRows
<1> SUFFICES ASSUME TablesInv PROVE TableTypeOK /\ OwnRows
  OBVIOUS
<1>1. Displayed(table) \in {"missing", "loading", "rows", "empty"}
  BY DEF Displayed
<1>2. \A a \in AnswerOf(table) : a.of = table
  BY DEF AnswerOf, TablesInv, TableKey
<1>3. QED
  BY <1>1, <1>2 DEF TablesInv, TableTypeOK, OwnRows

\* The rows a table shows were asked for by that table, however fast the merchant goes
\* from one to the next and however late the answers come.
THEOREM TablesSafe == TablesSpec => [](TableTypeOK /\ OwnRows)
BY TablesStart, TablesStep, TablesGoal, PTL DEF TablesSpec
=============================================================================
