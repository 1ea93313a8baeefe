--------------------------- MODULE ExtractorProofs ---------------------------
(***************************************************************************)
(* What the extractors place, file, confirm, download and report is what   *)
(* was asked for: for any number of calls, orders, claims, trades, policy  *)
(* portals, frames and files.                                              *)
(*                                                                         *)
(* Each property compares what a call has done with what it was asked; in  *)
(* between lies a tab that others have used.  So each invariant says, for  *)
(* every step of a call that has the tab to itself, what the tab shows and *)
(* what may still land on it; and for a call that does not, nothing but    *)
(* its own record.  A step of one call leaves the others' part as it was:  *)
(* two that are at work are neither of them alone (OrderMoves, ClaimMoves).*)
(* At the end server and extractors are put side by side.                  *)
(***************************************************************************)
EXTENDS BrowserTools, McpServerProofs, FiniteSetTheorems, TLAPS

-----------------------------------------------------------------------------
(* Orders.                                                                 *)

Early    == {"await", "acquire", "side", "lot", "reacquire", "side again", "lot again", "preview"}
Filling  == {"acquire", "side", "lot", "reacquire", "side again", "lot again", "preview"}
Looking  == {"look", "resubmit", "look again"}
Deciding == {"judge", "password", "fill password", "confirm"}

Coming(view) == coming # None /\ coming.view = view

(* The tab of a call that drives it alone, from step to step: what it has  *)
(* filled in stays, as long as its handle is good; a form that comes later *)
(* is an empty one, of which COL makes no preview; and a preview comes     *)
(* only to the form that it has seen.                                      *)
TabOf(c) ==
  /\ step[c] \in Early /\ coming # None =>
       coming.view \in {"form", "closed"} /\ coming.order = Untouched
  /\ step[c] \in Filling => doc.view # "preview"
  /\ step[c] \in {"lot", "lot again"} /\ Holds(c, "form") => doc.order.side = Wanted[c].side
  /\ step[c] = "preview" /\ Holds(c, "form") => doc.order = Wanted[c]
  /\ step[c] \in Looking =>
       /\ doc.view = "form" => doc.order \in {Wanted[c], Untouched}
       /\ Coming("form") => coming.order = Untouched
  /\ step[c] \in Looking \cup Deciding =>
       /\ doc.view = "preview" => handle[c] = "held" /\ doc.order = Wanted[c]
       /\ Coming("preview") => /\ handle[c] = "held" /\ coming.order = Wanted[c]
                               /\ doc.view = "form"
  /\ step[c] \in Deciding /\ ~Stops(c) /\ doc.view = "preview" => shown[c].order = Wanted[c]
  /\ step[c] \in Deciding /\ ~Stops(c) => ~Coming("preview")

(* What a call has placed: the three parts of OrdersAsAsked for one call,  *)
(* and nothing before its click on Confirm.                                *)
PlacedRight(c) ==
  /\ step[c] \notin {"read", "done"} => PlacedBy(c) = {}
  /\ Kind[c] # "real" \/ answer[c] \in {"refused", "dry_run", "diagnosed"} => PlacedBy(c) = {}
  /\ \A i, j \in PlacedBy(c) : i = j
  /\ \A i \in PlacedBy(c) :
       alone[c] => broker[i].order = Wanted[c] /\ broker[i].order = shown[c].order

(* A call confirms only what it has judged a preview, and only for real.   *)
Confirming(c) ==
  /\ step[c] # "done" => answer[c] \in {"none", "timeout"}
  /\ step[c] \in {"password", "fill password", "confirm", "read"} => Kind[c] = "real"
  /\ step[c] \in {"password", "fill password", "confirm"} => ~Stops(c)

OrderOf(c) ==
  /\ Confirming(c) /\ PlacedRight(c)
  /\ alone[c] /\ c \in Driving => Driving = {c} /\ TabOf(c)

OrdersInv == OrdersTypeOK /\ \A c \in OrderCalls : OrderOf(c)

LEMMA PageFacts ==
  ASSUME NEW framed \in BOOLEAN,
         NEW view \in {"form", "preview", "receipt", "error", "blank", "closed", "other"}
  PROVE  /\ Untouched \in Order /\ ~ValidOrder(Untouched) /\ Page(view, framed) \in Document
         /\ Page(view, framed).view = view /\ Page(view, framed).order = Untouched
<1>1. Untouched \in Order /\ Untouched.lot = 0
  BY OrderAssumption DEF Untouched, Order
<1> QED BY <1>1 DEF Page, Document, ValidOrder

(* A page that shows the order of another one.                             *)
LEMMA PageWith ==
  ASSUME NEW page \in Document,
         NEW view \in {"form", "preview", "receipt", "error", "blank", "closed", "other"}
  PROVE  /\ [page EXCEPT !.view = view] \in Document
         /\ [page EXCEPT !.view = view].view = view
         /\ [page EXCEPT !.view = view].order = page.order
  BY DEF Document

LEMMA GotoFacts ==
  ASSUME OrdersTypeOK, NEW c \in OrderCalls, NEW next \in Steps, Goto(c, next)
  PROVE  /\ step' \in [OrderCalls -> Steps] /\ step'[c] = next
         /\ \A d \in OrderCalls : d # c => step'[d] = step[d]
  BY DEF OrdersTypeOK, Goto

LEMMA AnsweredFacts ==
  ASSUME OrdersTypeOK, NEW c \in OrderCalls, NEW what \in Answers, Answered(c, what)
  PROVE  /\ step' \in [OrderCalls -> Steps] /\ step'[c] = "done"
         /\ answer' \in [OrderCalls -> Answers] /\ answer'[c] \in {answer[c], what}
         /\ \A d \in OrderCalls : d # c => step'[d] = step[d] /\ answer'[d] = answer[d]
<1>1. "done" \in Steps
  BY DEF Steps
<1> QED BY <1>1 DEF OrdersTypeOK, Goto, Answered

LEMMA BrokerGrows ==
  ASSUME OrdersTypeOK, NEW c \in OrderCalls,
         broker' = Append(broker, [by |-> c, order |-> doc.order])
  PROVE  /\ broker' \in Seq([by : OrderCalls, order : Order])
         /\ \A d \in OrderCalls : \A i \in PlacedBy(d) : broker'[i] = broker[i]
         /\ \A d \in OrderCalls \ {c} : PlacedBy(d)' = PlacedBy(d)
         /\ PlacedBy(c)' = PlacedBy(c) \cup {Len(broker) + 1}
         /\ broker'[Len(broker) + 1].order = doc.order
<1> DEFINE e == [by |-> c, order |-> doc.order]
<1>1. e \in [by : OrderCalls, order : Order] /\ broker \in Seq([by : OrderCalls, order : Order])
      /\ e.by = c /\ e.order = doc.order
  BY DEF OrdersTypeOK, Document
<1> HIDE DEF e
<1>2. broker' = Append(broker, e)
  BY DEF e
<1>3. /\ broker' \in Seq([by : OrderCalls, order : Order]) /\ DOMAIN broker = 1..Len(broker)
      /\ DOMAIN broker' = 1..(Len(broker) + 1) /\ Len(broker) \in Nat
      /\ broker'[Len(broker) + 1] = e /\ \A i \in 1..Len(broker) : broker'[i] = broker[i]
  BY <1>1, <1>2
<1>4. ASSUME NEW i \in DOMAIN broker'
      PROVE  \/ i \in DOMAIN broker /\ broker'[i] = broker[i]
             \/ i = Len(broker) + 1 /\ broker'[i] = e /\ i \notin DOMAIN broker
  BY <1>3
<1>5. \A i \in DOMAIN broker : i \in DOMAIN broker' /\ broker'[i] = broker[i]
  BY <1>3
<1>6. Len(broker) + 1 \in DOMAIN broker' /\ broker'[Len(broker) + 1].by = c
  BY <1>1, <1>3
<1>7. \A d \in OrderCalls \ {c} : PlacedBy(d)' = PlacedBy(d)
  BY <1>1, <1>4, <1>5 DEF PlacedBy
<1>8. PlacedBy(c)' = PlacedBy(c) \cup {Len(broker) + 1}
  BY <1>1, <1>4, <1>5, <1>6 DEF PlacedBy
<1> QED BY <1>1, <1>3, <1>5, <1>7, <1>8 DEF PlacedBy

(* A step of call c: the others that are at work are not alone.            *)
LEMMA OrderMoves ==
  ASSUME OrdersInv, NEW c \in OrderCalls, c \in Driving, OrdersTypeOK', alone' = alone,
         \A d \in OrderCalls : d # c =>
           /\ step'[d] = step[d] /\ answer'[d] = answer[d] /\ shown'[d] = shown[d]
           /\ PlacedBy(d)' = PlacedBy(d) /\ \A i \in PlacedBy(d) : broker'[i] = broker[i],
         Confirming(c)', PlacedRight(c)', alone[c] /\ c \in Driving' => TabOf(c)'
  PROVE  OrdersInv'
<1> SUFFICES ASSUME NEW d \in OrderCalls PROVE OrderOf(d)'
  BY DEF OrdersInv
<1>1. CASE d = c
  <2>1. alone[c] /\ c \in Driving' => Driving' = {c}
    <3>1. alone[c] => Driving = {c}
      BY DEF OrdersInv, OrderOf
    <3> QED BY <3>1 DEF Driving
  <2> QED BY <1>1, <2>1 DEF OrderOf
<1>2. CASE d # c
  <2>1. ~(alone[d] /\ d \in Driving')
    <3>1. alone[d] /\ d \in Driving => Driving = {d}
      BY DEF OrdersInv, OrderOf
    <3> QED BY <1>2, <3>1 DEF Driving
  <2>2. OrderOf(d) /\ step'[d] = step[d] /\ answer'[d] = answer[d] /\ shown'[d] = shown[d]
        /\ PlacedBy(d)' = PlacedBy(d) /\ \A i \in PlacedBy(d) : broker'[i] = broker[i]
    BY <1>2 DEF OrdersInv
  <2>3. PlacedRight(d)'
    BY <2>2 DEF OrderOf, PlacedRight
  <2>4. Confirming(d)'
    BY <2>2 DEF OrderOf, Confirming, Stops
  <2> QED BY <2>1, <2>3, <2>4 DEF OrderOf
<1> QED BY <1>1, <1>2

(* ... that places nothing.                                                *)
LEMMA OrderGoesOn ==
  ASSUME OrdersInv, NEW c \in OrderCalls, c \in Driving, OrdersTypeOK', alone' = alone,
         broker' = broker,
         \A d \in OrderCalls : d # c =>
           step'[d] = step[d] /\ answer'[d] = answer[d] /\ shown'[d] = shown[d],
         Confirming(c)', step'[c] # "read",
         step[c] = "read" => /\ step'[c] = "done" /\ shown'[c] = shown[c]
                             /\ answer'[c] \notin {"refused", "dry_run", "diagnosed"},
         alone[c] /\ c \in Driving' => TabOf(c)'
  PROVE  OrdersInv'
<1>1. \A d \in OrderCalls : PlacedBy(d)' = PlacedBy(d)
  BY DEF PlacedBy
<1>2. PlacedRight(c)
  BY DEF OrdersInv, OrderOf
<1>3. PlacedRight(c)'
  <2>1. CASE step[c] = "read"
    BY <1>1, <1>2, <2>1 DEF PlacedRight
  <2>2. CASE step[c] # "read"
    <3>1. PlacedBy(c)' = {}
      BY <1>1, <1>2, <2>2 DEF PlacedRight, Driving
    <3> QED BY <3>1 DEF PlacedRight
  <2> QED BY <2>1, <2>2
<1> QED BY <1>1, <1>3, OrderMoves

LEMMA OrdersInvInit == OrdersInit => OrdersInv
<1> SUFFICES ASSUME OrdersInit PROVE OrdersInv
  OBVIOUS
<1>1. OrdersTypeOK
  <2>1. doc \in Document /\ coming = None
    BY PageFacts DEF OrdersInit
  <2> QED BY <2>1 DEF OrdersInit, OrdersTypeOK, Steps, Answers
<1>2. \A c \in OrderCalls : step[c] = "idle" /\ answer[c] = "none" /\ PlacedBy(c) = {} /\ c \notin Driving
  <2>1. DOMAIN broker = {}
    BY DEF OrdersInit
  <2>2. \A c \in OrderCalls : PlacedBy(c) = {}
    BY <2>1 DEF PlacedBy
  <2> QED BY <2>2 DEF OrdersInit, Driving
<1>3. ASSUME NEW c \in OrderCalls PROVE OrderOf(c)
  <2>1. PlacedRight(c)
    BY <1>2 DEF PlacedRight
  <2>2. Confirming(c)
    BY <1>2 DEF Confirming
  <2> QED BY <1>2, <2>1, <2>2 DEF OrderOf
<1> QED BY <1>1, <1>3 DEF OrdersInv

LEMMA OrderStartKeepsInv ==
  ASSUME OrdersInv, NEW c \in OrderCalls, StartOrder(c) PROVE OrdersInv'
<1>1. /\ OrdersTypeOK /\ step[c] = "idle" /\ UNCHANGED <<doc, coming, handle, shown, broker>>
      /\ (Goto(c, "home") /\ UNCHANGED answer) \/ Answered(c, "thrown")
      /\ alone' = [d \in OrderCalls |->
                 alone[d] /\ (d \in Driving \cup {c} => Driving \subseteq {c})]
  BY DEF OrdersInv, StartOrder
<1>2. /\ step' \in [OrderCalls -> Steps] /\ answer' \in [OrderCalls -> Answers]
      /\ \A d \in OrderCalls : d # c => step'[d] = step[d] /\ answer'[d] = answer[d]
      /\ \/ step'[c] = "home" /\ answer'[c] = answer[c]
         \/ step'[c] = "done" /\ answer'[c] \in {answer[c], "thrown"}
  <2>1. "home" \in Steps /\ "thrown" \in Answers /\ answer \in [OrderCalls -> Answers]
    BY <1>1 DEF Steps, Answers, OrdersTypeOK
  <2>2. CASE Goto(c, "home") /\ UNCHANGED answer
    BY <1>1, <2>1, <2>2, GotoFacts
  <2>3. CASE Answered(c, "thrown")
    BY <1>1, <2>1, <2>3, AnsweredFacts
  <2> QED BY <1>1, <2>2, <2>3
<1>3. /\ alone' \in [OrderCalls -> BOOLEAN]
      /\ \A d \in OrderCalls : alone'[d] => alone[d] /\ (d \in Driving \cup {c} => Driving \subseteq {c})
  <2>1. \A d \in OrderCalls :
          (alone[d] /\ (d \in Driving \cup {c} => Driving \subseteq {c})) \in BOOLEAN
    OBVIOUS
  <2> QED BY <1>1, <2>1
<1>4. OrdersTypeOK'
  BY <1>1, <1>2, <1>3 DEF OrdersTypeOK
<1>5. \A d \in OrderCalls : PlacedBy(d)' = PlacedBy(d)
  BY <1>1 DEF PlacedBy
<1>6. ASSUME NEW d \in OrderCalls PROVE OrderOf(d)'
  <2>1. Confirming(d) /\ PlacedRight(d)
    BY DEF OrdersInv, OrderOf
  <2>2. CASE d # c
    <3>1. Confirming(d)'
      BY <1>1, <1>2, <2>1, <2>2 DEF Confirming, Stops
    <3>2. PlacedRight(d)'
      BY <1>1, <1>2, <1>3, <1>5, <2>1, <2>2 DEF PlacedRight
    <3>3. ~(alone'[d] /\ d \in Driving')
      BY <1>2, <1>3, <2>2 DEF Driving
    <3> QED BY <3>1, <3>2, <3>3 DEF OrderOf
  <2>3. CASE d = c
    <3>1. Confirming(c)'
      BY <1>1, <1>2, <2>1, <2>3 DEF Confirming
    <3>2. PlacedRight(c)'
      BY <1>1, <1>2, <1>5, <2>1, <2>3 DEF PlacedRight
    <3>3. alone'[c] /\ c \in Driving' => Driving' = {c} /\ TabOf(c)'
      <4>1. alone'[c] /\ c \in Driving' => Driving' = {c} /\ step'[c] = "home"
        BY <1>1, <1>2, <1>3 DEF Driving
      <4> QED BY <4>1 DEF TabOf, Early, Filling, Looking, Deciding
    <3> QED BY <2>3, <3>1, <3>2, <3>3 DEF OrderOf
  <2> QED BY <2>2, <2>3
<1> QED BY <1>4, <1>6 DEF OrdersInv

LEMMA OrderTimeOutKeepsInv ==
  ASSUME OrdersInv, NEW c \in OrderCalls, OrderTimesOut(c) PROVE OrdersInv'
<1>1. /\ OrdersTypeOK /\ c \in Driving /\ answer' = [answer EXCEPT ![c] = "timeout"]
      /\ UNCHANGED <<doc, coming, step, handle, shown, broker, alone>>
  BY DEF OrdersInv, OrderTimesOut
<1>2. /\ OrdersTypeOK' /\ answer'[c] = "timeout" /\ \A d \in OrderCalls : d # c => answer'[d] = answer[d]
  BY <1>1 DEF OrdersTypeOK, Answers
<1>3. \A d \in OrderCalls : PlacedBy(d)' = PlacedBy(d) /\ \A i \in PlacedBy(d) : broker'[i] = broker[i]
  BY <1>1 DEF PlacedBy
<1>4. OrderOf(c)
  BY DEF OrdersInv
<1>5. Confirming(c)'
  BY <1>1, <1>2, <1>4 DEF OrderOf, Confirming, Stops
<1>6. PlacedRight(c)'
  BY <1>1, <1>2, <1>3, <1>4 DEF OrderOf, PlacedRight
<1>7. alone[c] => TabOf(c)'
  BY <1>1, <1>4 DEF OrderOf, TabOf, Holds, Coming, Stops
<1> QED BY <1>1, <1>2, <1>3, <1>5, <1>6, <1>7, OrderMoves

(* The frameset mounted anew, and a page that lands: no call moves, and    *)
(* each keeps what it has placed.                                          *)
LEMMA OrderPageKeepsInv ==
  ASSUME OrdersInv, OrdersTypeOK', UNCHANGED <<step, shown, answer, broker>>,
         \A c \in OrderCalls : alone'[c] => alone[c],
         \A c \in OrderCalls : alone'[c] /\ c \in Driving => TabOf(c)'
  PROVE  OrdersInv'
<1>1. ASSUME NEW c \in OrderCalls PROVE OrderOf(c)'
  <2>1. OrderOf(c) /\ PlacedBy(c)' = PlacedBy(c) /\ Driving' = Driving
    BY DEF OrdersInv, PlacedBy, Driving
  <2>2. Confirming(c)'
    BY <2>1 DEF OrderOf, Confirming, Stops
  <2>3. PlacedRight(c)'
    BY <2>1 DEF OrderOf, PlacedRight
  <2> QED BY <2>1, <2>2, <2>3 DEF OrderOf
<1> QED BY <1>1 DEF OrdersInv

LEMMA LandsKeepsInv == ASSUME OrdersInv, PageLands PROVE OrdersInv'
<1>1. /\ OrdersTypeOK /\ coming # None /\ doc' = coming /\ coming' = None
      /\ UNCHANGED <<step, handle, shown, answer, broker>>
      /\ alone' = [c \in OrderCalls |->
           alone[c] /\ ~(/\ coming.view = "form"
                         /\ step[c] \in {"side", "lot", "preview", "side again", "lot again"})]
  BY DEF OrdersInv, PageLands
<1>2. /\ alone' \in [OrderCalls -> BOOLEAN]
      /\ \A c \in OrderCalls : alone'[c] =>
           alone[c] /\ ~(/\ coming.view = "form"
                         /\ step[c] \in {"side", "lot", "preview", "side again", "lot again"})
  <2>1. \A c \in OrderCalls :
          (alone[c] /\ ~(coming.view = "form"
             /\ step[c] \in {"side", "lot", "preview", "side again", "lot again"})) \in BOOLEAN
    OBVIOUS
  <2> QED BY <1>1, <2>1
<1>3. OrdersTypeOK'
  BY <1>1, <1>2 DEF OrdersTypeOK
<1>4. ASSUME NEW c \in OrderCalls, alone'[c], c \in Driving PROVE TabOf(c)'
  <2>1. /\ TabOf(c)
        /\ ~(coming.view = "form" /\ step[c] \in {"side", "lot", "preview", "side again", "lot again"})
    BY <1>2, <1>4 DEF OrdersInv, OrderOf
  <2> QED BY <1>1, <2>1 DEF TabOf, Holds, Coming, Stops, Early, Filling, Looking, Deciding
<1> QED BY <1>1, <1>2, <1>3, <1>4, OrderPageKeepsInv

LEMMA RemountKeepsInv == ASSUME OrdersInv, Remount PROVE OrdersInv'
<1>1. /\ OrdersTypeOK /\ doc' = Page("form", TRUE) /\ coming' = None
      /\ handle' = [c \in OrderCalls |-> IF handle[c] = "held" THEN "detached" ELSE handle[c]]
      /\ UNCHANGED <<step, shown, answer, broker, alone>>
  BY DEF OrdersInv, Remount
<1>2. doc' \in Document /\ doc'.view = "form" /\ doc'.order = Untouched
  BY <1>1, PageFacts
<1>3. OrdersTypeOK' /\ \A c \in OrderCalls : handle'[c] # "held"
  BY <1>1, <1>2 DEF OrdersTypeOK
<1>4. ASSUME NEW c \in OrderCalls, alone'[c], c \in Driving PROVE TabOf(c)'
  BY <1>1, <1>2, <1>3 DEF TabOf, Holds, Coming, Stops, Early, Filling, Looking, Deciding
<1> QED BY <1>1, <1>3, <1>4, OrderPageKeepsInv

LEMMA DiagnoseKeepsInv == ASSUME OrdersInv, DiagnoseOrderForm PROVE OrdersInv'
<1>1. /\ OrdersTypeOK /\ coming' = None /\ UNCHANGED <<step, handle, shown, answer, broker>>
      /\ doc' \in {Page("other", doc.framed)} \cup (IF doc.framed THEN {Page("form", TRUE)} ELSE {})
      /\ alone' = [c \in OrderCalls |-> alone[c] /\ c \notin Driving]
  BY DEF OrdersInv, DiagnoseOrderForm, ActivateTradeLink
<1>2. doc' \in Document
  <2>1. doc.framed \in BOOLEAN
    BY <1>1 DEF OrdersTypeOK, Document
  <2> QED BY <1>1, <2>1, PageFacts
<1>3. alone' \in [OrderCalls -> BOOLEAN] /\ \A c \in OrderCalls : alone'[c] => alone[c] /\ c \notin Driving
  <2>1. \A c \in OrderCalls : (alone[c] /\ c \notin Driving) \in BOOLEAN
    OBVIOUS
  <2> QED BY <1>1, <2>1
<1>4. OrdersTypeOK'
  BY <1>1, <1>2, <1>3 DEF OrdersTypeOK
<1> QED BY <1>1, <1>3, <1>4, OrderPageKeepsInv

(* A step of call c that keeps a good tab, and what a step may do to it.   *)
LEMMA TurnFacts ==
  ASSUME OrdersInv, NEW c \in OrderCalls, step[c] \notin {"idle", "done"}
  PROVE  /\ OrdersTypeOK /\ c \in Driving /\ Confirming(c) /\ PlacedRight(c)
         /\ alone[c] => TabOf(c)
         /\ answer[c] \in {"none", "timeout"}
<1>1. c \in Driving /\ OrderOf(c)
  BY DEF OrdersInv, Driving
<1> QED BY <1>1 DEF OrdersInv, OrderOf, Confirming

(* A call that goes on, on the tab as its step has left it.                *)
LEMMA GoesTo ==
  ASSUME OrdersInv, NEW c \in OrderCalls, step[c] \notin {"idle", "done", "read"},
         NEW next \in Steps \ {"done", "read"}, Goto(c, next),
         UNCHANGED <<answer, broker, alone>>,
         doc' \in Document, coming' \in Document \cup {None},
         handle' \in [OrderCalls -> {"none", "held", "detached"}],
         shown' \in [OrderCalls -> Document \cup {None}],
         \A d \in OrderCalls : d # c => shown'[d] = shown[d],
         next \in {"password", "fill password", "confirm"} => Kind[c] = "real" /\ ~Stops(c)',
         alone[c] => TabOf(c)'
  PROVE  OrdersInv'
<1>1. /\ step' \in [OrderCalls -> Steps] /\ step'[c] = next
      /\ \A d \in OrderCalls : d # c => step'[d] = step[d]
  BY GotoFacts DEF OrdersInv
<1>2. OrdersTypeOK'
  BY <1>1 DEF OrdersInv, OrdersTypeOK
<1>3. Confirming(c)'
  BY <1>1, TurnFacts DEF Confirming
<1> QED BY <1>1, <1>2, <1>3, TurnFacts, OrderGoesOn

(* A call that ends.                                                       *)
LEMMA EndsWith ==
  ASSUME OrdersInv, NEW c \in OrderCalls, step[c] \notin {"idle", "done"},
         NEW what \in Answers, Answered(c, what), UNCHANGED <<broker, alone, handle, shown>>,
         doc' \in Document, coming' \in Document \cup {None},
         step[c] = "read" => what \in {"rejected", "ok"}
  PROVE  OrdersInv'
<1>1. /\ step' \in [OrderCalls -> Steps] /\ step'[c] = "done"
      /\ answer' \in [OrderCalls -> Answers] /\ answer'[c] \in {answer[c], what}
      /\ \A d \in OrderCalls : d # c => step'[d] = step[d] /\ answer'[d] = answer[d]
  BY AnsweredFacts DEF OrdersInv
<1>2. OrdersTypeOK'
  BY <1>1 DEF OrdersInv, OrdersTypeOK
<1>3. Confirming(c)' /\ c \notin Driving'
  BY <1>1 DEF Confirming, Driving
<1>4. step[c] = "read" => answer'[c] \notin {"refused", "dry_run", "diagnosed"}
  BY <1>1, TurnFacts
<1> QED BY <1>1, <1>2, <1>3, <1>4, TurnFacts, OrderGoesOn

LEMMA NavigationKeepsInv ==
  ASSUME OrdersInv, NEW c \in OrderCalls,
         GoHome(c) \/ Getwin(c) \/ AwaitForm(c) \/ DirectGoto(c) \/ AcquireForm(c)
  PROVE  OrdersInv'
<1>1. /\ step[c] \in {"home", "getwin", "await", "direct", "acquire", "reacquire"}
      /\ UNCHANGED <<broker, alone, shown>>
  BY DEF GoHome, Getwin, AwaitForm, DirectGoto, AcquireForm, OnlyStep, NoPage
<1>2. /\ OrdersTypeOK /\ doc \in Document /\ doc.framed \in BOOLEAN /\ coming \in Document \cup {None}
      /\ handle \in [OrderCalls -> {"none", "held", "detached"}]
      /\ shown \in [OrderCalls -> Document \cup {None}]
      /\ alone[c] => TabOf(c)
  BY <1>1, TurnFacts DEF OrdersTypeOK, Document
<1>3. {"getwin", "await", "direct", "acquire", "side", "side again"} \subseteq Steps \ {"done", "read"}
      /\ {"refused", "thrown"} \subseteq Answers
  BY DEF Steps, Answers
<1>4. CASE GoHome(c)
  <2>1. /\ Goto(c, "getwin") /\ UNCHANGED <<answer, handle>>
        /\ UNCHANGED <<doc, coming>> \/ (doc' = Page("other", TRUE) /\ coming' = None)
    BY <1>4 DEF GoHome
  <2>2. doc' \in Document /\ coming' \in Document \cup {None}
    BY <1>2, <2>1, PageFacts
  <2>3. step'[c] = "getwin"
    BY <1>2, <1>3, <2>1, GotoFacts
  <2>4. TabOf(c)'
    BY <2>3 DEF TabOf, Early, Filling, Looking, Deciding
  <2> QED BY <1>1, <1>2, <1>3, <2>1, <2>2, <2>4, GoesTo
<1>5. CASE Getwin(c)
  <2>1. /\ UNCHANGED <<doc, answer, handle>>
        /\ \/ Goto(c, "await") /\ \E view \in {"form", "closed"} : coming' = Page(view, TRUE)
           \/ Goto(c, "direct") /\ UNCHANGED coming
    BY <1>5 DEF Getwin
  <2>2. CASE Goto(c, "await") /\ \E view \in {"form", "closed"} : coming' = Page(view, TRUE)
    <3>1. coming' \in Document /\ coming'.view \in {"form", "closed"} /\ coming'.order = Untouched
      BY <2>2, PageFacts
    <3>2. step'[c] = "await"
      BY <1>2, <1>3, <2>2, GotoFacts
    <3>3. TabOf(c)'
      BY <3>1, <3>2 DEF TabOf, Filling, Looking, Deciding
    <3> QED BY <1>1, <1>2, <1>3, <2>1, <2>2, <3>1, <3>3, GoesTo
  <2>3. CASE Goto(c, "direct") /\ UNCHANGED coming
    <3>1. step'[c] = "direct"
      BY <1>2, <1>3, <2>3, GotoFacts
    <3>2. TabOf(c)'
      BY <3>1 DEF TabOf, Early, Filling, Looking, Deciding
    <3> QED BY <1>1, <1>2, <1>3, <2>1, <2>3, <3>2, GoesTo
  <2> QED BY <2>1, <2>2, <2>3
<1>6. CASE AwaitForm(c)
  <2>1. /\ step[c] = "await" /\ UNCHANGED <<doc, coming, handle, answer>>
        /\ \/ doc.view = "form" /\ Goto(c, "acquire")
           \/ Goto(c, "direct")
    BY <1>6 DEF AwaitForm, OnlyStep
  <2>2. CASE doc.view = "form" /\ Goto(c, "acquire")
    <3>1. step'[c] = "acquire"
      BY <1>2, <1>3, <2>2, GotoFacts
    <3>2. alone[c] => TabOf(c)'
      BY <1>2, <2>1, <2>2, <3>1 DEF TabOf, Early, Filling, Looking, Deciding
    <3> QED BY <1>1, <1>2, <1>3, <2>1, <2>2, <3>2, GoesTo
  <2>3. CASE Goto(c, "direct")
    <3>1. step'[c] = "direct"
      BY <1>2, <1>3, <2>3, GotoFacts
    <3>2. TabOf(c)'
      BY <3>1 DEF TabOf, Early, Filling, Looking, Deciding
    <3> QED BY <1>1, <1>2, <1>3, <2>1, <2>3, <3>2, GoesTo
  <2> QED BY <2>1, <2>2, <2>3
<1>7. CASE DirectGoto(c)
  <2>1. /\ UNCHANGED handle
        /\ \/ doc' = Page("form", FALSE) /\ coming' = None /\ Goto(c, "acquire") /\ UNCHANGED answer
           \/ /\ \/ doc' \in {Page("closed", FALSE), Page("other", FALSE)} /\ coming' = None
                 \/ UNCHANGED <<doc, coming>>
              /\ Answered(c, "refused")
    BY <1>7 DEF DirectGoto
  <2>2. doc' \in Document /\ coming' \in Document \cup {None}
    BY <1>2, <2>1, PageFacts
  <2>3. CASE doc' = Page("form", FALSE) /\ coming' = None /\ Goto(c, "acquire") /\ UNCHANGED answer
    <3>1. step'[c] = "acquire" /\ doc'.view = "form"
      BY <1>2, <1>3, <2>3, GotoFacts, PageFacts
    <3>2. TabOf(c)'
      BY <2>3, <3>1 DEF TabOf, Looking, Deciding
    <3> QED BY <1>1, <1>2, <1>3, <2>1, <2>2, <2>3, <3>2, GoesTo
  <2>4. CASE Answered(c, "refused")
    BY <1>1, <1>3, <2>1, <2>2, <2>4, EndsWith
  <2> QED BY <2>1, <2>3, <2>4
<1>8. CASE AcquireForm(c)
  <2>1. /\ UNCHANGED <<doc, coming>>
        /\ \/ /\ doc.view = "form" /\ handle' = [handle EXCEPT ![c] = "held"] /\ UNCHANGED answer
              /\ step[c] \in {"acquire", "reacquire"}
              /\ Goto(c, "side") \/ Goto(c, "side again")
           \/ (Answered(c, "refused") \/ Answered(c, "thrown")) /\ UNCHANGED handle
    BY <1>8 DEF AcquireForm, NoPage
  <2>2. CASE (Answered(c, "refused") \/ Answered(c, "thrown")) /\ UNCHANGED handle
    BY <1>1, <1>2, <1>3, <2>1, <2>2, EndsWith
  <2>3. ASSUME doc.view = "form", handle' = [handle EXCEPT ![c] = "held"], UNCHANGED answer,
               step[c] \in {"acquire", "reacquire"},
               NEW next \in {"side", "side again"}, Goto(c, next)
        PROVE  OrdersInv'
    <3>1. step'[c] = next /\ handle' \in [OrderCalls -> {"none", "held", "detached"}]
      BY <1>2, <1>3, <2>3, GotoFacts
    <3>2. alone[c] => TabOf(c)'
      BY <1>2, <2>1, <2>3, <3>1 DEF TabOf, Early, Filling, Looking, Deciding
    <3> QED BY <1>1, <1>2, <1>3, <2>1, <2>3, <3>1, <3>2, GoesTo
  <2> QED BY <2>1, <2>2, <2>3
<1> QED BY <1>4, <1>5, <1>6, <1>7, <1>8

(* The form, and what COL makes of it.                                     *)
LEMMA FillKeepsInv ==
  ASSUME OrdersInv, NEW c \in OrderCalls, FillOrderForm(c)
  PROVE  OrdersInv'
<1>1. /\ step[c] \in {"side", "lot", "side again", "lot again"}
      /\ UNCHANGED <<broker, alone, shown, handle, coming>>
  BY DEF FillOrderForm, Fill, FillFails, NoPage
<1>2. /\ OrdersTypeOK /\ doc \in Document /\ coming \in Document \cup {None}
      /\ handle \in [OrderCalls -> {"none", "held", "detached"}]
      /\ shown \in [OrderCalls -> Document \cup {None}]
      /\ alone[c] => TabOf(c)
      /\ doc.order \in Order /\ Wanted[c] \in Order
  BY <1>1, TurnFacts, OrderAssumption DEF OrdersTypeOK, Document
<1>3. {"lot", "lot again", "preview", "reacquire"} \subseteq Steps \ {"done", "read"} /\ "thrown" \in Answers
  BY DEF Steps, Answers
<1>4. ASSUME NEW new \in Order, NEW next \in {"lot", "lot again", "preview"}, Fill(c, new, next),
             next # "preview" => new.side = Wanted[c].side,
             next = "preview" /\ alone[c] => new = Wanted[c]
      PROVE  OrdersInv'
  <2>1. doc' = [doc EXCEPT !.order = new] /\ Goto(c, next) /\ UNCHANGED answer /\ Holds(c, "form")
    BY <1>4 DEF Fill
  <2>2. doc' \in Document /\ doc'.order = new /\ doc'.view = doc.view
    BY <1>2, <2>1 DEF Document
  <2>3. step'[c] = next
    BY <1>2, <1>3, <2>1, GotoFacts
  <2>4. alone[c] => TabOf(c)'
    BY <1>1, <1>2, <1>4, <2>1, <2>2, <2>3 DEF TabOf, Holds, Early, Filling, Looking, Deciding
  <2> QED BY <1>1, <1>2, <1>3, <2>1, <2>2, <2>4, GoesTo
<1>5. CASE FillFails(c)
  <2>1. /\ (Goto(c, "reacquire") /\ UNCHANGED answer) \/ Answered(c, "thrown")
        /\ UNCHANGED doc
    BY <1>5 DEF FillFails, NoPage
  <2>2. CASE Answered(c, "thrown")
    BY <1>1, <1>2, <1>3, <2>1, <2>2, EndsWith
  <2>3. CASE Goto(c, "reacquire") /\ UNCHANGED answer
    <3>1. step'[c] = "reacquire"
      BY <1>2, <1>3, <2>3, GotoFacts
    <3>2. alone[c] => TabOf(c)'
      BY <1>1, <1>2, <2>1, <3>1 DEF TabOf, Early, Filling, Looking, Deciding
    <3> QED BY <1>1, <1>2, <1>3, <2>1, <2>3, <3>2, GoesTo
  <2> QED BY <2>1, <2>2, <2>3
<1>6. ASSUME NEW next \in {"lot", "lot again"}, Fill(c, [doc.order EXCEPT !.side = Wanted[c].side], next)
      PROVE  OrdersInv'
  <2>1. [doc.order EXCEPT !.side = Wanted[c].side] \in Order
        /\ [doc.order EXCEPT !.side = Wanted[c].side].side = Wanted[c].side
    BY <1>2 DEF Order
  <2> QED BY <1>4, <1>6, <2>1
<1>7. CASE step[c] \in {"lot", "lot again"} /\ Fill(c, [doc.order EXCEPT !.lot = Wanted[c].lot], "preview")
  <2>1. [doc.order EXCEPT !.lot = Wanted[c].lot] \in Order
    BY <1>2 DEF Order
  <2>2. alone[c] => doc.order.side = Wanted[c].side
    BY <1>2, <1>7 DEF TabOf, Fill
  <2>3. alone[c] => [doc.order EXCEPT !.lot = Wanted[c].lot] = Wanted[c]
    BY <1>2, <2>2 DEF Order
  <2> QED BY <1>4, <1>7, <2>1, <2>3
<1> QED BY <1>5, <1>6, <1>7 DEF FillOrderForm

(* What COL makes of the form that a call has seen: a preview of that very *)
(* form, and none of an empty one.                                         *)
LEMMA ResponseFacts ==
  ASSUME doc \in Document, doc.view = "form", NEW page \in Responses
  PROVE  /\ page \in Document
         /\ page.view = "form" => page.order = Untouched
         /\ page.view \in {"form", "error", "blank", "preview"}
         /\ page.view = "preview" => page.order = doc.order /\ ValidOrder(doc.order)
<1>1. doc.framed \in BOOLEAN
  BY DEF Document
<1>2. CASE page = Page("form", doc.framed)
  BY <1>1, <1>2, PageFacts
<1>3. CASE page = [doc EXCEPT !.view = "error"]
  <2>1. page \in Document /\ page.view = "error"
    BY <1>3, PageWith
  <2> QED BY <2>1
<1>4. CASE page = [doc EXCEPT !.view = "blank"]
  <2>1. page \in Document /\ page.view = "blank"
    BY <1>4, PageWith
  <2> QED BY <2>1
<1>5. CASE page = [doc EXCEPT !.view = "preview"] /\ ValidOrder(doc.order)
  <2>1. page \in Document /\ page.view = "preview" /\ page.order = doc.order
    BY <1>5, PageWith
  <2> QED BY <1>5, <2>1
<1> QED BY <1>2, <1>3, <1>4, <1>5 DEF Responses

LEMMA PreviewKeepsInv ==
  ASSUME OrdersInv, NEW c \in OrderCalls, ClickPreview(c) \/ Resubmit(c)
  PROVE  OrdersInv'
<1>1. step[c] \in {"preview", "resubmit"} /\ UNCHANGED <<doc, broker, alone, shown, handle>>
  BY DEF ClickPreview, Resubmit
<1>2. /\ OrdersTypeOK /\ doc \in Document /\ coming \in Document \cup {None}
      /\ handle \in [OrderCalls -> {"none", "held", "detached"}]
      /\ shown \in [OrderCalls -> Document \cup {None}]
      /\ alone[c] => TabOf(c)
  BY <1>1, TurnFacts DEF OrdersTypeOK
<1>3. {"look", "look again"} \subseteq Steps \ {"done", "read"} /\ "thrown" \in Answers
      /\ ~ValidOrder(Untouched)
  BY PageFacts DEF Steps, Answers
<1>4. CASE Answered(c, "thrown") /\ UNCHANGED coming
  BY <1>1, <1>2, <1>3, <1>4, EndsWith
<1>5. ASSUME NEW next \in {"look", "look again"}, Goto(c, next), UNCHANGED answer,
             step[c] = "preview" => Holds(c, "form"),
             UNCHANGED coming \/ (Holds(c, "form") /\ coming' \in Responses)
      PROVE  OrdersInv'
  <2>1. step'[c] = next
    BY <1>2, <1>3, <1>5, GotoFacts
  <2>2. CASE UNCHANGED coming
    <3>1. alone[c] => TabOf(c)'
      BY <1>1, <1>2, <1>5, <2>1, <2>2 DEF TabOf, Holds, Coming, Early, Filling, Looking, Deciding
    <3> QED BY <1>1, <1>2, <1>3, <1>5, <2>2, <3>1, GoesTo
  <2>3. CASE Holds(c, "form") /\ coming' \in Responses
    <3>1. /\ coming' \in Document
          /\ coming'.view = "form" => coming'.order = Untouched
          /\ coming'.view = "preview" => coming'.order = doc.order /\ ValidOrder(doc.order)
      BY <1>2, <2>3, ResponseFacts DEF Holds
    <3>2. alone[c] => doc.order \in {Wanted[c], Untouched}
      BY <1>1, <1>2, <2>3 DEF TabOf, Holds, Looking
    <3>3. alone[c] => TabOf(c)'
      BY <1>1, <1>3, <2>1, <2>3, <3>1, <3>2 DEF TabOf, Holds, Coming, Early, Filling, Looking, Deciding
    <3> QED BY <1>1, <1>2, <1>3, <1>5, <3>1, <3>3, GoesTo
  <2> QED BY <1>5, <2>2, <2>3
<1>6. \/ Answered(c, "thrown") /\ UNCHANGED coming
      \/ /\ UNCHANGED answer
         /\ Goto(c, "look") \/ Goto(c, "look again")
         /\ step[c] = "preview" => Holds(c, "form")
         /\ UNCHANGED coming \/ (Holds(c, "form") /\ coming' \in Responses)
  <2>1. CASE ClickPreview(c)
    BY <2>1 DEF ClickPreview
  <2>2. CASE Resubmit(c)
    BY <2>2 DEF Resubmit
  <2> QED BY <2>1, <2>2
<1> QED BY <1>4, <1>5, <1>6

LEMMA LookKeepsInv ==
  ASSUME OrdersInv, NEW c \in OrderCalls, Look(c)
  PROVE  OrdersInv'
<1>1. /\ step[c] \in {"look", "look again"}
      /\ UNCHANGED <<doc, coming, broker, alone, handle, answer>>
  BY DEF Look, NoPage
<1>2. /\ OrdersTypeOK /\ doc \in Document /\ coming \in Document \cup {None}
      /\ handle \in [OrderCalls -> {"none", "held", "detached"}]
      /\ shown \in [OrderCalls -> Document \cup {None}]
      /\ alone[c] => TabOf(c)
      /\ doc.framed \in BOOLEAN
  BY <1>1, TurnFacts DEF OrdersTypeOK, Document
<1>3. {"resubmit", "judge"} \subseteq Steps \ {"done", "read"}
  BY DEF Steps
<1>4. PICK snapshot \in Snapshots(c) :
       /\ shown' = [shown EXCEPT ![c] = snapshot]
       /\ Goto(c, IF step[c] = "look" /\ snapshot.view = "form" THEN "resubmit" ELSE "judge")
  BY DEF Look
<1>5. snapshot \in Document /\ (handle[c] = "held" /\ doc.view # "blank" => snapshot = doc)
  BY <1>2, PageFacts DEF Snapshots
<1>6. /\ shown' \in [OrderCalls -> Document \cup {None}] /\ shown'[c] = snapshot
      /\ \A d \in OrderCalls : d # c => shown'[d] = shown[d]
  BY <1>2, <1>4, <1>5
<1>7. CASE Goto(c, "resubmit")
  <2>1. step'[c] = "resubmit"
    BY <1>2, <1>3, <1>7, GotoFacts
  <2>2. alone[c] => TabOf(c)'
    BY <1>1, <1>2, <2>1 DEF TabOf, Coming, Early, Filling, Looking, Deciding
  <2> QED BY <1>1, <1>2, <1>3, <1>6, <1>7, <2>2, GoesTo
<1>8. CASE Goto(c, "judge")
  <2>1. step'[c] = "judge"
    BY <1>2, <1>3, <1>8, GotoFacts
  <2>2. alone[c] => /\ doc.view = "preview" => handle[c] = "held" /\ doc.order = Wanted[c]
                    /\ Coming("preview") => /\ handle[c] = "held" /\ coming.order = Wanted[c]
                                            /\ doc.view = "form"
    BY <1>1, <1>2 DEF TabOf, Looking
  <2>3. alone[c] /\ Coming("preview") => Stops(c)'
    BY <1>5, <1>6, <2>2 DEF Stops
  <2>4. alone[c] /\ doc.view = "preview" => shown'[c].order = Wanted[c]
    BY <1>5, <1>6, <2>2
  <2>5. alone[c] => TabOf(c)'
    BY <1>1, <2>1, <2>2, <2>3, <2>4 DEF TabOf, Coming, Early, Filling, Looking
  <2> QED BY <1>1, <1>2, <1>3, <1>6, <1>8, <2>5, GoesTo
<1> QED BY <1>4, <1>7, <1>8

(* From the verdict to the click on Confirm.                               *)
LEMMA JudgeKeepsInv ==
  ASSUME OrdersInv, NEW c \in OrderCalls,
         \/ Judge(c) \/ Diagnose(c) \/ FindPassword(c) \/ FillPassword(c)
         \/ ConfirmFails(c) \/ ReadConfirmation(c)
  PROVE  OrdersInv'
<1>1. /\ step[c] \in {"judge", "password", "fill password", "confirm", "read"}
      /\ UNCHANGED <<doc, coming, broker, alone, shown>>
  BY DEF Judge, Diagnose, FindPassword, FillPassword, ConfirmFails, ReadConfirmation, NoPage
<1>2. /\ OrdersTypeOK /\ doc \in Document /\ coming \in Document \cup {None}
      /\ handle \in [OrderCalls -> {"none", "held", "detached"}]
      /\ shown \in [OrderCalls -> Document \cup {None}]
      /\ alone[c] => TabOf(c)
      /\ Confirming(c)
  BY <1>1, TurnFacts DEF OrdersTypeOK
<1>3. /\ {"password", "fill password", "confirm"} \subseteq Steps \ {"done", "read"}
      /\ {"refused", "dry_run", "diagnosed", "thrown", "rejected", "ok"} \subseteq Answers
  BY DEF Steps, Answers
<1>4. ASSUME NEW what \in {"refused", "dry_run", "diagnosed", "thrown", "rejected", "ok"},
             Answered(c, what), UNCHANGED handle, step[c] = "read" => what \in {"rejected", "ok"}
      PROVE  OrdersInv'
  BY <1>1, <1>2, <1>3, <1>4, EndsWith
<1>5. ASSUME NEW next \in {"password", "fill password", "confirm"}, Goto(c, next), UNCHANGED answer,
             step[c] \in {"judge", "password", "fill password"}, Kind[c] = "real", ~Stops(c),
             handle' \in {handle, [handle EXCEPT ![c] = "held"]}
      PROVE  OrdersInv'
  <2>1. /\ step'[c] = next /\ handle' \in [OrderCalls -> {"none", "held", "detached"}]
        /\ handle[c] = "held" => handle'[c] = "held"
    BY <1>2, <1>3, <1>5, GotoFacts
  <2>2. alone[c] => TabOf(c)'
    BY <1>1, <1>2, <1>5, <2>1 DEF TabOf, Stops, Coming, Early, Filling, Looking, Deciding
  <2>3. ~Stops(c)'
    BY <1>1, <1>5 DEF Stops
  <2> QED BY <1>1, <1>2, <1>3, <1>5, <2>1, <2>2, <2>3, GoesTo
<1>6. CASE Judge(c)
  <2>1. /\ step[c] = "judge" /\ UNCHANGED handle /\ Kind[c] # "diagnose"
        /\ \/ Answered(c, "refused")
           \/ Answered(c, "dry_run")
           \/ ~Stops(c) /\ Kind[c] # "dry" /\ Goto(c, "password") /\ UNCHANGED answer
    BY <1>6 DEF Judge
  <2>2. Kind[c] \in {"dry", "real", "diagnose"}
    BY OrderAssumption
  <2> QED BY <1>4, <1>5, <2>1, <2>2
<1>7. CASE Diagnose(c)
  <2>1. step[c] = "judge" /\ Answered(c, "diagnosed") /\ UNCHANGED handle
    BY <1>7 DEF Diagnose
  <2> QED BY <1>4, <2>1
<1>8. CASE FindPassword(c)
  <2>1. /\ step[c] = "password"
        /\ \/ handle' = [handle EXCEPT ![c] = "held"] /\ Goto(c, "fill password") /\ UNCHANGED answer
           \/ Answered(c, "refused") /\ UNCHANGED handle
    BY <1>8 DEF FindPassword
  <2>2. Kind[c] = "real" /\ ~Stops(c)
    BY <1>2, <2>1 DEF Confirming
  <2> QED BY <1>4, <1>5, <2>1, <2>2
<1>9. CASE FillPassword(c)
  <2>1. /\ step[c] = "fill password" /\ UNCHANGED handle
        /\ \/ Goto(c, "confirm") /\ UNCHANGED answer
           \/ Answered(c, "refused")
    BY <1>9 DEF FillPassword
  <2>2. Kind[c] = "real" /\ ~Stops(c)
    BY <1>2, <2>1 DEF Confirming
  <2> QED BY <1>4, <1>5, <2>1, <2>2
<1>10. CASE ConfirmFails(c)
  <2>1. step[c] = "confirm" /\ Answered(c, "thrown") /\ UNCHANGED handle
    BY <1>10 DEF ConfirmFails
  <2> QED BY <1>4, <2>1
<1>11. CASE ReadConfirmation(c)
  <2>1. UNCHANGED handle /\ (Answered(c, "rejected") \/ Answered(c, "ok"))
    BY <1>11 DEF ReadConfirmation
  <2> QED BY <1>4, <2>1
<1> QED BY <1>6, <1>7, <1>8, <1>9, <1>10, <1>11

(* The click on Confirm places what the preview shows, and it still shows  *)
(* what the call has judged.                                               *)
LEMMA ConfirmKeepsInv ==
  ASSUME OrdersInv, NEW c \in OrderCalls, Confirm(c)
  PROVE  OrdersInv'
<1>1. /\ step[c] = "confirm"
      /\ UNCHANGED <<doc, handle, shown, alone>>
      /\ \/ /\ doc.view = "preview"
            /\ broker' = Append(broker, [by |-> c, order |-> doc.order])
            /\ coming' = [doc EXCEPT !.view = "receipt"]
         \/ broker' = broker /\ coming' \in {[doc EXCEPT !.view = "error"], [doc EXCEPT !.view = "other"]}
      /\ (Goto(c, "read") /\ UNCHANGED answer) \/ Answered(c, "thrown")
  BY DEF Confirm
<1>2. /\ OrdersTypeOK /\ c \in Driving /\ doc \in Document /\ Confirming(c)
      /\ PlacedBy(c) = {} /\ (alone[c] => TabOf(c)) /\ answer[c] \in {"none", "timeout"}
  BY <1>1, TurnFacts DEF OrdersTypeOK, PlacedRight
<1>3. /\ step' \in [OrderCalls -> Steps] /\ step'[c] \in {"read", "done"}
      /\ answer' \in [OrderCalls -> Answers] /\ answer'[c] \in {"none", "timeout", "thrown"}
      /\ step'[c] = "read" => answer'[c] = answer[c]
      /\ \A d \in OrderCalls : d # c => step'[d] = step[d] /\ answer'[d] = answer[d]
  <2>1. "read" \in Steps /\ "thrown" \in Answers /\ answer \in [OrderCalls -> Answers]
    BY <1>2 DEF Steps, Answers, OrdersTypeOK
  <2>2. CASE Goto(c, "read") /\ UNCHANGED answer
    BY <1>2, <2>1, <2>2, GotoFacts
  <2>3. CASE Answered(c, "thrown")
    BY <1>2, <2>1, <2>3, AnsweredFacts
  <2> QED BY <1>1, <2>2, <2>3
<1>4. /\ coming' \in Document /\ broker' \in Seq([by : OrderCalls, order : Order])
      /\ \A d \in OrderCalls : d # c =>
           PlacedBy(d)' = PlacedBy(d) /\ \A i \in PlacedBy(d) : broker'[i] = broker[i]
      /\ \/ PlacedBy(c)' = {}
         \/ /\ PlacedBy(c)' = {Len(broker) + 1} /\ broker'[Len(broker) + 1].order = doc.order
            /\ doc.view = "preview"
  <2>1. CASE /\ broker' = Append(broker, [by |-> c, order |-> doc.order]) /\ doc.view = "preview"
             /\ coming' = [doc EXCEPT !.view = "receipt"]
    <3>1. coming' \in Document
      BY <1>2, <2>1, PageWith
    <3> QED BY <1>2, <2>1, <3>1, BrokerGrows
  <2>2. CASE broker' = broker /\ coming' \in {[doc EXCEPT !.view = "error"], [doc EXCEPT !.view = "other"]}
    <3>1. coming' \in Document
      BY <1>2, <2>2, PageWith
    <3>2. \A d \in OrderCalls : PlacedBy(d)' = PlacedBy(d)
      BY <2>2 DEF PlacedBy
    <3> QED BY <1>2, <2>2, <3>1, <3>2 DEF OrdersTypeOK
  <2> QED BY <1>1, <2>1, <2>2
<1>5. OrdersTypeOK'
  BY <1>1, <1>2, <1>3, <1>4 DEF OrdersTypeOK
<1>6. Kind[c] = "real" /\ ~Stops(c)
  BY <1>1, <1>2 DEF Confirming
<1>7. Confirming(c)'
  BY <1>2, <1>3, <1>6 DEF Confirming
<1>8. alone[c] /\ doc.view = "preview" => doc.order = Wanted[c] /\ shown[c].order = Wanted[c]
  BY <1>1, <1>2, <1>6 DEF TabOf, Deciding
<1>9. PlacedRight(c)'
  <2>1. \A i, j \in PlacedBy(c)' : i = j
    BY <1>4
  <2>2. \A i \in PlacedBy(c)' : broker'[i].order = doc.order /\ doc.view = "preview"
    BY <1>4
  <2> QED BY <1>1, <1>3, <1>6, <1>8, <2>1, <2>2 DEF PlacedRight
<1>10. TabOf(c)'
  BY <1>3 DEF TabOf, Early, Filling, Looking, Deciding
<1> QED BY <1>1, <1>2, <1>3, <1>4, <1>5, <1>7, <1>9, <1>10, OrderMoves

LEMMA OrdersInvStep == OrdersInv /\ [OrdersNext]_orderVars => OrdersInv'
<1> SUFFICES ASSUME OrdersInv, [OrdersNext]_orderVars PROVE OrdersInv'
  OBVIOUS
<1>1. CASE UNCHANGED orderVars
  <2>1. OrdersTypeOK'
    BY <1>1 DEF orderVars, OrdersInv, OrdersTypeOK
  <2>2. ASSUME NEW c \in OrderCalls, alone'[c], c \in Driving PROVE TabOf(c)'
    <3>1. TabOf(c)
      BY <1>1, <2>2 DEF orderVars, OrdersInv, OrderOf
    <3> QED BY <1>1, <3>1 DEF orderVars, TabOf, Holds, Coming, Stops
  <2> QED BY <1>1, <2>1, <2>2, OrderPageKeepsInv DEF orderVars
<1>2. ASSUME NEW c \in OrderCalls, StartOrder(c) \/ OrderTimesOut(c) \/ OrderStep(c) PROVE OrdersInv'
  BY <1>2, OrderStartKeepsInv, OrderTimeOutKeepsInv, NavigationKeepsInv, FillKeepsInv,
     PreviewKeepsInv, LookKeepsInv, JudgeKeepsInv, ConfirmKeepsInv DEF OrderStep
<1> QED BY <1>1, <1>2, LandsKeepsInv, RemountKeepsInv, DiagnoseKeepsInv DEF OrdersNext

(* Whatever the pages do and whichever calls overlap, a refusal, a dry run *)
(* and a diagnosis place nothing, a call places one order at most, and one *)
(* that had the tab to itself places the order that it was asked for and   *)
(* that its preview showed.                                                *)
THEOREM OrdersStayAsAsked == OrdersSpec => []OrdersAsAsked
<1>1. OrdersInv => OrdersAsAsked
  <2> SUFFICES ASSUME OrdersInv PROVE OrdersAsAsked
    OBVIOUS
  <2>1. \A c \in OrderCalls : PlacedRight(c)
    BY DEF OrdersInv, OrderOf
  <2>2. ASSUME NEW i \in DOMAIN broker
        PROVE  broker[i].by \in OrderCalls /\ i \in PlacedBy(broker[i].by)
    <3> DEFINE Placed == [by : OrderCalls, order : Order]
    <3>1. broker \in Seq(Placed)
      BY DEF OrdersInv, OrdersTypeOK
    <3>2. \A e \in Placed : e.by \in OrderCalls
      OBVIOUS
    <3> HIDE DEF Placed
    <3>3. broker[i] \in Placed
      BY <3>1
    <3> QED BY <3>2, <3>3 DEF PlacedBy
  <2>3. RefusedIsNotPlaced
    BY <2>1 DEF RefusedIsNotPlaced, PlacedRight
  <2>4. PlacedOnce
    BY <2>1, <2>2 DEF PlacedOnce, PlacedRight
  <2>5. PlacedAsAsked
    BY <2>1, <2>2 DEF PlacedAsAsked, PlacedRight
  <2> QED BY <2>3, <2>4, <2>5 DEF OrdersAsAsked
<1> QED BY <1>1, OrdersInvInit, OrdersInvStep, PTL DEF OrdersSpec

(* Every variable of the order form, its page and COL's book keeps its     *)
(* type.                                                                   *)
THEOREM OrdersAreTyped == OrdersSpec => []OrdersTypeOK
<1>1. OrdersInv => OrdersTypeOK
  BY DEF OrdersInv
<1> QED BY <1>1, OrdersInvInit, OrdersInvStep, PTL DEF OrdersSpec

-----------------------------------------------------------------------------
(* Totals.  A total is defined by recursion over a set of trades; that it  *)
(* is a number is shown by the smallest set for which it were not.         *)

(* A set of numbers has a least element: the sets 1..n are well-founded.   *)
LEMMA LeastNumber ==
  ASSUME NEW U, U \subseteq Nat, U # {}
  PROVE  \E m \in U : \A n \in U : m <= n
<1> DEFINE Upto == {1..n : n \in U}
<1>1. ASSUME NEW n \in Nat PROVE IsFiniteSet(1..n)
  BY FS_Interval
<1>2. Upto \subseteq FiniteSubsetsOf(Nat) /\ Upto # {}
  BY <1>1 DEF FiniteSubsetsOf
<1>3. PICK X \in Upto : \A Y \in Upto : <<Y, X>> \notin StrictSubsetOrdering(Nat)
  BY <1>2, WFMin, FS_StrictSubsetOrderingWellFounded
<1>4. PICK m \in U : X = 1..m
  OBVIOUS
<1>5. ASSUME NEW n \in U, n < m PROVE FALSE
  <2>1. 1..n \in Upto /\ 1..n \subseteq 1..m /\ m \in 1..m /\ m \notin 1..n
    BY <1>5
  <2>2. <<1..n, X>> \in (SUBSET Nat) \X (SUBSET Nat)
    BY <1>4, <1>5
  <2>3. <<1..n, X>> \in StrictSubsetOrdering(Nat)
    BY <1>4, <2>1, <2>2 DEF StrictSubsetOrdering
  <2> QED BY <1>3, <2>1, <2>3
<1> QED BY <1>5

Some(s) == CHOOSE x \in s : TRUE

IsSum(g, T) ==
  g = [s \in SUBSET T |-> IF s = {} THEN 0 ELSE Value[Some(s)] + g[s \ {Some(s)}]]

(* The sum of a set is what its recursive function gives for it.           *)
LEMMA SumIs ==
  ASSUME NEW T
  PROVE  Sum(T) = (CHOOSE g : IsSum(g, T))[T]
BY DEF Sum, MapThenSumSet, MapThenFoldSet, IsSum, Some

LEMMA SomeIsIn ==
  ASSUME NEW T \in SUBSET Trades, IsFiniteSet(T), NEW s \in SUBSET T, s # {}
  PROVE  /\ Some(s) \in s /\ Value[Some(s)] \in Nat
         /\ s \ {Some(s)} \in SUBSET T /\ s \ {Some(s)} # s
         /\ Cardinality(s) \in Nat /\ Cardinality(s \ {Some(s)}) = Cardinality(s) - 1
<1>1. Some(s) \in s
  BY DEF Some
<1>2. Value[Some(s)] \in Nat
  BY <1>1, AcknowledgeAssumption
<1>3. IsFiniteSet(s)
  BY FS_Subset
<1> QED BY <1>1, <1>2, <1>3, FS_CardinalityType, FS_RemoveElement

(* The recursive function exists: one that satisfies the equation for the  *)
(* sets of up to k trades gives one for those of up to k + 1.              *)
SumsUpTo(g, T, k) ==
  /\ g \in [SUBSET T -> Nat]
  /\ \A s \in SUBSET T : Cardinality(s) <= k =>
       g[s] = IF s = {} THEN 0 ELSE Value[Some(s)] + g[s \ {Some(s)}]

LEMMA SumsFromNone ==
  ASSUME NEW T \in SUBSET Trades, IsFiniteSet(T)
  PROVE  \E g : SumsUpTo(g, T, 0)
<1> DEFINE g == [s \in SUBSET T |-> 0]
<1>1. ASSUME NEW s \in SUBSET T, Cardinality(s) <= 0 PROVE s = {}
  BY <1>1, FS_Subset, FS_CardinalityType, FS_EmptySet
<1>2. g \in [SUBSET T -> Nat] /\ g[{}] = 0
  OBVIOUS
<1> HIDE DEF g
<1>3. SumsUpTo(g, T, 0)
  BY <1>1, <1>2 DEF SumsUpTo
<1> QED BY <1>3

LEMMA SumsOfOneMore ==
  ASSUME NEW T \in SUBSET Trades, IsFiniteSet(T), NEW k \in Nat, NEW g, SumsUpTo(g, T, k)
  PROVE  \E h : SumsUpTo(h, T, k + 1)
<1> DEFINE h == [s \in SUBSET T |-> IF s = {} THEN 0 ELSE Value[Some(s)] + g[s \ {Some(s)}]]
<1>1. g \in [SUBSET T -> Nat]
  BY DEF SumsUpTo
<1>2. h \in [SUBSET T -> Nat]
  <2>1. ASSUME NEW s \in SUBSET T, s # {} PROVE Value[Some(s)] + g[s \ {Some(s)}] \in Nat
    <3>1. Value[Some(s)] \in Nat /\ g[s \ {Some(s)}] \in Nat
      BY <1>1, <2>1, SomeIsIn
    <3> QED BY <3>1
  <2> QED BY <2>1
<1>3. \A s \in SUBSET T : h[s] = IF s = {} THEN 0 ELSE Value[Some(s)] + g[s \ {Some(s)}]
  OBVIOUS
<1> HIDE DEF h
<1>4. ASSUME NEW s \in SUBSET T, Cardinality(s) <= k + 1, s # {}
      PROVE  h[s] = Value[Some(s)] + h[s \ {Some(s)}]
  <2>1. s \ {Some(s)} \in SUBSET T /\ Cardinality(s \ {Some(s)}) <= k
    BY <1>4, SomeIsIn
  <2>2. h[s \ {Some(s)}] = g[s \ {Some(s)}]
    BY <1>3, <2>1 DEF SumsUpTo
  <2> QED BY <1>3, <1>4, <2>2
<1>5. SumsUpTo(h, T, k + 1)
  BY <1>2, <1>3, <1>4 DEF SumsUpTo
<1> QED BY <1>5

LEMMA SumExists ==
  ASSUME NEW T \in SUBSET Trades, IsFiniteSet(T)
  PROVE  \E g : IsSum(g, T)
<1> DEFINE Without == {k \in Nat : ~\E g : SumsUpTo(g, T, k)}
<1>1. ASSUME NEW k \in Nat PROVE \E g : SumsUpTo(g, T, k)
  <2> SUFFICES ASSUME Without # {} PROVE FALSE
    OBVIOUS
  <2>1. PICK m \in Without : \A n \in Without : m <= n
    BY LeastNumber
  <2>2. m # 0 /\ m - 1 \in Nat
    BY <2>1, SumsFromNone
  <2>3. PICK g : SumsUpTo(g, T, m - 1)
    BY <2>1, <2>2
  <2>4. \E h : SumsUpTo(h, T, m)
    BY <2>2, <2>3, SumsOfOneMore
  <2> QED BY <2>1, <2>4
<1>2. Cardinality(T) \in Nat /\ \A s \in SUBSET T : Cardinality(s) <= Cardinality(T)
  BY FS_CardinalityType, FS_Subset
<1>3. PICK g : SumsUpTo(g, T, Cardinality(T))
  BY <1>1, <1>2
<1>4. IsSum(g, T)
  BY <1>2, <1>3 DEF IsSum, SumsUpTo
<1> QED BY <1>4

(* What a set of trades comes to is a number.                              *)
LEMMA SumIsNumber ==
  ASSUME NEW T \in SUBSET Trades, IsFiniteSet(T)
  PROVE  Sum(T) \in Nat
<1> DEFINE g == CHOOSE f : IsSum(f, T)
           Wrong == {s \in SUBSET T : g[s] \notin Nat}
<1>1. IsSum(g, T)
  BY SumExists
<1> HIDE DEF g
<1>2. \A s \in SUBSET T : g[s] = IF s = {} THEN 0 ELSE Value[Some(s)] + g[s \ {Some(s)}]
  BY <1>1 DEF IsSum
<1>3. Wrong = {}
  <2> SUFFICES ASSUME Wrong # {} PROVE FALSE
    OBVIOUS
  <2>1. Wrong \subseteq FiniteSubsetsOf(T)
    BY FS_FiniteSubsetsOfFinite
  <2>2. PICK s \in Wrong : \A r \in Wrong : <<r, s>> \notin StrictSubsetOrdering(T)
    BY <2>1, WFMin, FS_StrictSubsetOrderingWellFounded
  <2>3. s # {}
    BY <1>2
  <2>4. /\ s \ {Some(s)} \in SUBSET T /\ s \ {Some(s)} # s /\ s \ {Some(s)} \subseteq s
        /\ Value[Some(s)] \in Nat
    BY <2>3, SomeIsIn
  <2>5. <<s \ {Some(s)}, s>> \in StrictSubsetOrdering(T)
    BY <2>4 DEF StrictSubsetOrdering
  <2>6. g[s \ {Some(s)}] \in Nat
    BY <2>2, <2>4, <2>5
  <2> QED BY <1>2, <2>3, <2>4, <2>6
<1> QED BY <1>3, SumIs DEF g

-----------------------------------------------------------------------------
(* The acknowledgement.                                                    *)

(* None of the trades that were agreed to has been confirmed.              *)
Unspent == agreed.trades \subseteq ledger

(* While the agreement is not spent, the list on the page holds its trades *)
(* and perhaps later ones.  The trades agreed to wait or were confirmed.   *)
AckInv ==
  /\ ledger \subseteq Trades /\ IsFiniteSet(ledger)
  /\ submit = NoList \/ submit \in Submissions
  /\ agreed.count = Cardinality(agreed.trades)
  /\ list # NoList => list \in [trades : SUBSET ledger, last : {"buy", "sell"}]
  /\ \A t \in agreed.trades : t \in ledger \/ \E c \in cleared : t \in c.trades
  /\ Unspent => /\ list # NoList => agreed.trades \subseteq list.trades
                /\ BeforeClick /\ ~submit.reloaded => list.trades = agreed.trades
  /\ BeforeClick => list # NoList /\ ledger # {}
  /\ AckedIsAgreed

LEMMA AckInvInit == AckInit => AckInv
<1> SUFFICES ASSUME AckInit PROVE AckInv
  OBVIOUS
<1>1. IsFiniteSet({}) /\ Cardinality({}) = 0
  BY FS_EmptySet
<1> QED BY <1>1 DEF AckInit, AckInv, NotAgreed, AckedIsAgreed, BeforeClick

LEMMA AckInvStep == AckInv /\ [AckNext]_ackVars => AckInv'
<1> SUFFICES ASSUME AckInv, [AckNext]_ackVars PROVE AckInv'
  OBVIOUS
<1>1. CASE UNCHANGED ackVars
  BY <1>1 DEF AckInv, ackVars, AckedIsAgreed, Unspent, BeforeClick
<1>2. ASSUME NEW t \in Trades, Execute(t) PROVE AckInv'
  <2>1. /\ ledger' = ledger \cup {t} /\ UNCHANGED <<list, inFrame, agreed, submit, cleared, outcome>>
        /\ \A c \in cleared : t \notin c.trades
    BY <1>2 DEF Execute
  <2>2. IsFiniteSet(ledger')
    BY <2>1, FS_AddElement DEF AckInv
  <2>3. Unspent' => Unspent
    BY <2>1 DEF AckInv, Unspent
  <2> QED BY <2>1, <2>2, <2>3 DEF AckInv, AckedIsAgreed, BeforeClick
<1>3. CASE LoadPage
  <2>1. /\ UNCHANGED <<ledger, inFrame, agreed, cleared, outcome>>
        /\ submit' = IF BeforeClick THEN [submit EXCEPT !.reloaded = TRUE] ELSE submit
    BY <1>3 DEF LoadPage
  <2>2. /\ submit' = NoList \/ submit' \in Submissions
        /\ BeforeClick' => submit'.reloaded /\ BeforeClick
    BY <2>1 DEF AckInv, BeforeClick, Submissions
  <2>3. CASE list' = NoList /\ ledger = {}
    <3>1. ~BeforeClick'
      BY <2>2, <2>3 DEF AckInv
    <3> QED BY <2>1, <2>2, <2>3, <3>1 DEF AckInv, AckedIsAgreed, Unspent
  <2>4. ASSUME NEW t \in ledger, list' = [trades |-> ledger, last |-> Side[t]] PROVE AckInv'
    <3>1. Side[t] \in {"buy", "sell"}
      BY AcknowledgeAssumption DEF AckInv
    <3>2. /\ list' \in [trades : SUBSET ledger, last : {"buy", "sell"}] /\ list'.trades = ledger
          /\ list' # NoList
      BY <2>4, <3>1, AcknowledgeAssumption DEF AckInv, Lists
    <3> QED BY <2>1, <2>2, <3>2 DEF AckInv, AckedIsAgreed, Unspent
  <2> QED BY <1>3, <2>3, <2>4 DEF LoadPage
<1>4. CASE GetPending
  <2>1. /\ submit = NoList /\ list # NoList /\ agreed' = Parsed(list)
        /\ UNCHANGED <<ledger, list, inFrame, submit, cleared, outcome>>
    BY <1>4 DEF GetPending, Overlay
  <2>2. agreed'.count = Cardinality(agreed'.trades) /\ agreed'.trades = list.trades
    BY <2>1 DEF Parsed
  <2> QED BY <2>1, <2>2 DEF AckInv, AckedIsAgreed, Unspent, BeforeClick
<1>5. ASSUME NEW bypass \in BOOLEAN, BeginSubmit(bypass) PROVE AckInv'
  <2>1. submit = NoList /\ UNCHANGED <<ledger, list, inFrame, agreed, cleared>>
    BY <1>5 DEF BeginSubmit
  <2>2. CASE submit' = submit
    BY <2>1, <2>2 DEF AckInv, AckedIsAgreed, Unspent, BeforeClick
  <2>3. CASE /\ Overlay /\ UnchangedList
             /\ submit' = [bypass |-> bypass, clicked |-> FALSE, reloaded |-> FALSE]
    <3>1. list # NoList /\ Cardinality(list.trades) = Cardinality(agreed.trades)
      BY <2>3 DEF Overlay, UnchangedList, Parsed, AckInv
    <3>2. IsFiniteSet(list.trades) /\ (Unspent => agreed.trades \subseteq list.trades)
      BY <3>1, FS_Subset DEF AckInv
    <3>3. Unspent => list.trades = agreed.trades
      BY <3>1, <3>2, FS_Subset
    <3>4. submit' \in Submissions
      BY <2>3 DEF Submissions
    <3>5. agreed.count > 0 /\ Cardinality({}) = 0 /\ list.trades \subseteq ledger
      BY <1>5, <3>1, FS_EmptySet DEF BeginSubmit, AckInv
    <3>6. ledger # {}
      BY <3>1, <3>5 DEF AckInv
    <3> QED BY <2>1, <3>1, <3>3, <3>4, <3>6 DEF AckInv, AckedIsAgreed, Unspent
  <2> QED BY <1>5, <2>2, <2>3 DEF BeginSubmit
<1>6. CASE SubmitRefused
  BY <1>6 DEF SubmitRefused, AckInv, AckedIsAgreed, Unspent, BeforeClick
<1>7. CASE Click
  <2> DEFINE new == [trades |-> list.trades, agreed |-> agreed.trades, bypass |-> submit.bypass,
                     reloaded |-> submit.reloaded, again |-> ~(agreed.trades \subseteq ledger)]
  <2>1. /\ BeforeClick /\ submit \in Submissions /\ list # NoList
        /\ submit' = [submit EXCEPT !.clicked = TRUE] /\ UNCHANGED <<inFrame, agreed, outcome>>
    BY <1>7 DEF Click, AckInv, BeforeClick
  <2>2. submit' \in Submissions /\ ~BeforeClick'
    BY <2>1 DEF Submissions, BeforeClick
  <2>3. CASE UNCHANGED <<cleared, ledger, list>>
    BY <2>1, <2>2, <2>3 DEF AckInv, AckedIsAgreed, Unspent
  <2>4. CASE cleared' = cleared \cup {new} /\ ledger' = ledger \ list.trades /\ list' = NoList
    <3>1. ledger' \subseteq ledger /\ IsFiniteSet(ledger')
      BY <2>4, FS_Subset DEF AckInv
    <3>2. /\ new.trades = list.trades /\ new.agreed = agreed.trades
          /\ new.reloaded = submit.reloaded /\ (~new.again <=> Unspent)
      BY DEF Unspent
    <3>3. ~new.again => new.agreed \subseteq new.trades /\ (new.trades # new.agreed => new.reloaded)
      BY <2>1, <3>2 DEF AckInv, Submissions
    <3> HIDE DEF new
    <3>4. AckedIsAgreed'
      BY <2>4, <3>3 DEF AckInv, AckedIsAgreed
    <3>5. \A t \in agreed.trades : t \in ledger' \/ \E c \in cleared' : t \in c.trades
      BY <2>4, <3>2 DEF AckInv
    <3> QED BY <2>1, <2>2, <2>4, <3>1, <3>4, <3>5 DEF AckInv
  <2> QED BY <1>7, <2>3, <2>4 DEF Click
<1>8. CASE CheckCleared
  <2>1. /\ submit # NoList /\ submit.clicked /\ submit' = NoList
        /\ UNCHANGED <<ledger, list, inFrame, cleared>>
        /\ \/ UNCHANGED agreed
           \/ agreed' = NotAgreed
    BY <1>8 DEF CheckCleared
  <2>2. NotAgreed.count = Cardinality(NotAgreed.trades) /\ NotAgreed.trades = {}
    BY FS_EmptySet DEF NotAgreed
  <2> HIDE DEF NotAgreed
  <2> QED BY <2>1, <2>2 DEF AckInv, AckedIsAgreed, Unspent, BeforeClick
<1> QED BY <1>1, <1>2, <1>3, <1>4, <1>5, <1>6, <1>7, <1>8 DEF AckNext

(* The trades that are confirmed at COL are those the user has agreed to,  *)
(* whatever is executed meanwhile: the list only grows until it is         *)
(* confirmed, so that an equal number of trades is the same trades, unless *)
(* the page is loaded after the comparison or a used agreement submitted   *)
(* again.                                                                  *)
THEOREM AgreementsHold == AckSpec => []AckedIsAgreed
<1>1. AckInv => AckedIsAgreed
  BY DEF AckInv
<1> QED BY <1>1, AckInvInit, AckInvStep, PTL DEF AckSpec

(* The rest of the types; the trades that are agreed to are trades.        *)
AckTypes ==
  /\ inFrame \in BOOLEAN
  /\ agreed \in [count : Nat, total : Nat, trades : SUBSET Trades]
  /\ cleared \subseteq Confirmations
  /\ outcome \in {"none", "refused", "not_cleared", "acknowledged"}

LEMMA ParsedTypes ==
  ASSUME NEW trades, trades \subseteq Trades, IsFiniteSet(trades), NEW side \in {"buy", "sell"}
  PROVE  Parsed([trades |-> trades, last |-> side])
           \in [count : Nat, total : Nat, trades : SUBSET Trades]
<1>1. Of(trades, side) \in SUBSET Trades /\ IsFiniteSet(Of(trades, side))
  BY FS_Subset DEF Of
<1>2. Sum(Of(trades, side)) \in Nat
  BY <1>1, SumIsNumber
<1>3. Cardinality(trades) \in Nat
  BY FS_CardinalityType
<1> QED BY <1>2, <1>3 DEF Parsed

LEMMA AckTypesStep == AckInv /\ AckTypes /\ [AckNext]_ackVars => AckTypes'
<1> SUFFICES ASSUME AckInv, AckTypes, [AckNext]_ackVars PROVE AckTypes'
  OBVIOUS
<1>1. CASE UNCHANGED <<inFrame, agreed, cleared, outcome>>
  BY <1>1 DEF AckTypes
<1>2. CASE GetPending
  <2>1. list \in [trades : SUBSET ledger, last : {"buy", "sell"}] /\ agreed' = Parsed(list)
    BY <1>2 DEF AckInv, GetPending, Overlay
  <2>2. /\ list.trades \subseteq Trades /\ IsFiniteSet(list.trades) /\ list.last \in {"buy", "sell"}
        /\ list = [trades |-> list.trades, last |-> list.last]
    BY <2>1, FS_Subset DEF AckInv
  <2>3. agreed' \in [count : Nat, total : Nat, trades : SUBSET Trades]
    BY <2>1, <2>2, ParsedTypes
  <2> QED BY <1>2, <2>3 DEF AckTypes, GetPending
<1>3. CASE Click
  <2> DEFINE new == [trades |-> list.trades, agreed |-> agreed.trades, bypass |-> submit.bypass,
                     reloaded |-> submit.reloaded, again |-> ~(agreed.trades \subseteq ledger)]
  <2>1. /\ submit \in Submissions
        /\ list # NoList /\ list.trades \subseteq Trades /\ agreed.trades \subseteq Trades
    BY <1>3 DEF Click, AckInv, AckTypes, BeforeClick
  <2>2. submit.bypass \in BOOLEAN /\ submit.reloaded \in BOOLEAN
    BY <2>1 DEF Submissions
  <2>3. new \in Confirmations
    BY <2>1, <2>2 DEF Confirmations
  <2>4. cleared' = cleared \/ cleared' = cleared \cup {new}
    BY <1>3 DEF Click
  <2> HIDE DEF new
  <2> QED BY <1>3, <2>3, <2>4 DEF AckTypes, Click
<1>4. CASE CheckCleared
  <2>1. NotAgreed \in [count : Nat, total : Nat, trades : SUBSET Trades]
    BY DEF NotAgreed
  <2> QED BY <1>4, <2>1 DEF CheckCleared, AckTypes
<1>5. CASE SubmitRefused \/ \E bypass \in BOOLEAN : BeginSubmit(bypass)
  BY <1>5 DEF SubmitRefused, BeginSubmit, AckTypes
<1> QED BY <1>1, <1>2, <1>3, <1>4, <1>5 DEF AckNext, LoadPage, Execute, ackVars

(* Every variable of the acknowledgement keeps its type; totals, which are *)
(* summed over the trades of a side, are numbers.                          *)
THEOREM AcknowledgementsAreTyped == AckSpec => []AckTypeOK
<1>1. AckInit => AckTypes
  BY DEF AckInit, AckTypes, NotAgreed
<1>2. AckInv /\ AckTypes => AckTypeOK
  BY DEF AckInv, AckTypes, AckTypeOK, Lists
<1> QED BY <1>1, <1>2, AckInvInit, AckInvStep, AckTypesStep, PTL DEF AckSpec

(* The high-value gate reads the total of one side: that of the list, if   *)
(* all its trades are of one.                                              *)
OneSided(trades) == \A t, u \in trades : Side[t] = Side[u]

GateInv ==
  /\ list # NoList => \E t \in list.trades : list.last = Side[t]
  /\ BeforeClick /\ ~submit.reloaded /\ OneSided(list.trades) /\ Sum(list.trades) > Threshold
       => submit.bypass
  /\ \A c \in cleared : ~c.reloaded /\ OneSided(c.trades) /\ Sum(c.trades) > Threshold => c.bypass

LEMMA GateInvStep == AckInv /\ GateInv /\ [AckNext]_ackVars => GateInv'
<1> SUFFICES ASSUME AckInv, GateInv, [AckNext]_ackVars PROVE GateInv'
  OBVIOUS
<1>1. CASE UNCHANGED <<list, submit, cleared>>
  BY <1>1 DEF GateInv, BeforeClick
<1>2. CASE LoadPage
  <2>1. BeforeClick' => submit'.reloaded
    BY <1>2 DEF LoadPage, BeforeClick, AckInv, Submissions
  <2>2. list' # NoList => \E t \in list'.trades : list'.last = Side[t]
    BY <1>2 DEF LoadPage
  <2> QED BY <1>2, <2>1, <2>2 DEF LoadPage, GateInv
<1>3. ASSUME NEW bypass \in BOOLEAN, BeginSubmit(bypass), submit' # submit PROVE GateInv'
  <2>1. /\ Overlay /\ (HighValue => bypass) /\ UNCHANGED <<list, cleared>>
        /\ submit' = [bypass |-> bypass, clicked |-> FALSE, reloaded |-> FALSE]
    BY <1>3 DEF BeginSubmit
  <2>2. OneSided(list.trades) => Of(list.trades, list.last) = list.trades
    BY <2>1 DEF GateInv, Overlay, OneSided, Of
  <2>3. OneSided(list.trades) /\ Sum(list.trades) > Threshold => HighValue
    BY <2>2 DEF HighValue, Parsed
  <2>4. submit'.bypass = bypass
    BY <2>1
  <2> QED BY <2>1, <2>3, <2>4 DEF GateInv
<1>4. CASE SubmitRefused \/ CheckCleared
  BY <1>4 DEF SubmitRefused, CheckCleared, GateInv, BeforeClick
<1>5. CASE Click
  <2> DEFINE new == [trades |-> list.trades, agreed |-> agreed.trades, bypass |-> submit.bypass,
                     reloaded |-> submit.reloaded, again |-> ~(agreed.trades \subseteq ledger)]
  <2>1. /\ BeforeClick /\ submit \in Submissions
        /\ submit' = [submit EXCEPT !.clicked = TRUE]
        /\ \/ cleared' = cleared \cup {new} /\ list' = NoList
           \/ cleared' = cleared /\ list' = list
    BY <1>5 DEF Click, AckInv, BeforeClick
  <2>2. ~BeforeClick'
    BY <2>1 DEF BeforeClick, Submissions
  <2>3. ~new.reloaded /\ OneSided(new.trades) /\ Sum(new.trades) > Threshold => new.bypass
    BY <2>1 DEF GateInv
  <2> HIDE DEF new
  <2> QED BY <2>1, <2>2, <2>3 DEF GateInv
<1> QED BY <1>1, <1>2, <1>3, <1>4, <1>5 DEF AckNext, GetPending, Execute, BeginSubmit, ackVars

(* The gate of submitAcknowledgment refuses a total above the threshold,   *)
(* unless it is waived, for every list whose trades are of one side and    *)
(* that is still the one on the page.  On a day with purchases and sales   *)
(* it reads the total of one of them.                                      *)
THEOREM GateHoldsForOneSide ==
  AckSpec => [](\A c \in cleared : ~c.reloaded /\ OneSided(c.trades) /\ Sum(c.trades) > Threshold => c.bypass)
<1>1. AckInit => GateInv
  BY DEF AckInit, GateInv, BeforeClick
<1>2. GateInv => \A c \in cleared : ~c.reloaded /\ OneSided(c.trades) /\ Sum(c.trades) > Threshold => c.bypass
  BY DEF GateInv
<1> QED BY <1>1, <1>2, AckInvInit, AckInvStep, GateInvStep, PTL DEF AckSpec

-----------------------------------------------------------------------------
(* The portfolio.                                                          *)

(* What has been found of the balances is of one reading.                  *)
PortfolioInv ==
  /\ balances.cash # Null /\ balances.equity # Null => balances.cash = balances.equity
  /\ BalancesAreOneReading

LEMMA PortfolioInvStep == PortfolioInv /\ [PortfolioNext]_portfolioVars => PortfolioInv'
<1> SUFFICES ASSUME PortfolioInv, [PortfolioNext]_portfolioVars PROVE PortfolioInv'
  OBVIOUS
<1>1. CASE UNCHANGED <<balances, result>>
  BY <1>1 DEF PortfolioInv, BalancesAreOneReading
<1>2. CASE ReadText
  <2>1. balances' \in (IF Complete THEN {balances} ELSE {balances, Keep(ParsedText)})
    BY <1>2 DEF ReadText
  <2>2. balances' \in {balances, ParsedText}
    BY <2>1 DEF Keep
  <2>3. balances'.cash # Null /\ balances'.equity # Null => balances'.cash = balances'.equity
    <3>1. ParsedText.cash \in {Here, Null} /\ ParsedText.equity \in {Here, Null}
      BY DEF ParsedText
    <3> QED BY <2>2, <3>1 DEF PortfolioInv
  <2>4. BalancesAreOneReading'
    <3>1. CASE result' = result
      BY <3>1 DEF PortfolioInv, BalancesAreOneReading
    <3>2. CASE result' = [status |-> "needs_extractor_update"]
      BY <3>2 DEF BalancesAreOneReading
    <3>3. CASE result' = [status |-> "ok", holdings |-> holdings, cash |-> balances'.cash,
                          equity |-> balances'.equity, computed |-> ComputesEquity(balances')]
      BY <2>3, <3>3 DEF BalancesAreOneReading
    <3> QED BY <1>2, <3>1, <3>2, <3>3 DEF ReadText
  <2> QED BY <2>3, <2>4 DEF PortfolioInv
<1> QED BY <1>1, <1>2 DEF PortfolioNext, ReadTable, Reload, portfolioVars

(* The cash and the equity that a portfolio shows are of one reading, for  *)
(* any number of frames and of loads: a frame with either replaces both.   *)
THEOREM PortfoliosAreConsistent == PortfolioSpec => []BalancesAreOneReading
<1>1. PortfolioInit => PortfolioInv
  BY DEF PortfolioInit, PortfolioInv, NoBalances, BalancesAreOneReading
<1>2. PortfolioInv => BalancesAreOneReading
  BY DEF PortfolioInv
<1> QED BY <1>1, <1>2, PortfolioInvStep, PTL DEF PortfolioSpec

LEMMA PortfolioTypesStep == PortfolioTypeOK /\ [PortfolioNext]_portfolioVars => PortfolioTypeOK'
<1> SUFFICES ASSUME PortfolioTypeOK, [PortfolioNext]_portfolioVars PROVE PortfolioTypeOK'
  OBVIOUS
<1> USE PortfolioAssumption
<1>0. at # 0 => at \in 1..Frames /\ Here \in Reading
  BY DEF PortfolioTypeOK, Here, Reading
<1>1. CASE UNCHANGED portfolioVars
  BY <1>1 DEF PortfolioTypeOK, portfolioVars
<1>2. CASE ReadTable
  BY <1>0, <1>2 DEF PortfolioTypeOK, ReadTable
<1>3. CASE ReadText
  <2>1. balances' \in (IF Complete THEN {balances} ELSE {balances, Keep(ParsedText)})
    BY <1>3 DEF ReadText
  <2>2. ParsedText \in Balances
    BY <1>0, <1>3 DEF ReadText, ParsedText, Balances
  <2>3. balances' \in Balances
    BY <2>1, <2>2 DEF Keep, PortfolioTypeOK
  <2>4. ComputesEquity(balances') \in BOOLEAN /\ balances'.cash \in Reading \cup {Null}
        /\ balances'.equity \in Reading \cup {Null}
    BY <2>3 DEF ComputesEquity, Balances
  <2>5. result' \in Result
    <3>1. CASE result' = result
      BY <3>1 DEF PortfolioTypeOK
    <3>2. CASE result' = [status |-> "needs_extractor_update"]
      BY <3>2 DEF Result
    <3>3. CASE /\ holdings # Null
               /\ result' = [status |-> "ok", holdings |-> holdings, cash |-> balances'.cash,
                             equity |-> balances'.equity, computed |-> ComputesEquity(balances')]
      BY <2>4, <3>3 DEF Result, PortfolioTypeOK
    <3> QED BY <1>3, <3>1, <3>2, <3>3 DEF ReadText
  <2>6. half' \in BOOLEAN /\ shows' = shows /\ load' = load /\ holdings' = holdings
    BY <1>3 DEF ReadText
  <2>7. at' \in 0..Frames
    <3>1. at \in 1..Frames
      BY <1>0, <1>3 DEF ReadText
    <3>2. at' = 0 \/ (at # Frames /\ at' = at + 1)
      BY <1>3 DEF ReadText
    <3> QED BY <3>1, <3>2, SMTT(30)
  <2>8. /\ shows \in [1..Frames -> SUBSET {"table", "cash", "equity"}]
        /\ load \in [1..Frames -> 0..MaxLoads] /\ holdings \in Reading \cup {Null}
    BY DEF PortfolioTypeOK
  <2> QED BY <2>8, <2>7, <2>3, <2>5, <2>6 DEF PortfolioTypeOK
<1>4. ASSUME NEW f \in 1..Frames, Reload(f) PROVE PortfolioTypeOK'
  <2>1. load' \in [1..Frames -> 0..MaxLoads]
    BY <1>4 DEF PortfolioTypeOK, Reload
  <2>2. shows' \in [1..Frames -> SUBSET {"table", "cash", "equity"}]
    BY <1>4 DEF PortfolioTypeOK, Reload
  <2> QED BY <1>4, <2>1, <2>2 DEF PortfolioTypeOK, Reload
<1> QED BY <1>1, <1>2, <1>3, <1>4 DEF PortfolioNext

(* Every variable of the portfolio keeps its type: a result that is ok has *)
(* holdings that were read.                                                *)
THEOREM PortfoliosAreTyped == PortfolioSpec => []PortfolioTypeOK
<1>1. ASSUME PortfolioInit PROVE PortfolioTypeOK
  <2>1. load \in [1..Frames -> 0..MaxLoads] /\ at \in 0..Frames
    BY <1>1, PortfolioAssumption DEF PortfolioInit
  <2>2. balances \in Balances
    BY <1>1 DEF PortfolioInit, NoBalances, Balances
  <2>3. result \in Result
    BY <1>1 DEF PortfolioInit, Result
  <2> QED BY <1>1, <2>1, <2>2, <2>3 DEF PortfolioInit, PortfolioTypeOK
<1> QED BY <1>1, PortfolioTypesStep, PTL DEF PortfolioSpec

-----------------------------------------------------------------------------
(* Claims.                                                                 *)

ClaimTypes ==
  /\ place \in Places /\ form \in Fields
  /\ task \in [ClaimCalls -> Tasks] /\ reply \in [ClaimCalls -> Replies]
  /\ filed \in Seq([by : ClaimCalls, fields : Fields]) /\ clean \in [ClaimCalls -> {"no", "reused", "fresh"}]

(* What the form holds, for a call that runs alone: its own required       *)
(* fields, and if it began without a form no optional fields of others.    *)
FormOf(c) ==
  /\ task[c] \in {"optional", "judge", "submit"} =>
       place = "form" /\ form.required = Given[c].required
  /\ clean[c] = "fresh" =>
       /\ task[c] \in {"route", "entry", "direct"} => place # "form"
       /\ task[c] \in {"required", "optional"} /\ place = "form" => form.optional = Empty
       /\ task[c] \in {"judge", "submit"} => form.optional \in {Given[c].optional, Empty}

FiledRight(c) ==
  /\ DryRun[c] \/ reply[c] \in {"refused", "dry_run", "thrown"} => FiledBy(c) = {}
  /\ \A i \in FiledBy(c) :
       /\ filed[i].fields.required = Given[c].required
       /\ clean[c] = "fresh" => filed[i].fields.optional \in {Given[c].optional, Empty}
  /\ \A i, j \in FiledBy(c) : i = j

ClaimOf(c) ==
  /\ task[c] = "idle" => clean[c] = "fresh"
  /\ task[c] # "done" => reply[c] \in {"none", "timeout"}
  /\ task[c] \in {"submit", "confirm"} => ~DryRun[c]
  /\ clean[c] # "no" => /\ c \in AtWork => AtWork = {c} /\ FormOf(c)
                        /\ task[c] \notin {"confirm", "done"} => FiledBy(c) = {}
                        /\ FiledRight(c)

ClaimsInv == ClaimTypes /\ \A c \in ClaimCalls : ClaimOf(c)

LEMMA FiledGrows ==
  ASSUME ClaimTypes, NEW c \in ClaimCalls, filed' = Append(filed, [by |-> c, fields |-> form])
  PROVE  /\ filed' \in Seq([by : ClaimCalls, fields : Fields])
         /\ \A d \in ClaimCalls : \A i \in FiledBy(d) : filed'[i] = filed[i]
         /\ \A d \in ClaimCalls \ {c} : FiledBy(d)' = FiledBy(d)
         /\ FiledBy(c)' = FiledBy(c) \cup {Len(filed) + 1}
         /\ filed'[Len(filed) + 1].fields = form
<1> DEFINE e == [by |-> c, fields |-> form]
<1>1. e \in [by : ClaimCalls, fields : Fields] /\ filed \in Seq([by : ClaimCalls, fields : Fields])
      /\ e.by = c /\ e.fields = form
  BY DEF ClaimTypes
<1> HIDE DEF e
<1>2. filed' = Append(filed, e)
  BY DEF e
<1>3. /\ filed' \in Seq([by : ClaimCalls, fields : Fields]) /\ DOMAIN filed = 1..Len(filed)
      /\ DOMAIN filed' = 1..(Len(filed) + 1) /\ Len(filed) \in Nat
      /\ filed'[Len(filed) + 1] = e /\ \A i \in 1..Len(filed) : filed'[i] = filed[i]
  BY <1>1, <1>2
<1>4. ASSUME NEW d \in ClaimCalls, NEW i \in DOMAIN filed'
      PROVE  \/ i \in DOMAIN filed /\ filed'[i] = filed[i]
             \/ i = Len(filed) + 1 /\ filed'[i] = e /\ i \notin DOMAIN filed
  BY <1>3
<1>5. \A i \in DOMAIN filed : i \in DOMAIN filed' /\ filed'[i] = filed[i]
  BY <1>3
<1>6. Len(filed) + 1 \in DOMAIN filed' /\ filed'[Len(filed) + 1].by = c
  BY <1>1, <1>3
<1>7. \A d \in ClaimCalls \ {c} : FiledBy(d)' = FiledBy(d)
  BY <1>1, <1>4, <1>5 DEF FiledBy
<1>8. FiledBy(c)' = FiledBy(c) \cup {Len(filed) + 1}
  BY <1>1, <1>4, <1>5, <1>6 DEF FiledBy
<1> QED BY <1>1, <1>3, <1>5, <1>7, <1>8 DEF FiledBy

(* A step of call c: the others that are at work are not clean.            *)
LEMMA ClaimMoves ==
  ASSUME ClaimsInv, NEW c \in ClaimCalls, c \in AtWork, ClaimTypes', clean'[c] \in {clean[c], "no"},
         \A d \in ClaimCalls : d # c =>
           /\ task'[d] = task[d] /\ reply'[d] = reply[d] /\ clean'[d] = clean[d]
           /\ FiledBy(d)' = FiledBy(d) /\ \A i \in FiledBy(d) : filed'[i] = filed[i],
         task'[c] # "idle", task'[c] # "done" => reply'[c] \in {"none", "timeout"},
         task'[c] \in {"submit", "confirm"} => ~DryRun[c],
         clean'[c] # "no" => /\ FormOf(c)' /\ FiledRight(c)'
                             /\ task'[c] \notin {"confirm", "done"} => FiledBy(c)' = {}
  PROVE  ClaimsInv'
<1> SUFFICES ASSUME NEW d \in ClaimCalls PROVE ClaimOf(d)'
  BY DEF ClaimsInv
<1>1. CASE d = c
  <2>1. clean'[c] # "no" /\ c \in AtWork' => AtWork' = {c}
    <3>1. clean'[c] # "no" => AtWork = {c}
      BY DEF ClaimsInv, ClaimOf
    <3> QED BY <3>1 DEF AtWork
  <2> QED BY <1>1, <2>1 DEF ClaimOf
<1>2. CASE d # c
  <2>1. clean[d] # "no" => d \notin AtWork /\ d \notin AtWork'
    <3>1. clean[d] # "no" /\ d \in AtWork => AtWork = {d}
      BY DEF ClaimsInv, ClaimOf
    <3> QED BY <1>2, <3>1 DEF AtWork
  <2>2. ClaimOf(d) /\ task'[d] = task[d] /\ reply'[d] = reply[d] /\ clean'[d] = clean[d]
        /\ FiledBy(d)' = FiledBy(d) /\ \A i \in FiledBy(d) : filed'[i] = filed[i]
    BY <1>2 DEF ClaimsInv
  <2>3. FiledRight(d) => FiledRight(d)'
    BY <2>2 DEF FiledRight
  <2> QED BY <2>1, <2>2, <2>3 DEF ClaimOf
<1> QED BY <1>1, <1>2

(* ... that files nothing, and does not end as a refusal that has filed.   *)
LEMMA ClaimGoesOn ==
  ASSUME ClaimsInv, NEW c \in ClaimCalls, c \in AtWork, ClaimTypes', clean' = clean, filed' = filed,
         \A d \in ClaimCalls : d # c => task'[d] = task[d] /\ reply'[d] = reply[d],
         task'[c] # "idle", task'[c] # "done" => reply'[c] \in {"none", "timeout"},
         task'[c] \in {"submit", "confirm"} => ~DryRun[c],
         task'[c] # "confirm",
         task[c] = "confirm" => reply'[c] \notin {"refused", "dry_run", "thrown"} /\ task'[c] = "done",
         clean[c] # "no" => FormOf(c)'
  PROVE  ClaimsInv'
<1>1. \A d \in ClaimCalls : FiledBy(d)' = FiledBy(d)
  BY DEF FiledBy
<1>2. ClaimOf(c)
  BY DEF ClaimsInv
<1>3. clean[c] # "no" => FiledRight(c)' /\ (task'[c] \notin {"confirm", "done"} => FiledBy(c)' = {})
  <2>1. CASE task[c] = "confirm"
    BY <1>1, <1>2, <2>1 DEF ClaimOf, FiledRight
  <2>2. CASE task[c] # "confirm"
    <3>1. clean[c] # "no" => FiledBy(c) = {}
      BY <1>2, <2>2 DEF ClaimOf, AtWork
    <3> QED BY <1>1, <3>1 DEF FiledRight
  <2> QED BY <2>1, <2>2
<1> QED BY <1>1, <1>3, ClaimMoves

LEMMA ClaimFields ==
  ASSUME NEW c \in ClaimCalls
  PROVE  /\ Given[c].required \in Claims /\ Given[c].optional \in Claims \cup {Empty}
         /\ BlankForm \in Fields /\ Given[c].required # Empty
  BY ClaimAssumption DEF Fields, BlankForm

(* The page after the steps that other calls may take on it.               *)
LEMMA PlaceTypes ==
  ASSUME ClaimTypes,
         \/ UNCHANGED <<place, form>>
         \/ \E p \in Places : LoadPlace(p)
         \/ \E r \in {"account", "policy", "documents", "list"} : GotoRoute(r)
  PROVE  place' \in Places /\ form' \in Fields
<1>1. BlankForm \in Fields
  BY DEF BlankForm, Fields
<1> QED BY <1>1 DEF ClaimTypes, LoadPlace, GotoRoute, Stay, Places

LEMMA ProceedFacts ==
  ASSUME ClaimTypes, NEW c \in ClaimCalls, NEW t \in Tasks, Proceed(c, t)
  PROVE  /\ task' \in [ClaimCalls -> Tasks] /\ reply' \in [ClaimCalls -> Replies] /\ task'[c] = t
         /\ reply' = reply /\ \A d \in ClaimCalls : d # c => task'[d] = task[d] /\ reply'[d] = reply[d]
  BY DEF ClaimTypes, Proceed

LEMMA ReplyFacts ==
  ASSUME ClaimTypes, NEW c \in ClaimCalls, NEW what \in Replies, Reply(c, what)
  PROVE  /\ task' \in [ClaimCalls -> Tasks] /\ reply' \in [ClaimCalls -> Replies]
         /\ task'[c] = "done" /\ reply'[c] \in {reply[c], what}
         /\ \A d \in ClaimCalls : d # c => task'[d] = task[d] /\ reply'[d] = reply[d]
  BY DEF ClaimTypes, Reply, Tasks

LEMMA ClaimsInvInit == ClaimsInit => ClaimsInv
<1> SUFFICES ASSUME ClaimsInit PROVE ClaimsInv
  OBVIOUS
<1>1. ClaimTypes
  BY DEF ClaimsInit, ClaimTypes, Places, Fields, BlankForm, Tasks, Replies
<1>2. \A c \in ClaimCalls : /\ task[c] = "idle" /\ reply[c] = "none" /\ FiledBy(c) = {} /\ c \notin AtWork
                             /\ clean[c] = "fresh"
  BY DEF ClaimsInit, FiledBy, AtWork
<1> QED BY <1>1, <1>2 DEF ClaimsInv, ClaimOf, FiledRight

LEMMA OverlappedFacts ==
  ASSUME ClaimTypes
  PROVE  /\ Overlapped \in [ClaimCalls -> {"no", "reused", "fresh"}]
         /\ \A c \in ClaimCalls : Overlapped[c] = IF c \in AtWork THEN "no" ELSE clean[c]
  BY DEF ClaimTypes, Overlapped

LEMMA StartKeepsInv ==
  ASSUME ClaimsInv, NEW c \in ClaimCalls, StartClaim(c) PROVE ClaimsInv'
<1>1. /\ ClaimTypes /\ task[c] = "idle" /\ UNCHANGED <<place, form, filed>>
      /\ Proceed(c, "route") \/ Reply(c, "thrown")
      /\ clean' = [Overlapped EXCEPT ![c] = IF AtWork # {} THEN "no"
                                            ELSE IF place = "form" THEN "reused" ELSE "fresh"]
  BY DEF ClaimsInv, StartClaim
<1>2. /\ task' \in [ClaimCalls -> Tasks] /\ reply' \in [ClaimCalls -> Replies]
      /\ \A d \in ClaimCalls : d # c => task'[d] = task[d] /\ reply'[d] = reply[d]
      /\ \/ task'[c] = "route" /\ reply'[c] = reply[c]
         \/ task'[c] = "done" /\ reply'[c] \in {reply[c], "thrown"}
  <2>1. CASE Proceed(c, "route")
    <3>1. "route" \in Tasks
      BY DEF Tasks
    <3> QED BY <1>1, <2>1, <3>1, ProceedFacts
  <2>2. CASE Reply(c, "thrown")
    <3>1. "thrown" \in Replies
      BY DEF Replies
    <3> QED BY <1>1, <2>2, <3>1, ReplyFacts
  <2> QED BY <1>1, <2>1, <2>2
<1>3. /\ clean' \in [ClaimCalls -> {"no", "reused", "fresh"}]
      /\ \A d \in ClaimCalls : d # c => clean'[d] = (IF d \in AtWork THEN "no" ELSE clean[d])
      /\ clean'[c] # "no" => AtWork = {}
      /\ clean'[c] = "fresh" => place # "form"
  BY <1>1, OverlappedFacts
<1>4. ClaimTypes'
  BY <1>1, <1>2, <1>3 DEF ClaimTypes
<1>5. \A d \in ClaimCalls : FiledBy(d)' = FiledBy(d)
  BY <1>1 DEF FiledBy
<1>6. ASSUME NEW d \in ClaimCalls PROVE ClaimOf(d)'
  <2>1. ClaimOf(d)
    BY DEF ClaimsInv
  <2>2. CASE d # c
    <3>1. clean'[d] # "no" => clean'[d] = clean[d] /\ d \notin AtWork'
      BY <1>2, <1>3, <2>2 DEF AtWork
    <3>2. FiledRight(d) /\ clean'[d] # "no" => FiledRight(d)'
      BY <1>1, <1>2, <1>5, <2>2, <3>1 DEF FiledRight
    <3>3. task[d] = "idle" => clean'[d] = clean[d]
      BY <1>3, <2>2 DEF AtWork
    <3> QED BY <1>2, <1>5, <2>1, <2>2, <3>1, <3>2, <3>3 DEF ClaimOf
  <2>3. CASE d = c
    <3>1. clean'[c] # "no" => FiledBy(c) = {} /\ AtWork' \subseteq {c}
      BY <1>1, <1>2, <1>3, <2>1, <2>3 DEF ClaimOf, AtWork
    <3>2. clean'[c] # "no" => FiledRight(c)'
      BY <1>5, <3>1 DEF FiledRight
    <3>3. task'[c] # "done" => reply'[c] \in {"none", "timeout"}
      BY <1>1, <1>2, <2>1, <2>3 DEF ClaimOf
    <3>4. FormOf(c)'
      BY <1>1, <1>2, <1>3 DEF FormOf
    <3>5. clean'[c] # "no" /\ c \in AtWork' => AtWork' = {c}
      BY <3>1
    <3> QED BY <1>2, <1>5, <2>3, <3>1, <3>2, <3>3, <3>4, <3>5 DEF ClaimOf
  <2> QED BY <2>2, <2>3
<1> QED BY <1>4, <1>6 DEF ClaimsInv

LEMMA TimeOutKeepsInv ==
  ASSUME ClaimsInv, NEW c \in ClaimCalls, ClaimTimesOut(c) PROVE ClaimsInv'
<1>1. /\ ClaimTypes /\ c \in AtWork /\ reply' = [reply EXCEPT ![c] = "timeout"]
      /\ UNCHANGED <<place, form, task, filed, clean>>
  BY DEF ClaimsInv, ClaimTimesOut
<1>2. /\ ClaimTypes' /\ reply'[c] = "timeout" /\ task'[c] # "idle" /\ \A d \in ClaimCalls : d # c => reply'[d] = reply[d]
  BY <1>1 DEF ClaimTypes, Replies, AtWork
<1>3. \A d \in ClaimCalls : FiledBy(d)' = FiledBy(d) /\ \A i \in FiledBy(d) : filed'[i] = filed[i]
  BY <1>1 DEF FiledBy
<1>4. ClaimOf(c)
  BY DEF ClaimsInv
<1>5. clean[c] # "no" => /\ FormOf(c)' /\ FiledRight(c)'
                         /\ task'[c] \notin {"confirm", "done"} => FiledBy(c)' = {}
  BY <1>1, <1>2, <1>3, <1>4 DEF ClaimOf, FormOf, FiledRight
<1> QED BY <1>1, <1>2, <1>3, <1>4, <1>5, ClaimMoves DEF ClaimOf

LEMMA ReaderKeepsInv ==
  ASSUME ClaimsInv, UNCHANGED <<task, reply, filed>>,
         clean' = Overlapped,
         \/ UNCHANGED <<place, form>>
         \/ \E p \in Places : LoadPlace(p)
         \/ \E r \in {"account", "policy", "documents", "list"} : GotoRoute(r)
  PROVE  ClaimsInv'
<1>1. ClaimTypes /\ place' \in Places /\ form' \in Fields
  BY PlaceTypes DEF ClaimsInv
<1>2. /\ clean' \in [ClaimCalls -> {"no", "reused", "fresh"}]
      /\ \A c \in ClaimCalls : clean'[c] # "no" => clean'[c] = clean[c] /\ c \notin AtWork
  BY <1>1, OverlappedFacts
<1>3. ClaimTypes'
  BY <1>1, <1>2 DEF ClaimTypes
<1>4. ASSUME NEW c \in ClaimCalls PROVE ClaimOf(c)'
  <2>1. /\ ClaimOf(c) /\ FiledBy(c)' = FiledBy(c)
        /\ clean'[c] # "no" => clean'[c] = clean[c] /\ c \notin AtWork'
    BY <1>2 DEF ClaimsInv, FiledBy, AtWork
  <2>2. FiledRight(c) /\ clean'[c] # "no" => FiledRight(c)'
    BY <2>1 DEF FiledRight
  <2>3. task[c] = "idle" => clean'[c] = clean[c]
    BY <1>1, OverlappedFacts DEF AtWork
  <2> QED BY <2>1, <2>2, <2>3 DEF ClaimOf
<1> QED BY <1>3, <1>4 DEF ClaimsInv

(* Steps on the way to the form, and in it, up to the click on its button. *)
LEMMA WayKeepsInv ==
  ASSUME ClaimsInv, NEW c \in ClaimCalls,
         ToClaims(c) \/ NoEntry(c) \/ DirectForm(c) \/ FillRequired(c) \/ FillOptional(c) \/ JudgeClaim(c)
  PROVE  ClaimsInv'
<1>1. /\ ClaimTypes /\ c \in AtWork /\ UNCHANGED <<filed, clean>>
      /\ task[c] \in {"route", "entry", "direct", "required", "optional", "judge"}
  BY DEF ClaimsInv, ToClaims, NoEntry, DirectForm, FillRequired, FillOptional, JudgeClaim, AtWork
<1>2. /\ reply[c] \in {"none", "timeout"} /\ (clean[c] # "no" => FormOf(c))
      /\ Given[c].required \in Claims /\ Given[c].optional \in Claims \cup {Empty} /\ BlankForm \in Fields
  BY <1>1, ClaimFields DEF ClaimsInv, ClaimOf
<1>3. "list" \in Places /\ "form" \in Places /\ "elsewhere" \in Places
  BY DEF Places
<1>4. ASSUME NEW t \in {"entry", "direct", "required", "optional", "judge", "submit"}, Proceed(c, t),
             place' \in Places, form' \in Fields, t = "submit" => ~DryRun[c],
             clean[c] # "no" => FormOf(c)'
      PROVE  ClaimsInv'
  <2>1. t \in Tasks
    BY DEF Tasks
  <2>2. /\ task' \in [ClaimCalls -> Tasks] /\ reply' \in [ClaimCalls -> Replies] /\ task'[c] = t
        /\ reply' = reply /\ \A d \in ClaimCalls : d # c => task'[d] = task[d] /\ reply'[d] = reply[d]
    BY <1>1, <1>4, <2>1, ProceedFacts
  <2>3. ClaimTypes'
    BY <1>1, <1>4, <2>2 DEF ClaimTypes
  <2> QED BY <1>1, <1>2, <1>4, <2>2, <2>3, ClaimGoesOn
<1>5. ASSUME NEW what \in {"refused", "dry_run"}, Reply(c, what), place' \in Places, form' \in Fields
      PROVE  ClaimsInv'
  <2>1. what \in Replies
    BY DEF Replies
  <2>2. /\ task' \in [ClaimCalls -> Tasks] /\ reply' \in [ClaimCalls -> Replies] /\ task'[c] = "done"
        /\ \A d \in ClaimCalls : d # c => task'[d] = task[d] /\ reply'[d] = reply[d]
    BY <1>1, <1>5, <2>1, ReplyFacts
  <2>3. ClaimTypes' /\ FormOf(c)'
    BY <1>1, <1>5, <2>2 DEF ClaimTypes, FormOf
  <2> QED BY <1>1, <2>2, <2>3, ClaimGoesOn
<1>6. CASE ToClaims(c)
  <2>1. task[c] = "route" /\ Proceed(c, "entry") /\ GotoRoute("list")
    BY <1>6 DEF ToClaims
  <2>2. place' \in Places /\ form' \in Fields /\ task'[c] = "entry"
    BY <1>1, <2>1, PlaceTypes DEF Proceed, ClaimTypes
  <2>3. clean[c] # "no" => FormOf(c)'
    BY <1>1, <1>2, <2>1, <2>2 DEF FormOf, GotoRoute, Stay, LoadPlace
  <2> QED BY <1>4, <2>1, <2>2, <2>3
<1>7. CASE NoEntry(c)
  <2>1. task[c] = "entry" /\ Proceed(c, "direct") /\ UNCHANGED <<place, form>>
    BY <1>7 DEF NoEntry
  <2>2. place' \in Places /\ form' \in Fields /\ task'[c] = "direct"
    BY <1>1, <2>1 DEF Proceed, ClaimTypes
  <2>3. clean[c] # "no" => FormOf(c)'
    BY <1>1, <1>2, <2>1, <2>2 DEF FormOf
  <2> QED BY <1>4, <2>1, <2>2, <2>3
<1>8. CASE DirectForm(c)
  <2>1. \/ LoadPlace("form") /\ Proceed(c, "required")
        \/ (Stay \/ LoadPlace("elsewhere")) /\ Reply(c, "refused")
    BY <1>8 DEF DirectForm
  <2>2. place' \in Places /\ form' \in Fields
    BY <1>1, <1>2, <1>3, <2>1 DEF LoadPlace, Stay, ClaimTypes
  <2>3. CASE LoadPlace("form") /\ Proceed(c, "required")
    <3>1. task'[c] = "required" /\ form' = BlankForm
      BY <1>1, <2>3 DEF Proceed, ClaimTypes, LoadPlace
    <3>2. FormOf(c)'
      BY <3>1 DEF FormOf, BlankForm
    <3> QED BY <1>4, <2>2, <2>3, <3>2
  <2> QED BY <1>5, <2>1, <2>2, <2>3
<1>9. CASE FillRequired(c)
  <2>1. /\ task[c] = "required" /\ UNCHANGED place
        /\ \/ /\ place = "form" /\ form' = [form EXCEPT !.required = Given[c].required]
              /\ Proceed(c, "optional")
           \/ UNCHANGED form /\ Reply(c, "refused")
    BY <1>9 DEF FillRequired
  <2>2. CASE UNCHANGED form /\ Reply(c, "refused")
    BY <1>1, <1>5, <2>1, <2>2 DEF ClaimTypes
  <2>3. CASE /\ place = "form" /\ form' = [form EXCEPT !.required = Given[c].required]
             /\ Proceed(c, "optional")
    <3>1. form' \in Fields /\ form'.required = Given[c].required /\ form'.optional = form.optional
      BY <1>1, <1>2, <2>3 DEF ClaimTypes, Fields
    <3>2. task'[c] = "optional" /\ place' \in Places
      BY <1>1, <2>1, <2>3 DEF Proceed, ClaimTypes
    <3>3. clean[c] # "no" => FormOf(c)'
      BY <1>1, <1>2, <2>1, <2>3, <3>1, <3>2 DEF FormOf
    <3> QED BY <1>4, <2>3, <3>1, <3>2, <3>3
  <2> QED BY <2>1, <2>2, <2>3
<1>10. CASE FillOptional(c)
  <2>1. /\ task[c] = "optional" /\ Proceed(c, "judge") /\ UNCHANGED place
        /\ \/ UNCHANGED form
           \/ form' = [form EXCEPT !.optional = Given[c].optional]
    BY <1>10 DEF FillOptional
  <2>2. /\ form' \in Fields /\ form'.required = form.required
        /\ form'.optional \in {form.optional, Given[c].optional}
    BY <1>1, <1>2, <2>1 DEF ClaimTypes, Fields
  <2>3. task'[c] = "judge" /\ place' \in Places
    BY <1>1, <2>1 DEF Proceed, ClaimTypes
  <2>4. clean[c] # "no" => FormOf(c)'
    <3>1. clean[c] # "no" => /\ place = "form" /\ form.required = Given[c].required
                             /\ clean[c] = "fresh" => form.optional = Empty
      BY <1>2, <2>1 DEF FormOf
    <3> QED BY <1>1, <2>1, <2>2, <2>3, <3>1 DEF FormOf
  <2> QED BY <1>4, <2>1, <2>2, <2>3, <2>4
<1>11. CASE JudgeClaim(c)
  <2>1. /\ task[c] = "judge" /\ UNCHANGED <<place, form>>
        /\ \/ Reply(c, "dry_run")
           \/ ~DryRun[c] /\ Proceed(c, "submit")
    BY <1>11 DEF JudgeClaim
  <2>2. place' \in Places /\ form' \in Fields
    BY <1>1, <2>1 DEF ClaimTypes
  <2>3. CASE ~DryRun[c] /\ Proceed(c, "submit")
    <3>1. task'[c] = "submit"
      BY <1>1, <2>3 DEF Proceed, ClaimTypes
    <3>2. clean[c] # "no" => FormOf(c)'
      BY <1>1, <1>2, <2>1, <3>1 DEF FormOf
    <3> QED BY <1>4, <2>2, <2>3, <3>2
  <2> QED BY <1>5, <2>1, <2>2, <2>3
<1> QED BY <1>6, <1>7, <1>8, <1>9, <1>10, <1>11

(* The steps that may file a claim.                                        *)
LEMMA ClickKeepsInv ==
  ASSUME ClaimsInv, NEW c \in ClaimCalls, ClickEntry(c) \/ ClickSubmit(c) \/ ReadBack(c)
  PROVE  ClaimsInv'
<1>1. /\ ClaimTypes /\ ClaimOf(c) /\ c \in AtWork
      /\ task[c] = "entry" \/ clean' = clean
      /\ reply[c] \in {"none", "timeout"} /\ (clean[c] # "no" => FormOf(c))
  <2>1. /\ ClaimTypes /\ ClaimOf(c) /\ task[c] \in {"entry", "submit", "confirm"}
        /\ task[c] = "entry" \/ clean' = clean
    BY DEF ClaimsInv, ClickEntry, ClickSubmit, ReadBack
  <2> QED BY <2>1 DEF ClaimOf, AtWork
<1>2. BlankForm \in Fields /\ "receipt" \in Places /\ "form" \in Places
  BY DEF BlankForm, Fields, Places
<1>3. FormSubmitted(c) =>
        /\ place' \in Places /\ form' \in Fields
        /\ filed' \in Seq([by : ClaimCalls, fields : Fields])
        /\ \A d \in ClaimCalls : \A i \in FiledBy(d) : filed'[i] = filed[i]
        /\ \A d \in ClaimCalls \ {c} : FiledBy(d)' = FiledBy(d)
        /\ \/ FiledBy(c)' = FiledBy(c)
           \/ FiledBy(c)' = FiledBy(c) \cup {Len(filed) + 1} /\ filed'[Len(filed) + 1].fields = form
  <2>1. CASE LoadPlace("receipt") /\ filed' = Append(filed, [by |-> c, fields |-> form])
    <3>1. place' \in Places /\ form' \in Fields
      BY <1>2, <2>1 DEF LoadPlace
    <3> QED BY <1>1, <2>1, <3>1, FiledGrows
  <2>2. CASE Stay /\ UNCHANGED filed
    <3>1. place' \in Places /\ form' \in Fields /\ filed' \in Seq([by : ClaimCalls, fields : Fields])
      BY <1>1, <2>2 DEF Stay, ClaimTypes
    <3>2. \A d \in ClaimCalls : FiledBy(d)' = FiledBy(d)
      BY <2>2 DEF FiledBy
    <3> QED BY <2>2, <3>1, <3>2
  <2> QED BY <2>1, <2>2 DEF FormSubmitted
<1>4. CASE ClickEntry(c)
  <2>1. /\ task[c] = "entry" /\ Proceed(c, "required")
        /\ \/ place = "list" /\ LoadPlace("form") /\ UNCHANGED <<filed, clean>>
           \/ FormSubmitted(c) /\ clean' = [clean EXCEPT ![c] = "no"]
           \/ Stay /\ UNCHANGED <<filed, clean>>
    BY <1>4 DEF ClickEntry
  <2>2. "required" \in Tasks
    BY DEF Tasks
  <2>3. /\ task' \in [ClaimCalls -> Tasks] /\ reply' \in [ClaimCalls -> Replies] /\ task'[c] = "required"
        /\ reply' = reply /\ \A d \in ClaimCalls : d # c => task'[d] = task[d] /\ reply'[d] = reply[d]
    BY <1>1, <2>1, <2>2, ProceedFacts
  <2>4. CASE FormSubmitted(c) /\ clean' = [clean EXCEPT ![c] = "no"]
    <3>1. /\ clean'[c] = "no" /\ clean' \in [ClaimCalls -> {"no", "reused", "fresh"}]
          /\ \A d \in ClaimCalls : d # c => clean'[d] = clean[d]
      BY <1>1, <2>4 DEF ClaimTypes
    <3>2. ClaimTypes'
      BY <1>1, <1>3, <2>3, <2>4, <3>1 DEF ClaimTypes
    <3>3. \A d \in ClaimCalls : d # c =>
           /\ task'[d] = task[d] /\ reply'[d] = reply[d] /\ clean'[d] = clean[d]
           /\ FiledBy(d)' = FiledBy(d) /\ \A i \in FiledBy(d) : filed'[i] = filed[i]
      BY <1>3, <2>3, <2>4, <3>1
    <3> QED BY <1>1, <2>3, <3>1, <3>2, <3>3, ClaimMoves
  <2>5. CASE /\ UNCHANGED <<filed, clean>>
             /\ Stay \/ (place = "list" /\ LoadPlace("form"))
    <3>1. ClaimTypes'
      BY <1>1, <1>2, <2>3, <2>5 DEF ClaimTypes, Stay, LoadPlace
    <3>2. clean[c] # "no" => FormOf(c)'
      BY <1>1, <2>1, <2>3, <2>5 DEF FormOf, Stay, LoadPlace, BlankForm
    <3> QED BY <1>1, <2>1, <2>3, <2>5, <3>1, <3>2, ClaimGoesOn
  <2> QED BY <2>1, <2>4, <2>5
<1>5. CASE ClickSubmit(c)
  <2>1. /\ task[c] = "submit" /\ ~DryRun[c]
        /\ \/ /\ (place = "form" /\ FormSubmitted(c)) \/ (place # "form" /\ Stay /\ UNCHANGED filed)
              /\ Proceed(c, "confirm")
           \/ Stay /\ UNCHANGED filed /\ Reply(c, "refused")
    BY <1>1, <1>5 DEF ClickSubmit, ClaimOf
  <2>2. "confirm" \in Tasks /\ "refused" \in Replies
    BY DEF Tasks, Replies
  <2>3. CASE Stay /\ UNCHANGED filed /\ Reply(c, "refused")
    <3>1. /\ task' \in [ClaimCalls -> Tasks] /\ reply' \in [ClaimCalls -> Replies] /\ task'[c] = "done"
          /\ \A d \in ClaimCalls : d # c => task'[d] = task[d] /\ reply'[d] = reply[d]
      BY <1>1, <2>2, <2>3, ReplyFacts
    <3>2. ClaimTypes' /\ FormOf(c)'
      BY <1>1, <2>1, <2>3, <3>1 DEF ClaimTypes, FormOf, Stay
    <3> QED BY <1>1, <2>1, <2>3, <3>1, <3>2, ClaimGoesOn
  <2>4. CASE /\ (place = "form" /\ FormSubmitted(c)) \/ (place # "form" /\ Stay /\ UNCHANGED filed)
             /\ Proceed(c, "confirm")
    <3>1. /\ task' \in [ClaimCalls -> Tasks] /\ reply' \in [ClaimCalls -> Replies] /\ task'[c] = "confirm"
          /\ reply' = reply /\ \A d \in ClaimCalls : d # c => task'[d] = task[d] /\ reply'[d] = reply[d]
      BY <1>1, <2>2, <2>4, ProceedFacts
    <3>2. FormSubmitted(c) \/ (Stay /\ UNCHANGED filed)
      BY <2>4
    <3>3. FormSubmitted(c)
      BY <3>2 DEF FormSubmitted
    <3>4. ClaimTypes'
      BY <1>1, <1>3, <2>1, <3>1, <3>3 DEF ClaimTypes
    <3>5. \A d \in ClaimCalls : d # c =>
           /\ task'[d] = task[d] /\ reply'[d] = reply[d] /\ clean'[d] = clean[d]
           /\ FiledBy(d)' = FiledBy(d) /\ \A i \in FiledBy(d) : filed'[i] = filed[i]
      BY <1>1, <1>3, <2>1, <3>1, <3>3
    <3>6. clean[c] # "no" => FormOf(c)' /\ FiledRight(c)'
      <4>1. clean[c] # "no" => /\ FiledBy(c) = {} /\ form.required = Given[c].required
                               /\ clean[c] = "fresh" => form.optional \in {Given[c].optional, Empty}
        BY <1>1, <2>1 DEF ClaimOf, FormOf
      <4>2. reply'[c] \notin {"refused", "dry_run", "thrown"} /\ clean' = clean
        BY <1>1, <2>1, <3>1
      <4>3. clean[c] # "no" => /\ \A i \in FiledBy(c)' : filed'[i].fields = form
                               /\ \A i, j \in FiledBy(c)' : i = j
        BY <1>3, <3>3, <4>1
      <4>4. clean[c] # "no" => FiledRight(c)'
        BY <2>1, <4>1, <4>2, <4>3 DEF FiledRight
      <4> QED BY <3>1, <4>4 DEF FormOf
    <3> QED BY <1>1, <2>1, <3>1, <3>4, <3>5, <3>6, ClaimMoves
  <2> QED BY <2>1, <2>3, <2>4
<1>6. CASE ReadBack(c)
  <2>1. PICK what \in {"submitted", "submit_rejected", "submitted_unconfirmed"} : Reply(c, what)
    BY <1>6 DEF ReadBack
  <2>2. task[c] = "confirm" /\ UNCHANGED <<place, form, filed, clean>> /\ what \in Replies
    BY <1>6 DEF ReadBack, Replies
  <2>3. /\ task' \in [ClaimCalls -> Tasks] /\ reply' \in [ClaimCalls -> Replies] /\ task'[c] = "done"
        /\ reply'[c] \in {reply[c], what}
        /\ \A d \in ClaimCalls : d # c => task'[d] = task[d] /\ reply'[d] = reply[d]
    BY <1>1, <2>1, <2>2, ReplyFacts
  <2>4. ClaimTypes' /\ FormOf(c)' /\ reply'[c] \notin {"refused", "dry_run", "thrown"}
    BY <1>1, <2>2, <2>3 DEF ClaimTypes, FormOf
  <2> QED BY <1>1, <2>2, <2>3, <2>4, ClaimGoesOn
<1> QED BY <1>4, <1>5, <1>6

LEMMA ClaimsInvStep == ClaimsInv /\ [ClaimsNext]_claimVars => ClaimsInv'
<1> SUFFICES ASSUME ClaimsInv, [ClaimsNext]_claimVars PROVE ClaimsInv'
  OBVIOUS
<1>1. CASE UNCHANGED claimVars
  <2>1. ClaimTypes' /\ AtWork' = AtWork /\ \A c \in ClaimCalls : FiledBy(c)' = FiledBy(c)
    BY <1>1 DEF claimVars, ClaimsInv, ClaimTypes, AtWork, FiledBy
  <2>2. ASSUME NEW c \in ClaimCalls, ClaimOf(c) PROVE ClaimOf(c)'
    BY <1>1, <2>1, <2>2 DEF claimVars, ClaimOf, FormOf, FiledRight
  <2> QED BY <2>1, <2>2 DEF ClaimsInv
<1>2. ASSUME NEW c \in ClaimCalls, StartClaim(c) \/ ClaimTimesOut(c) \/ ClaimStep(c) PROVE ClaimsInv'
  BY <1>2, StartKeepsInv, TimeOutKeepsInv, WayKeepsInv, ClickKeepsInv DEF ClaimStep
<1>3. CASE \/ GetAccountInfo \/ GetPolicyInfo \/ GetClaimsHistory \/ GetDocumentsList \/ GetClaimStatus
           \/ DiagnoseMemberPortal \/ DiagnoseClaimForm
  <2>1. /\ UNCHANGED <<task, reply, filed>>
        /\ clean' = Overlapped
    BY <1>3 DEF GetAccountInfo, GetPolicyInfo, GetClaimsHistory, GetDocumentsList, GetClaimStatus,
                DiagnoseMemberPortal, DiagnoseClaimForm, Reader
  <2>2. \/ UNCHANGED <<place, form>>
        \/ \E p \in Places : LoadPlace(p)
        \/ \E r \in {"account", "policy", "documents", "list"} : GotoRoute(r)
    <3>1. {"account", "documents", "list", "detail", "form"} \subseteq Places
      BY DEF Places
    <3> QED BY <1>3, <3>1 DEF GetAccountInfo, GetPolicyInfo, GetClaimsHistory, GetDocumentsList,
                GetClaimStatus, DiagnoseMemberPortal, DiagnoseClaimForm, Reader, Stay
  <2> QED BY <2>1, <2>2, ReaderKeepsInv
<1> QED BY <1>1, <1>2, <1>3 DEF ClaimsNext

(* A claim that runs alone is filed with the required fields it was given, *)
(* once at most, and not at all if it is a dry run or refused: for any     *)
(* calls, and pages and filled forms left by others between them.          *)
THEOREM ClaimsAreAsGiven == ClaimsSpec => []FiledAsGiven
<1>1. ClaimsInv => FiledAsGiven
  BY DEF ClaimsInv, ClaimOf, FiledRight, FiledAsGiven
<1> QED BY <1>1, ClaimsInvInit, ClaimsInvStep, PTL DEF ClaimsSpec

(* Every variable of the claim form and of April's claims keeps its type.  *)
THEOREM ClaimsAreTyped == ClaimsSpec => []ClaimsTypeOK
<1>1. ClaimsInv => ClaimsTypeOK
  BY DEF ClaimsInv, ClaimTypes, ClaimsTypeOK
<1> QED BY <1>1, ClaimsInvInit, ClaimsInvStep, PTL DEF ClaimsSpec

-----------------------------------------------------------------------------
(* Policies.                                                               *)

(* What the page shows to a call whose navigations have led somewhere and  *)
(* that runs alone.                                                        *)
PageOf(c) ==
  CASE stage[c] = "section" -> portal.section = "home"
    [] stage[c] = "read" -> portal = Opened(want[c], TRUE)
    [] OTHER -> TRUE

PortalInv ==
  /\ PortalTypeOK
  /\ \A c \in PortalCalls :
       /\ stage[c] \in {"home", "section", "read"} => want[c] \in {"policy", "account"}
       /\ stage[c] \in {"idle", "home", "section", "read"} => read[c].active = Unread
       /\ landed[c] /\ c \in Walking => Walking = {c} /\ PageOf(c)
  /\ ActiveIsActive

(* What a step of call c may change: the page, c's stage, want, answer and *)
(* reading; others that are on their way are no longer alone.              *)
LEMMA PortalMoves ==
  ASSUME PortalInv, NEW c \in PortalCalls, c \in Walking, PortalTypeOK',
         \A d \in PortalCalls : d # c => /\ stage'[d] = stage[d] /\ read'[d] = read[d],
         want' = want,
         \A d \in PortalCalls : landed'[d] => landed[d],
         stage'[c] \in {"home", "section", "read"} => want[c] \in {"policy", "account"},
         stage'[c] \in {"idle", "home", "section", "read"} => read'[c].active = Unread,
         landed'[c] => PageOf(c)',
         landed'[c] /\ read'[c].active # Unread => read'[c].active = Opened(want[c], TRUE)
  PROVE  PortalInv'
<1>1. \A d \in PortalCalls : d # c /\ landed'[d] => d \notin Walking
  BY DEF PortalInv, Walking
<1>2. ASSUME NEW d \in PortalCalls
      PROVE  /\ stage'[d] \in {"home", "section", "read"} => want'[d] \in {"policy", "account"}
             /\ stage'[d] \in {"idle", "home", "section", "read"} => read'[d].active = Unread
             /\ landed'[d] /\ d \in Walking' => Walking' = {d} /\ PageOf(d)'
             /\ landed'[d] /\ read'[d].active # Unread => read'[d].active = Opened(want'[d], TRUE)
  <2>1. CASE d = c
    <3>1. landed'[c] => Walking = {c}
      BY DEF PortalInv
    <3>2. landed'[c] /\ c \in Walking' => Walking' = {c}
      BY <3>1 DEF Walking
    <3>3. landed'[d] => PageOf(d)'
      BY <2>1 DEF PageOf
    <3> QED BY <2>1, <3>2, <3>3
  <2>2. CASE d # c
    <3>1. landed'[d] => d \notin Walking'
      BY <1>1, <2>2 DEF Walking
    <3> QED BY <2>2, <3>1 DEF PortalInv, ActiveIsActive
  <2> QED BY <2>1, <2>2
<1> QED BY <1>2 DEF PortalInv, ActiveIsActive

LEMMA NavigateMoves ==
  ASSUME PortalTypeOK, NEW c \in PortalCalls, NEW section \in Sections, NEW next \in Stages,
         Navigate(c, section, next)
  PROVE  /\ portal' \in Shown /\ stage' = [stage EXCEPT ![c] = next]
         /\ landed' \in [PortalCalls -> BOOLEAN] /\ UNCHANGED <<want, read, heard>>
         /\ \A d \in PortalCalls : landed'[d] => landed[d]
         /\ landed'[c] => /\ portal'.section = section
                          /\ portal.section # section => portal' = Opened(section, TRUE)
<1>1. /\ portal' \in NavigateTo(section) /\ stage' = [stage EXCEPT ![c] = next]
      /\ landed' = [landed EXCEPT ![c] = landed[c] /\ portal'.section = section /\ portal'.rendered]
      /\ UNCHANGED <<want, read, heard>>
  BY DEF Navigate, Enter
<1>2. /\ portal \in Shown /\ Opened(section, TRUE) \in Shown /\ Opened(section, FALSE) \in Shown
      /\ Opened(section, TRUE).section = section /\ Opened(section, FALSE).section = section
      /\ Opened(section, TRUE).rendered /\ ~Opened(section, FALSE).rendered
  BY DEF PortalTypeOK, Shown, Opened
<1>3. portal' \in {portal, Opened(section, TRUE), Opened(section, FALSE)}
  BY <1>1 DEF NavigateTo
<1>4. /\ landed'[c] <=> landed[c] /\ portal'.section = section /\ portal'.rendered
      /\ landed' \in [PortalCalls -> BOOLEAN]
      /\ \A d \in PortalCalls : d # c => landed'[d] = landed[d]
  <2> DEFINE b == landed[c] /\ portal'.section = section /\ portal'.rendered
  <2>1. b \in BOOLEAN /\ landed' = [landed EXCEPT ![c] = b] /\ landed \in [PortalCalls -> BOOLEAN]
    BY <1>1 DEF PortalTypeOK
  <2>2. b <=> landed[c] /\ portal'.section = section /\ portal'.rendered
    OBVIOUS
  <2> HIDE DEF b
  <2>3. landed'[c] = b /\ landed' \in [PortalCalls -> BOOLEAN]
        /\ \A d \in PortalCalls : d # c => landed'[d] = landed[d]
    BY <2>1
  <2> QED BY <2>2, <2>3
<1> HIDE DEF NavigateTo
<1> QED BY <1>1, <1>2, <1>3, <1>4

LEMMA PortalInvInit == PortalInit => PortalInv
<1> SUFFICES ASSUME PortalInit PROVE PortalInv
  OBVIOUS
<1>1. PortalTypeOK
  BY DEF PortalInit, PortalTypeOK, Shown, Sections, Stages, NotRead
<1>2. \A c \in PortalCalls : stage[c] = "idle" /\ read[c].active = Unread
  BY DEF PortalInit, NotRead
<1> QED BY <1>1, <1>2 DEF PortalInv, Walking, ActiveIsActive

LEMMA PortalInvStep == PortalInv /\ [PortalNext]_portalVars => PortalInv'
<1> SUFFICES ASSUME PortalInv, [PortalNext]_portalVars PROVE PortalInv'
  OBVIOUS
<1>0. PortalTypeOK
  BY DEF PortalInv
<1>1. CASE UNCHANGED portalVars
  BY <1>1 DEF portalVars, PortalInv, PortalTypeOK, Walking, PageOf, ActiveIsActive
<1>2. ASSUME NEW c \in PortalCalls, NEW section \in {"policy", "account", "other"},
             StartPortal(c, section)
      PROVE  PortalInv'
  <2> DEFINE next == IF section = "other" THEN "diagnose" ELSE "home"
  <2>1. /\ stage[c] = "idle" /\ want' = [want EXCEPT ![c] = section]
        /\ stage' = [stage EXCEPT ![c] = next]
        /\ landed' = [d \in PortalCalls |-> landed[d] /\ (d \in Walking \cup {c} => Walking = {})]
        /\ UNCHANGED <<portal, read, heard>>
    BY <1>2 DEF StartPortal, At, Enter
  <2>2. next \in {"diagnose", "home"} /\ (next = "home" => section \in {"policy", "account"})
    OBVIOUS
  <2> HIDE DEF next
  <2>3. /\ \A d \in PortalCalls : landed'[d] => landed[d] /\ (d \in Walking \cup {c} => Walking = {})
        /\ landed' \in [PortalCalls -> BOOLEAN]
    <3>1. \A d \in PortalCalls :
            (landed[d] /\ (d \in Walking \cup {c} => Walking = {})) \in BOOLEAN
      OBVIOUS
    <3> QED BY <2>1, <3>1
  <2>4. PortalTypeOK'
    BY <1>0, <2>1, <2>2, <2>3 DEF PortalTypeOK, Stages, Sections
  <2>5. /\ stage'[c] = next /\ want'[c] = section /\ c \in PortalCalls /\ c \notin Walking
        /\ \A d \in PortalCalls : d # c => stage'[d] = stage[d] /\ want'[d] = want[d]
    BY <1>0, <2>1 DEF PortalTypeOK, Walking
  <2>6. ASSUME NEW d \in PortalCalls, landed'[d], d \in Walking' PROVE Walking' = {d} /\ PageOf(d)'
    <3>1. d = c /\ Walking = {}
      BY <2>3, <2>5, <2>6 DEF Walking
    <3>2. Walking' = {d}
      BY <2>2, <2>5, <3>1 DEF Walking
    <3> QED BY <2>2, <2>5, <3>1, <3>2 DEF PageOf
  <2>7. \A d \in PortalCalls :
          /\ stage'[d] \in {"home", "section", "read"} => want'[d] \in {"policy", "account"}
          /\ stage'[d] \in {"idle", "home", "section", "read"} => read'[d].active = Unread
    BY <2>1, <2>2, <2>5 DEF PortalInv
  <2>8. ActiveIsActive'
    BY <2>1, <2>3, <2>5 DEF PortalInv, ActiveIsActive
  <2> QED BY <2>4, <2>6, <2>7, <2>8 DEF PortalInv
<1>3. ASSUME NEW c \in PortalCalls, PortalTimesOut(c) PROVE PortalInv'
  <2>1. heard' \in [PortalCalls -> BOOLEAN] /\ UNCHANGED <<portal, stage, want, read, landed>>
    BY <1>0, <1>3 DEF PortalTimesOut, PortalTypeOK
  <2> QED BY <2>1 DEF PortalInv, PortalTypeOK, Walking, PageOf, ActiveIsActive
<1>4. ASSUME NEW c \in PortalCalls, GotoSection(c) PROVE PortalInv'
  <2>1. /\ c \in Walking /\ stage[c] \in {"home", "section"} /\ want[c] \in {"policy", "account"}
        /\ want[c] \in Sections /\ want[c] # "home" /\ read[c].active = Unread
    BY <1>0, <1>4 DEF GotoSection, At, Walking, PortalInv, Sections
  <2>2. CASE stage[c] = "home" /\ Navigate(c, "home", "section")
    <3>1. /\ portal' \in Shown /\ stage' = [stage EXCEPT ![c] = "section"]
          /\ landed' \in [PortalCalls -> BOOLEAN] /\ UNCHANGED <<want, read, heard>>
          /\ \A d \in PortalCalls : landed'[d] => landed[d]
          /\ landed'[c] => portal'.section = "home"
      BY <1>0, <2>2, NavigateMoves DEF Sections, Stages
    <3>2. PortalTypeOK' /\ stage'[c] = "section" /\ \A d \in PortalCalls : d # c => stage'[d] = stage[d]
      BY <1>0, <3>1 DEF PortalTypeOK, Stages
    <3>3. landed'[c] => PageOf(c)'
      BY <3>1, <3>2 DEF PageOf
    <3> QED BY <2>1, <3>1, <3>2, <3>3, PortalMoves
  <2>3. CASE /\ stage[c] = "home" /\ portal.section = "home" /\ stage' = [stage EXCEPT ![c] = "section"]
             /\ UNCHANGED <<portal, want, read, heard, landed>>
    <3>1. PortalTypeOK' /\ stage'[c] = "section" /\ \A d \in PortalCalls : d # c => stage'[d] = stage[d]
      BY <1>0, <2>3 DEF PortalTypeOK, Stages
    <3>2. landed'[c] => PageOf(c)'
      BY <2>3, <3>1 DEF PageOf
    <3> QED BY <2>1, <2>3, <3>1, <3>2, PortalMoves
  <2>4. CASE stage[c] = "section" /\ Navigate(c, want[c], "read")
    <3>1. /\ portal' \in Shown /\ stage' = [stage EXCEPT ![c] = "read"]
          /\ landed' \in [PortalCalls -> BOOLEAN] /\ UNCHANGED <<want, read, heard>>
          /\ \A d \in PortalCalls : landed'[d] => landed[d]
          /\ landed'[c] /\ portal.section # want[c] => portal' = Opened(want[c], TRUE)
      <4>1. "read" \in Stages
        BY DEF Stages
      <4> QED BY <1>0, <2>1, <2>4, <4>1, NavigateMoves
    <3>2. PortalTypeOK' /\ stage'[c] = "read" /\ \A d \in PortalCalls : d # c => stage'[d] = stage[d]
      BY <1>0, <3>1 DEF PortalTypeOK, Stages
    <3>3. landed'[c] => PageOf(c)'
      <4>1. landed'[c] => portal.section = "home"
        BY <2>1, <2>4, <3>1 DEF PortalInv, PageOf
      <4> QED BY <2>1, <3>1, <3>2, <4>1 DEF PageOf
    <3> QED BY <2>1, <3>1, <3>2, <3>3, PortalMoves
  <2> QED BY <1>4, <2>2, <2>3, <2>4 DEF GotoSection, At, Enter
<1>5. ASSUME NEW c \in PortalCalls, NEW page \in ReadPage, NEW next \in {"tab", "done"},
             stage[c] = "read", stage' = [stage EXCEPT ![c] = next],
             read' = [read EXCEPT ![c].active = page],
             heard' \in [PortalCalls -> BOOLEAN], UNCHANGED <<portal, want, landed>>
      PROVE  PortalInv'
  <2>1. page \in Shown \cup {Unread}
    BY <1>0, <1>5 DEF ReadPage, PortalTypeOK
  <2>2. /\ read' = [read EXCEPT ![c] = [read[c] EXCEPT !.active = page]]
        /\ read[c] \in [active : Shown \cup {Unread}, inactive : Shown \cup {Unread}]
    BY <1>0, <1>5 DEF PortalTypeOK
  <2>3. [read[c] EXCEPT !.active = page] \in [active : Shown \cup {Unread}, inactive : Shown \cup {Unread}]
        /\ [read[c] EXCEPT !.active = page].active = page
    BY <2>1, <2>2
  <2>4. /\ read'[c].active = page /\ \A d \in PortalCalls : d # c => read'[d] = read[d]
        /\ read' \in [PortalCalls -> [active : Shown \cup {Unread}, inactive : Shown \cup {Unread}]]
    BY <1>0, <2>2, <2>3 DEF PortalTypeOK
  <2>5. PortalTypeOK' /\ stage'[c] = next /\ \A d \in PortalCalls : d # c => stage'[d] = stage[d]
    BY <1>0, <1>5, <2>4 DEF PortalTypeOK, Stages
  <2>6. c \in Walking
    BY <1>5 DEF Walking
  <2>7. landed'[c] => PageOf(c)'
    BY <2>5 DEF PageOf
  <2>8. landed[c] => portal = Opened(want[c], TRUE)
    BY <1>5, <2>6 DEF PortalInv, PageOf
  <2>9. landed'[c] /\ read'[c].active # Unread => read'[c].active = Opened(want[c], TRUE)
    BY <1>5, <2>4, <2>8 DEF ReadPage
  <2> QED BY <1>5, <2>4, <2>5, <2>6, <2>7, <2>9, PortalMoves
<1>6. ASSUME NEW c \in PortalCalls, stage[c] \in {"tab", "read tab", "diagnose"},
             NEW next \in {"read tab", "diagnose", "done"}, stage' = [stage EXCEPT ![c] = next],
             portal' \in Shown, heard' \in [PortalCalls -> BOOLEAN],
             landed' \in [PortalCalls -> BOOLEAN], \A d \in PortalCalls : landed'[d] => landed[d],
             read' \in [PortalCalls -> [active : Shown \cup {Unread}, inactive : Shown \cup {Unread}]],
             read'[c].active = read[c].active, \A d \in PortalCalls : d # c => read'[d] = read[d],
             UNCHANGED want
      PROVE  PortalInv'
  <2>1. PortalTypeOK' /\ stage'[c] = next /\ \A d \in PortalCalls : d # c => stage'[d] = stage[d]
    BY <1>0, <1>6 DEF PortalTypeOK, Stages
  <2>2. c \in Walking
    BY <1>6 DEF Walking
  <2>3. landed'[c] => PageOf(c)'
    BY <2>1 DEF PageOf
  <2>4. landed'[c] /\ read'[c].active # Unread => read'[c].active = Opened(want[c], TRUE)
    BY <1>6 DEF PortalInv, ActiveIsActive
  <2> QED BY <1>6, <2>1, <2>2, <2>3, <2>4, PortalMoves
<1>7. \A c \in PortalCalls : Answer(c) => /\ stage' = [stage EXCEPT ![c] = "done"]
                                          /\ heard' \in [PortalCalls -> BOOLEAN]
  BY <1>0 DEF Answer, Enter, PortalTypeOK
<1>8. ASSUME NEW c \in PortalCalls, GetAccount(c) PROVE PortalInv'
  BY <1>5, <1>7, <1>8 DEF GetAccount, At
<1>9. ASSUME NEW c \in PortalCalls, GetPolicySummary(c) PROVE PortalInv'
  <2>1. UNCHANGED <<want, landed>>
    BY <1>9 DEF GetPolicySummary
  <2>2. CASE /\ At(c, "read") /\ Enter(c, "tab")
             /\ \E page \in ReadPage : read' = [read EXCEPT ![c].active = page]
             /\ UNCHANGED <<portal, heard>>
    BY <1>0, <1>5, <2>1, <2>2 DEF At, Enter, PortalTypeOK
  <2>3. CASE /\ At(c, "tab") /\ Enter(c, "read tab")
             /\ portal' \in {portal} \cup (IF portal.section = "policy" /\ portal.rendered
                                           THEN {[portal EXCEPT !.tab = "inactive"]} ELSE {})
             /\ UNCHANGED <<read, heard>>
    <3>1. portal' \in Shown
      BY <1>0, <2>3 DEF PortalTypeOK, Shown
    <3> QED BY <1>0, <1>6, <2>1, <2>3, <3>1 DEF At, Enter, PortalTypeOK
  <2>4. CASE At(c, "tab") /\ Answer(c) /\ UNCHANGED <<portal, read>>
    BY <1>0, <1>6, <1>7, <2>1, <2>4 DEF At, PortalTypeOK
  <2>5. CASE /\ At(c, "read tab") /\ Answer(c)
             /\ \E page \in ReadPage : read' = [read EXCEPT ![c].inactive = page]
             /\ UNCHANGED portal
    <3>1. PICK page \in ReadPage : read' = [read EXCEPT ![c].inactive = page]
      BY <2>5
    <3>2. page \in Shown \cup {Unread}
      BY <1>0 DEF ReadPage, PortalTypeOK
    <3>3. /\ read' = [read EXCEPT ![c] = [read[c] EXCEPT !.inactive = page]]
          /\ read[c] \in [active : Shown \cup {Unread}, inactive : Shown \cup {Unread}]
      BY <1>0, <3>1 DEF PortalTypeOK
    <3>4. /\ [read[c] EXCEPT !.inactive = page]
               \in [active : Shown \cup {Unread}, inactive : Shown \cup {Unread}]
          /\ [read[c] EXCEPT !.inactive = page].active = read[c].active
      BY <3>2, <3>3
    <3>5. /\ read'[c].active = read[c].active /\ \A d \in PortalCalls : d # c => read'[d] = read[d]
          /\ read' \in [PortalCalls -> [active : Shown \cup {Unread}, inactive : Shown \cup {Unread}]]
      BY <1>0, <3>3, <3>4 DEF PortalTypeOK
    <3> QED BY <1>0, <1>6, <1>7, <2>1, <2>5, <3>5 DEF At, PortalTypeOK
  <2> QED BY <1>9, <2>2, <2>3, <2>4, <2>5 DEF GetPolicySummary
<1>10. ASSUME NEW c \in PortalCalls, DiagnosePortal(c) PROVE PortalInv'
  <2>1. stage[c] = "diagnose"
    BY <1>10 DEF DiagnosePortal, At
  <2>2. ASSUME NEW section \in Sections, Navigate(c, section, "diagnose") PROVE PortalInv'
    <3>1. /\ portal' \in Shown /\ stage' = [stage EXCEPT ![c] = "diagnose"]
          /\ landed' \in [PortalCalls -> BOOLEAN] /\ UNCHANGED <<want, read, heard>>
          /\ \A d \in PortalCalls : landed'[d] => landed[d]
      <4>1. "diagnose" \in Stages
        BY DEF Stages
      <4> QED BY <1>0, <2>2, <4>1, NavigateMoves
    <3> QED BY <1>0, <1>6, <2>1, <3>1 DEF PortalTypeOK
  <2>3. CASE portal' \in {portal, Opened("other", TRUE)} /\ UNCHANGED <<stage, want, read, heard, landed>>
    <3>1. portal' \in Shown
      <4>1. portal \in Shown /\ Opened("other", TRUE) \in Shown
        BY <1>0 DEF PortalTypeOK, Shown, Opened, Sections
      <4> QED BY <2>3, <4>1
    <3>2. stage' = [stage EXCEPT ![c] = "diagnose"]
      BY <1>0, <2>1, <2>3 DEF PortalTypeOK
    <3> QED BY <1>0, <1>6, <2>1, <2>3, <3>1, <3>2 DEF PortalTypeOK
  <2>4. CASE Answer(c) /\ UNCHANGED <<portal, want, read, landed>>
    BY <1>0, <1>6, <1>7, <2>1, <2>4 DEF PortalTypeOK
  <2> QED BY <1>10, <2>2, <2>3, <2>4 DEF DiagnosePortal
<1> QED BY <1>1, <1>2, <1>3, <1>4, <1>8, <1>9, <1>10 DEF PortalNext

(* A call whose navigations led somewhere, and that ran alone, reports its *)
(* own section and the Active tab, whatever calls before it have left: the *)
(* way home makes the click on the section's label open it anew.           *)
THEOREM PoliciesAreActive == PortalSpec => []ActiveIsActive
<1>1. PortalInv => ActiveIsActive
  BY DEF PortalInv
<1> QED BY <1>1, PortalInvInit, PortalInvStep, PTL DEF PortalSpec

(* Every variable of the portal and its calls keeps its type.              *)
THEOREM PortalIsTyped == PortalSpec => []PortalTypeOK
<1>1. PortalInv => PortalTypeOK
  BY DEF PortalInv
<1> QED BY <1>1, PortalInvInit, PortalInvStep, PTL DEF PortalSpec

-----------------------------------------------------------------------------
(* Results.                                                                *)

ResultTypes ==
  /\ dir \in [Paths -> File \cup {Closed}] /\ row \in [ResultCalls -> Nat]
  /\ phase \in [ResultCalls -> Phases] /\ writing \in [ResultCalls -> Paths \cup {Closed}]
  /\ report \in [ResultCalls -> SUBSET Rows]
  /\ replied \in [ResultCalls -> BOOLEAN] /\ overlapped \in BOOLEAN

Right(f, name) == f # Closed /\ f.whole /\ FileName[f.row] = name

(* While calls do not overlap, no one else writes to the file that a call  *)
(* renames, and what has its final name is right.                          *)
OneWrites ==
  /\ \A c, d \in Running : c = d
  /\ \A c \in ResultCalls : phase[c] # "writes" => writing[c] = Closed
  /\ \A c \in ResultCalls : phase[c] = "writes" /\ row[c] \in Rows => writing[c] = Tmp(c)
  /\ \A c \in ResultCalls : phase[c] = "wrote" /\ row[c] \in Rows =>
       Right(dir[Tmp(c)], FileName[row[c]]) /\ ~dir[Tmp(c)].old
  /\ \A n \in Names : dir[<<"pdf", n>>] # Closed => Right(dir[<<"pdf", n>>], n)
  /\ \A c \in ResultCalls : \A i \in report[c] :
       dir[<<"pdf", FileName[i]>>] # Closed /\ ~dir[<<"pdf", FileName[i]>>].old

ResultsInv == ResultTypes /\ (~overlapped => OneWrites)

LEMMA PathFacts ==
  ASSUME NEW i \in Rows
  PROVE  /\ FileName[i] \in Names
         /\ <<"pdf", FileName[i]>> \in Paths /\ <<"tmp", FileName[i]>> \in Paths
         /\ <<"pdf", FileName[i]>> # Closed /\ <<"tmp", FileName[i]>> # Closed
  BY ResultsAssumption DEF Names, Paths

LEMMA NamePaths == \A n \in Names : <<"pdf", n>> \in Paths
  BY DEF Paths

(* A step of call c that moves no file which has its final name.           *)
LEMMA RowKept ==
  ASSUME ResultsInv, NEW c \in ResultCalls, ResultTypes', c \in Running, overlapped' = overlapped,
         \A d \in ResultCalls : d # c => /\ phase'[d] = phase[d] /\ row'[d] = row[d]
                                         /\ writing'[d] = writing[d],
         report' = report, \A n \in Names : dir'[<<"pdf", n>>] = dir[<<"pdf", n>>],
         ~overlapped =>
           /\ phase'[c] # "writes" => writing'[c] = Closed
           /\ phase'[c] = "writes" => writing'[c] = <<"tmp", FileName[row'[c]]>>
           /\ phase'[c] = "wrote" /\ row'[c] \in Rows =>
                /\ Right(dir'[<<"tmp", FileName[row'[c]]>>], FileName[row'[c]])
                /\ ~dir'[<<"tmp", FileName[row'[c]]>>].old
  PROVE  ResultsInv'
<1> SUFFICES ASSUME ~overlapped PROVE OneWrites'
  BY DEF ResultsInv
<1>1. OneWrites /\ Running = {c} /\ Running' \subseteq {c}
  BY DEF ResultsInv, OneWrites, Running
<1>2. \A d \in ResultCalls : d # c => phase'[d] = phase[d] /\ phase[d] \notin {"writes", "wrote"}
  BY <1>1 DEF Running
<1>3. \A d \in ResultCalls : \A i \in report[d] : FileName[i] \in Names
  BY PathFacts DEF ResultsInv, ResultTypes
<1>4. \A d, e \in Running' : d = e
  BY <1>1
<1>5. \A d \in ResultCalls : phase'[d] # "writes" => writing'[d] = Closed
  BY <1>1, <1>2 DEF OneWrites
<1>6. \A d \in ResultCalls : phase'[d] = "writes" /\ row'[d] \in Rows => writing'[d] = <<"tmp", FileName[row'[d]]>>
  BY <1>1, <1>2
<1>7. \A d \in ResultCalls : phase'[d] = "wrote" /\ row'[d] \in Rows =>
       /\ Right(dir'[<<"tmp", FileName[row'[d]]>>], FileName[row'[d]])
       /\ ~dir'[<<"tmp", FileName[row'[d]]>>].old
  BY <1>2
<1>8. \A n \in Names : dir'[<<"pdf", n>>] # Closed => Right(dir'[<<"pdf", n>>], n)
  BY <1>1 DEF OneWrites
<1>9. \A d \in ResultCalls : \A i \in report'[d] :
       dir'[<<"pdf", FileName[i]>>] # Closed /\ ~dir'[<<"pdf", FileName[i]>>].old
  BY <1>1, <1>3 DEF OneWrites
<1> QED BY <1>4, <1>5, <1>6, <1>7, <1>8, <1>9 DEF OneWrites, Tmp, Right

LEMMA ResultsInvInit == ResultsInit => ResultsInv
<1> SUFFICES ASSUME ResultsInit PROVE ResultsInv
  OBVIOUS
<1>1. ResultTypes
  BY DEF ResultsInit, ResultTypes, Phases
<1>2. \A p \in Paths : dir[p] = Closed
  BY DEF ResultsInit
<1>3. Running = {} /\ \A c \in ResultCalls : phase[c] = "idle" /\ writing[c] = Closed /\ report[c] = {}
  BY DEF ResultsInit, Running
<1> QED BY <1>1, <1>2, <1>3, NamePaths DEF ResultsInv, OneWrites

LEMMA ResultsInvStep == ResultsInv /\ [ResultsNext]_resultVars => ResultsInv'
<1> SUFFICES ASSUME ResultsInv, [ResultsNext]_resultVars PROVE ResultsInv'
  OBVIOUS
<1>0. ResultTypes
  BY DEF ResultsInv
<1>1. CASE UNCHANGED resultVars
  BY <1>1 DEF resultVars, ResultsInv, ResultTypes, OneWrites, Running, Tmp, Right
<1>2. ASSUME NEW c \in ResultCalls, StartResults(c) PROVE ResultsInv'
  <2>1. /\ phase[c] = "idle" /\ UNCHANGED <<row, writing, report>>
        /\ overlapped' = (overlapped \/ Running # {})
        /\ \/ phase' = [phase EXCEPT ![c] = "rows"] /\ dir' = Pruned /\ UNCHANGED replied
           \/ /\ phase' = [phase EXCEPT ![c] = "done"] /\ replied' = [replied EXCEPT ![c] = TRUE]
              /\ UNCHANGED dir
    BY <1>2 DEF StartResults
  <2>2. Pruned \in [Paths -> File \cup {Closed}]
        /\ \A p \in Paths : Pruned[p] \in {dir[p], Closed} /\ (dir[p] # Closed /\ ~dir[p].old => Pruned[p] = dir[p])
    BY <1>0 DEF Pruned, ResultTypes
  <2> HIDE DEF Pruned
  <2>3. ResultTypes'
    BY <1>0, <2>1, <2>2 DEF ResultTypes, Phases
  <2> SUFFICES ASSUME ~overlapped' PROVE OneWrites'
    BY <2>3 DEF ResultsInv
  <2>4. OneWrites /\ Running = {}
    BY <2>1 DEF ResultsInv
  <2>5. /\ phase'[c] \in {"rows", "done"} /\ \A d \in ResultCalls : d # c => phase'[d] = phase[d]
        /\ \A d \in ResultCalls : phase[d] \notin {"rows", "writes", "wrote"}
    BY <1>0, <2>1, <2>4 DEF ResultTypes, Running
  <2>6. /\ \A d, e \in Running' : d = e
        /\ \A d \in ResultCalls : phase'[d] \notin {"writes", "wrote"} /\ writing'[d] = Closed
    BY <2>1, <2>4, <2>5 DEF Running, OneWrites
  <2>7. \A p \in Paths : dir'[p] \in {dir[p], Closed} /\ (dir[p] # Closed /\ ~dir[p].old => dir'[p] = dir[p])
    BY <2>1, <2>2
  <2>8. \A n \in Names : dir'[<<"pdf", n>>] # Closed => Right(dir'[<<"pdf", n>>], n)
    BY <2>4, <2>7, NamePaths DEF OneWrites
  <2>9. \A d \in ResultCalls : \A i \in report'[d] :
         dir'[<<"pdf", FileName[i]>>] # Closed /\ ~dir'[<<"pdf", FileName[i]>>].old
    <3>1. \A d \in ResultCalls : \A i \in report[d] : <<"pdf", FileName[i]>> \in Paths
      BY <1>0, PathFacts DEF ResultTypes
    <3> QED BY <2>1, <2>4, <2>7, <3>1 DEF OneWrites
  <2> QED BY <2>6, <2>8, <2>9 DEF OneWrites, Right
<1>3. ASSUME NEW c \in ResultCalls, AtRow(c, "rows") \/ AtRow(c, "writes"), NextRow(c, "rows"),
             UNCHANGED <<dir, report, replied, overlapped>>
      PROVE  ResultsInv'
  <2>1. /\ c \in Running /\ row' = [row EXCEPT ![c] = row[c] + 1]
        /\ phase' = [phase EXCEPT ![c] = "rows"] /\ writing' = [writing EXCEPT ![c] = Closed]
    BY <1>3 DEF AtRow, NextRow, Running
  <2>2. /\ ResultTypes' /\ phase'[c] = "rows" /\ writing'[c] = Closed
        /\ \A d \in ResultCalls : d # c => /\ phase'[d] = phase[d] /\ row'[d] = row[d]
                                           /\ writing'[d] = writing[d]
    BY <1>0, <1>3, <2>1 DEF ResultTypes, Phases
  <2> QED BY <1>3, <2>1, <2>2, RowKept
<1>4. ASSUME NEW c \in ResultCalls, Open(c) PROVE ResultsInv'
  <2> DEFINE f == [row |-> row[c], whole |-> FALSE, old |-> FALSE]
  <2>1. /\ c \in Running /\ row[c] \in Rows /\ phase' = [phase EXCEPT ![c] = "writes"]
        /\ writing' = [writing EXCEPT ![c] = <<"tmp", FileName[row[c]]>>]
        /\ dir' = [dir EXCEPT ![<<"tmp", FileName[row[c]]>>] = f]
        /\ UNCHANGED <<row, report, replied, overlapped>>
    BY <1>4 DEF Open, AtRow, Running, Tmp
  <2>2. f \in File
    BY <2>1 DEF File
  <2> HIDE DEF f
  <2>3. <<"tmp", FileName[row[c]]>> \in Paths /\ \A n : <<"pdf", n>> # <<"tmp", FileName[row[c]]>>
    BY <2>1, PathFacts
  <2>4. ResultTypes'
    BY <1>0, <2>1, <2>2, <2>3 DEF ResultTypes, Phases
  <2>5. /\ phase'[c] = "writes" /\ writing'[c] = <<"tmp", FileName[row'[c]]>>
        /\ \A d \in ResultCalls : d # c => phase'[d] = phase[d] /\ writing'[d] = writing[d]
    BY <1>0, <2>1 DEF ResultTypes
  <2>6. \A n \in Names : dir'[<<"pdf", n>>] = dir[<<"pdf", n>>]
    BY <1>0, <2>1, <2>3, NamePaths DEF ResultTypes
  <2> QED BY <2>1, <2>4, <2>5, <2>6, RowKept
<1>5. ASSUME NEW c \in ResultCalls, Write(c) PROVE ResultsInv'
  <2>1. /\ c \in Running /\ row[c] \in Rows /\ phase[c] = "writes"
        /\ phase' = [phase EXCEPT ![c] = "wrote"] /\ writing' = [writing EXCEPT ![c] = Closed]
        /\ UNCHANGED <<row, report, replied, overlapped>>
    BY <1>5 DEF Write, AtRow, Running
  <2>2. \/ writing[c] = Closed /\ dir' = dir
        \/ \E whole \in {TRUE, \A d \in ResultCalls \ {c} : writing[d] # writing[c]} :
             /\ writing[c] # Closed
             /\ dir' = [dir EXCEPT ![writing[c]] = [row |-> row[c], whole |-> whole, old |-> FALSE]]
    BY <1>5 DEF Write
  <2>3. /\ phase'[c] = "wrote" /\ writing'[c] = Closed
        /\ \A d \in ResultCalls : d # c => phase'[d] = phase[d] /\ writing'[d] = writing[d]
    BY <1>0, <2>1 DEF ResultTypes
  <2>4. \A whole \in BOOLEAN : [row |-> row[c], whole |-> whole, old |-> FALSE] \in File
    BY <2>1 DEF File
  <2>5. dir' \in [Paths -> File \cup {Closed}]
    <3>1. CASE dir' = dir
      BY <1>0, <3>1 DEF ResultTypes
    <3>2. CASE writing[c] # Closed /\ dir' # dir
      <4>1. PICK whole \in BOOLEAN :
              dir' = [dir EXCEPT ![writing[c]] = [row |-> row[c], whole |-> whole, old |-> FALSE]]
        <5>1. (\A d \in ResultCalls \ {c} : writing[d] # writing[c]) \in BOOLEAN
          OBVIOUS
        <5> QED BY <2>2, <3>2, <5>1
      <4> DEFINE f == [row |-> row[c], whole |-> whole, old |-> FALSE]
      <4>2. f \in File
        BY <2>4
      <4>3. dir' = [dir EXCEPT ![writing[c]] = f]
        BY <4>1
      <4> HIDE DEF f
      <4> QED BY <1>0, <4>2, <4>3 DEF ResultTypes
    <3> QED BY <2>2, <3>1, <3>2
  <2>6. ResultTypes'
    BY <1>0, <2>1, <2>5 DEF ResultTypes, Phases
  <2>7. CASE overlapped
    BY <2>1, <2>6, <2>7 DEF ResultsInv
  <2>8. CASE ~overlapped
    <3> DEFINE tmp == <<"tmp", FileName[row[c]]>>
               f == [row |-> row[c], whole |-> TRUE, old |-> FALSE]
    <3>1. writing[c] = tmp /\ tmp # Closed /\ tmp \in Paths /\ \A n : <<"pdf", n>> # tmp
      BY <2>1, <2>8, PathFacts DEF ResultsInv, OneWrites, Tmp
    <3>2. \A d \in ResultCalls \ {c} : writing[d] = Closed
      BY <2>1, <2>8 DEF ResultsInv, OneWrites, Running
    <3>3. (\A d \in ResultCalls \ {c} : writing[d] # writing[c]) = TRUE
      BY <3>1, <3>2
    <3>4. dir' = [dir EXCEPT ![tmp] = f]
      BY <2>2, <3>1, <3>3
    <3>5. /\ dir'[tmp] = f /\ f.whole /\ f.row = row[c] /\ ~f.old
          /\ \A n \in Names : dir'[<<"pdf", n>>] = dir[<<"pdf", n>>]
      BY <1>0, <3>1, <3>4, NamePaths DEF ResultTypes
    <3>6. f # Closed
      BY <2>4, ResultsAssumption
    <3>7. Right(dir'[<<"tmp", FileName[row'[c]]>>], FileName[row'[c]]) /\ ~dir'[<<"tmp", FileName[row'[c]]>>].old
      BY <2>1, <3>5, <3>6 DEF Right
    <3> QED BY <2>1, <2>3, <2>6, <3>5, <3>7, RowKept
  <2> QED BY <2>7, <2>8
<1>6. ASSUME NEW c \in ResultCalls, Rename(c) PROVE ResultsInv'
  <2> DEFINE tmp == <<"tmp", FileName[row[c]]>>
             pdf == <<"pdf", FileName[row[c]]>>
  <2>1. /\ c \in Running /\ row[c] \in Rows /\ phase[c] = "wrote" /\ UNCHANGED <<replied, overlapped>>
        /\ row' = [row EXCEPT ![c] = row[c] + 1] /\ phase' = [phase EXCEPT ![c] = "rows"]
    BY <1>6 DEF Rename, AtRow, NextRow, Running
  <2>2. tmp \in Paths /\ pdf \in Paths /\ pdf # tmp /\ FileName[row[c]] \in Names
        /\ \A n : <<"pdf", n>> # tmp /\ (<<"pdf", n>> = pdf => n = FileName[row[c]])
    BY <2>1, PathFacts
  <2>3. /\ phase'[c] = "rows" /\ row' \in [ResultCalls -> Nat] /\ phase' \in [ResultCalls -> Phases]
        /\ \A d \in ResultCalls : d # c => phase'[d] = phase[d] /\ row'[d] = row[d]
    BY <1>0, <2>1 DEF ResultTypes, Phases
  <2>4. CASE dir[tmp] = Closed
    <3>1. writing' = [writing EXCEPT ![c] = Closed] /\ UNCHANGED <<dir, report>>
      BY <1>6, <2>4 DEF Rename, NextRow, Tmp
    <3>2. /\ ResultTypes' /\ writing'[c] = Closed
          /\ \A d \in ResultCalls : d # c => writing'[d] = writing[d]
      BY <1>0, <2>1, <2>3, <3>1 DEF ResultTypes
    <3> QED BY <2>1, <2>3, <3>1, <3>2, RowKept
  <2>5. CASE dir[tmp] # Closed
    <3>1. /\ dir' = [dir EXCEPT ![pdf] = dir[tmp], ![tmp] = Closed] /\ writing' = Moved(c)
          /\ report' = [report EXCEPT ![c] = report[c] \cup {row[c]}]
      BY <1>6, <2>5 DEF Rename, Tmp, Pdf
    <3> HIDE DEF tmp, pdf
    <3>2. /\ dir' \in [Paths -> File \cup {Closed}] /\ dir'[pdf] = dir[tmp]
          /\ \A p \in Paths \ {pdf, tmp} : dir'[p] = dir[p]
      BY <1>0, <2>2, <3>1 DEF ResultTypes
    <3>3. /\ report' \in [ResultCalls -> SUBSET Rows] /\ report'[c] = report[c] \cup {row[c]}
          /\ \A d \in ResultCalls : d # c => report'[d] = report[d]
      BY <1>0, <2>1, <3>1 DEF ResultTypes
    <3>4. /\ writing' \in [ResultCalls -> Paths \cup {Closed}]
          /\ \A d \in ResultCalls : writing[d] = Closed => writing'[d] = Closed
      <4>1. \A d \in ResultCalls : writing'[d] \in {Closed, pdf, writing[d]}
            /\ (writing[d] = Closed => writing'[d] = Closed)
        BY <2>2, <3>1, ResultsAssumption DEF Moved, Tmp, Pdf, tmp, pdf
      <4>2. writing' = [d \in ResultCalls |-> writing'[d]]
        BY <3>1 DEF Moved
      <4> QED BY <1>0, <2>2, <4>1, <4>2 DEF ResultTypes
    <3>5. ResultTypes'
      BY <1>0, <2>1, <2>3, <3>2, <3>3, <3>4 DEF ResultTypes
    <3> SUFFICES ASSUME ~overlapped PROVE OneWrites'
      BY <2>1, <3>5 DEF ResultsInv
    <3>6. /\ OneWrites /\ \A d \in ResultCalls : d # c => phase[d] \notin {"rows", "writes", "wrote"}
          /\ \A d \in ResultCalls : writing[d] = Closed
      BY <2>1 DEF ResultsInv, OneWrites, Running
    <3>7. /\ \A d \in ResultCalls : phase'[d] \notin {"writes", "wrote"} /\ writing'[d] = Closed
          /\ Running' \subseteq {c}
      BY <2>3, <3>4, <3>6 DEF Running
    <3>8. Right(dir[tmp], FileName[row[c]]) /\ ~dir[tmp].old
      BY <2>1, <3>6 DEF OneWrites, Tmp, tmp
    <3>9. \A n \in Names : dir'[<<"pdf", n>>] # Closed => Right(dir'[<<"pdf", n>>], n)
      <4> SUFFICES ASSUME NEW n \in Names, dir'[<<"pdf", n>>] # Closed PROVE Right(dir'[<<"pdf", n>>], n)
        OBVIOUS
      <4>1. CASE <<"pdf", n>> = pdf
        BY <2>2, <3>2, <3>8, <4>1
      <4>2. CASE <<"pdf", n>> # pdf
        <5>1. dir'[<<"pdf", n>>] = dir[<<"pdf", n>>]
          BY <2>2, <3>2, <4>2, NamePaths
        <5> QED BY <3>6, <5>1 DEF OneWrites
      <4> QED BY <4>1, <4>2
    <3>10. \A d \in ResultCalls : \A i \in report'[d] :
         dir'[<<"pdf", FileName[i]>>] # Closed /\ ~dir'[<<"pdf", FileName[i]>>].old
      <4> SUFFICES ASSUME NEW d \in ResultCalls, NEW i \in report'[d]
                   PROVE  dir'[<<"pdf", FileName[i]>>] # Closed /\ ~dir'[<<"pdf", FileName[i]>>].old
        OBVIOUS
      <4>1. CASE <<"pdf", FileName[i]>> = pdf
        BY <2>5, <3>2, <3>8, <4>1
      <4>2. CASE <<"pdf", FileName[i]>> # pdf
        <5>1. i \in report[d] /\ i \in Rows
          BY <1>0, <3>3, <4>2 DEF pdf, ResultTypes
        <5>2. dir'[<<"pdf", FileName[i]>>] = dir[<<"pdf", FileName[i]>>]
          BY <2>2, <3>2, <4>2, <5>1, PathFacts
        <5> QED BY <3>6, <5>1, <5>2 DEF OneWrites
      <4> QED BY <4>1, <4>2
    <3> QED BY <3>7, <3>9, <3>10 DEF OneWrites, Right
  <2> QED BY <2>4, <2>5
<1>7. ASSUME NEW c \in ResultCalls, FinishResults(c) PROVE ResultsInv'
  <2>1. /\ c \in Running /\ phase[c] = "rows" /\ phase' = [phase EXCEPT ![c] = "done"]
        /\ replied' = [replied EXCEPT ![c] = TRUE] /\ UNCHANGED <<dir, row, writing, report, overlapped>>
    BY <1>7 DEF FinishResults, Running
  <2>2. /\ ResultTypes' /\ phase'[c] = "done" /\ \A d \in ResultCalls : d # c => phase'[d] = phase[d]
    BY <1>0, <2>1 DEF ResultTypes, Phases
  <2>3. ~overlapped => writing'[c] = Closed
    BY <2>1 DEF ResultsInv, OneWrites
  <2> QED BY <2>1, <2>2, <2>3, RowKept
<1>8. ASSUME NEW c \in ResultCalls, ResultsTimeOut(c) PROVE ResultsInv'
  <2>1. replied' \in [ResultCalls -> BOOLEAN]
        /\ UNCHANGED <<dir, row, phase, writing, report, overlapped>>
    BY <1>0, <1>8 DEF ResultsTimeOut, ResultTypes
  <2> QED BY <2>1 DEF ResultsInv, ResultTypes, OneWrites, Running, Tmp, Right
<1>9. CASE WorkerDies
  <2>1. /\ phase' = [c \in ResultCalls |-> IF c \in Running THEN "done" ELSE phase[c]]
        /\ writing' = [c \in ResultCalls |-> Closed]
        /\ report' = [c \in ResultCalls |-> IF c \in Running THEN {} ELSE report[c]]
        /\ UNCHANGED <<dir, row, replied, overlapped>>
    BY <1>9 DEF WorkerDies
  <2>2. ResultTypes'
    BY <1>0, <2>1 DEF ResultTypes, Phases
  <2>3. /\ \A c \in ResultCalls : /\ phase'[c] \notin {"rows", "writes", "wrote"}
                                  /\ writing'[c] = Closed /\ report'[c] \subseteq report[c]
        /\ Running' = {}
    BY <2>1 DEF Running
  <2> QED BY <2>1, <2>2, <2>3 DEF ResultsInv, OneWrites, Right
<1>10. CASE DayPasses
  <2>1. /\ Running = {} /\ report' = [c \in ResultCalls |-> {}]
        /\ dir' = [p \in Paths |-> IF dir[p] = Closed THEN Closed ELSE [dir[p] EXCEPT !.old = TRUE]]
        /\ UNCHANGED <<row, phase, writing, replied, overlapped>>
    BY <1>10 DEF DayPasses
  <2>2. \A p \in Paths : /\ dir[p] = Closed => dir'[p] = Closed
                         /\ dir[p] # Closed => /\ dir'[p] \in File /\ dir'[p].whole = dir[p].whole
                                               /\ dir'[p].row = dir[p].row
    <3> SUFFICES ASSUME NEW p \in Paths, dir[p] # Closed
                 PROVE  /\ dir'[p] \in File /\ dir'[p].whole = dir[p].whole
                        /\ dir'[p].row = dir[p].row
      BY <2>1
    <3>1. dir[p] \in File /\ dir'[p] = [dir[p] EXCEPT !.old = TRUE]
      BY <1>0, <2>1 DEF ResultTypes
    <3> QED BY <3>1 DEF File
  <2>3. dir' \in [Paths -> File \cup {Closed}]
    <3>1. dir' = [p \in Paths |-> dir'[p]]
      BY <2>1
    <3> QED BY <2>2, <3>1
  <2>4. ResultTypes'
    BY <1>0, <2>1, <2>3 DEF ResultTypes
  <2> SUFFICES ASSUME ~overlapped PROVE OneWrites'
    BY <2>1, <2>4 DEF ResultsInv
  <2>5. /\ OneWrites /\ Running' = {}
        /\ \A c \in ResultCalls : phase'[c] \notin {"writes", "wrote"} /\ writing'[c] = Closed
    BY <2>1 DEF ResultsInv, OneWrites, Running
  <2>6. \A n \in Names : dir'[<<"pdf", n>>] # Closed => Right(dir'[<<"pdf", n>>], n)
    <3> SUFFICES ASSUME NEW n \in Names, dir'[<<"pdf", n>>] # Closed PROVE Right(dir'[<<"pdf", n>>], n)
      OBVIOUS
    <3>1. <<"pdf", n>> \in Paths
      BY NamePaths
    <3> QED BY <2>2, <2>5, <3>1 DEF OneWrites, Right
  <2> QED BY <2>1, <2>5, <2>6 DEF OneWrites, Right
<1> QED BY <1>1, <1>2, <1>3, <1>4, <1>5, <1>6, <1>7, <1>8, <1>9, <1>10
        DEF ResultsNext, ResultsStep, NotDownloaded, WriteFails

(* A call goes on to the next row only from a row of the table.            *)
LEMMA RowsStay ==
  ResultTypes /\ ResultsTypeOK /\ [ResultsNext]_resultVars
    => (row \in [ResultCalls -> 1..(Len(FileName) + 1)])'
<1> SUFFICES ASSUME ResultsTypeOK, [ResultsNext]_resultVars
             PROVE  row' \in [ResultCalls -> 1..(Len(FileName) + 1)]
  OBVIOUS
<1>1. row \in [ResultCalls -> 1..(Len(FileName) + 1)]
  BY DEF ResultsTypeOK
<1>2. Rows = 1..Len(FileName) /\ Len(FileName) \in Nat
  BY ResultsAssumption DEF Rows
<1>3. row' = row \/ \E c \in ResultCalls : row[c] \in Rows /\ row' = [row EXCEPT ![c] = @ + 1]
  BY DEF ResultsNext, ResultsStep, resultVars, WorkerDies, DayPasses, StartResults, NotDownloaded,
         Open, Write, WriteFails, Rename, FinishResults, ResultsTimeOut, AtRow, NextRow
<1> QED BY <1>1, <1>2, <1>3

(* Every variable of the downloads keeps its type: a call is at a row of   *)
(* the table or just past the last one, and reports rows of the table.     *)
THEOREM ResultsAreTyped == ResultsSpec => []ResultsTypeOK
<1> DEFINE Typed == ResultsInv /\ ResultsTypeOK
<1>1. ResultsInit => Typed
  <2> SUFFICES ASSUME ResultsInit PROVE ResultsTypeOK
    BY ResultsInvInit
  <2>1. ResultTypes /\ row \in [ResultCalls -> 1..(Len(FileName) + 1)]
    BY ResultsInvInit, ResultsAssumption DEF ResultsInv, ResultsInit
  <2> QED BY <2>1 DEF ResultTypes, ResultsTypeOK
<1>2. Typed /\ [ResultsNext]_resultVars => Typed'
  <2> SUFFICES ASSUME Typed, [ResultsNext]_resultVars PROVE ResultsTypeOK'
    BY ResultsInvStep
  <2>1. ResultTypes' /\ row' \in [ResultCalls -> 1..(Len(FileName) + 1)]
    BY ResultsInvStep, RowsStay DEF ResultsInv
  <2> QED BY <2>1 DEF ResultTypes, ResultsTypeOK
<1>3. Typed => ResultsTypeOK
  OBVIOUS
<1> HIDE DEF Typed
<1> QED BY <1>1, <1>2, <1>3, PTL DEF ResultsSpec

(* A row reported as downloaded within the day has its whole file, for any *)
(* table, any number of calls, and a worker that dies at any moment: as    *)
(* long as calls do not overlap, no one else opens the temporary file      *)
(* between its writing and its renaming.                                   *)
THEOREM DownloadsAreThere == ResultsSpec => []ReportedIsThere
<1>1. ResultsInv => ReportedIsThere
  <2> SUFFICES ASSUME ResultsInv, ~overlapped, NEW c \in ResultCalls, NEW i \in report[c]
               PROVE  Right(dir[<<"pdf", FileName[i]>>], FileName[i])
    BY DEF ReportedIsThere, Right
  <2>1. FileName[i] \in Names
    BY PathFacts DEF ResultsInv, ResultTypes
  <2> QED BY <2>1 DEF ResultsInv, OneWrites
<1> QED BY <1>1, ResultsInvInit, ResultsInvStep, PTL DEF ResultsSpec

-----------------------------------------------------------------------------
(* Side by side.                                                           *)

LEMMA ToolsMoveParts ==
  [ToolsNext]_toolVars =>
    /\ [McpNext]_mcpVars /\ [OrdersNext]_orderVars /\ [AckNext]_ackVars
    /\ [PortfolioNext]_portfolioVars /\ [ClaimsNext]_claimVars
    /\ [PortalNext]_portalVars /\ [ResultsNext]_resultVars
BY DEF ToolsNext, Server, Orders, Acknowledgement, Portfolio, ClaimForms, Portal, Results, toolVars

(* Side by side each part behaves as it does alone, so that what is proved *)
(* of a part holds of all of them together.                                *)
THEOREM ToolsDriveParts ==
  ToolsSpec =>
    /\ McpInit /\ [][McpNext]_mcpVars
    /\ OrdersSpec /\ AckSpec /\ PortfolioSpec /\ ClaimsSpec /\ PortalSpec /\ ResultsSpec
<1>1. ToolsInit => /\ McpInit /\ OrdersInit /\ AckInit /\ PortfolioInit
                   /\ ClaimsInit /\ PortalInit /\ ResultsInit
  BY DEF ToolsInit
<1> QED BY <1>1, ToolsMoveParts, PTL
        DEF ToolsSpec, OrdersSpec, AckSpec, PortfolioSpec, ClaimsSpec, PortalSpec, ResultsSpec

(* Every variable of the server and of the extractors keeps its type, for  *)
(* any interleaving of them and without the bounds of the run.             *)
THEOREM ToolsAreTyped == ToolsSpec => []ToolsTypeOK
<1>1. McpInit /\ [][McpNext]_mcpVars => []McpTypeOK
  BY ServerInitially, ServerKeeps, ServerTypes, PTL
<1> QED BY <1>1, ToolsDriveParts, OrdersAreTyped, AcknowledgementsAreTyped, PortfoliosAreTyped,
           ClaimsAreTyped, PortalIsTyped, ResultsAreTyped, PTL DEF ToolsTypeOK
=============================================================================
