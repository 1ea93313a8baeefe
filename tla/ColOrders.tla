----------------------------- MODULE ColOrders -----------------------------
(***************************************************************************)
(* Orders through COL Financial's pages (extractors/col_financial.js):     *)
(* place_order, dry or not, and diagnose_order_preview, on the one tab of  *)
(* the site's session.                                                     *)
(*                                                                         *)
(* The tab shows a document in its trade frame, and a navigation may be on *)
(* its way to it: whatever awaits the page may run before or after it      *)
(* lands.  When COL mounts its frameset anew, every handle to a frame is   *)
(* detached.  A call that exceeds the worker's limit is answered, but goes *)
(* on, and the next call may then drive the tab with it.                   *)
(***************************************************************************)
EXTENDS Naturals, Sequences

CONSTANTS
  OrderCalls,
  Kind,       \* call -> "dry", "real" or "diagnose"
  Wanted,     \* call -> the order it was asked for
  Lots,       \* the sizes an order may have; 0 is no valid one
  None

Order     == [side : {"buy", "sell"}, lot : Lots]
Untouched == [side |-> "buy", lot |-> 0]

ASSUME OrderAssumption ==
  /\ Lots \subseteq Nat /\ 0 \in Lots
  /\ Kind \in [OrderCalls -> {"dry", "real", "diagnose"}]
  /\ Wanted \in [OrderCalls -> Order]
  /\ None \notin OrderCalls

VARIABLES
  doc,        \* what the trade frame shows
  coming,     \* the document that is on its way to it, or None
  step,       \* where the extractor is for each call
  handle,     \* its handle to a frame
  shown,      \* the snapshot that it took after Preview
  answer,     \* what the caller has been told
  broker,     \* external: the orders that COL has accepted
  alone       \* history: no other call, and no page of an earlier one, came in between

orderVars == <<doc, coming, step, handle, shown, answer, broker, alone>>

\* A page: Step 1, 2 and 3 of an order, an error, no text, the market is
\* closed, or any other; with its order, and inside COL's frameset or not.
Document == [view : {"form", "preview", "receipt", "error", "blank", "closed", "other"},
             order : Order, framed : BOOLEAN]
Page(view, framed) == [view |-> view, order |-> Untouched, framed |-> framed]
Steps   == {"idle", "home", "getwin", "await", "direct", "acquire", "side", "lot", "reacquire",
            "side again", "lot again", "preview", "look", "resubmit", "look again", "judge", "password",
            "fill password", "confirm", "read", "done"}
Answers == {"none", "timeout", "thrown", "refused", "dry_run", "diagnosed", "rejected", "ok"}

OrdersTypeOK ==
  /\ doc \in Document /\ coming \in Document \cup {None}
  /\ step \in [OrderCalls -> Steps]
  /\ handle \in [OrderCalls -> {"none", "held", "detached"}]
  /\ shown \in [OrderCalls -> Document \cup {None}]
  /\ answer \in [OrderCalls -> Answers]
  /\ broker \in Seq([by : OrderCalls, order : Order])
  /\ alone \in [OrderCalls -> BOOLEAN]

OrdersInit ==
  /\ doc \in {Page("other", framed) : framed \in BOOLEAN} /\ coming = None
  /\ step = [c \in OrderCalls |-> "idle"] /\ handle = [c \in OrderCalls |-> "none"]
  /\ shown = [c \in OrderCalls |-> None] /\ answer = [c \in OrderCalls |-> "none"]
  /\ broker = <<>> /\ alone = [c \in OrderCalls |-> TRUE]

Driving == {c \in OrderCalls : step[c] \notin {"idle", "done"}}

-----------------------------------------------------------------------------

Goto(c, place) == step' = [step EXCEPT ![c] = place]

\* The extractor returns or throws; a caller that was told of a time-out hears no more.
Answered(c, what) ==
  /\ answer' = [answer EXCEPT ![c] = IF @ = "none" THEN what ELSE @]
  /\ Goto(c, "done")

Holds(c, view) == handle[c] = "held" /\ doc.view = view

OnlyStep == UNCHANGED <<doc, coming, handle, shown, answer, broker, alone>>
NoPage   == UNCHANGED <<doc, coming, broker, alone>>

ValidOrder(o) == o.lot > 0

\* The worker calls the extractor: the previous call has been answered.
StartOrder(c) ==
  /\ step[c] = "idle"
  /\ \A d \in OrderCalls \ {c} : step[d] # "idle" => answer[d] # "none"
  /\ IF ValidOrder(Wanted[c]) THEN Goto(c, "home") /\ UNCHANGED answer ELSE Answered(c, "thrown")
  /\ alone' = [d \in OrderCalls |->
                 alone[d] /\ (d \in Driving \cup {c} => Driving \subseteq {c})]
  /\ UNCHANGED <<doc, coming, handle, shown, broker>>

\* withActionTimeout, and the caller that gave up.
OrderTimesOut(c) ==
  /\ c \in Driving /\ answer[c] = "none"
  /\ answer' = [answer EXCEPT ![c] = "timeout"]
  /\ UNCHANGED <<doc, coming, step, handle, shown, broker, alone>>

-----------------------------------------------------------------------------
(* navigateToOrderEntry.                                                   *)

\* To HOME.asp, unless it is there; a failure is noted and passed over.
GoHome(c) ==
  /\ step[c] = "home" /\ Goto(c, "getwin")
  /\ \/ UNCHANGED <<doc, coming>>
     \/ ~doc.framed /\ doc' = Page("other", TRUE) /\ coming' = None
  /\ UNCHANGED <<handle, shown, answer, broker, alone>>

\* getwin(41) of the menu frame starts to load the form into the trade frame.
Getwin(c) ==
  /\ step[c] = "getwin"
  /\ \/ doc.framed /\ Goto(c, "await")
        /\ \E view \in {"form", "closed"} : coming' = Page(view, TRUE)
     \/ Goto(c, "direct") /\ UNCHANGED coming
  /\ UNCHANGED <<doc, handle, shown, answer, broker, alone>>

\* waitForOrderDetailsFrame: any form will do, an earlier one too.
AwaitForm(c) ==
  /\ step[c] = "await"
  /\ Goto(c, IF doc.view = "form" THEN "acquire" ELSE "direct")
  /\ OnlyStep

DirectGoto(c) ==
  /\ step[c] = "direct"
  /\ \/ doc' = Page("form", FALSE) /\ coming' = None /\ Goto(c, "acquire") /\ UNCHANGED answer
     \/ /\ \/ doc' \in {Page("closed", FALSE), Page("other", FALSE)} /\ coming' = None
           \/ UNCHANGED <<doc, coming>>
        /\ Answered(c, "refused")
  /\ UNCHANGED <<handle, shown, broker, alone>>

-----------------------------------------------------------------------------
(* The form, and Preview.                                                  *)

\* findOrderDetailsFrame, at first and after the frame was detached.  Without a
\* form place_order throws; diagnose_order_preview says so.
AcquireForm(c) ==
  /\ step[c] \in {"acquire", "reacquire"}
  /\ IF doc.view = "form"
     THEN /\ handle' = [handle EXCEPT ![c] = "held"] /\ UNCHANGED answer
          /\ Goto(c, IF step[c] = "acquire" THEN "side" ELSE "side again")
     ELSE Answered(c, IF Kind[c] = "diagnose" THEN "refused" ELSE "thrown") /\ UNCHANGED handle
  /\ UNCHANGED shown /\ NoPage

Fill(c, new, next) ==
  /\ Holds(c, "form")
  /\ doc' = [doc EXCEPT !.order = new] /\ Goto(c, next)
  /\ UNCHANGED <<coming, handle, shown, answer, broker, alone>>

\* A detached frame is looked for once more (by place_order), any other failure is thrown.
FillFails(c) ==
  /\ ~Holds(c, "form")
  /\ IF handle[c] = "detached" /\ step[c] \in {"side", "lot"} /\ Kind[c] # "diagnose"
     THEN Goto(c, "reacquire") /\ UNCHANGED answer
     ELSE Answered(c, "thrown")
  /\ UNCHANGED <<handle, shown>> /\ NoPage

(* Mutant: after the retry the form is filled from where it stopped.       *)
FillOrderFormResumed(c) ==
  \/ /\ step[c] \in {"side", "side again"}
     /\ \/ step[c] = "side" /\ Fill(c, [doc.order EXCEPT !.side = Wanted[c].side], "lot")
        \/ step[c] = "side again" /\ Fill(c, doc.order, "lot again")
        \/ FillFails(c)
  \/ /\ step[c] \in {"lot", "lot again"}
     /\ Fill(c, [doc.order EXCEPT !.lot = Wanted[c].lot], "preview") \/ FillFails(c)

\* fillOrderForm: the radio buttons, then the texts.
FillOrderForm(c) ==
  \/ /\ step[c] \in {"side", "side again"}
     /\ \/ Fill(c, [doc.order EXCEPT !.side = Wanted[c].side],
                IF step[c] = "side" THEN "lot" ELSE "lot again")
        \/ FillFails(c)
  \/ /\ step[c] \in {"lot", "lot again"}
     /\ Fill(c, [doc.order EXCEPT !.lot = Wanted[c].lot], "preview") \/ FillFails(c)

\* What COL makes of a submitted form: an alert and nothing, Step 1 again, an
\* error, an empty page, or the preview of a complete order.
Responses ==
  {Page("form", doc.framed), [doc EXCEPT !.view = "error"], [doc EXCEPT !.view = "blank"]}
    \cup (IF doc.framed /\ ValidOrder(doc.order) THEN {[doc EXCEPT !.view = "preview"]} ELSE {})

\* The click on Preview Order.
ClickPreview(c) ==
  /\ step[c] = "preview"
  /\ IF Holds(c, "form")
     THEN Goto(c, "look") /\ UNCHANGED answer /\ (UNCHANGED coming \/ coming' \in Responses)
     ELSE Answered(c, "thrown") /\ UNCHANGED coming
  /\ UNCHANGED <<doc, handle, shown, broker, alone>>

\* form.submit() when the tab still shows Step 1; whatever it throws is caught.
Resubmit(c) ==
  /\ step[c] = "resubmit" /\ Goto(c, "look again")
  /\ IF Holds(c, "form") THEN coming' \in Responses ELSE UNCHANGED coming
  /\ UNCHANGED <<doc, handle, shown, answer, broker, alone>>

\* pollForNonEmptySnapshot: the frame, or if it has no text any that has some.
Snapshots(c) ==
  IF handle[c] = "held" /\ doc.view # "blank" THEN {doc}
  ELSE {doc, Page("other", doc.framed), Page("blank", doc.framed)}

Look(c) ==
  /\ step[c] \in {"look", "look again"}
  /\ \E snapshot \in Snapshots(c) :
       /\ shown' = [shown EXCEPT ![c] = snapshot]
       /\ Goto(c, IF step[c] = "look" /\ snapshot.view = "form" THEN "resubmit" ELSE "judge")
  /\ UNCHANGED <<handle, answer>> /\ NoPage

\* detectStuckOnStep1, detectPreviewError, and a preview without text.
Stops(c) == shown[c].view \in {"form", "closed", "error", "blank"}

\* diagnose_order_preview dumps whatever it sees.
Diagnose(c) ==
  /\ step[c] = "judge" /\ Kind[c] = "diagnose" /\ Answered(c, "diagnosed")
  /\ UNCHANGED <<handle, shown>> /\ NoPage

Judge(c) ==
  /\ step[c] = "judge" /\ Kind[c] # "diagnose"
  /\ IF Stops(c) THEN Answered(c, "refused")
     ELSE IF Kind[c] = "dry" THEN Answered(c, "dry_run")
     ELSE Goto(c, "password") /\ UNCHANGED answer
  /\ UNCHANGED <<handle, shown>> /\ NoPage

-----------------------------------------------------------------------------
(* The confirmation.                                                       *)

\* Any page with a password field is taken for Step 2.
AsksPassword == doc.view \in {"preview", "other"}

\* findPreviewFrameWithPassword and readColPassword.
FindPassword(c) ==
  /\ step[c] = "password"
  /\ \/ /\ AsksPassword /\ handle' = [handle EXCEPT ![c] = "held"]
        /\ Goto(c, "fill password") /\ UNCHANGED answer
     \/ Answered(c, "refused") /\ UNCHANGED handle
  /\ UNCHANGED shown /\ NoPage

\* The password is filled and the button found, or it refuses.
FillPassword(c) ==
  /\ step[c] = "fill password"
  /\ \/ handle[c] = "held" /\ AsksPassword /\ Goto(c, "confirm") /\ UNCHANGED answer
     \/ Answered(c, "refused")
  /\ UNCHANGED <<handle, shown>> /\ NoPage

\* The click reaches COL, which accepts the order of a preview or does not; it may
\* throw all the same.
Confirm(c) ==
  /\ step[c] = "confirm" /\ handle[c] = "held" /\ AsksPassword
  /\ \/ /\ doc.view = "preview"
        /\ broker' = Append(broker, [by |-> c, order |-> doc.order])
        /\ coming' = [doc EXCEPT !.view = "receipt"]
     \/ broker' = broker /\ coming' \in {[doc EXCEPT !.view = "error"], [doc EXCEPT !.view = "other"]}
  /\ \/ Goto(c, "read") /\ UNCHANGED answer
     \/ Answered(c, "thrown")
  /\ UNCHANGED <<doc, handle, shown, alone>>

ConfirmFails(c) ==
  /\ step[c] = "confirm" /\ ~(handle[c] = "held" /\ AsksPassword)
  /\ Answered(c, "thrown") /\ UNCHANGED <<handle, shown>> /\ NoPage

\* The confirmation, if it has come: any page without an error phrase is "ok".
ReadConfirmation(c) ==
  /\ step[c] = "read"
  /\ Answered(c, IF Holds(c, "error") THEN "rejected" ELSE "ok")
  /\ UNCHANGED <<handle, shown>> /\ NoPage

-----------------------------------------------------------------------------
(* External: the page.                                                     *)

\* A form that lands on one that is being filled leaves the call not alone.
PageLands ==
  /\ coming # None
  /\ doc' = coming /\ coming' = None
  /\ alone' = [c \in OrderCalls |->
       alone[c] /\ ~(coming.view = "form" /\ step[c] \in {"side", "lot", "preview", "side again", "lot again"})]
  /\ UNCHANGED <<step, handle, shown, answer, broker>>

\* COL mounts its frameset anew: Step 1, and no handle is good.
Remount ==
  /\ doc.framed /\ \E c \in Driving : handle[c] = "held"
  /\ doc' = Page("form", TRUE) /\ coming' = None
  /\ handle' = [c \in OrderCalls |-> IF handle[c] = "held" THEN "detached" ELSE handle[c]]
  /\ UNCHANGED <<step, shown, answer, broker, alone>>

\* tryActivateTradeLink of diagnose_order_form: the first label of the menu or the
\* page that leads anywhere, and none is first on a button of Step 2; it waits for
\* the page.
ActivateTradeLink ==
  /\ doc' \in {Page("other", doc.framed)} \cup (IF doc.framed THEN {Page("form", TRUE)} ELSE {})
  /\ coming' = None

DiagnoseOrderForm ==
  /\ \A d \in OrderCalls : step[d] # "idle" => answer[d] # "none"
  /\ ActivateTradeLink
  /\ alone' = [c \in OrderCalls |-> alone[c] /\ c \notin Driving]
  /\ UNCHANGED <<step, handle, shown, answer, broker>>

OrderStep(c) ==
  \/ GoHome(c) \/ Getwin(c) \/ AwaitForm(c) \/ DirectGoto(c) \/ AcquireForm(c) \/ FillOrderForm(c)
  \/ ClickPreview(c) \/ Resubmit(c) \/ Look(c) \/ Judge(c) \/ Diagnose(c)
  \/ FindPassword(c) \/ FillPassword(c) \/ Confirm(c) \/ ConfirmFails(c) \/ ReadConfirmation(c)

OrdersNext ==
  \/ PageLands \/ Remount \/ DiagnoseOrderForm
  \/ \E c \in OrderCalls : StartOrder(c) \/ OrderTimesOut(c) \/ OrderStep(c)

OrdersSpec == OrdersInit /\ [][OrdersNext]_orderVars

-----------------------------------------------------------------------------

PlacedBy(c) == {i \in DOMAIN broker : broker[i].by = c}

(* A refusal, a dry run and a diagnosis leave nothing at COL, whatever the *)
(* page did and even when calls overlap: "Surface verbatim - DO NOT        *)
(* proceed to confirm" (line 1460), "NO ORDER WAS PLACED" (line 1883).     *)
RefusedIsNotPlaced ==
  \A c \in OrderCalls :
    Kind[c] # "real" \/ answer[c] \in {"refused", "dry_run", "diagnosed"} => PlacedBy(c) = {}

(* One call places one order at most, however often the form is filled and *)
(* submitted.                                                              *)
PlacedOnce ==
  \A i, j \in DOMAIN broker : broker[i].by = broker[j].by => i = j

(* An order that a call places is the one it was asked for and the one its *)
(* preview showed, across re-mounts of the frameset and pages that are     *)
(* late: unless a call that had timed out still drove the tab, or a form   *)
(* landed on the one that was being filled, for nothing compares the       *)
(* preview with the arguments.                                             *)
PlacedAsAsked ==
  \A i \in DOMAIN broker :
    LET c == broker[i].by
    IN  alone[c] => broker[i].order = Wanted[c] /\ broker[i].order = shown[c].order

(* Only an order that was asked for, as it was asked for, and once.        *)
OrdersAsAsked == RefusedIsNotPlaced /\ PlacedOnce /\ PlacedAsAsked
=============================================================================
