--------------------------- MODULE ColAcknowledge ---------------------------
(***************************************************************************)
(* The acknowledgement of a trading day (extractors/col_financial.js): COL *)
(* lists the trades over its pages until the account's password confirms   *)
(* them.  get_pending_acknowledgment reads the list for the user, and      *)
(* submit_acknowledgment, told how many trades and what total the user has *)
(* agreed to, reads it again, compares, and confirms.                      *)
(*                                                                         *)
(* COL may execute more trades at any time; the list shows them when the   *)
(* page is loaded again, by other calls or by COL, at any time as well.    *)
(***************************************************************************)
EXTENDS Naturals, FiniteSets, FiniteSetsExt

CONSTANTS
  Trades, Side, Value,    \* the day's trades; trade -> "buy" or "sell", trade -> amount
  Threshold,              \* BROWSER_INTENT_ACK_HIGH_VALUE_THRESHOLD
  NoList                  \* no list is shown

\* A list: its trades, and the side of its last total.
Lists == [trades : SUBSET Trades, last : {"buy", "sell"}]

\* A submission under way: bypass_high_value, and whether the click was done and
\* the page was loaded between the comparison and the click.
Submissions == [bypass : BOOLEAN, clicked : BOOLEAN, reloaded : BOOLEAN]

\* A confirmation; again: of an agreement whose trades had been confirmed before.
Confirmations == [trades : SUBSET Trades, agreed : SUBSET Trades, bypass : BOOLEAN,
                  reloaded : BOOLEAN, again : BOOLEAN]

ASSUME AcknowledgeAssumption ==
  /\ Side \in [Trades -> {"buy", "sell"}] /\ Value \in [Trades -> Nat \ {0}]
  /\ Threshold \in Nat /\ NoList \notin Submissions \cup Lists

VARIABLES
  ledger,     \* external: the trades that COL waits for
  list,       \* the list on the page, or NoList
  inFrame,    \* the list is in a frame of the page
  agreed,     \* what the user was told last and has agreed to, and the trades this was about
  submit,     \* the submission under way, or NoList
  cleared,    \* history: what was confirmed, for each submission
  outcome     \* what the last submission returned

ackVars == <<ledger, list, inFrame, agreed, submit, cleared, outcome>>

NotAgreed == [count |-> 0, total |-> 0, trades |-> {}]

AckTypeOK ==
  /\ ledger \subseteq Trades
  /\ list \in Lists \cup {NoList}
  /\ inFrame \in BOOLEAN
  /\ agreed \in [count : Nat, total : Nat, trades : SUBSET Trades]
  /\ submit \in Submissions \cup {NoList}
  /\ cleared \subseteq Confirmations
  /\ outcome \in {"none", "refused", "not_cleared", "acknowledged"}

AckInit ==
  /\ ledger = {} /\ list = NoList /\ inFrame \in BOOLEAN
  /\ agreed = NotAgreed /\ submit = NoList
  /\ cleared = {} /\ outcome = "none"

-----------------------------------------------------------------------------

Of(trades, side) == {t \in trades : Side[t] = side}
Sum(trades) == MapThenSumSet(LAMBDA t : Value[t], trades)

\* parseAcknowledgmentTable: SELLING TOTAL and BUYING TOTAL set one and the same field.
Parsed(page) ==
  [count |-> Cardinality(page.trades), total |-> Sum(Of(page.trades, page.last)), trades |-> page.trades]

\* External: COL executes an order.
Execute(t) ==
  /\ t \notin ledger /\ \A c \in cleared : t \notin c.trades
  /\ ledger' = ledger \cup {t}
  /\ UNCHANGED <<list, inFrame, agreed, submit, cleared, outcome>>

BeforeClick == submit # NoList /\ ~submit.clicked

\* The page is loaded: with the list, while there is something to confirm.
LoadPage ==
  /\ \/ ledger = {} /\ list' = NoList
     \/ \E t \in ledger : list' = [trades |-> ledger, last |-> Side[t]]
  /\ submit' = IF BeforeClick THEN [submit EXCEPT !.reloaded = TRUE] ELSE submit
  /\ UNCHANGED <<ledger, inFrame, agreed, cleared, outcome>>

\* findAckContext.
Overlay == list # NoList

\* getPendingAcknowledgment, and the user agrees.
GetPending ==
  /\ submit = NoList /\ Overlay
  /\ agreed' = Parsed(list)
  /\ UNCHANGED <<ledger, list, inFrame, submit, cleared, outcome>>

(* Mutant: the totals agree.                                               *)
UnchangedTotal == Parsed(list).total = agreed.total

\* totalsMatch and countsMatch.
UnchangedList == Parsed(list).total = agreed.total /\ Parsed(list).count = agreed.count

HighValue == Parsed(list).total > Threshold

\* submitAcknowledgment up to the click.
BeginSubmit(bypass) ==
  /\ submit = NoList /\ agreed.count > 0
  /\ IF Overlay /\ UnchangedList /\ (HighValue => bypass)
     THEN submit' = [bypass |-> bypass, clicked |-> FALSE, reloaded |-> FALSE] /\ UNCHANGED outcome
     ELSE outcome' = "refused" /\ UNCHANGED submit
  /\ UNCHANGED <<ledger, list, inFrame, agreed, cleared>>

\* No password, input or button; or the input cannot be filled.
SubmitRefused ==
  /\ BeforeClick
  /\ submit' = NoList /\ outcome' = "refused"
  /\ UNCHANGED <<ledger, list, inFrame, agreed, cleared>>

\* The click, whose failure is passed over: COL takes the listed trades as confirmed, or nothing happens.
Click ==
  /\ BeforeClick
  /\ submit' = [submit EXCEPT !.clicked = TRUE]
  /\ \/ /\ cleared' = cleared \cup
              {[trades |-> list.trades, agreed |-> agreed.trades, bypass |-> submit.bypass,
                reloaded |-> submit.reloaded, again |-> ~(agreed.trades \subseteq ledger)]}
        /\ ledger' = ledger \ list.trades /\ list' = NoList
     \/ UNCHANGED <<cleared, ledger, list>>
  /\ UNCHANGED <<inFrame, agreed, outcome>>

\* Only the body of the page itself is asked whether the list is gone; if it
\* is, the user's agreement is used up.
CheckCleared ==
  /\ submit # NoList /\ submit.clicked
  /\ submit' = NoList
  /\ IF list # NoList /\ ~inFrame
     THEN outcome' = "not_cleared" /\ UNCHANGED agreed
     ELSE outcome' = "acknowledged" /\ agreed' = NotAgreed
  /\ UNCHANGED <<ledger, list, inFrame, cleared>>

AckNext ==
  \/ LoadPage \/ GetPending \/ SubmitRefused \/ Click \/ CheckCleared
  \/ \E t \in Trades : Execute(t)
  \/ \E bypass \in BOOLEAN : BeginSubmit(bypass)

AckSpec == AckInit /\ [][AckNext]_ackVars

-----------------------------------------------------------------------------

(* What is confirmed at COL is the list of trades the user has agreed to:  *)
(* a trade that lands between reading and submitting is not "silently      *)
(* acknowledged" (lines 1988 to 1990), although the comparison is of a     *)
(* count and one total, and the total of a day with sales and purchases is *)
(* that of one side.  Two things the code does not see: a page that loads  *)
(* after the comparison may have a longer list, and a submission that went *)
(* through but found the next list in place reports acknowledgment_not_    *)
(* cleared, whose caller may submit the old agreement again.               *)
AckedIsAgreed ==
  \A c \in cleared : ~c.again =>
    /\ c.agreed \subseteq c.trades
    /\ c.trades # c.agreed => c.reloaded

(* "A high-value gate refuses by default for totals above the threshold    *)
(* unless bypass_high_value=true is explicitly passed" (lines 1992 to      *)
(* 1995).                                                                  *)
GateHolds == \A c \in cleared : Sum(c.trades) > Threshold => c.bypass
=============================================================================
