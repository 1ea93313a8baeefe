--------------------------- MODULE MCBrowserTools ---------------------------
(* The browser MCP server and the extractors for TLC.  They share no       *)
(* state: a behaviour moves the one that `part` names, and the server      *)
(* either serves calls or keeps sessions and streams.                      *)
EXTENDS BrowserTools, TLC
CONSTANTS r1, r2, t1, t2, c1, c2, c3, a, b, x, y, z, Parts

VARIABLE part

(* Two sites: in the first version of the files the client may use one and *)
(* both allow the action, later it is the other way round.                 *)
Allowed == [v \in Versions |-> IF v = 0 THEN {a} ELSE {a, b}]
Granted == [v \in Versions |-> IF v = 0 THEN {a, b} ELSE {b}]

(* An order to sell, and a dry run or a diagnosis of one to buy.           *)
OrderKind  == c1 :> "real" @@ c2 :> "dry" @@ c3 :> "diagnose"
OrderGiven == LET buy == [side |-> "buy", lot |-> 1]
              IN  c1 :> [side |-> "sell", lot |-> 1] @@ c2 :> buy @@ c3 :> buy

(* Trades of which two, but not all, of the three have the same totals.    *)
TradeSide  == x :> "buy" @@ y :> "sell" @@ z :> "buy"
TradeValue == x :> 3 @@ y :> 2 @@ z :> 2

(* A dry run of a claim with all fields, and a claim without optional ones.*)
ClaimDry   == c1 :> TRUE @@ c2 :> FALSE
ClaimGiven == c1 :> [required |-> a, optional |-> b] @@ c2 :> [required |-> b, optional |-> Empty]

(* Two rows of three have the same file name.                              *)
RowNames == <<"a", "b", "a">>

Symmetries == Permutations({r1, r2}) \cup Permutations({t1, t2})

(* What the parts that do not move start with is of no interest.           *)
PartsInit ==
  /\ part \in Parts
  /\ ToolsInit
  /\ part # "orders" => doc = Page("other", TRUE)
  /\ part # "acknowledge" => inFrame
  /\ part # "portfolio" => shows = [f \in 1..Frames |-> {}]

(* Calls at all times with the files as they are; calls at one time while  *)
(* the files change, one of them twice; and sessions and streams with one  *)
(* request at a time, and one change of each file.                         *)
Calls     == Server /\ minted' = minted /\ file' = file
Edits     == /\ Server /\ minted' = minted /\ now' = now
             /\ file'["sites"].mtime + file'["clients"].mtime <= 3
Streaming == /\ Server /\ now' = now
             /\ \E r \in Requests : \A q \in Requests \ {r} : request'[q] = NoRequest
             /\ \A f \in Files : file'[f].mtime <= 1

(* Two of the three calls on an order; a diagnosis, which does to the page *)
(* nothing that a dry run does not, is not overtaken.                      *)
TwoOrders == Orders /\ "idle" \in {step'[c2], step'[c3]} /\ answer'[c3] # "timeout"

Move(p, next) == part = p /\ next /\ UNCHANGED part

PartsNext ==
  \/ Move("calls", Calls) \/ Move("edits", Edits) \/ Move("streams", Streaming)
  \/ Move("orders", TwoOrders) \/ Move("acknowledge", Acknowledgement)
  \/ Move("portfolio", Portfolio) \/ Move("claims", ClaimForms)
  \/ Move("portal", Portal) \/ Move("results", Results)
=============================================================================
