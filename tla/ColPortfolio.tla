---------------------------- MODULE ColPortfolio ----------------------------
(***************************************************************************)
(* get_portfolio of the COL Financial extractor (extractors/               *)
(* col_financial.js): the holdings and the balances, looked for in all     *)
(* frames of COL's page, one frame after the other, while any frame may be *)
(* loaded again.  What a frame shows is named by the frame and its load.   *)
(***************************************************************************)
EXTENDS Naturals

CONSTANTS
  Frames,      \* how many frames the page has
  MaxLoads,    \* bound: loads of the page's frames
  Null

ASSUME PortfolioAssumption ==
  Frames \in Nat \ {0} /\ MaxLoads \in Nat /\ Null \notin (1..Frames) \X (0..MaxLoads)

Reading == (1..Frames) \X (0..MaxLoads)

VARIABLES
  shows,      \* frame -> whether it shows the table, the cash and the equity
  load,       \* frame -> how often it was loaded again
  at,         \* the frame that is read, or 0 before the call and after it
  half,       \* whether its table has been read, and its text is next
  holdings,   \* rawHoldings: the reading that found the table, or Null
  balances,   \* cashParsed: cash and equity by their readings; both Null before any
  result      \* what the call has returned

portfolioVars == <<shows, load, at, half, holdings, balances, result>>

Balances == [cash : Reading \cup {Null}, equity : Reading \cup {Null}]
Result   == [status : {"none", "needs_extractor_update"}] \cup
            [status : {"ok"}, holdings : Reading, cash : Reading \cup {Null},
             equity : Reading \cup {Null}, computed : BOOLEAN]

PortfolioTypeOK ==
  /\ shows \in [1..Frames -> SUBSET {"table", "cash", "equity"}]
  /\ load \in [1..Frames -> 0..MaxLoads]
  /\ at \in 0..Frames /\ half \in BOOLEAN
  /\ holdings \in Reading \cup {Null} /\ balances \in Balances /\ result \in Result

NoBalances == [cash |-> Null, equity |-> Null]

\* tryNavigate has led to the portfolio, or left the page where it was.
PortfolioInit ==
  /\ shows \in [1..Frames -> SUBSET {"table", "cash", "equity"}]
  /\ load = [f \in 1..Frames |-> 0]
  /\ at = 1 /\ half = FALSE
  /\ holdings = Null /\ balances = NoBalances
  /\ result = [status |-> "none"]

-----------------------------------------------------------------------------

\* External: a frame is loaded again, and may show something else.
Reload(f) ==
  /\ at # 0 /\ load[f] < MaxLoads
  /\ load' = [load EXCEPT ![f] = @ + 1]
  /\ \E what \in SUBSET {"table", "cash", "equity"} : shows' = [shows EXCEPT ![f] = what]
  /\ UNCHANGED <<at, half, holdings, balances, result>>

Here == <<at, load[at]>>

\* findAndExtractRawHoldings, until a frame has the table; a frame that is gone has none.
ReadTable ==
  /\ at # 0 /\ ~half /\ half' = TRUE
  /\ \/ holdings = Null /\ "table" \in shows[at] /\ holdings' = Here
     \/ UNCHANGED holdings
  /\ UNCHANGED <<shows, load, at, balances, result>>

\* parseCashAndEquity of the text of a frame.
ParsedText ==
  [cash   |-> IF "cash" \in shows[at] THEN Here ELSE Null,
   equity |-> IF "equity" \in shows[at] THEN Here ELSE Null]

(* Mutant: each balance is kept from the first frame that has it.          *)
KeepFirst(candidate) ==
  [b \in DOMAIN balances |-> IF balances[b] = Null THEN candidate[b] ELSE balances[b]]

\* A frame with either balance replaces both.
Keep(candidate) == IF candidate = NoBalances THEN balances ELSE candidate

Complete == balances.cash # Null /\ balances.equity # Null

\* computeEquity: without COL's own figure, the market value and the cash, if there is any.
ComputesEquity(b) == b.equity = Null /\ b.cash # Null

ReadText ==
  /\ at # 0 /\ half /\ half' = FALSE
  /\ balances' \in (IF Complete THEN {balances} ELSE {balances, Keep(ParsedText)})
  /\ IF (holdings # Null /\ balances'.cash # Null) \/ at = Frames
     THEN /\ at' = 0
          /\ result' = IF holdings = Null THEN [status |-> "needs_extractor_update"]
                       ELSE [status |-> "ok", holdings |-> holdings, cash |-> balances'.cash,
                             equity |-> balances'.equity, computed |-> ComputesEquity(balances')]
     ELSE at' = at + 1 /\ UNCHANGED result
  /\ UNCHANGED <<shows, load, holdings>>

PortfolioNext == ReadTable \/ ReadText \/ \E f \in 1..Frames : Reload(f)

PortfolioSpec == PortfolioInit /\ [][PortfolioNext]_portfolioVars

-----------------------------------------------------------------------------

(* The cash and COL's own equity figure that a portfolio shows were read   *)
(* at one time from one frame, however the frames are loaded meanwhile:    *)
(* never the cash of one account page beside the equity of another.        *)
BalancesAreOneReading ==
  result.status = "ok" /\ result.cash # Null /\ result.equity # Null =>
    result.cash = result.equity
=============================================================================
