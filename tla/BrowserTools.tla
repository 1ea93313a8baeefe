---------------------------- MODULE BrowserTools ----------------------------
(***************************************************************************)
(* The browser MCP server and the extractors it calls through the worker,  *)
(* side by side.  Of what is modelled of them they share nothing: server   *)
(* and worker are two processes, and the sites have each a context of the  *)
(* browser of their own.  The three of COL drive one tab; each has its own *)
(* view of the page, which starts as any page the others may have left     *)
(* there, and that one of them still runs after its time-out beside        *)
(* another is not modelled.                                                *)
(***************************************************************************)
EXTENDS McpServer, ColOrders, ColAcknowledge, ColPortfolio, AprilClaims, MaxicarePages, ResultFiles

toolVars == <<mcpVars, orderVars, ackVars, portfolioVars, claimVars, portalVars, resultVars>>

ToolsInit ==
  /\ McpInit /\ OrdersInit /\ AckInit /\ PortfolioInit
  /\ ClaimsInit /\ PortalInit /\ ResultsInit

Server ==
  /\ McpNext
  /\ UNCHANGED <<orderVars, ackVars, portfolioVars, claimVars, portalVars, resultVars>>
Orders ==
  /\ OrdersNext
  /\ UNCHANGED <<mcpVars, ackVars, portfolioVars, claimVars, portalVars, resultVars>>
Acknowledgement ==
  /\ AckNext
  /\ UNCHANGED <<mcpVars, orderVars, portfolioVars, claimVars, portalVars, resultVars>>
Portfolio ==
  /\ PortfolioNext
  /\ UNCHANGED <<mcpVars, orderVars, ackVars, claimVars, portalVars, resultVars>>
ClaimForms ==
  /\ ClaimsNext
  /\ UNCHANGED <<mcpVars, orderVars, ackVars, portfolioVars, portalVars, resultVars>>
Portal ==
  /\ PortalNext
  /\ UNCHANGED <<mcpVars, orderVars, ackVars, portfolioVars, claimVars, resultVars>>
Results ==
  /\ ResultsNext
  /\ UNCHANGED <<mcpVars, orderVars, ackVars, portfolioVars, claimVars, portalVars>>

ToolsNext == Server \/ Orders \/ Acknowledgement \/ Portfolio \/ ClaimForms \/ Portal \/ Results

ToolsSpec == ToolsInit /\ [][ToolsNext]_toolVars

ToolsTypeOK ==
  /\ McpTypeOK /\ OrdersTypeOK /\ AckTypeOK /\ PortfolioTypeOK
  /\ ClaimsTypeOK /\ PortalTypeOK /\ ResultsTypeOK
=============================================================================
