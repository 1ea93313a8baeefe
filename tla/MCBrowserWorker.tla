-------------------------- MODULE MCBrowserWorker --------------------------
(* The browser worker with client calls c1 and c2 and one of the reaper.   *)
EXTENDS BrowserWorker

CONSTANTS c1, c2, r1

MCCalls == {c1, c2, r1}
MCReaperCalls == {r1}
Symmetry == Permutations({c1, c2}) \cup Permutations(Browsers)
=============================================================================
