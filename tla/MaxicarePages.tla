--------------------------- MODULE MaxicarePages ---------------------------
(***************************************************************************)
(* The Maxicare extractor (extractors/maxicare.js): a portal of one page   *)
(* whose sections are reached by clicking their labels.                    *)
(*                                                                         *)
(* A call starts from wherever the page was left; a click on the label of  *)
(* the section that is open does nothing, and a click need not lead        *)
(* anywhere, which the call does not notice.  A call that exceeds the      *)
(* worker's limit is answered and goes on.                                 *)
(***************************************************************************)
EXTENDS Naturals

CONSTANTS PortalCalls, Unread

Sections == {"home", "policy", "account", "other"}
Shown    == [section : Sections, tab : {"active", "inactive"}, rendered : BOOLEAN]

ASSUME PortalAssumption == Unread \notin Shown

VARIABLES
  portal,     \* what the page shows
  stage,      \* where the extractor is for each call
  want,       \* the section it reads
  read,       \* what it has read for the active and the inactive policies, or the account
  heard,      \* whether its caller has been answered
  landed      \* history: its navigations have led where they should, and it has run alone

portalVars == <<portal, stage, want, read, heard, landed>>

Stages == {"idle", "home", "section", "read", "tab", "read tab", "diagnose", "done"}
NotRead == [active |-> Unread, inactive |-> Unread]

PortalTypeOK ==
  /\ portal \in Shown
  /\ stage \in [PortalCalls -> Stages] /\ want \in [PortalCalls -> Sections]
  /\ read \in [PortalCalls -> [active : Shown \cup {Unread}, inactive : Shown \cup {Unread}]]
  /\ heard \in [PortalCalls -> BOOLEAN] /\ landed \in [PortalCalls -> BOOLEAN]

PortalInit ==
  /\ portal = [section |-> "home", tab |-> "active", rendered |-> TRUE]
  /\ stage = [c \in PortalCalls |-> "idle"] /\ want = [c \in PortalCalls |-> "home"]
  /\ read = [c \in PortalCalls |-> NotRead]
  /\ heard = [c \in PortalCalls |-> FALSE] /\ landed = [c \in PortalCalls |-> TRUE]

Walking == {c \in PortalCalls : stage[c] \notin {"idle", "done"}}

-----------------------------------------------------------------------------

Opened(section, rendered) == [section |-> section, tab |-> "active", rendered |-> rendered]

\* The pages that navigateTo may leave: the click leads to the section, unless it
\* is open, or nowhere; without the label a goto loads it, rendered or not, or fails.
NavigateTo(section) ==
  (IF portal.rendered
   THEN {IF portal.section = section THEN portal ELSE Opened(section, TRUE)}
   ELSE {Opened(section, TRUE), Opened(section, FALSE)}) \cup {portal}

At(c, s) == stage[c] = s
Enter(c, s) == stage' = [stage EXCEPT ![c] = s]

Navigate(c, section, next) ==
  /\ portal' \in NavigateTo(section) /\ Enter(c, next)
  /\ landed' = [landed EXCEPT ![c] = @ /\ portal'.section = section /\ portal'.rendered]
  /\ UNCHANGED <<want, read, heard>>

StartPortal(c, section) ==
  /\ At(c, "idle") /\ \A d \in Walking : heard[d]
  /\ want' = [want EXCEPT ![c] = section]
  /\ Enter(c, IF section = "other" THEN "diagnose" ELSE "home")
  /\ landed' = [d \in PortalCalls |-> landed[d] /\ (d \in Walking \cup {c} => Walking = {})]
  /\ UNCHANGED <<portal, read, heard>>

PortalTimesOut(c) ==
  /\ c \in Walking /\ ~heard[c] /\ heard' = [heard EXCEPT ![c] = TRUE]
  /\ UNCHANGED <<portal, stage, want, read, landed>>

(* Mutant: it clicks the section's label wherever the page is.             *)
GotoSectionDirect(c) ==
  \/ At(c, "home") /\ Enter(c, "section") /\ UNCHANGED <<portal, want, read, heard, landed>>
  \/ At(c, "section") /\ Navigate(c, want[c], "read")

\* gotoSection: home, unless the page is there, and then the section.
GotoSection(c) ==
  \/ At(c, "home") /\ portal.section # "home" /\ Navigate(c, "home", "section")
  \/ /\ At(c, "home") /\ portal.section = "home" /\ Enter(c, "section")
     /\ UNCHANGED <<portal, want, read, heard, landed>>
  \/ At(c, "section") /\ Navigate(c, want[c], "read")

\* What is there is read; if that fails there is nothing, and no card.
ReadPage == {portal, Unread}

Answer(c) == Enter(c, "done") /\ heard' = [heard EXCEPT ![c] = TRUE]

GetAccount(c) ==
  /\ At(c, "read") /\ want[c] = "account" /\ Answer(c)
  /\ \E page \in ReadPage : read' = [read EXCEPT ![c].active = page]
  /\ UNCHANGED <<portal, want, landed>>

\* getPolicySummary: the tab that is open, then the Inactive tab if there is one.
GetPolicySummary(c) ==
  /\ want[c] = "policy"
  /\ \/ /\ At(c, "read") /\ Enter(c, "tab")
        /\ \E page \in ReadPage : read' = [read EXCEPT ![c].active = page]
        /\ UNCHANGED <<portal, heard>>
     \/ /\ At(c, "tab") /\ Enter(c, "read tab")
        /\ portal' \in {portal} \cup (IF portal.section = "policy" /\ portal.rendered
                                      THEN {[portal EXCEPT !.tab = "inactive"]} ELSE {})
        /\ UNCHANGED <<read, heard>>
     \/ /\ At(c, "tab") /\ Answer(c) /\ UNCHANGED <<portal, read>>
     \/ /\ At(c, "read tab") /\ Answer(c)
        /\ \E page \in ReadPage : read' = [read EXCEPT ![c].inactive = page]
        /\ UNCHANGED portal
  /\ UNCHANGED <<want, landed>>

\* diagnoseMemberPortal: every section from home, then the cards it knows, which
\* open what they open.
DiagnosePortal(c) ==
  /\ At(c, "diagnose")
  /\ \/ \E section \in Sections : Navigate(c, section, "diagnose")
     \/ /\ portal' \in {portal, Opened("other", TRUE)} /\ UNCHANGED <<stage, want, read, heard, landed>>
     \/ Answer(c) /\ UNCHANGED <<portal, want, read, landed>>

PortalNext ==
  \E c \in PortalCalls :
    \/ \E section \in {"policy", "account", "other"} : StartPortal(c, section)
    \/ PortalTimesOut(c) \/ GotoSection(c) \/ GetAccount(c) \/ GetPolicySummary(c) \/ DiagnosePortal(c)

PortalSpec == PortalInit /\ [][PortalNext]_portalVars

-----------------------------------------------------------------------------

(* If its navigations have led somewhere, a call reports its own section,  *)
(* and as active policies those of the Active tab, wherever calls before   *)
(* it have left the page, and whichever tab they had open.                 *)
ActiveIsActive ==
  \A c \in PortalCalls :
    landed[c] /\ read[c].active # Unread =>
      read[c].active = Opened(want[c], TRUE)
=============================================================================
