---------------------------- MODULE AprilClaims ----------------------------
(***************************************************************************)
(* The April International extractor (extractors/april_international.js):  *)
(* submit_claim, dry or not, between the calls that read the portal, all   *)
(* on the one page of the site's session.                                  *)
(*                                                                         *)
(* An extractor starts from wherever the page was left, and goes to a      *)
(* route only if the page's address does not contain it.  A claim's form   *)
(* stays filled until it is loaded again or submitted.  A call that        *)
(* exceeds the worker's limit is answered and goes on.                     *)
(***************************************************************************)
EXTENDS Naturals, Sequences

CONSTANTS
  ClaimCalls,
  DryRun,     \* call -> BOOLEAN
  Given,      \* call -> the required fields and, if given, the optional ones
  Claims,     \* contents of required and of optional fields
  Empty,      \* a field that is not filled, or not given
  EntryText   \* texts of the form page that submit_claim takes for the way to the form

ASSUME ClaimAssumption ==
  /\ Empty \notin Claims
  /\ DryRun \in [ClaimCalls -> BOOLEAN]
  /\ Given \in [ClaimCalls -> [required : Claims, optional : Claims \cup {Empty}]]
  /\ EntryText \subseteq {"heading", "button"}

Fields == [required : Claims \cup {Empty}, optional : Claims \cup {Empty}]
BlankForm == [required |-> Empty, optional |-> Empty]

VARIABLES
  place,      \* the page: one of Places
  form,       \* what its form is filled with
  task,       \* where the extractor is for each call
  reply,      \* what the caller has been told
  filed,      \* external: the claims April has received, and by whose click
  clean       \* history: the call began with no form open ("fresh") or with one ("reused");
              \* "no" once it overlapped with another or clicked the open form's own button

claimVars == <<place, form, task, reply, filed, clean>>

Places  == {"elsewhere", "account", "policy", "documents", "list", "detail", "form", "receipt"}
Tasks   == {"idle", "route", "entry", "direct", "required", "optional", "judge", "submit", "confirm", "done"}
Replies == {"none", "timeout", "thrown", "refused", "dry_run", "submitted", "submit_rejected",
            "submitted_unconfirmed"}

ClaimsTypeOK ==
  /\ place \in Places /\ form \in Fields
  /\ task \in [ClaimCalls -> Tasks] /\ reply \in [ClaimCalls -> Replies]
  /\ filed \in Seq([by : ClaimCalls, fields : Fields])
  /\ clean \in [ClaimCalls -> {"no", "reused", "fresh"}]

ClaimsInit ==
  /\ place = "elsewhere" /\ form = BlankForm
  /\ task = [c \in ClaimCalls |-> "idle"] /\ reply = [c \in ClaimCalls |-> "none"]
  /\ filed = <<>> /\ clean = [c \in ClaimCalls |-> "fresh"]

-----------------------------------------------------------------------------

AtWork    == {c \in ClaimCalls : task[c] \notin {"idle", "done"}}

(* Another call begins: those at work are no longer alone with the page.   *)
Overlapped == [c \in ClaimCalls |-> IF c \in AtWork THEN "no" ELSE clean[c]]

AllAnswered == \A c \in ClaimCalls : task[c] # "idle" => reply[c] # "none"

Proceed(c, t) == task' = [task EXCEPT ![c] = t] /\ UNCHANGED reply

Reply(c, what) ==
  /\ reply' = [reply EXCEPT ![c] = IF @ = "none" THEN what ELSE @]
  /\ task' = [task EXCEPT ![c] = "done"]

LoadPlace(p) == place' = p /\ form' = BlankForm
Stay    == UNCHANGED <<place, form>>

(* Addresses that contain a route.                                         *)
Under(route) ==
  IF route = "list" THEN {"list", "detail", "form", "receipt"} ELSE {route}

\* gotoRoute: no navigation if the address contains the route, and a failed one is passed over.
GotoRoute(route) == Stay \/ (place \notin Under(route) /\ LoadPlace(route))

\* Validated arguments and receipts, or it throws before the page is touched.
StartClaim(c) ==
  /\ task[c] = "idle" /\ AllAnswered
  /\ Proceed(c, "route") \/ Reply(c, "thrown")
  /\ clean' = [Overlapped EXCEPT ![c] = IF AtWork # {} THEN "no"
                                        ELSE IF place = "form" THEN "reused" ELSE "fresh"]
  /\ UNCHANGED <<place, form, filed>>

ClaimTimesOut(c) ==
  /\ c \in AtWork /\ reply[c] = "none"
  /\ reply' = [reply EXCEPT ![c] = "timeout"]
  /\ UNCHANGED <<place, form, task, filed, clean>>

(* Another call reads the portal: the page is left where it looked.        *)
Reader(steps) == AllAnswered /\ steps /\ UNCHANGED <<task, reply, filed>> /\ clean' = Overlapped

GetAccountInfo   == Reader(GotoRoute("account"))
GetPolicyInfo    == Reader(GotoRoute("policy"))
GetClaimsHistory == Reader(GotoRoute("list"))
GetDocumentsList == Reader(GotoRoute("documents"))

\* getClaimStatus: an address of the claim that leads anywhere with its id or a
\* status and an amount, or the list and a row of it.
GetClaimStatus == Reader(LoadPlace("detail") \/ LoadPlace("list") \/ GotoRoute("list"))

\* diagnoseMemberPortal walks all routes, the account last.
DiagnoseMemberPortal == Reader(LoadPlace("account") \/ LoadPlace("documents") \/ Stay)

-----------------------------------------------------------------------------
(* navigateToClaimForm.                                                    *)

ToClaims(c) ==
  /\ task[c] = "route" /\ Proceed(c, "entry")
  /\ GotoRoute("list") /\ UNCHANGED <<filed, clean>>

\* The form in place is submitted: April takes it if the required fields are there.
FormSubmitted(c) ==
  \/ /\ form.required # Empty /\ LoadPlace("receipt")
     /\ filed' = Append(filed, [by |-> c, fields |-> form])
  \/ Stay /\ UNCHANGED filed

\* A click on "Submit a claim", "Submit claim", ...: the link of the list, or on
\* the form its title or its button.  It need not lead anywhere.
ClickEntry(c) ==
  /\ task[c] = "entry"
  /\ \/ place = "list" /\ LoadPlace("form") /\ UNCHANGED <<filed, clean>>
     \/ /\ place = "form" /\ "button" \in EntryText /\ FormSubmitted(c)
        /\ clean' = [clean EXCEPT ![c] = "no"]
     \/ (place = "form" => "heading" \in EntryText) /\ Stay /\ UNCHANGED <<filed, clean>>
  /\ Proceed(c, "required")

\* The page has no such text.
NoEntry(c) ==
  /\ task[c] = "entry" /\ (place = "form" => EntryText = {})
  /\ Proceed(c, "direct") /\ UNCHANGED <<place, form, filed, clean>>

\* The direct addresses of the form, or none is one.
DirectForm(c) ==
  /\ task[c] = "direct"
  /\ \/ LoadPlace("form") /\ Proceed(c, "required")
     \/ (Stay \/ LoadPlace("elsewhere")) /\ Reply(c, "refused")
  /\ UNCHANGED <<filed, clean>>

\* diagnoseClaimForm goes to the form and fills nothing.
DiagnoseClaimForm == Reader(LoadPlace("form") \/ GotoRoute("list"))

-----------------------------------------------------------------------------
(* submitClaim.                                                            *)

\* The date of treatment and the amount.
FillRequired(c) ==
  /\ task[c] = "required"
  /\ \/ place = "form" /\ form' = [form EXCEPT !.required = Given[c].required] /\ Proceed(c, "optional")
     \/ UNCHANGED form /\ Reply(c, "refused")
  /\ UNCHANGED <<place, filed, clean>>

\* Provider, beneficiary, description and receipts: those that are given, if found.
FillOptional(c) ==
  /\ task[c] = "optional" /\ Proceed(c, "judge")
  /\ \/ UNCHANGED form
     \/ /\ place = "form" /\ Given[c].optional # Empty
        /\ form' = [form EXCEPT !.optional = Given[c].optional]
  /\ UNCHANGED <<place, filed, clean>>

(* Mutant: what is not given as false does not count as a dry run.         *)
JudgeClaimWet(c) ==
  /\ task[c] = "judge" /\ Proceed(c, "submit")
  /\ UNCHANGED <<place, form, filed, clean>>

JudgeClaim(c) ==
  /\ task[c] = "judge"
  /\ IF DryRun[c] THEN Reply(c, "dry_run") ELSE Proceed(c, "submit")
  /\ UNCHANGED <<place, form, filed, clean>>

\* The button is clicked, whatever becomes of it; or there is none.
ClickSubmit(c) ==
  /\ task[c] = "submit"
  /\ \/ /\ IF place = "form" THEN FormSubmitted(c) ELSE Stay /\ UNCHANGED filed
        /\ Proceed(c, "confirm")
     \/ Stay /\ UNCHANGED filed /\ Reply(c, "refused")
  /\ UNCHANGED clean

ReadBack(c) ==
  /\ task[c] = "confirm"
  /\ \E what \in {"submitted", "submit_rejected", "submitted_unconfirmed"} : Reply(c, what)
  /\ UNCHANGED <<place, form, filed, clean>>

ClaimStep(c) ==
  \/ ToClaims(c) \/ ClickEntry(c) \/ NoEntry(c) \/ DirectForm(c) \/ FillRequired(c) \/ FillOptional(c)
  \/ JudgeClaim(c) \/ ClickSubmit(c) \/ ReadBack(c)

ClaimsNext ==
  \/ \E c \in ClaimCalls : StartClaim(c) \/ ClaimTimesOut(c) \/ ClaimStep(c)
  \/ GetAccountInfo \/ GetPolicyInfo \/ GetClaimsHistory \/ GetDocumentsList \/ GetClaimStatus
  \/ DiagnoseMemberPortal \/ DiagnoseClaimForm

ClaimsSpec == ClaimsInit /\ [][ClaimsNext]_claimVars

-----------------------------------------------------------------------------

FiledBy(c) == {i \in DOMAIN filed : filed[i].by = c}

(* A call that runs alone files nothing if it is a dry run, refuses or     *)
(* throws, and otherwise one claim at most, with the required fields it    *)
(* was given, also on a form that an earlier dry run has left filled; on a *)
(* form that it opened itself the optional fields are its own, or empty.   *)
(* What the code does not keep on an earlier form: the optional fields     *)
(* stay, and the text of the way to the form may be that of its button     *)
(* (a click on which ends the promise).                                    *)
FiledAsGiven ==
  \A c \in ClaimCalls : clean[c] # "no" =>
    /\ DryRun[c] \/ reply[c] \in {"refused", "dry_run", "thrown"} => FiledBy(c) = {}
    /\ \A i \in FiledBy(c) :
         /\ filed[i].fields.required = Given[c].required
         /\ clean[c] = "fresh" => filed[i].fields.optional \in {Given[c].optional, Empty}
    /\ \A i, j \in FiledBy(c) : i = j

(* "form is filled and a sanitized snapshot is returned, but no submit     *)
(* button is clicked" (lines 581 to 584).                                  *)
DryRunFilesNothing == \A c \in ClaimCalls : DryRun[c] => FiledBy(c) = {}
=============================================================================
