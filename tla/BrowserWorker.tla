--------------------------- MODULE BrowserWorker ---------------------------
(***************************************************************************)
(* The calls of the browser worker (browser-intent/worker/worker.js) on    *)
(* one site: login, session check, extraction, one-time code, logout, and  *)
(* the idle reaper.  The worker is one Node process, so an action is what  *)
(* a call does between two awaits; the calls take turns by the site's lock *)
(* (module SiteLock), but three things do not wait for the lock: the       *)
(* reaper's sweep, an extractor whose time limit has passed, and Chromium. *)
(*                                                                         *)
(* Of a page the model keeps what the code asks it: whether it looks       *)
(* logged in, asks for a code, or the call on it throws.  Times are ages   *)
(* in ticks.  Chromium answers a query or fails it at any time.            *)
(***************************************************************************)
EXTENDS SiteLock, SequencesExt

CONSTANTS
  ReaperCalls,   \* calls the reaper makes; the others are clients'
  Browsers,      \* Chromium processes
  NoBrowser,
  OtpFlow,       \* the site's loginFlow is "username_otp"
  IdleLimit,     \* sessionIdleMs, in ticks
  OtpLimit,      \* otpTtlMs, in ticks
  RateWindow,    \* loginWindowMs, in ticks
  MaxPerWindow,  \* loginMaxPerWindow
  MaxCooldown    \* bound: ticks a stale resend countdown may show

ASSUME WorkerAssumption ==
  /\ ReaperCalls \subseteq Calls /\ NoBrowser \notin Browsers /\ OtpFlow \in BOOLEAN
  /\ IdleLimit \in Nat \ {0} /\ OtpLimit \in Nat \ {0} /\ RateWindow \in Nat
  /\ MaxPerWindow \in Nat \ {0} /\ MaxCooldown \in Nat

VARIABLES
  job,        \* per call: kind, where it waits, the browser it works on
  browsers,   \* Chromium: running, being closed, or gone
  session,    \* sessions.get(site): its browser and the age of lastActivity
  pending,    \* pendingOtpSessions.get(site): its browser and age
  cooldown,   \* smsCooldown.get(site): ticks left, if smsLikelyFresh = false
  attempts,   \* loginAttempts.get(site): ages, oldest first
  detached,   \* browsers an extractor still works on after its time limit
  thrown,     \* history: browsers of logins that threw after the launch
  replaced,   \* history: browsers whose pending entry a login overwrote
  launches    \* history: ages of the launches by logins in the window

workerVars == <<browsers, session, pending, cooldown, attempts, detached,
                thrown, replaced, launches>>
vars == <<lockVars, job, workerVars>>

None  == [browser |-> NoBrowser]
NoJob == [kind |-> "check", at |-> "start", browser |-> NoBrowser]
Kinds == {"login", "check", "extract", "otp", "logout", "diagnose"}

(* The awaits: page probes of _checkSession; the two closes of _logout; of *)
(* _login the launch, the form, the close after a form that did not fit    *)
(* and the wait after submitting; of _provideOtp the work on the page and  *)
(* the close of a session that expired or went back; the extractor; the    *)
(* login form diagnosis.                                                   *)
Places == {"start", "probing", "closing_pending", "closing_session", "launching",
           "filling", "closing_failed", "settling", "submitting", "closing_otp",
           "extracting", "diagnosing"}

WorkerTypeOK ==
  /\ LockTypeOK
  /\ job \in [Calls -> [kind : Kinds, at : Places, browser : Browsers \cup {NoBrowser}]]
  /\ browsers \in [Browsers -> {"gone", "open", "closing"}]
  /\ session \in [browser : Browsers, idle : 0..IdleLimit] \cup {None}
  /\ pending \in [browser : Browsers, age : 0..(OtpLimit + 1)] \cup {None}
  /\ cooldown \in 0..MaxCooldown
  /\ attempts \in Seq(0..(RateWindow + 1)) /\ launches \in Seq(0..RateWindow)
  /\ detached \subseteq Browsers /\ thrown \subseteq Browsers /\ replaced \subseteq Browsers

WorkerInit ==
  /\ LockInit
  /\ job = [c \in Calls |-> NoJob]
  /\ browsers = [b \in Browsers |-> "gone"]
  /\ session = None /\ pending = None /\ cooldown = 0 /\ attempts = <<>>
  /\ detached = {} /\ thrown = {} /\ replaced = {} /\ launches = <<>>

-----------------------------------------------------------------------------
(* How a call goes on                                                      *)

Await(c, place, b) ==
  /\ job' = [job EXCEPT ![c] = [kind |-> job[c].kind, at |-> place, browser |-> b]]
  /\ UNCHANGED lockVars

(* The call returns, or throws.                                            *)
Return(c) == Finish(c, "fulfilled") /\ job' = [job EXCEPT ![c] = NoJob]
Throw(c)  == Finish(c, "rejected") /\ job' = [job EXCEPT ![c] = NoJob]

IsAt(c, place) == Running(c) /\ job[c].at = place

(* browser.close() has been called; it is over when it is awaited.         *)
Closing(bs, b) == [bs EXCEPT ![b] = IF @ = "open" THEN "closing" ELSE @]
Closed(bs, b)  == [bs EXCEPT ![b] = "gone"]
Free == {b \in Browsers : /\ browsers[b] = "gone" /\ b \notin detached
                          /\ b \notin {session.browser, pending.browser}
                          /\ \A c \in Calls : Running(c) => job[c].browser # b}

-----------------------------------------------------------------------------
(* The chain of calls                                                      *)

(* An HTTP request arrives; its caller may give up, the call goes on.      *)
Request(c, kind) ==
  /\ c \notin ReaperCalls
  /\ Enter(c)
  /\ job' = [job EXCEPT ![c].kind = kind]
  /\ UNCHANGED workerVars

Release(c) == Forget(c) /\ UNCHANGED <<job, workerVars>>

(* getSite reads the policy file every time; it throws while the file is   *)
(* half written and when the site is not in it.  All calls but a log-out   *)
(* (below) begin with it and may also throw for what they were asked.      *)
StartThrows(c) ==
  /\ IsAt(c, "start") /\ job[c].kind # "logout"
  /\ Throw(c)
  /\ UNCHANGED workerVars

StartCall(c) ==
  /\ Start(c)
  /\ UNCHANGED <<job, workerVars>>

-----------------------------------------------------------------------------
(* _login after its session check                                          *)

(* loginRateCheck looks at the attempts within the window.                 *)
Recent == SelectSeq(attempts, LAMBDA age : age <= RateWindow)

(* A stale one-time code keeps the login from starting over; then the rate *)
(* check counts an attempt, even if reading the secret throws; then        *)
(* Chromium is launched.                                                   *)
BeginLogin(c, stale) ==
  /\ cooldown' = stale
  /\ \/ /\ OtpFlow /\ stale > 0
        /\ Return(c)
        /\ UNCHANGED <<attempts, launches>>
     \/ /\ ~(OtpFlow /\ stale > 0)
        /\ IF Len(Recent) >= MaxPerWindow
           THEN attempts' = Recent /\ Return(c) /\ UNCHANGED launches
           ELSE /\ attempts' = Append(Recent, 0)
                /\ \/ Throw(c) /\ UNCHANGED launches
                   \/ Await(c, "launching", NoBrowser) /\ launches' = Append(launches, 0)

-----------------------------------------------------------------------------
(* _logout, which _login and _checkSession also call                       *)

(* Whoever called _logout goes on: a login logs in, the others return.     *)
AfterLogout(c) ==
  IF job[c].kind = "login" THEN BeginLogin(c, 0)
  ELSE cooldown' = 0 /\ Return(c) /\ UNCHANGED <<attempts, launches>>

(* The session's part, given the state the pending part left.              *)
LogoutSession(c, s, bs) ==
  IF s # None
  THEN /\ cooldown' = 0
       /\ browsers' = Closing(bs, s.browser)
       /\ Await(c, "closing_session", s.browser)
       /\ UNCHANGED <<attempts, launches>>
  ELSE AfterLogout(c) /\ browsers' = bs

(* Mutant: without a session there is nothing to log out.                  *)
LogoutSessionOnly(c, s) ==
  IF s # None THEN LogoutSession(c, s, browsers) /\ UNCHANGED pending
  ELSE Return(c) /\ UNCHANGED <<browsers, cooldown, attempts, launches, pending>>

GetSiteThrows(c) == Throw(c) /\ UNCHANGED <<browsers, cooldown, attempts, launches>>

(* A session that waits for a code is closed first.                        *)
Logout(c, s) ==
  /\ UNCHANGED pending
  /\ \/ GetSiteThrows(c)
     \/ /\ pending # None
        /\ browsers' = Closing(browsers, pending.browser)
        /\ Await(c, "closing_pending", pending.browser)
        /\ UNCHANGED <<cooldown, attempts, launches>>
     \/ pending = None /\ LogoutSession(c, s, browsers)

PendingClosed(c) ==
  /\ IsAt(c, "closing_pending")
  /\ pending' = None
  /\ LogoutSession(c, session, Closed(browsers, job[c].browser))
  /\ UNCHANGED <<session, detached, thrown, replaced>>

(* Mutant: the session is dropped before its browser is closed.            *)
SessionDropped(c) ==
  /\ IsAt(c, "closing_session")
  /\ session' = None
  /\ browsers' = [browsers EXCEPT ![job[c].browser] = "open"]
  /\ AfterLogout(c)
  /\ UNCHANGED <<pending, detached, thrown, replaced>>

SessionClosed(c) ==
  /\ IsAt(c, "closing_session")
  /\ session' = None
  /\ browsers' = Closed(browsers, job[c].browser)
  /\ AfterLogout(c)
  /\ UNCHANGED <<pending, detached, thrown, replaced>>

StartLogout(c) ==
  /\ IsAt(c, "start") /\ job[c].kind = "logout"
  /\ Logout(c, session)
  /\ UNCHANGED <<session, detached, thrown, replaced>>

-----------------------------------------------------------------------------
(* _checkSession, which _login and _extract call first                     *)

PageClosed == browsers[session.browser] = "gone"

(* A session whose page is closed is forgotten.                            *)
StartCheck(c) ==
  /\ IsAt(c, "start") /\ job[c].kind \in {"login", "check", "extract"}
  /\ session # None
  /\ IF PageClosed
     THEN /\ session' = None
          /\ IF job[c].kind = "login" THEN Logout(c, None)
             ELSE Return(c) /\ UNCHANGED <<pending, cooldown, attempts, launches, browsers>>
     ELSE /\ Await(c, "probing", session.browser)
          /\ UNCHANGED <<session, pending, cooldown, attempts, launches, browsers>>
  /\ UNCHANGED <<detached, thrown, replaced>>

(* Without a session a login begins and the others have nothing to do.     *)
StartWithoutSession(c) ==
  /\ IsAt(c, "start") /\ session = None
  /\ \/ /\ job[c].kind = "login" /\ BeginLogin(c, cooldown)
     \/ /\ job[c].kind \in {"check", "extract"}
        /\ Return(c) /\ UNCHANGED <<cooldown, attempts, launches>>
  /\ UNCHANGED <<browsers, session, pending, detached, thrown, replaced>>

(* The page looks logged in, which a page's last URL may do even after its *)
(* browser died: the session was active just now.                          *)
ProbeActive(c) ==
  /\ IsAt(c, "probing")
  /\ session' = [session EXCEPT !.idle = 0]
  /\ IF job[c].kind = "extract" THEN Await(c, "extracting", session.browser) ELSE Return(c)
  /\ UNCHANGED <<browsers, pending, cooldown, attempts, detached, thrown, replaced, launches>>

(* The page is logged in but waits for its user: a check says so, a login  *)
(* logs out and starts over, an extractor may be one that is allowed.      *)
ProbeNeedsUser(c) ==
  /\ IsAt(c, "probing")
  /\ session' = [session EXCEPT !.idle = 0]
  /\ IF job[c].kind = "login" THEN Logout(c, session)
     ELSE /\ \/ Return(c)
             \/ job[c].kind = "extract" /\ Await(c, "extracting", session.browser)
          /\ UNCHANGED <<browsers, pending, cooldown, attempts, launches>>
  /\ UNCHANGED <<detached, thrown, replaced>>

(* The page looks logged out: the session is torn down.                    *)
ProbeInactive(c) ==
  /\ IsAt(c, "probing")
  /\ Logout(c, session)
  /\ UNCHANGED <<session, detached, thrown, replaced>>

(* The wait between two probes throws if the page is gone.                 *)
ProbeThrows(c) ==
  /\ IsAt(c, "probing") /\ browsers[job[c].browser] # "open"
  /\ Throw(c)
  /\ UNCHANGED workerVars

Probe(c) == ProbeActive(c) \/ ProbeNeedsUser(c) \/ ProbeInactive(c) \/ ProbeThrows(c)

-----------------------------------------------------------------------------
(* _login from the launch on, and _diagnoseLoginForm                       *)

(* The diagnosis needs no session and counts as no attempt.                *)
StartFormDiagnosis(c) ==
  /\ IsAt(c, "start") /\ job[c].kind = "diagnose"
  /\ Await(c, "launching", NoBrowser)
  /\ UNCHANGED workerVars

Launch(c) ==
  /\ IsAt(c, "launching")
  /\ \/ \E b \in Free :
          /\ browsers' = [browsers EXCEPT ![b] = "open"]
          /\ Await(c, IF job[c].kind = "login" THEN "filling" ELSE "diagnosing", b)
     \/ Throw(c) /\ UNCHANGED browsers
  /\ UNCHANGED <<session, pending, cooldown, attempts, detached, thrown, replaced, launches>>

(* Navigation, or anything else on the page, throws: nobody closes it.     *)
PageThrows(c) ==
  /\ IsAt(c, "filling") \/ IsAt(c, "settling")
  /\ thrown' = IF browsers[job[c].browser] = "gone" THEN thrown
               ELSE thrown \cup {job[c].browser}
  /\ Throw(c)
  /\ UNCHANGED <<browsers, session, pending, cooldown, attempts, detached, replaced, launches>>

(* The site asks for a code it sent: the browser waits for it.             *)
FormAsksForCode(c) ==
  /\ IsAt(c, "filling") /\ OtpFlow
  /\ pending' = [browser |-> job[c].browser, age |-> 0]
  /\ replaced' = replaced \cup ({pending.browser} \cap {b \in Browsers : browsers[b] # "gone"})
  /\ \E left \in 0..MaxCooldown : cooldown' = left
  /\ Return(c)
  /\ UNCHANGED <<browsers, session, attempts, detached, thrown, launches>>

(* Mutant: the browser of a form that did not fit is left open.            *)
FormMisfitKept(c) ==
  /\ IsAt(c, "filling") \/ IsAt(c, "diagnosing")
  /\ Return(c)
  /\ UNCHANGED workerVars

(* A login whose form does not fit closes its browser, and so does every   *)
(* diagnosis.                                                              *)
FormMisfit(c) ==
  /\ IsAt(c, "filling") \/ IsAt(c, "diagnosing")
  /\ browsers' = Closing(browsers, job[c].browser)
  /\ Await(c, "closing_failed", job[c].browser)
  /\ UNCHANGED <<session, pending, cooldown, attempts, detached, thrown, replaced, launches>>

MisfitClosed(c) ==
  /\ IsAt(c, "closing_failed")
  /\ browsers' = Closed(browsers, job[c].browser)
  /\ Return(c) \/ (job[c].kind = "diagnose" /\ Throw(c))
  /\ UNCHANGED <<session, pending, cooldown, attempts, detached, thrown, replaced, launches>>

FormSubmitted(c) ==
  /\ IsAt(c, "filling") /\ ~OtpFlow
  /\ Await(c, "settling", job[c].browser)
  /\ UNCHANGED workerVars

(* The session is kept whether or not the login was confirmed.             *)
LoginKept(c) ==
  /\ IsAt(c, "settling")
  /\ session' = [browser |-> job[c].browser, idle |-> 0]
  /\ Return(c) \/ Throw(c)
  /\ UNCHANGED <<browsers, pending, cooldown, attempts, detached, thrown, replaced, launches>>

-----------------------------------------------------------------------------
(* _provideOtp                                                             *)

StartOtp(c) ==
  /\ IsAt(c, "start") /\ job[c].kind = "otp"
  /\ IF ~OtpFlow \/ pending = None
     THEN (Return(c) \/ Throw(c)) /\ UNCHANGED browsers
     ELSE IF pending.age > OtpLimit
     THEN /\ browsers' = Closing(browsers, pending.browser)
          /\ Await(c, "closing_otp", pending.browser)
     ELSE Await(c, "submitting", pending.browser) /\ UNCHANGED browsers
  /\ UNCHANGED <<session, pending, cooldown, attempts, detached, thrown, replaced, launches>>

(* Mutant: the accepted session still waits for a code.                    *)
OtpAcceptedPending(c) ==
  /\ IsAt(c, "submitting")
  /\ session' = [browser |-> job[c].browser, idle |-> 0]
  /\ cooldown' = 0
  /\ Return(c)
  /\ UNCHANGED <<browsers, pending, attempts, detached, thrown, replaced, launches>>

(* The page looks logged in, even if someone else closed it meanwhile.     *)
OtpAccepted(c) ==
  /\ IsAt(c, "submitting")
  /\ session' = [browser |-> job[c].browser, idle |-> 0]
  /\ pending' = None /\ cooldown' = 0
  /\ Return(c)
  /\ UNCHANGED <<browsers, attempts, detached, thrown, replaced, launches>>

(* The form is still there for another code, or a call on the page throws. *)
OtpKept(c) ==
  /\ IsAt(c, "submitting")
  /\ Return(c) \/ Throw(c)
  /\ UNCHANGED workerVars

(* The form is gone, so the browser is of no more use.                     *)
OtpReverted(c) ==
  /\ IsAt(c, "submitting")
  /\ browsers' = Closing(browsers, job[c].browser)
  /\ Await(c, "closing_otp", job[c].browser)
  /\ UNCHANGED <<session, pending, cooldown, attempts, detached, thrown, replaced, launches>>

OtpClosed(c) ==
  /\ IsAt(c, "closing_otp")
  /\ browsers' = Closed(browsers, job[c].browser)
  /\ pending' = None
  /\ Return(c)
  /\ UNCHANGED <<session, cooldown, attempts, detached, thrown, replaced, launches>>

-----------------------------------------------------------------------------
(* _extract after its session check                                        *)

(* Diagnostic actions run on any page.                                     *)
StartDiagnosis(c) ==
  /\ IsAt(c, "start") /\ job[c].kind = "extract" /\ session # None
  /\ Await(c, "extracting", session.browser)
  /\ UNCHANGED workerVars

(* The extractor returns, or throws.                                       *)
ExtractorReturns(c) ==
  /\ IsAt(c, "extracting")
  /\ \/ Return(c) /\ session' = [session EXCEPT !.idle = 0]
     \/ (Return(c) \/ Throw(c)) /\ UNCHANGED session
  /\ UNCHANGED <<browsers, pending, cooldown, attempts, detached, thrown, replaced, launches>>

(* withActionTimeout gives up on the extractor, which goes on.             *)
ExtractorTimesOut(c) ==
  /\ IsAt(c, "extracting")
  /\ detached' = detached \cup {job[c].browser}
  /\ Return(c)
  /\ UNCHANGED <<browsers, session, pending, cooldown, attempts, thrown, replaced, launches>>

DetachedEnds(b) ==
  /\ b \in detached
  /\ detached' = detached \ {b}
  /\ UNCHANGED <<lockVars, job, browsers, session, pending, cooldown, attempts, thrown,
                 replaced, launches>>

-----------------------------------------------------------------------------
(* The reaper, Chromium and time                                           *)

SessionIdle   == session # None /\ session.idle >= IdleLimit
OtpOverdue    == pending # None /\ pending.age >= OtpLimit

(* startIdleReaper: an idle session is logged out through the lock, an     *)
(* overdue pending one is closed on the spot.                              *)
Sweep ==
  /\ SessionIdle \/ OtpOverdue
  /\ IF SessionIdle
     THEN \E c \in ReaperCalls :
            /\ Enter(c)
            /\ job' = [job EXCEPT ![c].kind = "logout"]
     ELSE UNCHANGED <<lockVars, job>>
  /\ IF OtpOverdue
     THEN browsers' = Closing(browsers, pending.browser) /\ pending' = None
     ELSE UNCHANGED <<browsers, pending>>
  /\ UNCHANGED <<session, cooldown, attempts, detached, thrown, replaced, launches>>

(* Chromium ends, asked or not.                                            *)
BrowserEnds(b) ==
  /\ browsers[b] # "gone"
  /\ browsers' = Closed(browsers, b)
  /\ thrown' = thrown \ {b} /\ replaced' = replaced \ {b}
  /\ UNCHANGED <<lockVars, job, session, pending, cooldown, attempts, detached, launches>>

Older(age, limit) == IF age < limit THEN age + 1 ELSE age

(* Ages that no comparison tells apart are not counted further.            *)
Tick ==
  /\ session' = IF session = None THEN None
                ELSE [session EXCEPT !.idle = Older(@, IdleLimit)]
  /\ pending' = IF pending = None THEN None
                ELSE [pending EXCEPT !.age = Older(@, OtpLimit + 1)]
  /\ cooldown' = IF cooldown > 0 THEN cooldown - 1 ELSE 0
  /\ attempts' = [i \in DOMAIN attempts |-> Older(attempts[i], RateWindow + 1)]
  /\ launches' = SelectSeq([i \in DOMAIN launches |-> launches[i] + 1],
                           LAMBDA age : age <= RateWindow)
  /\ UNCHANGED <<lockVars, job, browsers, detached, thrown, replaced>>

Step(c) ==
  \/ StartThrows(c) \/ StartLogout(c) \/ StartCheck(c) \/ StartWithoutSession(c) \/ StartOtp(c)
  \/ StartDiagnosis(c) \/ StartFormDiagnosis(c) \/ Probe(c) \/ PendingClosed(c) \/ SessionClosed(c)
  \/ Launch(c) \/ PageThrows(c) \/ FormAsksForCode(c) \/ FormMisfit(c) \/ MisfitClosed(c)
  \/ FormSubmitted(c) \/ LoginKept(c) \/ OtpAccepted(c) \/ OtpKept(c) \/ OtpReverted(c)
  \/ OtpClosed(c) \/ ExtractorReturns(c) \/ ExtractorTimesOut(c)

WorkerNext ==
  \/ \E c \in Calls : StartCall(c) \/ Release(c) \/ Step(c)
  \/ \E c \in Calls, kind \in Kinds : Request(c, kind)
  \/ \E b \in Browsers : DetachedEnds(b) \/ BrowserEnds(b)
  \/ Sweep \/ Tick

WorkerSpec == WorkerInit /\ [][WorkerNext]_vars

(* A call waits for pages with a time limit and for a browser to close,    *)
(* which is taken to end (Playwright kills one that does not); the reaper  *)
(* is an interval timer.  Nothing makes a client call or Chromium crash.   *)
FairWorkerSpec ==
  /\ WorkerSpec
  /\ \A c \in Calls : WF_vars(StartCall(c)) /\ WF_vars(Release(c)) /\ WF_vars(Step(c))
  /\ WF_vars(Sweep) /\ WF_vars(Tick)

-----------------------------------------------------------------------------
(* Properties                                                              *)

HeldByCall(b) == \E c \in Calls : Running(c) /\ job[c].browser = b

(* A Chromium that runs is the session's, waits for a code, is in the      *)
(* hands of the call whose turn it is, or was lost in one of the two ways  *)
(* the code has: its login threw after the launch, or a later login put    *)
(* its own browser in its place.                                           *)
BrowsersAccounted ==
  \A b \in Browsers :
    browsers[b] = "open" =>
      b \in {session.browser, pending.browser} \cup thrown \cup replaced \/ HeldByCall(b)

(* While a session exists nothing waits for a code and no login has got    *)
(* past its session check: a site never has two logged-in browsers.        *)
OneSession ==
  session # None =>
    /\ pending = None
    /\ \A c \in Calls : Running(c) /\ job[c].kind = "login" =>
         job[c].at \notin {"launching", "filling", "closing_failed", "settling"}

(* When a log-out returns, neither kind of session is left, whatever the   *)
(* sweep did while browsers were being closed.  One that throws leaves all *)
(* as it was.                                                              *)
LogoutClears ==
  [][\A c \in Calls : Running(c) /\ job[c].kind = "logout"
       => /\ phase'[c] = "fulfilled" => session' = None /\ pending' = None /\ cooldown' = 0
          /\ phase'[c] = "rejected"  => UNCHANGED <<session, pending, cooldown, browsers>>]_vars

(* The policy stays unreadable, or without the site: the log-outs of the   *)
(* reaper throw time and again.                                            *)
ReaperKeepsFailing == []<><<\E c \in ReaperCalls : Throw(c)>>_vars

(* The lock keeps nothing waiting: a session that is left alone is closed  *)
(* (unless the log-outs of the reaper never stop to throw: they are tried  *)
(* again, and nothing but the log-out closes it), and every call gets its  *)
(* turn and returns, although calls before it throw, hang or lose their    *)
(* Chromium.                                                               *)
SiteProgresses ==
  /\ (SessionIdle ~> ~SessionIdle) \/ ReaperKeepsFailing
  /\ \A c \in Calls : phase[c] = "waiting" ~> phase[c] \in Settled

(* Calls on one site, extractors included, take turns.                     *)
ExtractorsTakeTurns ==
  \A c \in Calls : Running(c) => job[c].browser \notin detached
=============================================================================
