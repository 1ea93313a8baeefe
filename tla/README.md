# A TLA+ verification of IronNest

IronNest runs a set of AI agents on one workstation and puts everything they may do to that
workstation behind gates: an operator's approval, an operations runner that alone holds the
Docker socket, a host runner that alone touches the Windows host, a browser worker that alone
holds the passwords of web sites, a gateway in front of their memory.  This directory holds TLA+
models of those gates, the TLC configurations that check them and proofs of their main properties.
`PROJECT.json` lists every component, run, property, hazard and theorem, and the source lines each
definition stands for.

- [1. The system](#1-the-system): its parts, their state, and what is hard about them
- [2. The models](#2-the-models): which module models what, and how to read it against the code
- [3. The runs](#3-the-runs): what TLC checks, within which bounds, under which fairness
- [4. The proofs](#4-the-proofs): what is proved for every value of the constants
- [5. Disagreements found](#5-disagreements-between-code-and-documentation)
- [6. Not modelled, and the plan](#6-not-modelled-and-the-plan)

To check a module: `tlc -config MCOpsSerial.cfg MCMissionControlOps`, `tlapm AdminSessionProofs.tla`.

---

## 1. The system

Paths are under `src/`.

| Part | State it keeps | Operations | Talks to |
|---|---|---|---|
| **operations-runner** `hermes-platform/operations-runner/app/main.py` | one JSON file: ledger of executed request ids, exec ids it made, one admin lease | execute; open, close, action, exec of the lease; exec stream; prune of the ledger | Docker |
| **Mission Control: governed operations** `hermes-platform/mission-control/app/main.py` | operations, challenges and keys in one JSON store | create, preapproved lifecycle, approval options, approve, reject, list (reconcile, retention, backfill) | operations runner, host queue, conversations |
| **Mission Control: Octo admin session** (same file) | a list of sessions in that store | status, options, start, revoke, action, exec | the runner's lease |
| **local-host-runner** `hermes-platform/local-host-runner/` | job files, result files, transaction directories with staged files | remediation jobs; prepare and commit of file transactions | Windows host |
| **Mission Control's page** `hermes-platform/mission-control/app/static/app.js` | the agent selected; per agent its conversations, the open one, busy or not; transcripts | send, retry, select, make, archive and delete conversations; polls | chat relay, history |
| **browser worker** `browser-intent/worker/worker.js` | per site: session, session waiting for a code, resend countdown, login attempts, lock chain | login, check, extract, one-time code, log-out, form diagnosis; reaper | Chromium |
| **extractors** `browser-intent/worker/extractors/` | what the site's one page shows; downloaded files | orders, acknowledgements, portfolio (COL Financial); claims (April International); policies (Maxicare); results (Hi-Precision) | the site, through the worker's page |
| **browser MCP server** `browser-intent/mcp-server/server.js` | MCP sessions and their streams, rate buckets, cached policy and clients | tools, resources, prompts over HTTP and stdio; reload notices | worker |
| **agent bridge** `hermes-platform/agent-bridge/agent-chat-bridge.py` | one ACP process and its sessions, request slots; kanban workers; auto-dispatch counters | prompt, stream, reset; cron catch-up; run, stop, auto-dispatch of tasks | agent process, scheduler, kanban |
| **Mission Control: the rest** | conversations; cron-recovery windows; tasks, schedules, releases; acknowledgement threads | chat relay, recovery of missed cron jobs, records, acknowledgements | bridges |
| **memory gateway** `hermes-platform/gateway/app/` and **plugin** `hermes-platform/hermes-plugin/` | policy, registry, token buckets, audit file; turn counter | search, read, write, publish | OpenViking |
| security, monitoring, ops | a cached token; block lists; lookup files | polling scripts, queries | — |

How they meet: an agent proposes an operation; the operator approves it with a security key in
Mission Control, which stamps the approval in its store and hands the operation to the operations
runner (an HTTP call that Mission Control gives up on after 45 seconds and the runner never) or to the
host queue (a job file, answered by a result file).  An admin session exists twice, in the store and as the runner's
lease.  Chats go from Mission Control to the bridge of a profile; missed cron jobs are recovered by
Mission Control asking every bridge.  Browser calls go from an agent through the MCP server to the
worker, which runs the site's extractor on the page of the site's session.

What is hard to test here:

- **The store.** Mission Control's handlers run in threads; each reads the *whole* JSON store,
  works on its copy and writes the *whole* copy back.  `_STORE_LOCK` is held inside one read and
  inside one write, never between.  Every property of the store is about stale copies.
- **Calls that were given up.** A call that timed out may be performed later: by the runner after
  Mission Control stopped waiting, by Docker after its connection to the runner broke, by an extractor
  after the worker's time limit, by a bridge after a catch-up call.
- **Crashes and errors between an effect and its record.** The runner writes its ledger after Docker
  acted, Mission Control the outcome after the runner answered, the host runner its result after the
  job ran.
- **Files that cannot be read.** The runner takes such a file for an empty ledger without a lease,
  Mission Control for a store without operations, and the next save makes it so.
- **One state kept twice.** Session and lease; maps of browsers and the Chromium processes.
- **Queues made of promises, timers that do not queue.** The worker's lock is a chain of promises,
  but the reaper's sweep and an abandoned extractor do not take it.
- **Pages that change under their reader.** An extractor starts from wherever the last call left the
  page, each await lets a late navigation land, and a call that was given up goes on clicking.
- **Files edited while they are read.** The MCP server's policies are reloaded by time of
  modification in the middle of a request.
- **Answers that come after the user has moved on.** The chat page reads the selected agent anew
  after every await, while polls replace the transcript a turn is streaming into.

What makes each part correct is stated as the properties of section 3.

---

## 2. The models

```
OperationsRunner ──EXTENDS── MissionControlOps ── MCMissionControlOps
        │                            └── MissionControlOpsProofs
        └── OperationsRunnerProofs
AdminSession ── MCAdminSession
        └── AdminSessionProofs
FifoLock ──INSTANCE── SiteLock ──EXTENDS── BrowserWorker ── MCBrowserWorker
                                             └── BrowserWorkerProofs
CronCatchUp ──EXTENDS── CronRecovery ── MCCronRecovery
                              └── CronRecoveryProofs
RateBucket, PolicyFiles ──EXTENDS── McpServer ── McpServerProofs
                                        │
ColOrders, ColAcknowledge, ColPortfolio,└── BrowserTools ── MCBrowserTools
AprilClaims, MaxicarePages, ResultFiles ────────┘
                                                └── ExtractorProofs
ChatClient ── MCChatClient
        └── ChatClientProofs
```

### OperationsRunner

The runner's file (`executed`, `execIds`, `lease`), its lock (`busy`: the request being served and
whether Docker has answered), and Docker (`created`, `abandoned`, `effects`, `commands`).  Each
endpoint is the same sequence under one lock: check, Docker call, record, save.  `BeginExecute` and
`BeginUnderLease` are the checks of `execute` and of the two lease routes; `DockerPerforms`,
`DockerRefuses` and `DockerBreaks` are the three ways `docker_call` returns; `Record` adds the
ledger entry, prunes, saves and releases the lock; `RecordFails` is `save_state` raising; `Crash`
is the process dying in any of these places.  A root exec is *created* under the lock and *started*
by the response generator after it (`StartStream`).  A call whose connection broke stays in
`abandoned` until Docker performs it (`DockerPerformsLate`) or drops it.  `BeginUnread` and
`OpenLeaseUnread` are requests that loaded a file they could not read, which `load_state` answers with
an empty ledger and no lease, and whose save leaves it so.  `effects`, `commands`, `lost` and
`forgotten` count what happened, so that the ledger can be compared with it.

Three details matter.  `docker_call` passes a time limit of 45 seconds that has no effect, since
`UnixHTTPConnection.connect` makes its own socket without it: a call that Docker does not answer keeps
the lock.  A prune sorts by `executed_at`, which the entry of a root exec does not have
(`Stamp` 0): it sorts before all others.  `open_admin_session` reads its clock before it waits
for the lock, so `OpenLease` compares with an instant that may be past.

Abstracted: the validators only decide whether a request is refused, and a refused request is a
stuttering step.

### MissionControlOps

Mission Control's lane on top of the runner's module: `OpsNext` takes the runner's actions as its
own steps.  A handler (`handler[h]`) is where it is and the copy of the store it works on; `Start`
is read and decide, `WriteStore` puts the copy over whatever the store holds by then.  Approvals
write first (the stamp), then `Send`; a host operation becomes a member of `jobs`, a Docker
operation waits for the runner (`RunnerTakes`, `RunnerAnswers`, `RunnerCallTimesOut`) and the
handler then writes *the copy it made before the call* with the outcome in it.  `List` is the list
endpoint, which saves up to three times (`Reconciled`, `Maintained`, backfill).  `OtherEndpoint`
stands for every endpoint that saves the store for another reason.  `HandlerFails` is a save, a
notification or the writing of a host job that raises: the handler ends without its write, and
`unwritten` remembers the operations whose outcome only it knew.  `RequestedUnread` is a handler that
could not read the store and goes on with the default one (`_read_store`).  Requests whose handler gave
up or died stay at the runner's lock (`orphans`).  The host runner is `HostTakes`, `HostFinishes`,
`HostRestarts`.  Challenges are single-use as in the code: they are marked in the copy.

### AdminSession

The admin session as a relation of two records: `sessions` of the store and the runner's `lease`.
`Looked` is `_active_octo_admin_session`, which marks what is over in the handler's copy;
`BeginLook`, `BeginStart`, `BeginRevoke`, `BeginUse` and `BeginOther` are the handlers up to their
write or their runner call, `BeginUnread` is any of them on a store that cannot be read; `Answered`,
`Refused`, `Abandon` are what becomes of the call.  Here what the runner does under its lock is one
step, with its clock read at any instant since the call was made; OperationsRunner has what happens
inside.  The command of a root exec is not under the lock: the use that records it puts it into
`waiting`, and `StreamBegins` starts it later, whatever became of the lease.  `LosesLease` is a save of
the runner over a file it could not read.

### FifoLock, SiteLock, BrowserWorker

`SiteLock` is `withSiteLock`: a call chains itself to the last promise (`Enter`), starts when that
one settled (`Start`), and removes itself from the map if it is still the last (`Forget`).
`FifoLock` is the promise in one sentence, a queue with one customer in service; `ChainIsAQueue`
says `SiteLock` implements it, with the calls in order of arrival as the queue.

`BrowserWorker` adds what calls do between two awaits.  `job[c]` names the await a call is in;
`session`, `pending`, `cooldown` and `attempts` are the worker's maps for the site; `browsers` are
the Chromium processes.  `Step(c)` collects the segments of `_login`, `_checkSession`, `_extract`,
`_provideOtp`, `_logout` and `_diagnoseLoginForm`.  Each begins with `getSite`, which reads the policy
file and throws when that is in the middle of an edit or no longer has the site: `StartThrows`, also
for the log-outs of the reaper.  Outside the lock are `Sweep` (the timer),
`DetachedEnds` (an extractor after its time limit) and `BrowserEnds` (Chromium closing or
crashing).  `thrown` and `replaced` name the browsers that the code loses track of.

### CronCatchUp, CronRecovery

`CronCatchUp` is the bridge: `work[p]` is the catch-up that holds `_CRON_CATCHUP_BUSY`, from `Take`
over `List` (which reads the job file once), `Claim` or `Skip` and `RunEnds` per candidate, to
`Answer`.  `MissedDue` is `_cron_missed_due_at` for the three kinds of schedule, with
`Candidates` as the set the code takes the maximum of.  The job file and its scheduler belong to
the agent, whose source is elsewhere: `SchedulerFires`, `SchedulerEnds`, `FastForward`, `Toggle`,
`NextAfter` and `Ran` are external, after what the bridge reads, calls and says of them in its
comments.  Occurrences are instants, and `Never` (-1) is an absent date.

`CronRecovery` is Mission Control with those bridges.  `lastSeen` and `pending` are the state file,
`pass`, `passReg` and `call` the memory of the worker thread: `BeginPass` copies the windows and
reads the profiles, `NextWindow` takes the oldest window of the copy, `AskBridge`, `AskTimesOut` and
the bridges' steps are the calls, `EndWindow` completes the profiles that answered ok.  The copy
stays as it was read while `pending` changes, and a call that timed out leaves its catch-up running.
`Start` is `_prepare_cron_recovery`, `Stop` the end of the process with or without the last
heartbeat.  `offline`, `lastCatchUp` and `leftOut` are history.

Abstracted: a window is named by its end, which is unique; `CRON_AUTO_CATCHUP_ENABLED` is on; the
clock does not go back; the state file is replaced atomically and can be read again; a call without
a running job does not exceed `CRON_CATCHUP_TIMEOUT`.  An unreadable job file makes the bridge answer
ok with nothing run: `leftOut` has what such an answer, a disabled job and a refused claim leave out.

### RateBucket, PolicyFiles, McpServer

`RateBucket` is `rateCheck` for one client: `Tokens` is the refill capped at the burst, `Admit` and
`Refuse` the two ways out, with the `RetryAfter` that is rounded up.  `spent` and `comeBack` are
history: the calls paid since each instant, and the time the last refusal promised.

`PolicyFiles` has `sites.json` and `clients.json` as versions with a time of modification.  The
operator writes a file in place, when it is for a while not JSON (`BeginWrite`, `EndWrite`), or
replaces it.  `_loadAndCacheJson` is a `Stat` and, if the time is not the cached one, a `Read`, with
edits in between.  `Watch` and `Elapse` are `fs.watch` and the debounce timer.

`McpServer` composes them with the requests of one client.  The server is one JavaScript thread:
`turn` is the request whose handler runs, and a handler gives the turn up only while it awaits the
body (`at = "body"`) or the worker (`at = "worker"`).  `Authenticate` loads `clients.json` and asks
the bucket *before* the body is read; `ScopeCheck` and `Dispatch` are the two loads of `sites.json`
in `callTool`, and `Dispatch` hands the call to the worker.  `sessions`, `stream`, `sinks` are the
session table, the GET connections and `_stdioSinks`; `Broadcast` is `emitPolicyChanged`.  `since`,
kept with a request, is history: the versions of the files when it arrived, for `sites.json` when
its body had been read.

Abstracted: there is one client; a version is the set of sites it grants; the arguments of a tool
are its site.  `reapStaleSessions` is defined and never called, so there is no action for it.

### The extractors

An extractor is a sequence of awaits on one page, and the modules have one action per await: what a
page shows is reduced to what the code tells apart with its patterns.  In all of them a call may be
answered by the worker's time limit and go on (`OrderTimesOut`, `ClaimTimesOut`, `PortalTimesOut`,
`ResultsTimeOut`), so that two calls drive one page.

- `ColOrders`: `doc` is what the trade frame shows and `coming` a document on its way to it, which
  `PageLands` at any moment; `Remount` detaches all handles (`handle`).  `step[c]` goes through
  `placeOrder`: home, `getwin`, the form or its URL, filling with one resumption, Preview with its
  resubmission, `Judge`, the password and `Confirm`, which may throw after the broker has the order.
  The password goes to any frame that asks for one (`AsksPassword`), only the preview's files an order.
  `broker` is what COL has accepted.
- `ColAcknowledge`: COL's list of trades (`ledger`) and what the page last showed of it (`list`), the
  count and total the user agreed to, `BeginSubmit` with the comparison and the gate, `Click`,
  `CheckCleared`.  The page may load again at any time (`LoadPage`), also between the comparison and
  the click.  `Parsed` is the total as the code reads it: of one side, the last on the page.
- `ColPortfolio`: `getPortfolio`'s loop over the frames; a frame's load is part of what is read.
- `AprilClaims`: `place` is the portal's page, `form` what its form is filled with, which survives
  until it is loaded again or submitted.  `GotoRoute` goes nowhere if the address already contains the
  route; `clean` says whether the call filled a form it had loaded (`fresh`) or one that was open.  The other actions of the extractor matter by where they leave the page (`Reader`).
- `MaxicarePages`: sections and tabs reached by clicks that need not lead anywhere.
- `ResultFiles`: the directory of results, a temporary file per row and process, `Rename`, the
  pruning of files a day old, a worker that is killed in the middle of a file.

`BrowserTools` puts server and extractors side by side: a step is a step of one of them.  Of what is
modelled they share no state; the three extractors of COL, which drive one tab, have each their own view
of the page, which starts as any page.  In `MCBrowserTools` the variable `part` says which of them a
behaviour moves, so that one run checks each on its own bounds.

### ChatClient

The chat of Mission Control's page.  The page is one thread: an action is what happens between two
awaits.  `slot` are the requests in flight with what their callers keep; `Served` and `Handled`
actions separate the server's answer from its arrival.  After a conversation was made (`Made`),
archived (`ConvArchived`) or deleted (`ConvDeleted`) another is selected, for the agent that is
current by then.  A turn (`turn[t]`) goes through the attempts
of `executeTurn`: `StreamOpens`, `StreamChunk`, `StreamDone`, `StreamErrorBusy`, `StreamBreaks`, and
`Fallback` when no stream began.  `Poll` is the poll of every 15 seconds, which loads the open
transcript anew unless the agent is busy.  Entries of a transcript that a turn still writes to are
`live`; a load replaces them by others that are not.  `history` and `owner` are the server's.
`MCChatClient` checks two parts of the work, *browsing* between two agents and *talking* to one.

---

## 3. The runs

### What each shows

| Run | Module, configuration | Shows |
|---|---|---|
| `runner` | OperationsRunner, `MCOperationsRunner.cfg` | `LedgerAccounts`: each effect in Docker is on the ledger, about to be, lost by a fault, pruned or forgotten with an unread file. `RootExecOnce`: no root command is started twice, unless its entry was lost in one of the last two ways. `LeaseHeldDuringCall`, `LiveLeaseEndsByRevocation`: a lease is not revoked, expired or replaced under a call. `LockReleased`: only a call that Docker never answers keeps the lock for ever. |
| `ops_one_at_a_time` | MCMissionControlOps, `MCOpsSerial.cfg` | With one handler at a time, a fault and a restart: `DecisionsHold` (what acted is on record, what was rejected never runs, an operation is handed over once), `ExecutedIsTrue`, `HostRunsAccounted` (once per result or crash), `FinishedIsFinal`; `ExecutingEnds`: an operation stays executing for ever only if a process restarts or a handler fails with its outcome in hand. |
| `ops_concurrent_docker` | MCMissionControlOps, `MCOpsConcurrentDocker.cfg` | With two handlers over stale copies and a fault: Docker still performs an operation once (`DockerRunsOnce`). |
| `admin_session` | MCAdminSession, `MCAdminSession.cfg` | Two handlers, stale copies, late calls: one active session at most, granted by the runner, used only within the idle limit; after its close only root commands recorded before it still begin. |
| `cron_recovery` | MCCronRecovery, `MCCronRecovery.cfg` | Mission Control, which stops and starts at any time, and two bridges: windows neither overlap (`WindowsApart`) nor lose downtime (`DowntimeIsCovered`), an occurrence is recovered once whatever calls time out, are repeated or made by hand (`NeverRecoveredTwice`), and a window is dropped only when nothing in it is unattempted (`NothingLeftMissed`). |
| `cron_windows_end` | MCCronRecovery, `MCCronLiveness.cfg` | `WindowsEnd`: a window whose profiles stay registered is dropped in the end. |
| `worker_password_site` | MCBrowserWorker, `MCWorkerPassword.cfg` | The lock is a queue (`ChainIsAQueue`, a refinement); `SiteProgresses`: an idle session is closed, unless the reaper's log-outs never stop to throw, and every call returns, whatever the calls before it threw. |
| `worker_otp_site` | MCBrowserWorker, `MCWorkerOtp.cfg` | A site with one-time codes: every Chromium is accounted for, never a session and a pending one together, a log-out leaves nothing. |
| `browser_tools` | MCBrowserTools, `MCBrowserTools.cfg` | *Server*: `RateIsKept` (never more calls than burst and refill pay for, and a Retry-After that suffices), `PoliciesAreCurrent` (a call reaches the worker only under policies of its arrival or later), `ChangesAreTold` (every client that listens hears of the last change). *Extractors*: `OrdersAsAsked` (an order is placed once, as asked, and never by a call that was refused or dry), `AckedIsAgreed`, `BalancesAreOneReading`, `FiledAsGiven` (a claim has what the call gave; refused, dry or thrown calls file none), `ActiveIsActive`, `ReportedIsThere`. |
| `chat` | MCChatClient, `MCChatClient.cfg` | `NeverReasked`: a message whose answer has begun is not sent to the agent again. `RunningIsVisible`: the answer that streams is in the transcript that is shown. `OwnConversations`: an agent's conversation was made for it, whatever answers arrive after another was selected. `ReplyIsShown`: a recorded answer is shown in the end. |
| `ops_reject_race`, `worker_extractor_race` | | the disagreements of section 5 |

`DecisionsHold` holds with one handler and fails with two; `ops_reject_race` shows it for one of its
parts.  `DockerRunsOnce` and `ExecutedIsTrue` do not depend on it: the first is checked with two
handlers, both are proved for any number.

Some properties name the case they leave out, since the code does not cover it: `PlacedAsAsked`
assumes that no given-up call still drives the tab and that no page landed on the form being filled
(`alone`), `FiledAsGiven` that the call ran alone and did not mistake the submitting button of an open
form for the way to it (`clean`); on a form that was left open it speaks of the required fields, which
every call fills, on a loaded one of the optional fields, too.  `AckedIsAgreed` excuses a list that was
submitted `again` and trades that came with a load between comparison and click (`reloaded`),
`ReportedIsThere` calls that overlapped, `OwnConversations` an agent that was changed while a
conversation was being made, archived or deleted.  What happens in these cases is in section 5.

### Bounds, and why they are enough

- *runner*: two request ids (one can push the other off the ledger), a ledger pruned at its second
  entry, two leases, two exec ids, three instants with a lease of one, one fault (a crash, a broken
  call, a failed save or an unread file), two effects per request.  A prune, a late performance and a repetition all happen within one behaviour.
- *ops*: one Docker operation and, in the serial runs, one host operation; two handlers are enough
  for a stale copy to be written over a newer store, two challenges for an operation to be approved
  twice from two copies, `MaxSends` 2 for the second hand-over to be performed.  Time is the age of
  an operation (fresh, past the approval limit, past retention).  One fault of the runner, one handler
  that fails or does not read the store (`MaxBreaks`) and, in the serial run, one restart of each side.
- *admin*: two ids and two handlers (a third would only repeat a stale write), a session of three
  ticks with an idle limit of one so that idle expiry comes first, four instants so that a session can
  end at either limit, one root exec per session that has not begun, one fault.
- *worker*: two client calls and one of the reaper; two browsers where one can replace another, one
  where it cannot; limits of one tick.
- *MCP server*: two requests, so that an edit, a refusal or another request falls between any two
  steps of one; one session, two streams (the second replaces the first); two changes of a file, so that
  one falls between stat and read and another after it, beside one of the other file; one change of each
  where streams are watched;
  burst 5, cost 2 and refill 2, so that tokens do not come out even; four instants.  Sites: one is
  granted at first and another later.
- *extractors*: two calls that overlap, a real order to sell with a dry run or a diagnosis of one to
  buy, so that either's order is told apart (the diagnosis, whose steps on the page are among those of
  the dry run, comes second or alone); three trades whose totals partly agree, below and above
  the threshold; two frames, loaded again at most once; a claim with and one without optional fields;
  three rows of which two have the same file name.
- *chat*: two agents, two conversations, two turns (one can run while the other is begun), two requests
  in flight (answers can overtake), two attempts (the source has 26).  An archiving answer is awaited
  beside any other request but another archiving or deleting one, while at most one turn has begun.
- *cron*: two profiles, so that a window is completed for one and not for the other, one of them
  with a job due at every tick (the other only answers); instants 0 to 3, the fewest with two windows
  and an occurrence in each, 0 to 2 in the liveness run; two faults, which are crashes on either
  side, failed writes or reads, changed profiles, paused jobs or manual calls.  The safety run has an
  interval schedule, whose occurrences move with the last run, the liveness run a calendar.

Symmetry is used in safety runs only.  Deadlock checking is off where the modelled system may stop:
bounded clocks run out, and nothing forces a client to call.

### Fairness, and why the code justifies it

- `Record \/ RecordFails` in the runner: a handler whose call has returned saves, or raises, and every
  way out of the `with` block releases the lock.  Nothing makes Docker answer (its calls have no time
  limit that works), a client send, a stream start or an abandoned call end.
- `HandlerStep(h)` in the lane: a started handler goes on, and Mission Control's `urlopen` has a time
  limit that works, whatever Docker does.  Nothing makes Mission Control come back for a handler that
  died or failed: `ExecutingEnds` names these cases, and would be false without.
- `Step(c)`, `StartCall(c)`, `Release(c)` in the worker: every await is a call of Playwright with a
  time limit, another promise or the closing of a browser, which is taken to end, since Playwright kills
  one that does not close; callbacks of settled promises run.  `Sweep` is `setInterval`.  No fairness
  is assumed of clients, of Chromium or of the policy file: if it never becomes readable again, the
  reaper tries for ever (`ReaperKeepsFailing`).
- `Clock`, `WatchReports`, `Broadcast` and `Handler(r)` in McpServer: timers fire, `fs.watch` reports,
  a handler's awaits end.  No property of a run needs them.  The extractors have no fairness: their
  properties say what they never do.
- `ChatFairness`: a turn goes on (each of its awaits ends or breaks, weak fairness).  Polls are a timer
  that skips busy agents and answers may fail any number of times, so polls and answers need strong
  fairness: a poll that is possible again and again happens, a request that is repeated again and again
  is answered.  Nothing makes the user do anything.
- `Start`, `WorkerStep` in cron recovery: the container is restarted unless it was stopped by hand,
  and the worker loop catches every exception and repeats each pass.  `CatchUpStep(p)`: a listing, a
  claim, a run and an answer end, `BridgeStarts(p)` as for Mission Control.  Nothing makes the agent's
  own scheduler act.

---

## 4. The proofs

All of the following hold for every value of the constants that the `ASSUME`s allow: any number of
ids, handlers, calls, browsers, faults.  Every leaf is checked by TLAPS.  The `ASSUME`s say what the
constants are; those with a reason in the code are `MissionControlAssumption` (the server's thread pool
is finite; Docker's request ids are not host operations), `AcknowledgeAssumption` (every trade has a
value) and `ResultsAssumption` (file names are a sequence, and a closed file is none of them).

**OperationsRunnerProofs.** The inductive invariant `IInv` is the conjunction of the properties
plus `ExecHandedOut` (what is on file was handed out by Docker).  `LedgerIsComplete` and
`RootExecsRunOnce` need each other's parts: `RootExecOnce` is kept by `Record` because a recording
request is not on the ledger (`ServedIsUnrecorded`, a part of the invariant).  `CallsHoldTheirLease` and
`LiveLeasesAreNotReplaced` concern the lease.

**MissionControlOpsProofs.** `LaneDrivesRunner` (`OpsSpec => Spec`): every step of the lane is a
step of the runner or leaves it alone, so the runner's theorems hold in the lane; `OperationsRunOnce`
follows.  For that the lane needs `QueuedIsDocker`: only Docker operations wait at the runner.
`ReportsAreTrue` (`ExecutedIsTrue`) is inductive only over all *versions* of the store, the file and
the copies in handlers' hands, together with `ServedIsBusy` (the answer a handler gets is about its
own operation) and `LedgerAccounts`.  `HostRunsAreAccounted` is the host side.  `ActsOnHandOversOnly`
traces an effect back: whatever waits at the runner, is served, was abandoned by it or is left of a
handler that is gone was handed over first (`SentInv`).

That decisions hold is false of several threads (`ops_reject_race`), and the code serves handlers on
threads; `DecisionsHold` and `FinishedIsFinal` are therefore not theorems, and `ops_one_at_a_time`
shows them of handlers that happen not to overlap.  What the theorems say holds with any threads,
stale writes, restarts, failures and files that cannot be read.  `NothingIsInvented`: a new version of
the store follows from an old one by moves of the operations' life cycle (`Derived`, shown for each
step in `StepDerives`), or has forgotten an operation that could not be read, so a stale write takes an
operation back but makes up no decision.  `OutcomesAreOfHandOvers`: an outcome in any version is of an
operation that was handed over.  `ChallengesNameOneOperation`: a challenge never approves another
operation than it was drawn for, in any copy.

**AdminSessionProofs.** `AdminInv` says of each copy of the store what `OneActiveSession` and
`ActiveIsGranted` say of the store: an active session in a copy was granted and is live, closed or
past its end (`CopiesSound`); a call under way names a session its copy backs (`CallsSound`); ids
of opens still to be performed are fresh and different (`OpensFresh`).  The runner moves only in
one direction for a given id (`Onward`), so a stale copy stays sound.  That carries
`NeverTwoSessions`, `SessionsAreGranted`, `IdleLimit` and `ClosedIsForGood`, which says of a closed or
lost lease that nothing is taken on under it any more: the only steps left to it are the beginnings of
root commands on record before.

**BrowserWorkerProofs.** `LockInv` orders the chain: the waiting and running calls
are `line`, each is chained to the one before it, the map names the last.  From it `CallsTakeTurns`
and the refinement `LockIsAQueue`.  `WorkerUsesLock` and `WorkerServesInOrder` lift it to the worker:
every step of a call is a step of the lock.  `BrowsersStayAccounted`, `SessionsAreSingle` and
`LogoutsClear` rest on `WorkerInv`.  The lock keeps other calls away but neither the sweep nor
Chromium, so what a call knew before an await is not all still so after it: `Sound` says, for each
await of each kind of call, which browser the call holds and what of the session and of the pending
log-in it may still rely on.  A call that does not run holds nothing (`JobsRest`), and a session
excludes a pending log-in (`SiteSound`).

**CronRecoveryProofs.** `OccurrencesRecoveredOnce` rests on
`CatchUpsAccountForRuns`: every claim of a catch-up is covered by what the job file says of the job
(`AttemptsOnFile`), and every candidate of the catch-up at work is newer than the last claim of its
job (`PicksAreFresh`), although the list was read before the others ran: the lock keeps every other
catch-up away from these jobs.  `RecoveryDrivesBridges`
(`CronSafety => CatchUpSpec`) carries it over to Mission Control's calls.  `RecoveryInvariant` adds
`DowntimeIsPast`: while Mission Control runs, no instant of downtime is newer than its heartbeat, so
the next window begins before any new downtime; from it `WindowsStayApart`, `DowntimeStaysCovered` and
`RecoveryTypes`.

`NothingIsLeftMissed` (`NothingLeftMissed`) follows an occurrence from the bridge to the file
(`SettledInv`).  A job is settled for a window (`Seen`) when an attempt covers its occurrences there or
the bridge reported it as left out.  That stays so (`SeenStays`): attempts only get later, and a step
that moves `next_run_at` or the anchor of an interval moves it past the window, which lies in the past.
A catch-up for a window has each job settled or still to run (`WorkCovers`), where a listing takes the
newest occurrence, which exists because there are finitely many (`LatestExists`).  So an answer settles
its profile (`CallsMatch`): it counts only while its call waits, and a call that waits is for the window
at hand, whatever was asked before and given up.  What the file calls completed was settled
(`CompletedIsSettled`).  The worker's copy of a window may be behind the file only while it asks for that
window (`CopiesAreCurrent`), so no target is forgotten when it drops one.

**McpServerProofs.** `RateLimitIsExact` (`RateIsKept`): `RateInv` keeps, for every instant `t`, that
what was paid since `t` and what the bucket holds now come from the full bucket and the refill since
`t` (`Paid`); a refusal promises that the refill until its Retry-After makes up for the call
(`Promised`, from `RoundedUp`).  `CallsAreGranted` (`PoliciesAreCurrent`): a cached version with the
file's time is the file's version (`FilesSound`), a load under way belongs to the handler that runs and
has a time no newer than the file's (`HandlerSound`), so a load that ends leaves the current version
(`LoadIsCurrent`); a request knows nothing older than its arrival (`RequestSound`), and only `Dispatch`
hands it over (`OnlyDispatchCalls`).  `ListenersAreTold` (`ChangesAreTold`): an open stream of a live
session is a sink, and only open ones are (`StreamSound`); a session's own sink is its newest stream
while that is open (`SinkSound`), so the end of the session takes along the stream it must.
`ServerKeepsTheBucket` and `ServerOnlyLoadsPolicies` (`McpSpec => BucketSpec`, `McpSpec => PolicySpec`)
say that the server moves tokens only in `rateCheck` and caches only by loads and the watcher, for each
of its actions.  `ServerIsTyped` puts the three invariants together: the time a load has read is no
newer than its file's only because the file is that of the handler that runs.

**ChatClientProofs.** `HeardOnce` (`NeverReasked`): an attempt that may be repeated has heard nothing
(`TurnsAreFresh`).  `ConversationsAreOwn` (`OwnConversations`): what the page lists for a profile was
made for it, also in lists still on their way (`ListsAreOwned`), and without a change of the profile
a request to make, archive or delete is about the current one (`RequestsAreOwn`).  `AnswersStayVisible` (`RunningIsVisible`) needs
the whole of what keeps a load away from the transcript of a running turn (`Alone`): the profile is
busy, so no poll and no `/retry` comes; the transcript was loaded before, so no selection loads it;
and no load was on its way when the turn began.

**ExtractorProofs.** Each property compares what a call did with what it was asked; between them lies a
tab that earlier calls have used and late navigations change.  The invariants say for each step of a
call that has the tab to itself what the tab shows and what may still land on it: `TabOf` for orders
(`OrdersStayAsAsked`: a refused or dry order is not placed, none is placed twice, and one placed alone
is as asked and as shown), `ClaimOf` for claims (`ClaimsAreAsGiven`), `PageOf` for policies
(`PoliciesAreActive`), `AckInv` for the list of trades (`AgreementsHold`), and `OneWrites` for the
directory of results while calls do not overlap (`DownloadsAreThere`).  `PortfoliosAreConsistent` needs
no more than one reading's frames.

`GateHoldsForOneSide` proves of the high-value gate what is true of it: it holds for lists whose trades
are of one side (section 5 has the others).  For this, and for `AcknowledgementsAreTyped`, totals must be
shown to exist and to be numbers, although `Sum` is a recursive function chosen over all sets of trades.
The induction is done by hand, with smallest counterexamples: a least size for which no function of
sums exists (`SumExists`), and a set of trades, minimal under inclusion, whose sum is no number
(`SumIsNumber`).

Each module's type invariant is a theorem (`OrdersAreTyped` to `ResultsAreTyped`).  `ToolsDriveParts`
shows that a behaviour of `BrowserTools` is, in the variables of each part, one of that part, so all of
the above holds of the parts side by side, and `ToolsAreTyped` (`ToolsTypeOK`) follows.

**Model-checked only.** Liveness (`LockReleased`, `ExecutingEnds`, `SiteProgresses`, `WindowsEnd`,
`ReplyIsShown`) is outside what the prover does, and so is `ENABLED`.  The two properties of the runs
of section 5 are false.  `DecisionsHold` and `FinishedIsFinal` are false of several threads and stay with
the run of one handler at a time.  All others are proved.  The library's induction theorems take an operator as
a parameter and cannot be used here; apart from the totals above nothing proved needs them.

---

## 5. Disagreements between code and documentation

Each is a run that TLC ends with a counterexample; `PROJECT.json` quotes the sentence it contradicts.

1. `ops_reject_race`: reject and approve that read the same pending record both go on; an
   operation on record as rejected is executed.
2. `worker_extractor_race`: an extractor past its time limit goes on with the page while the lock
   is released to the next call.

Seen in the models, without a run of their own:

*Mission Control and the runner.*
- A handler that read the store before an approval was stamped erases the stamp when it saves, and the
  operation executes while the store calls it pending (`ActedIsOnRecord` with two handlers).
- Idle expiry of an admin session is noted in Mission Control's store only (`ExpiredIsOver` fails): the
  runner's lease stays live, revoke answers 403, and a new session is refused with 409 until the hard
  limit.  A session start whose write is lost leaves such a lease, too.
- Closing the lease does not stop a root exec that the runner has recorded and not yet started
  (`StreamBegins`).
- The 45 seconds of `docker_call` are not in force (`operations-runner/app/main.py` 60–67): while Docker
  hangs, every request waits at the runner's lock, and Mission Control's calls end as unknown.
- A handler that raises after the runner's answer leaves its operation executing: nothing comes back
  to it (`HandlerFails`).  A store or a ledger that cannot be read once is empty after
  the next save (`RequestedUnread`, `BeginUnread`).
- The runner's answer 409 to a second hand-over is recorded as failed although the operation was
  performed (`RunnerTakes`); a request sent again after an abandoned Docker call is performed twice,
  the ledger being written after the call (`lost` in `LedgerAccounts`).
- A bridge that cannot read its job file answers ok, and the window is completed with its jobs unseen
  (`List`); a candidate may have been run by the scheduler since the list was read, and is run again
  (`Claim` asks whether the job is held, not when it was last attempted), which is why
  `NeverRecoveredTwice` speaks of catch-ups only.

*Worker and MCP server.*
- A second login on a site that waits for a code overwrites the entry of the first browser, which then
  nothing closes (`replaced`); the sweep closes a browser while its code is being submitted
  (`OtpAccepted` after `Sweep`); the reaper queues a log-out for a session that a call ahead of it in
  the queue makes active again; a site taken out of the policy file keeps its session, because the
  log-out that would close it throws first (`StartThrows`).
- "Sessions auto-expire after sessionMaxIdleMs" (`server.js` 820–822), but `reapStaleSessions` (836–848)
  is never called: `SessionsExpire` fails.  A stream that another one of its session replaced stays in
  `_stdioSinks` when the session is deleted, and is told of changes.

*Extractors.*
- The high-value gate compares the last total on the page, which is that of one side on a day with
  purchases and sales (`col_financial.js` 1992–1995 against 2092–2101 and 2264–2280): `GateHolds` fails.
  "acknowledged" is returned while the list is still there if it is in a frame: only the body of the
  page itself is asked (`CheckCleared`).
- `get_portfolio` loses a cash figure when a later frame has only the equity (396–398).
- A dry run of a claim can file one (`april_international.js` 581–584, `DryRunFilesNothing` fails): the
  form of an earlier call is still open, because its address contains the list's route, and the button
  taken for the way to the form is the one that submits it.
- "A partial file never surfaces as a download_path" (`hi_precision.js` 413–416) fails when calls
  overlap: they share the temporary file.

*Chat page.*
- A message that never reached the server, and the page's own notes, vanish with the next poll.
- While a conversation is being made for a message nothing is busy, and a second click sends it again;
  after another agent was selected meanwhile the message goes into that agent's transcript.
- A conversation that is archived, made or deleted while the user goes to another agent makes the next
  one, or the new one, that other agent's open conversation (4233, 4267): `OwnConversations` is false
  without `~switched`.

---

## 6. Not modelled, and the plan

Every component has its status in `PROJECT.json`.  Those without state of their own (the other views
of the page, `_diagnose.js`, read-only proxies, provisioning scripts, vendor wodles) stay out.  Within
modelled components these are left out, because no property here depends on them:

- *MCP server*: which bearer token belongs to which client and its reload by SIGHUP, prompts and
  resources beyond listing, the stdio transport.
- *worker*: its HTTP server and authentication, secrets, URL checks, header patching, SIGTERM.
- *chat page*: renaming, pinning, searching, attachments, commands other than `/retry`.
- *admin session*: the WebAuthn ceremony, which containers are eligible, the text of a command.

A hazard without a property has a note that says why.  Most of them wait for the modules below, in order:

1. **HostFilesystemTx**: prepare and commit with a crash at any point, composed with the job loop.
   Abstract specification: a commit is applied at most once; checked against the code's prefix.  To
   prove: nothing is applied that was not staged by a prepare of the same profile.
2. **AcpAgent**: turns, request slots, reader threads of successive processes, time limits, idle
   shutdown.  "Each conversation gets its own session so contexts never mix" is its main property.
3. **AutoDispatch**: tick, manual run and stop over the kanban board; every running task has a
   worker or is reclaimed.
4. **ChatRelay**: Mission Control's side of a turn, between ChatClient and AcpAgent, with the two files
   of a conversation.
5. **MemoryGateway**: namespace and policy as functions against a reference definition, bucket,
   publish with its audit record, the plugin's turn numbers.
6. **OperationAcks** and the remaining store handlers, as additions to MissionControlOps's store.

Proofs that would come with them: the first safety property of each; for the tools, the extractors of
COL on one common page.
