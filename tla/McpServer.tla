----------------------------- MODULE McpServer -----------------------------
(***************************************************************************)
(* The browser MCP server (mcp-server/server.js): requests of one client   *)
(* over HTTP, its sessions and event streams, and calls handed to the      *)
(* worker.                                                                 *)
(*                                                                         *)
(* The server is one JavaScript thread: a handler runs until it awaits the *)
(* body of its request or the worker, and `turn` is the request whose      *)
(* handler runs.  Only the operator, the clock and the worker act between  *)
(* two of its steps.  A request is authenticated before its body is read   *)
(* and keeps the client entry it found.                                    *)
(***************************************************************************)
EXTENDS PolicyFiles, RateBucket

CONSTANTS Requests, SessionIds, Streams, Nothing, MaxIdle

ASSUME ServerAssumption ==
  /\ Nothing \notin Requests \cup SessionIds \cup Streams \cup Sites
  /\ MaxIdle \in Nat

VARIABLES
  turn,       \* the request whose handler runs, or Nothing
  request,    \* where each request is
  sessions,   \* _sessions: id -> lastSeen and sseSink, or Gone
  minted,     \* ids that newSessionId returned
  stream,     \* the GET /mcp connections: session, and whether the client holds it open
  sinks,      \* the streams in _stdioSinks
  told,       \* history: stream -> Changes when it was opened or last told
  newest      \* history: session -> the stream opened last for it

serverVars == <<turn, request, sessions, minted, stream, sinks, told, newest>>
streamVars == <<stream, sinks, told, newest>>
mcpVars    == <<policyVars, bucketVars, serverVars>>

NoRequest == [at |-> "none"]
Gone      == [sink |-> "gone"]

\* A request from its arrival to its answer, with what its handler keeps.
Request == [at : {"authenticate", "body", "list", "scope", "check", "worker"},
            kind : {"post", "get", "sites"}, client : Versions, site : Sites \cup {Nothing},
            since : [Files -> Versions]]
Session == [lastSeen : Instants, sink : Streams \cup {Nothing}]

Live == {s \in SessionIds : sessions[s] # Gone}

McpTypeOK ==
  /\ PolicyTypeOK /\ BucketTypeOK
  /\ turn \in Requests \cup {Nothing}
  /\ request \in [Requests -> {NoRequest} \cup Request]
  /\ sessions \in [SessionIds -> {Gone} \cup Session]
  /\ Live \subseteq minted /\ minted \subseteq SessionIds
  /\ stream \in [Streams -> [session : SessionIds \cup {Nothing}, open : BOOLEAN]]
  /\ sinks \subseteq Streams
  /\ told \in [Streams -> Nat]
  /\ newest \in [SessionIds -> Streams \cup {Nothing}]

McpInit ==
  /\ PolicyInit /\ BucketInit
  /\ turn = Nothing /\ request = [r \in Requests |-> NoRequest]
  /\ sessions = [s \in SessionIds |-> Gone] /\ minted = {}
  /\ stream = [t \in Streams |-> [session |-> Nothing, open |-> FALSE]]
  /\ sinks = {} /\ told = [t \in Streams |-> 0]
  /\ newest = [s \in SessionIds |-> Nothing]

-----------------------------------------------------------------------------
(* The handler of a request.                                               *)

Versions0 == [f \in Files |-> file[f].version]

Arrive(r, kind) ==
  /\ turn = Nothing /\ request[r] = NoRequest
  /\ turn' = r
  /\ request' = [request EXCEPT ![r] = [at |-> "authenticate", kind |-> kind, client |-> 0,
                                        site |-> Nothing, since |-> Versions0]]
  /\ UNCHANGED <<policyVars, bucketVars, sessions, minted, streamVars>>

\* r's handler runs and has come to `place`.
Runs(r, place) == turn = r /\ request[r].at = place

Await(r, place) ==
  /\ turn' = Nothing
  /\ request' = [request EXCEPT ![r].at = place]

Respond(r) ==
  /\ turn' = Nothing
  /\ request' = [request EXCEPT ![r] = NoRequest]

\* authenticateClient and rateCheck.
Authenticate(r) ==
  /\ Runs(r, "authenticate") /\ request[r].kind = "post"
  /\ Load("clients")
  /\ \/ /\ Admit /\ turn' = Nothing
        /\ request' = [request EXCEPT ![r] = [@ EXCEPT !.at = "body",
                                                       !.client = cache'["clients"].version]]
     \/ Refuse /\ Respond(r)
  /\ UNCHANGED <<sessions, minted, streamVars>>

\* A load finds other content, or fails: 401, or an error.
LoadSteps(r) ==
  /\ turn = r
  /\ \/ \E f \in {"clients"} : Runs(r, "authenticate") /\ Stat(f) /\ UNCHANGED <<turn, request>>
     \/ /\ request[r].at \in {"list", "scope", "check"}
        /\ Stat("sites") /\ UNCHANGED <<turn, request>>
     \/ LoadThrows(IF Runs(r, "authenticate") THEN "clients" ELSE "sites") /\ Respond(r)
  /\ UNCHANGED <<bucketVars, sessions, minted, streamVars>>

Touched(s) == [sessions EXCEPT ![s].lastSeen = now]

\* GET /sites: authenticated, it lists the sites.
BeginSites(r) ==
  /\ Runs(r, "authenticate") /\ request[r].kind = "sites"
  /\ Load("clients")
  /\ request' = [request EXCEPT ![r].at = "list"]
  /\ UNCHANGED <<bucketVars, turn, sessions, minted, streamVars>>

\* GET /mcp: a stream for a live session, or 400 and 404.
OpenStream(r, t, s) ==
  /\ Runs(r, "authenticate") /\ request[r].kind = "get"
  /\ Load("clients")
  /\ stream[t].session = Nothing /\ s \in Live
  /\ stream' = [stream EXCEPT ![t] = [session |-> s, open |-> TRUE]]
  /\ sinks' = sinks \cup {t}
  /\ sessions' = [sessions EXCEPT ![s] = [lastSeen |-> now, sink |-> t]]
  /\ told' = [told EXCEPT ![t] = Changes]
  /\ newest' = [newest EXCEPT ![s] = t]
  /\ Respond(r)
  /\ UNCHANGED <<bucketVars, minted>>

StreamRefused(r) ==
  /\ Runs(r, "authenticate") /\ request[r].kind = "get"
  /\ Load("clients") /\ Respond(r)
  /\ UNCHANGED <<bucketVars, sessions, minted, streamVars>>

\* The body has arrived and the handler goes on.
Resumes(r) == turn = Nothing /\ request[r].at = "body"

\* Not JSON, an unknown session, a notification, or the client goes away.
BodyRefused(r) ==
  /\ Resumes(r) /\ Respond(r)
  /\ UNCHANGED <<policyVars, bucketVars, sessions, minted, streamVars>>

\* initialize on 2025-06-18.
Initialize(r, s) ==
  /\ Resumes(r) /\ s \notin minted
  /\ minted' = minted \cup {s}
  /\ sessions' = [sessions EXCEPT ![s] = [lastSeen |-> now, sink |-> Nothing]]
  /\ Respond(r)
  /\ UNCHANGED <<policyVars, bucketVars, streamVars>>

\* A request of a session that names another version: 400, after the touch.
VersionMismatch(r, s) ==
  /\ Resumes(r) /\ s \in Live
  /\ sessions' = Touched(s) /\ Respond(r)
  /\ UNCHANGED <<policyVars, bucketVars, minted, streamVars>>

\* A method with or without a session: tools/call on a site, or a list.
BeginMethod(r, s, site) ==
  /\ Resumes(r) /\ s \in Live \cup {Nothing}
  /\ sessions' = IF s = Nothing THEN sessions ELSE Touched(s)
  /\ turn' = r
  /\ request' = [request EXCEPT ![r] =
       [@ EXCEPT !.at = IF site = Nothing THEN "list" ELSE "scope", !.site = site,
                 !.since = [request[r].since EXCEPT !["sites"] = file["sites"].version]]]
  /\ UNCHANGED <<policyVars, bucketVars, minted, streamVars>>

AnswerList(r) ==
  /\ Runs(r, "list") /\ Load("sites") /\ Respond(r)
  /\ UNCHANGED <<bucketVars, sessions, minted, streamVars>>

-----------------------------------------------------------------------------
(* callTool.                                                               *)

\* sitesAllowing and clientSiteIntersection: the enum that the site must be in.
ScopeCheck(r) ==
  /\ Runs(r, "scope") /\ Load("sites")
  /\ IF request[r].site \in Allows[cache'["sites"].version] \cap Scope[request[r].client]
     THEN request' = [request EXCEPT ![r].at = "check"] /\ turn' = turn
     ELSE Respond(r)
  /\ UNCHANGED <<bucketVars, sessions, minted, streamVars>>

\* assertSiteAllowsAction loads the policy again; then the worker is called.
Dispatch(r) ==
  /\ Runs(r, "check") /\ Load("sites")
  /\ IF request[r].site \in Allows[cache'["sites"].version]
     THEN Await(r, "worker") ELSE Respond(r)
  /\ UNCHANGED <<bucketVars, sessions, minted, streamVars>>

\* The worker answers, fails or is given up on after workerTimeoutMs.
WorkerCallEnds(r) ==
  /\ turn = Nothing /\ request[r].at = "worker"
  /\ Respond(r)
  /\ UNCHANGED <<policyVars, bucketVars, sessions, minted, streamVars>>

-----------------------------------------------------------------------------
(* Sessions, streams and notices.                                          *)

\* DELETE /mcp: dropSession.
Delete(s) ==
  /\ turn = Nothing /\ s \in Live
  /\ sinks' = sinks \ {sessions[s].sink}
  /\ sessions' = [sessions EXCEPT ![s] = Gone]
  /\ UNCHANGED <<policyVars, bucketVars, turn, request, minted, stream, told, newest>>

(* Mutant: a stream that closes does not ask whether its session is left.  *)
CloseUnasked(t) ==
  /\ turn = Nothing /\ stream[t].open
  /\ stream' = [stream EXCEPT ![t].open = FALSE]
  /\ sinks' = sinks \ {t}
  /\ sessions' = [sessions EXCEPT ![stream[t].session].sink = Nothing]
  /\ UNCHANGED <<policyVars, bucketVars, turn, request, minted, told, newest>>

(* Mutant: a stream that closes clears the sink of its session whoever it  *)
(* is.                                                                     *)
CloseClearing(t) ==
  /\ turn = Nothing /\ stream[t].open
  /\ stream' = [stream EXCEPT ![t].open = FALSE]
  /\ sinks' = sinks \ {t}
  /\ sessions' = IF stream[t].session \in Live
                 THEN [sessions EXCEPT ![stream[t].session].sink = Nothing] ELSE sessions
  /\ UNCHANGED <<policyVars, bucketVars, turn, request, minted, told, newest>>

\* The client closes the stream, and cleanup runs.
Close(t) ==
  /\ turn = Nothing /\ stream[t].open
  /\ stream' = [stream EXCEPT ![t].open = FALSE]
  /\ sinks' = sinks \ {t}
  /\ LET s == stream[t].session
     IN  sessions' = IF s \in Live /\ sessions[s].sink = t
                     THEN [sessions EXCEPT ![s].sink = Nothing] ELSE sessions
  /\ UNCHANGED <<policyVars, bucketVars, turn, request, minted, told, newest>>

\* fs.watch reports a change.
WatchReports ==
  /\ turn = Nothing /\ Watch
  /\ UNCHANGED <<bucketVars, serverVars>>

\* emitPolicyChanged.
Broadcast ==
  /\ turn = Nothing /\ Elapse
  /\ told' = [t \in Streams |-> IF t \in sinks THEN Changes ELSE told[t]]
  /\ UNCHANGED <<bucketVars, turn, request, sessions, minted, stream, sinks, newest>>

Operator ==
  /\ \E f \in Files : BeginWrite(f) \/ EndWrite(f) \/ Replace(f)
  /\ UNCHANGED <<bucketVars, serverVars>>

Clock == Tick /\ UNCHANGED <<policyVars, serverVars>>

Handler(r) ==
  \/ Authenticate(r) \/ LoadSteps(r) \/ BeginSites(r) \/ StreamRefused(r) \/ BodyRefused(r)
  \/ AnswerList(r) \/ ScopeCheck(r) \/ Dispatch(r) \/ WorkerCallEnds(r)
  \/ \E s \in SessionIds : Initialize(r, s) \/ VersionMismatch(r, s)
  \/ \E s \in SessionIds \cup {Nothing}, site \in Sites \cup {Nothing} : BeginMethod(r, s, site)
  \/ \E s \in SessionIds, t \in Streams : OpenStream(r, t, s)

McpNext ==
  \/ Operator \/ Clock \/ WatchReports \/ Broadcast
  \/ \E r \in Requests : Handler(r) \/ \E kind \in {"post", "get", "sites"} : Arrive(r, kind)
  \/ \E s \in SessionIds : Delete(s)
  \/ \E t \in Streams : Close(t)

McpSpec ==
  /\ McpInit /\ [][McpNext]_mcpVars
  /\ WF_mcpVars(Clock) /\ WF_mcpVars(WatchReports) /\ WF_mcpVars(Broadcast)
  /\ \A r \in Requests : WF_mcpVars(Handler(r))

-----------------------------------------------------------------------------

IsGranted(r) ==
  LET q == request[r] version == cache'["sites"].version
  IN  /\ q.site \in Scope[q.client] \cap Allows[version]
      /\ q.since["clients"] <= q.client /\ q.since["sites"] <= version

(* No step pins a file to an old version, and a call is handed to the      *)
(* worker only for a site that both files grant, as they stood when the    *)
(* request arrived (clients.json) and when its body had been read          *)
(* (sites.json), or later: edits between the two loads of callTool, in the *)
(* middle of a load, or while the body arrives included.                   *)
PoliciesAreCurrent ==
  [][/\ NeverPinned'
     /\ \A r \in Requests :
          request[r].at = "check" /\ request'[r].at = "worker" => IsGranted(r)]_mcpVars

(* When all changes have been reported, every stream of a live session     *)
(* that is its newest has been told since the last of them.                *)
QuietMeansTold ==
  ~event /\ ~debounce =>
    \A t \in Streams : stream[t].open /\ stream[t].session \in Live => told[t] = Changes

(* A session that is deleted takes its stream with it: of the streams of a *)
(* dropped session only one that another stream had replaced can still be  *)
(* told of changes.                                                        *)
DroppedIsSilent ==
  \A t \in sinks : stream[t].open /\ (stream[t].session \notin Live => newest[stream[t].session] # t)

(* Every client that listens is told of the last change, and no one else.  *)
ChangesAreTold == QuietMeansTold /\ DroppedIsSilent

(* "Sessions auto-expire after sessionMaxIdleMs of inactivity" (server.js, *)
(* lines 820 to 822): one that is idle too long is used again or dropped.  *)
Overdue(s) == s \in Live /\ now - sessions[s].lastSeen > MaxIdle

SessionsExpire == \A s \in SessionIds : Overdue(s) ~> ~Overdue(s)
=============================================================================
