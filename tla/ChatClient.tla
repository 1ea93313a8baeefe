----------------------------- MODULE ChatClient -----------------------------
(***************************************************************************)
(* The chat of Mission Control's page (mission-control/app/static/app.js): *)
(* agents (profiles), their conversations and transcripts, and the turns   *)
(* that are streamed into them.                                            *)
(*                                                                         *)
(* The page is one thread; between two of its steps are the answers it     *)
(* awaits, in any order, and what the user does meanwhile.  After an await *)
(* a function goes on with what it has kept and with what it reads again,  *)
(* above all the current profile.  Polls load the open transcript anew     *)
(* from the server's history, which the server writes as a turn proceeds.  *)
(***************************************************************************)
EXTENDS Naturals, FiniteSets, FiniteSetsExt

CONSTANTS
  Profiles, Convs,
  MaxRequests,    \* bound: requests in flight
  MaxTurns,       \* bound: turns
  MaxAttempts,    \* attempts of a turn while the agent is busy (26 in the source)
  NoOne

Turns == 1..MaxTurns
Slots == 1..MaxRequests
Keys  == Profiles \X Convs

ASSUME ChatAssumption ==
  /\ MaxTurns \in Nat /\ MaxRequests \in Nat /\ MaxAttempts \in Nat \ {0}
  /\ NoOne \notin Profiles \cup Convs

VARIABLES
  profile,     \* chat.profile
  listed,      \* chat.convs: profile -> conversations
  fetched,     \* chat.loadedList
  active,      \* chat.activeConv: profile -> conversation or NoOne
  shown,       \* chat.transcripts: key -> entries
  loaded,      \* chat.loadedHist
  busy,        \* chat.busyProfiles
  slot,        \* the requests in flight, with what their callers have kept
  turn,        \* the turns, from executeTurn's start on
  owner,       \* external: the profile that the server has made a conversation for
  history,     \* external: the server's transcripts
  gone,        \* external: the conversations that the server has deleted
  switched     \* history: the profile was changed while a conversation was made, archived or deleted

uiVars     == <<profile, listed, fetched, active>>
server     == <<owner, history, gone>>
chatVars   == <<uiVars, shown, loaded, busy, slot, turn, server, switched>>

\* live: the object that the turn writes to, and not one made of the server's history.
Entry    == [kind : {"user", "agent"}, turn : Turns, live : BOOLEAN]
Entries(key) == {[e EXCEPT !.live = FALSE] : e \in history[key]}

Free     == [op |-> "none"]
NoTurn   == [at |-> "none"]
Turn     == [at : {"post", "streaming", "fallback", "waiting", "done"}, key : Keys, profile : Profiles,
             attempt : 0..(MaxAttempts - 1), heard : BOOLEAN, again : BOOLEAN, calm : BOOLEAN]

ChatTypeOK ==
  /\ profile \in Profiles /\ listed \in [Profiles -> SUBSET Convs] /\ fetched \subseteq Profiles
  /\ active \in [Profiles -> Convs \cup {NoOne}] /\ gone \subseteq Convs
  /\ DOMAIN shown = Keys /\ \A k \in Keys : shown[k] \subseteq Entry /\ history[k] \subseteq Entry
  /\ loaded \subseteq Keys /\ busy \subseteq Profiles
  /\ DOMAIN slot = Slots /\ \A s \in Slots : slot[s].op \in {"none", "list", "new", "new to send",
       "archive", "delete", "history"}
  /\ turn \in [Turns -> {NoTurn} \cup Turn]
  /\ owner \in [Convs -> Profiles \cup {NoOne}] /\ switched \in BOOLEAN

\* The page has been opened.
ChatInit ==
  /\ profile \in Profiles /\ listed = [p \in Profiles |-> {}] /\ fetched = {}
  /\ active = [p \in Profiles |-> NoOne] /\ gone = {}
  /\ shown = [k \in Keys |-> {}] /\ loaded = {} /\ busy = {}
  /\ slot = [s \in Slots |-> Free] /\ turn = [t \in Turns |-> NoTurn]
  /\ owner \in [Convs -> Profiles \cup {NoOne}]
  /\ history = [k \in Keys |-> {}] /\ switched = FALSE

-----------------------------------------------------------------------------

Running(p)  == {t \in Turns : turn[t].at \notin {"none", "done"} /\ turn[t].profile = p}
Pending(op) == {s \in Slots : slot[s].op \in op}
IsFree(s)   == slot[s] = Free /\ \A r \in Slots : slot[r] = Free => s <= r
Loading(k)  == \E s \in Pending({"history"}) : slot[s].key = k

\* loadConvHistory of the current profile's conversation c, in slot s.
LoadConvHistory(s, p, c, force) ==
  IF <<p, c>> \in loaded /\ ~force
  THEN slot' = [slot EXCEPT ![s] = Free]
  ELSE slot' = [slot EXCEPT ![s] = [op |-> "history", key |-> <<p, c>>, answer |-> NoOne]]

Loads(p, c, force) == IF <<p, c>> \in loaded /\ ~force THEN {} ELSE {<<p, c>>}

\* The server answers with its history, and the transcript is replaced.
HistoryServed(s) ==
  /\ slot[s].op = "history" /\ slot[s].answer = NoOne
  /\ slot' = [slot EXCEPT ![s].answer = Entries(slot[s].key)]
  /\ UNCHANGED <<uiVars, shown, loaded, busy, turn, server, switched>>

HistoryHandled(s) ==
  /\ slot[s].op = "history" /\ slot[s].answer # NoOne
  /\ shown' = [shown EXCEPT ![slot[s].key] = slot[s].answer]
  /\ slot' = [slot EXCEPT ![s] = Free]
  /\ UNCHANGED <<uiVars, loaded, busy, turn, server, switched>>

\* The transcript stays; a conversation that could not be made is not there.
RequestFails(s) ==
  /\ slot[s].op = "list" => slot[s].answer \in {NoOne, {}}
  /\ slot[s].op = "history" => slot[s].answer = NoOne
  /\ slot[s].op \in {"history", "list", "new"}
  /\ slot' = [slot EXCEPT ![s] = Free]
  /\ UNCHANGED <<uiVars, shown, loaded, busy, turn, server, switched>>

-----------------------------------------------------------------------------
(* Profiles and their lists.                                               *)

\* loadConversations of profile p, which does nothing the second time.
SelectProfile(s, p) ==
  /\ IsFree(s) /\ profile' = p
  /\ switched' = (switched \/ (p # profile /\
       Pending({"new", "new to send", "archive", "delete"}) # {}))
  /\ fetched' = fetched \cup {p}
  /\ IF p \in fetched THEN UNCHANGED slot
     ELSE slot' = [slot EXCEPT ![s] = [op |-> "list", profile |-> p, answer |-> NoOne]]
  /\ UNCHANGED <<listed, active, shown, loaded, busy, turn, server>>

ListServed(s) ==
  /\ slot[s].op = "list" /\ slot[s].answer = NoOne
  /\ slot' = [slot EXCEPT ![s].answer = {c \in Convs \ gone : owner[c] = slot[s].profile}]
  /\ UNCHANGED <<uiVars, shown, loaded, busy, turn, server, switched>>

(* Mutant: the list is taken for that of the profile selected meanwhile.   *)
ListHandledLate(s, convs, c) ==
  /\ listed' = [listed EXCEPT ![profile] = convs]
  /\ active' = [active EXCEPT ![profile] = c]
  /\ LoadConvHistory(s, profile, c, FALSE) /\ loaded' = loaded \cup Loads(profile, c, FALSE)

\* The list and, unless it holds it, the active conversation of the profile it was
\* fetched for; the transcript only if that profile is the current one.
ListTaken(s, convs, c) ==
  LET p == slot[s].profile
  IN  /\ listed' = [listed EXCEPT ![p] = convs]
      /\ active' = [active EXCEPT ![p] = c]
      /\ IF p = profile
         THEN LoadConvHistory(s, p, c, FALSE) /\ loaded' = loaded \cup Loads(p, c, FALSE)
         ELSE slot' = [slot EXCEPT ![s] = Free] /\ UNCHANGED loaded

ListHandled(s) ==
  /\ slot[s].op = "list" /\ slot[s].answer \notin {NoOne, {}}
  /\ \E c \in slot[s].answer :
       /\ active[slot[s].profile] \in slot[s].answer => c = active[slot[s].profile]
       /\ ListTaken(s, slot[s].answer, c)
  /\ UNCHANGED <<profile, fetched, shown, busy, turn, server, switched>>

\* An empty list: a conversation is made, and is the list.
ListEmpty(s) ==
  /\ slot[s].op = "list" /\ slot[s].answer = {}
  /\ \E c \in Convs :
       LET p == slot[s].profile
       IN  /\ owner[c] = NoOne /\ owner' = [owner EXCEPT ![c] = p]
           /\ listed' = [listed EXCEPT ![p] = {c}] /\ active' = [active EXCEPT ![p] = c]
           /\ shown' = [shown EXCEPT ![<<p, c>>] = {}] /\ loaded' = loaded \cup {<<p, c>>}
           /\ slot' = [slot EXCEPT ![s] = Free]
  /\ UNCHANGED <<profile, fetched, busy, turn, history, gone, switched>>

-----------------------------------------------------------------------------
(* Conversations.                                                          *)

\* selectConv, for the profile that is current when it is called.
Select(s, c, moved) ==
  /\ active' = [moved EXCEPT ![profile] = c]
  /\ LoadConvHistory(s, profile, c, FALSE)

SelectConv(s, c) ==
  /\ IsFree(s) /\ c \in listed[profile]
  /\ Select(s, c, active) /\ loaded' = loaded \cup Loads(profile, c, FALSE)
  /\ UNCHANGED <<profile, listed, fetched, shown, busy, turn, server, switched>>

Ask(s, request) ==
  /\ IsFree(s) /\ slot' = [slot EXCEPT ![s] = request]
  /\ UNCHANGED <<uiVars, shown, loaded, busy, turn, server, switched>>

NewConv(s) == Ask(s, [op |-> "new", profile |-> profile])

\* archiveConv and deleteConv of a conversation in the current profile's list, which is kept.
Dismiss(s) ==
  \E c \in listed[profile], op \in {"archive", "delete"} : Ask(s, [op |-> op, key |-> <<profile, c>>])

\* What newConv does with its answer.
Made(s, c) ==
  LET p == slot[s].profile
  IN  /\ owner[c] = NoOne
      /\ owner' = [owner EXCEPT ![c] = p]
      /\ listed' = [listed EXCEPT ![p] = @ \cup {c}]
      /\ Select(s, c, active)
      /\ loaded' = loaded \cup {<<p, c>>, <<profile, c>>}

NewConvMade(s) ==
  /\ slot[s].op = "new"
  /\ \E c \in Convs : Made(s, c) /\ shown' = [shown EXCEPT ![<<slot[s].profile, c>>] = {}]
  /\ UNCHANGED <<profile, fetched, busy, turn, history, gone, switched>>

\* The answer is ignored.  Another conversation that is not archived takes the place of the
\* archived one, which stays in the list; or there is none.
ConvArchived(s) ==
  /\ slot[s].op = "archive"
  /\ LET p == slot[s].key[1] c == slot[s].key[2]
     IN  \/ /\ active[p] # c /\ slot' = [slot EXCEPT ![s] = Free] /\ UNCHANGED <<active, loaded>>
         \/ /\ active[p] = c /\ active' = [active EXCEPT ![p] = NoOne]
            /\ slot' = [slot EXCEPT ![s] = Free] /\ UNCHANGED loaded
         \/ /\ active[p] = c
            /\ \E next \in listed[p] \ {c} :
                 Select(s, next, active) /\ loaded' = loaded \cup Loads(profile, next, FALSE)
  /\ UNCHANGED <<profile, listed, fetched, shown, busy, turn, server, switched>>

\* The answer is ignored: the server may have deleted it or not.
ConvDeleted(s) ==
  /\ slot[s].op = "delete"
  /\ LET k == slot[s].key p == k[1] c == k[2] left == listed[p] \ {c}
     IN  /\ listed' = [listed EXCEPT ![p] = left]
         /\ \/ gone' = gone \cup {c} /\ history' = [history EXCEPT ![k] = {}]
            \/ UNCHANGED <<gone, history>>
         /\ shown' = [shown EXCEPT ![k] = {}]
         /\ turn' = [t \in Turns |-> IF turn[t] # NoTurn /\ turn[t].key = k
                                     THEN [turn[t] EXCEPT !.calm = FALSE] ELSE turn[t]]
         /\ IF left = {}
            THEN /\ active' = [active EXCEPT ![p] = NoOne] /\ loaded' = loaded \ {k}
                 /\ slot' = [slot EXCEPT ![s] = [op |-> "list", profile |-> p, answer |-> NoOne]]
            ELSE \E next \in left :
                   /\ Select(s, next, [active EXCEPT ![p] = NoOne])
                   /\ loaded' = (loaded \ {k}) \cup {<<profile, next>>}
  /\ UNCHANGED <<profile, fetched, busy, owner, switched>>

-----------------------------------------------------------------------------
(* Sending.                                                                *)

NextTurn == Cardinality({t \in Turns : turn[t] # NoTurn}) + 1

(* A turn begins calm if the transcript it writes to is its profile's and  *)
(* the one the server has sent, no load of it is on its way, and no other  *)
(* turn of the profile runs.                                               *)
Begun(p, k) ==
  [at |-> "post", key |-> k, profile |-> p, attempt |-> 0, heard |-> FALSE, again |-> FALSE,
   calm |-> k[1] = p /\ k \in loaded /\ ~Loading(k) /\ Running(p) = {}]

\* executeTurn of profile p in transcript k, after pushMsg of the user's message if there is one.
Execute(p, k, kept, kinds) ==
  /\ NextTurn \in Turns
  /\ shown' = [shown EXCEPT ![k] =
       kept \cup {[kind |-> kind, turn |-> NextTurn, live |-> TRUE] : kind \in kinds}]
  /\ busy' = busy \cup {p}
  /\ turn' = [t \in Turns |->
       IF t = NextTurn THEN Begun(p, k)
       ELSE IF t \in Running(p) THEN [turn[t] EXCEPT !.calm = FALSE] ELSE turn[t]]

Send ==
  /\ profile \notin busy /\ active[profile] # NoOne
  /\ LET k == <<profile, active[profile]>> IN Execute(profile, k, shown[k], {"user", "agent"})
  /\ UNCHANGED <<uiVars, loaded, slot, server, switched>>

\* Without a conversation one is made first, and nothing is busy meanwhile.
SendToNew(s) ==
  /\ profile \notin busy /\ active[profile] = NoOne
  /\ Ask(s, [op |-> "new to send", profile |-> profile])

\* sendChat goes on with the profile that it has kept and the conversation that is current.
NewToSendMade(s) ==
  /\ slot[s].op = "new to send"
  /\ \E c \in Convs : Made(s, c) /\ Execute(slot[s].profile, <<profile, c>>, {}, {"user", "agent"})
  /\ UNCHANGED <<profile, fetched, history, gone, switched>>

NewToSendFails(s) ==
  /\ slot[s].op = "new to send" /\ slot' = [slot EXCEPT ![s] = Free]
  /\ IF active[profile] = NoOne THEN UNCHANGED <<shown, busy, turn>>
     ELSE LET k == <<profile, active[profile]>>
          IN  Execute(slot[s].profile, k, shown[k], {"user", "agent"})
  /\ UNCHANGED <<uiVars, loaded, server, switched>>

\* /retry: the answers after the last message of the user give way to a new one.
Retry ==
  /\ profile \notin busy /\ active[profile] # NoOne
  /\ LET k == <<profile, active[profile]>>
         said == {e.turn : e \in {f \in shown[k] : f.kind = "user"}}
     IN  /\ said # {}
         /\ Execute(profile, k, {e \in shown[k] : e.kind = "user" \/ e.turn < Max(said)}, {"agent"})
  /\ UNCHANGED <<uiVars, loaded, slot, server, switched>>

-----------------------------------------------------------------------------
(* A turn: streamTurn, fallbackChat and the attempts of executeTurn.       *)

At(t, place) == turn[t].at = place

\* The server and the agent take the message.
Taken(t) == [turn[t] EXCEPT !.again = turn[t].heard]

Recorded(t, kinds) ==
  history' = [history EXCEPT ![<<turn[t].profile, turn[t].key[2]>>] =
    @ \cup {[kind |-> kind, turn |-> t, live |-> FALSE] : kind \in kinds}]

Goes(t, place, record) == turn' = [turn EXCEPT ![t] = [record EXCEPT !.at = place]]
KeepsOn == UNCHANGED <<uiVars, shown, loaded, busy, slot, owner, gone, switched>>

\* The finally of executeTurn.
Ends(t, record) ==
  /\ Goes(t, "done", record) /\ busy' = busy \ {turn[t].profile}
  /\ UNCHANGED <<uiVars, shown, loaded, slot, owner, gone, switched>>

\* "busy": the attempt is repeated after a while, or given up.
Busy(t) ==
  IF turn[t].attempt + 1 < MaxAttempts THEN Goes(t, "waiting", turn[t]) /\ KeepsOn
  ELSE Ends(t, turn[t])

TryAgain(t) ==
  /\ At(t, "waiting") /\ Goes(t, "post", [turn[t] EXCEPT !.attempt = @ + 1])
  /\ KeepsOn /\ UNCHANGED history

\* No response, or a stream that ends before any event: the agent may have the message.
StreamLost(t) ==
  /\ At(t, "post") /\ (Goes(t, "fallback", turn[t]) \/ Goes(t, "fallback", Taken(t)))
  /\ KeepsOn /\ UNCHANGED history

StreamBusy(t) == At(t, "post") /\ Busy(t) /\ UNCHANGED history

StreamOpens(t) ==
  /\ At(t, "post") /\ Goes(t, "streaming", Taken(t))
  /\ Recorded(t, {"user"}) /\ KeepsOn

StreamChunk(t) ==
  /\ At(t, "streaming") /\ ~turn[t].heard /\ Goes(t, "streaming", [turn[t] EXCEPT !.heard = TRUE])
  /\ KeepsOn /\ UNCHANGED history

\* done, or an error that is kept with the conversation.
StreamDone(t) == At(t, "streaming") /\ Ends(t, turn[t]) /\ Recorded(t, {"agent"})

(* Mutant: an error that speaks of a busy agent is always a busy agent.    *)
StreamErrorBusyAnyway(t) ==
  /\ At(t, "streaming") /\ Busy(t) /\ UNCHANGED history

\* An error that speaks of a busy agent: nothing is kept, and if no text has come
\* it is a busy agent.
StreamErrorBusy(t) ==
  /\ At(t, "streaming") /\ UNCHANGED history
  /\ IF turn[t].heard THEN Ends(t, turn[t]) ELSE Busy(t)

\* The connection breaks: the text there was is kept.
StreamBreaks(t) ==
  /\ At(t, "streaming") /\ Ends(t, turn[t])
  /\ IF turn[t].heard THEN Recorded(t, {"agent"}) ELSE UNCHANGED history

\* One answer, an error or none; the message is kept unless it never arrived.
Fallback(t) ==
  /\ At(t, "fallback")
  /\ \/ Ends(t, Taken(t)) /\ Recorded(t, {"user", "agent"})
     \/ Ends(t, turn[t]) /\ (Recorded(t, {"user"}) \/ UNCHANGED history)
     \/ Busy(t) /\ UNCHANGED history

TurnStep(t) ==
  \/ TryAgain(t) \/ StreamLost(t) \/ StreamBusy(t) \/ StreamOpens(t) \/ StreamChunk(t)
  \/ StreamDone(t) \/ StreamErrorBusy(t) \/ StreamBreaks(t) \/ Fallback(t)

(* Mutant: the poll does not ask whether a turn runs.                      *)
PollAnyway(s) ==
  /\ IsFree(s) /\ active[profile] # NoOne
  /\ LoadConvHistory(s, profile, active[profile], TRUE)
  /\ loaded' = loaded \cup {<<profile, active[profile]>>}
  /\ UNCHANGED <<uiVars, shown, busy, turn, server, switched>>

(* Mutant: the poll loads what has not been loaded.                        *)
PollOnce(s) ==
  /\ IsFree(s) /\ active[profile] # NoOne /\ profile \notin busy
  /\ <<profile, active[profile]>> \notin loaded
  /\ LoadConvHistory(s, profile, active[profile], FALSE)
  /\ loaded' = loaded \cup {<<profile, active[profile]>>}
  /\ UNCHANGED <<uiVars, shown, busy, turn, server, switched>>

\* loadOperations, every 15 seconds: the open transcript, unless the profile is busy.
Poll(s) ==
  /\ IsFree(s) /\ active[profile] # NoOne /\ profile \notin busy
  /\ LoadConvHistory(s, profile, active[profile], TRUE)
  /\ loaded' = loaded \cup {<<profile, active[profile]>>}
  /\ UNCHANGED <<uiVars, shown, busy, turn, server, switched>>

Answered(s) ==
  \/ HistoryServed(s) \/ HistoryHandled(s) \/ ListServed(s) \/ ListHandled(s) \/ ListEmpty(s)
  \/ NewConvMade(s) \/ NewToSendMade(s) \/ NewToSendFails(s)
  \/ ConvArchived(s) \/ ConvDeleted(s)

UserStep(s) ==
  \/ \E c \in Convs : SelectConv(s, c)
  \/ \E p \in Profiles : SelectProfile(s, p)
  \/ NewConv(s) \/ Dismiss(s) \/ SendToNew(s)

ChatNext ==
  \/ Send \/ Retry
  \/ \E s \in Slots : UserStep(s) \/ Poll(s) \/ Answered(s) \/ RequestFails(s)
  \/ \E t \in Turns : TurnStep(t)

(* Requests are answered, if they are repeated; polls go on.               *)
ChatFairness ==
  /\ SF_chatVars(\E s \in Slots : Poll(s)) /\ \A s \in Slots : SF_chatVars(Answered(s))
  /\ \A t \in Turns : WF_chatVars(TurnStep(t))

ChatSpec == ChatInit /\ [][ChatNext]_chatVars /\ ChatFairness

-----------------------------------------------------------------------------

(* A message whose answer has begun to show is not given to the agent once *)
(* more, whatever errors, breaks and retries follow: only an attempt that  *)
(* was not heard of is repeated.                                           *)
NeverReasked == \A t \in Turns : turn[t] # NoTurn => ~turn[t].again

(* The answer of a turn that runs is in its transcript, and not in an      *)
(* object that a load has put aside: polls, lists, other conversations and *)
(* other profiles that the user looks at included.  (A turn that begins    *)
(* while the transcript is being loaded, or before it was, or together     *)
(* with another of its profile, or whose conversation is deleted, may      *)
(* write to an object that is not shown.)                                  *)
RunningIsVisible ==
  \A t \in Turns : turn[t] # NoTurn /\ turn[t].at # "done" /\ turn[t].calm =>
    [kind |-> "agent", turn |-> t, live |-> TRUE] \in shown[turn[t].key]

(* A profile's conversation, and the one that a message is sent with, is   *)
(* one that the server has made for this profile, whatever answers come    *)
(* after another profile was selected: unless that was done while a        *)
(* conversation was being made, archived or deleted, whose answers are     *)
(* followed by a selection for the profile that is current by then.        *)
OwnConversations ==
  ~switched =>
    /\ \A p \in Profiles : active[p] # NoOne => owner[active[p]] = p
    /\ \A t \in Turns : turn[t] # NoTurn => turn[t].key[1] = turn[t].profile

(* An answer that the server has recorded comes to be shown in the open    *)
(* conversation, even if a load that was sent earlier arrives after it.    *)
AnswerOf(t, entries) == \E e \in entries : e.kind = "agent" /\ e.turn = t
Open == <<profile, active[profile]>>

ReplyIsShown ==
  \A t \in Turns :
    LET kept == active[profile] # NoOne /\ AnswerOf(t, history[Open])
    IN  kept ~> (~kept \/ AnswerOf(t, shown[Open]))
=============================================================================
