--------------------------- MODULE ChatClientProofs ---------------------------
(***************************************************************************)
(* The chat's page keeps its promises for any number of profiles,          *)
(* conversations, requests, turns and attempts.                            *)
(*                                                                         *)
(* None of the three properties is inductive.  That a message is not asked *)
(* twice needs what an attempt that may be repeated has heard: nothing.    *)
(* That a conversation is its profile's needs whose conversations the      *)
(* lists and the lists on their way hold, and what a request to make, to   *)
(* archive or to delete one is about.  That a running answer is visible    *)
(* needs the whole of what keeps a load of its transcript away (Alone):    *)
(* the profile is busy, so neither a poll nor /retry comes; the transcript *)
(* was loaded, so no selection loads it; and none was on its way when the  *)
(* turn began.                                                             *)
(***************************************************************************)
EXTENDS ChatClient, TLAPS

ListRequest    == [op : {"list"}, profile : Profiles, answer : {NoOne} \cup SUBSET Convs]
HistoryRequest == [op : {"history"}, key : Keys, answer : {NoOne} \cup SUBSET Entry]
Request ==
  {Free} \cup ListRequest \cup HistoryRequest \cup [op : {"archive", "delete"}, key : Keys]
         \cup [op : {"new", "new to send"}, profile : Profiles]

PageTypes ==
  /\ profile \in Profiles /\ listed \in [Profiles -> SUBSET Convs] /\ fetched \subseteq Profiles
  /\ active \in [Profiles -> Convs \cup {NoOne}] /\ gone \subseteq Convs
  /\ shown \in [Keys -> SUBSET Entry] /\ history \in [Keys -> SUBSET Entry]
  /\ loaded \subseteq Keys /\ busy \subseteq Profiles /\ slot \in [Slots -> Request]
  /\ turn \in [Turns -> {NoTurn} \cup Turn]
  /\ owner \in [Convs -> Profiles \cup {NoOne}] /\ switched \in BOOLEAN

(* Until something of an answer has come, an attempt may be repeated.      *)
TurnsAreFresh ==
  \A t \in Turns : turn[t] # NoTurn =>
    /\ ~turn[t].again
    /\ turn[t].at \in {"post", "fallback", "waiting"} => ~turn[t].heard
    /\ turn[t].at = "waiting" => turn[t].attempt + 1 < MaxAttempts

(* What the page knows of, the server has made; what it lists for a        *)
(* profile, it has made for this profile.                                  *)
ListsAreOwned ==
  /\ \A p \in Profiles : \A c \in listed[p] : owner[c] = p
  /\ \A p \in Profiles : active[p] # NoOne => owner[active[p]] # NoOne
  /\ \A k \in loaded : owner[k[2]] # NoOne
  /\ \A s \in Slots : slot[s].op = "list" /\ slot[s].answer # NoOne =>
       \A c \in slot[s].answer : owner[c] = slot[s].profile

(* Without a change of the profile, requests to make, to archive or to     *)
(* delete a conversation are about the current one.                        *)
RequestsAreOwn ==
  ~switched =>
    \A s \in Slots : /\ slot[s].op \in {"new", "new to send"} => slot[s].profile = profile
                     /\ slot[s].op \in {"archive", "delete"} => slot[s].key[1] = profile

Runs(t) == turn[t] # NoTurn /\ turn[t].at # "done"

(* A calm turn has its profile and its transcript to itself: the profile   *)
(* is busy, and no load of the transcript is on its way or can set out.    *)
Alone(t) ==
  /\ turn[t].key[1] = turn[t].profile /\ turn[t].profile \in busy
  /\ turn[t].key \in loaded /\ ~Loading(turn[t].key)
  /\ \A u \in Turns : Runs(u) /\ turn[u].profile = turn[t].profile => u = t
  /\ [kind |-> "agent", turn |-> t, live |-> TRUE] \in shown[turn[t].key]

CalmIsAlone == \A t \in Turns : Runs(t) /\ turn[t].calm => Alone(t)

ChatInv ==
  /\ PageTypes /\ TurnsAreFresh /\ ListsAreOwned /\ RequestsAreOwn /\ OwnConversations
  /\ CalmIsAlone

-----------------------------------------------------------------------------
(* Requests and turns as records.                                          *)

LEMMA RequestKinds ==
  ASSUME PageTypes, NEW s \in Slots
  PROVE  /\ slot[s].op = "list" => /\ slot[s].profile \in Profiles
                                   /\ slot[s].answer \in {NoOne} \cup SUBSET Convs
                                   /\ slot[s] \in ListRequest
         /\ slot[s].op \in {"new", "new to send"} => slot[s].profile \in Profiles
         /\ slot[s].op \in {"archive", "delete"} => slot[s].key \in Keys
         /\ slot[s].op = "history" => /\ slot[s].key \in Keys
                                      /\ slot[s].answer \in {NoOne} \cup SUBSET Entry
                                      /\ slot[s] \in HistoryRequest
<1>1. slot[s] \in Request
  BY DEF PageTypes
<1>2. CASE slot[s] = Free
  BY <1>2 DEF Free
<1>3. CASE slot[s] \in ListRequest
  BY <1>3 DEF ListRequest
<1>4. CASE slot[s] \in [op : {"new", "new to send"}, profile : Profiles]
  BY <1>4
<1>5. CASE slot[s] \in [op : {"archive", "delete"}, key : Keys]
  BY <1>5
<1>6. CASE slot[s] \in HistoryRequest
  BY <1>6 DEF HistoryRequest
<1> QED BY <1>1, <1>2, <1>3, <1>4, <1>5, <1>6 DEF Request

LEMMA RequestMade ==
  ASSUME NEW p \in Profiles, NEW k \in Keys
  PROVE  /\ Free \in Request /\ Free.op = "none"
         /\ [op |-> "list", profile |-> p, answer |-> NoOne] \in Request
         /\ [op |-> "new", profile |-> p] \in Request
         /\ [op |-> "new to send", profile |-> p] \in Request
         /\ [op |-> "delete", key |-> k] \in Request
         /\ [op |-> "history", key |-> k, answer |-> NoOne] \in Request
         /\ \A a \in SUBSET Entry : [op |-> "history", key |-> k, answer |-> a] \in Request
         /\ \A a \in SUBSET Convs : [op |-> "list", profile |-> p, answer |-> a] \in Request
  BY DEF Request, ListRequest, HistoryRequest, Free

LEMMA SlotSet ==
  ASSUME PageTypes, NEW s \in Slots, NEW r \in Request, slot' = [slot EXCEPT ![s] = r]
  PROVE  /\ slot' \in [Slots -> Request] /\ slot'[s] = r
         /\ \A u \in Slots : u # s => slot'[u] = slot[u]
  BY DEF PageTypes

LEMMA LoadIfNew ==
  ASSUME NEW s \in Slots, NEW p \in Profiles, NEW c \in Convs,
         LoadConvHistory(s, p, c, FALSE)
  PROVE  \E r \in Request :
           /\ slot' = [slot EXCEPT ![s] = r] /\ r.op \in {"none", "history"}
           /\ r.op = "history" => r.key = <<p, c>> /\ <<p, c>> \notin loaded
<1> DEFINE r == [op |-> "history", key |-> <<p, c>>, answer |-> NoOne]
<1>1. <<p, c>> \in Keys
  BY DEF Keys
<1>2. /\ Free \in Request /\ Free.op = "none"
      /\ r \in Request /\ r.op = "history" /\ r.key = <<p, c>>
  BY <1>1, RequestMade
<1>3. \/ slot' = [slot EXCEPT ![s] = Free]
      \/ slot' = [slot EXCEPT ![s] = r] /\ <<p, c>> \notin loaded
  BY DEF LoadConvHistory
<1> HIDE DEF r
<1> QED BY <1>2, <1>3

LEMMA LoadAgain ==
  ASSUME NEW s \in Slots, NEW p \in Profiles, NEW c \in Convs,
         LoadConvHistory(s, p, c, TRUE)
  PROVE  \E r \in Request :
           /\ slot' = [slot EXCEPT ![s] = r] /\ r.op \in {"none", "history"}
           /\ r.op = "history" => r.key = <<p, c>>
<1> DEFINE r == [op |-> "history", key |-> <<p, c>>, answer |-> NoOne]
<1>1. <<p, c>> \in Keys
  BY DEF Keys
<1>2. /\ Free \in Request /\ Free.op = "none"
      /\ r \in Request /\ r.op = "history" /\ r.key = <<p, c>>
  BY <1>1, RequestMade
<1>3. \/ slot' = [slot EXCEPT ![s] = Free]
      \/ slot' = [slot EXCEPT ![s] = r]
  BY DEF LoadConvHistory
<1> HIDE DEF r
<1> QED BY <1>2, <1>3

LEMMA TurnFields ==
  ASSUME PageTypes, NEW t \in Turns
  PROVE  /\ turn[t] = NoTurn <=> turn[t].at = "none"
         /\ turn[t] # NoTurn => turn[t] \in Turn
  BY DEF PageTypes, NoTurn, Turn

-----------------------------------------------------------------------------
(* Requests that are made, fail, or are answered by the server.            *)

(* A step that changes a request, and no transcript, turn or list.         *)
LEMMA RequestStep ==
  ASSUME ChatInv, NEW s \in Slots, NEW r \in Request, slot' = [slot EXCEPT ![s] = r],
         UNCHANGED <<listed, active, shown, loaded, busy, turn, server>>,
         profile' \in Profiles, fetched' \subseteq Profiles, switched' \in BOOLEAN,
         switched => switched',
         r.op = "list" /\ r.answer # NoOne => \A c \in r.answer : owner[c] = r.profile,
         ~switched' => \A u \in Slots :
           /\ slot'[u].op \in {"new", "new to send"} => slot'[u].profile = profile'
           /\ slot'[u].op \in {"archive", "delete"} => slot'[u].key[1] = profile',
         r.op = "history" => slot[s].op = "history" /\ slot[s].key = r.key
  PROVE  ChatInv'
<1>1. /\ slot' \in [Slots -> Request] /\ slot'[s] = r
      /\ \A u \in Slots : u # s => slot'[u] = slot[u]
  BY SlotSet DEF ChatInv
<1>2. PageTypes'
  BY <1>1 DEF ChatInv, PageTypes, server
<1>3. TurnsAreFresh' /\ OwnConversations'
  BY DEF ChatInv, TurnsAreFresh, OwnConversations, server
<1>4. ListsAreOwned'
  BY <1>1 DEF ChatInv, ListsAreOwned, server
<1>5. RequestsAreOwn'
  BY DEF RequestsAreOwn
<1>6. \A k : Loading(k)' => Loading(k)
  BY <1>1 DEF Loading, Pending
<1>7. CalmIsAlone'
  BY <1>6 DEF ChatInv, CalmIsAlone, Alone, Runs
<1> QED BY <1>2, <1>3, <1>4, <1>5, <1>7 DEF ChatInv

LEMMA AskKeepsInv ==
  ASSUME ChatInv, NEW s \in Slots, NewConv(s) \/ Dismiss(s) \/ SendToNew(s)
  PROVE  ChatInv'
<1>0. PageTypes /\ profile \in Profiles /\ listed[profile] \subseteq Convs
  BY DEF ChatInv, PageTypes
<1>1. PICK r \in Request :
        /\ slot' = [slot EXCEPT ![s] = r]
        /\ \/ r = [op |-> "new", profile |-> profile] \/ r = [op |-> "new to send", profile |-> profile]
           \/ \E c \in listed[profile], op \in {"archive", "delete"} :
                r = [op |-> op, key |-> <<profile, c>>]
  <2>1. CASE NewConv(s) \/ SendToNew(s)
    BY <1>0, <2>1 DEF NewConv, SendToNew, Ask, Request
  <2>2. CASE Dismiss(s)
    <3>1. PICK c \in listed[profile], op \in {"archive", "delete"} :
            Ask(s, [op |-> op, key |-> <<profile, c>>])
      BY <2>2 DEF Dismiss
    <3>2. [op |-> op, key |-> <<profile, c>>] \in Request
      BY <1>0 DEF Request, ListRequest, HistoryRequest, Keys
    <3> QED BY <3>1, <3>2 DEF Ask
  <2> QED BY <2>1, <2>2
<1>2. UNCHANGED <<uiVars, shown, loaded, busy, turn, server, switched>>
  BY DEF NewConv, Dismiss, SendToNew, Ask
<1>3. /\ slot'[s] = r /\ \A u \in Slots : u # s => slot'[u] = slot[u]
      /\ r.op \in {"new", "new to send", "archive", "delete"}
      /\ r.op \in {"new", "new to send"} => r.profile = profile
      /\ r.op \in {"archive", "delete"} => r.key[1] = profile
  <2>1. slot'[s] = r /\ \A u \in Slots : u # s => slot'[u] = slot[u]
    BY <1>0, <1>1, SlotSet
  <2>2. ASSUME NEW o, r = [op |-> o, profile |-> profile] PROVE r.op = o /\ r.profile = profile
    BY <2>2
  <2>3. ASSUME NEW c, NEW op, r = [op |-> op, key |-> <<profile, c>>]
        PROVE  r.op = op /\ r.key[1] = profile
    BY <2>3
  <2>4. \/ r.op \in {"new", "new to send"} /\ r.profile = profile
        \/ r.op \in {"archive", "delete"} /\ r.key[1] = profile
    BY <1>1, <2>2, <2>3
  <2> QED BY <2>1, <2>4
<1> QED BY <1>0, <1>1, <1>2, <1>3, RequestStep DEF ChatInv, RequestsAreOwn, PageTypes, uiVars

LEMMA FailKeepsInv ==
  ASSUME ChatInv, NEW s \in Slots, RequestFails(s) PROVE ChatInv'
<1>1. /\ slot' = [slot EXCEPT ![s] = Free]
      /\ UNCHANGED <<uiVars, shown, loaded, busy, turn, server, switched>>
  BY DEF RequestFails
<1>2. Free \in Request /\ Free.op = "none"
  BY DEF Request, ListRequest, HistoryRequest, Free
<1>3. slot'[s] = Free /\ \A u \in Slots : u # s => slot'[u] = slot[u]
  BY <1>1, <1>2, SlotSet DEF ChatInv
<1> QED BY <1>1, <1>2, <1>3, RequestStep DEF ChatInv, RequestsAreOwn, PageTypes, uiVars

LEMMA ProfileKeepsInv ==
  ASSUME ChatInv, NEW s \in Slots, NEW p \in Profiles, SelectProfile(s, p) PROVE ChatInv'
<1> DEFINE r == IF p \in fetched THEN slot[s] ELSE [op |-> "list", profile |-> p, answer |-> NoOne]
<1>0. PageTypes /\ slot[s] = Free /\ Free.op = "none" /\ Free \in Request
  BY DEF ChatInv, SelectProfile, IsFree, Free, Request
<1>1. /\ profile' = p /\ fetched' = fetched \cup {p}
      /\ switched' = (switched \/ (p # profile /\ Pending({"new", "new to send", "archive", "delete"}) # {}))
      /\ UNCHANGED <<listed, active, shown, loaded, busy, turn, server>>
  BY DEF SelectProfile
<1>2. slot' = [slot EXCEPT ![s] = r]
  BY <1>0 DEF SelectProfile, PageTypes
<1>3. r \in Request /\ r.op \in {"none", "list"} /\ (r.op = "list" => r.answer = NoOne)
  BY <1>0 DEF Request, ListRequest, HistoryRequest
<1>4. slot'[s] = r /\ \A u \in Slots : u # s => slot'[u] = slot[u]
  BY <1>0, <1>2, <1>3, SlotSet
<1>5. ~switched' => \A u \in Slots :
           /\ slot'[u].op \in {"new", "new to send"} => slot'[u].profile = profile'
           /\ slot'[u].op \in {"archive", "delete"} => slot'[u].key[1] = profile'
  BY <1>1, <1>3, <1>4 DEF ChatInv, RequestsAreOwn, Pending
<1>6. switched' \in BOOLEAN /\ fetched' \subseteq Profiles /\ (switched => switched')
  BY <1>0, <1>1 DEF PageTypes
<1> HIDE DEF r
<1> QED BY <1>1, <1>2, <1>3, <1>5, <1>6, RequestStep

LEMMA ServedKeepsInv ==
  ASSUME ChatInv, NEW s \in Slots, ListServed(s) \/ HistoryServed(s) PROVE ChatInv'
<1>0. PageTypes /\ UNCHANGED <<uiVars, shown, loaded, busy, turn, server, switched>>
  BY DEF ChatInv, ListServed, HistoryServed
<1>1. CASE ListServed(s)
  <2> DEFINE a == {c \in Convs \ gone : owner[c] = slot[s].profile}
             r == [op |-> "list", profile |-> slot[s].profile, answer |-> a]
  <2>1. slot[s].op = "list" /\ slot[s].profile \in Profiles
        /\ slot[s] \in ListRequest
    BY <1>0, <1>1, RequestKinds DEF ListServed
  <2>2. slot' = [slot EXCEPT ![s].answer = a]
    BY <1>1 DEF ListServed
  <2>3. slot' = [slot EXCEPT ![s] = r]
    <3>1. [slot[s] EXCEPT !.answer = a] = r
      BY <2>1 DEF ListRequest
    <3>2. slot' = [slot EXCEPT ![s] = [slot[s] EXCEPT !.answer = a]]
      BY <2>2
    <3> QED BY <3>1, <3>2
  <2>4. r \in Request /\ r.op = "list" /\ \A c \in r.answer : owner[c] = r.profile
    BY <2>1 DEF Request, ListRequest, HistoryRequest
  <2>5. slot'[s] = r /\ \A u \in Slots : u # s => slot'[u] = slot[u]
    BY <1>0, <2>3, <2>4, SlotSet
  <2> HIDE DEF r
  <2> QED BY <1>0, <2>3, <2>4, <2>5, RequestStep DEF ChatInv, RequestsAreOwn, PageTypes, uiVars
<1>2. CASE HistoryServed(s)
  <2> DEFINE a == Entries(slot[s].key)
             r == [op |-> "history", key |-> slot[s].key, answer |-> a]
  <2>1. slot[s].op = "history" /\ slot[s].key \in Keys
        /\ slot[s] \in HistoryRequest
    BY <1>0, <1>2, RequestKinds DEF HistoryServed
  <2>2. slot' = [slot EXCEPT ![s].answer = a]
    BY <1>2 DEF HistoryServed
  <2>3. slot' = [slot EXCEPT ![s] = r]
    <3>1. [slot[s] EXCEPT !.answer = a] = r
      BY <2>1 DEF HistoryRequest
    <3>2. slot' = [slot EXCEPT ![s] = [slot[s] EXCEPT !.answer = a]]
      BY <2>2
    <3> QED BY <3>1, <3>2
  <2>4. a \in SUBSET Entry
    <3>1. \A e \in Entry : [e EXCEPT !.live = FALSE] \in Entry
      BY DEF Entry
    <3>2. history[slot[s].key] \subseteq Entry
      BY <1>0, <2>1 DEF PageTypes
    <3> QED BY <3>1, <3>2 DEF Entries
  <2>5. r \in Request /\ r.op = "history" /\ r.key = slot[s].key
    BY <2>1, <2>4 DEF Request, ListRequest, HistoryRequest
  <2>6. slot'[s] = r /\ \A u \in Slots : u # s => slot'[u] = slot[u]
    BY <1>0, <2>3, <2>5, SlotSet
  <2> HIDE DEF r
  <2> QED BY <1>0, <2>1, <2>3, <2>5, <2>6, RequestStep DEF ChatInv, RequestsAreOwn, PageTypes, uiVars
<1> QED BY <1>1, <1>2

-----------------------------------------------------------------------------
(* Answers that the page handles, and conversations that are selected.     *)

SameTurns ==
  \A t \in Turns :
    /\ Runs(t)' <=> Runs(t)
    /\ turn[t] = NoTurn <=> turn'[t] = NoTurn
    /\ turn'[t].at = turn[t].at
    /\ turn[t] # NoTurn =>
         /\ turn'[t].key = turn[t].key /\ turn'[t].profile = turn[t].profile
         /\ turn'[t].heard = turn[t].heard /\ turn'[t].again = turn[t].again
         /\ turn'[t].attempt = turn[t].attempt
         /\ turn'[t].calm => turn[t].calm

LEMMA TurnsUnchanged == ASSUME turn' = turn PROVE SameTurns
  BY DEF SameTurns, Runs

LEMMA FreshKept ==
  ASSUME ChatInv, SameTurns PROVE TurnsAreFresh'
  BY DEF ChatInv, TurnsAreFresh, SameTurns

(* The turns that run keep their transcripts to themselves, if what is     *)
(* loaded next is not one of theirs.                                       *)
LEMMA CalmKept ==
  ASSUME ChatInv, SameTurns, busy' = busy, NEW s \in Slots, NEW r \in Request,
         slot' = [slot EXCEPT ![s] = r],
         \A t \in Turns : Runs(t) /\ turn[t].calm /\ turn'[t].calm =>
           /\ turn[t].key \in loaded' /\ shown'[turn[t].key] = shown[turn[t].key]
           /\ r.op = "history" => r.key # turn[t].key
  PROVE  CalmIsAlone'
<1>0. PageTypes /\ CalmIsAlone
  BY DEF ChatInv
<1>1. slot'[s] = r /\ \A u \in Slots : u # s => slot'[u] = slot[u]
  BY <1>0, SlotSet
<1> SUFFICES ASSUME NEW t \in Turns, Runs(t)', turn'[t].calm PROVE Alone(t)'
  BY DEF CalmIsAlone
<1>2. /\ Runs(t) /\ turn[t].calm /\ turn'[t].key = turn[t].key
      /\ turn'[t].profile = turn[t].profile
  BY DEF SameTurns, Runs
<1>3. Alone(t)
  BY <1>0, <1>2 DEF CalmIsAlone
<1>4. ~Loading(turn[t].key)'
  <2>1. ~Loading(turn[t].key) /\ (r.op = "history" => r.key # turn[t].key)
    BY <1>2, <1>3 DEF Alone
  <2> QED BY <1>1, <1>2, <2>1 DEF Loading, Pending
<1>5. \A u \in Turns : Runs(u)' => Runs(u) /\ turn'[u].profile = turn[u].profile
  BY DEF SameTurns, Runs
<1> QED BY <1>2, <1>3, <1>4, <1>5 DEF Alone

(* A request is over, or its slot now loads a transcript.                  *)
LEMMA OwnRequestsKept ==
  ASSUME ChatInv, NEW s \in Slots, NEW r \in Request, slot' = [slot EXCEPT ![s] = r],
         r.op \in {"none", "history", "list"}, UNCHANGED <<profile, switched>>
  PROVE  RequestsAreOwn'
<1>1. slot'[s] = r /\ \A u \in Slots : u # s => slot'[u] = slot[u]
  BY SlotSet DEF ChatInv
<1> QED BY <1>1 DEF ChatInv, RequestsAreOwn

(* Owners stay, and so does what the lists say of them.                    *)
LEMMA ListsKept ==
  ASSUME ChatInv, NEW s \in Slots, NEW r \in Request, slot' = [slot EXCEPT ![s] = r],
         r.op \in {"none", "history", "list"}, r.op = "list" => r.answer = NoOne,
         \A c \in Convs : owner[c] # NoOne => owner'[c] = owner[c],
         \A p \in Profiles : \A c \in listed'[p] : c \in listed[p] \/ owner'[c] = p,
         \A p \in Profiles : active'[p] # NoOne =>
           active'[p] = active[p] \/ owner'[active'[p]] # NoOne,
         \A k \in loaded' : k \in loaded \/ owner'[k[2]] # NoOne
  PROVE  ListsAreOwned'
<1>0. PageTypes /\ ListsAreOwned
  BY DEF ChatInv
<1>1. slot'[s] = r /\ \A u \in Slots : u # s => slot'[u] = slot[u]
  BY <1>0, SlotSet
<1>2. \A p \in Profiles : p # NoOne
  BY ChatAssumption
<1>3. \A p \in Profiles : \A c \in listed'[p] : owner'[c] = p
  BY <1>0, <1>2 DEF ListsAreOwned, PageTypes
<1>4. \A p \in Profiles : active'[p] # NoOne => owner'[active'[p]] # NoOne
  BY <1>0 DEF ListsAreOwned, PageTypes
<1>5. \A k \in loaded' : owner'[k[2]] # NoOne
  BY <1>0 DEF ListsAreOwned, PageTypes, Keys
<1>6. ASSUME NEW u \in Slots, slot'[u].op = "list", slot'[u].answer # NoOne,
             NEW c \in slot'[u].answer
      PROVE  owner'[c] = slot'[u].profile
  <2>1. u # s /\ slot'[u] = slot[u]
    BY <1>1, <1>6
  <2>2. slot[u].profile \in Profiles /\ slot[u].answer \subseteq Convs
    BY <1>0, <1>6, <2>1, RequestKinds
  <2>3. owner[c] = slot[u].profile /\ c \in Convs
    BY <1>0, <1>6, <2>1, <2>2 DEF ListsAreOwned
  <2> QED BY <1>2, <2>1, <2>2, <2>3
<1> QED BY <1>3, <1>4, <1>5, <1>6 DEF ListsAreOwned

LEMMA HistoryKeepsInv ==
  ASSUME ChatInv, NEW s \in Slots, HistoryHandled(s) PROVE ChatInv'
<1>1. /\ PageTypes /\ slot[s].op = "history" /\ slot[s].answer # NoOne
      /\ shown' = [shown EXCEPT ![slot[s].key] = slot[s].answer]
      /\ slot' = [slot EXCEPT ![s] = Free]
      /\ UNCHANGED <<uiVars, loaded, busy, turn, server, switched>>
  BY DEF ChatInv, HistoryHandled
<1>2. slot[s].key \in Keys /\ slot[s].answer \in SUBSET Entry /\ Loading(slot[s].key)
  BY <1>1, RequestKinds DEF Loading, Pending
<1>3. Free \in Request /\ Free.op = "none"
  BY DEF Request, Free
<1>4. PageTypes'
  BY <1>1, <1>2, <1>3 DEF PageTypes, uiVars, server
<1>5. \A t \in Turns : Runs(t) /\ turn[t].calm =>
        turn[t].key \in loaded' /\ shown'[turn[t].key] = shown[turn[t].key]
  <2> SUFFICES ASSUME NEW t \in Turns, Runs(t), turn[t].calm
               PROVE  turn[t].key \in loaded' /\ shown'[turn[t].key] = shown[turn[t].key]
    OBVIOUS
  <2>1. turn[t].key \in loaded /\ turn[t].key # slot[s].key
    BY <1>2 DEF ChatInv, CalmIsAlone, Alone
  <2> QED BY <1>1, <2>1 DEF PageTypes
<1>6. SameTurns
  BY <1>1, TurnsUnchanged
<1>7. CalmIsAlone'
  BY <1>1, <1>3, <1>5, <1>6, CalmKept
<1>8. ListsAreOwned'
  BY <1>1, <1>3, ListsKept DEF uiVars, server
<1>9. OwnConversations'
  BY <1>1 DEF ChatInv, OwnConversations, uiVars, server
<1> QED BY <1>1, <1>3, <1>4, <1>6, <1>7, <1>8, <1>9, FreshKept, OwnRequestsKept DEF ChatInv, uiVars

LEMMA SelectKeepsInv ==
  ASSUME ChatInv, NEW s \in Slots, NEW c \in Convs, SelectConv(s, c) PROVE ChatInv'
<1>1. /\ PageTypes /\ c \in listed[profile] /\ active' = [active EXCEPT ![profile] = c]
      /\ LoadConvHistory(s, profile, c, FALSE) /\ loaded' = loaded \cup Loads(profile, c, FALSE)
      /\ UNCHANGED <<profile, listed, fetched, shown, busy, turn, server, switched>>
  BY DEF ChatInv, SelectConv, Select
<1>2. profile \in Profiles /\ owner[c] = profile /\ profile # NoOne
  BY <1>1, ChatAssumption DEF PageTypes, ChatInv, ListsAreOwned
<1>3. PICK r \in Request :
        /\ slot' = [slot EXCEPT ![s] = r] /\ r.op \in {"none", "history"}
        /\ r.op = "history" => r.key = <<profile, c>> /\ <<profile, c>> \notin loaded
  BY <1>1, <1>2, LoadIfNew
<1>4. r.op = "history" => r.key \notin loaded
  BY <1>3
<1>5. Loads(profile, c, FALSE) \subseteq {<<profile, c>>} /\ <<profile, c>> \in Keys
  BY <1>2 DEF Loads, Keys
<1>6. PageTypes'
  BY <1>1, <1>2, <1>3, <1>5 DEF PageTypes, server
<1>7. SameTurns
  BY <1>1, TurnsUnchanged
<1>8. CalmIsAlone'
  <2>1. \A t \in Turns : Runs(t) /\ turn[t].calm => turn[t].key \in loaded
    BY DEF ChatInv, CalmIsAlone, Alone
  <2>2. busy' = busy /\ \A t \in Turns : Runs(t) /\ turn[t].calm =>
          /\ turn[t].key \in loaded' /\ shown'[turn[t].key] = shown[turn[t].key]
          /\ r.op = "history" => r.key # turn[t].key
    BY <1>1, <1>4, <2>1
  <2> QED BY <1>3, <1>7, <2>2, CalmKept
<1>9. ListsAreOwned'
  <2>1. UNCHANGED <<owner, listed>>
    BY <1>1 DEF server
  <2>2. \A k \in loaded' : k \in loaded \/ owner'[k[2]] # NoOne
    <3>1. profile # NoOne /\ \A k \in loaded' : k \in loaded \/ k = <<profile, c>>
      BY <1>1, <1>2, <1>5
    <3> QED BY <1>2, <2>1, <3>1
  <2>3. r.op \in {"none", "history", "list"} /\ r.op # "list"
    BY <1>3
  <2>4. \A p \in Profiles : active'[p] = active[p] \/ owner'[active'[p]] # NoOne
    BY <1>1, <1>2, <2>1 DEF PageTypes
  <2> QED BY <1>3, <2>1, <2>2, <2>3, <2>4, ListsKept
<1>10. OwnConversations'
  BY <1>1, <1>2 DEF ChatInv, OwnConversations, server, PageTypes
<1> QED BY <1>1, <1>3, <1>4, <1>6, <1>7, <1>8, <1>9, <1>10, FreshKept, OwnRequestsKept DEF ChatInv

LEMMA PollKeepsInv ==
  ASSUME ChatInv, NEW s \in Slots, Poll(s) PROVE ChatInv'
<1> DEFINE c == active[profile]
<1>1. /\ PageTypes /\ c # NoOne /\ profile \notin busy
      /\ LoadConvHistory(s, profile, c, TRUE) /\ loaded' = loaded \cup {<<profile, c>>}
      /\ UNCHANGED <<uiVars, shown, busy, turn, server, switched>>
  BY DEF ChatInv, Poll
<1>2. profile \in Profiles /\ c \in Convs /\ owner[c] # NoOne /\ <<profile, c>> \in Keys
  BY <1>1 DEF PageTypes, ChatInv, ListsAreOwned, Keys
<1> HIDE DEF c
<1>3. PICK r \in Request :
        /\ slot' = [slot EXCEPT ![s] = r] /\ r.op \in {"none", "history"}
        /\ r.op = "history" => r.key = <<profile, c>>
  BY <1>1, <1>2, LoadAgain
<1>4. r.op = "history" => r.key[1] = profile
  BY <1>3
<1>5. PageTypes'
  BY <1>1, <1>2, <1>3 DEF PageTypes, server, uiVars
<1>6. SameTurns
  BY <1>1, TurnsUnchanged
<1>7. CalmIsAlone'
  <2>1. \A t \in Turns : Runs(t) /\ turn[t].calm =>
          turn[t].key \in loaded /\ turn[t].key[1] \in busy
    BY DEF ChatInv, CalmIsAlone, Alone
  <2>2. busy' = busy /\ \A t \in Turns : Runs(t) /\ turn[t].calm =>
          /\ turn[t].key \in loaded' /\ shown'[turn[t].key] = shown[turn[t].key]
          /\ r.op = "history" => r.key # turn[t].key
    BY <1>1, <1>4, <2>1
  <2> QED BY <1>3, <1>6, <2>2, CalmKept
<1>8. ListsAreOwned'
  <2>1. UNCHANGED <<owner, listed, active>>
    BY <1>1 DEF server, uiVars
  <2>2. \A k \in loaded' : k \in loaded \/ owner'[k[2]] # NoOne
    BY <1>1, <1>2, <2>1
  <2>3. r.op \in {"none", "history", "list"} /\ r.op # "list"
    BY <1>3
  <2> QED BY <1>3, <2>1, <2>2, <2>3, ListsKept
<1>9. OwnConversations'
  BY <1>1 DEF ChatInv, OwnConversations, server, uiVars
<1> QED BY <1>1, <1>3, <1>4, <1>5, <1>6, <1>7, <1>8, <1>9, FreshKept, OwnRequestsKept
        DEF ChatInv, uiVars

LEMMA ListKeepsInv ==
  ASSUME ChatInv, NEW s \in Slots, ListHandled(s) PROVE ChatInv'
<1>1. PICK p, convs, c :
        /\ p = slot[s].profile /\ convs = slot[s].answer /\ c \in convs
        /\ ListTaken(s, convs, c)
  BY DEF ListHandled
<1>2. /\ PageTypes /\ slot[s].op = "list" /\ convs # NoOne
      /\ UNCHANGED <<profile, fetched, shown, busy, turn, server, switched>>
  BY <1>1 DEF ChatInv, ListHandled
<1>3. /\ p \in Profiles /\ convs \in SUBSET Convs /\ c \in Convs /\ p # NoOne
      /\ \A d \in convs : owner[d] = p
      /\ owner[c] = p
  <2>1. p \in Profiles /\ convs \in SUBSET Convs
    BY <1>1, <1>2, RequestKinds
  <2>2. \A d \in convs : owner[d] = p
    BY <1>1, <1>2 DEF ChatInv, ListsAreOwned
  <2> QED BY <1>1, <2>1, <2>2, ChatAssumption
<1>4. listed' = [listed EXCEPT ![p] = convs] /\ active' = [active EXCEPT ![p] = c]
  BY <1>1 DEF ListTaken
<1>5. \E r \in Request :
        /\ slot' = [slot EXCEPT ![s] = r] /\ r.op \in {"none", "history"}
        /\ r.op = "history" => r.key \notin loaded
        /\ loaded' \in {loaded, loaded \cup Loads(p, c, FALSE)}
  <2>1. CASE p = profile
    <3>1. LoadConvHistory(s, p, c, FALSE)
      BY <1>1, <2>1 DEF ListTaken
    <3>2. loaded' = loaded \cup Loads(p, c, FALSE)
      BY <1>1, <2>1 DEF ListTaken
    <3>3. p \in Profiles /\ c \in Convs
      BY <1>2, <1>3
    <3>4. PICK r \in Request :
            /\ slot' = [slot EXCEPT ![s] = r] /\ r.op \in {"none", "history"}
            /\ r.op = "history" => r.key = <<p, c>> /\ <<p, c>> \notin loaded
      BY <3>1, <3>3, LoadIfNew
    <3> QED BY <3>2, <3>4
  <2>2. CASE p # profile
    <3>1. slot' = [slot EXCEPT ![s] = Free] /\ loaded' = loaded
      BY <1>1, <2>2 DEF ListTaken
    <3> QED BY <3>1 DEF Free, Request
  <2> QED BY <2>1, <2>2
<1>6. PICK r \in Request :
        /\ slot' = [slot EXCEPT ![s] = r] /\ r.op \in {"none", "history"}
        /\ r.op = "history" => r.key \notin loaded
        /\ loaded' \in {loaded, loaded \cup Loads(p, c, FALSE)}
  BY <1>5
<1>7. Loads(p, c, FALSE) \subseteq {<<p, c>>} /\ <<p, c>> \in Keys
  BY <1>3 DEF Loads, Keys
<1>8. PageTypes'
  BY <1>2, <1>3, <1>4, <1>6, <1>7 DEF PageTypes, server
<1>9. SameTurns
  BY <1>2, TurnsUnchanged
<1>10. CalmIsAlone'
  <2>1. \A t \in Turns : Runs(t) /\ turn[t].calm => turn[t].key \in loaded
    BY DEF ChatInv, CalmIsAlone, Alone
  <2> QED BY <1>2, <1>6, <1>9, <2>1, CalmKept
<1>11. ListsAreOwned'
  <2>1. \A q \in Profiles : \A d \in listed'[q] : d \in listed[q] \/ owner'[d] = q
    BY <1>2, <1>3, <1>4 DEF PageTypes, server
  <2>2. \A q \in Profiles : active'[q] = active[q] \/ owner'[active'[q]] # NoOne
    BY <1>2, <1>3, <1>4 DEF PageTypes, server
  <2>3. \A k \in loaded' : k \in loaded \/ owner'[k[2]] # NoOne
    <3>1. owner' = owner
      BY <1>2 DEF server
    <3>2. \A k \in loaded' : k \in loaded \/ k = <<p, c>>
      BY <1>6, <1>7
    <3> QED BY <1>3, <3>1, <3>2
  <2> QED BY <1>2, <1>6, <2>1, <2>2, <2>3, ListsKept DEF server
<1>12. OwnConversations'
  <2>1. \A q \in Profiles : active'[q] = active[q] \/ owner[active'[q]] = q
    BY <1>2, <1>3, <1>4 DEF PageTypes
  <2> QED BY <1>2, <2>1 DEF ChatInv, OwnConversations, server
<1> QED BY <1>2, <1>6, <1>8, <1>9, <1>10, <1>11, <1>12, FreshKept, OwnRequestsKept DEF ChatInv

LEMMA EmptyKeepsInv ==
  ASSUME ChatInv, NEW s \in Slots, ListEmpty(s) PROVE ChatInv'
<1>1. PICK p, c :
        /\ c \in Convs /\ p = slot[s].profile /\ owner[c] = NoOne /\ owner' = [owner EXCEPT ![c] = p]
        /\ listed' = [listed EXCEPT ![p] = {c}] /\ active' = [active EXCEPT ![p] = c]
        /\ shown' = [shown EXCEPT ![<<p, c>>] = {}] /\ loaded' = loaded \cup {<<p, c>>}
        /\ slot' = [slot EXCEPT ![s] = Free]
  BY DEF ListEmpty
<1>2. /\ PageTypes /\ slot[s].op = "list"
      /\ UNCHANGED <<profile, fetched, busy, turn, history, gone, switched>>
  BY DEF ChatInv, ListEmpty
<1>3. p \in Profiles /\ p # NoOne /\ <<p, c>> \in Keys
  BY <1>1, <1>2, RequestKinds, ChatAssumption DEF Keys
<1>4. Free \in Request /\ Free.op = "none"
  BY DEF Request, Free
<1>5. PageTypes'
  BY <1>1, <1>2, <1>3, <1>4 DEF PageTypes
<1>6. /\ owner'[c] = p /\ \A d \in Convs : owner[d] # NoOne => owner'[d] = owner[d]
      /\ \A q \in Profiles : \A d \in listed'[q] : d \in listed[q] \/ owner'[d] = q
      /\ \A q \in Profiles : active'[q] = active[q] \/ owner'[active'[q]] = q
  BY <1>1, <1>2, <1>3 DEF PageTypes
<1>7. ListsAreOwned'
  <2>1. \A q \in Profiles : q # NoOne
    BY ChatAssumption
  <2>2. \A k \in loaded' : k \in loaded \/ owner'[k[2]] # NoOne
    BY <1>1, <1>3, <1>6
  <2> QED BY <1>1, <1>4, <1>6, <2>1, <2>2, ListsKept
<1>8. SameTurns
  BY <1>2, TurnsUnchanged
<1>9. CalmIsAlone'
  <2>1. \A t \in Turns : Runs(t) /\ turn[t].calm =>
          turn[t].key \in loaded' /\ shown'[turn[t].key] = shown[turn[t].key]
    <3> SUFFICES ASSUME NEW t \in Turns, Runs(t), turn[t].calm
                 PROVE  turn[t].key \in loaded' /\ shown'[turn[t].key] = shown[turn[t].key]
      OBVIOUS
    <3>1. turn[t].key \in loaded /\ owner[turn[t].key[2]] # NoOne
      BY DEF ChatInv, CalmIsAlone, Alone, ListsAreOwned
    <3>2. turn[t].key # <<p, c>>
      BY <1>1, <3>1
    <3> QED BY <1>1, <1>2, <3>1, <3>2 DEF PageTypes
  <2> QED BY <1>1, <1>2, <1>4, <1>8, <2>1, CalmKept
<1>10. OwnConversations'
  <2> SUFFICES ASSUME ~switched PROVE \A q \in Profiles : active'[q] # NoOne => owner'[active'[q]] = q
    BY <1>2 DEF ChatInv, OwnConversations
  <2> SUFFICES ASSUME NEW q \in Profiles, active'[q] # NoOne, active'[q] = active[q]
               PROVE  owner'[active[q]] = q
    BY <1>6
  <2>1. owner[active[q]] = q /\ active[q] \in Convs /\ q # NoOne
    BY <1>2, ChatAssumption DEF ChatInv, OwnConversations, PageTypes
  <2> QED BY <1>6, <2>1
<1> QED BY <1>1, <1>2, <1>4, <1>5, <1>7, <1>8, <1>9, <1>10, FreshKept, OwnRequestsKept DEF ChatInv

(* What newConv does with its answer: a new conversation of the profile it *)
(* was made for, selected for the profile that is now the current one.     *)
LEMMA MadeFacts ==
  ASSUME ChatInv, NEW s \in Slots, NEW c \in Convs, Made(s, c),
         slot[s].op \in {"new", "new to send"}, profile' = profile
  PROVE  /\ slot[s].profile \in Profiles /\ profile \in Profiles
         /\ <<slot[s].profile, c>> \in Keys \ loaded /\ <<profile, c>> \in Keys \ loaded
         /\ loaded' = loaded \cup {<<slot[s].profile, c>>, <<profile, c>>}
         /\ listed' \in [Profiles -> SUBSET Convs]
         /\ active' \in [Profiles -> Convs \cup {NoOne}]
         /\ owner' \in [Convs -> Profiles \cup {NoOne}]
         /\ \A d \in Convs : owner[d] # NoOne => owner'[d] = owner[d]
         /\ ~switched => /\ slot[s].profile = profile
                         /\ \A q \in Profiles : active'[q] # NoOne => owner'[active'[q]] = q
         /\ \E r \in Request : /\ slot' = [slot EXCEPT ![s] = r] /\ r.op \in {"none", "history"}
                               /\ r.op = "history" => r.key = <<profile, c>>
         /\ ListsAreOwned'
<1> DEFINE p == slot[s].profile
<1>1. /\ owner[c] = NoOne /\ owner' = [owner EXCEPT ![c] = p]
      /\ listed' = [listed EXCEPT ![p] = listed[p] \cup {c}]
      /\ active' = [active EXCEPT ![profile] = c] /\ LoadConvHistory(s, profile, c, FALSE)
      /\ loaded' = loaded \cup {<<p, c>>, <<profile, c>>}
  BY DEF Made, Select
<1>2. PageTypes /\ p \in Profiles /\ profile \in Profiles /\ p # NoOne
  BY RequestKinds, ChatAssumption DEF ChatInv, PageTypes
<1>3. <<p, c>> \in Keys \ loaded /\ <<profile, c>> \in Keys \ loaded
  BY <1>1, <1>2 DEF ChatInv, ListsAreOwned, Keys
<1>4. ~switched => p = profile
  BY DEF ChatInv, RequestsAreOwn
<1>5. PICK r \in Request : /\ slot' = [slot EXCEPT ![s] = r] /\ r.op \in {"none", "history"}
                           /\ r.op = "history" => r.key = <<profile, c>> /\ <<profile, c>> \notin loaded
  <2>1. profile \in Profiles /\ LoadConvHistory(s, profile, c, FALSE)
    BY <1>1, <1>2
  <2> QED BY <2>1, LoadIfNew
<1> HIDE DEF p
<1>6. /\ listed' \in [Profiles -> SUBSET Convs] /\ active' \in [Profiles -> Convs \cup {NoOne}]
      /\ owner' \in [Convs -> Profiles \cup {NoOne}]
      /\ owner'[c] = p /\ \A d \in Convs : owner[d] # NoOne => owner'[d] = owner[d]
      /\ \A q \in Profiles : \A d \in listed'[q] : d \in listed[q] \/ owner'[d] = q
      /\ \A q \in Profiles : active'[q] = active[q] \/ (q = profile /\ active'[q] = c)
  BY <1>1, <1>2 DEF PageTypes
<1>7. ListsAreOwned'
  <2>1. \A k \in loaded' : k \in loaded \/ owner'[k[2]] # NoOne
    <3>1. \A k \in loaded' : k \in loaded \/ k = <<p, c>> \/ k = <<profile, c>>
      BY <1>1
    <3>2. owner'[<<p, c>>[2]] = p /\ owner'[<<profile, c>>[2]] = p
      BY <1>6
    <3> QED BY <1>2, <3>1, <3>2
  <2>2. \A q \in Profiles : active'[q] # NoOne => active'[q] = active[q] \/ owner'[active'[q]] # NoOne
    BY <1>2, <1>6
  <2>3. r.op \in {"none", "history", "list"} /\ r.op # "list"
    BY <1>5
  <2> QED BY <1>5, <1>6, <2>1, <2>2, <2>3, ListsKept
<1>8. ASSUME ~switched, NEW q \in Profiles, active'[q] # NoOne PROVE owner'[active'[q]] = q
  <2>1. CASE q = profile /\ active'[q] = c
    BY <1>4, <1>6, <1>8, <2>1
  <2>2. CASE active'[q] = active[q]
    <3>1. owner[active[q]] = q /\ active[q] \in Convs /\ q # NoOne
      BY <1>2, <1>8, <2>2, ChatAssumption DEF ChatInv, OwnConversations, PageTypes
    <3> QED BY <1>6, <2>2, <3>1
  <2> QED BY <1>6, <2>1, <2>2
<1> QED BY <1>1, <1>2, <1>3, <1>4, <1>5, <1>6, <1>7, <1>8 DEF p

LEMMA NewConvKeepsInv ==
  ASSUME ChatInv, NEW s \in Slots, NewConvMade(s) PROVE ChatInv'
<1>1. PICK c \in Convs : Made(s, c) /\ shown' = [shown EXCEPT ![<<slot[s].profile, c>>] = {}]
  BY DEF NewConvMade
<1>2. /\ PageTypes /\ slot[s].op = "new"
      /\ UNCHANGED <<profile, fetched, busy, turn, history, gone, switched>>
  BY DEF ChatInv, NewConvMade
<1>3. /\ slot[s].profile \in Profiles /\ profile \in Profiles
      /\ <<slot[s].profile, c>> \in Keys \ loaded /\ <<profile, c>> \in Keys \ loaded
      /\ loaded' = loaded \cup {<<slot[s].profile, c>>, <<profile, c>>}
      /\ listed' \in [Profiles -> SUBSET Convs] /\ active' \in [Profiles -> Convs \cup {NoOne}]
      /\ owner' \in [Convs -> Profiles \cup {NoOne}]
      /\ ~switched => \A q \in Profiles : active'[q] # NoOne => owner'[active'[q]] = q
      /\ ListsAreOwned'
  BY <1>1, <1>2, MadeFacts
<1>4. PICK r \in Request : /\ slot' = [slot EXCEPT ![s] = r] /\ r.op \in {"none", "history"}
                           /\ r.op = "history" => r.key = <<profile, c>>
  BY <1>1, <1>2, MadeFacts
<1>5. PageTypes'
  BY <1>1, <1>2, <1>3, <1>4 DEF PageTypes
<1>6. SameTurns
  BY <1>2, TurnsUnchanged
<1>7. CalmIsAlone'
  <2>1. \A t \in Turns : Runs(t) /\ turn[t].calm =>
          /\ turn[t].key \in loaded' /\ shown'[turn[t].key] = shown[turn[t].key]
          /\ r.op = "history" => r.key # turn[t].key
    <3> SUFFICES ASSUME NEW t \in Turns, Runs(t), turn[t].calm
                 PROVE  /\ turn[t].key \in loaded' /\ shown'[turn[t].key] = shown[turn[t].key]
                        /\ r.op = "history" => r.key # turn[t].key
      OBVIOUS
    <3>1. turn[t].key \in loaded
      BY DEF ChatInv, CalmIsAlone, Alone
    <3> QED BY <1>1, <1>2, <1>3, <1>4, <3>1 DEF PageTypes
  <2> QED BY <1>2, <1>4, <1>6, <2>1, CalmKept
<1>8. OwnConversations'
  BY <1>2, <1>3 DEF ChatInv, OwnConversations
<1> QED BY <1>2, <1>3, <1>4, <1>5, <1>6, <1>7, <1>8, FreshKept, OwnRequestsKept DEF ChatInv

LEMMA ArchivedKeepsInv ==
  ASSUME ChatInv, NEW s \in Slots, ConvArchived(s) PROVE ChatInv'
<1> DEFINE p == slot[s].key[1]
<1>1. /\ PageTypes /\ slot[s].op = "archive"
      /\ UNCHANGED <<profile, listed, fetched, shown, busy, turn, server, switched>>
  BY DEF ChatInv, ConvArchived
<1>2. /\ p \in Profiles /\ profile \in Profiles /\ profile # NoOne /\ (~switched => p = profile)
      /\ \A d \in listed[p] : d \in Convs /\ owner[d] = p /\ p # NoOne
  <2>1. p \in Profiles
    BY <1>1, RequestKinds DEF Keys
  <2> QED BY <1>1, <2>1, ChatAssumption DEF ChatInv, ListsAreOwned, RequestsAreOwn, PageTypes
<1> HIDE DEF p
<1>3. \/ /\ active' \in {active, [active EXCEPT ![p] = NoOne]} /\ loaded' = loaded
         /\ slot' = [slot EXCEPT ![s] = Free]
      \/ \E next \in listed[p] :
           /\ active' = [active EXCEPT ![profile] = next] /\ LoadConvHistory(s, profile, next, FALSE)
           /\ loaded' = loaded \cup Loads(profile, next, FALSE)
  BY DEF ConvArchived, Select, p
<1>4. \E r \in Request : /\ slot' = [slot EXCEPT ![s] = r] /\ r.op \in {"none", "history"}
                         /\ r.op = "history" => r.key \notin loaded
  <2>1. CASE slot' = [slot EXCEPT ![s] = Free]
    <3>1. Free \in Request /\ Free.op = "none"
      BY DEF Free, Request
    <3> QED BY <2>1, <3>1
  <2>2. CASE \E next \in listed[p] : LoadConvHistory(s, profile, next, FALSE)
    <3>1. PICK next \in Convs : LoadConvHistory(s, profile, next, FALSE)
      BY <1>2, <2>2
    <3>2. PICK r \in Request :
            /\ slot' = [slot EXCEPT ![s] = r] /\ r.op \in {"none", "history"}
            /\ r.op = "history" => r.key = <<profile, next>> /\ <<profile, next>> \notin loaded
      BY <1>2, <3>1, LoadIfNew
    <3> QED BY <3>2
  <2> QED BY <1>3, <2>1, <2>2
<1>5. PICK r \in Request : /\ slot' = [slot EXCEPT ![s] = r] /\ r.op \in {"none", "history"}
                           /\ r.op = "history" => r.key \notin loaded
  BY <1>4
<1>6. /\ active' \in [Profiles -> Convs \cup {NoOne}]
      /\ \A q \in Profiles : \/ active'[q] \in {active[q], NoOne}
                             \/ q = profile /\ active'[q] \in listed[p]
  BY <1>1, <1>2, <1>3 DEF PageTypes
<1>7. /\ loaded \subseteq loaded' /\ loaded' \subseteq Keys
      /\ \A k \in loaded' : k \in loaded \/ owner[k[2]] = p
  <2>1. ASSUME NEW next \in listed[p]
        PROVE  /\ Loads(profile, next, FALSE) \subseteq {<<profile, next>>}
               /\ <<profile, next>> \in Keys /\ owner[<<profile, next>>[2]] = p
    BY <1>2 DEF Loads, Keys
  <2> QED BY <1>1, <1>3, <2>1 DEF PageTypes
<1>8. PageTypes'
  BY <1>1, <1>5, <1>6, <1>7 DEF PageTypes, server
<1>9. SameTurns
  BY <1>1, TurnsUnchanged
<1>10. CalmIsAlone'
  <2>1. \A t \in Turns : Runs(t) /\ turn[t].calm => turn[t].key \in loaded
    BY DEF ChatInv, CalmIsAlone, Alone
  <2>2. busy' = busy /\ \A t \in Turns : Runs(t) /\ turn[t].calm =>
          /\ turn[t].key \in loaded' /\ shown'[turn[t].key] = shown[turn[t].key]
          /\ r.op = "history" => r.key # turn[t].key
    BY <1>1, <1>5, <1>7, <2>1
  <2> QED BY <1>5, <1>9, <2>2, CalmKept
<1>11. ListsAreOwned'
  <2>1. UNCHANGED <<owner, listed>>
    BY <1>1 DEF server
  <2>2. \A k \in loaded' : k \in loaded \/ owner'[k[2]] # NoOne
    BY <1>2, <1>7, <2>1, ChatAssumption
  <2>3. \A q \in Profiles : active'[q] # NoOne =>
          active'[q] = active[q] \/ owner'[active'[q]] # NoOne
    BY <1>2, <1>6, <2>1
  <2>4. r.op \in {"none", "history", "list"} /\ r.op # "list"
    BY <1>5
  <2> QED BY <1>5, <2>1, <2>2, <2>3, <2>4, ListsKept
<1>12. OwnConversations'
  <2>1. UNCHANGED <<owner, turn, switched>>
    BY <1>1 DEF server
  <2>2. ~switched => \A q \in Profiles : active'[q] # NoOne => owner[active'[q]] = q
    BY <1>2, <1>6 DEF ChatInv, OwnConversations
  <2> QED BY <2>1, <2>2 DEF ChatInv, OwnConversations
<1> QED BY <1>1, <1>5, <1>8, <1>9, <1>10, <1>11, <1>12, FreshKept, OwnRequestsKept DEF ChatInv

LEMMA DeletedKeepsInv ==
  ASSUME ChatInv, NEW s \in Slots, ConvDeleted(s) PROVE ChatInv'
<1>1. PICK k, p, c, left :
        /\ k = slot[s].key /\ p = k[1] /\ c = k[2] /\ left = listed[p] \ {c}
        /\ listed' = [listed EXCEPT ![p] = left]
        /\ \/ gone' = gone \cup {c} /\ history' = [history EXCEPT ![k] = {}]
           \/ UNCHANGED <<gone, history>>
        /\ shown' = [shown EXCEPT ![k] = {}]
        /\ turn' = [t \in Turns |-> IF turn[t] # NoTurn /\ turn[t].key = k
                                    THEN [turn[t] EXCEPT !.calm = FALSE] ELSE turn[t]]
        /\ \/ /\ active' = [active EXCEPT ![p] = NoOne] /\ loaded' = loaded \ {k}
              /\ slot' = [slot EXCEPT ![s] = [op |-> "list", profile |-> p, answer |-> NoOne]]
           \/ \E next \in left :
                 /\ Select(s, next, [active EXCEPT ![p] = NoOne])
                 /\ loaded' = (loaded \ {k}) \cup {<<profile, next>>}
  BY DEF ConvDeleted
<1>2. /\ PageTypes /\ slot[s].op = "delete"
      /\ UNCHANGED <<profile, fetched, busy, owner, switched>>
  BY DEF ChatInv, ConvDeleted
<1>3. /\ k \in Keys /\ p \in Profiles /\ c \in Convs /\ left \in SUBSET listed[p]
      /\ left \in SUBSET Convs /\ (\A d \in left : owner[d] = p) /\ (~switched => p = profile)
      /\ p # NoOne /\ profile \in Profiles
  <2>1. k \in Keys /\ p \in Profiles /\ c \in Convs
    BY <1>1, <1>2, RequestKinds DEF Keys
  <2> QED BY <1>1, <1>2, <2>1, ChatAssumption DEF ChatInv, ListsAreOwned, RequestsAreOwn, PageTypes
<1>4. \E r \in Request :
        /\ slot' = [slot EXCEPT ![s] = r] /\ r.op \in {"none", "history", "list"}
        /\ r.op = "list" => r.answer = NoOne
        /\ r.op = "history" => r.key \notin loaded
  <2>1. CASE slot' = [slot EXCEPT ![s] = [op |-> "list", profile |-> p, answer |-> NoOne]]
    <3> DEFINE r == [op |-> "list", profile |-> p, answer |-> NoOne]
    <3>1. r \in Request /\ r.op = "list" /\ r.answer = NoOne
      BY <1>3, RequestMade
    <3>2. slot' = [slot EXCEPT ![s] = r]
      BY <2>1
    <3> HIDE DEF r
    <3> QED BY <3>1, <3>2
  <2>2. ASSUME NEW next \in left, Select(s, next, [active EXCEPT ![p] = NoOne])
        PROVE  \E r \in Request :
                 /\ slot' = [slot EXCEPT ![s] = r] /\ r.op \in {"none", "history"}
                 /\ r.op = "history" => r.key \notin loaded
    <3>1. LoadConvHistory(s, profile, next, FALSE) /\ next \in Convs
      BY <1>3, <2>2 DEF Select
    <3>2. PICK r \in Request :
            /\ slot' = [slot EXCEPT ![s] = r] /\ r.op \in {"none", "history"}
            /\ r.op = "history" => r.key = <<profile, next>> /\ <<profile, next>> \notin loaded
      BY <1>3, <3>1, LoadIfNew
    <3> QED BY <3>2
  <2>3. CASE \E next \in left : Select(s, next, [active EXCEPT ![p] = NoOne])
    <3>1. PICK r \in Request :
                 /\ slot' = [slot EXCEPT ![s] = r] /\ r.op \in {"none", "history"}
                 /\ r.op = "history" => r.key \notin loaded
      BY <2>2, <2>3
    <3>2. r.op \in {"none", "history", "list"} /\ r.op # "list"
      BY <3>1
    <3> QED BY <3>1, <3>2
  <2> QED BY <1>1, <2>1, <2>3
<1>5. PICK r \in Request :
        /\ slot' = [slot EXCEPT ![s] = r] /\ r.op \in {"none", "history", "list"}
        /\ r.op = "list" => r.answer = NoOne
        /\ r.op = "history" => r.key \notin loaded
  BY <1>4
<1>6. /\ loaded' \subseteq Keys /\ \A j \in loaded : j # k => j \in loaded'
      /\ \A j \in loaded' : j \in loaded \/ owner[j[2]] = p
  BY <1>1, <1>2, <1>3 DEF PageTypes, Keys
<1>7. /\ active' \in [Profiles -> Convs \cup {NoOne}]
      /\ \A q \in Profiles : \/ active'[q] \in {active[q], NoOne}
                             \/ q = profile /\ active'[q] \in left
  <2> DEFINE moved == [active EXCEPT ![p] = NoOne]
  <2>1. /\ moved \in [Profiles -> Convs \cup {NoOne}]
        /\ \A q \in Profiles : moved[q] \in {active[q], NoOne}
    BY <1>2, <1>3 DEF PageTypes
  <2>2. active' = moved \/ \E next \in left : active' = [moved EXCEPT ![profile] = next]
    BY <1>1 DEF Select
  <2> HIDE DEF moved
  <2> QED BY <1>3, <2>1, <2>2
<1>8. turn' \in [Turns -> {NoTurn} \cup Turn] /\ SameTurns
      /\ \A t \in Turns : turn[t] # NoTurn /\ turn[t].key = k => ~turn'[t].calm
  <2>1. \A t \in Turns : turn[t] \in {NoTurn} \cup Turn
    BY <1>2 DEF PageTypes
  <2>2. ASSUME NEW t \in Turns, turn[t] # NoTurn, turn[t].key = k
        PROVE  /\ turn'[t] \in Turn /\ ~turn'[t].calm /\ turn'[t].at = turn[t].at
               /\ turn'[t].key = turn[t].key /\ turn'[t].profile = turn[t].profile
               /\ turn'[t].heard = turn[t].heard /\ turn'[t].again = turn[t].again
               /\ turn'[t].attempt = turn[t].attempt /\ turn'[t] # NoTurn
    <3>1. turn[t] \in Turn
      BY <2>1, <2>2
    <3>2. turn'[t] = [turn[t] EXCEPT !.calm = FALSE]
      BY <1>1, <2>2
    <3> QED BY <3>1, <3>2 DEF Turn, NoTurn
  <2>3. \A t \in Turns : ~(turn[t] # NoTurn /\ turn[t].key = k) => turn'[t] = turn[t]
    BY <1>1
  <2>4. turn' \in [Turns -> {NoTurn} \cup Turn]
    <3>1. \A t \in Turns : turn'[t] \in {NoTurn} \cup Turn
      BY <2>1, <2>2, <2>3
    <3>2. turn' = [t \in Turns |-> turn'[t]]
      BY <1>1
    <3> QED BY <3>1, <3>2
  <2>5. SameTurns
    BY <2>2, <2>3 DEF SameTurns, Runs
  <2> QED BY <2>2, <2>4, <2>5
<1>9. PageTypes'
  BY <1>1, <1>2, <1>3, <1>5, <1>6, <1>7, <1>8 DEF PageTypes
<1>10. ListsAreOwned'
  <2>1. \A q \in Profiles : \A d \in listed'[q] : d \in listed[q]
    BY <1>1, <1>2, <1>3 DEF PageTypes
  <2>2. \A q \in Profiles : active'[q] # NoOne =>
           active'[q] = active[q] \/ owner'[active'[q]] # NoOne
    BY <1>2, <1>3, <1>7
  <2>3. \A j \in loaded' : j \in loaded \/ owner'[j[2]] # NoOne
    BY <1>2, <1>3, <1>6
  <2> QED BY <1>2, <1>5, <2>1, <2>2, <2>3, ListsKept
<1>11. CalmIsAlone'
  <2>1. \A t \in Turns : Runs(t) /\ turn[t].calm /\ turn'[t].calm =>
          /\ turn[t].key \in loaded' /\ shown'[turn[t].key] = shown[turn[t].key]
          /\ r.op = "history" => r.key # turn[t].key
    <3> SUFFICES ASSUME NEW t \in Turns, Runs(t), turn[t].calm, turn'[t].calm
                 PROVE  /\ turn[t].key \in loaded' /\ shown'[turn[t].key] = shown[turn[t].key]
                        /\ r.op = "history" => r.key # turn[t].key
      OBVIOUS
    <3>1. turn[t].key \in loaded /\ turn[t].key # k
      BY <1>8 DEF ChatInv, CalmIsAlone, Alone, Runs
    <3> QED BY <1>1, <1>2, <1>3, <1>5, <1>6, <3>1 DEF PageTypes
  <2> QED BY <1>2, <1>5, <1>8, <2>1, CalmKept
<1>12. OwnConversations'
  <2> SUFFICES ASSUME ~switched
               PROVE  /\ \A q \in Profiles : active'[q] # NoOne => owner[active'[q]] = q
                      /\ \A t \in Turns : turn'[t] # NoTurn => turn'[t].key[1] = turn'[t].profile
    BY <1>2 DEF OwnConversations
  <2>1. \A q \in Profiles : active'[q] # NoOne => owner[active'[q]] = q
    BY <1>3, <1>7 DEF ChatInv, OwnConversations
  <2>2. \A t \in Turns : turn'[t] # NoTurn => turn'[t].key[1] = turn'[t].profile
    BY <1>8 DEF ChatInv, OwnConversations, SameTurns
  <2> QED BY <2>1, <2>2
<1> QED BY <1>2, <1>5, <1>8, <1>9, <1>10, <1>11, <1>12, FreshKept, OwnRequestsKept DEF ChatInv

-----------------------------------------------------------------------------
(* Turns that begin.                                                       *)

LEMMA BegunFacts ==
  ASSUME NEW p \in Profiles, NEW k \in Keys
  PROVE  /\ Begun(p, k) \in Turn /\ Begun(p, k) # NoTurn /\ Begun(p, k).at = "post"
         /\ Begun(p, k).key = k /\ Begun(p, k).profile = p
         /\ ~Begun(p, k).heard /\ ~Begun(p, k).again
         /\ Begun(p, k).calm <=> k[1] = p /\ k \in loaded /\ ~Loading(k) /\ Running(p) = {}
<1> DEFINE b == k[1] = p /\ k \in loaded /\ ~Loading(k) /\ Running(p) = {}
<1>1. b \in BOOLEAN
  OBVIOUS
<1>2. 0 \in 0..(MaxAttempts - 1)
  BY ChatAssumption
<1>3. Begun(p, k) = [at |-> "post", key |-> k, profile |-> p, attempt |-> 0, heard |-> FALSE,
                     again |-> FALSE, calm |-> b]
  BY DEF Begun
<1>4. Begun(p, k).calm = b
  BY <1>3
<1>5. b <=> k[1] = p /\ k \in loaded /\ ~Loading(k) /\ Running(p) = {}
  OBVIOUS
<1> HIDE DEF b
<1>6. Begun(p, k) \in Turn /\ Begun(p, k) # NoTurn
  BY <1>1, <1>2, <1>3 DEF Turn, NoTurn
<1> QED BY <1>3, <1>4, <1>5, <1>6

(* A turn that begins takes the calm of the others of its profile.         *)
LEMMA ExecuteTurns ==
  ASSUME ChatInv, NEW p \in Profiles, NEW k \in Keys, NEW kept \in SUBSET Entry,
         NEW kinds \in SUBSET {"user", "agent"}, "agent" \in kinds, Execute(p, k, kept, kinds),
         \A j \in Keys : Loading(j)' => Loading(j) \/ j \notin loaded, loaded \subseteq loaded',
         kept = shown[k] \/ k \notin loaded \/ k[1] \notin busy
  PROVE  /\ turn' \in [Turns -> {NoTurn} \cup Turn] /\ shown' \in [Keys -> SUBSET Entry]
         /\ busy' \subseteq Profiles /\ TurnsAreFresh' /\ CalmIsAlone'
         /\ \A t \in Turns : turn'[t] # NoTurn =>
              \/ turn[t] # NoTurn /\ turn'[t].key = turn[t].key /\ turn'[t].profile = turn[t].profile
              \/ turn'[t].key = k /\ turn'[t].profile = p
<1> DEFINE n == NextTurn
           new == {[kind |-> kind, turn |-> n, live |-> TRUE] : kind \in kinds}
<1>1. /\ n \in Turns /\ busy' = busy \cup {p} /\ shown' = [shown EXCEPT ![k] = kept \cup new]
      /\ turn' = [t \in Turns |-> IF t = n THEN Begun(p, k)
                                  ELSE IF t \in Running(p) THEN [turn[t] EXCEPT !.calm = FALSE]
                                  ELSE turn[t]]
  BY DEF Execute
<1>2. PageTypes /\ CalmIsAlone /\ TurnsAreFresh
  BY DEF ChatInv
<1> HIDE DEF n
<1>3. new \subseteq Entry /\ [kind |-> "agent", turn |-> n, live |-> TRUE] \in new
  <2>1. \A kind \in kinds : [kind |-> kind, turn |-> n, live |-> TRUE] \in Entry
    BY <1>1 DEF Entry
  <2> QED BY <2>1
<1> HIDE DEF new
<1>4. /\ shown' \in [Keys -> SUBSET Entry] /\ shown'[k] = kept \cup new
      /\ \A j \in Keys : j # k => shown'[j] = shown[j]
  BY <1>1, <1>2, <1>3 DEF PageTypes
<1>5. /\ turn'[n] = Begun(p, k) /\ turn'[n] \in Turn /\ turn'[n] # NoTurn /\ turn'[n].at = "post"
      /\ turn'[n].key = k /\ turn'[n].profile = p /\ ~turn'[n].heard /\ ~turn'[n].again
      /\ turn'[n].calm => k[1] = p /\ k \in loaded /\ ~Loading(k) /\ Running(p) = {}
  BY <1>1, BegunFacts
<1>6. ASSUME NEW t \in Turns, t # n, t \in Running(p)
      PROVE  /\ turn[t] \in Turn /\ turn'[t] \in Turn /\ ~turn'[t].calm /\ turn'[t].at = turn[t].at
             /\ turn'[t].key = turn[t].key /\ turn'[t].profile = turn[t].profile
             /\ turn'[t].heard = turn[t].heard /\ turn'[t].again = turn[t].again
             /\ turn'[t].attempt = turn[t].attempt /\ turn'[t] # NoTurn /\ turn[t] # NoTurn
  <2>1. turn[t] \in Turn /\ turn[t] # NoTurn
    BY <1>2, <1>6, TurnFields DEF Running
  <2>2. turn'[t] = [turn[t] EXCEPT !.calm = FALSE]
    BY <1>1, <1>6
  <2> QED BY <2>1, <2>2 DEF Turn, NoTurn
<1>7. \A t \in Turns : t # n /\ t \notin Running(p) => turn'[t] = turn[t]
  BY <1>1
<1>8. turn' \in [Turns -> {NoTurn} \cup Turn]
  <2>1. \A t \in Turns : turn[t] \in {NoTurn} \cup Turn
    BY <1>2 DEF PageTypes
  <2>2. \A t \in Turns : turn'[t] \in {NoTurn} \cup Turn
    BY <1>5, <1>6, <1>7, <2>1
  <2>3. turn' = [t \in Turns |-> turn'[t]]
    BY <1>1
  <2> QED BY <2>2, <2>3
<1>9. TurnsAreFresh'
  BY <1>2, <1>5, <1>6, <1>7 DEF TurnsAreFresh
<1>10. \A t \in Turns : t # n =>
         /\ Runs(t)' => Runs(t) /\ turn'[t].profile = turn[t].profile /\ turn'[t].key = turn[t].key
         /\ Runs(t)' /\ turn'[t].calm => turn[t].calm /\ turn[t].profile # p
  <2> SUFFICES ASSUME NEW t \in Turns, t # n
               PROVE  /\ Runs(t)' => /\ Runs(t) /\ turn'[t].profile = turn[t].profile
                                     /\ turn'[t].key = turn[t].key
                      /\ Runs(t)' /\ turn'[t].calm => turn[t].calm /\ turn[t].profile # p
    OBVIOUS
  <2>1. CASE t \in Running(p)
    BY <1>6, <2>1 DEF Runs
  <2>2. CASE t \notin Running(p)
    <3>1. Runs(t) => turn[t].at \notin {"none", "done"}
      BY <1>2, TurnFields DEF Runs
    <3> QED BY <1>7, <2>2, <3>1 DEF Runs, Running
  <2> QED BY <2>1, <2>2
<1>11. CalmIsAlone'
  <2> SUFFICES ASSUME NEW t \in Turns, Runs(t)', turn'[t].calm PROVE Alone(t)'
    BY DEF CalmIsAlone
  <2>1. CASE t = n
    <3>1. k[1] = p /\ k \in loaded' /\ ~Loading(k)' /\ Running(p) = {} /\ p \in busy'
      BY <1>1, <1>5, <2>1
    <3>2. ASSUME NEW u \in Turns, Runs(u)', turn'[u].profile = p PROVE u = n
      <4> SUFFICES ASSUME u # n PROVE FALSE
        OBVIOUS
      <4>1. Runs(u) /\ turn[u].profile = p
        BY <1>10, <3>2
      <4>2. turn[u].at \notin {"none", "done"}
        BY <1>2, <4>1, TurnFields DEF Runs
      <4> QED BY <3>1, <4>1, <4>2 DEF Running
    <3>3. [kind |-> "agent", turn |-> n, live |-> TRUE] \in shown'[k]
      BY <1>3, <1>4
    <3> QED BY <1>5, <2>1, <3>1, <3>2, <3>3 DEF Alone
  <2>2. CASE t # n
    <3>1. /\ Runs(t) /\ turn[t].calm /\ turn[t].profile # p
          /\ turn'[t].profile = turn[t].profile /\ turn'[t].key = turn[t].key
      BY <1>10, <2>2
    <3>2. Alone(t)
      BY <1>2, <3>1 DEF CalmIsAlone
    <3>3. turn[t].key \in Keys
      BY <1>2, <3>2 DEF Alone, PageTypes
    <3>4. /\ turn[t].key[1] = turn[t].profile /\ turn[t].profile \in busy'
          /\ turn[t].key \in loaded' /\ ~Loading(turn[t].key)'
      <4>1. \A j \in Keys : Loading(j)' => Loading(j) \/ j \notin loaded
        OBVIOUS
      <4> QED BY <1>1, <3>1, <3>2, <3>3, <4>1 DEF Alone
    <3>5. \A u \in Turns : Runs(u)' /\ turn'[u].profile = turn[t].profile => u = t
      <4>1. turn'[n].profile # turn[t].profile
        BY <1>5, <3>1
      <4>2. \A u \in Turns : Runs(u) /\ turn[u].profile = turn[t].profile => u = t
        BY <3>2 DEF Alone
      <4> QED BY <1>10, <4>1, <4>2
    <3>6. [kind |-> "agent", turn |-> t, live |-> TRUE] \in shown'[turn[t].key]
      <4>1. [kind |-> "agent", turn |-> t, live |-> TRUE] \in shown[turn[t].key]
        BY <3>2 DEF Alone
      <4>2. turn[t].key = k => kept = shown[k]
        BY <3>2 DEF Alone
      <4> QED BY <1>4, <3>3, <4>1, <4>2
    <3> QED BY <3>1, <3>4, <3>5, <3>6 DEF Alone
  <2> QED BY <2>1, <2>2
<1>12. \A t \in Turns : turn'[t] # NoTurn =>
         \/ turn[t] # NoTurn /\ turn'[t].key = turn[t].key /\ turn'[t].profile = turn[t].profile
         \/ turn'[t].key = k /\ turn'[t].profile = p
  BY <1>5, <1>6, <1>7
<1>13. busy' \subseteq Profiles
  BY <1>1, <1>2 DEF PageTypes
<1> QED BY <1>4, <1>8, <1>9, <1>11, <1>12, <1>13

LEMMA SendKeepsInv ==
  ASSUME ChatInv, Send \/ Retry PROVE ChatInv'
<1> DEFINE k == <<profile, active[profile]>>
<1>1. /\ PageTypes /\ active[profile] # NoOne /\ profile \notin busy
      /\ UNCHANGED <<uiVars, loaded, slot, server, switched>>
  BY DEF ChatInv, Send, Retry
<1>2. profile \in Profiles /\ k \in Keys /\ k[1] = profile
  BY <1>1 DEF PageTypes, Keys
<1>3. \E kept \in SUBSET Entry, kinds \in SUBSET {"user", "agent"} :
        "agent" \in kinds /\ Execute(profile, k, kept, kinds)
  <2>1. shown[k] \in SUBSET Entry
    BY <1>1, <1>2 DEF PageTypes
  <2>2. CASE Send
    BY <2>1, <2>2 DEF Send
  <2>3. CASE Retry
    <3>1. PICK said :
            Execute(profile, k, {e \in shown[k] : e.kind = "user" \/ e.turn < Max(said)}, {"agent"})
      BY <2>3 DEF Retry
    <3> QED BY <2>1, <3>1
  <2> QED BY <2>2, <2>3
<1> HIDE DEF k
<1>4. PICK kept \in SUBSET Entry, kinds \in SUBSET {"user", "agent"} :
        "agent" \in kinds /\ Execute(profile, k, kept, kinds)
  BY <1>3
<1>5. \A j \in Keys : Loading(j)' => Loading(j) \/ j \notin loaded
  BY <1>1 DEF Loading, Pending
<1>6. /\ turn' \in [Turns -> {NoTurn} \cup Turn] /\ shown' \in [Keys -> SUBSET Entry]
      /\ busy' \subseteq Profiles /\ TurnsAreFresh' /\ CalmIsAlone'
      /\ \A t \in Turns : turn'[t] # NoTurn =>
           \/ turn[t] # NoTurn /\ turn'[t].key = turn[t].key /\ turn'[t].profile = turn[t].profile
           \/ turn'[t].key = k /\ turn'[t].profile = profile
  BY <1>1, <1>2, <1>4, <1>5, ExecuteTurns
<1>7. PageTypes'
  BY <1>1, <1>6 DEF PageTypes, uiVars, server
<1>8. ListsAreOwned' /\ RequestsAreOwn'
  BY <1>1 DEF ChatInv, ListsAreOwned, RequestsAreOwn, uiVars, server
<1>9. OwnConversations'
  <2>1. UNCHANGED <<switched, owner, active>>
    BY <1>1 DEF uiVars, server
  <2> QED BY <1>2, <1>6, <2>1 DEF ChatInv, OwnConversations
<1> QED BY <1>6, <1>7, <1>8, <1>9 DEF ChatInv

LEMMA SendFailsKeepsInv ==
  ASSUME ChatInv, NEW s \in Slots, NewToSendFails(s) PROVE ChatInv'
<1> DEFINE k == <<profile, active[profile]>>
           p == slot[s].profile
<1>1. /\ PageTypes /\ slot[s].op = "new to send" /\ slot' = [slot EXCEPT ![s] = Free]
      /\ UNCHANGED <<uiVars, loaded, server, switched>>
      /\ \/ UNCHANGED <<shown, busy, turn>>
         \/ active[profile] # NoOne /\ Execute(p, k, shown[k], {"user", "agent"})
  BY DEF ChatInv, NewToSendFails
<1>2. profile \in Profiles /\ p \in Profiles /\ (~switched => p = profile)
  BY <1>1, RequestKinds DEF PageTypes, ChatInv, RequestsAreOwn
<1>3. Free \in Request /\ Free.op = "none"
  BY DEF Request, Free
<1>4. slot' \in [Slots -> Request] /\ slot'[s] = Free /\ \A u \in Slots : u # s => slot'[u] = slot[u]
  BY <1>1, <1>3, SlotSet
<1>5. \A j \in Keys : Loading(j)' => Loading(j) \/ j \notin loaded
  BY <1>3, <1>4 DEF Loading, Pending
<1>6. k[1] = profile
  OBVIOUS
<1> HIDE DEF p, k
<1>7. /\ turn' \in [Turns -> {NoTurn} \cup Turn] /\ shown' \in [Keys -> SUBSET Entry]
      /\ busy' \subseteq Profiles /\ TurnsAreFresh' /\ CalmIsAlone'
      /\ \A t \in Turns : turn'[t] # NoTurn =>
           \/ turn[t] # NoTurn /\ turn'[t].key = turn[t].key /\ turn'[t].profile = turn[t].profile
           \/ turn'[t].key = k /\ turn'[t].profile = p
  <2>1. CASE UNCHANGED <<shown, busy, turn>>
    <3>1. SameTurns
      BY <2>1, TurnsUnchanged
    <3>2. \A t \in Turns : Runs(t) /\ turn[t].calm => turn[t].key \in loaded
      BY DEF ChatInv, CalmIsAlone, Alone
    <3>3. CalmIsAlone'
      BY <1>1, <1>3, <2>1, <3>1, <3>2, CalmKept
    <3> QED BY <1>1, <2>1, <3>1, <3>3, FreshKept DEF PageTypes
  <2>2. CASE active[profile] # NoOne /\ Execute(p, k, shown[k], {"user", "agent"})
    <3>1. k \in Keys
      BY <1>1, <1>2, <2>2 DEF PageTypes, Keys, k
    <3>2. shown[k] \in SUBSET Entry
      BY <1>1, <3>1 DEF PageTypes
    <3>3. {"user", "agent"} \in SUBSET {"user", "agent"} /\ "agent" \in {"user", "agent"}
      OBVIOUS
    <3>4. loaded \subseteq loaded'
      BY <1>1
    <3>5. Execute(p, k, shown[k], {"user", "agent"})
      BY <2>2
    <3> QED BY <1>2, <1>5, <3>1, <3>2, <3>3, <3>4, <3>5, ExecuteTurns
  <2> QED BY <1>1, <2>1, <2>2 DEF k, p
<1>8. PageTypes'
  BY <1>1, <1>4, <1>7 DEF PageTypes, uiVars, server
<1>9. ListsAreOwned'
  BY <1>1, <1>3, ListsKept DEF uiVars, server
<1>10. OwnConversations'
  <2>1. UNCHANGED <<switched, owner, active>>
    BY <1>1 DEF uiVars, server
  <2> QED BY <1>2, <1>6, <1>7, <2>1 DEF ChatInv, OwnConversations
<1> QED BY <1>1, <1>3, <1>7, <1>8, <1>9, <1>10, OwnRequestsKept DEF ChatInv, uiVars

LEMMA SendMadeKeepsInv ==
  ASSUME ChatInv, NEW s \in Slots, NewToSendMade(s) PROVE ChatInv'
<1> DEFINE p == slot[s].profile
<1>1. PICK c \in Convs :
        Made(s, c) /\ Execute(p, <<profile, c>>, {}, {"user", "agent"})
  BY DEF NewToSendMade
<1>2. /\ PageTypes /\ slot[s].op = "new to send"
      /\ UNCHANGED <<profile, fetched, history, gone, switched>>
  BY DEF ChatInv, NewToSendMade
<1> DEFINE k == <<profile, c>>
<1>3. /\ p \in Profiles /\ profile \in Profiles /\ k \in Keys \ loaded /\ k[1] = profile
      /\ loaded' = loaded \cup {<<p, c>>, k} /\ <<p, c>> \in Keys
      /\ listed' \in [Profiles -> SUBSET Convs] /\ active' \in [Profiles -> Convs \cup {NoOne}]
      /\ owner' \in [Convs -> Profiles \cup {NoOne}]
      /\ ~switched => p = profile /\ \A q \in Profiles : active'[q] # NoOne => owner'[active'[q]] = q
      /\ ListsAreOwned'
  BY <1>1, <1>2, MadeFacts
<1>4. PICK r \in Request : /\ slot' = [slot EXCEPT ![s] = r] /\ r.op \in {"none", "history"}
                           /\ r.op = "history" => r.key = k
  BY <1>1, <1>2, MadeFacts
<1>5. slot' \in [Slots -> Request] /\ slot'[s] = r /\ \A u \in Slots : u # s => slot'[u] = slot[u]
  BY <1>2, <1>4, SlotSet
<1>6. Execute(p, k, {}, {"user", "agent"})
  BY <1>1
<1> HIDE DEF p, k
<1>7. \A j \in Keys : Loading(j)' => Loading(j) \/ j \notin loaded
  BY <1>3, <1>4, <1>5 DEF Loading, Pending
<1>8. /\ turn' \in [Turns -> {NoTurn} \cup Turn] /\ shown' \in [Keys -> SUBSET Entry]
      /\ busy' \subseteq Profiles /\ TurnsAreFresh' /\ CalmIsAlone'
      /\ \A t \in Turns : turn'[t] # NoTurn =>
           \/ turn[t] # NoTurn /\ turn'[t].key = turn[t].key /\ turn'[t].profile = turn[t].profile
           \/ turn'[t].key = k /\ turn'[t].profile = p
  <2>1. /\ {"user", "agent"} \in SUBSET {"user", "agent"} /\ "agent" \in {"user", "agent"}
        /\ {} \in SUBSET Entry /\ k \in Keys /\ k \notin loaded /\ loaded \subseteq loaded'
    BY <1>3
  <2> QED BY <1>3, <1>6, <1>7, <2>1, ExecuteTurns
<1>9. PageTypes'
  BY <1>2, <1>3, <1>5, <1>8 DEF PageTypes
<1>10. OwnConversations'
  BY <1>2, <1>3, <1>8 DEF ChatInv, OwnConversations
<1> QED BY <1>2, <1>3, <1>4, <1>8, <1>9, <1>10, OwnRequestsKept DEF ChatInv

-----------------------------------------------------------------------------
(* Turns that go on, and end.                                              *)

LEMMA TurnKeepsInv ==
  ASSUME ChatInv, NEW t \in Turns, NEW r \in Turn, turn[t] \in Turn, turn[t].at # "done",
         turn' = [turn EXCEPT ![t] = r],
         r.key = turn[t].key, r.profile = turn[t].profile, r.calm => turn[t].calm, ~r.again,
         r.at \in {"post", "fallback", "waiting"} => ~r.heard,
         r.at = "waiting" => r.attempt + 1 < MaxAttempts,
         \/ busy' = busy
         \/ r.at = "done" /\ busy' = busy \ {turn[t].profile},
         history' \in [Keys -> SUBSET Entry],
         UNCHANGED <<uiVars, shown, loaded, slot, owner, gone, switched>>
  PROVE  ChatInv'
<1>1. PageTypes /\ turn[t] # NoTurn /\ r # NoTurn
  BY TurnFields DEF ChatInv, Turn, NoTurn
<1>2. /\ turn' \in [Turns -> {NoTurn} \cup Turn] /\ turn'[t] = r
      /\ \A u \in Turns : u # t => turn'[u] = turn[u]
  BY <1>1 DEF PageTypes
<1>3. PageTypes'
  BY <1>1, <1>2 DEF PageTypes, uiVars
<1>4. TurnsAreFresh'
  BY <1>2 DEF ChatInv, TurnsAreFresh
<1>5. ListsAreOwned' /\ RequestsAreOwn'
  BY DEF ChatInv, ListsAreOwned, RequestsAreOwn, uiVars
<1>6. OwnConversations'
  <2>1. UNCHANGED <<switched, owner, active>>
    BY DEF uiVars
  <2> QED BY <1>1, <1>2, <2>1 DEF ChatInv, OwnConversations
<1>7. \A u \in Turns : Runs(u)' => /\ Runs(u) /\ turn'[u].profile = turn[u].profile
                                   /\ turn'[u].key = turn[u].key
                                   /\ turn'[u].calm => turn[u].calm
  BY <1>1, <1>2 DEF Runs
<1>8. CalmIsAlone'
  <2> SUFFICES ASSUME NEW u \in Turns, Runs(u)', turn'[u].calm PROVE Alone(u)'
    BY DEF CalmIsAlone
  <2>1. /\ Runs(u) /\ turn[u].calm /\ turn'[u].profile = turn[u].profile
        /\ turn'[u].key = turn[u].key /\ Alone(u)
    BY <1>7 DEF ChatInv, CalmIsAlone
  <2>2. turn[u].profile \in busy'
    <3>1. CASE u = t
      BY <1>2, <2>1, <3>1 DEF Alone, Runs
    <3>2. CASE u # t
      <4>1. Runs(t)
        BY <1>1 DEF Runs
      <4> QED BY <2>1, <3>2, <4>1 DEF Alone
    <3> QED BY <3>1, <3>2
  <2>3. \A v \in Turns : Runs(v)' /\ turn'[v].profile = turn[u].profile => v = u
    BY <1>7, <2>1 DEF Alone
  <2>4. ~Loading(turn[u].key)'
    BY <2>1 DEF Alone, Loading, Pending
  <2> QED BY <2>1, <2>2, <2>3, <2>4 DEF Alone
<1> QED BY <1>3, <1>4, <1>5, <1>6, <1>8 DEF ChatInv

LEMMA RecordGoes ==
  ASSUME NEW r \in Turn, NEW place \in {"post", "streaming", "fallback", "waiting", "done"},
         NEW q, q = [r EXCEPT !.at = place]
  PROVE  /\ q \in Turn /\ q.at = place /\ q.key = r.key /\ q.profile = r.profile
         /\ q.calm = r.calm /\ q.again = r.again /\ q.heard = r.heard /\ q.attempt = r.attempt
  BY DEF Turn

(* What an attempt was heard of is not taken again.                        *)
LEMMA TakenFacts ==
  ASSUME ChatInv, NEW t \in Turns, turn[t].at \in {"post", "fallback"}
  PROVE  /\ turn[t] \in Turn /\ Taken(t) \in Turn /\ ~Taken(t).again /\ ~Taken(t).heard
         /\ Taken(t).key = turn[t].key /\ Taken(t).profile = turn[t].profile
         /\ Taken(t).calm = turn[t].calm /\ Taken(t).attempt = turn[t].attempt
<1>1. turn[t] \in Turn /\ ~turn[t].heard /\ ~turn[t].again
  BY TurnFields DEF ChatInv, TurnsAreFresh
<1>2. Taken(t) = [turn[t] EXCEPT !.again = turn[t].heard]
  BY DEF Taken
<1>3. turn[t].heard \in BOOLEAN
  BY <1>1 DEF Turn
<1> HIDE DEF Taken
<1> QED BY <1>1, <1>2, <1>3 DEF Turn

LEMMA RecordedFacts ==
  ASSUME ChatInv, NEW t \in Turns, turn[t] \in Turn, NEW kinds \in SUBSET {"user", "agent"},
         Recorded(t, kinds)
  PROVE  history' \in [Keys -> SUBSET Entry]
<1> DEFINE k == <<turn[t].profile, turn[t].key[2]>>
           new == {[kind |-> kind, turn |-> t, live |-> FALSE] : kind \in kinds}
<1>1. history' = [history EXCEPT ![k] = history[k] \cup new]
  BY DEF Recorded
<1>2. history \in [Keys -> SUBSET Entry] /\ k \in Keys
  BY DEF ChatInv, PageTypes, Turn, Keys
<1>3. \A kind \in kinds : [kind |-> kind, turn |-> t, live |-> FALSE] \in Entry
  BY DEF Entry
<1>4. new \subseteq Entry
  BY <1>3
<1> HIDE DEF k, new
<1> QED BY <1>1, <1>2, <1>4

(* A turn that goes on from a record of it.                                *)
LEMMA GoesKeepsInv ==
  ASSUME ChatInv, NEW t \in Turns, turn[t] \in Turn, turn[t].at # "done", NEW r \in Turn,
         NEW place \in {"post", "streaming", "fallback", "waiting"}, Goes(t, place, r), KeepsOn,
         history' \in [Keys -> SUBSET Entry],
         r.key = turn[t].key, r.profile = turn[t].profile, r.calm => turn[t].calm, ~r.again,
         place \in {"post", "fallback", "waiting"} => ~r.heard,
         place = "waiting" => r.attempt + 1 < MaxAttempts
  PROVE  ChatInv'
<1> DEFINE q == [r EXCEPT !.at = place]
<1>1. /\ q \in Turn /\ q.at = place /\ q.key = r.key /\ q.profile = r.profile
      /\ q.calm = r.calm /\ q.again = r.again /\ q.heard = r.heard /\ q.attempt = r.attempt
  BY RecordGoes
<1>2. turn' = [turn EXCEPT ![t] = q]
  BY DEF Goes
<1>3. busy' = busy /\ UNCHANGED <<uiVars, shown, loaded, slot, owner, gone, switched>>
  BY DEF KeepsOn
<1> HIDE DEF q
<1>4. /\ q.key = turn[t].key /\ q.profile = turn[t].profile /\ (q.calm => turn[t].calm) /\ ~q.again
      /\ q.at \in {"post", "fallback", "waiting"} => ~q.heard
      /\ q.at = "waiting" => q.attempt + 1 < MaxAttempts
  BY <1>1
<1> QED BY <1>1, <1>2, <1>3, <1>4, TurnKeepsInv

LEMMA EndsKeepsInv ==
  ASSUME ChatInv, NEW t \in Turns, turn[t] \in Turn, turn[t].at # "done", NEW r \in Turn,
         Ends(t, r), history' \in [Keys -> SUBSET Entry],
         r.key = turn[t].key, r.profile = turn[t].profile, r.calm => turn[t].calm, ~r.again
  PROVE  ChatInv'
<1> DEFINE q == [r EXCEPT !.at = "done"]
<1>1. /\ q \in Turn /\ q.at = "done" /\ q.key = r.key /\ q.profile = r.profile
      /\ q.calm = r.calm /\ q.again = r.again
  BY RecordGoes
<1>2. turn' = [turn EXCEPT ![t] = q] /\ busy' = busy \ {turn[t].profile}
      /\ UNCHANGED <<uiVars, shown, loaded, slot, owner, gone, switched>>
  BY DEF Ends, Goes
<1> HIDE DEF q
<1>3. /\ q.key = turn[t].key /\ q.profile = turn[t].profile /\ (q.calm => turn[t].calm) /\ ~q.again
      /\ q.at \in {"post", "fallback", "waiting"} => ~q.heard
      /\ q.at = "waiting" => q.attempt + 1 < MaxAttempts
  BY <1>1
<1> QED BY <1>1, <1>2, <1>3, TurnKeepsInv

LEMMA BusyKeepsInv ==
  ASSUME ChatInv, NEW t \in Turns, turn[t] \in Turn, turn[t].at # "done", ~turn[t].heard,
         Busy(t), UNCHANGED history
  PROVE  ChatInv'
<1>1. history' \in [Keys -> SUBSET Entry] /\ ~turn[t].again
  BY TurnFields DEF ChatInv, PageTypes, TurnsAreFresh, Turn, NoTurn
<1>2. CASE turn[t].attempt + 1 < MaxAttempts
  <2>1. Goes(t, "waiting", turn[t]) /\ KeepsOn
    BY <1>2 DEF Busy
  <2> QED BY <1>1, <1>2, <2>1, GoesKeepsInv
<1>3. CASE ~(turn[t].attempt + 1 < MaxAttempts)
  <2>1. Ends(t, turn[t])
    BY <1>3 DEF Busy
  <2> QED BY <1>1, <2>1, EndsKeepsInv
<1> QED BY <1>2, <1>3

LEMMA TurnStepKeepsInv ==
  ASSUME ChatInv, NEW t \in Turns, TurnStep(t) PROVE ChatInv'
<1>1. turn[t].at \in {"waiting", "post", "streaming", "fallback"}
  BY DEF TurnStep, TryAgain, StreamLost, StreamBusy, StreamOpens, StreamChunk, StreamDone,
         StreamErrorBusy, StreamBreaks, Fallback, At
<1>2. /\ turn[t] \in Turn /\ turn[t] # NoTurn /\ turn[t].at # "done" /\ ~turn[t].again
      /\ turn[t].at # "streaming" => ~turn[t].heard
      /\ turn[t].at = "waiting" => turn[t].attempt + 1 < MaxAttempts
  BY <1>1, TurnFields DEF ChatInv, TurnsAreFresh
<1>3. history \in [Keys -> SUBSET Entry]
  BY DEF ChatInv, PageTypes
<1>4. /\ {"user"} \in SUBSET {"user", "agent"} /\ {"agent"} \in SUBSET {"user", "agent"}
      /\ {"user", "agent"} \in SUBSET {"user", "agent"}
  OBVIOUS
<1>5. CASE TryAgain(t)
  <2> DEFINE r == [turn[t] EXCEPT !.attempt = turn[t].attempt + 1]
  <2>1. turn[t].at = "waiting" /\ Goes(t, "post", r) /\ KeepsOn /\ UNCHANGED history
    BY <1>5 DEF TryAgain, At
  <2>2. turn[t].attempt + 1 \in 0..(MaxAttempts - 1)
    BY <1>2, <2>1, ChatAssumption DEF Turn
  <2>3. /\ r \in Turn /\ r.key = turn[t].key /\ r.profile = turn[t].profile
        /\ r.calm = turn[t].calm /\ ~r.again /\ ~r.heard
    BY <1>2, <2>1, <2>2 DEF Turn
  <2> HIDE DEF r
  <2>4. history' \in [Keys -> SUBSET Entry]
    BY <1>3, <2>1
  <2> QED BY <1>2, <2>1, <2>3, <2>4, GoesKeepsInv
<1>6. CASE StreamLost(t)
  <2>1. /\ turn[t].at = "post" /\ KeepsOn /\ UNCHANGED history
        /\ Goes(t, "fallback", turn[t]) \/ Goes(t, "fallback", Taken(t))
    BY <1>6 DEF StreamLost, At
  <2>2. history' \in [Keys -> SUBSET Entry]
    BY <1>3, <2>1
  <2>3. CASE Goes(t, "fallback", turn[t])
    BY <1>2, <2>1, <2>2, <2>3, GoesKeepsInv
  <2>4. CASE Goes(t, "fallback", Taken(t))
    BY <1>2, <2>1, <2>2, <2>4, TakenFacts, GoesKeepsInv
  <2> QED BY <2>1, <2>3, <2>4
<1>7. CASE StreamBusy(t)
  <2>1. turn[t].at = "post" /\ Busy(t) /\ UNCHANGED history
    BY <1>7 DEF StreamBusy, At
  <2> QED BY <1>2, <2>1, BusyKeepsInv
<1>8. CASE StreamOpens(t)
  <2>1. turn[t].at = "post" /\ Goes(t, "streaming", Taken(t)) /\ Recorded(t, {"user"}) /\ KeepsOn
    BY <1>8 DEF StreamOpens, At
  <2>2. history' \in [Keys -> SUBSET Entry]
    BY <1>2, <1>4, <2>1, RecordedFacts
  <2> QED BY <1>2, <2>1, <2>2, TakenFacts, GoesKeepsInv
<1>9. CASE StreamChunk(t)
  <2> DEFINE r == [turn[t] EXCEPT !.heard = TRUE]
  <2>1. Goes(t, "streaming", r) /\ KeepsOn /\ UNCHANGED history
    BY <1>9 DEF StreamChunk, At
  <2>2. /\ r \in Turn /\ r.key = turn[t].key /\ r.profile = turn[t].profile
        /\ r.calm = turn[t].calm /\ ~r.again
    BY <1>2 DEF Turn
  <2> HIDE DEF r
  <2>3. history' \in [Keys -> SUBSET Entry]
    BY <1>3, <2>1
  <2> QED BY <1>2, <2>1, <2>2, <2>3, GoesKeepsInv
<1>10. CASE StreamDone(t)
  <2>1. Ends(t, turn[t]) /\ Recorded(t, {"agent"})
    BY <1>10 DEF StreamDone
  <2>2. history' \in [Keys -> SUBSET Entry]
    BY <1>2, <1>4, <2>1, RecordedFacts
  <2> QED BY <1>2, <2>1, <2>2, EndsKeepsInv
<1>11. CASE StreamErrorBusy(t)
  <2>1. UNCHANGED history /\ (Ends(t, turn[t]) \/ (~turn[t].heard /\ Busy(t)))
    BY <1>11 DEF StreamErrorBusy
  <2>2. history' \in [Keys -> SUBSET Entry]
    BY <1>3, <2>1
  <2>3. CASE Ends(t, turn[t])
    BY <1>2, <2>2, <2>3, EndsKeepsInv
  <2>4. CASE ~turn[t].heard /\ Busy(t)
    BY <1>2, <2>1, <2>4, BusyKeepsInv
  <2> QED BY <2>1, <2>3, <2>4
<1>12. CASE StreamBreaks(t)
  <2>1. Ends(t, turn[t]) /\ (Recorded(t, {"agent"}) \/ UNCHANGED history)
    BY <1>12 DEF StreamBreaks
  <2>2. history' \in [Keys -> SUBSET Entry]
    BY <1>2, <1>3, <1>4, <2>1, RecordedFacts
  <2> QED BY <1>2, <2>1, <2>2, EndsKeepsInv
<1>13. CASE Fallback(t)
  <2>1. /\ turn[t].at = "fallback"
        /\ \/ Ends(t, Taken(t)) /\ Recorded(t, {"user", "agent"})
           \/ Ends(t, turn[t]) /\ (Recorded(t, {"user"}) \/ UNCHANGED history)
           \/ Busy(t) /\ UNCHANGED history
    BY <1>13 DEF Fallback, At
  <2>2. CASE Ends(t, Taken(t)) /\ Recorded(t, {"user", "agent"})
    <3>1. history' \in [Keys -> SUBSET Entry]
      BY <1>2, <1>4, <2>2, RecordedFacts
    <3> QED BY <1>2, <2>1, <2>2, <3>1, TakenFacts, EndsKeepsInv
  <2>3. CASE Ends(t, turn[t]) /\ (Recorded(t, {"user"}) \/ UNCHANGED history)
    <3>1. history' \in [Keys -> SUBSET Entry]
      BY <1>2, <1>3, <1>4, <2>3, RecordedFacts
    <3> QED BY <1>2, <2>3, <3>1, EndsKeepsInv
  <2>4. CASE Busy(t) /\ UNCHANGED history
    BY <1>2, <2>1, <2>4, BusyKeepsInv
  <2> QED BY <2>1, <2>2, <2>3, <2>4
<1> QED BY <1>5, <1>6, <1>7, <1>8, <1>9, <1>10, <1>11, <1>12, <1>13 DEF TurnStep

-----------------------------------------------------------------------------

LEMMA ChatInvInit == ChatInit => ChatInv
<1> SUFFICES ASSUME ChatInit PROVE ChatInv
  OBVIOUS
<1>1. /\ \A t \in Turns : turn[t] = NoTurn
      /\ \A s \in Slots : slot[s] = Free /\ slot[s].op = "none"
      /\ \A p \in Profiles : listed[p] = {} /\ active[p] = NoOne
      /\ loaded = {}
  BY DEF ChatInit, Free
<1>2. PageTypes
  BY DEF ChatInit, PageTypes, Request
<1> QED BY <1>1, <1>2 DEF ChatInv, TurnsAreFresh, ListsAreOwned, RequestsAreOwn,
                          OwnConversations, CalmIsAlone, Runs

LEMMA ChatInvStep == ChatInv /\ [ChatNext]_chatVars => ChatInv'
<1> SUFFICES ASSUME ChatInv, [ChatNext]_chatVars PROVE ChatInv'
  OBVIOUS
<1>1. CASE UNCHANGED chatVars
  <2>1. PageTypes' /\ TurnsAreFresh' /\ ListsAreOwned' /\ RequestsAreOwn' /\ OwnConversations'
    BY <1>1 DEF ChatInv, chatVars, uiVars, server, PageTypes, TurnsAreFresh, ListsAreOwned,
                RequestsAreOwn, OwnConversations
  <2>2. CalmIsAlone'
    BY <1>1 DEF ChatInv, chatVars, uiVars, server, CalmIsAlone, Alone, Runs, Loading, Pending
  <2> QED BY <2>1, <2>2 DEF ChatInv
<1>2. CASE Send \/ Retry
  BY <1>2, SendKeepsInv
<1>3. ASSUME NEW s \in Slots, UserStep(s) \/ Poll(s) PROVE ChatInv'
  BY <1>3, SelectKeepsInv, ProfileKeepsInv, AskKeepsInv, PollKeepsInv DEF UserStep
<1>4. ASSUME NEW s \in Slots, Answered(s) \/ RequestFails(s) PROVE ChatInv'
  BY <1>4, ServedKeepsInv, HistoryKeepsInv, ListKeepsInv, EmptyKeepsInv, NewConvKeepsInv,
     SendMadeKeepsInv, SendFailsKeepsInv, ArchivedKeepsInv, DeletedKeepsInv, FailKeepsInv DEF Answered
<1>5. ASSUME NEW t \in Turns, TurnStep(t) PROVE ChatInv'
  BY <1>5, TurnStepKeepsInv
<1> QED BY <1>1, <1>2, <1>3, <1>4, <1>5 DEF ChatNext

(* Every reachable state of the page satisfies the invariant.              *)
THEOREM ChatInvariance == ChatSpec => []ChatInv
  BY ChatInvInit, ChatInvStep, PTL DEF ChatSpec

(* A message whose answer has begun to show is not given to the agent once *)
(* more: an attempt is repeated only while it has not been heard of, which *)
(* is TurnsAreFresh.                                                       *)
THEOREM HeardOnce == ChatSpec => []NeverReasked
<1>1. ChatInv => NeverReasked
  BY DEF ChatInv, TurnsAreFresh, NeverReasked
<1> QED BY <1>1, ChatInvariance, PTL

(* The answer of a calm turn that runs stays in its transcript: the busy   *)
(* profile keeps polls and /retry away, what is loaded is not loaded again *)
(* by a selection, and no load of it was on its way when the turn began.   *)
THEOREM AnswersStayVisible == ChatSpec => []RunningIsVisible
<1>1. ChatInv => RunningIsVisible
  BY DEF ChatInv, CalmIsAlone, Alone, Runs, RunningIsVisible
<1> QED BY <1>1, ChatInvariance, PTL

(* Whatever order answers come in, a profile's conversation is its own,    *)
(* unless the profile was changed while one was being made, archived or    *)
(* deleted.                                                                *)
THEOREM ConversationsAreOwn == ChatSpec => []OwnConversations
<1>1. ChatInv => OwnConversations
  BY DEF ChatInv
<1> QED BY <1>1, ChatInvariance, PTL
===============================================================================
