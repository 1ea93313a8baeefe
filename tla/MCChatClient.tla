---------------------------- MODULE MCChatClient ----------------------------
(***************************************************************************)
(* The page with two agents, in two parts of its work: looking at the      *)
(* agents and their conversations, where a turn that has begun gets no     *)
(* further, and talking to one agent.                                      *)
(***************************************************************************)
EXTENDS ChatClient

CONSTANTS A, B, c1, c2, Parts

VARIABLE part

MCInit ==
  /\ ChatInit /\ part \in Parts /\ profile = A
  /\ \E p \in {NoOne} \cup IF part = "browsing" THEN {B} ELSE {} :
       owner = [c \in Convs |-> CASE c = c1 -> A [] c = c2 -> p]

\* The user does not go to the other agent while a conversation is made, archived
\* or deleted; nor archives one while another is archived or deleted, or a
\* second turn has begun.
Browsing ==
  /\ \/ Send
     \/ \E s \in Slots : UserStep(s) \/ Answered(s) \/ RequestFails(s)
  /\ ~switched'
  /\ Pending({"archive"})' # {} =>
       Cardinality(Pending({"archive", "delete"})') = 1 /\ turn'[MaxTurns] = NoTurn

Talking ==
  \/ Send \/ Retry
  \/ \E s \in Slots : SelectProfile(s, A) \/ SelectConv(s, c1)
  \/ \E s \in Slots : Poll(s) \/ Answered(s) \/ RequestFails(s)
  \/ \E t \in Turns : TurnStep(t)

MCNext == UNCHANGED part /\ ((part = "browsing" /\ Browsing) \/ (part = "talking" /\ Talking))

MCSpec == MCInit /\ [][MCNext]_<<chatVars, part>> /\ ChatFairness
=============================================================================
