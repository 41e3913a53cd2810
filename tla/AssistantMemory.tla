-------------------------- MODULE AssistantMemory --------------------------
(***************************************************************************)
(* The assistant's ledger and its memory policy (app.py): chats record     *)
(* interactions of a session, operators rate them, tools are proposed, and *)
(* every chat and every policy change sweeps what the policy does not keep.*)
(***************************************************************************)
EXTENDS Integers, FiniteSets

CONSTANTS
  Interaction,   \* interaction_id
  Session,       \* session_id, in the order of the identifiers
  Chat,          \* chat requests
  Operator,      \* operators rating an answer
  None,
  PolicyChoice,  \* bound: the policies administrators set
  ProposalMax,   \* bound: tool proposals of a session
  ClockMax       \* bound

MemoryAssumption ==
  /\ Session \subseteq Nat /\ None \notin Interaction \cup Session \cup [session : Session, at : 0..ClockMax]
  /\ ClockMax \in Nat /\ ProposalMax \in Nat
  /\ PolicyChoice \subseteq [hours : Nat \ {0}, sessions : Nat \ {0}, budget : Nat \ {0}, prune : BOOLEAN]

VARIABLES
  policy,         \* ai_memory_policy
  interactions,   \* assistant_interactions: [session, at] or None
  feedback,       \* assistant_feedback: [by, interaction, session]
  proposals,      \* assistant_tool_proposals: [session, number]
  chat,           \* Chat and "admin" -> where the request is
  rating,         \* Operator -> the row about to be inserted, or None
  clock           \* hours

vars == <<policy, interactions, feedback, proposals, chat, rating, clock>>

Admin == "admin"
Idle == [at |-> "idle"]

Live(is) == {i \in Interaction : is[i] # None}
Of(is, S) == {i \in Live(is) : is[i].session \in S}
Sessions(is) == {is[i].session : i \in Live(is)}
LastSeen(is, s) ==
  LET seen == {is[i].at : i \in Of(is, {s})} IN CHOOSE t \in seen : \A u \in seen : u <= t
Older(is, s, t) ==
  \/ LastSeen(is, s) < LastSeen(is, t)
  \/ LastSeen(is, s) = LastSeen(is, t) /\ s < t
Without(is, gone) == [i \in Interaction |-> IF i \in gone THEN None ELSE is[i]]

(***************************************************************************)
(* enforce_ai_memory_policy, one transaction, in the units of its estimate:*)
(* an interaction weighs two, a proposal and a rating one each.            *)
(***************************************************************************)
Usage(db) == 2 * Cardinality(Live(db.is)) + Cardinality(db.fs) + Cardinality(db.ps)

Drop(db, S) ==     \* the interactions, ratings and proposals of sessions S
  [is |-> Without(db.is, Of(db.is, S)),
   fs |-> {f \in db.fs : f.session \notin S},
   ps |-> {x \in db.ps : x.session \notin S}]

Expire(db, p) ==
  LET gone == {i \in Live(db.is) : db.is[i].at < clock - p.hours} IN
    [db EXCEPT !.is = Without(@, gone), !.fs = {f \in @ : f.interaction \notin gone}]

CapSessions_oldest(db, p, kept) ==
  LET others == Sessions(db.is) \ {kept}
      room == p.sessions - Cardinality(Sessions(db.is) \cap {kept})
  IN Drop(db, {s \in others : Cardinality({t \in others : Older(db.is, t, s)}) >= room})

CapSessions(db, p, kept) ==     \* the newest stay, the protected one among them
  LET others == Sessions(db.is) \ {kept}
      room == p.sessions - Cardinality(Sessions(db.is) \cap {kept})
  IN Drop(db, {s \in others : Cardinality({t \in others : Older(db.is, s, t)}) >= room})

CapUsage(db, p, kept) ==        \* the oldest go until the rest fits
  LET others == Sessions(db.is) \ {kept}
      before(s) == {t \in others : Older(db.is, t, s)}
  IN Drop(db, {s \in others : Usage(Drop(db, before(s))) > p.budget})

Orphans(db) ==
  [db EXCEPT !.fs = {f \in @ : f.interaction \in Live(db.is)},
             !.ps = {x \in @ : x.session \in Sessions(db.is)}]

Swept(p, kept) ==
  LET db == [is |-> interactions, fs |-> feedback, ps |-> proposals]
  IN Orphans(CapUsage(CapSessions(Expire(db, p), p, kept), p, kept))

(***************************************************************************)
(* Requests.  The policy is read on a connection of its own, before the    *)
(* sweep's transaction.                                                    *)
(***************************************************************************)
Fresh(i) ==     \* no row or request names the new id
  /\ interactions[i] = None /\ \A f \in feedback : f.interaction # i
  /\ \A o \in Operator : rating[o] # None => rating[o].interaction # i
  /\ \A c \in Chat : chat[c] # Idle => chat[c].protected # i

AddInteraction(c, i, s) ==
  /\ chat[c] = Idle /\ Fresh(i)
  /\ interactions' = [interactions EXCEPT ![i] = [session |-> s, at |-> clock]]
  /\ chat' = [chat EXCEPT ![c] = [at |-> "recorded", protected |-> i]]
  /\ UNCHANGED <<policy, feedback, proposals, rating, clock>>

UpdatePolicy(p) ==
  /\ chat[Admin] = Idle /\ policy' = p
  /\ chat' = [chat EXCEPT ![Admin] = [at |-> "recorded", protected |-> None]]
  /\ UNCHANGED <<interactions, feedback, proposals, rating, clock>>

ReadPolicy(c) ==
  /\ chat[c].at = "recorded"
  /\ chat' = [chat EXCEPT ![c] =
       IF policy.prune THEN [at |-> "sweeping", policy |-> policy, protected |-> @.protected] ELSE Idle]
  /\ UNCHANGED <<policy, interactions, feedback, proposals, rating, clock>>

ProtectedSession(c) ==
  LET i == chat[c].protected IN
    IF i = None THEN None ELSE IF interactions[i] = None THEN None ELSE interactions[i].session

Sweep(c) ==
  /\ chat[c].at = "sweeping"
  /\ LET db == Swept(chat[c].policy, ProtectedSession(c)) IN
       interactions' = db.is /\ feedback' = db.fs /\ proposals' = db.ps
  /\ chat' = [chat EXCEPT ![c] = Idle]
  /\ UNCHANGED <<policy, rating, clock>>

(* add_assistant_feedback looks the interaction up before it inserts.      *)
BeginFeedback(o, i) ==
  /\ rating[o] = None /\ interactions[i] # None
  /\ rating' = [rating EXCEPT ![o] = [by |-> o, interaction |-> i, session |-> interactions[i].session]]
  /\ UNCHANGED <<policy, interactions, feedback, proposals, chat, clock>>
AddFeedback(o) ==
  /\ rating[o] # None
  /\ feedback' = feedback \cup {rating[o]}
  /\ rating' = [rating EXCEPT ![o] = None]
  /\ UNCHANGED <<policy, interactions, proposals, chat, clock>>

(* upsert_assistant_tool_proposal does not look at the session.            *)
Propose(s) ==
  LET known == {x \in proposals : x.session = s}
  IN /\ Cardinality(known) < ProposalMax
     /\ proposals' = proposals \cup {[session |-> s, number |-> Cardinality(known) + 1]}
  /\ UNCHANGED <<policy, interactions, feedback, chat, rating, clock>>

Tick ==
  /\ clock < ClockMax /\ clock' = clock + 1
  /\ UNCHANGED <<policy, interactions, feedback, proposals, chat, rating>>

Init ==
  /\ policy \in PolicyChoice
  /\ interactions = [i \in Interaction |-> None]
  /\ feedback = {} /\ proposals = {}
  /\ chat = [c \in Chat \cup {Admin} |-> Idle]
  /\ rating = [o \in Operator |-> None] /\ clock = 0

Next ==
  \/ \E c \in Chat, i \in Interaction, s \in Session : AddInteraction(c, i, s)
  \/ \E p \in PolicyChoice : UpdatePolicy(p)
  \/ \E c \in Chat \cup {Admin} : ReadPolicy(c) \/ Sweep(c)
  \/ \E o \in Operator, i \in Interaction : BeginFeedback(o, i)
  \/ \E o \in Operator : AddFeedback(o)
  \/ \E s \in Session : Propose(s)
  \/ Tick

Spec == Init /\ [][Next]_vars

-----------------------------------------------------------------------------
(* Properties *)

Rating == [by : Operator, interaction : Interaction, session : Session]
TypeOK ==
  /\ policy \in PolicyChoice
  /\ interactions \in [Interaction -> [session : Session, at : 0..ClockMax] \cup {None}]
  /\ feedback \subseteq Rating /\ proposals \subseteq [session : Session, number : 1..ProposalMax]
  /\ \A c \in Chat \cup {Admin} : chat[c].at \in {"idle", "recorded", "sweeping"}
  /\ rating \in [Operator -> Rating \cup {None}]

(* What a sweep removes ahead of its age belongs to a session older than   *)
(* every session it keeps, the protected one aside, and the interaction a  *)
(* chat sweeps for survives unless another sweep took it first.            *)
NewestStay(c) ==
  LET p == chat[c].policy
      early == {i \in Live(interactions) \ Live(interactions') : interactions[i].at >= clock - p.hours}
      kept == Sessions(interactions') \ {ProtectedSession(c)}
  IN /\ \A i \in early, s \in kept : Older(interactions, interactions[i].session, s)
     /\ chat[c].protected \in Live(interactions) =>
          \/ chat[c].protected \in Live(interactions')
          \/ interactions[chat[c].protected].at < clock - p.hours
     /\ Cardinality(Sessions(interactions')) <= p.sessions

(* Nothing outlives what it belongs to: ratings their interaction,         *)
(* proposals their session.                                                *)
NoOrphans ==
  /\ \A f \in feedback' : f.interaction \in Live(interactions')
  /\ \A x \in proposals' : x.session \in Sessions(interactions')

(* What is left fits the budget, unless it is the protected session alone. *)
FitsBudget(c) ==
  LET left == [is |-> interactions', fs |-> feedback', ps |-> proposals']
  IN Usage(left) <= chat[c].policy.budget \/ Sessions(interactions') \subseteq {ProtectedSession(c)}

SweepKeepsNewest ==
  \A c \in Chat \cup {Admin} :
    chat[c].at = "sweeping" /\ chat'[c] = Idle => NewestStay(c) /\ NoOrphans /\ FitsBudget(c)
SweepSound == [][SweepKeepsNewest]_vars
=============================================================================
