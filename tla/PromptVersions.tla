--------------------------- MODULE PromptVersions ---------------------------
(***************************************************************************)
(* Managed instructions and their history (app.py): the prompt artifacts   *)
(* and the prompt contracts of the dashboard agents.  An update reads the  *)
(* row, writes it, audits and appends a version in transactions of their   *)
(* own; a rollback is an update that takes all fields from a version.  An  *)
(* artifact's version holds what its writer wrote, a contract's what is    *)
(* read again after the audit.                                             *)
(***************************************************************************)
EXTENDS Integers, FiniteSets, Sequences

CONSTANTS
  Field,        \* versioned fields of an instruction
  Text,         \* values of a field
  Admin,        \* requests that update or roll back one instruction
  VersionMax    \* bound: versions of the instruction

PromptAssumption == Field # {} /\ Text # {} /\ VersionMax \in Nat \ {0}

Content == [Field -> Text]

VARIABLES
  kind,      \* "artifact" or "contract"
  content,   \* the stored row
  history,   \* versions by number: [snapshot, target]
  edit,      \* per admin: the request under way
  dropped    \* contents whose writer did not append a version

vars == <<kind, content, history, edit, dropped>>

Idle == [at |-> "idle"]
Goto(a, state) == edit' = [edit EXCEPT ![a] = state]
Latest == Len(history)

-----------------------------------------------------------------------------
(* update_prompt_artifact, update_dashboard_agent: fields the request      *)
(* leaves out keep the value that is read first.                           *)
Read(a, patch, target) ==
  /\ edit[a] = Idle
  /\ Goto(a, [at |-> "write", before |-> content, target |-> target,
              after |-> [f \in Field |-> IF f \in DOMAIN patch THEN patch[f] ELSE content[f]]])
  /\ UNCHANGED <<kind, content, history, dropped>>

Update(a) ==
  \E F \in SUBSET Field : \E patch \in [F -> Text] : Read(a, patch, 0)

RestoredFields_newest(v) == history[Latest].snapshot
(* The request that rollback_prompt_artifact and                           *)
(* rollback_agent_prompt_contract make of a version.                       *)
RestoredFields(v) == history[v].snapshot

Rollback(a) == \E v \in 1..Latest : Read(a, RestoredFields(v), v)

Write(a) ==
  /\ edit[a].at = "write"
  /\ content' = edit[a].after
  /\ Goto(a, [edit[a] EXCEPT !.at = "reread"])
  /\ UNCHANGED <<kind, history, dropped>>

(* The audit row; a contract is read again and compared with its state     *)
(* before, an artifact is compared as it was requested.  A contract that   *)
(* another writer has changed meanwhile is versioned as that writer's.     *)
Recorded(a) == IF kind = "contract" THEN content ELSE edit[a].after
Audit(a) ==
  /\ edit[a].at = "reread"
  /\ LET after == Recorded(a)
         versioned == \/ after # edit[a].before
                      \/ kind = "artifact" /\ edit[a].target # 0
     IN /\ Goto(a, IF versioned THEN [edit[a] EXCEPT !.at = "number", !.after = after] ELSE Idle)
        /\ dropped' = IF after # edit[a].after THEN dropped \cup {edit[a].after} ELSE dropped
  /\ UNCHANGED <<kind, content, history>>

NextVersion(n) == n + 1

(* SELECT MAX(version) runs before the INSERT opens its transaction.       *)
Number(a) ==
  /\ edit[a].at = "number"
  /\ Latest < VersionMax
  /\ Goto(a, [at |-> "append", version |-> NextVersion(Latest), row |->
              [snapshot |-> edit[a].after, target |-> edit[a].target]])
  /\ UNCHANGED <<kind, content, history, dropped>>

(* UNIQUE(prompt_id, version): a writer that took the same number aborts,  *)
(* with its content already stored and audited.                            *)
Append_(a) ==
  /\ edit[a].at = "append"
  /\ IF edit[a].version \in 1..Latest
     THEN dropped' = dropped \cup {edit[a].row.snapshot} /\ UNCHANGED history
     ELSE /\ history' = [v \in 1..edit[a].version |->
                           IF v = edit[a].version THEN edit[a].row ELSE history[v]]
          /\ UNCHANGED dropped
  /\ Goto(a, Idle)
  /\ UNCHANGED <<kind, content>>

(* An exception or a crash between two transactions. *)
Abort(a) ==
  /\ edit[a] # Idle
  /\ dropped' = CASE edit[a].at = "reread" -> dropped \cup {edit[a].after}
                  [] edit[a].at = "number" -> dropped \cup {edit[a].after}
                  [] edit[a].at = "append" -> dropped \cup {edit[a].row.snapshot}
                  [] OTHER -> dropped
  /\ Goto(a, Idle)
  /\ UNCHANGED <<kind, content, history>>

-----------------------------------------------------------------------------
(* ensure_default_prompt_artifacts, ensure_agent_prompt_contract_baselines *)
Init ==
  /\ kind \in {"artifact", "contract"}
  /\ \E t \in Text : content = [f \in Field |-> t]
  /\ history = <<[snapshot |-> content, target |-> 1]>>
  /\ edit = [a \in Admin |-> Idle]
  /\ dropped = {}

Next == \E a \in Admin :
  Update(a) \/ Rollback(a) \/ Write(a) \/ Audit(a) \/ Number(a) \/ Append_(a) \/ Abort(a)

Spec == Init /\ [][Next]_vars

-----------------------------------------------------------------------------
(* Properties *)

TypeOK ==
  /\ kind \in {"artifact", "contract"}
  /\ content \in Content
  /\ history \in Seq([snapshot : Content, target : 0..VersionMax])
  /\ dropped \subseteq Content

Snapshots == {history[v].snapshot : v \in 1..Latest}
InFlight(a) ==
  \/ edit[a].at \in {"reread", "number"} /\ edit[a].after = content
  \/ edit[a].at = "append" /\ edit[a].row.snapshot = content

(* What is in force can be found in the history, unless its writer is      *)
(* about to append it, died before, lost the race for its number, or read  *)
(* another writer's contract in its place.                                 *)
InForceIsVersioned ==
  content \in Snapshots \cup dropped \/ \E a \in Admin : InFlight(a)

(* The version an artifact's rollback appends restores its target exactly, *)
(* whatever was written concurrently (rollback_prompt_artifact).           *)
RollbackRestores ==
  kind = "artifact" =>
    \A v \in 2..Latest : history[v].target # 0 =>
      /\ history[v].target < v
      /\ history[v].snapshot = history[history[v].target].snapshot

(* Versions keep their numbers and contents for good, and are numbered     *)
(* without a gap, so that a version an administrator saw can be restored.  *)
HistoryOnlyGrowsStep ==
  /\ Len(history') \in {Latest, Latest + 1}
  /\ \A v \in 1..Latest : history'[v] = history[v]
HistoryOnlyGrows == [][HistoryOnlyGrowsStep]_history

PromptHistorySound == InForceIsVersioned /\ RollbackRestores
=============================================================================
