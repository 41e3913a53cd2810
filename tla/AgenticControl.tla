--------------------------- MODULE AgenticControl ---------------------------
(***************************************************************************)
(* The operations control plane (agentic_control.py and its routes in      *)
(* app.py): guard cycles, task notes, agent tasks and autopilot missions.  *)
(* All of them share one JSON document, agentic_control_state, that is     *)
(* loaded, changed and saved in transactions of their own.                 *)
(*                                                                         *)
(* A request is the list of work it still has to do.  A task puts the      *)
(* control action it maps to in front of its own record, and a mission the *)
(* tasks of the agents it selected, as the calls of the code nest.         *)
(***************************************************************************)
EXTENDS Integers, Sequences, FiniteSets, SequencesExt

CONSTANTS
  Agents,       \* dashboard agents in the order of the registry
  Coordinator,  \* "operations_coordinator", one of them
  Request,      \* requests under way
  Objective,    \* values of the task notes
  None,         \* no action, no agent
  CycleMax,     \* bound: guard cycles
  MissionMax    \* bound: missions

Agent == ToSet(Agents)
Action == {"auto_guard.cycle", "autopilot.mission", "service.self_check"}

ControlAssumption ==
  /\ Agents \in Seq(Agent) /\ IsInjective(Agents) /\ Coordinator \in Agent
  /\ None \notin Agent \cup Action
  /\ CycleMax \in Nat /\ MissionMax \in Nat

VARIABLES
  enabled,    \* agents an administrator has enabled
  document,   \* agentic_control_state: last guard cycle and the task notes
  cycles,     \* guard cycles that have ended
  missions,   \* per mission: selected agents, agents of its runs, status
  todo        \* per request: what is left to do

vars == <<enabled, document, cycles, missions, todo>>

Document == [cycle : 0..CycleMax, checkpoint : 0..CycleMax, objective : Objective]
Goal == [mission : BOOLEAN, control : Action \cup {None}, words : SUBSET Action]

-----------------------------------------------------------------------------
(* Goals.  A goal carries the prefix "autopilot mission", a typed action   *)
(* after "control:", and words of the needle table in its order.           *)

FirstWord(goal) ==
  IF "auto_guard.cycle" \in goal.words THEN "auto_guard.cycle"
  ELSE IF "service.self_check" \in goal.words THEN "service.self_check"
  ELSE IF "autopilot.mission" \in goal.words THEN "autopilot.mission"
  ELSE None

ActionFromGoal(goal) ==
  IF goal.mission THEN None ELSE IF goal.control # None THEN goal.control ELSE FirstWord(goal)

(* execute_agent_task: a goal of a mission never becomes a control action, *)
(* whatever the words of its label and of the agent's display name.        *)
ControlOf(goal, action) ==
  IF goal.mission THEN None ELSE IF action # None THEN action ELSE ActionFromGoal(goal)

Task(goal, action, preferred, mission) ==
  [do |-> "task", goal |-> goal, action |-> action, preferred |-> preferred, mission |-> mission]
Plain(words) == [mission |-> FALSE, control |-> None, words |-> words]
Typed(action) == [mission |-> FALSE, control |-> action, words |-> {}]

Guard == [do |-> "guard"]
ControlWork(action) ==
  CASE action = "auto_guard.cycle" -> <<Guard>>
    [] action = "autopilot.mission" -> <<[do |-> "mission", words |-> {}, all |-> FALSE]>>
    [] OTHER -> <<>>

-----------------------------------------------------------------------------
(* Steps of a request *)

Top(r, what) == todo[r] # <<>> /\ Head(todo[r]).do = what
Become(r, items) == todo' = [todo EXCEPT ![r] = items \o Tail(@)]
Fail(r) == todo' = [todo EXCEPT ![r] = <<>>]

(* run_auto_guard: checks and reads first, then the document is loaded.    *)
LoadCycle(r) ==
  /\ Top(r, "guard") /\ cycles < CycleMax
  /\ cycles' = cycles + 1
  /\ Become(r, <<[do |-> "save", document |->
       [document EXCEPT !.cycle = cycles + 1, !.checkpoint = cycles + 1]]>>)
  /\ UNCHANGED <<enabled, document, missions>>

Noted_fresh(o) == [cycle |-> document.cycle, checkpoint |-> 0, objective |-> o]
Noted(o) == [document EXCEPT !.objective = o]
(* update_task_state *)
LoadNote(r) ==
  /\ Top(r, "note")
  /\ Become(r, <<[do |-> "save", document |-> Noted(Head(todo[r]).objective)]>>)
  /\ UNCHANGED <<enabled, document, cycles, missions>>

(* save_control_state puts the whole document. *)
Save(r) ==
  /\ Top(r, "save")
  /\ document' = Head(todo[r]).document
  /\ Become(r, <<>>)
  /\ UNCHANGED <<enabled, cycles, missions>>

(* choose_agent_for_goal; any enabled agent may own the keywords.          *)
Eligible(task) ==
  IF task.preferred # None THEN enabled \cap {task.preferred} ELSE enabled

StartTask(r) ==
  /\ Top(r, "task")
  /\ LET task == Head(todo[r])
     IN IF Eligible(task) = {}
        THEN Fail(r)
        ELSE \E a \in Eligible(task) :
               Become(r, ControlWork(ControlOf(task.goal, task.action)) \o
                         <<[do |-> "record", agent |-> a, mission |-> task.mission]>>)
  /\ UNCHANGED <<enabled, document, cycles, missions>>

(* add_agent_run and the finding of the run. *)
Record(r) ==
  /\ Top(r, "record")
  /\ LET run == Head(todo[r])
     IN missions' = IF run.mission = 0 THEN missions
                    ELSE [missions EXCEPT ![run.mission].ran = Append(@, run.agent)]
  /\ Become(r, <<>>)
  /\ UNCHANGED <<enabled, document, cycles>>

(* run_agent_autopilot_mission *)
Selected(all) ==
  LET I == {i \in DOMAIN Agents : all \/ Agents[i] \in enabled}
      Nth(n) == CHOOSE i \in I : Cardinality({j \in I : j < i}) = n - 1
  IN [n \in 1..Cardinality(I) |-> Agents[Nth(n)]]
StartMission(r) ==
  /\ Top(r, "mission") /\ Len(missions) < MissionMax
  /\ LET chosen == Selected(Head(todo[r]).all)
         m == Len(missions) + 1
         goal == [mission |-> TRUE, control |-> None, words |-> Head(todo[r]).words]
     IN IF chosen = <<>>
        THEN Fail(r) /\ UNCHANGED missions
        ELSE /\ missions' = Append(missions, [selected |-> chosen, ran |-> <<>>, status |-> "running"])
             /\ Become(r, [i \in 1..Len(chosen) |-> Task(goal, None, chosen[i], m)]
                          \o <<[do |-> "finish", mission |-> m]>>)
  /\ UNCHANGED <<enabled, document, cycles>>

FinishMission(r) ==
  /\ Top(r, "finish")
  /\ missions' = [missions EXCEPT ![Head(todo[r]).mission].status = "completed"]
  /\ Become(r, <<>>)
  /\ UNCHANGED <<enabled, document, cycles>>

-----------------------------------------------------------------------------
(* Requests *)

Submit(r, items) ==
  /\ todo[r] = <<>>
  /\ todo' = [todo EXCEPT ![r] = items]
  /\ UNCHANGED <<enabled, document, cycles, missions>>

(* The routes auto-guard, solve, agent-action, task/update, agents/tasks   *)
(* (and its A2A form) and autopilot/run, and the release mission.          *)
AutoGuard(r) == Submit(r, <<Guard>>)
Solve(r) == Submit(r, <<Guard, Task(Typed("auto_guard.cycle"), "auto_guard.cycle", Coordinator, 0)>>)
AgentAction(r, a) == Submit(r, <<Task(Typed(a), a, None, 0)>>)
UpdateTask(r, o) == Submit(r, <<[do |-> "note", objective |-> o]>>)
RunTask(r, w) ==
  \E preferred \in Agent \cup {None} : Submit(r, <<Task(Plain({w}), None, preferred, 0)>>)
RunMission(r, w, all) == Submit(r, <<[do |-> "mission", words |-> {w}, all |-> all]>>)

(* An error in a step, or the end of the process. *)
Crash(r) == todo[r] # <<>> /\ Fail(r) /\ UNCHANGED <<enabled, document, cycles, missions>>

(* update_dashboard_agent; PromptVersions has its steps. *)
Toggle(a) ==
  /\ enabled' = IF a \in enabled THEN enabled \ {a} ELSE enabled \cup {a}
  /\ UNCHANGED <<document, cycles, missions, todo>>

Init ==
  /\ enabled = Agent
  /\ document \in [cycle : {0}, checkpoint : {0}, objective : Objective]
  /\ cycles = 0
  /\ missions = <<>>
  /\ todo = [r \in Request |-> <<>>]

Next ==
  \/ \E r \in Request :
       \/ AutoGuard(r) \/ Solve(r) \/ Crash(r)
       \/ LoadCycle(r) \/ LoadNote(r) \/ Save(r)
       \/ StartTask(r) \/ Record(r) \/ StartMission(r) \/ FinishMission(r)
       \/ \E a \in Action : AgentAction(r, a) \/ RunTask(r, a)
       \/ \E a \in Action, all \in BOOLEAN : RunMission(r, a, all)
       \/ \E o \in Objective : UpdateTask(r, o)
  \/ \E a \in Agent : Toggle(a)

Spec == Init /\ [][Next]_vars

-----------------------------------------------------------------------------
(* Properties *)

TypeOK ==
  /\ enabled \subseteq Agent
  /\ document \in Document
  /\ cycles \in 0..CycleMax
  /\ \A m \in 1..Len(missions) :
       missions[m] \in [selected : Seq(Agent), ran : Seq(Agent), status : {"running", "completed"}]
  /\ \A r \in Request : \A i \in 1..Len(todo[r]) :
       todo[r][i].do = "task" => todo[r][i].goal \in Goal

(* Overlapping notes and guard cycles may lose each other's update, but    *)
(* never tear the document: the checkpoint to resume from is that of the   *)
(* guard cycle the document reports (run_auto_guard, update_task_state).   *)
CheckpointIsOfLastCycle == document.checkpoint = document.cycle

(* A mission only reviews: until it is finished its request runs nothing   *)
(* but the tasks of its agents, no guard cycle and no further mission      *)
(* ("Existing section-agent autopilot missions must not re-enter control").*)
MissionsOnlyReview ==
  \A r \in Request : \A last \in 1..Len(todo[r]) :
    todo[r][last].do = "finish" =>
      \A i \in 1..(last - 1) : /\ todo[r][i].do \in {"task", "record"}
                               /\ todo[r][i].mission = todo[r][last].mission

(* "Activate every section agent once": a mission that reports completion  *)
(* recorded one run of each agent it selected, in their order, although    *)
(* agents are disabled and other requests record runs meanwhile.           *)
CompletedMissionRanAll ==
  \A m \in 1..Len(missions) :
    /\ missions[m].status = "completed" => missions[m].ran = missions[m].selected
    /\ IsPrefix(missions[m].ran, missions[m].selected)

ControlConsistent == CheckpointIsOfLastCycle /\ MissionsOnlyReview /\ CompletedMissionRanAll
=============================================================================
