---------------------------- MODULE ReleaseMission ----------------------------
(***************************************************************************)
(* The release mission (app.py): an evaluation suite, an assistant         *)
(* challenge, an autopilot mission and a continuous QA mission, one after  *)
(* the other, each leaving rows and findings in transactions of its own,   *)
(* and the reports that judge the release by the newest rows of every      *)
(* ledger.  Operators also run the parts by themselves, meanwhile or       *)
(* later, and the process may die between any two rows.                    *)
(***************************************************************************)
EXTENDS Integers, FiniteSets, Sequences

CONSTANTS
  Operator,      \* requests that run missions or parts of one
  Lane,          \* lanes of the continuous QA mission
  HealthChoice,  \* what a run finds: [baseline, qa, challenge, calm, lanes]
  Version,
  FailScore,     \* the score of a run with a failing case
  WorkMax        \* bound: requests in a behaviour

\* The lanes are the handful that continuous_qa_lanes lists: too few for
\* the rounding of their coverage to reach 100 with one missing.
ReleaseAssumption ==
  /\ Lane # {} /\ IsFiniteSet(Lane) /\ Cardinality(Lane) < 200
  /\ HealthChoice \subseteq [baseline : BOOLEAN, qa : BOOLEAN, challenge : BOOLEAN, calm : BOOLEAN,
                             lanes : SUBSET Lane]
  /\ FailScore \in 0..99 /\ WorkMax \in Nat

VARIABLES
  version,    \* of the running process
  health,     \* what a run finds now
  ledger,     \* ai_eval_runs and qa_challenge_runs: [label, ok]
  agentRuns,  \* rows of agent_runs that autopilot missions left
  findings,   \* evidence_findings: [source, id, ...]
  work,       \* per operator: the request under way
  started     \* requests so far; the newest number is an id

vars == <<version, health, ledger, agentRuns, findings, work, started>>

Part == {"baseline", "qa", "challenge", "autopilot", "lanes"}
Idle == [at |-> "idle"]
LastOf(s, Test(_)) ==
  LET I == {i \in DOMAIN s : Test(s[i])} IN IF I = {} THEN 0 ELSE CHOOSE i \in I : \A j \in I : j <= i

-----------------------------------------------------------------------------
(* Scores and gates.  A suite passes with the score 100 only.              *)
Score(ok) == IF ok THEN 100 ELSE FailScore
Ran_first(label) ==
  LET I == {i \in DOMAIN ledger : ledger[i].label = label}
  IN IF I = {} THEN 0 ELSE CHOOSE i \in I : \A j \in I : i <= j
(* latest_ai_eval_by_label and the newest challenge run. *)
Ran(label) == LET Same(r) == r.label = label IN LastOf(ledger, Same)
Passed(label) == Ran(label) # 0 /\ ledger[Ran(label)].ok
LatestScore(label) == IF Ran(label) = 0 THEN 0 ELSE Score(ledger[Ran(label)].ok)

(* continuous_qa_lanes and the coverage of build_continuous_qa_mission. *)
Coverage(ready) == (200 * Cardinality(ready) + Cardinality(Lane)) \div (2 * Cardinality(Lane))

(* latest_continuous_qa_mission: the mission of the newest lane finding.   *)
LaneFinding(f) == f.source = "lane"
LaneMission == LastOf(findings, LaneFinding)
LanesRecorded(id) == {findings[i].lane : i \in {j \in DOMAIN findings :
                                                 LaneFinding(findings[j]) /\ findings[j].id = id}}

(* release_decision_score_input, release_mission_summary, and the SLA in   *)
(* tenths of a percent.  The baseline and the challenge make no provider   *)
(* calls.                                                                  *)
DecisionScore(gatesReady) ==
  IF gatesReady /\ ledger # <<>> /\ findings # <<>> THEN 100
  ELSE IF health.calm THEN 100 ELSE FailScore
Kpi(baseline, qa, coverage, decision) == (10 * (baseline + qa + coverage + decision) + 2) \div 4
SlaMet(kpi) == 10 * kpi >= 9999

-----------------------------------------------------------------------------
(* latest_release_mission_status, as a reader sees it between two writes.  *)
ReleaseFinding(f) == f.source = "release"
LatestRelease == LastOf(findings, ReleaseFinding)

GatesReady ==
  Passed("baseline") /\ Passed("qa") /\ agentRuns > 0 /\ LaneMission # 0
CurrentKpi ==
  Kpi(LatestScore("baseline"), LatestScore("qa"), Coverage(health.lanes), DecisionScore(GatesReady))
MissionStatus ==
  IF LatestRelease = 0 THEN "waiting_for_run"
  ELSE LET latest == findings[LatestRelease]
       IN CASE latest.version # version -> "stale_evidence"
            [] latest.outcome = "completed" /\ ~SlaMet(CurrentKpi) -> "review_required"
            [] OTHER -> latest.outcome

(* qa_evidence_report *)
QaReportReady ==
  Passed("challenge") /\ LaneMission # 0 /\ Passed("qa") /\ health.lanes = Lane

-----------------------------------------------------------------------------
(* Requests.  `result` holds what the parts of a mission returned.         *)
Start(o, kind) ==
  /\ work[o] = Idle
  /\ started < WorkMax
  /\ started' = started + 1
  /\ work' = [work EXCEPT ![o] =
                [at |-> IF kind = "mission" THEN "baseline" ELSE kind, kind |-> kind,
                 id |-> started + 1, result |-> [baseline |-> FALSE, qa |-> FALSE,
                                                 lanes |-> {}], todo |-> {}]]
  /\ UNCHANGED <<version, health, ledger, agentRuns, findings>>

After(o, next) == IF work[o].kind = "mission" THEN next ELSE "done"
Found(f) == findings' = Append(findings, f)

FindingOf(part) ==
  CASE part = "baseline" -> "baseline finding"
    [] part = "qa" -> "qa finding"
    [] part = "challenge" -> "challenge finding"
(* run_ai_eval_suite, run_assistant_qa_challenge, run_qa_challenge: the    *)
(* run is stored, then its findings.                                       *)
RunSuite(o) ==
  /\ work[o].at \in {"baseline", "qa", "challenge"}
  /\ ledger' = Append(ledger, [label |-> work[o].at, ok |-> health[work[o].at]])
  /\ work' = [work EXCEPT ![o].at = FindingOf(work[o].at),
                          ![o].result = IF work[o].at = "challenge" THEN @
                                        ELSE [@ EXCEPT ![work[o].at] = health[work[o].at]]]
  /\ UNCHANGED <<version, health, agentRuns, findings, started>>

FindSuite(o) ==
  /\ work[o].at \in {"baseline finding", "qa finding", "challenge finding"}
  /\ Found([source |-> "suite", id |-> work[o].id])
  /\ work' = [work EXCEPT ![o].at = After(o, IF @ = "baseline finding" THEN "qa" ELSE "autopilot")]
  /\ UNCHANGED <<version, health, ledger, agentRuns, started>>

(* run_agent_autopilot_mission, whose runs AgenticControl follows. *)
Autopilot(o) ==
  /\ work[o].at = "autopilot"
  /\ agentRuns' = agentRuns + 1
  /\ work' = [work EXCEPT ![o].at = After(o, "lanes")]
  /\ UNCHANGED <<version, health, ledger, findings, started>>

(* record_continuous_qa_mission plans its lanes and records them one by    *)
(* one.                                                                    *)
PlanLanes(o) ==
  /\ work[o].at = "lanes"
  /\ work' = [work EXCEPT ![o].at = "record", ![o].todo = Lane, ![o].result.lanes = health.lanes]
  /\ UNCHANGED <<version, health, ledger, agentRuns, findings, started>>

LaneOutcome(o, l) == IF l \in work[o].result.lanes THEN "ready" ELSE "review_required"
RecordLane(o) ==
  /\ work[o].at = "record" /\ work[o].todo # {}
  /\ LET l == CHOOSE x \in work[o].todo : TRUE
     IN /\ Found([source |-> "lane", id |-> work[o].id, lane |-> l, outcome |-> LaneOutcome(o, l)])
        /\ work' = [work EXCEPT ![o].todo = @ \ {l}]
  /\ UNCHANGED <<version, health, ledger, agentRuns, started>>

LanesDone(o) ==
  /\ work[o].at = "record" /\ work[o].todo = {}
  /\ work' = [work EXCEPT ![o].at = After(o, "close")]
  /\ UNCHANGED <<version, health, ledger, agentRuns, findings, started>>

(* The verdict of run_release_mission is about its own results; only the   *)
(* decision brief is read from the store.  Its session evidence is a chat  *)
(* of AssistantMemory.                                                     *)
OwnGates(r) == r.baseline /\ r.qa
OwnKpi(r) == Kpi(Score(r.baseline), Score(r.qa), Coverage(r.lanes), DecisionScore(OwnGates(r)))
Close(o) ==
  /\ work[o].at = "close"
  /\ LET r == work[o].result
     IN Found([source |-> "release", id |-> work[o].id, version |-> version,
               outcome |-> IF OwnGates(r) /\ SlaMet(OwnKpi(r)) THEN "completed"
                           ELSE "review_required"])
  /\ work' = [work EXCEPT ![o].at = "done"]
  /\ UNCHANGED <<version, health, ledger, agentRuns, started>>

(* The audit row is written last and changes no report. *)
Finish(o) ==
  /\ work[o].at = "done"
  /\ work' = [work EXCEPT ![o] = Idle]
  /\ UNCHANGED <<version, health, ledger, agentRuns, findings, started>>

(* A part fails with an exception. *)
Abort(o) ==
  /\ work[o] # Idle
  /\ work' = [work EXCEPT ![o] = Idle]
  /\ UNCHANGED <<version, health, ledger, agentRuns, findings, started>>

(* The process restarts, perhaps in a new version. *)
Restart ==
  /\ version' \in Version
  /\ work' = [o \in Operator |-> Idle]
  /\ UNCHANGED <<health, ledger, agentRuns, findings, started>>

(* What the suites measure changes. *)
Change ==
  /\ health' \in HealthChoice
  /\ UNCHANGED <<version, ledger, agentRuns, findings, work, started>>

Init ==
  /\ version \in Version
  /\ health \in HealthChoice
  /\ ledger = <<>> /\ findings = <<>> /\ agentRuns = 0
  /\ work = [o \in Operator |-> Idle]
  /\ started = 0

Next ==
  \/ \E o \in Operator :
       \/ \E kind \in Part \cup {"mission"} : Start(o, kind)
       \/ RunSuite(o) \/ FindSuite(o) \/ Autopilot(o) \/ PlanLanes(o) \/ RecordLane(o)
       \/ LanesDone(o) \/ Close(o) \/ Finish(o) \/ Abort(o)
  \/ Restart \/ Change

Spec == Init /\ [][Next]_vars

-----------------------------------------------------------------------------
(* Properties *)

TypeOK ==
  /\ version \in Version /\ health \in HealthChoice
  /\ ledger \in Seq([label : {"baseline", "qa", "challenge"}, ok : BOOLEAN])
  /\ agentRuns \in 0..WorkMax
  /\ started \in 0..WorkMax
  /\ \A o \in Operator : work[o] # Idle => work[o].id \in 1..started

(* A release reported as completed was judged by this version and nothing  *)
(* recorded since speaks against it: the newest suite of either kind       *)
(* passed, and no failure was averaged away (latest_release_mission_status)*)
CompletedStillHolds ==
  MissionStatus = "completed" =>
    /\ findings[LatestRelease].version = version
    /\ \A label \in {"baseline", "qa"} :
         LET I == {i \in DOMAIN ledger : ledger[i].label = label}
         IN I # {} /\ \E i \in I : ledger[i].ok /\ \A j \in I : j <= i
    /\ health.lanes = Lane

(* The finding of a completed mission rests on findings of its own: every  *)
(* lane was recorded, as ready, before it, however many missions ran at    *)
(* once (run_release_mission).                                             *)
CompletedIsRecorded ==
  \A i \in DOMAIN findings :
    findings[i].source = "release" /\ findings[i].outcome = "completed" =>
      \A l \in Lane : \E j \in 1..(i - 1) :
        findings[j] = [source |-> "lane", id |-> findings[i].id, lane |-> l, outcome |-> "ready"]

(* The two reports on a release agree (qa_evidence_report).                *)
ReportsAgree == MissionStatus = "completed" /\ Passed("challenge") => QaReportReady

ReleaseSound == CompletedStillHolds /\ CompletedIsRecorded /\ ReportsAgree
=============================================================================
