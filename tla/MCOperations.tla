----------------------------- MODULE MCOperations -----------------------------
(* Instances for TLC of the components whose work must come to an end: the *)
(* scan lease, the approval of hardware evidence, the lockout of a subject *)
(* and the service checks. They share no variable, so a run takes them     *)
(* side by side: `active` picks the component of a behaviour, and the      *)
(* others rest in a state of their Init. The service checks come twice,    *)
(* two services under one loop and one service under a loop and an         *)
(* operator's request.                                                     *)
EXTENDS ScanLease, TLC

CONSTANTS
  Candidate, Worker, RegistrationMax,
  Loop, Request, Threshold, CountMax, FaultMax

VARIABLES
  active,
  production, status, written, registered, reposted, lost, req,
  answering, health, settings, review, check, faults,
  answering1, health1, settings1, review1, check1, faults1,
  bucket, attempt, failed

Approval == INSTANCE HardwareApproval
Services == INSTANCE ServiceHealth WITH ServiceCount <- 2, Request <- {}
Overlap == INSTANCE ServiceHealth
  WITH ServiceCount <- 1, answering <- answering1, health <- health1,
       settings <- settings1, review <- review1, check <- check1, faults <- faults1

Limiter == INSTANCE AuthLimiter
  WITH Worker <- Loop, PasswordKey <- {"login"}, TokenKey <- {"t1"}, PasswordLimit <- 2, TokenLimit <- 1,
       PasswordWindow <- 3, TokenWindow <- 1, KeyMax <- 2, LockWait <- 1, request <- attempt

ASSUME InstanceAssumption ==
  /\ Approval!BoundAssumption /\ Limiter!LimitAssumption
  /\ Services!HealthAssumption /\ Overlap!HealthAssumption

approvalVars == <<production, status, written, registered, reposted, lost, req>>
healthVars == <<answering, health, settings, review, check, faults>>
overlapVars == <<answering1, health1, settings1, review1, check1, faults1>>
limiterVars == <<bucket, attempt, failed>>
all == <<active, vars, approvalVars, healthVars, overlapVars, limiterVars>>

OperationsInit ==
  /\ active \in {"scan", "approval", "limiter", "services", "overlap"}
  /\ Init
  /\ Approval!Init /\ (active = "approval" \/ production)
  /\ Limiter!Init
  /\ Services!Init /\ (active # "services" => answering = {} /\ ~settings.enabled)
  /\ Overlap!Init /\ (active # "overlap" => answering1 = {} /\ ~settings1.enabled)

OperationsNext ==
  /\ UNCHANGED active
  /\ \/ /\ active = "scan" /\ Next
        /\ UNCHANGED <<approvalVars, limiterVars, healthVars, overlapVars>>
     \/ /\ active = "approval" /\ Approval!Next
        /\ UNCHANGED <<vars, limiterVars, healthVars, overlapVars>>
     \/ /\ active = "limiter" /\ Limiter!Next
        /\ UNCHANGED <<vars, approvalVars, healthVars, overlapVars>>
     \/ /\ active = "services" /\ Services!Next
        /\ UNCHANGED <<vars, approvalVars, limiterVars, overlapVars>>
     \/ /\ active = "overlap" /\ Overlap!Next
        /\ UNCHANGED <<vars, approvalVars, limiterVars, healthVars>>

(* The fairness of each component, for the behaviours it is active in. *)
OperationsFairness ==
  /\ WF_vars(active = "scan" /\ Tick)
  /\ \A p \in Process : WF_vars(active = "scan" /\ Serve(p))
  /\ \A w \in Worker : WF_approvalVars(active = "approval" /\ Approval!Work(w))
  /\ WF_limiterVars(active = "limiter" /\ Limiter!Tick)
  /\ \A w \in Loop : WF_limiterVars(active = "limiter" /\ Limiter!Run(w))
  /\ \A r \in Loop : WF_healthVars(active = "services" /\ Services!BeginLoop(r))
  /\ \A r \in Loop : WF_healthVars(active = "services" /\ Services!Advance(r))
  /\ \A r \in Loop : WF_overlapVars(active = "overlap" /\ Overlap!BeginLoop(r))
  /\ \A r \in Loop \cup Request : WF_overlapVars(active = "overlap" /\ Overlap!Advance(r))

OperationsSpec == OperationsInit /\ [][OperationsNext]_all /\ OperationsFairness

-----------------------------------------------------------------------------
(* HardwareApproval: every claim of approve_hardware_discovery_candidate   *)
(* is resolved.                                                            *)
ClaimsAreResolved == Approval!ClaimsAreResolved

(* AuthLimiter: a lockout ends by itself, whatever is tried while it lasts. *)
LockoutEnds == Limiter!LockoutEnds

(* ServiceHealth: persistent failures are escalated and recoveries settle. *)
ChecksConverge == Services!ChecksConverge /\ Overlap!ChecksConverge
=============================================================================
