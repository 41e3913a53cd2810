----------------------------- MODULE NetworkScan -----------------------------
(***************************************************************************)
(* One active scan of the network (run_network_discovery_scan in app.py    *)
(* and network_discovery.py), from the checks of its scope to its answer:  *)
(* a task per host and port behind a semaphore, the total timeout, an      *)
(* unexpected socket error, a cancelled request, and the audit receipts.   *)
(* Who may scan when is the subject of ScanLease.                          *)
(***************************************************************************)
EXTENDS Integers, FiniteSets, Sequences

CONSTANTS
  Scope,        \* requested ranges: [valid, v4, private, allowed, addresses]
  Port,         \* PROTOCOL_PORT_HINTS
  MaxHosts,     \* MAX_DISCOVERY_HOSTS
  Concurrency   \* MAX_DISCOVERY_CONCURRENCY

NetworkAssumption ==
  /\ Scope \subseteq [valid : BOOLEAN, v4 : BOOLEAN, private : BOOLEAN, allowed : BOOLEAN,
                     addresses : Nat \ {0}]
  /\ MaxHosts \in Nat /\ Concurrency \in Nat \ {0}

VARIABLES
  open,      \* the ports that accept a connection
  request,   \* [at, scope, status]
  task,      \* state of each check(address, port)
  receipts,  \* audit rows of the request
  queued,    \* observations that were stored, or {}
  lost       \* an audit row could not be written

vars == <<open, request, task, receipts, queued, lost>>

-----------------------------------------------------------------------------
(* enforce_network_discovery_scope: the refusal, if any.        *)
ScopeError(s) ==
  CASE ~s.valid   -> "bad_request"
    [] ~s.v4      -> "unavailable"
    [] ~s.allowed -> "forbidden"
    [] OTHER      -> "none"

(* private_scan_hosts.  Below /31, in a range of more than two addresses,  *)
(* the network and the broadcast address are not hosts.                    *)
Usable(s) == IF s.addresses > 2 THEN s.addresses - 2 ELSE s.addresses
HostsAdmitted(s) == s.private /\ Usable(s) <= MaxHosts
Hosts(s) == 1..Usable(s)

Checks(s) == Hosts(s) \X Port
In(states) == {t \in DOMAIN task : task[t] \in states}
Unfinished == In({"waiting", "probing", "cancelling"})

NoTask == [t \in {} |-> "waiting"]
Stage(s) == request' = [request EXCEPT !.at = s]
Receipt(kind) == receipts' = Append(receipts, kind)

-----------------------------------------------------------------------------
(* The request is authorized and its receipt written before the first      *)
(* packet; a refusal leaves nothing behind.                                *)
Refuse(s) ==
  /\ request.at = "new"
  /\ ScopeError(s) # "none"
  /\ request' = [at |-> "answered", scope |-> s, status |-> ScopeError(s)]
  /\ UNCHANGED <<open, task, receipts, queued, lost>>

Authorize(s) ==
  /\ request.at = "new"
  /\ ScopeError(s) = "none"
  /\ \/ /\ Receipt("authorized")
        /\ request' = [at |-> "authorized", scope |-> s, status |-> "none"]
        /\ UNCHANGED lost
     \/ /\ lost' = TRUE
        /\ request' = [at |-> "answered", scope |-> s, status |-> "error"]
        /\ UNCHANGED receipts
  /\ UNCHANGED <<open, task, queued>>

(* private_scan_hosts runs inside the runner, so a range that is too large *)
(* has been authorized already.                                            *)
BeginScan ==
  /\ request.at = "authorized"
  /\ IF HostsAdmitted(request.scope)
     THEN /\ task' = [t \in Checks(request.scope) |-> "waiting"]
          /\ Stage("scanning")
     ELSE /\ request' = [request EXCEPT !.at = "failed", !.status = "bad_request"]
          /\ UNCHANGED task
  /\ UNCHANGED <<open, receipts, queued, lost>>

(* check: the semaphore, the connection attempt and what it brings.  A     *)
(* slow host looks closed; an errno outside EXPECTED_CONNECT_ERRNOS raises.*)
Enter(t) ==
  /\ request.at = "scanning"
  /\ task[t] = "waiting"
  /\ Cardinality(In({"probing"})) < Concurrency
  /\ task' = [task EXCEPT ![t] = "probing"]
  /\ UNCHANGED <<open, request, receipts, queued, lost>>

Connect(t) ==
  /\ request.at = "scanning"
  /\ task[t] = "probing"
  /\ \E seen \in {"closed"} \cup IF t \in open THEN {"open"} ELSE {} :
       task' = [task EXCEPT ![t] = seen]
  /\ UNCHANGED <<open, request, receipts, queued, lost>>

CancelRest(tasks) ==
  [t \in DOMAIN tasks |-> IF tasks[t] \in {"waiting", "probing"} THEN "cancelling" ELSE tasks[t]]

(* gather hands the first exception on at once, while the others run.      *)
ConnectError(t) ==
  /\ request.at = "scanning"
  /\ task[t] = "probing"
  /\ task' = CancelRest([task EXCEPT ![t] = "raised"])
  /\ Stage("draining error")
  /\ UNCHANGED <<open, receipts, queued, lost>>

Deadline ==
  /\ request.at = "scanning"
  /\ task' = CancelRest(task)
  /\ Stage("draining timeout")
  /\ UNCHANGED <<open, receipts, queued, lost>>

(* The server cancels the handler, also while it waits for its tasks.      *)
CancelRequest ==
  /\ request.at \in {"scanning", "draining error", "draining timeout"}
  /\ task' = CancelRest(task)
  /\ Stage("draining cancel")
  /\ UNCHANGED <<open, receipts, queued, lost>>

(* A cancelled task ends, or ends with the answer it already had.          *)
Drain(t) ==
  /\ task[t] = "cancelling"
  /\ task' = [task EXCEPT ![t] = "cancelled"]
  /\ UNCHANGED <<open, request, receipts, queued, lost>>

Draining == request.at \in {"draining error", "draining timeout", "draining cancel"}
Drained_error == request.at = "draining error" \/ Unfinished = {}
Drained == Unfinished = {}

EndScan ==
  /\ request.at = "scanning" \/ Draining
  /\ Drained
  /\ request' =
       CASE request.at = "scanning"         -> [request EXCEPT !.at = "store", !.status = "completed"]
         [] request.at = "draining timeout" -> [request EXCEPT !.at = "store", !.status = "partial_timeout"]
         [] request.at = "draining error"   -> [request EXCEPT !.at = "failed", !.status = "unavailable"]
         [] OTHER                           -> [request EXCEPT !.at = "failed", !.status = "cancelled"]
  /\ UNCHANGED <<open, task, receipts, queued, lost>>

-----------------------------------------------------------------------------
(* queue_network_discovery_observations stores the observations and the    *)
(* completion receipt in one transaction.                                  *)
StoreResult ==
  /\ request.at = "store"
  /\ \/ /\ queued' = In({"open"})
        /\ Receipt("completed")
        /\ Stage("answered")
     \/ /\ request' = [request EXCEPT !.at = "failed", !.status = "unavailable"]
        /\ UNCHANGED <<receipts, queued>>
  /\ UNCHANGED <<open, task, lost>>

(* The receipt of a failure is written before the error is raised. *)
FailReceipt ==
  /\ request.at = "failed"
  /\ \/ Receipt("failed") /\ Stage("answered") /\ UNCHANGED lost
     \/ /\ request' = [request EXCEPT !.at = "answered", !.status = "error"]
        /\ lost' = TRUE
        /\ UNCHANGED receipts
  /\ UNCHANGED <<open, task, queued>>

NextRequest ==
  /\ request.at = "answered"
  /\ request' = [at |-> "new", status |-> "none"]
  /\ task' = NoTask
  /\ receipts' = <<>>
  /\ queued' = {}
  /\ lost' = FALSE
  /\ UNCHANGED open

Init ==
  /\ open \in SUBSET UNION {Checks(s) : s \in {q \in Scope : ScopeError(q) = "none" /\ HostsAdmitted(q)}}
  /\ request = [at |-> "new", status |-> "none"]
  /\ task = NoTask
  /\ receipts = <<>>
  /\ queued = {}
  /\ lost = FALSE

Next ==
  \/ \E s \in Scope : Refuse(s) \/ Authorize(s)
  \/ BeginScan \/ Deadline \/ CancelRequest \/ EndScan \/ StoreResult \/ FailReceipt \/ NextRequest
  \/ \E t \in DOMAIN task : Enter(t) \/ Connect(t) \/ ConnectError(t) \/ Drain(t)

Spec == Init /\ [][Next]_vars

-----------------------------------------------------------------------------
(* Properties *)

TypeOK ==
  /\ request.at \in {"new", "authorized", "scanning", "draining error", "draining timeout",
                     "draining cancel", "store", "failed", "answered"}
  /\ \A t \in DOMAIN task : task[t] \in {"waiting", "probing", "cancelling", "open", "closed",
                                         "raised", "cancelled"}
  /\ receipts \in Seq({"authorized", "completed", "failed"})
  /\ queued \subseteq open
  /\ lost \in BOOLEAN

(* However a scan ends, none of its connection attempts outlives it, and   *)
(* never do more run than the limit (scan_private_network).                *)
NoStrayProbe ==
  /\ Cardinality(In({"probing"})) <= Concurrency
  /\ (request.at # "scanning" /\ ~Draining) => Unfinished = {}

(* A scan that says it is complete looked at every port of every host, and *)
(* what is queued are ports that were seen open.                           *)
ResultIsTrue ==
  /\ request.at \in {"store", "answered"} /\ request.status = "completed" =>
       In({"open", "closed"}) = Checks(request.scope)
  /\ queued \subseteq In({"open"})

(* An answered scan has its authorization and one outcome in the trail,    *)
(* unless the trail could not be written; what was queued is completed.    *)
ReceiptsTellOutcome ==
  request.at = "answered" /\ ~lost =>
    /\ receipts \in {<<>>, <<"authorized", "completed">>, <<"authorized", "failed">>}
    /\ queued # {} => receipts[2] = "completed"
    /\ receipts = <<>> <=> ScopeError(request.scope) # "none"

(* No packet leaves for a range outside the allowlist or over the limit. *)
ScopeKept ==
  DOMAIN task # {} =>
    /\ request.scope.valid /\ request.scope.v4 /\ request.scope.allowed /\ request.scope.private
    /\ Cardinality(Hosts(request.scope)) \in 1..MaxHosts
    /\ "authorized" = receipts[1]

ScanSound == NoStrayProbe /\ ResultIsTrue /\ ReceiptsTellOutcome /\ ScopeKept
=============================================================================
