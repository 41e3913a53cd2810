-------------------------- MODULE OffhostReceipts --------------------------
(***************************************************************************)
(* The readiness check of the off-host backup (offhost_restore_receipt_    *)
(* status of app.py): a signed restore receipt, a recent observation of    *)
(* the mount signed by an independent verifier, the digest of the mounted  *)
(* backup and a ledger file in which each observation is consumed.         *)
(*                                                                         *)
(* Checks run in several threads; the files change under them.             *)
(***************************************************************************)
EXTENDS Integers, Sequences, FiniteSets

CONSTANTS
  Probe,        \* readiness requests
  Nonce,        \* nonces the verifier hands out
  Receipt,      \* contents of the receipt file
  NoEntry,      \* a ledger without an entry of this deployment
  Life,         \* OFFHOST_RECEIPT_LIVENESS_SECONDS
  ClockMax,     \* bound: clock ticks
  StampMax,     \* bound: versions of the backup object
  CacheMax      \* OFFHOST_BACKUP_VERIFY_CACHE entries

(* The checks of each document, in the order in which a failure answers.   *)
ReceiptChecks ==
  <<"not_configured", "invalid", "legacy_receipt_rejected", "signature_unavailable",
    "signature_invalid", "receipt_key_mismatch", "receipt_digest_unavailable",
    "receipt_digest_mismatch", "release_mismatch", "identity_mismatch", "deployment_mismatch",
    "invalid_timestamp", "stale">>
LivenessChecks ==
  <<"liveness_not_configured", "liveness_path_invalid", "liveness_invalid",
    "liveness_signature_unavailable", "liveness_signature_invalid", "liveness_key_mismatch",
    "liveness_key_not_separated", "provider_key_not_separated", "liveness_binding_mismatch",
    "liveness_timestamp_invalid", "liveness_expired", "immutability_unattested",
    "immutability_expired">>

Names(checks) == {checks[i] : i \in 1..Len(checks)}
FirstOf(checks, defects) ==
  checks[CHOOSE i \in 1..Len(checks) : checks[i] \in defects
           /\ \A j \in 1..(i - 1) : checks[j] \notin defects]

Time == 0..ClockMax
Observation == [nonce : Nonce, checked : Time, receipt : Receipt]

OffhostAssumption ==
  /\ Life \in Nat \ {0} /\ ClockMax \in Nat /\ StampMax \in Nat \ {0} /\ CacheMax \in Nat \ {0}
  /\ NoEntry \notin Observation

VARIABLES
  clock,
  receipt,     \* the receipt file: [id, defects]
  liveness,    \* the liveness file: [seen, defects], seen an observation
  issued,      \* observations signed so far
  object,      \* the mounted backup: [good, stamp]
  cache,       \* verification results by observation and stamp
  ledger,      \* the replay ledger file
  lock,        \* the probe that holds flock
  probe,       \* what each probe is doing
  consumed     \* the observation last answered "recorded"

vars == <<clock, receipt, liveness, issued, object, cache, ledger, lock, probe, consumed>>
files == <<receipt, liveness, issued, object>>

Idle == [at |-> "idle"]
Goto(p, state) == probe' = [probe EXCEPT ![p] = state]
Answer(p, state) == Goto(p, [at |-> "answer", state |-> state])

-----------------------------------------------------------------------------
(* offhost_restore_receipt_status *)
ReadReceipt(p) ==
  /\ probe[p] = Idle
  /\ IF receipt.defects # {}
     THEN Answer(p, FirstOf(ReceiptChecks, receipt.defects))
     ELSE Goto(p, [at |-> "liveness", receipt |-> receipt.id, now |-> clock])
  /\ UNCHANGED <<clock, files, cache, ledger, lock, consumed>>

(* offhost_restore_liveness_status: bindings and times follow from the     *)
(* observation, the other defects are given with the file.                 *)
LivenessDefects(f, r, now) ==
  f.defects
  \cup (IF f.seen.receipt # r THEN {"liveness_binding_mismatch"} ELSE {})
  \cup (IF f.seen.checked + Life <= now THEN {"liveness_expired"} ELSE {})

ReadLiveness(p) ==
  /\ probe[p].at = "liveness"
  /\ LET defects == LivenessDefects(liveness, probe[p].receipt, probe[p].now)
     IN IF defects # {}
        THEN Answer(p, FirstOf(LivenessChecks, defects))
        ELSE Goto(p, [at |-> "open", seen |-> liveness.seen])
  /\ UNCHANGED <<clock, files, cache, ledger, lock, consumed>>

Key(seen, stamp) == [seen |-> seen, stamp |-> stamp]
Cached(k) == {c \in cache : c.key = k}

(* verify_mounted_offhost_backup: fstat, then the digest under a lock of   *)
(* the process unless its result is cached.  A replaced file is noticed.   *)
OpenBackup(p) ==
  /\ probe[p].at = "open"
  /\ Goto(p, [at |-> "digest", seen |-> probe[p].seen, stamp |-> object.stamp])
  /\ UNCHANGED <<clock, files, cache, ledger, lock, consumed>>

Digest(p) ==
  /\ probe[p].at = "digest"
  /\ LET k == Key(probe[p].seen, probe[p].stamp)
         hit == Cached(k) # {}
         good == IF hit THEN (CHOOSE c \in Cached(k) : TRUE).good ELSE object.good
     IN /\ cache' = IF hit THEN cache
                    ELSE (IF Cardinality(cache) >= CacheMax THEN {} ELSE cache)
                           \cup {[key |-> k, good |-> good]}
        /\ \/ Goto(p, IF good THEN [at |-> "lock", seen |-> probe[p].seen]
                      ELSE [at |-> "answer", state |-> "backup_object_digest_mismatch"])
           \/ /\ ~hit /\ object.stamp # probe[p].stamp
              /\ Answer(p, "backup_object_changed")
  /\ UNCHANGED <<clock, files, ledger, lock, consumed>>

-----------------------------------------------------------------------------
(* record_offhost_liveness_replay_state *)
LockFree_never == TRUE
LockFree == lock = {}
TakeLock(p) ==
  /\ probe[p].at = "lock" /\ LockFree
  /\ lock' = {p}
  /\ Goto(p, [at |-> "ledger", seen |-> probe[p].seen])
  /\ UNCHANGED <<clock, files, cache, ledger, consumed>>

Verdict(seen, entry) ==
  IF entry = NoEntry THEN "write"
  ELSE IF entry.nonce = seen.nonce
       THEN IF entry = seen THEN "recorded" ELSE "replay_conflict"
       ELSE IF seen.checked <= entry.checked THEN "replay_detected" ELSE "write"

ReadLedger(p) ==
  /\ probe[p].at = "ledger"
  /\ LET v == Verdict(probe[p].seen, ledger)
     IN Goto(p, [at |-> IF v = "write" THEN "write" ELSE "unlock", seen |-> probe[p].seen, state |-> v])
  /\ UNCHANGED <<clock, files, cache, ledger, lock, consumed>>

(* write_private_runtime_json replaces the file in one step, or fails.     *)
WriteLedger(p) ==
  /\ probe[p].at = "write"
  /\ \E state \in {"recorded", "replay_ledger_invalid"} :
       /\ ledger' = IF state = "recorded" THEN probe[p].seen ELSE ledger
       /\ Goto(p, [at |-> "unlock", seen |-> probe[p].seen, state |-> state])
  /\ UNCHANGED <<clock, files, cache, lock, consumed>>

Unlock(p) ==
  /\ probe[p].at = "unlock"
  /\ lock' = lock \ {p}
  /\ consumed' = IF probe[p].state = "recorded" THEN probe[p].seen ELSE consumed
  /\ Answer(p, probe[p].state)
  /\ UNCHANGED <<clock, files, cache, ledger>>

Respond(p) ==
  /\ probe[p].at = "answer"
  /\ Goto(p, Idle)
  /\ UNCHANGED <<clock, files, cache, ledger, lock, consumed>>

(* The process dies: its memory and its file locks are gone. *)
Restart ==
  /\ \E p \in Probe : probe[p] # Idle
  /\ probe' = [p \in Probe |-> Idle]
  /\ cache' = {} /\ lock' = {}
  /\ UNCHANGED <<clock, files, ledger, consumed>>

-----------------------------------------------------------------------------
(* The deployment: the independent verifier observes the mount and signs;  *)
(* an old file may be put back; receipts rotate; the backup is rewritten.  *)
Issue(n) ==
  /\ \A o \in issued : o.nonce # n
  /\ LET seen == [nonce |-> n, checked |-> clock, receipt |-> receipt.id]
     IN issued' = issued \cup {seen} /\ liveness' = [seen |-> seen, defects |-> {}]
  /\ UNCHANGED <<clock, receipt, object, cache, ledger, lock, probe, consumed>>

PutLiveness(o, d) ==
  /\ liveness' = [seen |-> o, defects |-> d]
  /\ UNCHANGED <<clock, receipt, issued, object, cache, ledger, lock, probe, consumed>>

PutReceipt(r, d) ==
  /\ receipt' = [id |-> r, defects |-> d]
  /\ UNCHANGED <<clock, liveness, issued, object, cache, ledger, lock, probe, consumed>>

Rewrite(good) ==
  /\ object.stamp < StampMax
  /\ object' = [good |-> good, stamp |-> object.stamp + 1]
  /\ UNCHANGED <<clock, receipt, liveness, issued, cache, ledger, lock, probe, consumed>>

Tick ==
  /\ clock < ClockMax /\ clock' = clock + 1
  /\ UNCHANGED <<files, cache, ledger, lock, probe, consumed>>

Init ==
  /\ clock = 0
  /\ receipt \in [id : Receipt, defects : {{}}]
  /\ \E n \in Nonce : issued = {[nonce |-> n, checked |-> 0, receipt |-> receipt.id]}
  /\ liveness \in [seen : issued, defects : {{}}]
  /\ object = [good |-> TRUE, stamp |-> 1]
  /\ cache = {} /\ lock = {} /\ ledger = NoEntry
  /\ probe = [p \in Probe |-> Idle]
  /\ consumed = NoEntry

Check(p) ==
  \/ ReadReceipt(p) \/ ReadLiveness(p) \/ OpenBackup(p) \/ Digest(p)
  \/ TakeLock(p) \/ ReadLedger(p) \/ WriteLedger(p) \/ Unlock(p) \/ Respond(p)
Next ==
  \/ \E p \in Probe : Check(p)
  \/ \E n \in Nonce : Issue(n)
  \/ \E o \in issued, d \in {{}, {"liveness_signature_invalid", "liveness_invalid"}} : PutLiveness(o, d)
  \/ \E r \in Receipt, d \in {{}, {"stale", "signature_invalid"}} : PutReceipt(r, d)
  \/ \E good \in BOOLEAN : Rewrite(good)
  \/ Restart \/ Tick

Spec == Init /\ [][Next]_vars

-----------------------------------------------------------------------------
(* Properties *)

TypeOK ==
  /\ clock \in Time
  /\ receipt \in [id : Receipt, defects : SUBSET Names(ReceiptChecks)]
  /\ liveness \in [seen : issued, defects : SUBSET Names(LivenessChecks)]
  /\ issued \subseteq Observation
  /\ object \in [good : BOOLEAN, stamp : 1..StampMax]
  /\ cache \subseteq [key : [seen : issued, stamp : 1..StampMax], good : BOOLEAN]
  /\ Cardinality(cache) <= CacheMax
  /\ ledger \in issued \cup {NoEntry}
  /\ lock \subseteq Probe
  /\ consumed \in issued \cup {NoEntry}

(* "Atomically consume one independent liveness nonce per tenant           *)
(* deployment": observations are consumed in the order of their times and  *)
(* one per time, so that a file put back later, or checked concurrently,   *)
(* or after a crash, never makes an older observation count again.         *)
InOrder ==
  consumed' # consumed => consumed = NoEntry \/ consumed.checked < consumed'.checked
ObservationsInOrder == [][InOrder]_consumed

(* A cached verification never vouches for a backup that was rewritten     *)
(* since: its key names the version that was hashed.                       *)
CacheTrue ==
  \A c \in cache : \A o \in issued :
    c.key = Key(o, object.stamp) /\ c.good => object.good

=============================================================================
