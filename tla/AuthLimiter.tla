----------------------------- MODULE AuthLimiter -----------------------------
(***************************************************************************)
(* The shared limiter of failed authentication (app.py, CoreStore).  Each  *)
(* subject has a bucket of failure times; a login compares the password    *)
(* and records the outcome in one transaction, a bad token only records.   *)
(* A request reads the clock before it waits for the write lock, so        *)
(* transactions commit in another order than the times they write.         *)
(* Times are modelled by their ages, which stop at Old; a list of failures,*)
(* which the code filters and counts but never orders, is a function that  *)
(* gives the ages of its entries.                                          *)
(***************************************************************************)
EXTENDS Integers, FiniteSets

CONSTANTS
  Worker,                    \* request threads of all server processes
  PasswordKey, TokenKey,     \* bucket keys of the two kinds of subject
  PasswordLimit, TokenLimit, \* ADMIN_PASSWORD_FAILURE_LIMIT, AUTH_FAILURE_LIMIT
  PasswordWindow, TokenWindow,
  KeyMax,                    \* AUTH_FAILURE_BUCKET_MAX_ROWS
  LockWait                   \* the longest wait for the write lock (busy_timeout)

Key == PasswordKey \cup TokenKey
Retention == PasswordWindow  \* AUTH_FAILURE_RETENTION_SECONDS
Old == Retention + LockWait + 1
Age == 0..Old
Guarded == PasswordWindow - LockWait
Older(n) == IF n < Old THEN n + 1 ELSE Old

Idle == [key |-> "none"]

LimitAssumption ==
  /\ PasswordKey \cap TokenKey = {} /\ Idle.key \notin Key
  /\ {PasswordLimit, TokenLimit, KeyMax} \subseteq Nat \ {0}
  /\ {TokenWindow, LockWait} \subseteq Nat /\ TokenWindow <= PasswordWindow
  /\ PasswordWindow \in Nat /\ LockWait < PasswordWindow

Limit(k) == IF k \in PasswordKey THEN PasswordLimit ELSE TokenLimit
Window(k) == IF k \in PasswordKey THEN PasswordWindow ELSE TokenWindow

VARIABLES
  bucket,   \* auth_failure_buckets: key -> [stamps, updated], ages
  request,  \* per worker: the key, whether the password is right, age of `now`
  failed    \* per password key: ages below Guarded of the failed comparisons

vars == <<bucket, request, failed>>

Keys == DOMAIN bucket

-----------------------------------------------------------------------------
(* Lists of failures *)

NoFailures == [i \in {} |-> 0]
Entry(f) == CHOOSE i \in 1..(Cardinality(DOMAIN f) + 1) : i \notin DOMAIN f
Added(f, age) ==
  [i \in DOMAIN f \cup {Entry(f)} |-> IF i \in DOMAIN f THEN f[i] ELSE age]
Upto(f, age) == {i \in DOMAIN f : f[i] <= age}
Kept(f, age) == [i \in Upto(f, age) |-> f[i]]
Count(f) == Cardinality(DOMAIN f)

(* The parts of a transaction whose `now` is `a` old. *)

(* prune_auth_failure_rows *)
Expired(a) == {k \in Keys : bucket[k].updated > Retention + a}
Pruned(a) == [k \in Keys \ Expired(a) |-> bucket[k]]

(* auth_bucket_capacity_available *)
Capacity(table, k) == k \in DOMAIN table \/ Cardinality(DOMAIN table) < KeyMax

(* decode_auth_failure_attempts *)
Stamps(table, k) == IF k \in DOMAIN table THEN table[k].stamps ELSE NoFailures
Attempts_all(table, k, a) == Stamps(table, k)
Attempts(table, k, a) == Kept(Stamps(table, k), Window(k) + a)

(* write_auth_failure_bucket *)
Recorded(table, k, stamps, a) ==
  [x \in DOMAIN table \cup {k} |->
     IF x = k THEN [stamps |-> stamps, updated |-> a] ELSE table[x]]

-----------------------------------------------------------------------------
(* The request reads the clock ... *)
Arrive(w, k, right) ==
  /\ request[w] = Idle
  /\ request' = [request EXCEPT ![w] = [key |-> k, right |-> right, age |-> 0]]
  /\ UNCHANGED <<bucket, failed>>

Done(w) == request' = [request EXCEPT ![w] = Idle]

(* ... and runs when it gets the lock: authenticate_local_identity_limited. *)

Locked_afterLimit(k, stamps) == Count(stamps) > Limit(k)
Locked(k, stamps) == Count(stamps) >= Limit(k)

(* 429: raised inside the transaction, so the pruning is rolled back too.  *)
RefuseLogin(w, k) ==
  /\ request[w].key = k /\ k \in PasswordKey
  /\ LET table == Pruned(request[w].age)
     IN ~Capacity(table, k) \/ Locked(k, Attempts(table, k, request[w].age))
  /\ Done(w)
  /\ UNCHANGED <<bucket, failed>>

CompareLogin(w, k) ==
  /\ request[w].key = k /\ k \in PasswordKey
  /\ LET a == request[w].age
         table == Pruned(a)
         stamps == Attempts(table, k, a)
     IN /\ Capacity(table, k) /\ ~Locked(k, stamps)
        /\ IF request[w].right
           THEN bucket' = table /\ UNCHANGED failed
           ELSE /\ bucket' = Recorded(table, k, Added(stamps, a), a)
                /\ failed' = [failed EXCEPT ![k] = Added(@, 0)]
  /\ Done(w)

(* record_auth_failure_bucket: the caller answers 429 above the limit. *)

Appended_always(k, stamps, a) == Added(stamps, a)
Appended(k, stamps, a) == IF Count(stamps) <= Limit(k) THEN Added(stamps, a) ELSE stamps

RecordToken(w, k) ==
  /\ request[w].key = k /\ k \in TokenKey
  /\ LET a == request[w].age
         table == Pruned(a)
     IN bucket' = IF Capacity(table, k)
                  THEN Recorded(table, k, Appended(k, Attempts(table, k, a), a), a)
                  ELSE table
  /\ Done(w)
  /\ UNCHANGED failed

(* prune_auth_failure_buckets, after every accepted token; it reads the    *)
(* clock when it has the lock.                                             *)
Prune ==
  /\ bucket' = Pruned(0)
  /\ UNCHANGED <<request, failed>>

(* Time passes; a request that waited LockWait has its lock or has failed. *)
Tick ==
  /\ \A w \in Worker : request[w] # Idle => request[w].age < LockWait
  /\ bucket' = [k \in Keys |->
       [stamps |-> [i \in DOMAIN bucket[k].stamps |-> Older(bucket[k].stamps[i])],
        updated |-> Older(bucket[k].updated)]]
  /\ request' = [w \in Worker |->
       IF request[w] = Idle THEN Idle ELSE [request[w] EXCEPT !.age = @ + 1]]
  /\ failed' = [k \in PasswordKey |->
       [i \in Upto(failed[k], Guarded - 2) |-> failed[k][i] + 1]]

(* The lock did not come in time: the request fails with the database. *)
GiveUp(w) ==
  /\ request[w] # Idle /\ request[w].age = LockWait
  /\ Done(w)
  /\ UNCHANGED <<bucket, failed>>

-----------------------------------------------------------------------------
Init ==
  /\ bucket = [k \in {} |-> Idle]
  /\ request = [w \in Worker |-> Idle]
  /\ failed = [k \in PasswordKey |-> NoFailures]

Run(w) == GiveUp(w) \/ \E k \in Key : RefuseLogin(w, k) \/ CompareLogin(w, k) \/ RecordToken(w, k)
Next ==
  \/ \E w \in Worker, k \in PasswordKey, right \in BOOLEAN : Arrive(w, k, right)
  \/ \E w \in Worker, k \in TokenKey : Arrive(w, k, FALSE)
  \/ \E w \in Worker : Run(w)
  \/ Prune
  \/ Tick

(* Time passes, and a waiting request gets its lock or gives up. *)
Fairness == WF_vars(Tick) /\ \A w \in Worker : WF_vars(Run(w))
Spec == Init /\ [][Next]_vars /\ Fairness

-----------------------------------------------------------------------------
(* Properties *)

TypeOK ==
  /\ Keys \subseteq Key
  /\ \A k \in Keys :
       /\ bucket[k].updated \in Age
       /\ bucket[k].stamps \in [DOMAIN bucket[k].stamps -> Age]
       /\ DOMAIN bucket[k].stamps \subseteq 1..(IF k \in PasswordKey THEN Limit(k) ELSE Limit(k) + 1)
  /\ request \in [Worker -> {Idle} \cup [key : Key, right : BOOLEAN, age : 0..LockWait]]
  /\ DOMAIN failed = PasswordKey
  /\ \A k \in PasswordKey :
       /\ failed[k] \in [DOMAIN failed[k] -> 0..(Guarded - 1)]
       /\ DOMAIN failed[k] \subseteq Nat /\ IsFiniteSet(DOMAIN failed[k])

(* No more passwords are tried and found wrong for one subject in a window *)
(* than the limit, by any number of concurrent workers; the window is      *)
(* shorter than the configured one by the longest wait for the lock.       *)
FailuresPerWindow == \A k \in PasswordKey : Count(failed[k]) <= PasswordLimit

(* Rotating subjects cannot grow the table past its ceiling. *)
TableBounded == Cardinality(Keys) <= KeyMax

(* A lockout ends by itself, whatever is tried while it lasts. *)
LockedNow(k) == Locked(k, Attempts(bucket, k, 0))
LockoutEnds == \A k \in PasswordKey : LockedNow(k) ~> ~LockedNow(k)

(* As documented, pruning drops no failure that still counts in its window *)
(* (prune_auth_failure_buckets).                                           *)
PruneKeepsActive ==
  [][\A k \in Keys \ DOMAIN bucket' :
       \A i \in DOMAIN bucket[k].stamps : bucket[k].stamps[i] > Window(k)]_vars
=============================================================================
