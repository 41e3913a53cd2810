------------------------------- MODULE AuditLog -------------------------------
(***************************************************************************)
(* The audit trail of CoreStore (app.py).  Events fall into three classes, *)
(* each with a budget of rows; a writer rotates the oldest rows of its own *)
(* class out before it inserts.  Operations that hold the write lock count *)
(* and write in one transaction; add_audit_event counts before its         *)
(* transaction starts, so another writer may come between.  A reader pages *)
(* through the trail from the newest row while all this goes on.           *)
(***************************************************************************)
EXTENDS Integers, FiniteSets

CONSTANTS
  Worker,                            \* threads that call add_audit_event
  Client,                            \* clients that page through the trail
  TotalRows, RoutineRows, TerminalRows,  \* EDGE_AUDIT_*MAX_ROWS
  BatchRows,                         \* EDGE_RETENTION_BATCH_ROWS
  PageRows,                          \* the limit of a page request
  IdMax                              \* bound: rows ever inserted

Class == {"routine", "terminal", "protected"}

ASSUME SizeAssumption ==
  /\ {TotalRows, RoutineRows, TerminalRows, BatchRows, PageRows} \subseteq Nat \ {0}
  /\ IdMax \in Nat
  /\ IsFiniteSet(Worker)

AtLeast(n, m) == IF n < m THEN m ELSE n
AtMost(n, m) == IF n > m THEN m ELSE n

(* audit_class_budgets *)
Budget ==
  LET total == AtLeast(TotalRows, 3)
      terminal == AtMost(TerminalRows, AtLeast(total \div 4, 1))
      share == AtMost(RoutineRows, AtLeast(total \div 2, 1))
      routine == IF share + terminal >= total
                 THEN AtLeast(total - terminal - 1, 1) ELSE share
  IN [c \in Class |->
        CASE c = "routine"  -> routine
          [] c = "terminal" -> terminal
          [] OTHER          -> AtLeast(total - routine - terminal, 1)]

VARIABLES
  rows,      \* audit_events: [id, class]; ids grow, so they also give the age
  lastId,    \* the AUTOINCREMENT counter
  counted,   \* per worker: the class and count read by add_audit_event
  aged,      \* rows the last step deleted for their age, or in a reset
  reader     \* per client: where it is in the trail

vars == <<rows, lastId, counted, aged, reader>>

None == [class |-> "none"]
OfClass(c) == {r \in rows : r.class = c}
CountOf(c) == Cardinality(OfClass(c))

(* The oldest n of a set of rows: ORDER BY audit_event_id LIMIT n. *)
Oldest(S, n) == {r \in S : Cardinality({q \in S : q.id < r.id}) < n}
(* The newest n: ORDER BY audit_event_id DESC LIMIT n. *)
Newest(S, n) == {r \in S : Cardinality({q \in S : q.id > r.id}) < n}

-----------------------------------------------------------------------------
(* _insert_audit_event *)

Excess_inserted(c, n) == AtLeast(n - Budget[c], 0)
Excess(c, n) == AtLeast(n - Budget[c] + 1, 0)

Rotated_anyClass(S, c, n) == S \ Oldest(S, Excess(c, n))
Rotated(S, c, n) == S \ Oldest({r \in S : r.class = c}, Excess(c, n))

(* The trail S after an event of class c, when n rows of c were counted. *)
Written(S, c, n) == Rotated(S, c, n) \cup {[id |-> lastId + 1, class |-> c]}

(* A writer that holds the write lock counts what it rotates. *)
InsertLocked(c) ==
  /\ lastId < IdMax
  /\ rows' = Written(rows, c, CountOf(c))
  /\ lastId' = lastId + 1
  /\ aged' = {}
  /\ UNCHANGED <<counted, reader>>

(* add_audit_event: the SELECT COUNT runs before the transaction starts ... *)
CountRows(w, c) ==
  /\ counted[w] = None
  /\ counted' = [counted EXCEPT ![w] = [class |-> c, n |-> CountOf(c)]]
  /\ UNCHANGED <<rows, lastId, aged, reader>>

(* ... which the DELETE or the INSERT begins. *)
InsertCounted(w) ==
  /\ counted[w] # None
  /\ lastId < IdMax
  /\ rows' = Written(rows, counted[w].class, counted[w].n)
  /\ lastId' = lastId + 1
  /\ counted' = [counted EXCEPT ![w] = None]
  /\ aged' = {}
  /\ UNCHANGED reader

(* The lock does not come in time or the database is full: connect() rolls *)
(* the rotation back with the insert.                                      *)
FailInsert(w) ==
  /\ counted[w] # None
  /\ counted' = [counted EXCEPT ![w] = None]
  /\ UNCHANGED <<rows, lastId, aged, reader>>

(* cleanup_edge_data_retention, at startup and hourly: a batch of rows     *)
(* past the cut-off, then a batch per class over its budget, then a        *)
(* protected event if anything was deleted (here, or by `other` in the     *)
(* other tables).  The age of a row is its place in the trail: `cutoff` is *)
(* the first id that is young enough.                                      *)
Retention(cutoff, other) ==
  LET old == Oldest({r \in rows : r.id < cutoff}, BatchRows)
      young == rows \ old
      over(c) == LET S == {r \in young : r.class = c}
                 IN Oldest(S \ Newest(S, Budget[c]), BatchRows)
      kept == young \ UNION {over(c) : c \in Class}
      n == Cardinality({r \in kept : r.class = "protected"})
  IN /\ aged' = old
     /\ IF kept # rows \/ other
        THEN /\ lastId < IdMax
             /\ rows' = Written(kept, "protected", n)
             /\ lastId' = lastId + 1
        ELSE UNCHANGED <<rows, lastId>>
     /\ UNCHANGED <<counted, reader>>

(* reset_demo_data empties the trail; ids go on from where they were.  A   *)
(* production installation refuses it.                                     *)
ResetDemo ==
  /\ rows' = {}
  /\ aged' = rows
  /\ UNCHANGED <<lastId, counted, reader>>

-----------------------------------------------------------------------------
(* list_audit_events_page: one row more than the page tells if there are   *)
(* more; the cursor is the oldest id of the page.                          *)
LastOf(S) == CHOOSE r \in S : \A q \in S : q.id >= r.id
Cursor_dropped(fetched, page) == LastOf(fetched).id
Cursor(fetched, page) == LastOf(page).id

StartReading(x) ==
  /\ reader[x].at = "idle"
  /\ reader' = [reader EXCEPT
       ![x] = [at |-> "paging", before |-> IdMax + 1, start |-> rows, seen |-> {}]]
  /\ UNCHANGED <<rows, lastId, counted, aged>>

ReadPage(x) ==
  /\ reader[x].at = "paging"
  /\ LET fetched == Newest({r \in rows : r.id < reader[x].before}, PageRows + 1)
         page == Newest(fetched, PageRows)
     IN reader' = [reader EXCEPT ![x] =
          [at |-> IF fetched = page THEN "done" ELSE "paging",
           before |-> IF fetched = page THEN @.before ELSE Cursor(fetched, page),
           start |-> @.start, seen |-> @.seen \cup page]]
  /\ UNCHANGED <<rows, lastId, counted, aged>>

StopReading(x) ==
  /\ reader[x].at = "done"
  /\ reader' = [reader EXCEPT ![x] = [at |-> "idle"]]
  /\ UNCHANGED <<rows, lastId, counted, aged>>

-----------------------------------------------------------------------------
Init ==
  /\ rows = {} /\ lastId = 0
  /\ counted = [w \in Worker |-> None]
  /\ aged = {}
  /\ reader = [x \in Client |-> [at |-> "idle"]]

Next ==
  \/ \E c \in Class : InsertLocked(c) \/ \E w \in Worker : CountRows(w, c)
  \/ \E w \in Worker : InsertCounted(w) \/ FailInsert(w)
  \/ \E cutoff \in 1..(lastId + 1), other \in BOOLEAN : Retention(cutoff, other)
  \/ ResetDemo
  \/ \E x \in Client : StartReading(x) \/ ReadPage(x) \/ StopReading(x)

Spec == Init /\ [][Next]_vars

-----------------------------------------------------------------------------
(* Properties *)

TypeOK ==
  /\ lastId \in 0..IdMax
  /\ rows \subseteq [id : 1..lastId, class : Class]
  /\ aged \subseteq [id : 1..lastId, class : Class]
  /\ counted \in [Worker -> {None} \cup [class : Class, n : Nat]]
  /\ DOMAIN reader = Client
  /\ \A x \in Client : reader[x].at \in {"idle", "paging", "done"}

(* The three classes share the global cap and none of them is left empty,  *)
(* whatever the configured ceilings are.                                   *)
BudgetsFit ==
  /\ Budget["routine"] + Budget["terminal"] + Budget["protected"] <= AtLeast(TotalRows, 3)
  /\ \A c \in Class : Budget[c] > 0

(* A class overshoots its budget by the writers that counted before the    *)
(* others wrote, and by no more.                                           *)
ClassesWithinBudget ==
  \A c \in Class : CountOf(c) <= Budget[c] + Cardinality(Worker)

(* High-volume events do not evict receipts: a row that goes before its    *)
(* time goes for an event of its own class, or because its class alone is  *)
(* over its budget.                                                        *)
ReceiptsKept ==
  [][\A r \in rows \ (rows' \cup aged') :
       \/ \E q \in rows' \ rows : q.class = r.class
       \/ CountOf(r.class) > Budget[r.class]]_vars

(* A reader that follows the cursors to the end has seen every row that    *)
(* was there when it began and still is, however the trail rotated.        *)
PagesComplete ==
  \A x \in Client : reader[x].at = "done" => reader[x].start \cap rows \subseteq reader[x].seen
=============================================================================
