--------------------------- MODULE AuditLog_proofs ---------------------------
(* Proofs about the audit trail: its budgets, which rows may go, and what  *)
(* a reader that pages through it sees.                                    *)
EXTENDS AuditLog, FiniteSetTheorems, WellFoundedInduction, TLAPS

Row == [id : 1..IdMax, class : Class]
IInv == TypeOK /\ IsFiniteSet(rows)

-----------------------------------------------------------------------------
LEMMA BudgetType == Budget \in [Class -> Nat \ {0}]
BY SizeAssumption, Z3 DEF Budget, Class, AtLeast, AtMost

(* The class budgets fit the global cap for every configured ceiling       *)
(* (audit_class_budgets).                                                  *)
THEOREM BudgetsAlwaysFit == BudgetsFit
<1>1. \A c \in Class : Budget[c] > 0
  BY BudgetType
<1> DEFINE total == AtLeast(TotalRows, 3)
           terminal == AtMost(TerminalRows, AtLeast(total \div 4, 1))
           share == AtMost(RoutineRows, AtLeast(total \div 2, 1))
           routine == IF share + terminal >= total
                      THEN AtLeast(total - terminal - 1, 1) ELSE share
<1>2. total \in Nat /\ total >= 3
  BY SizeAssumption DEF AtLeast
<1>3. terminal \in Nat /\ terminal >= 1 /\ 4 * terminal <= total + 3
  <2>1. \A n \in Nat : n \div 4 \in Nat /\ 4 * (n \div 4) <= n
    OBVIOUS
  <2>2. total \div 4 \in Nat /\ 4 * (total \div 4) <= total
    <3> HIDE DEF total
    <3> QED BY <1>2, <2>1
  <2> HIDE DEF total
  <2> QED BY <1>2, <2>2, SizeAssumption DEF AtLeast, AtMost
<1>4. share \in Nat /\ share >= 1
  <2>1. \A n \in Nat : n \div 2 \in Nat
    OBVIOUS
  <2>2. total \div 2 \in Nat
    <3> HIDE DEF total
    <3> QED BY <1>2, <2>1
  <2> HIDE DEF total
  <2> QED BY <1>2, <2>2, SizeAssumption DEF AtLeast, AtMost
<1>5. routine \in Nat /\ routine >= 1 /\ routine + terminal <= total - 1
  <2> HIDE DEF total, terminal, share
  <2> QED BY <1>2, <1>3, <1>4 DEF AtLeast
<1>6. /\ Budget["routine"] = routine
      /\ Budget["terminal"] = terminal
      /\ Budget["protected"] = AtLeast(total - routine - terminal, 1)
  BY Zenon DEF Budget, Class
<1>7. Budget["routine"] + Budget["terminal"] + Budget["protected"] = total
  <2> HIDE DEF total, terminal, routine
  <2> QED BY <1>2, <1>3, <1>5, <1>6 DEF AtLeast
<1> HIDE DEF total, terminal, share, routine
<1> QED BY <1>1, <1>2, <1>7 DEF BudgetsFit, total

-----------------------------------------------------------------------------
(* Writing leaves rows of the trail and adds one row with a fresh id. *)
LEMMA WrittenRows ==
  ASSUME NEW S, NEW c \in Class, NEW n
  PROVE  /\ Written(S, c, n) \subseteq S \cup {[id |-> lastId + 1, class |-> c]}
         /\ [id |-> lastId + 1, class |-> c] \in Written(S, c, n)
         /\ \A r \in S \ Written(S, c, n) : r.class = c
BY DEF Written, Rotated, Oldest

LEMMA WrittenType ==
  ASSUME IInv, lastId < IdMax, NEW S \in SUBSET rows, NEW c \in Class, NEW n,
         rows' = Written(S, c, n), lastId' = lastId + 1
  PROVE  /\ lastId' \in 0..IdMax
         /\ rows' \subseteq [id : 1..lastId', class : Class]
         /\ IsFiniteSet(rows')
<1>1. [id |-> lastId + 1, class |-> c] \in [id : 1..lastId', class : Class]
  BY SizeAssumption DEF IInv, TypeOK
<1>2. S \subseteq [id : 1..lastId', class : Class]
  BY SizeAssumption DEF IInv, TypeOK
<1>3. IsFiniteSet(S \cup {[id |-> lastId + 1, class |-> c]})
  BY FS_Subset, FS_AddElement DEF IInv
<1>4. rows' \subseteq S \cup {[id |-> lastId + 1, class |-> c]}
  BY WrittenRows
<1> QED BY <1>1, <1>2, <1>3, <1>4, FS_Subset, SizeAssumption DEF IInv, TypeOK

LEMMA CountType == ASSUME IInv, NEW c PROVE CountOf(c) \in Nat
BY FS_Subset, FS_CardinalityType DEF IInv, CountOf, OfClass

LEMMA InitInv == ASSUME Init PROVE IInv
BY SizeAssumption, FS_EmptySet DEF Init, IInv, TypeOK, None

LEMMA NextInv == ASSUME IInv, [Next]_vars PROVE IInv'
<1>1. ASSUME NEW c \in Class, InsertLocked(c) PROVE IInv'
  BY <1>1, WrittenType DEF InsertLocked, IInv, TypeOK
<1>2. ASSUME NEW c \in Class, NEW w \in Worker, CountRows(w, c) PROVE IInv'
  <2>1. [class |-> c, n |-> CountOf(c)] \in [class : Class, n : Nat]
    BY CountType
  <2> QED BY <1>2, <2>1 DEF CountRows, IInv, TypeOK
<1>3. ASSUME NEW w \in Worker, InsertCounted(w) PROVE IInv'
  <2>1. counted[w] \in [class : Class, n : Nat]
    BY <1>3 DEF InsertCounted, IInv, TypeOK
  <2>2. /\ lastId' \in 0..IdMax
        /\ rows' \subseteq [id : 1..lastId', class : Class]
        /\ IsFiniteSet(rows')
    BY <1>3, <2>1, WrittenType DEF InsertCounted
  <2> QED BY <1>3, <2>2 DEF InsertCounted, IInv, TypeOK
<1>4. ASSUME NEW w \in Worker, FailInsert(w) PROVE IInv'
  BY <1>4 DEF FailInsert, IInv, TypeOK
<1>5. ASSUME NEW cutoff \in 1..(lastId + 1), NEW other \in BOOLEAN,
             Retention(cutoff, other)
      PROVE  IInv'
  <2>1. aged' \subseteq rows
    BY <1>5 DEF Retention, Oldest
  <2>2. CASE UNCHANGED <<rows, lastId>>
    BY <1>5, <2>1, <2>2 DEF Retention, IInv, TypeOK
  <2>3. ASSUME NEW S \in SUBSET rows, NEW n, lastId < IdMax,
               rows' = Written(S, "protected", n), lastId' = lastId + 1
        PROVE  IInv'
    <3>1. "protected" \in Class
      BY DEF Class
    <3>2. /\ lastId' \in 0..IdMax
          /\ rows' \subseteq [id : 1..lastId', class : Class]
          /\ IsFiniteSet(rows')
      BY <2>3, <3>1, WrittenType
    <3>3. aged' \subseteq [id : 1..lastId', class : Class]
      BY <2>1, <2>3, SizeAssumption DEF IInv, TypeOK
    <3> QED BY <1>5, <3>2, <3>3 DEF Retention, IInv, TypeOK
  <2> QED BY <1>5, <2>2, <2>3 DEF Retention
<1>6. ASSUME NEW x \in Client, StartReading(x) \/ ReadPage(x) \/ StopReading(x)
      PROVE  IInv'
  <2>1. UNCHANGED <<rows, lastId, counted, aged>>
    BY <1>6 DEF StartReading, ReadPage, StopReading
  <2>2. /\ DOMAIN reader' = Client
        /\ reader'[x].at \in {"idle", "paging", "done"}
        /\ \A y \in Client \ {x} : reader'[y] = reader[y]
    <3>1. CASE StartReading(x)
      BY <3>1 DEF StartReading, IInv, TypeOK
    <3>2. CASE ReadPage(x)
      BY <3>2 DEF ReadPage, IInv, TypeOK
    <3>3. CASE StopReading(x)
      BY <3>3 DEF StopReading, IInv, TypeOK
    <3> QED BY <1>6, <3>1, <3>2, <3>3
  <2> QED BY <2>1, <2>2 DEF IInv, TypeOK
<1>7. CASE ResetDemo
  BY <1>7, FS_EmptySet DEF ResetDemo, IInv, TypeOK
<1>8. CASE UNCHANGED vars
  BY <1>8 DEF vars, IInv, TypeOK
<1> QED BY <1>1, <1>2, <1>3, <1>4, <1>5, <1>6, <1>7, <1>8 DEF Next

(* The trail is well formed and finite in every reachable state. *)
THEOREM Inductive == Spec => []IInv
<1> QED BY InitInv, NextInv, PTL DEF Spec

-----------------------------------------------------------------------------
(* A row beyond the newest Budget[c] of its class has that many rows of    *)
(* the class above it, so the class is over its budget.                    *)
LEMMA OverBudget ==
  ASSUME IInv, NEW S \in SUBSET rows, NEW c \in Class,
         \A q \in S : q.class = c,
         NEW r \in S, r \notin Newest(S, Budget[c])
  PROVE  CountOf(c) > Budget[c]
<1> DEFINE above == {q \in S : q.id > r.id}
<1>1. IsFiniteSet(above) /\ IsFiniteSet(OfClass(c))
  BY FS_Subset DEF IInv, OfClass
<1>2. r \notin above
  BY DEF IInv, TypeOK
<1>3. /\ Cardinality(above) \in Nat
      /\ Cardinality(above \cup {r}) = Cardinality(above) + 1
      /\ IsFiniteSet(above \cup {r})
  BY <1>1, <1>2, FS_AddElement, FS_CardinalityType
<1>4. Cardinality(above) >= Budget[c]
  BY <1>3, BudgetType DEF Newest
<1>5. above \cup {r} \subseteq OfClass(c)
  BY DEF OfClass
<1>6. Cardinality(above \cup {r}) <= CountOf(c)
  BY <1>1, <1>5, FS_Subset DEF CountOf
<1> QED BY <1>3, <1>4, <1>6, CountType, BudgetType

LEMMA FreshRow == ASSUME IInv, NEW c PROVE [id |-> lastId + 1, class |-> c] \notin rows
BY DEF IInv, TypeOK

(* A row leaves the trail before its time only for an event of its own     *)
(* class or because that class is over budget: telemetry floods cannot     *)
(* evict receipts (audit_event_class, _insert_audit_event).                *)
THEOREM ReceiptsStand == Spec => ReceiptsKept
<1> DEFINE Kept == \A r \in rows \ (rows' \cup aged') :
                     \/ \E q \in rows' \ rows : q.class = r.class
                     \/ CountOf(r.class) > Budget[r.class]
<1>1. ASSUME IInv, NEW S, NEW c \in Class, NEW n, rows' = Written(S, c, n),
             NEW r \in S \ rows'
      PROVE  \E q \in rows' \ rows : q.class = r.class
  <2>1. r.class = c /\ [id |-> lastId + 1, class |-> c] \in rows' \ rows
    BY <1>1, WrittenRows, FreshRow
  <2> QED BY <2>1
<1>2. ASSUME IInv, Next PROVE Kept
  <2>1. ASSUME NEW c \in Class, InsertLocked(c) PROVE Kept
    BY <1>1, <1>2, <2>1 DEF InsertLocked
  <2>2. ASSUME NEW w \in Worker, InsertCounted(w) PROVE Kept
    <3>1. counted[w].class \in Class
      BY <1>2, <2>2 DEF InsertCounted, IInv, TypeOK
    <3> QED BY <1>1, <1>2, <2>2, <3>1 DEF InsertCounted
  <2>3. ASSUME NEW cutoff \in 1..(lastId + 1), NEW other \in BOOLEAN,
               Retention(cutoff, other), NEW r \in rows \ (rows' \cup aged')
        PROVE  \/ \E q \in rows' \ rows : q.class = r.class
               \/ CountOf(r.class) > Budget[r.class]
    <3> DEFINE young == rows \ aged'
               over(c) == LET S == {q \in young : q.class = c}
                          IN Oldest(S \ Newest(S, Budget[c]), BatchRows)
               kept == young \ UNION {over(c) : c \in Class}
               n == Cardinality({q \in kept : q.class = "protected"})
    <3>1. rows' = Written(kept, "protected", n)
      BY <2>3 DEF Retention
    <3>2. CASE r \in kept
      <4>1. "protected" \in Class
        BY DEF Class
      <4> HIDE DEF kept, n
      <4> QED BY <1>1, <1>2, <2>3, <3>1, <3>2, <4>1
    <3>3. CASE r \notin kept
      <4>1. PICK c \in Class : r \in over(c)
        BY <2>3, <3>3
      <4> DEFINE S == {q \in young : q.class = c}
      <4>2. r \in S /\ r \notin Newest(S, Budget[c]) /\ r.class = c
        BY <4>1 DEF Oldest
      <4>3. S \in SUBSET rows /\ \A q \in S : q.class = c
        OBVIOUS
      <4>4. CountOf(c) > Budget[c]
        <5> HIDE DEF S
        <5> QED BY <1>2, <4>2, <4>3, OverBudget
      <4> QED BY <4>2, <4>4
    <3> QED BY <3>2, <3>3
  <2>4. ASSUME UNCHANGED rows PROVE Kept
    BY <2>4
  <2>5. ASSUME ResetDemo PROVE Kept
    BY <2>5 DEF ResetDemo
  <2> QED BY <1>2, <2>1, <2>2, <2>3, <2>4, <2>5
          DEF Next, CountRows, FailInsert, StartReading, ReadPage, StopReading
<1>3. ASSUME IInv, [Next]_vars PROVE [Kept]_vars
  BY <1>2, <1>3
<1> QED BY <1>3, Inductive, PTL DEF Spec, ReceiptsKept

-----------------------------------------------------------------------------
(* Ranks by age *)

(* A set of naturals has a least element.                                  *)
LEMMA LeastExists ==
  ASSUME NEW T \in SUBSET Nat, T # {}
  PROVE  \E m \in T : \A k \in T : m <= k
<1>1. IsWellFoundedOn(OpToRel(<, Nat), Nat)
  BY NatLessThanWellFounded
<1>2. PICK m \in T : \A k \in T : <<k, m>> \notin OpToRel(<, Nat)
  BY <1>1, WFMin
<1>3. \A k \in T : ~(k < m)
  BY <1>2 DEF OpToRel
<1> QED BY <1>3

LEMMA OldestRow ==
  ASSUME IInv, NEW S \in SUBSET rows, S # {}
  PROVE  \E r \in S : \A q \in S : r.id <= q.id
<1> DEFINE T == {k \in Nat : \E r \in S : r.id = k}
<1>1. \A r \in S : r.id \in T
  BY DEF IInv, TypeOK
<1>2. T \in SUBSET Nat /\ T # {}
  BY <1>1
<1>3. PICK m \in T : \A k \in T : m <= k
  <2> HIDE DEF T
  <2> QED BY <1>2, LeastExists
<1>4. QED BY <1>1, <1>3

LEMMA NewestRow ==
  ASSUME IInv, NEW S \in SUBSET rows, S # {}
  PROVE  \E r \in S : \A q \in S : q.id <= r.id
<1> DEFINE T == {k \in Nat : \E r \in S : IdMax - r.id = k}
<1>0. \A r \in S : r.id \in Nat /\ IdMax - r.id \in Nat
  BY SizeAssumption DEF IInv, TypeOK
<1>1. \A r \in S : IdMax - r.id \in T
  BY <1>0
<1>2. T \in SUBSET Nat /\ T # {}
  BY <1>1
<1>3. PICK m \in T : \A k \in T : m <= k
  <2> HIDE DEF T
  <2> QED BY <1>2, LeastExists
<1>4. PICK r \in S : IdMax - r.id = m
  BY <1>3
<1>5. ASSUME NEW q \in S PROVE q.id <= r.id
  BY <1>0, <1>1, <1>3, <1>4, SizeAssumption
<1>6. QED BY <1>5

(* Oldest and Newest take as many rows as they are asked for, if there are *)
(* as many; and no more, as no two rows share an id.                       *)
LEMMA OldestCount ==
  ASSUME IInv, NEW S \in SUBSET rows, NEW k \in Nat, Oldest(S, k) # S
  PROVE  Cardinality(Oldest(S, k)) >= k
<1> DEFINE O == Oldest(S, k)
           below(r) == {q \in S : q.id < r.id}
<1>1. O \subseteq S /\ S \ O # {} /\ S \ O \in SUBSET rows
  BY DEF Oldest
<1>2. PICK r \in S \ O : \A q \in S \ O : r.id <= q.id
  <2> HIDE DEF O
  <2> QED BY <1>1, OldestRow
<1>3. \A q \in S : q.id \in Nat
  BY DEF IInv, TypeOK
<1>4. below(r) \subseteq O
  BY <1>1, <1>2, <1>3
<1>5. IsFiniteSet(S) /\ IsFiniteSet(O)
  BY <1>1, FS_Subset DEF IInv
<1>6. /\ Cardinality(below(r)) \in Nat /\ Cardinality(O) \in Nat
      /\ Cardinality(below(r)) <= Cardinality(O)
  <2> HIDE DEF O
  <2> QED BY <1>4, <1>5, FS_Subset, FS_CardinalityType
<1>7. Cardinality(below(r)) >= k
  BY <1>2, <1>6 DEF Oldest
<1>8. QED BY <1>6, <1>7

LEMMA NewestCount ==
  ASSUME IInv, NEW S \in SUBSET rows, NEW k \in Nat, Newest(S, k) # S
  PROVE  Cardinality(Newest(S, k)) >= k
<1> DEFINE O == Newest(S, k)
           above(r) == {q \in S : q.id > r.id}
<1>1. O \subseteq S /\ S \ O # {} /\ S \ O \in SUBSET rows
  BY DEF Newest
<1>2. PICK r \in S \ O : \A q \in S \ O : q.id <= r.id
  <2> HIDE DEF O
  <2> QED BY <1>1, NewestRow
<1>3. \A q \in S : q.id \in Nat
  BY DEF IInv, TypeOK
<1>4. above(r) \subseteq O
  BY <1>1, <1>2, <1>3
<1>5. IsFiniteSet(S) /\ IsFiniteSet(O)
  BY <1>1, FS_Subset DEF IInv
<1>6. /\ Cardinality(above(r)) \in Nat /\ Cardinality(O) \in Nat
      /\ Cardinality(above(r)) <= Cardinality(O)
  <2> HIDE DEF O
  <2> QED BY <1>4, <1>5, FS_Subset, FS_CardinalityType
<1>7. Cardinality(above(r)) >= k
  BY <1>2, <1>6 DEF Newest
<1>8. QED BY <1>6, <1>7

(* No two rows share an id: a new row takes one beyond all before it.      *)
IdsDiffer == \A r, q \in rows : r.id = q.id => r = q

LEMMA NewestBound ==
  ASSUME IInv, IdsDiffer, NEW S \in SUBSET rows, NEW k \in Nat
  PROVE  Cardinality(Newest(S, k)) <= k
<1> DEFINE N == Newest(S, k)
<1>1. N \subseteq S /\ N \in SUBSET rows
  BY DEF Newest
<1>2. CASE N = {}
  BY <1>2, FS_EmptySet
<1>3. CASE N # {}
  <2>1. PICK r \in N : \A q \in N : r.id <= q.id
    <3> HIDE DEF N
    <3> QED BY <1>1, <1>3, OldestRow
  <2> DEFINE above == {q \in S : q.id > r.id}
  <2>2. Cardinality(above) < k
    BY <2>1 DEF Newest
  <2>3. \A q \in S : q.id \in Nat
    BY DEF IInv, TypeOK
  <2>4. N \subseteq above \cup {r}
    <3> HIDE DEF N
    <3> QED BY <1>1, <2>1, <2>3 DEF IdsDiffer
  <2>5. IsFiniteSet(above) /\ Cardinality(above) \in Nat
    BY FS_Subset, FS_CardinalityType DEF IInv
  <2> HIDE DEF N, above
  <2>6. /\ IsFiniteSet(above \cup {r})
        /\ Cardinality(above \cup {r}) \in Nat
        /\ Cardinality(above \cup {r}) <= Cardinality(above) + 1
    BY <2>5, FS_AddElement, FS_CardinalityType
  <2>7. Cardinality(N) \in Nat /\ Cardinality(N) <= Cardinality(above \cup {r})
    BY <2>4, <2>6, FS_Subset, FS_CardinalityType
  <2> QED BY <2>2, <2>5, <2>6, <2>7 DEF N
<1> QED BY <1>2, <1>3

LEMMA NewestUp ==
  ASSUME IInv, NEW S \in SUBSET rows, NEW k \in Nat,
         NEW q \in Newest(S, k), NEW r \in S, r.id >= q.id
  PROVE  r \in Newest(S, k)
<1> DEFINE A == {p \in S : p.id > r.id}
           B == {p \in S : p.id > q.id}
<1>1. /\ \A p \in S : p.id \in Nat
      /\ q \in S /\ r.id \in Nat /\ q.id \in Nat
  BY DEF IInv, TypeOK, Newest
<1>2. A \subseteq B
  BY <1>1
<1>3. IsFiniteSet(B)
  BY FS_Subset DEF IInv
<1>4. Cardinality(B) < k
  BY DEF Newest
<1>5. Cardinality(A) \in Nat /\ Cardinality(B) \in Nat /\ Cardinality(A) <= Cardinality(B)
  <2> HIDE DEF A, B
  <2> QED BY <1>2, <1>3, FS_Subset, FS_CardinalityType
<1>6. Cardinality(A) < k
  <2> HIDE DEF A, B
  <2> QED BY <1>4, <1>5
<1>7. QED BY <1>6 DEF Newest

-----------------------------------------------------------------------------
(* What a step does to the trail as a whole *)

NewRow(c) == [id |-> lastId + 1, class |-> c]

(* The rows a Retention step keeps before it writes its own event. *)
LEMMA RetentionWrites ==
  ASSUME NEW cutoff, NEW other, Retention(cutoff, other)
  PROVE  \/ UNCHANGED <<rows, lastId>>
         \/ \E S \in SUBSET rows :
              /\ lastId < IdMax
              /\ rows' = Written(S, "protected",
                                 Cardinality({r \in S : r.class = "protected"}))
              /\ lastId' = lastId + 1
BY DEF Retention

(* A step adds at most one row, and that row's id is new. *)
LEMMA TrailStep ==
  ASSUME IInv, [Next]_vars
  PROVE  \/ rows' \subseteq rows /\ lastId' = lastId
         \/ \E c \in Class : rows' \subseteq rows \cup {NewRow(c)} /\ lastId' = lastId + 1
<1>1. ASSUME NEW S \in SUBSET rows, NEW c \in Class, NEW n, rows' = Written(S, c, n)
      PROVE  rows' \subseteq rows \cup {NewRow(c)}
  BY <1>1, WrittenRows DEF NewRow
<1>2. CASE \E c \in Class : InsertLocked(c)
  BY <1>1, <1>2 DEF InsertLocked
<1>3. ASSUME NEW w \in Worker, InsertCounted(w)
      PROVE  \E c \in Class : rows' \subseteq rows \cup {NewRow(c)} /\ lastId' = lastId + 1
  <2>1. counted[w].class \in Class
    BY <1>3 DEF InsertCounted, IInv, TypeOK
  <2> QED BY <1>1, <1>3, <2>1 DEF InsertCounted
<1>4. ASSUME NEW cutoff, NEW other, Retention(cutoff, other)
      PROVE  \/ rows' \subseteq rows /\ lastId' = lastId
             \/ \E c \in Class : rows' \subseteq rows \cup {NewRow(c)} /\ lastId' = lastId + 1
  <2>1. "protected" \in Class
    BY DEF Class
  <2> QED BY <1>1, <1>4, <2>1, RetentionWrites
<1>5. CASE UNCHANGED <<rows, lastId>>
  BY <1>5
<1>6. CASE ResetDemo
  BY <1>6 DEF ResetDemo
<1> QED BY <1>2, <1>3, <1>4, <1>5, <1>6
        DEF Next, vars, CountRows, FailInsert, StartReading, ReadPage, StopReading

LEMMA IdsStep == ASSUME IInv, IdsDiffer, [Next]_vars PROVE IdsDiffer'
<1>1. \A r \in rows : r.id \in Nat /\ r.id <= lastId
  BY DEF IInv, TypeOK
<1>2. lastId \in Nat
  BY SizeAssumption DEF IInv, TypeOK
<1>3. \A c : NewRow(c).id = lastId + 1
  BY DEF NewRow
<1>4. CASE rows' \subseteq rows
  BY <1>4 DEF IdsDiffer
<1>5. ASSUME NEW c \in Class, rows' \subseteq rows \cup {NewRow(c)} PROVE IdsDiffer'
  <2> SUFFICES ASSUME NEW r \in rows', NEW q \in rows', r.id = q.id PROVE r = q
    BY DEF IdsDiffer
  <2>1. CASE r \in rows /\ q \in rows
    BY <2>1 DEF IdsDiffer
  <2>2. CASE r \notin rows \/ q \notin rows
    BY <1>1, <1>2, <1>3, <1>5, <2>2
  <2> QED BY <2>1, <2>2
<1> QED BY <1>4, <1>5, TrailStep

(* Ids are never used twice, whatever the trail forgets in between. *)
LEMMA IdsAlwaysDiffer == Spec => []IdsDiffer
<1>1. Init => IdsDiffer
  BY DEF Init, IdsDiffer
<1> QED BY <1>1, IdsStep, Inductive, PTL DEF Spec

-----------------------------------------------------------------------------
(* Paging *)

(* A reader that is paging has every row of its start, still there, that   *)
(* is not below its cursor; a row written later is not of its start.       *)
PageInv ==
  \A x \in Client :
    /\ reader[x].at # "idle" => \A r \in reader[x].start : r.id \in 1..lastId
    /\ reader[x].at = "paging" =>
         /\ reader[x].before \in Nat
         /\ \A r \in reader[x].start \cap rows :
              r.id >= reader[x].before => r \in reader[x].seen
    /\ reader[x].at = "done" => reader[x].start \cap rows \subseteq reader[x].seen

(* One page: what it adds, and from where the next one goes on. *)
LEMMA PageRead ==
  ASSUME IInv, IdsDiffer, NEW before \in Nat, NEW fetched, NEW page,
         fetched = Newest({r \in rows : r.id < before}, PageRows + 1),
         page = Newest(fetched, PageRows)
  PROVE  /\ fetched = page => \A r \in rows : r.id < before => r \in page
         /\ fetched # page =>
              /\ Cursor(fetched, page) \in Nat
              /\ \A r \in rows : r.id < before /\ r.id >= Cursor(fetched, page) => r \in page
<1> DEFINE R == {r \in rows : r.id < before}
<1>1. /\ PageRows \in Nat \ {0} /\ PageRows + 1 \in Nat
      /\ R \in SUBSET rows
  BY SizeAssumption
<1>2. fetched \subseteq R /\ page \subseteq fetched
  BY DEF Newest
<1> HIDE DEF R
<1>3. IsFiniteSet(fetched) /\ Cardinality(fetched) \in Nat
  BY <1>1, <1>2, FS_Subset, FS_CardinalityType DEF IInv
<1>4. fetched \in SUBSET rows /\ page \in SUBSET rows
  BY <1>1, <1>2
<1>5. ASSUME fetched = page PROVE fetched = R
  <2>1. Cardinality(fetched) <= PageRows
    BY <1>1, <1>4, <1>5, NewestBound
  <2>2. ASSUME fetched # R PROVE Cardinality(fetched) >= PageRows + 1
    <3>1. fetched = Newest(R, PageRows + 1)
      BY DEF R
    <3> QED BY <1>1, <2>2, <3>1, NewestCount
  <2> QED BY <1>1, <1>3, <2>1, <2>2
<1>6. ASSUME fetched # page
      PROVE  /\ Cursor(fetched, page) \in Nat
             /\ \A r \in rows : r.id < before /\ r.id >= Cursor(fetched, page) => r \in page
  <2>1. Cardinality(page) >= PageRows
    BY <1>1, <1>4, <1>6, NewestCount
  <2>2. page # {}
    BY <1>1, <2>1, FS_EmptySet
  <2>3. \E r \in page : \A q \in page : r.id <= q.id
    BY <1>4, <2>2, OldestRow
  <2>4. \A q \in page : q.id \in Nat
    BY <1>4 DEF IInv, TypeOK
  <2>5. \E r \in page : \A q \in page : q.id >= r.id
    BY <2>3, <2>4
  <2>6. LastOf(page) \in page
    BY <2>5 DEF LastOf
  <2> DEFINE last == LastOf(page)
  <2>7. Cursor(fetched, page) = last.id /\ last \in fetched /\ last.id \in Nat
    BY <1>2, <2>4, <2>6 DEF Cursor
  <2> HIDE DEF last
  <2>8. ASSUME NEW r \in rows, r.id < before, r.id >= last.id PROVE r \in page
    <3>1. r \in R /\ fetched = Newest(R, PageRows + 1)
      BY <2>8 DEF R
    <3>2. r \in fetched
      BY <1>1, <2>7, <2>8, <3>1, NewestUp
    <3>3. last \in Newest(fetched, PageRows)
      BY <2>6 DEF last
    <3> QED BY <1>1, <1>4, <2>8, <3>2, <3>3, NewestUp
  <2> QED BY <2>7, <2>8
<1> QED BY <1>5, <1>6 DEF R

LEMMA PageStep == ASSUME IInv, IdsDiffer, PageInv, [Next]_vars PROVE PageInv'
<1>0. /\ lastId \in Nat /\ IdMax \in Nat /\ lastId <= IdMax
      /\ \A r \in rows : r.id \in 1..lastId
      /\ DOMAIN reader = Client
  BY SizeAssumption DEF IInv, TypeOK
<1>1. CASE reader' = reader
  <2>1. lastId' \in Nat /\ lastId <= lastId'
    BY <1>0, TrailStep
  <2>2. \A x \in Client : reader[x].at # "idle" =>
          reader[x].start \cap rows' \subseteq reader[x].start \cap rows
    <3>1. CASE rows' \subseteq rows
      BY <3>1
    <3>2. ASSUME NEW c \in Class, rows' \subseteq rows \cup {NewRow(c)},
                 NEW x \in Client, reader[x].at # "idle"
          PROVE  NewRow(c) \notin reader[x].start
      <4>1. NewRow(c).id = lastId + 1
        BY DEF NewRow
      <4> QED BY <1>0, <3>2, <4>1 DEF PageInv
    <3> QED BY <3>1, <3>2, TrailStep
  <2>3. ASSUME NEW x \in Client, reader[x].at # "idle"
        PROVE  \A r \in reader[x].start : r.id \in 1..lastId'
    <3>1. \A r \in reader[x].start : r.id \in 1..lastId
      BY <2>3 DEF PageInv
    <3> QED BY <1>0, <2>1, <3>1, TrailStep
  <2> QED BY <1>1, <2>2, <2>3 DEF PageInv
<1>2. ASSUME NEW x \in Client, UNCHANGED <<rows, lastId>>,
             \A y \in Client \ {x} : reader'[y] = reader[y],
             reader'[x].at # "idle" => \A r \in reader'[x].start : r.id \in 1..lastId,
             reader'[x].at = "paging" =>
                /\ reader'[x].before \in Nat
                /\ \A r \in reader'[x].start \cap rows :
                     r.id >= reader'[x].before => r \in reader'[x].seen,
             reader'[x].at = "done" => reader'[x].start \cap rows \subseteq reader'[x].seen
      PROVE  PageInv'
  BY <1>2 DEF PageInv
<1>3. ASSUME NEW x \in Client, StartReading(x) PROVE PageInv'
  <2>1. /\ reader'[x] = [at |-> "paging", before |-> IdMax + 1, start |-> rows, seen |-> {}]
        /\ UNCHANGED <<rows, lastId>>
        /\ \A y \in Client \ {x} : reader'[y] = reader[y]
    BY <1>0, <1>3 DEF StartReading
  <2> QED BY <1>0, <1>2, <2>1
<1>4. ASSUME NEW x \in Client, ReadPage(x) PROVE PageInv'
  <2> DEFINE fetched == Newest({r \in rows : r.id < reader[x].before}, PageRows + 1)
             page == Newest(fetched, PageRows)
             old == reader[x]
             new == reader'[x]
  <2>1. /\ reader'[x] = [at |-> IF fetched = page THEN "done" ELSE "paging",
                         before |-> IF fetched = page THEN old.before
                                    ELSE Cursor(fetched, page),
                         start |-> old.start, seen |-> old.seen \cup page]
        /\ old.at = "paging"
        /\ UNCHANGED <<rows, lastId>>
        /\ \A y \in Client \ {x} : reader'[y] = reader[y]
    BY <1>0, <1>4 DEF ReadPage
  <2>2. /\ \A r \in old.start : r.id \in 1..lastId
        /\ old.before \in Nat
        /\ \A r \in old.start \cap rows : r.id >= old.before => r \in old.seen
    BY <2>1 DEF PageInv
  <2>3. /\ fetched = page => \A r \in rows : r.id < old.before => r \in page
        /\ fetched # page =>
             /\ Cursor(fetched, page) \in Nat
             /\ \A r \in rows : r.id < old.before /\ r.id >= Cursor(fetched, page)
                                => r \in page
    BY <2>2, PageRead
  <2> HIDE DEF fetched, page
  <2>4. CASE fetched = page
    <3>1. new.at = "done" /\ new.start = old.start /\ new.seen = old.seen \cup page
      BY <2>1, <2>4
    <3>2. new.start \cap rows \subseteq new.seen
      BY <1>0, <2>2, <2>3, <2>4, <3>1
    <3> QED BY <1>2, <2>1, <2>2, <3>1, <3>2
  <2>5. CASE fetched # page
    <3>1. /\ new.at = "paging" /\ new.start = old.start /\ new.seen = old.seen \cup page
          /\ new.before = Cursor(fetched, page)
      BY <2>1, <2>5
    <3>2. \A r \in new.start \cap rows : r.id >= new.before => r \in new.seen
      BY <1>0, <2>2, <2>3, <2>5, <3>1
    <3> QED BY <1>2, <2>1, <2>2, <2>3, <2>5, <3>1, <3>2
  <2> QED BY <2>4, <2>5
<1>5. ASSUME NEW x \in Client, StopReading(x) PROVE PageInv'
  <2>1. /\ reader'[x].at = "idle" /\ UNCHANGED <<rows, lastId>>
        /\ \A y \in Client \ {x} : reader'[y] = reader[y]
    BY <1>0, <1>5 DEF StopReading
  <2> QED BY <1>2, <2>1
<1> QED BY <1>1, <1>3, <1>4, <1>5
        DEF Next, vars, InsertLocked, CountRows, InsertCounted, FailInsert,
            Retention, ResetDemo

(* A reader that follows the cursors to the end has seen every row that    *)
(* was there when it began and still is, for every page size and however   *)
(* the trail is written, rotated and emptied meanwhile                     *)
(* (list_audit_events_page).                                               *)
THEOREM PagesAreComplete == Spec => []PagesComplete
<1>1. Init => PageInv
  BY DEF Init, PageInv
<1>2. Spec => []PageInv
  BY <1>1, PageStep, IdsAlwaysDiffer, Inductive, PTL DEF Spec
<1>3. PageInv => PagesComplete
  BY DEF PageInv, PagesComplete
<1> QED BY <1>2, <1>3, PTL

-----------------------------------------------------------------------------
(* How far a class may overshoot *)

(* The writers that counted fewer rows of the class than its budget: each  *)
(* of them will add a row without rotating one out.                        *)
Low(c) == {w \in Worker : counted[w].class = c /\ counted[w].n < Budget[c]}

(* The rows beyond the budget are paid for by writers that have written:   *)
(* those that still hold a low count have not taken their share yet.       *)
Overshoot ==
  \A c \in Class : CountOf(c) + Cardinality(Low(c)) <= Budget[c] + Cardinality(Worker)

LEMMA SubsetCount ==
  ASSUME NEW S, NEW T, IsFiniteSet(T), S \subseteq T
  PROVE  /\ IsFiniteSet(S) /\ Cardinality(S) \in Nat /\ Cardinality(T) \in Nat
         /\ Cardinality(S) <= Cardinality(T)
BY FS_Subset, FS_CardinalityType

LEMMA LowSize ==
  ASSUME NEW c
  PROVE  /\ IsFiniteSet(Low(c)) /\ Cardinality(Low(c)) \in Nat
         /\ Cardinality(Worker) \in Nat /\ Cardinality(Low(c)) <= Cardinality(Worker)
<1>1. IsFiniteSet(Worker) /\ Low(c) \subseteq Worker
  BY SizeAssumption DEF Low
<1> QED BY <1>1, SubsetCount

(* Writing an event of class c leaves the other classes no larger, and its *)
(* own class with one row more less the excess it rotates out.             *)
LEMMA OthersShrink ==
  ASSUME IInv, NEW S \in SUBSET rows, NEW c, NEW n, rows' = Written(S, c, n),
         NEW d, d # c
  PROVE  CountOf(d)' <= CountOf(d)
<1>1. OfClass(d)' \subseteq OfClass(d)
  BY DEF OfClass, Written, Rotated
<1>2. IsFiniteSet(OfClass(d))
  BY FS_Subset DEF IInv, OfClass
<1>3. Cardinality(OfClass(d)') <= Cardinality(OfClass(d))
  <2> HIDE DEF OfClass
  <2> QED BY <1>1, <1>2, SubsetCount
<1> QED BY <1>3 DEF CountOf

LEMMA ExcessType ==
  ASSUME NEW c \in Class, NEW n \in Nat
  PROVE  /\ Budget[c] \in Nat /\ Budget[c] >= 1
         /\ Excess(c, n) \in Nat
         /\ n < Budget[c] => Excess(c, n) = 0
         /\ n >= Budget[c] => Excess(c, n) = n - Budget[c] + 1
<1>1. Budget[c] \in Nat \ {0}
  BY BudgetType
<1> QED BY <1>1 DEF Excess, AtLeast

LEMMA WrittenCount ==
  ASSUME IInv, NEW S \in SUBSET rows, NEW c \in Class, NEW n \in Nat,
         rows' = Written(S, c, n)
  PROVE  /\ CountOf(c)' \in Nat
         /\ \/ CountOf(c)' <= 1
            \/ CountOf(c)' + Excess(c, n) <= Cardinality({r \in S : r.class = c}) + 1
<1> DEFINE T == {r \in S : r.class = c}
           O == Oldest(T, Excess(c, n))
           row == [id |-> lastId + 1, class |-> c]
           new == OfClass(c)'
<1>1. T \in SUBSET rows /\ O \subseteq T /\ Excess(c, n) \in Nat
  BY ExcessType DEF Oldest
<1>2. new = (T \ O) \cup {row}
  <2>1. new = {r \in rows' : r.class = c}
    BY DEF OfClass
  <2>2. rows' = (S \ O) \cup {row}
    BY DEF Written, Rotated
  <2>3. row.class = c
    OBVIOUS
  <2> HIDE DEF O, row
  <2> QED BY <1>1, <2>1, <2>2, <2>3
<1>3. IsFiniteSet(T) /\ IsFiniteSet(O) /\ IsFiniteSet(T \ O)
  BY <1>1, FS_Subset DEF IInv
<1>4. ASSUME O # T PROVE Cardinality(O) >= Excess(c, n)
  <2> HIDE DEF T
  <2> QED BY <1>1, <1>4, OldestCount
<1>5. CountOf(c)' = Cardinality(new)
  BY DEF CountOf
<1> HIDE DEF T, O, row, new
<1>6. Cardinality(T) \in Nat /\ Cardinality(O) \in Nat /\ Cardinality(T \ O) \in Nat
  BY <1>3, FS_CardinalityType
<1>7. Cardinality(T \ O) = Cardinality(T) - Cardinality(O)
  <2>1. T \cap O = O
    BY <1>1
  <2> QED BY <1>3, <2>1, FS_Difference
<1>8. Cardinality(new) \in Nat /\ Cardinality(new) <= Cardinality(T \ O) + 1
  <2> DEFINE D == T \ O
  <2>1. IsFiniteSet(D) /\ Cardinality(D) \in Nat
    BY <1>3, <1>6
  <2> HIDE DEF D
  <2>2. /\ IsFiniteSet(D \cup {row})
        /\ Cardinality(D \cup {row}) \in {Cardinality(D), Cardinality(D) + 1}
    BY <2>1, FS_AddElement
  <2>3. new = D \cup {row}
    BY <1>2 DEF D
  <2>4. Cardinality(new) \in Nat /\ Cardinality(new) <= Cardinality(D) + 1
    BY <2>1, <2>2, <2>3
  <2> QED BY <2>4 DEF D
<1>9. CASE O = T
  BY <1>5, <1>6, <1>7, <1>8, <1>9
<1>10. CASE O # T
  BY <1>1, <1>4, <1>5, <1>6, <1>7, <1>8, <1>10 DEF T
<1> QED BY <1>9, <1>10

(* A writer that counts and writes under the lock brings its class within  *)
(* the budget, or leaves it as it was.                                     *)
LEMMA LockedCount ==
  ASSUME IInv, NEW S \in SUBSET rows, NEW c \in Class,
         rows' = Written(S, c, Cardinality({r \in S : r.class = c}))
  PROVE  CountOf(c)' \in Nat /\ CountOf(c)' <= Budget[c]
<1> DEFINE n == Cardinality({r \in S : r.class = c})
<1>1. n \in Nat
  BY FS_Subset, FS_CardinalityType DEF IInv
<1>2. /\ CountOf(c)' \in Nat
      /\ CountOf(c)' <= 1 \/ CountOf(c)' + Excess(c, n) <= n + 1
  BY <1>1, WrittenCount
<1>3. /\ Budget[c] \in Nat /\ Budget[c] >= 1
      /\ Excess(c, n) \in Nat
      /\ n < Budget[c] => Excess(c, n) = 0
      /\ n >= Budget[c] => Excess(c, n) = n - Budget[c] + 1
  <2> HIDE DEF n
  <2> QED BY <1>1, ExcessType
<1> HIDE DEF n
<1> QED BY <1>1, <1>2, <1>3

LEMMA LockedOvershoot ==
  ASSUME IInv, Overshoot, UNCHANGED counted, NEW S \in SUBSET rows, NEW c \in Class,
         rows' = Written(S, c, Cardinality({r \in S : r.class = c}))
  PROVE  Overshoot'
<1> SUFFICES ASSUME NEW d \in Class
             PROVE  CountOf(d)' + Cardinality(Low(d)') <= Budget[d] + Cardinality(Worker)
  BY DEF Overshoot
<1>1. Low(d)' = Low(d)
  BY DEF Low
<1>2. /\ Cardinality(Low(d)) \in Nat /\ Cardinality(Worker) \in Nat
      /\ Cardinality(Low(d)) <= Cardinality(Worker)
      /\ Budget[d] \in Nat /\ CountOf(d) \in Nat
  BY LowSize, BudgetType, CountType
<1>3. CASE d = c
  BY <1>1, <1>2, <1>3, LockedCount
<1>4. CASE d # c
  <2>1. CountOf(d)' \in Nat /\ CountOf(d)' <= CountOf(d)
    <3>1. IsFiniteSet(OfClass(d)')
      <4>1. OfClass(d)' \subseteq OfClass(d)
        BY <1>4 DEF OfClass, Written, Rotated
      <4> QED BY <4>1, FS_Subset DEF IInv, OfClass
    <3> QED BY <1>4, <3>1, OthersShrink, FS_CardinalityType DEF CountOf
  <2> QED BY <1>1, <1>2, <2>1 DEF Overshoot
<1> QED BY <1>3, <1>4

LEMMA OvershootStep == ASSUME IInv, IInv', Overshoot, [Next]_vars PROVE Overshoot'
<1> USE DEF None
<1>1. \A d \in Class : /\ Cardinality(Low(d)) \in Nat /\ Cardinality(Worker) \in Nat
                       /\ Cardinality(Low(d)) <= Cardinality(Worker)
                       /\ IsFiniteSet(Low(d))
                       /\ Budget[d] \in Nat /\ Budget[d] >= 1
                       /\ CountOf(d) \in Nat /\ CountOf(d)' \in Nat
  <2>1. ASSUME NEW d \in Class PROVE CountOf(d)' \in Nat
    <3>1. IsFiniteSet(rows') /\ OfClass(d)' \subseteq rows'
      BY DEF IInv, OfClass
    <3> QED BY <3>1, FS_Subset, FS_CardinalityType DEF CountOf
  <2>2. \A d \in Class : Budget[d] \in Nat \ {0}
    BY BudgetType
  <2>3. \A d \in Class : CountOf(d) \in Nat
    BY CountType
  <2> QED BY <2>1, <2>2, <2>3, LowSize
<1>2. ASSUME NEW c \in Class, InsertLocked(c) PROVE Overshoot'
  BY <1>2, LockedOvershoot DEF InsertLocked, CountOf, OfClass
<1>3. ASSUME NEW c \in Class, NEW w \in Worker, CountRows(w, c) PROVE Overshoot'
  <2> SUFFICES ASSUME NEW d \in Class
               PROVE  CountOf(d)' + Cardinality(Low(d)') <= Budget[d] + Cardinality(Worker)
    BY DEF Overshoot
  <2>1. CountOf(d)' = CountOf(d)
    BY <1>3 DEF CountRows, CountOf, OfClass
  <2>2. /\ counted' = [counted EXCEPT ![w] = [class |-> c, n |-> CountOf(c)]]
        /\ counted \in [Worker -> {None} \cup [class : Class, n : Nat]]
    BY <1>3 DEF CountRows, IInv, TypeOK
  <2>3. CASE d = c /\ CountOf(c) < Budget[c]
    <3>1. Cardinality(Low(d)') \in Nat /\ Cardinality(Low(d)') <= Cardinality(Worker)
      <4>1. Low(d)' \subseteq Worker
        BY DEF Low
      <4> QED BY <4>1, SizeAssumption, SubsetCount
    <3> QED BY <1>1, <2>1, <2>3, <3>1
  <2>4. CASE ~(d = c /\ CountOf(c) < Budget[c])
    <3>1. Low(d)' \subseteq Low(d)
      <4>1. ASSUME NEW v \in Worker, counted'[v].class = d, counted'[v].n < Budget[d]
            PROVE  counted[v].class = d /\ counted[v].n < Budget[d]
        BY <2>2, <2>4, <4>1
      <4> QED BY <4>1 DEF Low
    <3>2. Cardinality(Low(d)') \in Nat /\ Cardinality(Low(d)') <= Cardinality(Low(d))
      BY <1>1, <3>1, SubsetCount
    <3> QED BY <1>1, <2>1, <3>2 DEF Overshoot
  <2> QED BY <2>3, <2>4
<1>4. ASSUME NEW w \in Worker, InsertCounted(w) PROVE Overshoot'
  <2>1. /\ counted \in [Worker -> {None} \cup [class : Class, n : Nat]]
        /\ counted' = [counted EXCEPT ![w] = None]
    BY <1>4 DEF InsertCounted, IInv, TypeOK
  <2>2. PICK c \in Class, n \in Nat : counted[w] = [class |-> c, n |-> n]
    BY <1>4, <2>1 DEF InsertCounted
  <2>3. rows' = Written(rows, c, n)
    BY <1>4, <2>2 DEF InsertCounted
  <2> SUFFICES ASSUME NEW d \in Class
               PROVE  CountOf(d)' + Cardinality(Low(d)') <= Budget[d] + Cardinality(Worker)
    BY DEF Overshoot
  <2>4. Low(d)' = Low(d) \ {w}
    <3>1. \A v \in Worker : counted'[v] = IF v = w THEN None ELSE counted[v]
      BY <2>1
    <3>2. "none" \notin Class
      BY DEF Class
    <3> QED BY <3>1, <3>2 DEF Low
  <2>5. Cardinality(Low(d)') \in Nat /\ Cardinality(Low(d)') <= Cardinality(Low(d))
    BY <1>1, <2>4, SubsetCount
  <2>6. CASE d # c
    <3>1. CountOf(d)' <= CountOf(d)
      BY <2>3, <2>6, OthersShrink
    <3> QED BY <1>1, <2>5, <3>1 DEF Overshoot
  <2>7. CASE d = c
    <3>1. \/ CountOf(c)' <= 1
          \/ CountOf(c)' + Excess(c, n) <= CountOf(c) + 1
      BY <2>3, WrittenCount DEF CountOf, OfClass
    <3>2. /\ Excess(c, n) \in Nat
          /\ n < Budget[c] => Excess(c, n) = 0
          /\ n >= Budget[c] => Excess(c, n) = n - Budget[c] + 1
      BY ExcessType
    <3>3. CASE CountOf(c)' <= 1
      BY <1>1, <2>5, <2>7, <3>3
    <3>4. CASE n >= Budget[c] /\ CountOf(c)' + Excess(c, n) <= CountOf(c) + 1
      <4>1. CountOf(c)' <= CountOf(c)
        BY <1>1, <3>2, <3>4
      <4> QED BY <1>1, <2>5, <2>7, <4>1 DEF Overshoot
    <3>5. CASE n < Budget[c] /\ CountOf(c)' + Excess(c, n) <= CountOf(c) + 1
      <4>1. w \in Low(d)
        BY <2>2, <2>7, <3>5 DEF Low
      <4>2. Cardinality(Low(d)') = Cardinality(Low(d)) - 1
        BY <1>1, <2>4, <4>1, FS_RemoveElement
      <4>3. CountOf(c)' <= CountOf(c) + 1
        BY <1>1, <3>2, <3>5
      <4> QED BY <1>1, <2>5, <2>7, <4>2, <4>3 DEF Overshoot
    <3> QED BY <1>1, <3>1, <3>3, <3>4, <3>5
  <2> QED BY <2>6, <2>7
<1>5. ASSUME NEW w \in Worker, FailInsert(w) PROVE Overshoot'
  <2> SUFFICES ASSUME NEW d \in Class
               PROVE  CountOf(d)' + Cardinality(Low(d)') <= Budget[d] + Cardinality(Worker)
    BY DEF Overshoot
  <2>1. CountOf(d)' = CountOf(d)
    BY <1>5 DEF FailInsert, CountOf, OfClass
  <2>2. Low(d)' \subseteq Low(d)
    BY <1>5 DEF FailInsert, Low, IInv, TypeOK, Class
  <2>3. Cardinality(Low(d)') \in Nat /\ Cardinality(Low(d)') <= Cardinality(Low(d))
    BY <1>1, <2>2, SubsetCount
  <2> QED BY <1>1, <2>1, <2>3 DEF Overshoot
<1>6. CASE UNCHANGED <<rows, counted>>
  <2>1. \A d \in Class : Low(d)' = Low(d) /\ CountOf(d)' = CountOf(d)
    BY <1>6 DEF Low, CountOf, OfClass
  <2> QED BY <2>1 DEF Overshoot
<1>7. ASSUME NEW cutoff, NEW other, Retention(cutoff, other) PROVE Overshoot'
  <2>1. "protected" \in Class /\ UNCHANGED counted
    BY <1>7 DEF Class, Retention
  <2> QED BY <1>6, <1>7, <2>1, RetentionWrites, LockedOvershoot
<1>8. CASE ResetDemo
  <2> SUFFICES ASSUME NEW d \in Class
               PROVE  CountOf(d)' + Cardinality(Low(d)') <= Budget[d] + Cardinality(Worker)
    BY DEF Overshoot
  <2>1. OfClass(d)' = {} /\ Low(d)' = Low(d)
    BY <1>8 DEF ResetDemo, OfClass, Low
  <2>2. CountOf(d)' = 0
    BY <2>1, FS_EmptySet DEF CountOf
  <2> QED BY <1>1, <2>1, <2>2
<1> QED BY <1>2, <1>3, <1>4, <1>5, <1>6, <1>7, <1>8
        DEF Next, vars, StartReading, ReadPage, StopReading

(* No class holds more rows than its budget and one for each writer that   *)
(* counts outside the write lock, for any number of writers, any ceilings  *)
(* and any order of counting, writing and retention (add_audit_event       *)
(* against _insert_audit_event).                                           *)
THEOREM OvershootIsBounded == Spec => []ClassesWithinBudget
<1>1. ASSUME Init PROVE Overshoot
  <2> SUFFICES ASSUME NEW d \in Class
               PROVE  CountOf(d) + Cardinality(Low(d)) <= Budget[d] + Cardinality(Worker)
    BY DEF Overshoot
  <2>1. CountOf(d) = 0
    BY <1>1, FS_EmptySet DEF Init, CountOf, OfClass
  <2> QED BY <2>1, LowSize, BudgetType
<1>2. Spec => []Overshoot
  BY <1>1, OvershootStep, Inductive, PTL DEF Spec
<1>3. ASSUME IInv, Overshoot PROVE ClassesWithinBudget
  <2> SUFFICES ASSUME NEW c \in Class
               PROVE  CountOf(c) <= Budget[c] + Cardinality(Worker)
    BY DEF ClassesWithinBudget
  <2>1. CountOf(c) + Cardinality(Low(c)) <= Budget[c] + Cardinality(Worker)
    BY <1>3 DEF Overshoot
  <2>2. CountOf(c) \in Nat /\ Budget[c] \in Nat
    BY <1>3, CountType, BudgetType
  <2> QED BY <2>1, <2>2, LowSize
<1> QED BY <1>2, <1>3, Inductive, PTL
=============================================================================
