------------------------ MODULE ServiceMemory_proofs ------------------------
(***************************************************************************)
(* Theorems about ServiceMemory, for any number of closing incidents and   *)
(* any patterns they confirm.                                              *)
(***************************************************************************)
EXTENDS ServiceMemory, FiniteSetTheorems, WellFoundedInduction, TLAPS

LEMMA IncidentsFacts == Closes \in Nat /\ Incidents = 1..Closes /\ None \notin Incidents
  BY MemoryAssumption DEF Incidents, None

-----------------------------------------------------------------------------
(* Sums.  What is shown of them by induction over the incidents is shown    *)
(* of the set of the n up to which it holds.                               *)

Less == {p \in Nat \X Nat : p[1] < p[2]}

LEMMA LessWellFounded == IsWellFoundedOn(Less, Nat)
  BY NatLessThanWellFounded DEF OpToRel, Less

LEMMA FirstOf ==
    ASSUME NEW S, S \subseteq Nat, S # {}
    PROVE  \E m \in S : \A x \in S : m <= x
<1>1. PICK m \in S : \A x \in S : <<x, m>> \notin Less
  BY LessWellFounded, WFMin
<1>2. \A x \in S : <<x, m>> \in Nat \X Nat
  OBVIOUS
<1>3. \A x \in S : ~(x < m)
  BY <1>1, <1>2 DEF Less
<1> QED
  BY <1>3

LEMMA Induction ==
    ASSUME NEW n \in Nat, NEW T, 0 \in T, \A m \in 0..(n - 1) : m \in T => m + 1 \in T
    PROVE  0..n \subseteq T
<1> DEFINE Missed == {m \in 0..n : m \notin T}
<1> SUFFICES ASSUME Missed # {} PROVE FALSE
  OBVIOUS
<1>1. PICK m \in Missed : \A x \in Missed : m <= x
  <2>1. Missed \subseteq Nat
    OBVIOUS
  <2> HIDE DEF Missed
  <2> QED
    BY <2>1, FirstOf
<1>2. m \in 1..n /\ m \notin T
  BY <1>1
<1>3. m - 1 \in 0..(n - 1)
  BY <1>2
<1>4. m - 1 \in T
  BY <1>1, <1>3
<1>5. (m - 1) + 1 \in T
  BY <1>3, <1>4
<1> QED
  BY <1>2, <1>5

\* A non-empty set of incidents has a newest and an oldest one.
LEMMA Newest ==
    ASSUME NEW S, S \subseteq Incidents, S # {}
    PROVE  /\ Max(S) \in S /\ \A j \in S : j <= Max(S)
           /\ Min(S) \in S
<1>1. \E x \in S : \A y \in S : x >= y
  <2> DEFINE D == {Closes - x : x \in S}
  <2>1. D \subseteq Nat /\ D # {}
    <3>1. \A x \in S : x \in 1..Closes
      BY IncidentsFacts
    <3>2. \A x \in S : Closes - x \in Nat
      BY <3>1, IncidentsFacts
    <3>3. \E x \in S : TRUE
      OBVIOUS
    <3>4. D # {}
      BY <3>3
    <3> QED
      BY <3>2, <3>4
  <2>2. PICK d \in D : \A e \in D : d <= e
    <3> HIDE DEF D
    <3>1. \E d \in D : \A e \in D : d <= e
      BY <2>1, FirstOf
    <3> QED
      BY <3>1
  <2>3. PICK x \in S : d = Closes - x
    OBVIOUS
  <2>4. \A y \in S : Closes - x <= Closes - y
    BY <2>2, <2>3
  <2> QED
    BY <2>3, <2>4, IncidentsFacts
<1>2. \E x \in S : \A y \in S : x <= y
  <2>1. S \subseteq Nat
    BY IncidentsFacts
  <2> QED
    BY <2>1, FirstOf
<1>3. Max(S) \in S /\ \A y \in S : Max(S) >= y
  BY <1>1 DEF Max
<1>4. Min(S) \in S
  BY <1>2 DEF Min
<1>5. S \subseteq Int
  BY IncidentsFacts
<1>6. \A j \in S : j <= Max(S)
  BY <1>3, <1>5
<1> QED
  BY <1>3, <1>4, <1>6

\* Partial sums up to n.
IsUpTo(g, n, counts) == g = [m \in 0..n |-> IF m = 0 THEN 0 ELSE g[m - 1] + counts[m]]

LEMMA UpToExists ==
    ASSUME NEW counts
    PROVE  \E g : IsUpTo(g, Closes, counts)
<1> DEFINE T == {n \in 0..Closes : \E g : IsUpTo(g, n, counts)}
<1>1. 0 \in T
  <2>1. IsUpTo([m \in 0..0 |-> 0], 0, counts)
    BY DEF IsUpTo
  <2> QED
    BY <2>1, IncidentsFacts
<1>2. ASSUME NEW n \in 0..(Closes - 1), n \in T
      PROVE  n + 1 \in T
  <2>1. PICK g : IsUpTo(g, n, counts)
    BY <1>2
  <2> DEFINE h == [m \in 0..(n + 1) |-> IF m <= n THEN g[m] ELSE g[n] + counts[n + 1]]
  <2>2. \A m \in 0..n : h[m] = IF m = 0 THEN 0 ELSE h[m - 1] + counts[m]
    <3> SUFFICES ASSUME NEW m \in 0..n
                 PROVE  h[m] = IF m = 0 THEN 0 ELSE h[m - 1] + counts[m]
      OBVIOUS
    <3>1. h[m] = g[m]
      OBVIOUS
    <3>2. g[m] = IF m = 0 THEN 0 ELSE g[m - 1] + counts[m]
      BY <2>1 DEF IsUpTo
    <3>3. m # 0 => h[m - 1] = g[m - 1]
      OBVIOUS
    <3> HIDE DEF h
    <3> QED
      BY <3>1, <3>2, <3>3
  <2>3. h[n + 1] = h[n] + counts[n + 1]
    OBVIOUS
  <2>4. DOMAIN h = 0..(n + 1) /\ h = [m \in 0..(n + 1) |-> h[m]]
    OBVIOUS
  <2> HIDE DEF h
  <2>5. \A m \in 0..(n + 1) : h[m] = IF m = 0 THEN 0 ELSE h[m - 1] + counts[m]
    <3> SUFFICES ASSUME NEW m \in 0..(n + 1)
                 PROVE  h[m] = IF m = 0 THEN 0 ELSE h[m - 1] + counts[m]
      OBVIOUS
    <3>1. CASE m \in 0..n
      BY <2>2, <3>1
    <3>2. CASE m = n + 1
      BY <2>3, <3>2
    <3> QED
      BY <3>1, <3>2
  <2>6. IsUpTo(h, n + 1, counts)
    BY <2>4, <2>5 DEF IsUpTo
  <2>7. n + 1 \in 0..Closes
    BY IncidentsFacts
  <2> QED
    BY <2>6, <2>7
<1>3. 0..Closes \subseteq T
  <2> HIDE DEF T
  <2> QED
    BY <1>1, <1>2, IncidentsFacts, Induction
<1> QED
  BY <1>3, IncidentsFacts

LEMMA UpToIs ==
    ASSUME NEW counts
    PROVE  /\ UpTo(counts)[0] = 0
           /\ \A n \in 1..Closes : UpTo(counts)[n] = UpTo(counts)[n - 1] + counts[n]
<1>1. IsUpTo(UpTo(counts), Closes, counts)
  <2>1. UpTo(counts) = CHOOSE g : IsUpTo(g, Closes, counts)
    BY DEF UpTo, IsUpTo
  <2> QED
    BY <2>1, UpToExists
<1> DEFINE u == UpTo(counts)
<1>2. u = [m \in 0..Closes |-> IF m = 0 THEN 0 ELSE u[m - 1] + counts[m]]
  BY <1>1 DEF IsUpTo
<1> HIDE DEF u
<1>3. u[0] = 0 /\ \A n \in 1..Closes : u[n] = u[n - 1] + counts[n]
  BY <1>2, IncidentsFacts
<1> QED
  BY <1>3 DEF u

LEMMA UpToType ==
    ASSUME NEW counts \in [Incidents -> Nat]
    PROVE  \A n \in 0..Closes : UpTo(counts)[n] \in Nat
<1> DEFINE T == {n \in 0..Closes : UpTo(counts)[n] \in Nat}
<1>1. 0 \in T
  BY UpToIs, IncidentsFacts
<1>2. ASSUME NEW n \in 0..(Closes - 1), n \in T PROVE n + 1 \in T
  <2>1. n + 1 \in 1..Closes /\ n + 1 \in Incidents /\ (n + 1) - 1 = n
    BY IncidentsFacts
  <2>2. UpTo(counts)[n + 1] = UpTo(counts)[n] + counts[n + 1]
    BY <2>1, UpToIs
  <2>3. counts[n + 1] \in Nat
    BY <2>1
  <2> QED
    BY <1>2, <2>1, <2>2, <2>3
<1>3. 0..Closes \subseteq T
  <2> HIDE DEF T
  <2> QED
    BY <1>1, <1>2, IncidentsFacts, Induction
<1> QED
  BY <1>3

LEMMA SumType ==
    ASSUME NEW counts \in [Incidents -> Nat]
    PROVE  SumOf(counts) \in Nat
  BY UpToType, IncidentsFacts DEF SumOf

LEMMA SumNobody == SumOf(Nobody) = 0
<1> DEFINE T == {n \in 0..Closes : UpTo(Nobody)[n] = 0}
<1>1. 0 \in T
  BY UpToIs, IncidentsFacts
<1>2. ASSUME NEW n \in 0..(Closes - 1), n \in T PROVE n + 1 \in T
  <2>1. n + 1 \in 1..Closes /\ n + 1 \in Incidents /\ (n + 1) - 1 = n
    BY IncidentsFacts
  <2>2. UpTo(Nobody)[n + 1] = UpTo(Nobody)[n] + Nobody[n + 1]
    BY <2>1, UpToIs
  <2>3. Nobody[n + 1] = 0
    BY <2>1 DEF Nobody
  <2> QED
    BY <1>2, <2>1, <2>2, <2>3
<1>3. 0..Closes \subseteq T
  <2> HIDE DEF T
  <2> QED
    BY <1>1, <1>2, IncidentsFacts, Induction
<1> QED
  BY <1>3, IncidentsFacts DEF SumOf

\* One count changes, and the sum by as much.
LEMMA SumChanged ==
    ASSUME NEW counts \in [Incidents -> Nat], NEW i \in Incidents, NEW v \in Nat
    PROVE  SumOf([counts EXCEPT ![i] = v]) + counts[i] = SumOf(counts) + v
<1> DEFINE other == [counts EXCEPT ![i] = v]
           a == UpTo(counts)
           b == UpTo(other)
           T == {n \in 0..Closes : IF n < i THEN b[n] = a[n] ELSE b[n] + counts[i] = a[n] + v}
<1>1. other \in [Incidents -> Nat]
  OBVIOUS
<1>2. \A j \in Incidents : other[j] = IF j = i THEN v ELSE counts[j]
  OBVIOUS
<1>3. i \in 1..Closes /\ counts[i] \in Nat
  BY IncidentsFacts
<1>4. \A n \in 0..Closes : a[n] \in Nat /\ b[n] \in Nat
  <2> HIDE DEF other
  <2> QED
    BY <1>1, UpToType
<1>5. /\ a[0] = 0 /\ b[0] = 0
      /\ \A n \in 1..Closes : a[n] = a[n - 1] + counts[n] /\ b[n] = b[n - 1] + other[n]
  BY UpToIs
<1> HIDE DEF a, b, other
<1>6. 0 \in T
  BY <1>3, <1>5, IncidentsFacts
<1>7. ASSUME NEW n \in 0..(Closes - 1), n \in T PROVE n + 1 \in T
  <2>1. n + 1 \in 1..Closes /\ n + 1 \in Incidents /\ (n + 1) - 1 = n /\ n \in 0..Closes
    BY IncidentsFacts
  <2>2. a[n + 1] = a[n] + counts[n + 1] /\ b[n + 1] = b[n] + other[n + 1]
    BY <1>5, <2>1
  <2>3. /\ counts[n + 1] \in Nat
        /\ other[n + 1] = IF n + 1 = i THEN v ELSE counts[n + 1]
        /\ a[n] \in Nat /\ b[n] \in Nat
    BY <1>2, <1>4, <2>1
  <2>4. IF n < i THEN b[n] = a[n] ELSE b[n] + counts[i] = a[n] + v
    BY <1>7
  <2>5. IF n + 1 < i THEN b[n + 1] = a[n + 1] ELSE b[n + 1] + counts[i] = a[n + 1] + v
    <3>1. CASE n + 1 < i
      BY <1>3, <2>2, <2>3, <2>4, <3>1
    <3>2. CASE n + 1 = i
      BY <1>3, <2>2, <2>3, <2>4, <3>2
    <3>3. CASE n + 1 > i
      <4>1. ~(n < i) /\ other[n + 1] = counts[n + 1] /\ ~(n + 1 < i)
        BY <1>3, <2>3, <3>3
      <4> QED
        BY <1>3, <2>2, <2>3, <2>4, <4>1
    <3> QED
      BY <1>3, <3>1, <3>2, <3>3
  <2> QED
    BY <2>1, <2>5
<1>8. 0..Closes \subseteq T
  <2> HIDE DEF T
  <2> QED
    BY <1>6, <1>7, IncidentsFacts, Induction
<1>9. b[Closes] + counts[i] = a[Closes] + v
  BY <1>3, <1>8, IncidentsFacts
<1> QED
  BY <1>9 DEF SumOf, a, b, other

\* No count is more than the sum.
LEMMA SumAtLeast ==
    ASSUME NEW counts \in [Incidents -> Nat], NEW i \in Incidents
    PROVE  SumOf(counts) >= counts[i]
<1>1. SumOf([counts EXCEPT ![i] = 0]) + counts[i] = SumOf(counts) + 0
  BY SumChanged
<1>2. SumOf([counts EXCEPT ![i] = 0]) \in Nat /\ SumOf(counts) \in Nat /\ counts[i] \in Nat
  <2>1. [counts EXCEPT ![i] = 0] \in [Incidents -> Nat]
    OBVIOUS
  <2> QED
    BY <2>1, SumType
<1> QED
  BY <1>1, <1>2

-----------------------------------------------------------------------------
(* Groups.  Every row a merge removes leaves the newest of its pattern.     *)

LEMMA NewestSurvives ==
    ASSUME NEW view \in [Incidents -> Nat], NEW t \in Stale(view)
    PROVE  \E s \in Survivors(view) : PatternOf[s] = PatternOf[t]
<1>1. t \in Incidents /\ view[t] > 0 /\ \E k \in Group(view, t) : k > t
  BY DEF Stale
<1>2. t \in Group(view, t) /\ Group(view, t) \subseteq Incidents
  BY <1>1 DEF Group
<1> DEFINE s == Max(Group(view, t))
<1>3. s \in Group(view, t) /\ \A k \in Group(view, t) : k <= s
  BY <1>2, Newest
<1> HIDE DEF s
<1>4. s \in Incidents /\ view[s] > 0 /\ PatternOf[s] = PatternOf[t]
  BY <1>3 DEF Group
<1>5. Group(view, s) = Group(view, t)
  BY <1>4 DEF Group
<1>6. s # t
  <2>1. PICK k \in Group(view, t) : k > t
    BY <1>1
  <2>2. k \in 1..Closes /\ t \in 1..Closes /\ s \in 1..Closes /\ k <= s
    BY <1>1, <1>2, <1>3, <1>4, <2>1, IncidentsFacts
  <2> QED
    BY <2>1, <2>2, IncidentsFacts
<1>7. Group(view, s) # {s}
  BY <1>2, <1>5, <1>6
<1>8. s \in Survivors(view)
  BY <1>3, <1>4, <1>5, <1>7 DEF Survivors
<1> QED
  BY <1>4, <1>8

LEMMA SurvivorsMerge ==
    ASSUME NEW view \in [Incidents -> Nat], Survivors(view) # {}
    PROVE  Stale(view) # {}
<1>1. PICK s \in Survivors(view) : TRUE
  OBVIOUS
<1>2. s \in Incidents /\ view[s] > 0 /\ Group(view, s) # {s} /\ \A k \in Group(view, s) : k <= s
  BY <1>1 DEF Survivors
<1>3. s \in Group(view, s)
  BY <1>2 DEF Group
<1>4. PICK k \in Group(view, s) : k # s
  BY <1>2, <1>3
<1>5. k \in Incidents /\ view[k] > 0 /\ PatternOf[k] = PatternOf[s]
  BY <1>4 DEF Group
<1>6. s \in Group(view, k)
  BY <1>2, <1>5 DEF Group
<1>7. k < s
  <2>1. k \in 1..Closes /\ s \in 1..Closes /\ k <= s
    BY <1>2, <1>4, <1>5, IncidentsFacts
  <2> QED
    BY <1>4, <2>1, IncidentsFacts
<1>8. k \in Stale(view)
  BY <1>5, <1>6, <1>7 DEF Stale
<1> QED
  BY <1>8

LEMMA SurvivorsAreSeen ==
    ASSUME NEW view \in [Incidents -> Nat], NEW s \in Survivors(view)
    PROVE  s \in Incidents /\ view[s] > 0 /\ s \notin Stale(view)
<1>1. s \in Incidents /\ view[s] > 0 /\ \A k \in Group(view, s) : k <= s
  BY DEF Survivors
<1>2. ASSUME s \in Stale(view) PROVE FALSE
  <2>1. PICK k \in Group(view, s) : k > s
    BY <1>2 DEF Stale
  <2>2. k \in 1..Closes /\ s \in 1..Closes /\ k <= s
    BY <1>1, <2>1, IncidentsFacts DEF Group
  <2> QED
    BY <2>1, <2>2, IncidentsFacts
<1> QED
  BY <1>1, <1>2

LEMMA TotalCounts ==
    ASSUME NEW view \in [Incidents -> Nat], NEW j \in Incidents
    PROVE  /\ Total(view, j) \in Nat
           /\ view[j] > 0 => Total(view, j) > 0
<1> DEFINE counts == [k \in Incidents |-> IF k \in Group(view, j) THEN view[k] ELSE 0]
<1>1. counts \in [Incidents -> Nat]
  OBVIOUS
<1>2. view[j] > 0 => counts[j] = view[j]
  BY DEF Group
<1>3. Total(view, j) = SumOf(counts)
  BY DEF Total
<1> HIDE DEF counts
<1>4. SumOf(counts) \in Nat /\ SumOf(counts) >= counts[j] /\ counts[j] \in Nat
  BY <1>1, SumType, SumAtLeast
<1> QED
  BY <1>2, <1>3, <1>4

-----------------------------------------------------------------------------
(* Types, and what a transaction's flush still has to write.                *)

Merging == {"update", "stale", "delete", "commit"}
Flushing == {"update", "stale", "delete"}

FlushOf(i, p, view, T) ==
    /\ p \in Merging => view[i] > 0
    /\ p \in Flushing => T # {}
    /\ p \in {"update", "stale"} => T \subseteq Survivors(view) /\ Stale(view) # {}
    /\ p = "commit" => T = {}

MemInv == TypeOK /\ \A i \in Incidents : FlushOf(i, pc[i], seen[i], todo[i])

LEMMA NobodyType == Nobody \in [Incidents -> Nat]
  BY DEF Nobody

LEMMA MemInit == Init => MemInv
<1> SUFFICES ASSUME Init PROVE MemInv
  OBVIOUS
<1>1. pc = [i \in Incidents |-> "open"]
  BY DEF Init
<1>2. TypeOK
  BY NobodyType DEF Init, TypeOK
<1>3. \A i \in Incidents : pc[i] = "open"
  BY <1>1
<1> QED
  BY <1>2, <1>3 DEF MemInv, FlushOf, Merging, Flushing

\* Another transaction moves on.
LEMMA OthersKeep ==
    ASSUME MemInv, NEW i \in Incidents, NEW p, NEW x, NEW T,
           pc' = [pc EXCEPT ![i] = p], seen' = [seen EXCEPT ![i] = x],
           todo' = [todo EXCEPT ![i] = T], FlushOf(i, p, x, T)
    PROVE  (\A k \in Incidents : FlushOf(k, pc[k], seen[k], todo[k]))'
<1>1. \A k \in Incidents : /\ pc'[k] = IF k = i THEN p ELSE pc[k]
                           /\ seen'[k] = IF k = i THEN x ELSE seen[k]
                           /\ todo'[k] = IF k = i THEN T ELSE todo[k]
  BY DEF MemInv, TypeOK
<1>2. ASSUME NEW k \in Incidents PROVE FlushOf(k, pc'[k], seen'[k], todo'[k])
  <2>1. CASE k = i
    BY <1>1, <2>1
  <2>2. CASE k # i
    BY <1>1, <2>2 DEF MemInv
  <2> QED
    BY <2>1, <2>2
<1> QED
  BY <1>2 DEF FlushOf, Survivors, Stale, Group

\* The type of what a session leaves behind.
LEMMA SessionEnds ==
    ASSUME MemInv, NEW i \in Incidents, NEW outcome \in {"closed", "failed"},
           EndSession(i, outcome)
    PROVE  /\ lock' \in [Incidents -> Incidents \cup {None}]
           /\ pc' \in [Incidents -> {"open", "written", "update", "stale", "delete", "commit",
                                     "closed", "failed"}]
           /\ seen' \in [Incidents -> [Incidents -> Nat]]
           /\ todo' \in [Incidents -> SUBSET Incidents]
           /\ (\A k \in Incidents : FlushOf(k, pc[k], seen[k], todo[k]))'
<1>1. /\ pc' = [pc EXCEPT ![i] = outcome]
      /\ lock' = [j \in Incidents |-> IF lock[j] = i THEN None ELSE lock[j]]
      /\ seen' = [seen EXCEPT ![i] = Nobody]
      /\ todo' = [todo EXCEPT ![i] = {}]
  BY DEF EndSession
<1>2. FlushOf(i, outcome, Nobody, {})
  BY DEF FlushOf, Merging, Flushing
<1>3. (\A k \in Incidents : FlushOf(k, pc[k], seen[k], todo[k]))'
  BY <1>1, <1>2, OthersKeep
<1> QED
  BY <1>1, <1>3, NobodyType DEF MemInv, TypeOK

\* A statement of the flush: it takes the row, or finds none, and goes on.
Statement(i, s, l, T, p) ==
    /\ s \in Incidents /\ s \in todo[i] /\ Free(s, i)
    /\ l \in {i, lock[s]} /\ T \in SUBSET Incidents
    /\ pc[i] \in Flushing /\ FlushOf(i, p, seen[i], T)
    /\ lock' = [lock EXCEPT ![s] = l]
    /\ todo' = [todo EXCEPT ![i] = T]
    /\ pc' = [pc EXCEPT ![i] = p]
    /\ UNCHANGED <<rows, seen, deleted, forgotten, overlapped>>
    /\ \/ /\ pc[i] = "update" /\ l = i /\ Present(i, s)
          /\ \/ p = "update" /\ T = todo[i] \ {s}
             \/ p = "delete" /\ T = Stale(seen[i]) /\ todo[i] = {s}
       \/ p = "stale" /\ (pc[i] = "stale" \/ (pc[i] = "update" /\ ~Present(i, s)))
       \/ /\ pc[i] = "delete" /\ T = todo[i] \ {s} /\ p \in {"delete", "commit"}
          /\ Present(i, s) => l = i

LEMMA NextOfFlush ==
    ASSUME MemInv, NEW i \in Incidents, pc[i] \in Flushing
    PROVE  /\ Min(todo[i]) \in todo[i] /\ Min(todo[i]) \in Incidents /\ todo[i] \subseteq Incidents
           /\ lock[Min(todo[i])] \in Incidents \cup {None}
<1>1. todo[i] \subseteq Incidents /\ todo[i] # {}
  BY DEF MemInv, TypeOK, FlushOf
<1>2. Min(todo[i]) \in todo[i]
  BY <1>1, Newest
<1> QED
  BY <1>1, <1>2 DEF MemInv, TypeOK

LEMMA FlushIsStatements ==
    ASSUME MemInv, NEW i \in Incidents,
           UpdateSurvivor(i) \/ (SurvivorGone(i) /\ ~Rollback(i)) \/ DeleteStale(i)
    PROVE  \E s, l, T, p : Statement(i, s, l, T, p)
<1> DEFINE s == Min(todo[i])
           rest == todo[i] \ {s}
<1>0. pc[i] \in Flushing
  BY DEF UpdateSurvivor, SurvivorGone, DeleteStale, Flushing
<1>1. s \in todo[i] /\ s \in Incidents /\ todo[i] \subseteq Incidents
  BY <1>0, NextOfFlush
<1>2. FlushOf(i, pc[i], seen[i], todo[i]) /\ Stale(seen[i]) \subseteq Incidents
  BY DEF MemInv, Stale
<1>3. seen[i][i] > 0
  BY <1>0, <1>2 DEF FlushOf, Flushing, Merging
<1>4. CASE UpdateSurvivor(i)
  <2> DEFINE T == IF rest = {} THEN Stale(seen[i]) ELSE rest
             p == IF rest = {} THEN "delete" ELSE "update"
  <2>1. /\ pc[i] = "update" /\ Free(s, i) /\ Present(i, s)
        /\ lock' = [lock EXCEPT ![s] = i] /\ todo' = [todo EXCEPT ![i] = T]
        /\ pc' = [pc EXCEPT ![i] = p]
        /\ UNCHANGED <<rows, seen, deleted, forgotten, overlapped>>
    BY <1>4 DEF UpdateSurvivor
  <2>2. FlushOf(i, p, seen[i], T) /\ T \in SUBSET Incidents
    BY <1>1, <1>2, <1>3, <2>1 DEF FlushOf, Merging, Flushing
  <2>3. \/ p = "update" /\ T = todo[i] \ {s}
        \/ p = "delete" /\ T = Stale(seen[i]) /\ todo[i] = {s}
    BY <1>1
  <2> HIDE DEF T, p, s
  <2>4. Statement(i, s, i, T, p)
    BY <1>0, <1>1, <2>1, <2>2, <2>3 DEF Statement
  <2> QED
    BY <2>4
<1>5. CASE SurvivorGone(i) /\ ~Rollback(i)
  <2> DEFINE l == IF Present(i, s) THEN i ELSE lock[s]
  <2>1. /\ pc[i] = "stale" \/ (pc[i] = "update" /\ ~Present(i, s))
        /\ todo[i] # {s} /\ lock' = [lock EXCEPT ![s] = l]
        /\ todo' = [todo EXCEPT ![i] = rest] /\ pc' = [pc EXCEPT ![i] = "stale"]
        /\ UNCHANGED <<rows, seen, deleted, forgotten, overlapped>>
    BY <1>5 DEF SurvivorGone
  <2>2. FlushOf(i, "stale", seen[i], rest) /\ rest \in SUBSET Incidents
    BY <1>1, <1>2, <1>3, <2>1 DEF FlushOf, Merging, Flushing
  <2>3. l \in {i, lock[s]} /\ Free(s, i)
    BY <1>5 DEF SurvivorGone
  <2> HIDE DEF l, s, rest
  <2>4. Statement(i, s, l, rest, "stale")
    BY <1>0, <1>1, <2>1, <2>2, <2>3 DEF Statement
  <2> QED
    BY <2>4
<1>6. CASE DeleteStale(i)
  <2> DEFINE l == IF Present(i, s) THEN i ELSE lock[s]
             p == IF todo[i] = {s} THEN "commit" ELSE "delete"
  <2>1. /\ pc[i] = "delete" /\ Free(s, i)
        /\ lock' = [lock EXCEPT ![s] = l]
        /\ todo' = [todo EXCEPT ![i] = rest] /\ pc' = [pc EXCEPT ![i] = p]
        /\ UNCHANGED <<rows, seen, deleted, forgotten, overlapped>>
    BY <1>6 DEF DeleteStale
  <2>2. FlushOf(i, p, seen[i], rest) /\ rest \in SUBSET Incidents
    BY <1>1, <1>2, <1>3, <2>1 DEF FlushOf, Merging, Flushing
  <2>3. l \in {i, lock[s]} /\ p \in {"delete", "commit"} /\ (Present(i, s) => l = i)
    OBVIOUS
  <2>4. rest = todo[i] \ {s}
    OBVIOUS
  <2> HIDE DEF l, s, rest, p
  <2>5. Statement(i, s, l, rest, p)
    BY <1>0, <1>1, <2>1, <2>2, <2>3, <2>4 DEF Statement
  <2> QED
    BY <2>5
<1> QED
  BY <1>4, <1>5, <1>6

LEMMA WrittenIsCount ==
    ASSUME MemInv, NEW i \in Incidents, NEW j \in Incidents
    PROVE  Written(i, j) \in Nat
<1>1. rows[j] \in Nat /\ Total(seen[i], j) \in Nat
  BY TotalCounts DEF MemInv, TypeOK
<1> QED
  BY <1>1 DEF Written

LEMMA MemStep ==
    ASSUME MemInv, NEW i \in Incidents,
           WriteConfirmedMemory(i) \/ Progress(i) \/ DeleteMemoryEntry(i)
    PROVE  MemInv'
<1>1. TypeOK
  BY DEF MemInv
<1>2. CASE WriteConfirmedMemory(i)
  <2>1. /\ lock' = [lock EXCEPT ![i] = i] /\ pc' = [pc EXCEPT ![i] = "written"]
        /\ overlapped' \in BOOLEAN
        /\ UNCHANGED <<rows, seen, todo, deleted, forgotten>>
    BY <1>1, <1>2 DEF WriteConfirmedMemory, TypeOK
  <2>2. seen' = [seen EXCEPT ![i] = seen[i]] /\ todo' = [todo EXCEPT ![i] = todo[i]]
    BY <1>1, <2>1 DEF TypeOK
  <2>3. FlushOf(i, "written", seen[i], todo[i])
    BY DEF FlushOf, Merging, Flushing
  <2>4. (\A k \in Incidents : FlushOf(k, pc[k], seen[k], todo[k]))'
    BY <2>1, <2>2, <2>3, OthersKeep
  <2>5. TypeOK'
    BY <1>1, <2>1 DEF TypeOK
  <2> QED
    BY <2>4, <2>5 DEF MemInv
<1>3. CASE Select(i)
  <2> DEFINE x == [j \in Incidents |-> IF j = i THEN 1 ELSE rows[j]]
             p == IF Survivors(x) = {} THEN "commit" ELSE "update"
  <2>1. x \in [Incidents -> Nat] /\ x[i] > 0
    BY <1>1 DEF TypeOK
  <2>2. /\ seen' = [seen EXCEPT ![i] = x]
        /\ UNCHANGED <<rows, lock, deleted, forgotten, overlapped>>
    BY <1>3 DEF Select
  <2>3. seen'[i] = x
    BY <1>1, <2>2 DEF TypeOK
  <2>4. todo' = [todo EXCEPT ![i] = Survivors(x)]
    BY <1>3, <2>3 DEF Select
  <2>5. todo'[i] = Survivors(x)
    BY <1>1, <2>4 DEF TypeOK
  <2>6. pc' = [pc EXCEPT ![i] = p]
    BY <1>3, <2>5 DEF Select
  <2> HIDE DEF x
  <2>7. FlushOf(i, p, x, Survivors(x))
    BY <2>1, SurvivorsMerge DEF FlushOf, Merging, Flushing
  <2>8. Survivors(x) \subseteq Incidents
    BY DEF Survivors
  <2>9. p \in {"commit", "update"}
    OBVIOUS
  <2> HIDE DEF p
  <2>10. (\A k \in Incidents : FlushOf(k, pc[k], seen[k], todo[k]))'
    BY <2>2, <2>4, <2>6, <2>7, OthersKeep
  <2>11. TypeOK'
    BY <1>1, <2>1, <2>2, <2>4, <2>6, <2>8, <2>9 DEF TypeOK
  <2> QED
    BY <2>10, <2>11 DEF MemInv
<1>4. CASE UpdateSurvivor(i) \/ (SurvivorGone(i) /\ ~Rollback(i)) \/ DeleteStale(i)
  <2>1. PICK s, l, T, p : Statement(i, s, l, T, p)
    BY <1>4, FlushIsStatements
  <2>2. /\ s \in Incidents /\ l \in Incidents \cup {None} /\ T \in SUBSET Incidents
        /\ p \in Merging /\ FlushOf(i, p, seen[i], T)
        /\ lock' = [lock EXCEPT ![s] = l] /\ todo' = [todo EXCEPT ![i] = T]
        /\ pc' = [pc EXCEPT ![i] = p]
        /\ UNCHANGED <<rows, seen, deleted, forgotten, overlapped>>
    BY <1>1, <2>1 DEF Statement, TypeOK, Merging
  <2>3. seen' = [seen EXCEPT ![i] = seen[i]]
    BY <1>1, <2>2 DEF TypeOK
  <2>4. (\A k \in Incidents : FlushOf(k, pc[k], seen[k], todo[k]))'
    BY <2>2, <2>3, OthersKeep
  <2>5. TypeOK'
    BY <1>1, <2>2 DEF TypeOK, Merging
  <2> QED
    BY <2>4, <2>5 DEF MemInv
<1>5. CASE Rollback(i)
  <2>1. EndSession(i, "failed") /\ UNCHANGED <<rows, deleted, forgotten, overlapped>>
    BY <1>5 DEF Rollback
  <2> QED
    BY <1>1, <2>1, SessionEnds DEF MemInv, TypeOK
<1>6. CASE Commit(i)
  <2>1. /\ EndSession(i, "closed") /\ UNCHANGED <<deleted, forgotten, overlapped>>
        /\ rows' = [j \in Incidents |-> Written(i, j)]
    BY <1>6 DEF Commit
  <2>2. rows' \in [Incidents -> Nat]
    BY <2>1, WrittenIsCount
  <2> QED
    BY <1>1, <2>1, <2>2, SessionEnds DEF MemInv, TypeOK
<1>7. CASE DeleteMemoryEntry(i)
  <2>1. /\ rows' = [rows EXCEPT ![i] = 0] /\ deleted' = deleted \cup {i}
        /\ forgotten' = forgotten + rows[i] /\ overlapped' \in BOOLEAN
        /\ UNCHANGED <<lock, pc, seen, todo>>
    BY <1>1, <1>7 DEF DeleteMemoryEntry, TypeOK
  <2>2. TypeOK'
    BY <1>1, <2>1 DEF TypeOK
  <2>3. (\A k \in Incidents : FlushOf(k, pc[k], seen[k], todo[k]))'
    BY <2>1 DEF MemInv, FlushOf, Survivors, Stale, Group
  <2> QED
    BY <2>2, <2>3 DEF MemInv
<1> QED
  BY <1>2, <1>3, <1>4, <1>5, <1>6, <1>7 DEF Progress, BreakDeadlock

LEMMA MemInvariant == Spec => []MemInv
<1>1. MemInv /\ [Next]_vars => MemInv'
  <2> SUFFICES ASSUME MemInv, [Next]_vars PROVE MemInv'
    OBVIOUS
  <2>1. CASE Next
    BY <2>1, MemStep DEF Next
  <2>2. CASE UNCHANGED vars
    BY <2>2 DEF vars, MemInv, TypeOK, FlushOf, Survivors, Stale, Group
  <2> QED
    BY <2>1, <2>2
<1> QED
  BY <1>1, MemInit, PTL DEF Spec

\* The rows, locks and copies of the transactions keep their types, and so do
\* the counts: no merge, whatever its patterns, takes a count below zero.
THEOREM TypeCorrect == Spec => []TypeOK
<1>1. MemInv => TypeOK
  BY DEF MemInv
<1> QED
  BY <1>1, MemInvariant, PTL

-----------------------------------------------------------------------------
(* A confirmed pattern is remembered: a commit replaces the rows it deletes *)
(* by survivors, and a survivor is locked from its UPDATE on, so that no    *)
(* other transaction, of whatever pattern, has it among its deleted rows.   *)

Holds(i, s) == s = i \/ (rows[s] > 0 /\ lock[s] = i)
Gone(i, t) == t = i \/ rows[t] = 0 \/ lock[t] = i

\* What the statements of a flush have done so far.
Done(i) ==
    /\ pc[i] = "update" => \A s \in Survivors(seen[i]) \ todo[i] : Holds(i, s)
    /\ pc[i] \in {"delete", "commit"} =>
        /\ \A s \in Survivors(seen[i]) : Holds(i, s)
        /\ \A t \in Stale(seen[i]) \ todo[i] : Gone(i, t)

OnlyClosed ==
    /\ \A j \in Incidents : rows[j] > 0 => pc[j] = "closed"
    /\ \A i, j \in Incidents : pc[i] \in Merging /\ seen[i][j] > 0 /\ j # i => pc[j] = "closed"

HeldInv == OnlyClosed /\ \A i \in Incidents : Done(i)

LEMMA HeldInit == Init => HeldInv
<1> SUFFICES ASSUME Init PROVE HeldInv
  OBVIOUS
<1>1. \A i \in Incidents : pc[i] = "open" /\ rows[i] = 0
  BY DEF Init, Nobody
<1> QED
  BY <1>1 DEF HeldInv, OnlyClosed, Done, Merging

\* What another transaction wrote is still there when its locks are.
LEMMA DoneKept ==
    ASSUME MemInv, HeldInv, NEW k \in Incidents,
           pc'[k] = pc[k], seen'[k] = seen[k], todo'[k] = todo[k],
           \A x \in Incidents : pc[x] = "closed" /\ lock[x] = k => lock'[x] = k,
           \A x \in Incidents : lock[x] = k /\ rows[x] > 0 /\ x # k => rows'[x] > 0,
           \A x \in Incidents : pc[x] = "closed" /\ rows[x] = 0 => rows'[x] = 0
    PROVE  Done(k)'
<1>1. Survivors(seen[k])' = Survivors(seen[k]) /\ Stale(seen[k])' = Stale(seen[k])
  BY DEF Survivors, Stale, Group
<1>2. Done(k) /\ OnlyClosed /\ seen[k] \in [Incidents -> Nat]
  BY DEF HeldInv, MemInv, TypeOK
<1>3. ASSUME NEW s \in Incidents, Holds(k, s) PROVE Holds(k, s)'
  <2>1. rows[s] > 0 => pc[s] = "closed"
    BY <1>2 DEF OnlyClosed
  <2> QED
    BY <1>3, <2>1 DEF Holds
<1>4. ASSUME NEW t \in Stale(seen[k]), pc[k] \in Merging, Gone(k, t) PROVE Gone(k, t)'
  <2>1. t \in Incidents /\ seen[k][t] > 0
    BY DEF Stale
  <2>2. t # k => pc[t] = "closed"
    BY <1>2, <1>4, <2>1 DEF OnlyClosed
  <2> QED
    BY <1>4, <2>1, <2>2 DEF Gone
<1>5. \A s \in Survivors(seen[k]) : s \in Incidents
  BY DEF Survivors
<1> QED
  BY <1>1, <1>2, <1>3, <1>4, <1>5 DEF Done, Merging

LEMMA HeldStep ==
    ASSUME MemInv, HeldInv, NEW i \in Incidents,
           WriteConfirmedMemory(i) \/ Progress(i) \/ DeleteMemoryEntry(i)
    PROVE  HeldInv'
<1>1. /\ rows \in [Incidents -> Nat] /\ lock \in [Incidents -> Incidents \cup {None}]
      /\ DOMAIN pc = Incidents /\ DOMAIN todo = Incidents
      /\ seen \in [Incidents -> [Incidents -> Nat]]
      /\ None \notin Incidents /\ OnlyClosed
  BY IncidentsFacts DEF MemInv, TypeOK, HeldInv
<1>2. CASE WriteConfirmedMemory(i)
  <2>1. /\ pc[i] = "open" /\ lock' = [lock EXCEPT ![i] = i]
        /\ pc' = [pc EXCEPT ![i] = "written"] /\ UNCHANGED <<rows, seen, todo>>
    BY <1>2 DEF WriteConfirmedMemory
  <2>2. \A j \in Incidents : /\ pc'[j] = IF j = i THEN "written" ELSE pc[j]
                             /\ lock'[j] = IF j = i THEN i ELSE lock[j]
    BY <1>1, <2>1
  <2>3. OnlyClosed'
    BY <1>1, <2>1, <2>2 DEF OnlyClosed, Merging
  <2>4. ASSUME NEW k \in Incidents PROVE Done(k)'
    <3>1. CASE k = i
      BY <2>2, <3>1 DEF Done
    <3>2. CASE k # i
      <4>1. \A x \in Incidents : pc[x] = "closed" => lock'[x] = lock[x]
        BY <2>1, <2>2
      <4> QED
        BY <2>1, <2>2, <3>2, <4>1, DoneKept
    <3> QED
      BY <3>1, <3>2
  <2> QED
    BY <2>3, <2>4 DEF HeldInv
<1>3. CASE Select(i)
  <2> DEFINE x == [j \in Incidents |-> IF j = i THEN 1 ELSE rows[j]]
             p == IF Survivors(x) = {} THEN "commit" ELSE "update"
  <2>1. x \in [Incidents -> Nat] /\ \A j \in Incidents \ {i} : x[j] = rows[j]
    BY <1>1
  <2>2. pc[i] = "written" /\ seen' = [seen EXCEPT ![i] = x] /\ UNCHANGED <<rows, lock>>
    BY <1>3 DEF Select
  <2>3. seen'[i] = x
    BY <1>1, <2>2
  <2>4. todo' = [todo EXCEPT ![i] = Survivors(x)]
    BY <1>3, <2>3 DEF Select
  <2>5. todo'[i] = Survivors(x)
    BY <1>1, <2>4
  <2>6. pc' = [pc EXCEPT ![i] = p]
    BY <1>3, <2>5 DEF Select
  <2> HIDE DEF x
  <2>7. p = "commit" => Survivors(x) = {} /\ Stale(x) = {}
    BY <2>1, NewestSurvives
  <2>8. p \in {"commit", "update"}
    OBVIOUS
  <2> HIDE DEF p
  <2>9. \A j \in Incidents : /\ pc'[j] = IF j = i THEN p ELSE pc[j]
                             /\ seen'[j] = IF j = i THEN x ELSE seen[j]
                             /\ todo'[j] = IF j = i THEN Survivors(x) ELSE todo[j]
    BY <1>1, <2>2, <2>4, <2>6
  <2>10. OnlyClosed'
    BY <1>1, <2>1, <2>2, <2>8, <2>9 DEF OnlyClosed, Merging
  <2>11. ASSUME NEW k \in Incidents PROVE Done(k)'
    <3>1. CASE k = i
      <4>1. Survivors(seen[i])' = Survivors(x) /\ Stale(seen[i])' = Stale(x)
        BY <2>3 DEF Survivors, Stale, Group
      <4> QED
        BY <2>5, <2>7, <2>8, <2>9, <3>1, <4>1 DEF Done
    <3>2. CASE k # i
      BY <2>2, <2>9, <3>2, DoneKept
    <3> QED
      BY <3>1, <3>2
  <2> QED
    BY <2>10, <2>11 DEF HeldInv
<1>4. CASE UpdateSurvivor(i) \/ (SurvivorGone(i) /\ ~Rollback(i)) \/ DeleteStale(i)
  <2>1. PICK s, l, T, p : Statement(i, s, l, T, p)
    BY <1>4, FlushIsStatements
  <2>2. /\ s \in Incidents /\ s \in todo[i] /\ lock[s] \in {None, i} /\ l \in {i, lock[s]}
        /\ pc[i] \in Merging
        /\ lock' = [lock EXCEPT ![s] = l] /\ todo' = [todo EXCEPT ![i] = T]
        /\ pc' = [pc EXCEPT ![i] = p] /\ UNCHANGED <<rows, seen>>
        /\ \/ /\ pc[i] = "update" /\ l = i /\ Present(i, s)
              /\ \/ p = "update" /\ T = todo[i] \ {s}
                 \/ p = "delete" /\ T = Stale(seen[i]) /\ todo[i] = {s}
           \/ p = "stale"
           \/ /\ pc[i] = "delete" /\ T = todo[i] \ {s} /\ p \in {"delete", "commit"}
              /\ Present(i, s) => l = i
    BY <2>1 DEF Statement, Free, Flushing, Merging
  <2>3. p \in {"update", "stale", "delete", "commit"}
    BY <2>2
  <2>4. \A j \in Incidents : /\ pc'[j] = IF j = i THEN p ELSE pc[j]
                             /\ todo'[j] = IF j = i THEN T ELSE todo[j]
                             /\ lock'[j] = IF j = s THEN l ELSE lock[j]
    BY <1>1, <2>2
  <2>5. OnlyClosed'
    BY <1>1, <2>2, <2>3, <2>4 DEF OnlyClosed, Merging
  <2>6. ASSUME NEW k \in Incidents, k # i PROVE Done(k)'
    <3>1. \A x \in Incidents : lock[x] = k => lock'[x] = k
      BY <1>1, <2>2, <2>4, <2>6
    <3> QED
      BY <2>2, <2>4, <2>6, <3>1, DoneKept
  <2>7. Done(i)'
    <3>1. Survivors(seen[i])' = Survivors(seen[i]) /\ Stale(seen[i])' = Stale(seen[i])
      BY <2>2 DEF Survivors, Stale, Group
    <3>2. \A x \in Incidents : lock[x] = i => lock'[x] = i
      BY <2>2, <2>4
    <3>3. \A x \in Incidents : (Holds(i, x) => Holds(i, x)') /\ (Gone(i, x) => Gone(i, x)')
      BY <2>2, <3>2 DEF Holds, Gone
    <3>4. Done(i) /\ (\A x \in Survivors(seen[i]) \cup Stale(seen[i]) : x \in Incidents)
      BY DEF HeldInv, Survivors, Stale
    <3>5. CASE pc[i] = "update" /\ l = i /\ Present(i, s)
      <4>1. Holds(i, s)'
        BY <2>2, <2>4, <3>5 DEF Present, Holds
      <4>2. p = "delete" => T = Stale(seen[i]) /\ todo[i] = {s}
        BY <2>2, <3>5
      <4>3. p = "update" => T = todo[i] \ {s}
        BY <2>2, <3>5
      <4>4. p # "commit"
        BY <2>2, <3>5
      <4> QED
        BY <2>4, <3>1, <3>3, <3>4, <3>5, <4>1, <4>2, <4>3, <4>4 DEF Done
    <3>6. CASE p = "stale"
      BY <2>4, <3>6 DEF Done
    <3>7. CASE /\ pc[i] = "delete" /\ T = todo[i] \ {s} /\ p \in {"delete", "commit"}
               /\ Present(i, s) => l = i
      <4>1. Gone(i, s)'
        BY <1>1, <2>2, <2>4, <3>7 DEF Present, Gone
      <4> QED
        BY <2>4, <3>1, <3>3, <3>4, <3>7, <4>1 DEF Done
    <3> QED
      BY <2>2, <3>5, <3>6, <3>7
  <2> QED
    BY <2>5, <2>6, <2>7 DEF HeldInv
<1>5. ASSUME NEW outcome \in {"closed", "failed"}, EndSession(i, outcome), pc[i] \in Merging,
             \A j \in Incidents : rows'[j] > 0 => rows[j] > 0 \/ (j = i /\ outcome = "closed"),
             \A k, x \in Incidents :
                lock[x] = k /\ rows[x] > 0 /\ x # k /\ k # i => rows'[x] > 0,
             \A x \in Incidents : pc[x] = "closed" /\ rows[x] = 0 => rows'[x] = 0
      PROVE  HeldInv'
  <2>1. /\ pc' = [pc EXCEPT ![i] = outcome]
        /\ lock' = [j \in Incidents |-> IF lock[j] = i THEN None ELSE lock[j]]
        /\ seen' = [seen EXCEPT ![i] = Nobody] /\ todo' = [todo EXCEPT ![i] = {}]
    BY <1>5 DEF EndSession
  <2>2. \A j \in Incidents : /\ pc'[j] = IF j = i THEN outcome ELSE pc[j]
                             /\ j # i => seen'[j] = seen[j] /\ todo'[j] = todo[j]
                             /\ lock[j] # i => lock'[j] = lock[j]
    BY <1>1, <2>1
  <2>3. OnlyClosed'
    BY <1>1, <1>5, <2>2 DEF OnlyClosed, Merging
  <2>4. ASSUME NEW k \in Incidents PROVE Done(k)'
    <3>1. CASE k = i
      BY <1>5, <2>2, <3>1 DEF Done
    <3>2. CASE k # i
      BY <1>5, <2>2, <3>2, DoneKept
    <3> QED
      BY <3>1, <3>2
  <2> QED
    BY <2>3, <2>4 DEF HeldInv
<1>6. CASE Rollback(i) /\ pc[i] \in Merging
  <2>1. EndSession(i, "failed") /\ UNCHANGED rows
    BY <1>6 DEF Rollback
  <2> QED
    BY <1>5, <1>6, <2>1
<1>7. CASE Commit(i)
  <2>1. /\ pc[i] = "commit" /\ pc[i] \in Merging /\ EndSession(i, "closed")
        /\ \A j \in Incidents : rows'[j] = Written(i, j)
    BY <1>7 DEF Commit, Merging
  <2>2. seen[i] \in [Incidents -> Nat] /\ todo[i] = {} /\ Done(i)
    BY <1>1, <2>1 DEF MemInv, FlushOf, HeldInv
  <2>3. \A j \in Incidents : rows'[j] > 0 => rows[j] > 0 \/ j = i
    BY <1>1, <2>1 DEF Written, Present
  <2>4. ASSUME NEW k \in Incidents, NEW x \in Incidents, lock[x] = k, rows[x] > 0, x # k, k # i
        PROVE  rows'[x] > 0
    <3>1. x # i
      BY <1>1, <2>1, <2>4 DEF OnlyClosed
    <3>2. x \notin Stale(seen[i])
      BY <2>1, <2>2, <2>4, <3>1 DEF Done, Gone
    <3>3. x \in Survivors(seen[i]) => Total(seen[i], x) > 0
      BY <2>2, SurvivorsAreSeen, TotalCounts
    <3> QED
      BY <2>1, <2>4, <3>1, <3>2, <3>3 DEF Written, Present
  <2>5. \A x \in Incidents : pc[x] = "closed" /\ rows[x] = 0 => rows'[x] = 0
    BY <2>1 DEF Written, Present
  <2> QED
    BY <1>5, <2>1, <2>3, <2>4, <2>5
<1>8. CASE DeleteMemoryEntry(i)
  <2>1. /\ lock[i] = None /\ rows' = [rows EXCEPT ![i] = 0] /\ UNCHANGED <<lock, pc, seen, todo>>
    BY <1>8 DEF DeleteMemoryEntry
  <2>2. \A j \in Incidents : rows'[j] = IF j = i THEN 0 ELSE rows[j]
    BY <1>1, <2>1
  <2>3. OnlyClosed'
    BY <1>1, <2>1, <2>2 DEF OnlyClosed
  <2>4. ASSUME NEW k \in Incidents PROVE Done(k)'
    BY <1>1, <2>1, <2>2, DoneKept
  <2> QED
    BY <2>3, <2>4 DEF HeldInv
<1>9. SurvivorGone(i) \/ BreakDeadlock(i) => pc[i] \in Merging
  BY DEF SurvivorGone, BreakDeadlock, InCycle, Blocked, Merging
<1>10. BreakDeadlock(i) => Rollback(i)
  BY DEF BreakDeadlock
<1> QED
  BY <1>2, <1>3, <1>4, <1>6, <1>7, <1>8, <1>9, <1>10 DEF Progress

LEMMA HeldInvariant == Spec => []HeldInv
<1>1. MemInv /\ HeldInv /\ [Next]_vars => HeldInv'
  <2> SUFFICES ASSUME MemInv, HeldInv, [Next]_vars PROVE HeldInv'
    OBVIOUS
  <2>1. CASE Next
    BY <2>1, HeldStep DEF Next
  <2>2. CASE UNCHANGED vars
    BY <2>2 DEF vars, HeldInv, OnlyClosed, Done, Holds, Gone, Survivors, Stale, Group
  <2> QED
    BY <2>1, <2>2
<1> QED
  BY <1>1, HeldInit, MemInvariant, PTL DEF Spec

\* A commit leaves a row of the pattern of each row it saw.
LEMMA CommitRemembers ==
    ASSUME MemInv, HeldInv, NEW i \in Incidents, Commit(i), NEW j \in Incidents, seen[i][j] > 0,
           rows[j] > 0 \/ j = i
    PROVE  \E s \in Incidents : PatternOf[s] = PatternOf[j] /\ rows'[s] > 0
<1>1. /\ pc[i] = "commit" /\ seen[i] \in [Incidents -> Nat] /\ Done(i)
      /\ \A x \in Incidents : rows'[x] = Written(i, x)
  BY DEF Commit, MemInv, TypeOK, HeldInv
<1>2. ASSUME NEW s \in Survivors(seen[i]) PROVE s \in Incidents /\ rows'[s] > 0
  <2>1. s \in Incidents /\ seen[i][s] > 0 /\ s \notin Stale(seen[i])
    BY <1>1, SurvivorsAreSeen
  <2>2. Present(i, s)
    BY <1>1, <1>2 DEF Done, Holds, Present
  <2>3. Total(seen[i], s) > 0
    BY <1>1, <2>1, TotalCounts
  <2> QED
    BY <1>1, <1>2, <2>1, <2>2, <2>3 DEF Written
<1>3. CASE j \in Stale(seen[i])
  <2>1. PICK s \in Survivors(seen[i]) : PatternOf[s] = PatternOf[j]
    BY <1>1, <1>3, NewestSurvives
  <2> QED
    BY <1>2, <2>1
<1>4. CASE j \in Survivors(seen[i])
  BY <1>2, <1>4
<1>5. CASE j \notin Stale(seen[i]) /\ j \notin Survivors(seen[i])
  <2>1. rows'[j] > 0
    BY <1>1, <1>5 DEF Written, Present
  <2> QED
    BY <2>1
<1> QED
  BY <1>3, <1>4, <1>5

LEMMA RememberedStep ==
    ASSUME MemInv, HeldInv, PatternRemembered, NEW i \in Incidents,
           WriteConfirmedMemory(i) \/ Progress(i) \/ DeleteMemoryEntry(i)
    PROVE  PatternRemembered'
<1> SUFFICES ASSUME NEW p \in Patterns, ClosedWith(p)' # {},
                    p \notin {PatternOf[j] : j \in deleted'}
             PROVE  RowsOf(p)' # {}
  BY DEF PatternRemembered
<1>1. TypeOK
  BY DEF MemInv
<1>2. CASE Commit(i)
  <2>1. /\ pc[i] \in Merging /\ UNCHANGED deleted /\ pc' = [pc EXCEPT ![i] = "closed"]
        /\ \A j \in Incidents : rows'[j] = Written(i, j)
    BY <1>2 DEF Commit, Merging, EndSession
  <2>2. CASE p = PatternOf[i]
    <3>1. seen[i][i] > 0
      BY <2>1 DEF MemInv, FlushOf
    <3> QED
      BY <1>2, <2>2, <3>1, CommitRemembers DEF RowsOf
  <2>3. CASE p # PatternOf[i]
    <3>1. ClosedWith(p) # {}
      BY <1>1, <2>1, <2>3 DEF ClosedWith, TypeOK
    <3>2. RowsOf(p) # {}
      BY <2>1, <3>1 DEF PatternRemembered
    <3>3. PICK j \in Incidents : rows[j] > 0 /\ PatternOf[j] = p
      BY <3>2 DEF RowsOf
    <3>4. CASE seen[i][j] > 0
      BY <1>2, <3>3, <3>4, CommitRemembers DEF RowsOf
    <3>5. CASE ~(seen[i][j] > 0)
      <4>1. j \notin Stale(seen[i]) /\ j \notin Survivors(seen[i]) /\ j # i
        BY <2>3, <3>3, <3>5 DEF Stale, Survivors
      <4>2. rows'[j] = rows[j]
        BY <2>1, <3>3, <4>1 DEF Written, Present
      <4> QED
        BY <3>3, <4>2 DEF RowsOf
    <3> QED
      BY <3>4, <3>5
  <2> QED
    BY <2>2, <2>3
<1>3. CASE DeleteMemoryEntry(i)
  <2>1. /\ rows' = [rows EXCEPT ![i] = 0] /\ deleted' = deleted \cup {i} /\ UNCHANGED pc
    BY <1>3 DEF DeleteMemoryEntry
  <2>2. ClosedWith(p) # {} /\ PatternOf[i] # p /\ p \notin {PatternOf[j] : j \in deleted}
    BY <2>1 DEF ClosedWith
  <2>3. PICK j \in Incidents : rows[j] > 0 /\ PatternOf[j] = p
    BY <2>2 DEF PatternRemembered, RowsOf
  <2>4. rows'[j] = rows[j]
    BY <1>1, <2>1, <2>2, <2>3 DEF TypeOK
  <2> QED
    BY <2>3, <2>4 DEF RowsOf
<1>4. CASE ~(Commit(i) \/ DeleteMemoryEntry(i))
  <2>1. /\ UNCHANGED <<rows, deleted>>
        /\ \E q : q # "closed" /\ pc' = [pc EXCEPT ![i] = q]
    <3>1. CASE WriteConfirmedMemory(i) \/ Select(i)
      <4>1. \E q \in {"written", "commit", "update"} : pc' = [pc EXCEPT ![i] = q]
        BY <3>1 DEF WriteConfirmedMemory, Select
      <4> QED
        BY <3>1, <4>1 DEF WriteConfirmedMemory, Select
    <3>2. CASE Rollback(i)
      BY <3>2 DEF Rollback, EndSession
    <3>3. CASE UpdateSurvivor(i) \/ (SurvivorGone(i) /\ ~Rollback(i)) \/ DeleteStale(i)
      <4>1. PICK s, l, T, q : Statement(i, s, l, T, q)
        BY <3>3, FlushIsStatements
      <4> QED
        BY <4>1 DEF Statement
    <3> QED
      BY <1>4, <3>1, <3>2, <3>3 DEF Progress, BreakDeadlock
  <2>2. ClosedWith(p) # {}
    BY <1>1, <2>1 DEF ClosedWith, TypeOK
  <2> QED
    BY <2>1, <2>2 DEF PatternRemembered, RowsOf
<1> QED
  BY <1>2, <1>3, <1>4

\* However many closes race, and whatever they confirm: a confirmed pattern is
\* forgotten only if the admin deleted a row of it.  The closes of other patterns,
\* which merge and delete this pattern's duplicates too, do not take its last row.
THEOREM PatternsAreRemembered == Spec => []PatternRemembered
<1>1. Init => PatternRemembered
  <2> SUFFICES ASSUME Init, NEW p \in Patterns PROVE ClosedWith(p) = {}
    BY DEF PatternRemembered
  <2> QED
    BY DEF Init, ClosedWith
<1>2. MemInv /\ HeldInv /\ PatternRemembered /\ [Next]_vars => PatternRemembered'
  <2> SUFFICES ASSUME MemInv, HeldInv, PatternRemembered, [Next]_vars PROVE PatternRemembered'
    OBVIOUS
  <2>1. CASE Next
    BY <2>1, RememberedStep DEF Next
  <2>2. CASE UNCHANGED vars
    BY <2>2 DEF vars, PatternRemembered, ClosedWith, RowsOf
  <2> QED
    BY <2>1, <2>2
<1> QED
  BY <1>1, <1>2, MemInvariant, HeldInvariant, PTL DEF Spec

-----------------------------------------------------------------------------
(* Without overlap.  There is one transaction at most, of the newest        *)
(* incident there is; what it saw is still so, and nothing blocks it.      *)

Flying(i) == pc[i] \notin {"open", "closed", "failed"}

\* Incidents close in the order of their ids.
InOrder == \A i, j \in Incidents : i < j /\ pc[i] = "open" => pc[j] = "open"

Alone ==
    /\ \A i, j \in Incidents : Flying(i) /\ Flying(j) => i = j
    /\ \A i \in Incidents : pc[i] # "failed"
    /\ \A i, j \in Incidents : Flying(i) /\ i < j => pc[j] = "open"
    /\ \A j \in Incidents : lock[j] # None => lock[j] \in Incidents /\ Flying(lock[j])

\* The rows an incident's SELECT returns while nothing else happens.
Visible(i) ==
    [j \in Incidents |-> IF j = i THEN 1 ELSE rows[j]]

Consolidated ==
    /\ \A i \in Incidents : pc[i] \in Merging => seen[i] = Visible(i) /\ pc[i] # "stale"
    /\ \A j \in Incidents : rows[j] > 0 => pc[j] = "closed"
    /\ \A j, k \in Incidents :
        rows[j] > 0 /\ rows[k] > 0 /\ PatternOf[j] = PatternOf[k] => j = k

Closed == {i \in Incidents : pc[i] = "closed"}

Counted == SumOf(rows) + forgotten = Cardinality(Closed)

SerialInv == InOrder /\ (~overlapped => Alone /\ Consolidated /\ Counted)

LEMMA NotOverlapped ==
    ASSUME \A i \in Incidents : ~Flying(i)
    PROVE  InFlight = {}
  BY DEF InFlight, Flying

LEMMA SerialInit == Init => SerialInv
<1> SUFFICES ASSUME Init PROVE SerialInv
  OBVIOUS
<1>1. /\ rows = Nobody /\ forgotten = 0
      /\ \A i \in Incidents : pc[i] = "open" /\ lock[i] = None /\ rows[i] = 0
  BY DEF Init, Nobody
<1>2. Closed = {}
  BY <1>1 DEF Closed
<1>3. Counted
  BY <1>1, <1>2, SumNobody, FS_EmptySet DEF Counted
<1>4. InOrder /\ Alone /\ Consolidated
  BY <1>1 DEF InOrder, Alone, Consolidated, Flying, Merging
<1> QED
  BY <1>3, <1>4 DEF SerialInv

\* One incident moves on.
LEMMA OrderKept ==
    ASSUME MemInv, InOrder, NEW i \in Incidents, NEW p,
           pc' = [pc EXCEPT ![i] = p], p # "open",
           pc[i] = "open" => \A j \in 1..(i - 1) : pc[j] # "open"
    PROVE  InOrder'
<1>1. \A k \in Incidents : pc'[k] = IF k = i THEN p ELSE pc[k]
  BY DEF MemInv, TypeOK
<1>2. ASSUME NEW k \in Incidents, NEW j \in Incidents, k < j, pc'[k] = "open"
      PROVE  pc'[j] = "open"
  <2>1. k # i /\ pc[k] = "open"
    BY <1>1, <1>2
  <2>2. pc[j] = "open"
    BY <1>2, <2>1 DEF InOrder
  <2>3. j # i
    <3> SUFFICES ASSUME j = i PROVE FALSE
      OBVIOUS
    <3>1. k \in 1..(i - 1)
      BY <1>2, IncidentsFacts
    <3> QED
      BY <2>1, <2>2, <3>1
  <2> QED
    BY <1>1, <2>2, <2>3
<1> QED
  BY <1>2 DEF InOrder

LEMMA FlyingIsAlone ==
    ASSUME MemInv, Alone, Consolidated, NEW i \in Incidents, pc[i] \in Merging
    PROVE  /\ Survivors(seen[i]) \subseteq {i}
           /\ Stale(seen[i]) = {j \in Incidents \ {i} : PatternOf[j] = PatternOf[i] /\ rows[j] > 0}
           /\ Stale(seen[i]) # {} => i \in Survivors(seen[i])
           /\ \A j \in Incidents : Free(j, i)
<1>1. Flying(i)
  BY DEF Merging, Flying
<1>2. seen[i] = Visible(i) /\ rows \in [Incidents -> Nat] /\ seen[i] \in [Incidents -> Nat]
  BY DEF Consolidated, MemInv, TypeOK
<1>3. seen[i][i] = 1 /\ \A j \in Incidents \ {i} : seen[i][j] = rows[j]
  BY <1>2 DEF Visible
<1>4. \A j \in Incidents \ {i} : rows[j] > 0 => j < i
  <2> SUFFICES ASSUME NEW j \in Incidents \ {i}, rows[j] > 0 PROVE j < i
    OBVIOUS
  <2>1. pc[j] # "open"
    BY DEF Consolidated
  <2>2. ~(i < j)
    BY <1>1, <2>1 DEF Alone
  <2> QED
    BY <2>2, IncidentsFacts
<1>5. \A j, k \in Incidents : /\ seen[i][j] > 0 /\ seen[i][k] > 0 /\ j # k
                              /\ PatternOf[j] = PatternOf[k]
                              => j = i \/ k = i
  BY <1>3 DEF Consolidated
<1>6. ASSUME NEW s \in Survivors(seen[i]) PROVE s = i
  <2>1. /\ s \in Incidents /\ seen[i][s] > 0 /\ Group(seen[i], s) # {s}
        /\ \A k \in Group(seen[i], s) : k <= s
    BY DEF Survivors
  <2>2. s \in Group(seen[i], s)
    BY <2>1 DEF Group
  <2>3. PICK k \in Group(seen[i], s) : k # s
    BY <2>1, <2>2
  <2>4. k \in Incidents /\ seen[i][k] > 0 /\ PatternOf[k] = PatternOf[s] /\ k <= s
    BY <2>1, <2>3 DEF Group
  <2> SUFFICES ASSUME s # i PROVE FALSE
    OBVIOUS
  <2>5. k = i
    BY <1>5, <2>1, <2>3, <2>4
  <2>6. s < i
    BY <1>3, <1>4, <2>1
  <2>7. s \in 1..Closes /\ i \in 1..Closes
    BY <2>1, IncidentsFacts
  <2> QED
    BY <2>4, <2>5, <2>6, <2>7, IncidentsFacts
<1>7. ASSUME NEW t \in Stale(seen[i])
      PROVE  t \in Incidents \ {i} /\ PatternOf[t] = PatternOf[i] /\ rows[t] > 0
             /\ i \in Survivors(seen[i])
  <2>1. PICK s \in Survivors(seen[i]) : PatternOf[s] = PatternOf[t]
    BY <1>2, NewestSurvives
  <2>2. s = i
    BY <1>6
  <2>3. t \in Incidents /\ seen[i][t] > 0
    BY DEF Stale
  <2>4. t # i
    BY <1>2, <2>1, <2>2, SurvivorsAreSeen
  <2> QED
    BY <1>3, <2>1, <2>2, <2>3, <2>4
<1>8. ASSUME NEW t \in Incidents \ {i}, PatternOf[t] = PatternOf[i], rows[t] > 0
      PROVE  t \in Stale(seen[i])
  <2>1. i \in Group(seen[i], t) /\ seen[i][t] > 0
    BY <1>3, <1>8 DEF Group
  <2>2. i > t
    BY <1>4, <1>8, IncidentsFacts
  <2> QED
    BY <2>1, <2>2 DEF Stale
<1>9. \A j \in Incidents : Free(j, i)
  BY <1>1 DEF Alone, Free
<1>10. Stale(seen[i]) = {j \in Incidents \ {i} : PatternOf[j] = PatternOf[i] /\ rows[j] > 0}
  BY <1>7, <1>8
<1>11. Stale(seen[i]) # {} => i \in Survivors(seen[i])
  BY <1>7
<1> QED
  BY <1>6, <1>9, <1>10, <1>11

\* What is left of an incident's pattern is one row, which counts all that
\* its rows did, and the incident.
LEMMA MergeCounts ==
    ASSUME MemInv, Alone, Consolidated, NEW i \in Incidents, pc[i] \in Merging,
           rows' = [j \in Incidents |-> Written(i, j)]
    PROVE  /\ SumOf(rows') = SumOf(rows) + 1
           /\ \A j \in Incidents : rows'[j] > 0 => j = i \/ rows[j] > 0
           /\ \A j \in Incidents : rows'[j] > 0 /\ PatternOf[j] = PatternOf[i] => j = i
<1> DEFINE view == seen[i]
           stale == Stale(seen[i])
<1>1. /\ Survivors(view) \subseteq {i}
      /\ stale = {j \in Incidents \ {i} : PatternOf[j] = PatternOf[i] /\ rows[j] > 0}
      /\ stale # {} => i \in Survivors(view)
  BY FlyingIsAlone
<1>2. rows \in [Incidents -> Nat] /\ view = Visible(i) /\ rows[i] = 0 /\ view \in [Incidents -> Nat]
  <2>1. rows \in [Incidents -> Nat] /\ view = Visible(i) /\ view \in [Incidents -> Nat]
    BY DEF MemInv, TypeOK, Consolidated
  <2>2. ~(rows[i] > 0)
    BY DEF Consolidated, Merging
  <2> QED
    BY <2>1, <2>2
<1>3. view[i] = 1 /\ \A j \in Incidents \ {i} : view[j] = rows[j]
  BY <1>2 DEF Visible
<1>4. ASSUME NEW j \in Incidents
      PROVE  rows'[j] = IF j \in stale THEN 0
                        ELSE IF j = i THEN IF stale = {} THEN 1 ELSE Total(view, i)
                        ELSE rows[j]
  <2>1. rows'[j] = Written(i, j) /\ rows[j] \in Nat
    BY <1>2
  <2>2. stale = {} => i \notin Survivors(view)
    BY <1>2, SurvivorsMerge
  <2>3. j = i => j \notin stale
    BY <1>1
  <2>4. CASE j = i
    BY <1>1, <2>1, <2>2, <2>3, <2>4 DEF Written, Present
  <2>5. CASE j # i
    BY <1>1, <2>1, <2>5 DEF Written, Present
  <2> QED
    BY <2>4, <2>5
<1>5. rows' = [j \in Incidents |-> rows'[j]] /\ i \notin stale
  BY <1>1
<1> HIDE DEF stale, view
<1>6. SumOf(rows) \in Nat
  BY <1>2, SumType
<1>7. CASE stale = {}
  <2>1. rows' = [rows EXCEPT ![i] = 1]
    BY <1>2, <1>4, <1>5, <1>7
  <2>2. SumOf(rows') + rows[i] = SumOf(rows) + 1
    BY <1>2, <2>1, SumChanged
  <2>3. SumOf(rows') \in Nat
    <3>1. rows' \in [Incidents -> Nat]
      BY <1>2, <2>1
    <3> QED
      BY <3>1, SumType
  <2> QED
    BY <1>1, <1>2, <1>4, <1>6, <1>7, <2>2, <2>3
<1>8. ASSUME NEW s \in stale
      PROVE  SumOf(rows') = SumOf(rows) + 1
  <2>1. /\ s \in Incidents /\ s # i /\ PatternOf[s] = PatternOf[i] /\ rows[s] > 0
        /\ rows[s] \in Nat
    BY <1>1, <1>2
  <2>2. \A j \in stale : j = s
    BY <1>1, <2>1 DEF Consolidated
  <2> DEFINE one == [Nobody EXCEPT ![i] = 1]
             both == [one EXCEPT ![s] = rows[s]]
  <2>3. /\ one \in [Incidents -> Nat] /\ one[s] = 0
        /\ \A j \in Incidents : one[j] = IF j = i THEN 1 ELSE 0
    BY <2>1, NobodyType DEF Nobody
  <2>4. SumOf(one) + Nobody[i] = SumOf(Nobody) + 1
    BY NobodyType, SumChanged
  <2> HIDE DEF one
  <2>5. SumOf(one) = 1
    <3>1. SumOf(one) \in Nat /\ Nobody[i] = 0
      BY <2>3, SumType DEF Nobody
    <3> QED
      BY <2>4, <3>1, SumNobody
  <2>6. SumOf(both) + one[s] = SumOf(one) + rows[s]
    BY <2>1, <2>3, SumChanged
  <2>7. /\ both \in [Incidents -> Nat]
        /\ \A j \in Incidents : both[j] = IF j = s THEN rows[s] ELSE one[j]
    BY <2>1, <2>3
  <2> HIDE DEF both
  <2>8. SumOf(both) \in Nat
    BY <2>7, SumType
  <2>9. Total(view, i) = 1 + rows[s]
    <3> DEFINE counts == [k \in Incidents |-> IF k \in Group(view, i) THEN view[k] ELSE 0]
    <3>1. \A k \in Incidents : counts[k] = both[k]
      <4> SUFFICES ASSUME NEW k \in Incidents
                   PROVE (IF k \in Group(view, i) THEN view[k] ELSE 0) = both[k]
        OBVIOUS
      <4>1. CASE k = s
        BY <1>3, <2>1, <2>7, <4>1 DEF Group
      <4>2. CASE k = i
        BY <1>3, <2>1, <2>3, <2>7, <4>2 DEF Group
      <4>3. CASE k # s /\ k # i
        <5>1. k \notin stale
          BY <2>2, <4>3
        <5>2. k \notin Group(view, i)
          BY <1>1, <1>3, <4>3, <5>1 DEF Group
        <5> QED
          BY <2>3, <2>7, <4>3, <5>2
      <4> QED
        BY <4>1, <4>2, <4>3
    <3>2. counts = [k \in Incidents |-> counts[k]]
      OBVIOUS
    <3>3. both = [k \in Incidents |-> both[k]]
      BY <2>7
    <3>4. Total(view, i) = SumOf(counts)
      BY DEF Total
    <3> HIDE DEF counts
    <3>5. counts = both
      BY <3>1, <3>2, <3>3
    <3> DEFINE a == SumOf(both)
               d == rows[s]
               o == SumOf(one)
               z == one[s]
    <3>6. a \in Nat /\ d \in Nat /\ a + z = o + d /\ o = 1 /\ z = 0
      BY <2>1, <2>3, <2>5, <2>6, <2>8
    <3>7. Total(view, i) = a
      BY <3>4, <3>5
    <3> HIDE DEF a, d, o, z
    <3>8. a = 1 + d
      BY <3>6
    <3> QED
      BY <3>7, <3>8 DEF d
  <2> DEFINE less == [rows EXCEPT ![s] = 0]
  <2>10. SumOf(less) + rows[s] = SumOf(rows) + 0
    <3>1. rows \in [Incidents -> Nat] /\ s \in Incidents /\ 0 \in Nat
      BY <1>2, <2>1
    <3> QED
      BY <3>1, SumChanged
  <2>11. less \in [Incidents -> Nat] /\ less[i] = 0
         /\ \A j \in Incidents : less[j] = IF j = s THEN 0 ELSE rows[j]
    BY <1>2, <2>1
  <2> HIDE DEF less
  <2>12. SumOf(less) \in Nat
    BY <2>11, SumType
  <2> DEFINE more == [less EXCEPT ![i] = 1 + rows[s]]
  <2>13. SumOf(more) + less[i] = SumOf(less) + (1 + rows[s])
    <3> DEFINE v == 1 + rows[s]
    <3>1. v \in Nat
      BY <2>1
    <3> HIDE DEF v
    <3>2. SumOf([less EXCEPT ![i] = v]) + less[i] = SumOf(less) + v
      BY <2>11, <3>1, SumChanged
    <3> QED
      BY <3>2 DEF v
  <2>14. /\ more \in [Incidents -> Nat]
         /\ \A j \in Incidents : more[j] = IF j = i THEN 1 + rows[s] ELSE less[j]
    BY <2>1, <2>11
  <2> HIDE DEF more
  <2>15. rows' = more
    <3>1. more = [j \in Incidents |-> more[j]]
      BY <2>14
    <3>2. stale # {}
      BY <1>8
    <3>3. \A j \in Incidents : rows'[j] = more[j]
      BY <1>4, <2>1, <2>2, <2>9, <2>11, <2>14, <3>2
    <3> QED
      BY <1>5, <3>1, <3>3
  <2>16. SumOf(more) \in Nat
    BY <2>14, SumType
  <2> DEFINE a == SumOf(more)
             b == SumOf(less)
             c == SumOf(rows)
             d == rows[s]
  <2>17. /\ a \in Nat /\ b \in Nat /\ c \in Nat /\ d \in Nat
         /\ a + 0 = b + (1 + d) /\ b + d = c + 0
    BY <1>6, <2>1, <2>10, <2>11, <2>12, <2>13, <2>16
  <2> HIDE DEF a, b, c, d
  <2>18. a = c + 1
    BY <2>17
  <2> QED
    BY <2>15, <2>18 DEF a, c
<1>9. SumOf(rows') = SumOf(rows) + 1
  BY <1>7, <1>8
<1>10. \A j \in Incidents : rows'[j] > 0 => j = i \/ rows[j] > 0
  BY <1>4
<1>11. \A j \in Incidents : rows'[j] > 0 /\ PatternOf[j] = PatternOf[i] => j = i
  BY <1>1, <1>2, <1>4
<1> QED
  BY <1>9, <1>10, <1>11


\* A merge that is about to commit, or its first statements, concern no count.
LEMMA SameCounts ==
    ASSUME Counted, UNCHANGED <<rows, forgotten>>, Closed' = Closed
    PROVE  Counted'
  BY DEF Counted

LEMMA SerialStep ==
    ASSUME MemInv, SerialInv, NEW i \in Incidents,
           WriteConfirmedMemory(i) \/ Progress(i) \/ DeleteMemoryEntry(i)
    PROVE  SerialInv'
<1>1. /\ rows \in [Incidents -> Nat] /\ forgotten \in Nat /\ overlapped \in BOOLEAN
      /\ lock \in [Incidents -> Incidents \cup {None}]
      /\ DOMAIN pc = Incidents /\ DOMAIN seen = Incidents /\ DOMAIN lock = Incidents
  BY DEF MemInv, TypeOK
<1>2. ~overlapped' => ~overlapped /\ Alone /\ Consolidated /\ Counted
  BY DEF SerialInv, WriteConfirmedMemory, Progress, Select, UpdateSurvivor, SurvivorGone,
         DeleteStale, Commit, BreakDeadlock, Rollback, DeleteMemoryEntry
<1>3. CASE WriteConfirmedMemory(i)
  <2>1. /\ pc[i] = "open" /\ \A j \in 1..(i - 1) : pc[j] # "open"
        /\ lock' = [lock EXCEPT ![i] = i] /\ pc' = [pc EXCEPT ![i] = "written"]
        /\ overlapped' = (overlapped \/ InFlight # {})
        /\ UNCHANGED <<rows, seen, todo, deleted, forgotten>>
    BY <1>3 DEF WriteConfirmedMemory
  <2>2. InOrder'
    BY <2>1, OrderKept DEF SerialInv
  <2>3. ASSUME ~overlapped' PROVE Alone' /\ Consolidated' /\ Counted'
    <3>1. Alone /\ Consolidated /\ Counted /\ \A j \in Incidents : ~Flying(j)
      BY <1>2, <2>1, <2>3 DEF InFlight, Flying
    <3>2. /\ \A j \in Incidents : pc'[j] = IF j = i THEN "written" ELSE pc[j]
          /\ \A j \in Incidents : lock'[j] = IF j = i THEN i ELSE lock[j]
      BY <1>1, <2>1
    <3>3. \A j \in Incidents : Flying(j)' <=> j = i
      BY <3>1, <3>2 DEF Flying
    <3>4. \A j \in Incidents : i < j => pc'[j] = "open"
      <4> SUFFICES ASSUME NEW j \in Incidents, i < j PROVE pc'[j] = "open"
        OBVIOUS
      <4>1. pc[j] = "open"
        BY <2>1 DEF SerialInv, InOrder
      <4>2. j # i
        BY IncidentsFacts
      <4> QED
        BY <3>2, <4>1, <4>2
    <3>5. Alone'
      BY <3>1, <3>2, <3>3, <3>4 DEF Alone
    <3>6. Consolidated'
      <4>1. \A j \in Incidents : pc'[j] \notin Merging
        BY <3>1, <3>2 DEF Flying, Merging
      <4>2. \A j \in Incidents : rows[j] > 0 => pc'[j] = "closed"
        BY <2>1, <3>1, <3>2 DEF Consolidated
      <4> QED
        BY <2>1, <3>1, <4>1, <4>2 DEF Consolidated
    <3>7. Closed' = Closed
      BY <2>1, <3>2 DEF Closed
    <3> QED
      BY <2>1, <3>1, <3>5, <3>6, <3>7, SameCounts
  <2> QED
    BY <2>2, <2>3 DEF SerialInv
<1>4. CASE Select(i)
  <2>1. /\ pc[i] = "written" /\ seen' = [seen EXCEPT ![i] = Visible(i)]
        /\ UNCHANGED <<rows, lock, deleted, forgotten, overlapped>>
    BY <1>4 DEF Select, Visible
  <2>2. PICK p \in {"commit", "update"} : pc' = [pc EXCEPT ![i] = p]
    BY <1>4 DEF Select
  <2>3. InOrder'
    BY <2>1, <2>2, OrderKept DEF SerialInv
  <2>4. ASSUME ~overlapped' PROVE Alone' /\ Consolidated' /\ Counted'
    <3>1. Alone /\ Consolidated /\ Counted
      BY <1>2, <2>4
    <3>2. \A j \in Incidents : /\ pc'[j] = IF j = i THEN p ELSE pc[j]
                               /\ seen'[j] = IF j = i THEN Visible(i) ELSE seen[j]
      BY <1>1, <2>1, <2>2
    <3>3. \A j \in Incidents : Flying(j)' <=> Flying(j)
      BY <2>1, <2>2, <3>2 DEF Flying
    <3>4. Alone'
      BY <2>1, <2>2, <3>1, <3>2, <3>3 DEF Alone
    <3>5. Consolidated'
      <4>1. \A j \in Incidents : Visible(j)' = Visible(j)
        BY <2>1 DEF Visible
      <4>2. \A j \in Incidents : pc'[j] \in Merging => seen'[j] = Visible(j) /\ pc'[j] # "stale"
        BY <3>1, <3>2 DEF Consolidated, Merging
      <4>3. \A j \in Incidents : rows[j] > 0 => pc'[j] = "closed"
        BY <2>1, <3>1, <3>2 DEF Consolidated
      <4> QED
        BY <2>1, <3>1, <4>1, <4>2, <4>3 DEF Consolidated
    <3>6. Closed' = Closed
      BY <2>1, <2>2, <3>2 DEF Closed
    <3> QED
      BY <2>1, <3>1, <3>4, <3>5, <3>6, SameCounts
  <2> QED
    BY <2>3, <2>4 DEF SerialInv
<1>5. CASE UpdateSurvivor(i) \/ (SurvivorGone(i) /\ ~Rollback(i)) \/ DeleteStale(i)
  <2>1. PICK s, l, T, p : Statement(i, s, l, T, p)
    BY <1>5, FlushIsStatements
  <2>2. /\ s \in Incidents /\ s \in todo[i] /\ l \in {i, lock[s]} /\ p \in Merging
        /\ lock' = [lock EXCEPT ![s] = l] /\ pc' = [pc EXCEPT ![i] = p]
        /\ UNCHANGED <<rows, seen, deleted, forgotten, overlapped>>
        /\ pc[i] \in {"update", "stale", "delete"}
        /\ p = "stale" => pc[i] = "stale" \/ (pc[i] = "update" /\ ~Present(i, s))
    BY <2>1 DEF Statement, Flushing, Merging
  <2>3. InOrder'
    BY <2>2, OrderKept DEF SerialInv, Merging
  <2>4. ASSUME ~overlapped' PROVE Alone' /\ Consolidated' /\ Counted'
    <3>1. Alone /\ Consolidated /\ Counted
      BY <1>2, <2>4
    <3>2. /\ \A j \in Incidents : pc'[j] = IF j = i THEN p ELSE pc[j]
          /\ \A j \in Incidents : lock'[j] = IF j = s THEN l ELSE lock[j]
      BY <1>1, <2>2
    <3>3. \A j \in Incidents : Flying(j)' <=> Flying(j)
      BY <2>2, <3>2 DEF Flying, Merging
    <3>4. Flying(i) /\ pc[i] \in Merging
      BY <2>2 DEF Flying, Merging
    <3>5. Alone'
      <4>1. \A j \in Incidents : lock'[j] # None => lock'[j] \in Incidents /\ Flying(lock'[j])
        BY <2>2, <3>1, <3>2, <3>4 DEF Alone
      <4> QED
        BY <2>2, <3>1, <3>2, <3>3, <4>1 DEF Alone, Merging
    <3>6. p # "stale"
      <4>1. pc[i] # "stale"
        BY <3>1, <3>4 DEF Consolidated
      <4>2. pc[i] = "update" => s = i
        BY <2>2, <3>1, <3>4, FlyingIsAlone DEF MemInv, FlushOf
      <4> QED
        BY <2>2, <4>1, <4>2 DEF Present
    <3>7. Consolidated'
      <4>1. \A j \in Incidents : Visible(j)' = Visible(j)
        BY <2>2 DEF Visible
      <4>2. \A j \in Incidents : pc'[j] \in Merging => pc[j] \in Merging /\ pc'[j] # "stale"
        BY <3>1, <3>2, <3>4, <3>6 DEF Consolidated
      <4>3. \A j \in Incidents : rows[j] > 0 => pc'[j] = "closed"
        BY <2>2, <3>1, <3>2 DEF Consolidated
      <4> QED
        BY <2>2, <3>1, <4>1, <4>2, <4>3 DEF Consolidated
    <3>8. Closed' = Closed
      BY <2>2, <3>2 DEF Closed, Merging
    <3> QED
      BY <2>2, <3>1, <3>5, <3>7, <3>8, SameCounts
  <2> QED
    BY <2>3, <2>4 DEF SerialInv
<1>6. CASE Rollback(i) /\ (SurvivorGone(i) \/ BreakDeadlock(i))
  <2>1. pc[i] \in Flushing /\ pc[i] \in Merging
    BY <1>6 DEF SurvivorGone, BreakDeadlock, InCycle, Blocked, Flushing, Merging
  <2>2. /\ pc' = [pc EXCEPT ![i] = "failed"]
        /\ UNCHANGED overlapped
    BY <1>6 DEF Rollback, EndSession
  <2>3. InOrder'
    BY <2>1, <2>2, OrderKept DEF SerialInv, Flushing
  <2>4. ASSUME ~overlapped' PROVE FALSE
    <3>1. Alone /\ Consolidated
      BY <1>2, <2>4
    <3>2. Survivors(seen[i]) \subseteq {i} /\ (\A j \in Incidents : Free(j, i)) /\ pc[i] # "stale"
      BY <2>1, <3>1, FlyingIsAlone DEF Consolidated
    <3>3. Min(todo[i]) \in todo[i] /\ Min(todo[i]) \in Incidents
      BY <2>1, NextOfFlush
    <3>4. CASE SurvivorGone(i)
      <4>1. pc[i] = "update" /\ ~Present(i, Min(todo[i]))
        BY <3>2, <3>4 DEF SurvivorGone
      <4>2. Min(todo[i]) = i
        BY <3>2, <3>3, <4>1 DEF MemInv, FlushOf
      <4> QED
        BY <4>1, <4>2 DEF Present
    <3>5. CASE BreakDeadlock(i)
      <4>1. Blocked(i)
        BY <3>5 DEF BreakDeadlock, InCycle
      <4> QED
        BY <3>2, <3>3, <4>1 DEF Blocked, Wanted
    <3> QED
      BY <1>6, <3>4, <3>5
  <2> QED
    BY <2>3, <2>4 DEF SerialInv
<1>7. CASE Commit(i)
  <2>1. /\ pc[i] = "commit" /\ pc[i] \in Merging /\ pc' = [pc EXCEPT ![i] = "closed"]
        /\ lock' = [j \in Incidents |-> IF lock[j] = i THEN None ELSE lock[j]]
        /\ seen' = [seen EXCEPT ![i] = Nobody]
        /\ rows' = [j \in Incidents |-> Written(i, j)]
        /\ UNCHANGED <<deleted, forgotten, overlapped>>
    BY <1>7 DEF Commit, EndSession, Merging
  <2>2. InOrder'
    BY <2>1, OrderKept DEF SerialInv
  <2>3. ASSUME ~overlapped' PROVE Alone' /\ Consolidated' /\ Counted'
    <3>1. Alone /\ Consolidated /\ Counted
      BY <1>2, <2>3
    <3>2. /\ SumOf(rows') = SumOf(rows) + 1
          /\ \A j \in Incidents : rows'[j] > 0 => j = i \/ rows[j] > 0
          /\ \A j \in Incidents : rows'[j] > 0 /\ PatternOf[j] = PatternOf[i] => j = i
      BY <2>1, <3>1, MergeCounts
    <3>3. \A j \in Incidents : pc'[j] = IF j = i THEN "closed" ELSE pc[j]
      BY <1>1, <2>1
    <3>4. \A j \in Incidents : ~Flying(j)'
      BY <2>1, <3>1, <3>3 DEF Alone, Flying, Merging
    <3>5. Alone'
      <4>1. \A j \in Incidents : lock'[j] = None
        BY <2>1, <3>1 DEF Alone, Flying
      <4>2. \A j \in Incidents : pc'[j] # "failed"
        BY <3>1, <3>3 DEF Alone
      <4> QED
        BY <3>4, <4>1, <4>2 DEF Alone
    <3>6. Consolidated'
      <4>1. \A j \in Incidents : pc'[j] \notin Merging
        BY <3>4 DEF Flying, Merging
      <4>2. \A j \in Incidents : rows'[j] > 0 => pc'[j] = "closed"
        BY <3>1, <3>2, <3>3 DEF Consolidated
      <4>3. ASSUME NEW j \in Incidents, NEW k \in Incidents,
                   rows'[j] > 0, rows'[k] > 0, PatternOf[j] = PatternOf[k]
            PROVE  j = k
        <5>1. CASE PatternOf[j] = PatternOf[i]
          BY <3>2, <4>3, <5>1
        <5>2. CASE PatternOf[j] # PatternOf[i]
          <6>1. rows[j] > 0 /\ rows[k] > 0
            BY <3>2, <4>3, <5>2
          <6> QED
            BY <3>1, <4>3, <6>1 DEF Consolidated
        <5> QED
          BY <5>1, <5>2
      <4> QED
        BY <4>1, <4>2, <4>3 DEF Consolidated
    <3>7. Counted'
      <4>1. Closed' = Closed \cup {i} /\ i \notin Closed /\ Closed \subseteq Incidents
        BY <2>1, <3>3 DEF Closed
      <4>2. IsFiniteSet(Closed)
        <5>1. IsFiniteSet(Incidents)
          <6>1. IsFiniteSet(1..Closes)
            BY IncidentsFacts, FS_Interval
          <6> QED
            BY <6>1, IncidentsFacts
        <5> QED
          BY <4>1, <5>1, FS_Subset
      <4>3. Cardinality(Closed') = Cardinality(Closed) + 1
        BY <4>1, <4>2, FS_AddElement
      <4>4. SumOf(rows) \in Nat
        BY <1>1, SumType
      <4> QED
        BY <1>1, <2>1, <3>1, <3>2, <4>3, <4>4 DEF Counted
    <3> QED
      BY <3>5, <3>6, <3>7
  <2> QED
    BY <2>2, <2>3 DEF SerialInv
<1>8. CASE DeleteMemoryEntry(i)
  <2>1. /\ rows' = [rows EXCEPT ![i] = 0] /\ forgotten' = forgotten + rows[i]
        /\ overlapped' = (overlapped \/ InFlight # {})
        /\ UNCHANGED <<lock, pc, seen, todo>>
    BY <1>8 DEF DeleteMemoryEntry
  <2>2. InOrder'
    BY <2>1 DEF SerialInv, InOrder
  <2>3. ASSUME ~overlapped' PROVE Alone' /\ Consolidated' /\ Counted'
    <3>1. Alone /\ Consolidated /\ Counted /\ \A j \in Incidents : ~Flying(j)
      BY <1>2, <2>1, <2>3 DEF InFlight, Flying
    <3>2. Alone'
      BY <2>1, <3>1 DEF Alone, Flying
    <3>3. \A j \in Incidents : rows'[j] = IF j = i THEN 0 ELSE rows[j]
      BY <1>1, <2>1
    <3>4. Consolidated'
      <4>1. \A j \in Incidents : pc[j] \notin Merging
        BY <3>1 DEF Flying, Merging
      <4> QED
        BY <2>1, <3>1, <3>3, <4>1 DEF Consolidated
    <3>5. Counted'
      <4>1. SumOf(rows') + rows[i] = SumOf(rows) + 0
        BY <1>1, <2>1, SumChanged
      <4>2. SumOf(rows) \in Nat /\ SumOf(rows') \in Nat /\ rows[i] \in Nat
        <5>1. rows' \in [Incidents -> Nat]
          BY <1>1, <2>1
        <5> QED
          BY <1>1, <5>1, SumType
      <4>3. Closed' = Closed
        BY <2>1 DEF Closed
      <4>4. SumOf(rows') + forgotten' = SumOf(rows) + forgotten
        <5> DEFINE a == SumOf(rows')
                   b == SumOf(rows)
                   c == rows[i]
        <5>1. a \in Nat /\ b \in Nat /\ c \in Nat /\ a + c = b + 0 /\ forgotten' = forgotten + c
          BY <2>1, <4>1, <4>2
        <5> HIDE DEF a, b, c
        <5>2. a + forgotten' = b + forgotten
          BY <1>1, <5>1
        <5> QED
          BY <5>2 DEF a, b
      <4> QED
        BY <3>1, <4>3, <4>4 DEF Counted
    <3> QED
      BY <3>2, <3>4, <3>5
  <2> QED
    BY <2>2, <2>3 DEF SerialInv
<1> QED
  BY <1>3, <1>4, <1>5, <1>6, <1>7, <1>8 DEF Progress, BreakDeadlock

\* models.py:177: occurrence_count counts confirmations.  As long as closes come
\* one at a time, for every number of them and every mix of patterns: none
\* fails, no confirmation is lost or counted twice, and each pattern has one row.
THEOREM SerialClosesAreExact == Spec => []ExactWithoutOverlap
<1>1. MemInv /\ SerialInv /\ [Next]_vars => SerialInv'
  <2> SUFFICES ASSUME MemInv, SerialInv, [Next]_vars PROVE SerialInv'
    OBVIOUS
  <2>1. CASE Next
    BY <2>1, SerialStep DEF Next
  <2>2. CASE UNCHANGED vars
    BY <2>2 DEF vars, SerialInv, InOrder, Alone, Consolidated, Counted, Flying, Visible, Closed
  <2> QED
    BY <2>1, <2>2
<1>2. SerialInv => ExactWithoutOverlap
  <2> SUFFICES ASSUME SerialInv, ~overlapped
               PROVE  /\ \A i \in Incidents : pc[i] # "failed"
                      /\ \A p \in Patterns : Cardinality(RowsOf(p)) <= 1
                      /\ SumOf(rows) + forgotten =
                            Cardinality({i \in Incidents : pc[i] = "closed"})
    BY DEF ExactWithoutOverlap
  <2>1. Alone /\ Consolidated /\ Counted
    BY DEF SerialInv
  <2>2. ASSUME NEW p \in Patterns PROVE Cardinality(RowsOf(p)) <= 1
    <3>1. CASE RowsOf(p) = {}
      BY <3>1, FS_EmptySet
    <3>2. CASE RowsOf(p) # {}
      <4>1. PICK j \in RowsOf(p) : TRUE
        BY <3>2
      <4>2. RowsOf(p) = {j}
        BY <2>1, <4>1 DEF RowsOf, Consolidated
      <4>3. Cardinality(RowsOf(p)) = 1
        BY <4>2, FS_Singleton
      <4> QED
        BY <4>3
    <3> QED
      BY <3>1, <3>2
  <2> QED
    BY <2>1, <2>2 DEF Alone, Counted, Closed
<1> QED
  BY <1>1, <1>2, SerialInit, MemInvariant, PTL DEF Spec


-----------------------------------------------------------------------------
(* No stall.  A lock is held by a close in flight, so the closes that wait   *)
(* point at closes in flight: if all of them wait, a smallest set of closes *)
(* that point into it is a cycle.                                           *)

LocksHeld == \A j \in Incidents : lock[j] # None => lock[j] \in InFlight

LEMMA LocksHeldStep ==
    ASSUME MemInv, LocksHeld, [Next]_vars
    PROVE  LocksHeld'
<1>0. /\ lock \in [Incidents -> Incidents \cup {None}]
      /\ pc \in [Incidents -> {"open", "written", "update", "stale", "delete", "commit", "closed",
                               "failed"}]
      /\ None \notin Incidents
  BY IncidentsFacts DEF MemInv, TypeOK
<1>1. ASSUME NEW i \in Incidents, NEW p, p \notin {"open", "closed", "failed"},
             pc' = [pc EXCEPT ![i] = p],
             \A j \in Incidents : lock'[j] \in {lock[j], i}
      PROVE  LocksHeld'
  BY <1>0, <1>1 DEF LocksHeld, InFlight
<1>2. ASSUME NEW i \in Incidents, NEW outcome, EndSession(i, outcome)
      PROVE  LocksHeld'
  BY <1>0, <1>2 DEF EndSession, LocksHeld, InFlight
<1>3. ASSUME NEW i \in Incidents, WriteConfirmedMemory(i)
      PROVE  LocksHeld'
  BY <1>0, <1>1, <1>3 DEF WriteConfirmedMemory
<1>4. ASSUME NEW i \in Incidents, Select(i)
      PROVE  LocksHeld'
  <2>1. \E p \in {"commit", "update"} : pc' = [pc EXCEPT ![i] = p]
    BY <1>4 DEF Select
  <2> QED
    BY <1>1, <1>4, <2>1 DEF Select
<1>5. ASSUME NEW i \in Incidents,
             UpdateSurvivor(i) \/ (SurvivorGone(i) /\ ~Rollback(i)) \/ DeleteStale(i)
      PROVE  LocksHeld'
  <2>1. PICK s, l, T, p : Statement(i, s, l, T, p)
    BY <1>5, FlushIsStatements
  <2>2. /\ pc' = [pc EXCEPT ![i] = p] /\ p \notin {"open", "closed", "failed"}
        /\ lock' = [lock EXCEPT ![s] = l] /\ l \in {i, lock[s]}
    BY <2>1 DEF Statement
  <2>3. \A j \in Incidents : lock'[j] \in {lock[j], i}
    BY <1>0, <2>2
  <2> QED
    BY <1>1, <2>2, <2>3
<1>6. ASSUME NEW i \in Incidents, Rollback(i) \/ Commit(i)
      PROVE  LocksHeld'
  BY <1>2, <1>6 DEF Commit, Rollback
<1>7. ASSUME UNCHANGED <<lock, pc>>
      PROVE  LocksHeld'
  BY <1>7 DEF LocksHeld, InFlight
<1> QED
  BY <1>3, <1>4, <1>5, <1>6, <1>7 DEF Next, Progress, BreakDeadlock, DeleteMemoryEntry, vars

Holder(i) == lock[Wanted(i)]

LEMMA WaitsForFlying ==
    ASSUME MemInv, LocksHeld, NEW i \in Incidents, Blocked(i)
    PROVE  Holder(i) \in InFlight
<1>1. Wanted(i) \in Incidents
  BY NextOfFlush DEF Blocked, Wanted, Flushing
<1> QED
  BY <1>1 DEF Blocked, Free, LocksHeld, Holder

LEMMA AllWaiting ==
    ASSUME MemInv, LocksHeld, InFlight # {}, \A i \in InFlight : Blocked(i)
    PROVE  \E i \in InFlight : InCycle(i)
<1> DEFINE Inward(C) == C # {} /\ \A c \in C : Holder(c) \in C
           Sizes == {n \in Nat : \E C \in SUBSET InFlight : Inward(C) /\ Cardinality(C) = n}
<1>1. InFlight \subseteq Incidents
  BY DEF InFlight
<1>2. \A C \in SUBSET InFlight : IsFiniteSet(C) /\ Cardinality(C) \in Nat
  <2>1. IsFiniteSet(Incidents)
    BY IncidentsFacts, FS_Interval
  <2> QED
    BY <1>1, <2>1, FS_Subset, FS_CardinalityType
<1>3. Inward(InFlight)
  BY <1>1, WaitsForFlying
<1>4. PICK n \in Sizes : \A x \in Sizes : n <= x
  <2>1. Cardinality(InFlight) \in Sizes
    BY <1>2, <1>3
  <2>2. Sizes \subseteq Nat
    OBVIOUS
  <2> HIDE DEF Sizes
  <2> QED
    BY <2>1, <2>2, FirstOf
<1>5. PICK C \in SUBSET InFlight : Inward(C) /\ Cardinality(C) = n
  BY <1>4
<1> DEFINE D == {Holder(c) : c \in C}
<1>6. D \subseteq C /\ Inward(D)
  BY <1>5
<1>7. n <= Cardinality(D)
  <2>1. D \in SUBSET InFlight
    BY <1>6
  <2> HIDE DEF D
  <2>2. Cardinality(D) \in Sizes
    BY <1>2, <1>6, <2>1
  <2> QED
    BY <1>4, <2>2
<1>8. D = C
  <2> HIDE DEF D
  <2>1. IsFiniteSet(C) /\ Cardinality(C) = n /\ n \in Nat
    BY <1>2, <1>5
  <2>2. /\ Cardinality(D) \in Nat /\ Cardinality(D) <= Cardinality(C)
        /\ Cardinality(D) = Cardinality(C) => D = C
    BY <1>2, <1>6, <2>1, FS_Subset
  <2> QED
    BY <1>7, <2>1, <2>2
<1>9. \A c \in C : \E d \in C : Holder(d) = c
  BY <1>8
<1>10. PICK i \in C : TRUE
  BY <1>5
<1>11. \A c \in C : Blocked(c) /\ Holder(c) \in C
  BY <1>5
<1>12. C \in SUBSET {c \in Incidents : Blocked(c)} /\ i \in InFlight
  BY <1>1, <1>10, <1>11
<1> QED
  BY <1>9, <1>10, <1>11, <1>12 DEF InCycle, Holder

\* However many closes overlap and whatever rows they want, they never all wait
\* for something that will not come: a close that waits, waits for one in flight,
\* and if none can go on some wait in a cycle, of which the database aborts one.
THEOREM SomebodyAlwaysGoesOn == Spec => []SomebodyGoesOn
<1>1. Init => LocksHeld
  BY DEF Init, LocksHeld
<1>2. MemInv /\ LocksHeld /\ [Next]_vars => LocksHeld'
  BY LocksHeldStep
<1>3. MemInv /\ LocksHeld => SomebodyGoesOn
  BY AllWaiting DEF SomebodyGoesOn
<1> QED
  BY <1>1, <1>2, <1>3, MemInvariant, PTL DEF Spec
=============================================================================
