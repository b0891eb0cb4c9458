--------------------------- MODULE ServiceMemory ---------------------------
(***************************************************************************)
(* The memory of one service under incidents that close at the same time:  *)
(* memory.py inside the transaction of _apply_result, on a READ COMMITTED  *)
(* PostgreSQL, with the admin's DELETE /memory/{id}.  Each closing incident *)
(* inserts a row for the pattern it confirmed and then merges every pattern *)
(* it sees two rows of, its own and the others that closes before it left; *)
(* what it sees is not locked.  A transaction is split at each statement   *)
(* that other transactions can come between.                               *)
(***************************************************************************)
EXTENDS Integers, FiniteSetsExt

CONSTANTS
    Closes,         \* bound: incidents of the service that close with a confirmed diagnosis
    PatternOf,      \* the (symptom_pattern, fix_applied) each of them confirms
    MaxDeletes      \* bound: entries the admin deletes

ASSUME MemoryAssumption == Closes \in Nat /\ MaxDeletes \in Nat

\* The incidents, named by the id of the row each inserts: ids, like created_at,
\* grow in the order of the inserts.  A close that is tried again after it
\* failed inserts a row again, and counts as a further incident.
Incidents == 1..Closes

None == 0

VARIABLES
    rows,       \* committed occurrence_count of each incident's row, 0: no row
    lock,       \* transaction that holds the row
    pc,         \* per incident: where its closing transaction stands
    seen,       \* per incident: the counts its SELECT returned
    todo,       \* per incident: rows its flush has still to write
    \* history
    deleted,    \* incidents whose entries the admin deleted
    forgotten,  \* confirmations they counted
    overlapped  \* whether a transaction ever ran beside another

vars == <<rows, lock, pc, seen, todo, deleted, forgotten, overlapped>>

Nobody == [j \in Incidents |-> 0]

\* What a count per incident adds up to.
UpTo(counts) == LET sum[n \in 0..Closes] == IF n = 0 THEN 0 ELSE sum[n - 1] + counts[n] IN sum
SumOf(counts) == UpTo(counts)[Closes]

TypeOK ==
    /\ rows \in [Incidents -> Nat]
    /\ lock \in [Incidents -> Incidents \cup {None}]
    /\ pc \in [Incidents -> {"open", "written", "update", "stale", "delete", "commit",
                            "closed", "failed"}]
    /\ seen \in [Incidents -> [Incidents -> Nat]]
    /\ todo \in [Incidents -> SUBSET Incidents]
    /\ deleted \subseteq Incidents
    /\ forgotten \in Nat
    /\ overlapped \in BOOLEAN

InFlight == {i \in Incidents : pc[i] \notin {"open", "closed", "failed"}}

\* The group of a row among the rows a SELECT returned.
Group(view, j) == {k \in Incidents : view[k] > 0 /\ PatternOf[k] = PatternOf[j]}

\* The newest row of each group of two or more, and the others.
Survivors(view) ==
    {j \in Incidents :
        view[j] > 0 /\ Group(view, j) # {j} /\ \A k \in Group(view, j) : k <= j}

\* Mutant: the survivors are counted among the stale rows.
MutantStaleAll(view) == {j \in Incidents : view[j] > 0 /\ Group(view, j) # {j}}

Stale(view) == {j \in Incidents : view[j] > 0 /\ \E k \in Group(view, j) : k > j}

\* Mutants: a survivor counts one more confirmation, or one less per row removed.
MutantTotalPlusOne(view, j) == view[j] + 1
MutantTotalLessRemoved(view, j) == view[j] - Cardinality(Group(view, j) \ {j})

Total(view, j) ==
    LET group == Group(view, j)
    IN  SumOf([k \in Incidents |-> IF k \in group THEN view[k] ELSE 0])

-----------------------------------------------------------------------------

\* write_confirmed_memory inserts the row and flushes it.
WriteConfirmedMemory(i) ==
    /\ pc[i] = "open" /\ \A j \in 1..(i - 1) : pc[j] # "open"
    /\ lock' = [lock EXCEPT ![i] = i]
    /\ pc' = [pc EXCEPT ![i] = "written"]
    /\ overlapped' = (overlapped \/ InFlight # {})
    /\ UNCHANGED <<rows, seen, todo, deleted, forgotten>>

\* list_service_memory: the service's committed rows, whatever their pattern, and
\* its own.  When nothing is to be merged the flush writes nothing.
Select(i) ==
    /\ pc[i] = "written"
    /\ seen' = [seen EXCEPT ![i] = [j \in Incidents |-> IF j = i THEN 1 ELSE rows[j]]]
    /\ todo' = [todo EXCEPT ![i] = Survivors(seen'[i])]
    /\ pc' = [pc EXCEPT ![i] = IF todo'[i] = {} THEN "commit" ELSE "update"]
    /\ UNCHANGED <<rows, lock, deleted, forgotten, overlapped>>

\* Mutant: the session is never closed.
MutantSessionLeaked(i, outcome) ==
    /\ pc' = [pc EXCEPT ![i] = outcome]
    /\ UNCHANGED <<lock, seen, todo>>

\* The session ends: its locks and its copies are gone.
EndSession(i, outcome) ==
    /\ pc' = [pc EXCEPT ![i] = outcome]
    /\ lock' = [j \in Incidents |-> IF lock[j] = i THEN None ELSE lock[j]]
    /\ seen' = [seen EXCEPT ![i] = Nobody]
    /\ todo' = [todo EXCEPT ![i] = {}]

Rollback(i) ==
    /\ EndSession(i, "failed")
    /\ UNCHANGED <<rows, deleted, forgotten, overlapped>>

Free(j, i) == lock[j] \in {None, i}

\* A statement of the transaction finds the row: its own, or a committed one.
Present(i, j) == j = i \/ rows[j] > 0

\* The flush of consolidate_service_memory.  First the UPDATEs of the survivors, by
\* primary key, each of which waits for its row.
UpdateSurvivor(i) ==
    LET s == Min(todo[i])
        rest == todo[i] \ {s}
    IN  /\ pc[i] = "update"
        /\ Free(s, i) /\ Present(i, s)
        /\ lock' = [lock EXCEPT ![s] = i]
        /\ todo' = [todo EXCEPT ![i] = IF rest = {} THEN Stale(seen[i]) ELSE rest]
        /\ pc' = [pc EXCEPT ![i] = IF rest = {} THEN "delete" ELSE "update"]
        /\ UNCHANGED <<rows, seen, deleted, forgotten, overlapped>>

\* A survivor is gone.  StaleDataError is raised when the rows a batch of UPDATEs
\* found are counted: at once, or after the UPDATEs that follow in the batch.
SurvivorGone(i) ==
    LET s == Min(todo[i])
    IN  /\ pc[i] = "stale" \/ (pc[i] = "update" /\ ~Present(i, s))
        /\ Free(s, i)
        /\ \/ Rollback(i)
           \/ /\ todo[i] # {s}
              /\ lock' = [lock EXCEPT ![s] = IF Present(i, s) THEN i ELSE @]
              /\ todo' = [todo EXCEPT ![i] = @ \ {s}]
              /\ pc' = [pc EXCEPT ![i] = "stale"]
              /\ UNCHANGED <<rows, seen, deleted, forgotten, overlapped>>

\* Then the DELETEs, by primary key; a row that is gone is no error.
DeleteStale(i) ==
    LET s == Min(todo[i])
    IN  /\ pc[i] = "delete"
        /\ Free(s, i)
        /\ lock' = [lock EXCEPT ![s] = IF Present(i, s) THEN i ELSE @]
        /\ todo' = [todo EXCEPT ![i] = @ \ {s}]
        /\ pc' = [pc EXCEPT ![i] = IF todo[i] = {s} THEN "commit" ELSE "delete"]
        /\ UNCHANGED <<rows, seen, deleted, forgotten, overlapped>>

\* The commit of _apply_result: what its statements wrote to the rows they found.
Written(i, j) ==
    IF j \in Stale(seen[i]) \/ ~Present(i, j) THEN 0
    ELSE IF j \in Survivors(seen[i]) THEN Total(seen[i], j)
    ELSE IF j = i THEN 1 ELSE rows[j]

Commit(i) ==
    /\ pc[i] = "commit"
    /\ rows' = [j \in Incidents |-> Written(i, j)]
    /\ EndSession(i, "closed")
    /\ UNCHANGED <<deleted, forgotten, overlapped>>

\* The row a transaction's next statement writes; it waits while another holds it.
Wanted(i) == Min(todo[i])
Blocked(i) == pc[i] \in {"update", "stale", "delete"} /\ ~Free(Wanted(i), i)

\* PostgreSQL aborts a transaction of a cycle of lock waits.
InCycle(i) ==
    \E C \in SUBSET {c \in Incidents : Blocked(c)} :
        /\ i \in C
        /\ \A c \in C : lock[Wanted(c)] \in C
        /\ \A c \in C : \E d \in C : lock[Wanted(d)] = c

BreakDeadlock(i) == InCycle(i) /\ Rollback(i)

\* DELETE /memory/{id}
DeleteMemoryEntry(j) ==
    /\ rows[j] > 0 /\ lock[j] = None
    /\ Cardinality(deleted) < MaxDeletes
    /\ rows' = [rows EXCEPT ![j] = 0]
    /\ deleted' = deleted \cup {j}
    /\ forgotten' = forgotten + rows[j]
    /\ overlapped' = (overlapped \/ InFlight # {})
    /\ UNCHANGED <<lock, pc, seen, todo>>

-----------------------------------------------------------------------------

Init ==
    /\ rows = Nobody
    /\ lock = [j \in Incidents |-> None]
    /\ pc = [i \in Incidents |-> "open"]
    /\ seen = [i \in Incidents |-> Nobody]
    /\ todo = [i \in Incidents |-> {}]
    /\ deleted = {}
    /\ forgotten = 0
    /\ overlapped = FALSE

Progress(i) ==
    \/ Select(i) \/ UpdateSurvivor(i) \/ SurvivorGone(i) \/ DeleteStale(i) \/ Commit(i)
    \/ BreakDeadlock(i)

Next == \E i \in Incidents : WriteConfirmedMemory(i) \/ Progress(i) \/ DeleteMemoryEntry(i)

Spec == Init /\ [][Next]_vars

\* The database executes what is not waiting for a lock, and breaks deadlocks.
FairSpec == Spec /\ \A i \in Incidents : WF_vars(Progress(i))
-----------------------------------------------------------------------------
(* Properties.                                                             *)

ClosedWith(p) == {i \in Incidents : pc[i] = "closed" /\ PatternOf[i] = p}
RowsOf(p) == {j \in Incidents : rows[j] > 0 /\ PatternOf[j] = p}
Patterns == {PatternOf[i] : i \in Incidents}

\* occurrence_count counts confirmations (models.py:177): while transactions do
\* not overlap, no close fails, and every confirmation is counted once, in
\* one row per pattern, or was deleted with its row.
ExactWithoutOverlap ==
    ~overlapped /\ InFlight = {} =>
        /\ \A i \in Incidents : pc[i] # "failed"
        /\ \A p \in Patterns : Cardinality(RowsOf(p)) <= 1
        /\ SumOf(rows) + forgotten = Cardinality({i \in Incidents : pc[i] = "closed"})

\* However closes race, a pattern that was confirmed keeps a row until the
\* admin deletes one: transactions that consolidate the same rows, a close of
\* the pattern or of another, never delete each other's survivors.
PatternRemembered ==
    \A p \in Patterns :
        ClosedWith(p) # {} => RowsOf(p) # {} \/ p \in {PatternOf[j] : j \in deleted}

\* Every close ends: it commits, or is rolled back because a survivor of some
\* pattern is gone or a deadlock was broken.
ClosesEnd == \A i \in Incidents : pc[i] = "written" ~> pc[i] \in {"closed", "failed"}

\* While closes are in flight one of them can go on: every lock somebody waits
\* for is held by a close in flight, and if all of them wait, some wait in a
\* cycle, which the database breaks.  (The safety behind ClosesEnd; a flush of
\* memory.py writes the survivors of all patterns before the stale rows of any.)
SomebodyGoesOn == InFlight # {} => \E i \in InFlight : ~Blocked(i) \/ InCycle(i)

\* models.py:179: consolidation merges near-duplicate rows "into one, rather
\* than letting confirmations of the same pattern pile up".
OneRowPerPattern == InFlight = {} => \A p \in Patterns : Cardinality(RowsOf(p)) <= 1
=============================================================================
