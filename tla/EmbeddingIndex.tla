--------------------------- MODULE EmbeddingIndex ---------------------------
(***************************************************************************)
(* The `isnad reindex-embeddings` job: reindex_embeddings rebuilds the     *)
(* ivfflat index behind /search/semantic next to the live one and swaps    *)
(* the two names in one transaction.  Each element of Runs is a place an   *)
(* operator (or a deploy job) can launch the command from, again and       *)
(* again; nothing in the code stops two launches from overlapping.         *)
(*                                                                         *)
(* Postgres is external and enters as the table lock its DDL takes (CREATE *)
(* INDEX CONCURRENTLY keeps SHARE UPDATE EXCLUSIVE for the whole build,    *)
(* and every other statement of the job conflicts with it when it has work *)
(* to do), as INVALID indexes left by interrupted concurrent DDL, and as a *)
(* backend that finishes the build of a client that died.                  *)
(***************************************************************************)
CONSTANTS Runs,        \* launch places of the command; each has its own --lists
          Schema,      \* the builder of ensure_embedding_schema's first index
          Absent       \* no index has the name

VARIABLES canonical,   \* the index named _CANONICAL_INDEX, which queries use
          fresh,       \* the index named _NEW_INDEX
          pc,          \* next statement of each run
          disturbed,   \* runs another run was live beside (history)
          swappedAlone \* the last swap was made by an undisturbed run (history)

indexVars == <<canonical, fresh, pc, disturbed, swappedAlone>>

\* An index is known by who built it, hence with which `lists`, and by
\* whether Postgres marks it valid.
Index == [by : Runs \cup {Schema}, valid : BOOLEAN]

ASSUME AbsentAssumption == Absent \notin Index

LiveStates == {"ensure", "drop", "create", "building", "swap"}
PCs == LiveStates \cup {"idle", "orphan", "done", "failed"}

IndexTypeOK ==
    /\ canonical \in Index \cup {Absent}
    /\ fresh \in Index \cup {Absent}
    /\ pc \in [Runs -> PCs]
    /\ disturbed \subseteq Runs
    /\ swappedAlone \in BOOLEAN

IndexInit ==
    /\ canonical = Absent
    /\ fresh = Absent
    /\ pc = [r \in Runs |-> "idle"]
    /\ disturbed = {}
    /\ swappedAlone = TRUE

Live == {r \in Runs : pc[r] \in LiveStates}

\* No concurrent build holds the table lock.  An orphaned build still does.
TableUnlocked == \A r \in Runs : pc[r] \notin {"building", "orphan"}

Goto(r, label) == pc' = [pc EXCEPT ![r] = label]

-----------------------------------------------------------------------------
(* The command. *)

Start(r) ==
    /\ pc[r] \in {"idle", "done", "failed"}
    /\ Goto(r, "ensure")
    /\ disturbed' = IF Live = {} THEN disturbed \ {r}
                                 ELSE disturbed \cup Live \cup {r}
    /\ UNCHANGED <<canonical, fresh, swappedAlone>>

\* ensure_embedding_schema: CREATE INDEX IF NOT EXISTS takes the table lock
\* before it looks whether the name is taken.
EnsureSchema(r) ==
    /\ pc[r] = "ensure"
    /\ TableUnlocked
    /\ Goto(r, "drop")
    /\ canonical' = IF canonical = Absent THEN [by |-> Schema, valid |-> TRUE]
                                          ELSE canonical
    /\ UNCHANGED <<fresh, disturbed, swappedAlone>>

\* DROP INDEX CONCURRENTLY IF EXISTS _new: only waits when there is one.
DropLeftover(r) ==
    /\ pc[r] = "drop"
    /\ fresh # Absent => TableUnlocked
    /\ Goto(r, "create")
    /\ fresh' = Absent
    /\ UNCHANGED <<canonical, disturbed, swappedAlone>>

\* CREATE INDEX CONCURRENTLY _new: the index is in the catalog, INVALID, from
\* the first of its transactions on; a taken name is an error.
StartBuild(r) ==
    /\ pc[r] = "create"
    /\ TableUnlocked
    /\ fresh' = IF fresh = Absent THEN [by |-> r, valid |-> FALSE] ELSE fresh
    /\ Goto(r, IF fresh = Absent THEN "building" ELSE "failed")
    /\ UNCHANGED <<canonical, disturbed, swappedAlone>>

FinishBuild(r) ==
    /\ pc[r] = "building"
    /\ fresh' = [fresh EXCEPT !.valid = TRUE]
    /\ Goto(r, "swap")
    /\ UNCHANGED <<canonical, disturbed, swappedAlone>>

MutSwapNotAtomic(r) ==
    /\ pc[r] = "swap"
    /\ TableUnlocked
    /\ canonical' = fresh
    /\ fresh' = Absent
    /\ swappedAlone' = (r \notin disturbed)
    /\ Goto(r, IF fresh = Absent THEN "failed" ELSE "done")
    /\ UNCHANGED disturbed

MutSwapWaitsForNew(r) ==
    /\ pc[r] = "swap"
    /\ TableUnlocked
    /\ fresh # Absent
    /\ canonical' = fresh
    /\ fresh' = Absent
    /\ swappedAlone' = (r \notin disturbed)
    /\ Goto(r, "done")
    /\ UNCHANGED disturbed

\* execute_transaction([DROP canonical, RENAME _new]): with no _new to rename
\* the transaction rolls back and the command ends with the error.
Swap(r) ==
    /\ pc[r] = "swap"
    /\ TableUnlocked
    /\ IF fresh = Absent
       THEN /\ Goto(r, "failed")
            /\ UNCHANGED <<canonical, fresh, swappedAlone>>
       ELSE /\ canonical' = fresh
            /\ fresh' = Absent
            /\ swappedAlone' = (r \notin disturbed)
            /\ Goto(r, "done")
    /\ UNCHANGED disturbed

-----------------------------------------------------------------------------
(* What can go wrong. *)

MutBuildErrorSwallowed(r) ==
    /\ pc[r] \in LiveStates
    /\ Goto(r, IF pc[r] = "building" THEN "swap" ELSE "failed")
    /\ UNCHANGED <<canonical, fresh, disturbed, swappedAlone>>

\* A statement ends in psycopg.Error (timeout, disk full, deadlock victim):
\* the client re-raises and the command ends.  An interrupted build stays
\* behind INVALID.
StatementFails(r) ==
    /\ pc[r] \in LiveStates
    /\ Goto(r, "failed")
    /\ UNCHANGED <<canonical, fresh, disturbed, swappedAlone>>

\* An interrupted DROP INDEX CONCURRENTLY has already marked its target INVALID.
DropInterrupted(r) ==
    /\ pc[r] = "drop"
    /\ fresh # Absent
    /\ TableUnlocked
    /\ fresh' = [fresh EXCEPT !.valid = FALSE]
    /\ Goto(r, "failed")
    /\ UNCHANGED <<canonical, disturbed, swappedAlone>>

\* The client process dies.  During the build its backend works on.
Crash(r) ==
    /\ pc[r] \in LiveStates
    /\ Goto(r, IF pc[r] = "building" THEN "orphan" ELSE "failed")
    /\ UNCHANGED <<canonical, fresh, disturbed, swappedAlone>>

OrphanEnds(r) ==
    /\ pc[r] = "orphan"
    /\ \E built \in BOOLEAN : fresh' = [fresh EXCEPT !.valid = built]
    /\ Goto(r, "failed")
    /\ UNCHANGED <<canonical, disturbed, swappedAlone>>

-----------------------------------------------------------------------------
Progress(r) ==
    \/ EnsureSchema(r)
    \/ DropLeftover(r)
    \/ StartBuild(r)
    \/ FinishBuild(r)
    \/ Swap(r)
    \/ OrphanEnds(r)

IndexNext == \E r \in Runs :
    \/ Start(r)
    \/ Progress(r)
    \/ StatementFails(r)
    \/ DropInterrupted(r)
    \/ Crash(r)

IndexSpec == IndexInit /\ [][IndexNext]_indexVars

\* A launched command keeps executing: Postgres grants a lock that stays free
\* (its lock queue is first come, first served, hence SF for a waiter whose
\* lock comes and goes) and every build ends.  Nobody has to launch it.
IndexFairness == \A r \in Runs : SF_indexVars(Progress(r))

-----------------------------------------------------------------------------
(* Properties. *)

\* What queries are promised (ServedIndex): once the schema exists they always find
\* an index under the canonical name, the swap never leaves a window with neither
\* index, and what it puts there is a complete index unless runs overlapped, whatever
\* fails or crashes in between (execute_transaction; reindex_embeddings step 3).
Served == INSTANCE ServedIndex WITH served <- canonical, sure <- swappedAlone

ServesIndex == Served!ServedSpec

\* The canonical index can be INVALID (and semantic search fall back to
\* scanning the table) only if the run that swapped it in overlapped another:
\* leftovers of crashed, interrupted and orphaned builds never get promoted.
InvalidOnlyAfterOverlap ==
    canonical # Absent /\ swappedAlone => canonical.valid

\* A run that was alone and reports success left its own complete index, with
\* its own --lists, under the canonical name.
SuccessMeansOwnIndex ==
    [][\A r \in Runs \ disturbed :
          pc[r] = "swap" /\ pc'[r] = "done"
             => canonical' = [by |-> r, valid |-> TRUE]]_indexVars

\* A launched command ends, in success or in an error: no lock the job takes
\* is waited for in a circle.
EveryRunEnds == \A r \in Runs : pc[r] \in LiveStates ~> pc[r] \notin LiveStates

-----------------------------------------------------------------------------
(* The inductive strengthening of InvalidOnlyAfterOverlap. *)

\* Whoever builds, live or orphaned, is the builder of the INVALID _new index;
\* so there is one builder at a time.
BuilderOwnsFresh ==
    \A r \in Runs : pc[r] \in {"building", "orphan"}
                       => fresh = [by |-> r, valid |-> FALSE]

\* An undisturbed run is the only live one.
UndisturbedIsAlone ==
    \A r \in Live \ disturbed : Live = {r}

\* An undisturbed run between its build and its swap finds its own valid index.
UndisturbedOwnsFresh ==
    \A r \in Runs \ disturbed : pc[r] = "swap"
                       => fresh = [by |-> r, valid |-> TRUE]

\* Whoever is past the schema left an index there, and _new is some run's.
SchemaFirst ==
    /\ \A r \in Runs : pc[r] \in {"drop", "create", "building", "swap"} => canonical # Absent
    /\ fresh # Absent => fresh.by \in Runs

IndexInv ==
    /\ IndexTypeOK
    /\ BuilderOwnsFresh
    /\ UndisturbedIsAlone
    /\ UndisturbedOwnsFresh
    /\ InvalidOnlyAfterOverlap
    /\ SchemaFirst
=============================================================================
