------------------------------- MODULE Overlay -------------------------------
(***************************************************************************)
(* The `isnad enrich-historical` job (enrich/historical.py): it loads the  *)
(* curated events, writes resolved dates on narrators, reads all narrators *)
(* back and links them to the events of their lifetime.  Each write is a   *)
(* MERGE or a SET, committed chunk by chunk, and the job may stop between  *)
(* any two.  Meanwhile the ingest may load, date and remove narrators.     *)
(* The graph's dates are what the timeline, the dating of hadiths and the  *)
(* plausibility scan (Chronology) work from.                               *)
(***************************************************************************)
EXTENDS Chronology, Folds

CONSTANTS Narrators,
          Dated,     \* the dates a narrator may have, in the graph or a dates file
          Curated,   \* the versions of the curated file: partial functions from ids to events
          Chunk,     \* rows per write transaction
          NoNode     \* no such node

ASSUME OverlayAssumption ==
    /\ IsFiniteSet(Narrators) /\ Dated \subseteq NarratorDates /\ NoNode \notin Dated
    /\ Chunk \in Nat \ {0} /\ NoNode \notin UNION {Range(file) : file \in Curated}

VARIABLES dates,     \* the graph's narrators and their dates
          stored,    \* its HistoricalEvent nodes
          active,    \* its ACTIVE_DURING edges
          job,
          settled    \* the last finished job read what is now there (history)

overlayVars == <<dates, stored, active, job, settled>>

EventIds == UNION {DOMAIN file : file \in Curated}
CuratedEvents == UNION {Range(file) : file \in Curated}

Job == [st : {"events", "dates", "fetch", "edges", "done", "failed"},
        file : Curated,                      \* load_events_from_yaml
        dating : [Narrators -> Dated \cup {NoNode}],  \* --dates: records still to write
        linking : SUBSET (Narrators \X EventIds),  \* edges still to write
        alone : BOOLEAN]                     \* no date has changed since the fetch

OverlayTypeOK ==
    /\ dates \in [Narrators -> Dated \cup {NoNode}]
    /\ stored \in [EventIds -> CuratedEvents \cup {NoNode}]
    /\ active \subseteq Narrators \X EventIds
    /\ job \in Job /\ settled \in BOOLEAN

NoDates == [n \in Narrators |-> NoNode]

OverlayInit ==
    /\ dates \in [Narrators -> Dated \cup {NoNode}]
    /\ stored = [e \in EventIds |-> NoNode] /\ active = {}
    /\ \E file \in Curated :
           job = [st |-> "done", file |-> file, dating |-> NoDates, linking |-> {}, alone |-> FALSE]
    /\ settled = FALSE

Linkable(held, file) ==
    {link \in Narrators \X DOMAIN file :
        held[link[1]] # NoNode /\ Linked(held[link[1]], file[link[2]])}

-----------------------------------------------------------------------------
\* The command: both files are parsed and validated before anything is written.
Launch(file, records) ==
    /\ job.st \in {"done", "failed"}
    /\ job' = [st |-> "events", file |-> file, dating |-> records, linking |-> {},
               alone |-> FALSE]
    /\ settled' = (settled /\ file = job.file)
    /\ UNCHANGED <<dates, stored, active>>

\* merge_events: MERGE on the id, SET e += row.  (One chunk: the curated file
\* is shorter than a chunk of a thousand rows.)
MergeEvents ==
    /\ job.st = "events"
    /\ stored' = [e \in EventIds |-> IF e \in DOMAIN job.file THEN job.file[e] ELSE stored[e]]
    /\ job' = [job EXCEPT !.st = IF job.dating = NoDates THEN "fetch" ELSE "dates"]
    /\ UNCHANGED <<dates, active, settled>>

Rows(set) == {chunk \in SUBSET set : Cardinality(chunk) = Min({Chunk, Cardinality(set)})}

\* merge_narrator_dates: MATCH drops the records of narrators that are not there.
MergeDates ==
    /\ job.st = "dates"
    /\ \E chunk \in Rows({n \in Narrators : job.dating[n] # NoNode}) :
          LET rest == [n \in Narrators |-> IF n \in chunk THEN NoNode ELSE job.dating[n]]
          IN /\ dates' = [n \in Narrators |-> IF n \in chunk /\ dates[n] # NoNode
                                              THEN job.dating[n] ELSE dates[n]]
             /\ job' = [job EXCEPT !.dating = rest,
                                   !.st = IF rest = NoDates THEN "fetch" ELSE "dates"]
    /\ settled' = (settled /\ dates' = dates)
    /\ UNCHANGED <<stored, active>>

\* The narrators are read back, and the edges computed from them and from the
\* file.  Without an edge to write the job is done.
LinkNarrators ==
    /\ job.st = "fetch"
    /\ LET links == Linkable(dates, job.file)
       IN job' = [job EXCEPT !.linking = links, !.st = IF links = {} THEN "done" ELSE "edges",
                             !.alone = TRUE]
    /\ settled' = (job'.st = "done")
    /\ UNCHANGED <<dates, stored, active>>

MutMergeEdges ==
    /\ job.st = "edges"
    /\ \E chunk \in Rows(job.linking) :
          /\ active' = active \cup chunk
          /\ job' = [job EXCEPT !.linking = @ \ chunk,
                                !.st = IF chunk = job.linking THEN "done" ELSE "edges"]
    /\ settled' = (IF job'.st = "done" THEN job.alone ELSE settled)
    /\ UNCHANGED <<dates, stored>>

\* merge_active_during: MATCH both ends, MERGE the bare edge.
MergeEdges ==
    /\ job.st = "edges"
    /\ \E chunk \in Rows(job.linking) :
          /\ active' = active \cup
                 {link \in chunk : dates[link[1]] # NoNode /\ stored[link[2]] # NoNode}
          /\ job' = [job EXCEPT !.linking = @ \ chunk,
                                !.st = IF chunk = job.linking THEN "done" ELSE "edges"]
    /\ settled' = (IF job'.st = "done" THEN job.alone ELSE settled)
    /\ UNCHANGED <<dates, stored>>

\* A write is refused, or the process dies: the chunks before it stay.
JobFails ==
    /\ job.st \notin {"done", "failed"}
    /\ job' = [job EXCEPT !.st = "failed", !.linking = {}, !.dating = NoDates]
    /\ UNCHANGED <<dates, stored, active, settled>>

\* The ingest's loader: a narrator comes, goes (with its edges), or gets other dates.
Ingest(n, d) ==
    /\ dates[n] # d
    /\ dates' = [dates EXCEPT ![n] = d]
    /\ active' = IF d = NoNode THEN {link \in active : link[1] # n} ELSE active
    /\ job' = [job EXCEPT !.alone = FALSE]
    /\ settled' = FALSE
    /\ UNCHANGED stored

JobStep == MergeEvents \/ MergeDates \/ LinkNarrators \/ MergeEdges

OverlayNext ==
    \/ \E file \in Curated, records \in [Narrators -> Dated \cup {NoNode}] : Launch(file, records)
    \/ JobStep
    \/ JobFails
    \/ \E n \in Narrators, d \in Dated \cup {NoNode} : Ingest(n, d)

OverlaySpec == OverlayInit /\ [][OverlayNext]_overlayVars

-----------------------------------------------------------------------------
(* Properties of the job. *)

\* Once a job has finished with no date changed under it, every narrator of the
\* graph is linked to every event of its file that falls in their life: whatever
\* earlier jobs left half done.
OverlayComplete == settled => Linkable(dates, job.file) \subseteq active

\* An edge never dangles: a link computed from a narrator who has gone since is
\* dropped by the MATCH, and the event's node was there first.
EdgesHaveEnds ==
    \A link \in active : dates[link[1]] # NoNode /\ stored[link[2]] # NoNode

-----------------------------------------------------------------------------
(* Properties of what is derived from the graph's dates. *)

Known == {dates[n] : n \in Narrators} \ {NoNode}

\* Three copies of the window agree.  The plausibility scan's, which does not know
\* the resolved bounds, is the same where a narrator has none, and where both point
\* years are known and lie within the bounds it is part of the others': lives that
\* the scan lets meet then meet on the timeline too.
WindowsAgree ==
    \A d \in Known :
        LET scans == ResolveWindow(d.birth, d.death)
            others == ActiveWindow(d)
        IN /\ DatingWindow(d).window = others
           /\ CypherWindow(d) = others
           /\ d.birthEarliest = None /\ d.deathLatest = None => scans = others
           /\ /\ d.birth # None /\ d.death # None
              /\ d.birthEarliest # None => d.birthEarliest <= d.birth
              /\ d.deathLatest # None => d.death <= d.deathLatest
              => others[1] <= scans[1] /\ scans[2] <= others[2]

\* The lives a narrator's point years allow.
Lives(d, span) ==
    {life \in span \X span : /\ life[1] <= life[2]
                             /\ d.birth # None => life[1] = d.birth
                             /\ d.death # None => life[2] = d.death}

\* "Impossible" is said of a teacher and a student exactly when no filling of
\* their missing years lets them have lived at the same time; the rest of the
\* disjoint ones are "implausible".
ImpossibleIsCertain ==
    LET bounds == (UNION {{d.birth, d.death} : d \in Known}) \ {None}
        span == IF bounds = {} THEN {}
                ELSE (Min(bounds) - AssumedLifespan) .. (Max(bounds) + AssumedLifespan)
    IN \A t, s \in {d \in Known : Lives(d, span) # {}} :
           LET verdict == ClassifyEdge(t, s).verdict
           IN verdict # "undated" =>
                (verdict = "impossible" <=>
                    \A a \in Lives(t, span), b \in Lives(s, span) : ~ Overlap(a, b))

\* A hadith whose dating is of high confidence: whatever the missing births were,
\* the termini are the first and the last death of its chain, unless a narrator
\* between them has no known death.
Attested(chain) ==
    LET dating == DatingOf(chain)
        deaths == {EffDeath(chain[i]) : i \in DOMAIN chain}
    IN dating.confidence = "high" =>
          /\ {dating.tpq, dating.taq} \subseteq deaths
          /\ None \notin deaths => dating.tpq = Min(deaths) /\ dating.taq = Max(deaths)

HighIsAttested == \A chain \in UNION {[1..k -> Known] : k \in 1..3} : Attested(chain)

\* Whichever rows the plausibility scan is given, it says that it is truncated
\* exactly when it leaves a candidate out, counts each row once, and leaves an
\* impossible row out of its flags only in favour of impossible ones with no
\* smaller a gap.
CountedOnce(scan) ==
    LET tally == Tally(scan)
    IN MapThenSumSet(LAMBDA v : tally[v], DOMAIN tally) = Cardinality(scan)

WorstFlagged(scan, asked, limit) ==
    \A flags \in FlagAnswers(scan, asked, limit) :
        \A e \in scan \ flags : VerdictOf(e).verdict = "impossible" =>
            \/ asked \notin {None, "impossible"}
            \/ /\ Cardinality(flags) = limit
               /\ \A f \in flags : /\ VerdictOf(f).verdict = "impossible"
                                    /\ VerdictOf(f).gap >= VerdictOf(e).gap

ScanHonest ==
    \A scan \in Scans(Known \X Known) :
        /\ scan.truncated <=> scan.rows # Candidates(Known \X Known)
        /\ CountedOnce(scan.rows)
        /\ \A asked \in {None, "impossible", "implausible", "ok"}, limit \in 1..2 :
               WorstFlagged(scan.rows, asked, limit)

OverlayInv == OverlayTypeOK /\ EdgesHaveEnds /\ OverlayComplete
DerivedDates == WindowsAgree /\ ImpossibleIsCertain /\ HighIsAttested /\ ScanHonest
=============================================================================
