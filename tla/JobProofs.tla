------------------------------ MODULE JobProofs ------------------------------
(***************************************************************************)
(* Proofs about the three batch jobs, Overlay, EmbeddingLoad and           *)
(* EmbeddingIndex, for any narrators and hadiths, any size of a chunk, any *)
(* number of launch places and overlapping loads, and failures between any *)
(* two writes; and about what is derived from the dates the overlay writes *)
(* (Chronology): windows, verdicts, termini, the scan.                     *)
(***************************************************************************)
EXTENDS Overlay, EmbeddingLoad, EmbeddingIndex, Ranking

-----------------------------------------------------------------------------
(* The overlay: when its edges are computed the events are stored, and what *)
(* it still has to write is all that is missing while nothing changes.      *)

EventsStored ==
    job.st \in {"dates", "fetch", "edges"} => \A e \in DOMAIN job.file : stored[e] # NoNode

LinksLeft ==
    job.st = "edges" =>
        /\ ~ settled
        /\ job.linking \subseteq Narrators \X DOMAIN job.file
        /\ job.alone => Linkable(dates, job.file) \subseteq active \cup job.linking

OverlayIInv == OverlayTypeOK /\ EventsStored /\ LinksLeft /\ EdgesHaveEnds /\ OverlayComplete

LEMMA FileIsTyped ==
    ASSUME NEW file \in Curated
    PROVE  DOMAIN file \subseteq EventIds /\ \A e \in DOMAIN file : file[e] \in CuratedEvents
BY DEF EventIds, CuratedEvents, Range

LEMMA LinkableIs ==
    ASSUME NEW held, NEW file
    PROVE  Linkable(held, file) \subseteq Narrators \X DOMAIN file
BY DEF Linkable

LEMMA OverlayInitInv == OverlayInit => OverlayIInv
<1>. SUFFICES ASSUME OverlayInit PROVE OverlayIInv
  OBVIOUS
<1>1. PICK file \in Curated :
         job = [st |-> "done", file |-> file, dating |-> NoDates, linking |-> {}, alone |-> FALSE]
  BY DEF OverlayInit
<1>2. OverlayTypeOK
  BY <1>1 DEF OverlayInit, OverlayTypeOK, Job, NoDates
<1>. QED
  BY <1>1, <1>2 DEF OverlayInit, OverlayIInv, EventsStored, LinksLeft, EdgesHaveEnds, OverlayComplete

\* What is linkable in a graph without some of the narrators was so before.
LEMMA LaunchKeeps ==
    ASSUME OverlayIInv, NEW file \in Curated, NEW records \in [Narrators -> Dated \cup {NoNode}],
           Launch(file, records)
    PROVE  OverlayIInv'
<1>. USE DEF OverlayIInv
<1>1. job' = [st |-> "events", file |-> file, dating |-> records, linking |-> {}, alone |-> FALSE]
      /\ UNCHANGED <<dates, stored, active>> /\ settled' = (settled /\ file = job.file)
  BY DEF Launch
<1>2. OverlayTypeOK'
  BY <1>1 DEF OverlayTypeOK, Job
<1>3. OverlayComplete'
  BY <1>1 DEF OverlayComplete, Linkable
<1>. QED
  BY <1>1, <1>2, <1>3 DEF EventsStored, LinksLeft, EdgesHaveEnds

LEMMA MergeEventsKeeps ==
    ASSUME OverlayIInv, MergeEvents
    PROVE  OverlayIInv'
<1>. USE DEF OverlayIInv
<1>1. job.file \in Curated /\ job \in Job
  BY DEF OverlayTypeOK, Job
<1>2. PICK st \in {"fetch", "dates"} : job' = [job EXCEPT !.st = st]
  BY DEF MergeEvents
<1>3. job' \in Job /\ job'.file = job.file /\ job'.st = st /\ job'.st \in {"fetch", "dates"}
  BY <1>1, <1>2 DEF Job
<1>4. stored' = [e \in EventIds |-> IF e \in DOMAIN job.file THEN job.file[e] ELSE stored[e]]
      /\ UNCHANGED <<dates, active, settled>>
  BY DEF MergeEvents
<1>5. OverlayTypeOK'
  BY <1>1, <1>3, <1>4, FileIsTyped DEF OverlayTypeOK
<1>6. \A e \in DOMAIN job.file : stored'[e] \in CuratedEvents
  BY <1>1, <1>4, FileIsTyped
<1>7. NoNode \notin CuratedEvents
  BY OverlayAssumption DEF CuratedEvents
<1>8. \A e \in EventIds : stored[e] # NoNode => stored'[e] # NoNode
  BY <1>4, <1>6, <1>7
<1>9. EventsStored'
  BY <1>3, <1>6, <1>7 DEF EventsStored
<1>10. EdgesHaveEnds'
  BY <1>4, <1>8 DEF EdgesHaveEnds, OverlayTypeOK
<1>11. OverlayComplete'
  BY <1>3, <1>4 DEF OverlayComplete, Linkable
<1>. QED
  BY <1>3, <1>5, <1>9, <1>10, <1>11 DEF LinksLeft

LEMMA MergeDatesKeeps ==
    ASSUME OverlayIInv, MergeDates
    PROVE  OverlayIInv'
<1>. USE DEF OverlayIInv
<1>1. PICK chunk \in Rows({n \in Narrators : job.dating[n] # NoNode}) :
         LET rest == [n \in Narrators |-> IF n \in chunk THEN NoNode ELSE job.dating[n]]
          IN /\ dates' = [n \in Narrators |-> IF n \in chunk /\ dates[n] # NoNode
                                              THEN job.dating[n] ELSE dates[n]]
             /\ job' = [job EXCEPT !.dating = rest,
                                   !.st = IF rest = NoDates THEN "fetch" ELSE "dates"]
  BY DEF MergeDates
<1>. DEFINE rest == [n \in Narrators |-> IF n \in chunk THEN NoNode ELSE job.dating[n]]
<1>2. job \in Job /\ job.dating \in [Narrators -> Dated \cup {NoNode}]
  BY DEF OverlayTypeOK, Job
<1>3. chunk \subseteq {n \in Narrators : job.dating[n] # NoNode}
  BY DEF Rows
<1>4. rest \in [Narrators -> Dated \cup {NoNode}]
  BY <1>2
<1>5. PICK st \in {"fetch", "dates"} : job' = [job EXCEPT !.dating = rest, !.st = st]
  BY <1>1
<1>. HIDE DEF rest
<1>6. job' \in Job /\ job'.file = job.file /\ job'.st \in {"fetch", "dates"}
  BY <1>2, <1>4, <1>5 DEF Job
<1>7. dates' \in [Narrators -> Dated \cup {NoNode}]
      /\ \A n \in Narrators : dates[n] # NoNode => dates'[n] # NoNode
  BY <1>1, <1>2, <1>3 DEF OverlayTypeOK
<1>8. UNCHANGED <<stored, active>> /\ settled' = (settled /\ dates' = dates) /\ job.st = "dates"
  BY DEF MergeDates
<1>9. OverlayTypeOK'
  BY <1>6, <1>7, <1>8 DEF OverlayTypeOK
<1>10. EdgesHaveEnds'
  BY <1>7, <1>8 DEF EdgesHaveEnds, OverlayTypeOK
<1>11. OverlayComplete'
  BY <1>6, <1>8 DEF OverlayComplete, Linkable
<1>12. EventsStored'
  BY <1>6, <1>8 DEF EventsStored
<1>. QED
  BY <1>6, <1>9, <1>10, <1>11, <1>12 DEF LinksLeft

LEMMA LinkNarratorsKeeps ==
    ASSUME OverlayIInv, LinkNarrators
    PROVE  OverlayIInv'
<1>. USE DEF OverlayIInv
<1>. DEFINE links == Linkable(dates, job.file)
<1>1. job \in Job /\ job.file \in Curated
  BY DEF OverlayTypeOK, Job
<1>2. links \subseteq Narrators \X DOMAIN job.file /\ DOMAIN job.file \subseteq EventIds
  BY <1>1, LinkableIs, FileIsTyped
<1>3. UNCHANGED <<dates, stored, active>> /\ job.st = "fetch" /\ settled' = (job'.st = "done")
  BY DEF LinkNarrators
<1>4. job' = [job EXCEPT !.linking = links, !.st = IF links = {} THEN "done" ELSE "edges", !.alone = TRUE]
  BY DEF LinkNarrators
<1>5. Linkable(dates, job.file)' = Linkable(dates', job'.file)
  BY DEF Linkable
<1>. HIDE DEF links
<1>6. /\ job'.file = job.file /\ job'.linking = links /\ job'.alone
      /\ job'.st = IF links = {} THEN "done" ELSE "edges"
  BY <1>1, <1>4 DEF Job
<1>7. job' \in Job
  <2>1. links \in SUBSET (Narrators \X EventIds)
    BY <1>2
  <2>2. PICK st \in {"done", "edges"} :
           job' = [job EXCEPT !.linking = links, !.st = st, !.alone = TRUE]
    BY <1>4
  <2>. QED
    BY <1>1, <2>1, <2>2 DEF Job
<1>8. Linkable(dates', job'.file) = links
  BY <1>3, <1>6 DEF links
<1>9. OverlayTypeOK'
  BY <1>3, <1>7 DEF OverlayTypeOK
<1>10. LinksLeft'
  BY <1>2, <1>3, <1>5, <1>6, <1>8 DEF LinksLeft
<1>11. OverlayComplete'
  BY <1>3, <1>5, <1>6, <1>8 DEF OverlayComplete
<1>12. EventsStored'
  BY <1>3, <1>6 DEF EventsStored
<1>. QED
  BY <1>3, <1>9, <1>10, <1>11, <1>12 DEF EdgesHaveEnds

LEMMA MergeEdgesKeeps ==
    ASSUME OverlayIInv, MergeEdges
    PROVE  OverlayIInv'
<1>. USE DEF OverlayIInv
<1>1. PICK chunk \in Rows(job.linking) :
          /\ active' = active \cup
                 {link \in chunk : dates[link[1]] # NoNode /\ stored[link[2]] # NoNode}
          /\ job' = [job EXCEPT !.linking = @ \ chunk,
                                !.st = IF chunk = job.linking THEN "done" ELSE "edges"]
  BY DEF MergeEdges
<1>2. job \in Job /\ job.file \in Curated /\ job.linking \subseteq Narrators \X EventIds
  BY DEF OverlayTypeOK, Job
<1>3. chunk \subseteq job.linking
  BY DEF Rows
<1>4. /\ UNCHANGED <<dates, stored>> /\ job.st = "edges"
      /\ settled' = (IF job'.st = "done" THEN job.alone ELSE settled)
  BY DEF MergeEdges
<1>5. /\ job'.file = job.file /\ job'.linking = job.linking \ chunk /\ job'.alone = job.alone
      /\ job'.st = IF chunk = job.linking THEN "done" ELSE "edges"
  BY <1>1, <1>2 DEF Job
<1>6. job' \in Job
  <2>1. PICK st \in {"done", "edges"} : job' = [job EXCEPT !.linking = @ \ chunk, !.st = st]
    BY <1>1
  <2>. QED
    BY <1>2, <2>1 DEF Job
<1>7. active' \subseteq active \cup chunk /\ active \subseteq active'
  BY <1>1
<1>8. OverlayTypeOK'
  BY <1>2, <1>3, <1>4, <1>6, <1>7 DEF OverlayTypeOK, Job
<1>9. EdgesHaveEnds'
  BY <1>1, <1>4 DEF EdgesHaveEnds
<1>10. job.linking \subseteq Narrators \X DOMAIN job.file
  BY <1>4 DEF LinksLeft
<1>11. \A link \in Linkable(dates, job.file) \cap chunk : link \in active'
  <2>. SUFFICES ASSUME NEW link \in chunk, link \in Linkable(dates, job.file)
                PROVE  link \in active'
    OBVIOUS
  <2>1. dates[link[1]] # NoNode /\ link[2] \in DOMAIN job.file
    BY DEF Linkable
  <2>2. stored[link[2]] # NoNode
    BY <1>4, <2>1 DEF EventsStored
  <2>. QED
    BY <1>1, <2>1, <2>2
<1>12. Linkable(dates, job.file)' = Linkable(dates, job.file)
  BY <1>4, <1>5 DEF Linkable
<1>13. job.alone => Linkable(dates, job.file) \subseteq active' \cup job'.linking
  BY <1>4, <1>5, <1>7, <1>11 DEF LinksLeft
<1>14. LinksLeft'
  BY <1>4, <1>5, <1>10, <1>12, <1>13 DEF LinksLeft
<1>15. OverlayComplete'
  BY <1>4, <1>5, <1>12, <1>13 DEF OverlayComplete, LinksLeft
<1>16. EventsStored'
  BY <1>4, <1>5 DEF EventsStored
<1>. QED
  BY <1>8, <1>9, <1>14, <1>15, <1>16

LEMMA JobFailsKeeps ==
    ASSUME OverlayIInv, JobFails
    PROVE  OverlayIInv'
<1>. USE DEF OverlayIInv
<1>1. job' = [job EXCEPT !.st = "failed", !.linking = {}, !.dating = NoDates]
      /\ UNCHANGED <<dates, stored, active, settled>>
  BY DEF JobFails
<1>2. job' \in Job /\ job'.st = "failed" /\ job'.file = job.file
  BY <1>1 DEF OverlayTypeOK, Job, NoDates
<1>3. OverlayComplete'
  BY <1>1, <1>2 DEF OverlayComplete, Linkable
<1>. QED
  BY <1>1, <1>2, <1>3 DEF OverlayTypeOK, EventsStored, LinksLeft, EdgesHaveEnds

LEMMA IngestKeeps ==
    ASSUME OverlayIInv, NEW n \in Narrators, NEW d \in Dated \cup {NoNode}, Ingest(n, d)
    PROVE  OverlayIInv'
<1>. USE DEF OverlayIInv
<1>1. /\ dates' = [dates EXCEPT ![n] = d] /\ job' = [job EXCEPT !.alone = FALSE]
      /\ settled' = FALSE /\ UNCHANGED stored
      /\ active' = IF d = NoNode THEN {link \in active : link[1] # n} ELSE active
  BY DEF Ingest
<1>2. job' \in Job /\ ~ job'.alone /\ job'.st = job.st /\ job'.file = job.file /\ job'.linking = job.linking
  BY <1>1 DEF OverlayTypeOK, Job
<1>3. OverlayTypeOK'
  BY <1>1, <1>2 DEF OverlayTypeOK
<1>4. EdgesHaveEnds'
  BY <1>1 DEF EdgesHaveEnds, OverlayTypeOK
<1>. QED
  BY <1>1, <1>2, <1>3, <1>4 DEF EventsStored, LinksLeft, OverlayComplete

LEMMA OverlayStepInv == OverlayIInv /\ [OverlayNext]_overlayVars => OverlayIInv'
<1>1. ASSUME OverlayIInv, UNCHANGED overlayVars PROVE OverlayIInv'
  BY <1>1 DEF overlayVars, OverlayIInv, OverlayTypeOK, EventsStored, LinksLeft, EdgesHaveEnds,
     OverlayComplete, Linkable
<1>. QED
  BY <1>1, LaunchKeeps, MergeEventsKeeps, MergeDatesKeeps, LinkNarratorsKeeps, MergeEdgesKeeps,
     JobFailsKeeps, IngestKeeps DEF OverlayNext, JobStep

\* enrich-historical, however often it fails, is re-run, and narrators come and go
\* meanwhile: no edge without its ends, and after a finished run over a graph that
\* kept still every edge that belongs there.
THEOREM OverlayHolds == OverlaySpec => []OverlayInv
<1>1. OverlayIInv => OverlayInv
  BY DEF OverlayIInv, OverlayInv
<1>. QED
  BY <1>1, OverlayInitInv, OverlayStepInv, PTL DEF OverlaySpec

-----------------------------------------------------------------------------
(* What is derived from the dates. *)

LEMMA KnownAre ==
    ASSUME OverlayTypeOK
    PROVE  IsFiniteSet(Known) /\ Known \subseteq NarratorDates
<1>. DEFINE f == [n \in Narrators |-> dates[n]]
            all == {dates[n] : n \in Narrators}
<1>1. f \in Surjection(Narrators, all)
  BY DEF Surjection
<1>2. IsFiniteSet(all)
  BY <1>1, FS_Surjection, OverlayAssumption
<1>3. Known = all \ {NoNode}
  BY DEF Known
<1>4. Known \subseteq NarratorDates
  BY OverlayAssumption DEF Known, OverlayTypeOK
<1>. HIDE DEF all
<1>. QED
  BY <1>2, <1>3, <1>4, FS_Subset

LEMMA EffIs ==
    ASSUME NEW d \in NarratorDates
    PROVE  /\ d.birth \in Year /\ d.death \in Year
           /\ EffBirth(d) \in Year /\ EffDeath(d) \in Year
           /\ \A y \in Year : y \in Int <=> y # None
BY YearsAssumption DEF NarratorDates, EffBirth, EffDeath, Year

LEMMA DatingWindowIs ==
    ASSUME NEW d \in NarratorDates
    PROVE  /\ DatingWindow(d).window = ActiveWindow(d)
           /\ DatingWindow(d).endEstimated <=> EffDeath(d) = None
           /\ EffDeath(d) # None => ActiveWindow(d) # None /\ ActiveWindow(d)[2] = EffDeath(d)
           /\ ActiveWindow(d) # None => ActiveWindow(d)[1] \in Int /\ ActiveWindow(d)[2] \in Int
<1>. DEFINE birth == EffBirth(d)
            death == EffDeath(d)
            Is(w, e, last) == [window |-> w, estimated |-> e, endEstimated |-> last]
<1>1. birth \in Year /\ death \in Year /\ \A y \in Year : y \in Int <=> y # None
  BY EffIs
<1>2. DatingWindow(d) =
        IF birth = None /\ death = None THEN Is(None, TRUE, TRUE)
        ELSE IF death = None THEN Is(<<birth, birth + AssumedLifespan>>, TRUE, TRUE)
        ELSE IF birth = None THEN Is(<<death - AssumedLifespan, death>>, TRUE, FALSE)
        ELSE Is(<<birth, death>>, FALSE, FALSE)
  BY DEF DatingWindow, EffBirth, EffDeath
<1>3. ActiveWindow(d) =
        IF birth = None /\ death = None THEN None
        ELSE IF death = None THEN <<birth, birth + AssumedLifespan>>
        ELSE IF birth = None THEN <<death - AssumedLifespan, death>>
        ELSE <<birth, death>>
  BY DEF ActiveWindow
<1>4. AssumedLifespan \in Int /\ None \notin Int /\ None \notin Int \X Int
  BY YearsAssumption
<1>. HIDE DEF birth, death
<1>5. /\ DatingWindow(d).window = ActiveWindow(d)
      /\ DatingWindow(d).endEstimated <=> death = None
  BY <1>2, <1>3
<1>6. /\ death # None => ActiveWindow(d) # None /\ ActiveWindow(d)[2] = death
      /\ ActiveWindow(d) # None => ActiveWindow(d)[1] \in Int /\ ActiveWindow(d)[2] \in Int
  <2>1. CASE birth = None /\ death = None
    BY <1>3, <2>1
  <2>2. CASE birth # None /\ death = None
    BY <1>1, <1>3, <1>4, <2>2
  <2>3. CASE birth = None /\ death # None
    BY <1>1, <1>3, <1>4, <2>3
  <2>4. CASE birth # None /\ death # None
    BY <1>1, <1>3, <1>4, <2>4
  <2>. QED
    BY <2>1, <2>2, <2>3, <2>4
<1>. QED
  BY <1>5, <1>6 DEF death

LEMMA WindowsHold ==
    ASSUME OverlayTypeOK
    PROVE  WindowsAgree
<1>. SUFFICES ASSUME NEW d \in NarratorDates
              PROVE  LET scans == ResolveWindow(d.birth, d.death)
                         others == ActiveWindow(d)
                     IN /\ DatingWindow(d).window = others
                        /\ CypherWindow(d) = others
                        /\ d.birthEarliest = None /\ d.deathLatest = None => scans = others
                        /\ /\ d.birth # None /\ d.death # None
                           /\ d.birthEarliest # None => d.birthEarliest <= d.birth
                           /\ d.deathLatest # None => d.death <= d.deathLatest
                           => others[1] <= scans[1] /\ scans[2] <= others[2]
  BY KnownAre DEF WindowsAgree
<1>1. CypherWindow(d) = ActiveWindow(d)
  BY EffIs DEF CypherWindow, ActiveWindow
<1>2. ASSUME d.birthEarliest = None, d.deathLatest = None
      PROVE  ResolveWindow(d.birth, d.death) = ActiveWindow(d)
  BY <1>2 DEF ResolveWindow, ActiveWindow, EffBirth, EffDeath
<1>3. ASSUME d.birth # None, d.death # None,
             d.birthEarliest # None => d.birthEarliest <= d.birth,
             d.deathLatest # None => d.death <= d.deathLatest
      PROVE  /\ ActiveWindow(d)[1] <= ResolveWindow(d.birth, d.death)[1]
             /\ ResolveWindow(d.birth, d.death)[2] <= ActiveWindow(d)[2]
  <2>1. d.birth \in Int /\ d.death \in Int
    BY <1>3, EffIs
  <2>2. EffBirth(d) # None /\ EffDeath(d) # None /\ EffBirth(d) <= d.birth /\ d.death <= EffDeath(d)
    BY <1>3, <2>1 DEF EffBirth, EffDeath
  <2>3. ResolveWindow(d.birth, d.death) = <<d.birth, d.death>>
    BY <1>3 DEF ResolveWindow
  <2>4. ActiveWindow(d) = <<EffBirth(d), EffDeath(d)>>
    BY <2>2 DEF ActiveWindow
  <2>. QED
    BY <2>2, <2>3, <2>4
<1>. QED
  BY <1>1, <1>2, <1>3, DatingWindowIs

-----------------------------------------------------------------------------
(* Impossible edges. *)

\* The two ways in which attested years keep two lives apart.
LivesApart(t, s) ==
    \/ t.death # None /\ s.birth # None /\ t.death < s.birth
    \/ s.death # None /\ t.birth # None /\ s.death < t.birth

LEMMA ResolveIs ==
    ASSUME NEW d \in NarratorDates, d.birth # None /\ d.death # None => d.birth <= d.death
    PROVE  LET w == ResolveWindow(d.birth, d.death)
           IN /\ w = None <=> d.birth = None /\ d.death = None
              /\ w # None => /\ w[1] \in Int /\ w[2] \in Int /\ w[1] <= w[2]
                             /\ d.birth # None => w[1] = d.birth
                             /\ d.death # None => w[2] = d.death
<1>. DEFINE birth == d.birth
            death == d.death
            w == ResolveWindow(birth, death)
<1>1. birth \in Year /\ death \in Year /\ \A y \in Year : y \in Int <=> y # None
  BY EffIs
<1>2. w = IF birth = None /\ death = None THEN None
          ELSE IF death = None THEN <<birth, birth + AssumedLifespan>>
          ELSE IF birth = None THEN <<death - AssumedLifespan, death>>
          ELSE <<birth, death>>
  BY DEF ResolveWindow
<1>3. AssumedLifespan \in Nat /\ None \notin Int /\ None \notin Int \X Int
  BY YearsAssumption
<1>4. birth # None /\ death # None => birth <= death
  OBVIOUS
<1>. HIDE DEF birth, death, w
<1>5. CASE birth = None /\ death = None
  BY <1>2, <1>5 DEF birth, death, w
<1>6. CASE birth # None /\ death = None
  <2>1. w = <<birth, birth + AssumedLifespan>> /\ w # None
    BY <1>1, <1>2, <1>3, <1>6
  <2>2. w[1] \in Int /\ w[2] \in Int /\ w[1] <= w[2] /\ w[1] = birth
    BY <1>1, <1>3, <1>6, <2>1
  <2>. QED
    BY <1>6, <2>1, <2>2 DEF birth, death, w
<1>7. CASE birth = None /\ death # None
  <2>1. w = <<death - AssumedLifespan, death>> /\ w # None
    BY <1>1, <1>2, <1>3, <1>7
  <2>2. w[1] \in Int /\ w[2] \in Int /\ w[1] <= w[2] /\ w[2] = death
    BY <1>1, <1>3, <1>7, <2>1
  <2>. QED
    BY <1>7, <2>1, <2>2 DEF birth, death, w
<1>8. CASE birth # None /\ death # None
  <2>1. w = <<birth, death>> /\ w # None
    BY <1>1, <1>2, <1>3, <1>8
  <2>2. w[1] \in Int /\ w[2] \in Int /\ w[1] <= w[2] /\ w[1] = birth /\ w[2] = death
    BY <1>1, <1>3, <1>4, <1>8, <2>1
  <2>. QED
    BY <1>8, <2>1, <2>2 DEF birth, death, w
<1>. QED
  BY <1>5, <1>6, <1>7, <1>8

LEMMA ClassifyIs ==
    ASSUME NEW t \in NarratorDates, NEW s \in NarratorDates,
           t.birth # None /\ t.death # None => t.birth <= t.death,
           s.birth # None /\ s.death # None => s.birth <= s.death,
           ClassifyEdge(t, s).verdict # "undated"
    PROVE  /\ t.birth # None \/ t.death # None
           /\ ClassifyEdge(t, s).verdict = "impossible" <=> LivesApart(t, s)
<1>. DEFINE tw == ResolveWindow(t.birth, t.death)
            sw == ResolveWindow(s.birth, s.death)
            Verdict(attested) == IF attested THEN "impossible" ELSE "implausible"
            v == ClassifyEdge(t, s).verdict
<1>1. /\ tw = None <=> t.birth = None /\ t.death = None
      /\ tw # None => /\ tw[1] \in Int /\ tw[2] \in Int /\ tw[1] <= tw[2]
                      /\ t.birth # None => tw[1] = t.birth
                      /\ t.death # None => tw[2] = t.death
  BY ResolveIs
<1>2. /\ sw # None => /\ sw[1] \in Int /\ sw[2] \in Int /\ sw[1] <= sw[2]
                      /\ s.birth # None => sw[1] = s.birth
                      /\ s.death # None => sw[2] = s.death
  BY ResolveIs
<1>3. v = IF tw = None \/ sw = None THEN "undated"
          ELSE IF tw[1] <= sw[2] /\ sw[1] <= tw[2] THEN "ok"
          ELSE IF tw[2] < sw[1] THEN Verdict(t.death # None /\ s.birth # None)
          ELSE Verdict(s.death # None /\ t.birth # None)
  BY DEF ClassifyEdge, Edge
<1>4. tw # None /\ sw # None
  BY <1>3
<1>. HIDE DEF tw, sw, v
<1>5. v = "impossible" <=> \/ tw[2] < sw[1] /\ t.death # None /\ s.birth # None
                           \/ sw[2] < tw[1] /\ s.death # None /\ t.birth # None
  BY <1>1, <1>2, <1>3, <1>4
<1>6. v = "impossible" <=> LivesApart(t, s)
  BY <1>1, <1>2, <1>4, <1>5 DEF LivesApart
<1>. QED
  BY <1>1, <1>4, <1>6 DEF v

LEMMA BoundsAre ==
    ASSUME OverlayTypeOK
    PROVE  LET bounds == (UNION {{d.birth, d.death} : d \in Known}) \ {None}
           IN IsFiniteSet(bounds) /\ bounds \subseteq Int
<1>. DEFINE Pair(d) == {d.birth, d.death}
            pairs == {Pair(d) : d \in Known}
            f == [d \in Known |-> Pair(d)]
            bounds == (UNION pairs) \ {None}
<1>1. f \in Surjection(Known, pairs)
  BY DEF Surjection
<1>2. IsFiniteSet(pairs)
  BY <1>1, KnownAre, FS_Surjection
<1>3. \A d : IsFiniteSet(Pair(d))
  <2>. TAKE d
  <2>1. IsFiniteSet({d.birth})
    BY FS_Singleton
  <2>2. Pair(d) = {d.birth} \cup {d.death}
    OBVIOUS
  <2>. QED
    BY <2>1, <2>2, FS_AddElement
<1>4. IsFiniteSet(UNION pairs)
  <2>1. \A T \in pairs : IsFiniteSet(T)
    BY <1>3
  <2>. HIDE DEF pairs
  <2>. QED
    BY <1>2, <2>1, FS_UNION
<1>5. IsFiniteSet(bounds)
  <2>. HIDE DEF pairs
  <2>. QED
    BY <1>4, FS_Subset
<1>6. bounds \subseteq Int
  BY KnownAre, EffIs
<1>. QED
  BY <1>5, <1>6

LEMMA ImpossibleHolds ==
    ASSUME OverlayTypeOK
    PROVE  ImpossibleIsCertain
<1>. DEFINE bounds == (UNION {{d.birth, d.death} : d \in Known}) \ {None}
            lo == Min(bounds) - AssumedLifespan
            hi == Max(bounds) + AssumedLifespan
            span == IF bounds = {} THEN {} ELSE lo .. hi
<1>1. IsFiniteSet(bounds) /\ bounds \subseteq Int
  BY BoundsAre
<1>2. \A d \in Known : /\ d \in NarratorDates
                       /\ d.birth # None => d.birth \in bounds
                       /\ d.death # None => d.death \in bounds
  BY KnownAre
<1>. SUFFICES ASSUME NEW t \in Known, NEW s \in Known, Lives(t, span) # {}, Lives(s, span) # {},
                     ClassifyEdge(t, s).verdict # "undated"
              PROVE  ClassifyEdge(t, s).verdict = "impossible" <=>
                         \A a \in Lives(t, span), b \in Lives(s, span) : ~ Overlap(a, b)
  BY DEF ImpossibleIsCertain
<1>. HIDE DEF bounds
<1>3. bounds # {} => /\ Min(bounds) \in Int /\ Max(bounds) \in Int
                     /\ \A y \in bounds : y \in Int /\ Min(bounds) <= y /\ y <= Max(bounds)
  BY <1>1, MinIs, MaxIs
<1>4. /\ t.birth # None /\ t.death # None => t.birth <= t.death
      /\ s.birth # None /\ s.death # None => s.birth <= s.death
  BY DEF Lives
<1>5. /\ t.birth # None \/ t.death # None
      /\ ClassifyEdge(t, s).verdict = "impossible" <=> LivesApart(t, s)
  BY <1>2, <1>4, ClassifyIs
<1>6. bounds # {}
  BY <1>2, <1>5
<1>7. /\ lo \in Int /\ hi \in Int /\ lo <= hi /\ span = lo .. hi
      /\ \A y \in bounds : y \in Int /\ lo <= y /\ y <= hi
  BY <1>3, <1>6, YearsAssumption
<1>. HIDE DEF lo, hi, span
<1>8. ASSUME LivesApart(t, s), NEW a \in Lives(t, span), NEW b \in Lives(s, span)
      PROVE  ~ Overlap(a, b)
  <2>1. /\ a[1] \in Int /\ a[2] \in Int /\ b[1] \in Int /\ b[2] \in Int
        /\ t.birth # None => a[1] = t.birth
        /\ t.death # None => a[2] = t.death
        /\ s.birth # None => b[1] = s.birth
        /\ s.death # None => b[2] = s.death
    BY <1>7 DEF Lives
  <2>. QED
    BY <1>8, <2>1 DEF LivesApart, Overlap
<1>9. ASSUME ~ LivesApart(t, s)
      PROVE  \E a \in Lives(t, span), b \in Lives(s, span) : Overlap(a, b)
  <2>. DEFINE First(d) == IF d.birth # None THEN d.birth ELSE lo
              Last(d) == IF d.death # None THEN d.death ELSE hi
              Whole(d) == <<First(d), Last(d)>>
  <2>1. ASSUME NEW d \in Known, d.birth # None /\ d.death # None => d.birth <= d.death
        PROVE  /\ First(d) \in span /\ Last(d) \in span /\ First(d) <= Last(d)
               /\ Whole(d) \in Lives(d, span)
    <3>1. First(d) \in span /\ Last(d) \in span /\ First(d) <= Last(d)
      BY <1>2, <1>7, <2>1
    <3>. QED
      BY <3>1 DEF Lives
  <2>2. First(t) <= Last(s) /\ Last(t) >= First(s)
    BY <1>2, <1>7, <1>9 DEF LivesApart
  <2>3. Overlap(Whole(t), Whole(s))
    BY <2>2 DEF Overlap
  <2>. QED
    BY <1>4, <2>1, <2>3
<1>. QED
  BY <1>5, <1>8, <1>9

-----------------------------------------------------------------------------
(* Datings. *)

\* The places of a chain where a measure is least, of which the first is taken.
LEMMA FirstLeast ==
    ASSUME NEW S, IsFiniteSet(S), AreNumbers(S), S # {}, NEW v, \A i \in S : v[i] \in Int
    PROVE  LET m == Min({i \in S : \A j \in S : v[i] <= v[j]})
           IN m \in S /\ \A j \in S : v[m] <= v[j]
<1>. DEFINE least == {i \in S : \A j \in S : v[i] <= v[j]}
            Before(i, j) == v[i] > v[j] \/ (v[i] = v[j] /\ i <= j)
            R == {p \in S \X S : Before(p[1], p[2])}
<1>1. \A i \in S : i \in Int
  BY DEF AreNumbers
<1>2. Linear(R, S)
  <2>1. \A i, j \in S : <<i, j>> \in R <=> Before(i, j)
    OBVIOUS
  <2>2. \A i, j \in S : Before(i, i) /\ (Before(i, j) \/ Before(j, i)) /\ (Before(i, j) /\ Before(j, i) => i = j)
    BY <1>1
  <2>3. \A i, j, n \in S : Before(i, j) /\ Before(j, n) => Before(i, n)
    BY <1>1
  <2>. HIDE DEF R, Before
  <2>. QED
    BY <2>1, <2>2, <2>3, Zenon DEF Linear
<1>3. PICK x \in S : \A y \in S : <<y, x>> \in R
  <2>. HIDE DEF R
  <2>. QED
    BY <1>2, LastInLine
<1>4. x \in least
  <2>1. ASSUME NEW y \in S PROVE v[x] <= v[y]
    <3>1. Before(y, x)
      BY <1>3
    <3>2. v[x] \in Int /\ v[y] \in Int
      OBVIOUS
    <3>. QED
      BY <3>1, <3>2
  <2>. QED
    BY <2>1
<1>5. IsFiniteSet(least) /\ least \subseteq Int /\ least # {}
  <2>1. least \subseteq S /\ least \subseteq Int
    BY <1>1
  <2>. HIDE DEF least
  <2>. QED
    BY <1>4, <2>1, FS_Subset
<1>6. Min(least) \in least
  <2>. HIDE DEF least
  <2>. QED
    BY <1>5, MinIs
<1>. QED
  BY <1>6

LEMMA LeastOf ==
    ASSUME NEW S, IsFiniteSet(S), AreNumbers(S), NEW x \in S
    PROVE  /\ (\A y \in S : x <= y) => Min(S) = x
           /\ (\A y \in S : y <= x) => Max(S) = x
<1>. DEFINE least == Min(S)
            most == Max(S)
<1>1. least \in S /\ most \in S /\ least <= x /\ x <= most
  <2>1. S \subseteq Int /\ S # {}
    BY DEF AreNumbers
  <2>. QED
    BY <2>1, MinIs, MaxIs
<1>2. \A y \in S : y \in Int
  BY DEF AreNumbers
<1>. HIDE DEF least, most
<1>3. (\A y \in S : x <= y) => least = x
  BY <1>1, <1>2
<1>4. (\A y \in S : y <= x) => most = x
  BY <1>1, <1>2
<1>. QED
  BY <1>3, <1>4 DEF least, most

LEMMA HighHolds ==
    ASSUME OverlayTypeOK, NEW k \in Nat, NEW chain \in [1..k -> Known]
    PROVE  Attested(chain)
<1>. SUFFICES ASSUME DatingOf(chain).confidence = "high"
              PROVE  LET dating == DatingOf(chain)
                         deaths == {EffDeath(chain[i]) : i \in DOMAIN chain}
                     IN /\ {dating.tpq, dating.taq} \subseteq deaths
                        /\ None \notin deaths => dating.tpq = Min(deaths) /\ dating.taq = Max(deaths)
  BY DEF Attested
<1>. DEFINE windows == [i \in DOMAIN chain |-> DatingWindow(chain[i])]
            dated == {i \in DOMAIN chain : windows[i].window # None}
            ends == [i \in dated |-> windows[i].window[2]]
            earliest == Min({i \in dated : \A j \in dated : ends[i] <= ends[j]})
            latest == Min({i \in dated : \A j \in dated : ends[i] >= ends[j]})
            anchored == ~ windows[earliest].endEstimated /\ ~ windows[latest].endEstimated
            deaths == {EffDeath(chain[i]) : i \in DOMAIN chain}
            dating == DatingOf(chain)
<1>1. k \in Nat /\ DOMAIN chain = 1..k /\ chain \in Seq(Known) /\ Len(chain) = k
  OBVIOUS
<1>2. ASSUME NEW i \in 1..k
      PROVE  /\ windows[i].window = ActiveWindow(chain[i])
             /\ windows[i].endEstimated <=> EffDeath(chain[i]) = None
             /\ EffDeath(chain[i]) # None =>
                   ActiveWindow(chain[i]) # None /\ ActiveWindow(chain[i])[2] = EffDeath(chain[i])
             /\ ActiveWindow(chain[i]) # None => ActiveWindow(chain[i])[2] \in Int
             /\ EffDeath(chain[i]) \in Year /\ (EffDeath(chain[i]) \in Int <=> EffDeath(chain[i]) # None)
  <2>1. chain[i] \in NarratorDates
    BY KnownAre
  <2>2. windows[i] = DatingWindow(chain[i])
    BY <1>1
  <2>. HIDE DEF windows
  <2>. QED
    BY <2>1, <2>2, DatingWindowIs, EffIs
<1>3. dating = IF dated = {} THEN [tpq |-> None, taq |-> None, confidence |-> "insufficient_data"]
               ELSE [tpq |-> ends[earliest], taq |-> ends[latest],
                     confidence |-> IF Cardinality(dated) = 1 THEN "low"
                                    ELSE IF anchored /\ Cardinality(dated) = Len(chain) THEN "high"
                                    ELSE "medium"]
  BY DEF DatingOf
<1>. HIDE DEF windows
<1>4. dated \in SUBSET (1..k) /\ \A i \in dated : ends[i] \in Int
  BY <1>1, <1>2
<1>. HIDE DEF dated, ends
<1>5. /\ dated # {} /\ anchored /\ Cardinality(dated) = k
      /\ dating.tpq = ends[earliest] /\ dating.taq = ends[latest]
  <2>. HIDE DEF earliest, latest, anchored
  <2>. QED
    BY <1>1, <1>3
<1>6. dated = 1..k
  <2>1. \A a, b \in Int : IsFiniteSet(a..b) /\ Cardinality(a..b) = IF a > b THEN 0 ELSE b - a + 1
    BY FS_Interval
  <2>2. IsFiniteSet(1..k) /\ Cardinality(1..k) = k
    BY <1>1, <2>1
  <2>. QED
    BY <1>4, <1>5, <2>2, FS_Subset
<1>finite. IsFiniteSet(dated) /\ AreNumbers(dated)
  <2>1. \A a, b \in Int : IsFiniteSet(a..b)
    BY FS_Interval
  <2>2. IsFiniteSet(1..k)
    BY <1>1, <2>1
  <2>. QED
    BY <1>6, <2>2 DEF AreNumbers
<1>7. earliest \in dated /\ \A j \in dated : ends[earliest] <= ends[j]
  BY <1>4, <1>5, <1>finite, FirstLeast
<1>8. latest \in dated /\ \A j \in dated : ends[latest] >= ends[j]
  <2>. DEFINE v == [i \in dated |-> -ends[i]]
  <2>1. \A i \in dated : v[i] \in Int
    BY <1>4
  <2>3. \A i, j \in dated : v[i] <= v[j] <=> ends[i] >= ends[j]
    BY <1>4
  <2>. HIDE DEF v
  <2>2. {i \in dated : \A j \in dated : v[i] <= v[j]} = {i \in dated : \A j \in dated : ends[i] >= ends[j]}
    BY <2>3, Zenon
  <2>4. /\ Min({i \in dated : \A j \in dated : v[i] <= v[j]}) \in dated
        /\ \A j \in dated : v[Min({i \in dated : \A n \in dated : v[i] <= v[n]})] <= v[j]
    BY <1>5, <1>finite, <2>1, FirstLeast
  <2>. QED
    BY <2>2, <2>3, <2>4
<1>. HIDE DEF earliest, latest, dating
<1>9. \A i \in 1..k : EffDeath(chain[i]) # None => ends[i] = EffDeath(chain[i])
  BY <1>2, <1>6 DEF ends, dated
<1>10. EffDeath(chain[earliest]) # None /\ EffDeath(chain[latest]) # None
  BY <1>2, <1>5, <1>6, <1>7, <1>8
<1>11. {dating.tpq, dating.taq} \subseteq deaths
  BY <1>1, <1>5, <1>6, <1>7, <1>8, <1>9, <1>10
<1>12. ASSUME None \notin deaths PROVE dating.tpq = Min(deaths) /\ dating.taq = Max(deaths)
  <2>1. \A i \in 1..k : EffDeath(chain[i]) \in Int /\ ends[i] = EffDeath(chain[i])
    BY <1>1, <1>2, <1>9, <1>12
  <2>2. AreNumbers(deaths) /\ IsFiniteSet(deaths)
    <3>. DEFINE f == [i \in 1..k |-> EffDeath(chain[i])]
    <3>1. f \in Surjection(1..k, deaths)
      BY <1>1 DEF Surjection
    <3>2. \A a, b \in Int : IsFiniteSet(a..b)
      BY FS_Interval
    <3>3. IsFiniteSet(1..k)
      BY <1>1, <3>2
    <3>. QED
      BY <1>1, <2>1, <3>1, <3>3, FS_Surjection DEF AreNumbers
  <2>3. \A y \in deaths : dating.tpq <= y /\ y <= dating.taq
    BY <1>1, <1>5, <1>6, <1>7, <1>8, <2>1
  <2>. HIDE DEF deaths
  <2>4. dating.tpq \in deaths /\ dating.taq \in deaths
    BY <1>11
  <2>. QED
    BY <2>2, <2>3, <2>4, LeastOf
<1>. QED
  BY <1>11, <1>12 DEF dating

-----------------------------------------------------------------------------
(* The plausibility scan. *)

Verdicts == {"impossible", "implausible", "ok", "undated"}

LEMMA VerdictsAreFinite ==
    IsFiniteSet(Verdicts)
<1>1. Verdicts = {"impossible"} \cup {"implausible"} \cup {"ok"} \cup {"undated"}
  BY DEF Verdicts
<1>2. IsFiniteSet({"impossible"})
  BY FS_Singleton
<1>. QED
  BY <1>1, <1>2, FS_AddElement

LEMMA VerdictIs ==
    ASSUME NEW t \in NarratorDates, NEW s \in NarratorDates
    PROVE  LET c == ClassifyEdge(t, s)
           IN /\ c.verdict \in Verdicts
              /\ c.verdict \in {"impossible", "implausible"} => c.gap \in Int /\ c.gap # None
<1>. DEFINE tw == ResolveWindow(t.birth, t.death)
            sw == ResolveWindow(s.birth, s.death)
<1>1. ASSUME NEW d \in NarratorDates, ResolveWindow(d.birth, d.death) # None
      PROVE  ResolveWindow(d.birth, d.death)[1] \in Int /\ ResolveWindow(d.birth, d.death)[2] \in Int
  <2>1. d.birth \in Year /\ d.death \in Year /\ \A y \in Year : y \in Int <=> y # None
    BY EffIs
  <2>. QED
    BY <1>1, <2>1, YearsAssumption DEF ResolveWindow
<1>2. /\ tw # None => tw[1] \in Int /\ tw[2] \in Int
      /\ sw # None => sw[1] \in Int /\ sw[2] \in Int
  BY <1>1
<1>3. ClassifyEdge(t, s) =
        IF tw = None \/ sw = None THEN Edge("undated", None)
        ELSE IF tw[1] <= sw[2] /\ sw[1] <= tw[2] THEN Edge("ok", None)
        ELSE IF tw[2] < sw[1]
             THEN Edge(IF t.death # None /\ s.birth # None THEN "impossible" ELSE "implausible",
                       sw[1] - tw[2])
             ELSE Edge(IF s.death # None /\ t.birth # None THEN "impossible" ELSE "implausible",
                       tw[1] - sw[2])
  BY DEF ClassifyEdge
<1>. HIDE DEF tw, sw
<1>4. CASE tw = None \/ sw = None
  BY <1>3, <1>4 DEF Edge, Verdicts
<1>5. CASE ~(tw = None \/ sw = None)
  <2>1. sw[1] - tw[2] \in Int /\ tw[1] - sw[2] \in Int /\ None \notin Int
    BY <1>2, <1>5, YearsAssumption
  <2>. QED
    BY <1>3, <1>5, <2>1 DEF Edge, Verdicts
<1>. QED
  BY <1>4, <1>5

\* Each edge that is scanned has one verdict.
LEMMA TallyAdds ==
    ASSUME NEW scan, IsFiniteSet(scan), \A e \in scan : VerdictOf(e).verdict \in Verdicts,
           NEW tally,
           \A v \in Verdicts : tally[v] = Cardinality({e \in scan : VerdictOf(e).verdict = v})
    PROVE  \E G : Sums(G, tally, Verdicts) /\ G[Verdicts] = Cardinality(scan)
<1>. DEFINE Of(s) == {e \in scan : VerdictOf(e).verdict \in s}
            G == [s \in SUBSET Verdicts |-> Cardinality(Of(s))]
<1>1. \A v \in Verdicts : tally[v] = Cardinality(Of({v}))
  <2>1. \A v : Of({v}) = {e \in scan : VerdictOf(e).verdict = v}
    OBVIOUS
  <2>. QED
    BY <2>1
<1>3. Of(Verdicts) = scan
  OBVIOUS
<1>4. \A s : IsFiniteSet(Of(s)) /\ Cardinality(Of(s)) \in Nat
  BY FS_Subset, FS_CardinalityType
<1>5. Cardinality(Of({})) = 0
  <2>1. Of({}) = {}
    OBVIOUS
  <2>. QED
    BY <2>1, FS_EmptySet
<1>6. ASSUME NEW s, NEW x \in s
      PROVE  Cardinality(Of(s)) = Cardinality(Of({x})) + Cardinality(Of(s \ {x}))
  <2>1. /\ Of(s) = Of({x}) \cup Of(s \ {x}) /\ Of({x}) \cap Of(s \ {x}) = {}
    OBVIOUS
  <2>2. Cardinality(Of({x}) \cap Of(s \ {x})) = 0
    BY <2>1, FS_EmptySet
  <2>. HIDE DEF Of
  <2>3. Cardinality(Of({x}) \cup Of(s \ {x})) =
          Cardinality(Of({x})) + Cardinality(Of(s \ {x})) - Cardinality(Of({x}) \cap Of(s \ {x}))
    BY <1>4, FS_Union
  <2>4. Cardinality(Of({x})) \in Nat /\ Cardinality(Of(s \ {x})) \in Nat
    BY <1>4
  <2>5. Cardinality(Of(s)) = Cardinality(Of({x})) + Cardinality(Of(s \ {x})) - 0
    BY <2>1, <2>2, <2>3, Zenon
  <2>. QED
    BY <2>4, <2>5
<1>7. Sums(G, tally, Verdicts)
  <2>. HIDE DEF Of
  <2>1. ASSUME NEW s \in SUBSET Verdicts
        PROVE  G[s] = IF s = {} THEN 0
                      ELSE tally[CHOOSE x \in s : TRUE] + G[s \ {CHOOSE x \in s : TRUE}]
    <3>1. CASE s = {}
      BY <1>5, <3>1
    <3>2. CASE s # {}
      <4>. DEFINE x == CHOOSE x \in s : TRUE
      <4>1. x \in s /\ x \in Verdicts /\ s \ {x} \in SUBSET Verdicts
        BY <3>2
      <4>. HIDE DEF x
      <4>2. G[s] = tally[x] + G[s \ {x}]
        BY <1>1, <1>6, <4>1
      <4>. QED
        BY <3>2, <4>2 DEF x
    <3>. QED
      BY <3>1, <3>2
  <2>2. G = [s \in SUBSET Verdicts |-> G[s]]
    OBVIOUS
  <2>. HIDE DEF G
  <2>3. G = [s \in SUBSET Verdicts |->
               IF s = {} THEN 0
               ELSE tally[CHOOSE x \in s : TRUE] + G[s \ {CHOOSE x \in s : TRUE}]]
    BY <2>1, <2>2, Zenon
  <2>. QED
    BY <2>3 DEF Sums
<1>8. G[Verdicts] = Cardinality(scan)
  BY <1>3
<1>. QED
  BY <1>7, <1>8

\* Whatever rows of the candidates the scan is given.
LEMMA ScanIs ==
    ASSUME OverlayTypeOK, NEW scan \in Scans(Known \X Known)
    PROVE  /\ scan.rows \subseteq Known \X Known /\ IsFiniteSet(scan.rows)
           /\ scan.truncated <=> scan.rows # Candidates(Known \X Known)
<1>. DEFINE all == Candidates(Known \X Known)
<1>1. IsFiniteSet(all) /\ all \subseteq Known \X Known
  <2>1. IsFiniteSet(Known \X Known)
    BY KnownAre, FS_Product
  <2>2. all \subseteq Known \X Known
    BY DEF Candidates
  <2>. QED
    BY <2>1, <2>2, FS_Subset
<1>0. PICK fetched \in Some(MaxScan + 1, all) :
          \E T \in Some(MaxScan, fetched) :
              scan = [rows |-> T, truncated |-> Cardinality(fetched) > MaxScan]
  BY DEF Scans
<1>2. PICK T \in Some(MaxScan, fetched) :
          scan = [rows |-> T, truncated |-> Cardinality(fetched) > MaxScan]
  BY <1>0
<1>. HIDE DEF all
<1>3. MaxScan \in Nat /\ MaxScan + 1 \in Nat
  BY YearsAssumption
<1>4. /\ fetched \subseteq all /\ IsFiniteSet(fetched) /\ Cardinality(all) \in Nat
      /\ fetched # all <=> Cardinality(all) > MaxScan + 1
      /\ fetched # all => Cardinality(fetched) = MaxScan + 1
  BY <1>1, <1>2, <1>3, TakenIs DEF Some
<1>5. /\ T \subseteq fetched /\ IsFiniteSet(T) /\ Cardinality(fetched) \in Nat
      /\ T # fetched <=> Cardinality(fetched) > MaxScan
  BY <1>2, <1>3, <1>4, TakenIs DEF Some
<1>6. Cardinality(fetched) > MaxScan <=> T # all
  <2>1. CASE fetched = all
    BY <1>5, <2>1
  <2>2. CASE fetched # all
    <3>1. Cardinality(fetched) > MaxScan
      BY <1>3, <1>4, <2>2
    <3>2. T # all
      BY <1>4, <1>5, <2>2
    <3>. QED
      BY <3>1, <3>2
  <2>. QED
    BY <2>1, <2>2
<1>. QED
  BY <1>1, <1>2, <1>4, <1>5, <1>6 DEF all

LEMMA ScanHolds ==
    ASSUME OverlayTypeOK, NEW scan \in SUBSET (Known \X Known), IsFiniteSet(scan)
    PROVE  /\ CountedOnce(scan)
           /\ \A asked \in {None, "impossible", "implausible", "ok"}, limit \in Nat :
                  WorstFlagged(scan, asked, limit)
<1>. DEFINE tally == Tally(scan)
<1>1. IsFiniteSet(scan)
  OBVIOUS
<1>2. \A e \in scan : /\ VerdictOf(e).verdict \in Verdicts
                      /\ VerdictOf(e).verdict \in {"impossible", "implausible"} =>
                            VerdictOf(e).gap \in Int /\ VerdictOf(e).gap # None
  <2>1. \A e \in scan : e[1] \in NarratorDates /\ e[2] \in NarratorDates
    BY KnownAre
  <2>. QED
    BY <2>1, VerdictIs DEF VerdictOf
<1>3. MapThenSumSet(LAMBDA v : tally[v], DOMAIN tally) = Cardinality(scan)
  <2>1. /\ DOMAIN tally = Verdicts
        /\ \A v \in Verdicts : tally[v] = Cardinality({e \in scan : VerdictOf(e).verdict = v})
    BY DEF Tally, Verdicts
  <2>. HIDE DEF tally
  <2>2. MapThenSumSet(LAMBDA v : tally[v], Verdicts) = Cardinality(scan)
    <3>1. \A e \in scan : VerdictOf(e).verdict \in Verdicts
      BY <1>2
    <3>2. PICK G : Sums(G, tally, Verdicts) /\ G[Verdicts] = Cardinality(scan)
      BY <1>1, <2>1, <3>1, TallyAdds
    <3>3. MapThenSumSet(LAMBDA v : tally[v], Verdicts) = G[Verdicts]
      BY <3>2, VerdictsAreFinite, SumIs
    <3>. QED
      BY <3>2, <3>3
  <2>. QED
    BY <2>1, <2>2
<1>4. ASSUME NEW asked \in {None, "impossible"}, NEW limit \in Nat,
             NEW flags \in FlagAnswers(scan, asked, limit), NEW e \in scan \ flags,
             VerdictOf(e).verdict = "impossible"
      PROVE  /\ Cardinality(flags) = limit
             /\ \A f \in flags : /\ VerdictOf(f).verdict = "impossible"
                                 /\ VerdictOf(f).gap >= VerdictOf(e).gap
  <2>. DEFINE all == Flagged(scan, asked)
  <2>1. /\ flags \in kSubset(Min({limit, Cardinality(all)}), all)
        /\ \A a \in flags, b \in all \ flags : ~ Stronger(b, a)
    BY DEF FlagAnswers, Some
  <2>2. flags \subseteq all /\ Cardinality(flags) = Min({limit, Cardinality(all)})
    BY <2>1 DEF kSubset
  <2>3. all \subseteq scan /\ e \in all /\ \A f \in all : VerdictOf(f).verdict \in {"impossible", "implausible"}
    BY <1>4 DEF Flagged
  <2>. HIDE DEF all
  <2>4. IsFiniteSet(all) /\ Cardinality(all) \in Nat
    BY <1>1, <2>3, FS_Subset, FS_CardinalityType
  <2>5. Cardinality(flags) # Cardinality(all)
    BY <2>2, <2>3, <2>4, FS_Subset
  <2>6. Cardinality(flags) = limit
    <3>1. limit \in Int /\ Cardinality(all) \in Int
      BY <2>4
    <3>2. Min({limit, Cardinality(all)}) \in {limit, Cardinality(all)}
      BY <3>1, OfTwo, Zenon
    <3>. QED
      BY <2>2, <2>5, <3>2
  <2>7. ASSUME NEW f \in flags
        PROVE  VerdictOf(f).verdict = "impossible" /\ VerdictOf(f).gap >= VerdictOf(e).gap
    <3>1. ~ Stronger(e, f) /\ f \in scan
      BY <2>1, <2>2, <2>3
    <3>2. /\ VerdictOf(f).verdict \in {"impossible", "implausible"}
          /\ VerdictOf(f).gap \in Int /\ VerdictOf(f).gap # None
          /\ VerdictOf(e).gap \in Int /\ VerdictOf(e).gap # None
      BY <1>2, <1>4, <2>2, <2>3
    <3>. DEFINE Tier(edge) == CHOOSE i \in 1..3 : <<"impossible", "implausible", "ok">>[i] = edge.verdict
    <3>3. Tier(VerdictOf(e)) = 1
      BY <1>4
    <3>4. /\ VerdictOf(f).verdict = "impossible" => Tier(VerdictOf(f)) = 1
          /\ VerdictOf(f).verdict = "implausible" => Tier(VerdictOf(f)) = 2
      OBVIOUS
    <3>. HIDE DEF Tier
    <3>5. Stronger(e, f) <=>
            \/ Tier(VerdictOf(e)) < Tier(VerdictOf(f))
            \/ Tier(VerdictOf(e)) = Tier(VerdictOf(f)) /\ VerdictOf(e).gap > VerdictOf(f).gap
      BY <3>2 DEF Stronger, Tier
    <3>. QED
      BY <3>1, <3>2, <3>3, <3>4, <3>5
  <2>. QED
    BY <2>6, <2>7
<1>5. \A asked \in {None, "impossible", "implausible", "ok"}, limit \in Nat :
        \A flags \in FlagAnswers(scan, asked, limit) :
            \A e \in scan \ flags : VerdictOf(e).verdict = "impossible" =>
                \/ asked \notin {None, "impossible"}
                \/ /\ Cardinality(flags) = limit
                   /\ \A f \in flags : /\ VerdictOf(f).verdict = "impossible"
                                        /\ VerdictOf(f).gap >= VerdictOf(e).gap
  BY <1>4
<1>. QED
  BY <1>3, <1>5 DEF CountedOnce, WorstFlagged

\* The termini of a chain of any length, the flags for any limit of the scan.
ChainsAttested == \A k \in Nat : \A chain \in [1..k -> Known] : Attested(chain)

LimitsHonest ==
    \A scan \in Scans(Known \X Known) :
        \A asked \in {None, "impossible", "implausible", "ok"}, limit \in Nat :
            WorstFlagged(scan.rows, asked, limit)

\* enrich-historical and the ingest write narrators' dates in any order: the copies
\* of the active window that read the resolved bounds agree, and the scan's copy
\* with them where there are no bounds; "impossible" is said of a pair only when no
\* filling of the missing years lets them meet; high-confidence termini are attested
\* deaths; the scan, given any _MAX_SCAN of the candidates, says when it leaves one
\* out, counts each of its rows once and drops no worse row for a lesser one.  For
\* chains of any length, for any limit and for any _MAX_SCAN.
THEOREM DatesDerived == OverlaySpec => [](DerivedDates /\ ChainsAttested /\ LimitsHonest)
<1>1. ASSUME OverlayTypeOK PROVE DerivedDates /\ ChainsAttested /\ LimitsHonest
  <2>1. ChainsAttested
    BY <1>1, HighHolds DEF ChainsAttested
  <2>2. \A scan \in Scans(Known \X Known) :
          /\ scan.truncated <=> scan.rows # Candidates(Known \X Known)
          /\ CountedOnce(scan.rows)
          /\ \A asked \in {None, "impossible", "implausible", "ok"}, limit \in Nat :
                 WorstFlagged(scan.rows, asked, limit)
    <3>. SUFFICES ASSUME NEW scan \in Scans(Known \X Known)
                  PROVE  /\ scan.truncated <=> scan.rows # Candidates(Known \X Known)
                         /\ CountedOnce(scan.rows)
                         /\ \A asked \in {None, "impossible", "implausible", "ok"}, limit \in Nat :
                                WorstFlagged(scan.rows, asked, limit)
      OBVIOUS
    <3>1. scan.rows \in SUBSET (Known \X Known) /\ IsFiniteSet(scan.rows)
      BY <1>1, ScanIs
    <3>. QED
      BY <1>1, <3>1, ScanIs, ScanHolds
  <2>3. HighIsAttested
    <3>1. \A k \in 1..3 : k \in Nat
      OBVIOUS
    <3>. SUFFICES ASSUME NEW k \in 1..3, NEW chain \in [1..k -> Known] PROVE Attested(chain)
      BY DEF HighIsAttested
    <3>. QED
      BY <2>1, <3>1 DEF ChainsAttested
  <2>4. ScanHonest
    <3>1. \A limit \in 1..2 : limit \in Nat
      OBVIOUS
    <3>. QED
      BY <2>2, <3>1, Zenon DEF ScanHonest
  <2>. QED
    BY <1>1, <2>1, <2>2, <2>3, <2>4, WindowsHold, ImpossibleHolds DEF DerivedDates, LimitsHonest
<1>2. OverlayInv => DerivedDates /\ ChainsAttested /\ LimitsHonest
  BY <1>1 DEF OverlayInv
<1>. QED
  BY <1>2, OverlayHolds, PTL

-----------------------------------------------------------------------------
(* The load: what a job has fetched and not yet written, what it has        *)
(* mirrored for the chunk it is at, and what a job that is alone has done.  *)

OnlyOne == \A j, k \in Loading : load[j].alone => j = k

ChunkIsFetched ==
    \A j \in Jobs : load[j].st \in {"hadiths", "embeddings"} =>
        \A h \in load[j].chunk : load[j].rows[h] # Missing

ChunkIsMirrored ==
    \A j \in Jobs : load[j].st = "embeddings" =>
        \A h \in load[j].chunk :
            mirror[h] # Missing /\ (load[j].alone => mirror[h] = load[j].rows[h])

MirroredFirst == Embedded \subseteq Mirrored

NoLongerStale == \A j \in Jobs : load[j].st \in {"schema", "read"} => load[j].stale = {}

\* Hadith h of the job l is in Postgres as it is in the graph.
Copied(l, h, m, v) ==
    /\ m[h] = graph[h]
    /\ EmbeddingText(graph[h]) # EmptyText => v[h] = [text |-> EmbeddingText(graph[h]), by |-> l.by]

LeftOrCopied ==
    \A j \in Jobs : load[j].st \in {"hadiths", "embeddings"} /\ load[j].alone =>
        \A h \in load[j].scope \ load[j].stale : graph[h] # Missing =>
            \/ load[j].rows[h] = graph[h]
            \/ load[j].rows[h] = Missing /\ Copied(load[j], h, mirror, vectors)

LoadIInv ==
    /\ LoadTypeOK /\ OnlyOne /\ ChunkIsFetched /\ ChunkIsMirrored /\ MirroredFirst
    /\ NoLongerStale /\ LeftOrCopied /\ VectorsFollowMirror /\ OneWidth

LEMMA NextChunkIs ==
    ASSUME NEW l \in Load, NEW rows \in [Hadiths -> Matns \cup {Missing}],
           NEW n \in NextChunk(l, rows)
    PROVE  /\ n \in Load /\ n.rows = rows /\ n.by = l.by /\ n.scope = l.scope
           /\ n.alone = l.alone /\ n.st \in {"done", "hadiths"}
           /\ n.st = "hadiths" => n.stale = l.stale /\ \A h \in n.chunk : rows[h] # Missing
           /\ n.st = "done" => \A h \in Hadiths : rows[h] = Missing
<1>. DEFINE left == {h \in Hadiths : rows[h] # Missing}
<1>1. CASE left = {}
  <2>1. n = [l EXCEPT !.st = "done", !.rows = rows, !.chunk = {}, !.stale = {}]
    BY <1>1 DEF NextChunk
  <2>. QED
    BY <1>1, <2>1 DEF Load
<1>2. CASE left # {}
  <2>1. PICK c \in SUBSET left :
           n = [l EXCEPT !.st = "hadiths", !.rows = rows, !.chunk = c]
    BY <1>2 DEF NextChunk
  <2>2. c \in SUBSET Hadiths
    OBVIOUS
  <2>3. \A h \in c : rows[h] # Missing
    OBVIOUS
  <2>. HIDE DEF left
  <2>. QED
    BY <2>1, <2>2, <2>3 DEF Load
<1>. QED
  BY <1>1, <1>2

LEMMA LoadInitInv == LoadInit => LoadIInv
<1>. SUFFICES ASSUME LoadInit PROVE LoadIInv
  OBVIOUS
<1>1. (CHOOSE e \in Embedders : TRUE) \in Embedders
  BY LoadAssumption
<1>2. \A j \in Jobs : load[j].st = "idle" /\ load[j] \in Load
  BY <1>1 DEF LoadInit, Load, NoRows
<1>3. LoadTypeOK
  BY <1>2 DEF LoadInit, LoadTypeOK, NoRows
<1>4. Embedded = {}
  BY DEF LoadInit, Embedded, NoRows
<1>5. Loading = {}
  BY <1>2 DEF Loading
<1>. QED
  BY <1>2, <1>3, <1>4, <1>5 DEF LoadIInv, OnlyOne, ChunkIsFetched, ChunkIsMirrored, MirroredFirst,
     NoLongerStale, LeftOrCopied, VectorsFollowMirror, OneWidth

\* One job's step leaves the others as they are.
LEMMA OneJobMoves ==
    ASSUME LoadTypeOK, NEW j \in Jobs, NEW n \in Load, load' = [load EXCEPT ![j] = n]
    PROVE  /\ load' \in [Jobs -> Load] /\ load'[j] = n
           /\ \A k \in Jobs \ {j} : load'[k] = load[k]
BY DEF LoadTypeOK

\* Steps that write no table and move no job into or out of its vectors.
LEMMA NothingWritten ==
    ASSUME LoadTypeOK, VectorsFollowMirror, MirroredFirst, UNCHANGED <<mirror, vectors, torn>>,
           load' \in [Jobs -> Load],
           \A k \in Jobs : /\ load'[k].st = "embeddings" <=> load[k].st = "embeddings"
                           /\ load[k].st = "embeddings" => load'[k].chunk = load[k].chunk
    PROVE  VectorsFollowMirror' /\ MirroredFirst'
<1>1. Between' = Between
  BY DEF Between
<1>2. Embedded' = Embedded /\ Mirrored' = Mirrored
  BY DEF Embedded, Mirrored
<1>. QED
  BY <1>1, <1>2 DEF VectorsFollowMirror, MirroredFirst, Embedded

LEMMA EmbedHadithsKeeps ==
    ASSUME LoadIInv, NEW j \in Jobs, NEW e \in Embedders, NEW scope \in SUBSET Hadiths,
           EmbedHadiths(j, e, scope)
    PROVE  LoadIInv'
<1>. USE DEF LoadIInv
<1>. DEFINE n == [st |-> "schema", by |-> e, scope |-> scope, rows |-> NoRows,
                  chunk |-> {}, stale |-> {}, alone |-> Loading = {}]
<1>1. n \in Load /\ n.st = "schema" /\ n.stale = {} /\ n.alone = (Loading = {})
  BY DEF Load, NoRows
<1>2. /\ load' = [k \in Jobs |-> IF k = j THEN n ELSE [load[k] EXCEPT !.alone = FALSE]]
      /\ UNCHANGED <<graph, mirror, vectors, width, torn>> /\ j \notin Loading
  BY DEF EmbedHadiths
<1>. HIDE DEF n
<1>3. load'[j] = n /\ \A k \in Jobs \ {j} :
         /\ load'[k] \in Load /\ ~ load'[k].alone /\ load'[k].st = load[k].st
         /\ load'[k].rows = load[k].rows /\ load'[k].chunk = load[k].chunk
         /\ load'[k].stale = load[k].stale
  <2>1. load'[j] = n
    BY <1>2
  <2>2. ASSUME NEW k \in Jobs \ {j}
        PROVE  load[k] \in Load /\ load'[k] = [load[k] EXCEPT !.alone = FALSE]
    BY <1>2, <2>2 DEF LoadTypeOK
  <2>. QED
    BY <2>1, <2>2 DEF Load
<1>4. load' \in [Jobs -> Load]
  BY <1>1, <1>2, <1>3
<1>5. load[j].st # "embeddings"
  BY <1>2 DEF Loading
<1>6. LoadTypeOK'
  BY <1>2, <1>4 DEF LoadTypeOK
<1>7. VectorsFollowMirror' /\ MirroredFirst'
  BY <1>1, <1>2, <1>3, <1>4, <1>5, NothingWritten
<1>8. OnlyOne'
  BY <1>1, <1>3 DEF OnlyOne, Loading
<1>9. OneWidth'
  BY <1>2 DEF OneWidth, Embedded
<1>. QED
  BY <1>1, <1>2, <1>3, <1>6, <1>7, <1>8, <1>9 DEF ChunkIsFetched, ChunkIsMirrored, NoLongerStale,
     LeftOrCopied

LEMMA EnsureSchemaKeeps ==
    ASSUME LoadIInv, NEW j \in Jobs, EnsureEmbeddingSchema(j)
    PROVE  LoadIInv'
<1>. USE DEF LoadIInv
<1>. DEFINE n == [load[j] EXCEPT !.st = "read"]
<1>1. /\ load[j] \in Load /\ n \in Load /\ n.st = "read" /\ n.alone = load[j].alone
      /\ n.stale = load[j].stale
  BY DEF LoadTypeOK, Load
<1>2. /\ load' = [load EXCEPT ![j] = n] /\ load[j].st = "schema"
      /\ UNCHANGED <<graph, mirror, vectors, torn>>
      /\ width' = IF width = Missing THEN DimOf[load[j].by] ELSE width
  BY <1>1 DEF EnsureEmbeddingSchema, LoadTypeOK
<1>. HIDE DEF n
<1>3. load' \in [Jobs -> Load] /\ load'[j] = n /\ \A k \in Jobs \ {j} : load'[k] = load[k]
  BY <1>1, <1>2, OneJobMoves
<1>4. LoadTypeOK'
  BY <1>1, <1>2, <1>3 DEF LoadTypeOK, Load
<1>5. VectorsFollowMirror' /\ MirroredFirst'
  BY <1>1, <1>2, <1>3, NothingWritten
<1>6. OnlyOne'
  BY <1>1, <1>2, <1>3 DEF OnlyOne, Loading
<1>7. OneWidth'
  <2>1. width = Missing => Embedded = {}
    BY LoadAssumption DEF OneWidth, Embedded, LoadTypeOK
  <2>2. Embedded' = Embedded
    BY <1>2 DEF Embedded
  <2>. QED
    BY <1>2, <2>1, <2>2 DEF OneWidth
<1>. QED
  BY <1>1, <1>2, <1>3, <1>4, <1>5, <1>6, <1>7 DEF ChunkIsFetched, ChunkIsMirrored, NoLongerStale,
     LeftOrCopied, Copied

LEMMA FetchKeeps ==
    ASSUME LoadIInv, NEW j \in Jobs, FetchHadiths(j)
    PROVE  LoadIInv'
<1>. USE DEF LoadIInv
<1>. DEFINE rows == [h \in Hadiths |-> IF h \in load[j].scope THEN graph[h] ELSE Missing]
<1>1. load[j] \in Load /\ rows \in [Hadiths -> Matns \cup {Missing}]
  BY DEF LoadTypeOK
<1>2. PICK n \in NextChunk(load[j], rows) : load' = [load EXCEPT ![j] = n]
  BY DEF FetchHadiths
<1>3. load[j].st = "read" /\ UNCHANGED <<graph, mirror, vectors, width, torn>>
  BY DEF FetchHadiths
<1>4. \A h \in load[j].scope : h \in Hadiths => rows[h] = graph[h]
  OBVIOUS
<1>5. load[j].scope \subseteq Hadiths
  BY <1>1 DEF Load
<1>. HIDE DEF rows
<1>6. /\ n \in Load /\ n.rows = rows /\ n.scope = load[j].scope
      /\ n.alone = load[j].alone /\ n.st \in {"done", "hadiths"}
      /\ n.st = "hadiths" => \A h \in n.chunk : rows[h] # Missing
  BY <1>1, <1>2, NextChunkIs
<1>7. load' \in [Jobs -> Load] /\ load'[j] = n /\ \A k \in Jobs \ {j} : load'[k] = load[k]
  BY <1>2, <1>6, OneJobMoves
<1>8. LoadTypeOK'
  BY <1>3, <1>7 DEF LoadTypeOK
<1>9. VectorsFollowMirror' /\ MirroredFirst'
  BY <1>3, <1>6, <1>7, NothingWritten
<1>10. OnlyOne'
  BY <1>3, <1>6, <1>7 DEF OnlyOne, Loading
<1>11. OneWidth'
  BY <1>3 DEF OneWidth, Embedded
<1>12. ChunkIsFetched' /\ ChunkIsMirrored' /\ NoLongerStale'
  BY <1>3, <1>6, <1>7 DEF ChunkIsFetched, ChunkIsMirrored, NoLongerStale
<1>13. LeftOrCopied'
  BY <1>3, <1>4, <1>5, <1>6, <1>7 DEF LeftOrCopied, Copied
<1>. QED
  BY <1>8, <1>9, <1>10, <1>11, <1>12, <1>13

\* The hadiths of a chunk are written: those with a text wait for their vectors.
LEMMA UpsertHadithsKeeps ==
    ASSUME LoadIInv, NEW j \in Jobs, UpsertHadiths(j)
    PROVE  LoadIInv'
<1>. USE DEF LoadIInv
<1>. DEFINE l == load[j]
<1>1. l \in Load /\ l.st = "hadiths" /\ l.chunk \subseteq Hadiths
      /\ l.rows \in [Hadiths -> Matns \cup {Missing}]
  BY DEF LoadTypeOK, UpsertHadiths, Load
<1>2. \A h \in l.chunk : l.rows[h] # Missing
  BY <1>1 DEF ChunkIsFetched
<1>3. /\ mirror' = [h \in Hadiths |-> IF h \in l.chunk THEN l.rows[h] ELSE mirror[h]]
      /\ torn' = (IF l.alone THEN torn ELSE torn \cup Apart(mirror', vectors))
      /\ UNCHANGED <<graph, vectors, width>>
  BY DEF UpsertHadiths
<1>4. mirror' \in [Hadiths -> Matns \cup {Missing}]
      /\ \A h \in Hadiths : h \in l.chunk \/ mirror[h] # Missing => mirror'[h] # Missing
  BY <1>1, <1>2, <1>3 DEF LoadTypeOK
<1>5. torn' \subseteq Hadiths
  BY <1>3 DEF LoadTypeOK, Apart
<1>6. Written(l) \in [Hadiths -> Matns \cup {Missing}]
      /\ \A h \in Hadiths : Written(l)[h] = IF h \in l.chunk THEN Missing ELSE l.rows[h]
  BY <1>1 DEF Written
<1>7. \E n \in Load :
         /\ load' = [load EXCEPT ![j] = n]
         /\ n.by = l.by /\ n.scope = l.scope /\ n.alone = l.alone
         /\ \/ /\ WithText(l) = {} /\ n.rows = Written(l) /\ n.st \in {"done", "hadiths"}
               /\ n.st = "hadiths" => n.stale = l.stale /\ \A h \in n.chunk : n.rows[h] # Missing
            \/ /\ WithText(l) # {} /\ n.rows = l.rows /\ n.st = "embeddings"
               /\ n.stale = l.stale /\ n.chunk = l.chunk
  <2>1. CASE WithText(l) = {}
    <3>1. PICK n \in NextChunk(l, Written(l)) : load' = [load EXCEPT ![j] = n]
      BY <2>1 DEF UpsertHadiths
    <3>. HIDE DEF l
    <3>2. /\ n \in Load /\ n.rows = Written(l) /\ n.by = l.by /\ n.scope = l.scope
          /\ n.alone = l.alone /\ n.st \in {"done", "hadiths"}
          /\ n.st = "hadiths" => n.stale = l.stale /\ \A h \in n.chunk : Written(l)[h] # Missing
      BY <1>1, <1>6, NextChunkIs
    <3>. QED
      BY <2>1, <3>1, <3>2
  <2>2. CASE WithText(l) # {}
    <3>. DEFINE n == [l EXCEPT !.st = "embeddings"]
    <3>1. load' = [load EXCEPT ![j] = n]
      BY <2>2 DEF UpsertHadiths, LoadTypeOK
    <3>2. n \in Load /\ n.by = l.by /\ n.scope = l.scope /\ n.alone = l.alone /\ n.rows = l.rows
          /\ n.st = "embeddings" /\ n.stale = l.stale /\ n.chunk = l.chunk
      BY <1>1 DEF Load
    <3>. HIDE DEF n, l
    <3>. QED
      BY <2>2, <3>1, <3>2
  <2>. QED
    BY <2>1, <2>2
<1>8. PICK n \in Load :
         /\ load' = [load EXCEPT ![j] = n]
         /\ n.by = l.by /\ n.scope = l.scope /\ n.alone = l.alone
         /\ \/ /\ WithText(l) = {} /\ n.rows = Written(l) /\ n.st \in {"done", "hadiths"}
               /\ n.st = "hadiths" => n.stale = l.stale /\ \A h \in n.chunk : n.rows[h] # Missing
            \/ /\ WithText(l) # {} /\ n.rows = l.rows /\ n.st = "embeddings"
               /\ n.stale = l.stale /\ n.chunk = l.chunk
  BY <1>7
<1>9. load' \in [Jobs -> Load] /\ load'[j] = n /\ \A k \in Jobs \ {j} : load'[k] = load[k]
  BY <1>8, OneJobMoves
<1>10. LoadTypeOK'
  BY <1>3, <1>4, <1>5, <1>9 DEF LoadTypeOK
<1>11. j \in Loading /\ \A k \in Jobs \ {j} :
         k \in Loading => ~ load[k].alone /\ ~ l.alone
  BY <1>1 DEF OnlyOne, Loading
<1>12. OnlyOne'
  BY <1>8, <1>9, <1>11 DEF OnlyOne, Loading
<1>13. ChunkIsFetched'
  BY <1>1, <1>2, <1>8, <1>9 DEF ChunkIsFetched
<1>14. ChunkIsMirrored'
  <2>1. ASSUME NEW k \in Jobs \ {j}, load[k].st = "embeddings", NEW h \in load[k].chunk
        PROVE  mirror'[h] # Missing /\ ~ load[k].alone
    <3>1. mirror[h] # Missing /\ h \in Hadiths
      BY <2>1 DEF ChunkIsMirrored, LoadTypeOK, Load
    <3>2. k \in Loading
      BY <2>1 DEF Loading
    <3>. QED
      BY <1>4, <1>11, <3>1, <3>2
  <2>2. \A h \in l.chunk : mirror'[h] = l.rows[h]
    BY <1>1, <1>3
  <2>. QED
    BY <1>2, <1>8, <1>9, <2>1, <2>2 DEF ChunkIsMirrored
<1>15. MirroredFirst'
  BY <1>3, <1>4 DEF MirroredFirst, Embedded, Mirrored
<1>16. NoLongerStale'
  BY <1>8, <1>9 DEF NoLongerStale
<1>17. OneWidth'
  BY <1>3 DEF OneWidth, Embedded
<1>18. LeftOrCopied'
  <2>. SUFFICES ASSUME NEW k \in Jobs, load'[k].st \in {"hadiths", "embeddings"}, load'[k].alone,
                       NEW h \in load'[k].scope \ load'[k].stale, graph[h] # Missing
                PROVE  \/ load'[k].rows[h] = graph[h]
                       \/ load'[k].rows[h] = Missing /\ Copied(load'[k], h, mirror', vectors')
    BY <1>3 DEF LeftOrCopied, Copied
  <2>1. k = j
    BY <1>9, <1>11 DEF Loading
  <2>2. h \in l.scope \ l.stale /\ l.alone /\ h \in Hadiths
    BY <1>1, <1>8, <1>9, <2>1 DEF Load
  <2>3. \/ l.rows[h] = graph[h]
        \/ l.rows[h] = Missing /\ Copied(l, h, mirror, vectors)
    BY <1>1, <2>2 DEF LeftOrCopied
  <2>4. CASE WithText(l) # {}
    <3>1. n.rows = l.rows /\ n.by = l.by
      BY <1>8, <2>4
    <3>2. l.rows[h] = Missing => mirror'[h] = mirror[h]
      BY <1>2, <1>3, <2>2
    <3>. QED
      BY <1>3, <1>9, <2>1, <2>3, <3>1, <3>2 DEF Copied
  <2>5. CASE WithText(l) = {} /\ h \in l.chunk
    <3>1. n.rows[h] = Missing /\ mirror'[h] = l.rows[h] /\ l.rows[h] # Missing
      BY <1>2, <1>3, <1>6, <1>8, <2>2, <2>5
    <3>2. EmbeddingText(l.rows[h]) = EmptyText
      BY <2>5 DEF WithText
    <3>. QED
      BY <1>9, <2>1, <2>3, <3>1, <3>2 DEF Copied
  <2>6. CASE WithText(l) = {} /\ h \notin l.chunk
    <3>1. n.rows[h] = l.rows[h] /\ mirror'[h] = mirror[h] /\ n.by = l.by
      BY <1>3, <1>6, <1>8, <2>2, <2>6
    <3>. QED
      BY <1>3, <1>9, <2>1, <2>3, <3>1 DEF Copied
  <2>. QED
    BY <2>4, <2>5, <2>6
<1>19. VectorsFollowMirror'
  <2>. SUFFICES ASSUME NEW h \in Hadiths, vectors[h] # Missing, h \notin torn', h \notin Between'
                PROVE  mirror'[h] # Missing /\ EmbeddingText(mirror'[h]) \in {vectors[h].text, EmptyText}
    BY <1>3 DEF VectorsFollowMirror, Embedded
  <2>1. mirror[h] # Missing /\ mirror'[h] # Missing
    BY <1>4 DEF MirroredFirst, Embedded, Mirrored
  <2>2. CASE ~ l.alone
    BY <1>3, <2>1, <2>2 DEF Apart
  <2>3. CASE l.alone /\ h \notin l.chunk
    <3>1. h \notin Between
      BY <1>1, <1>11, <2>3 DEF Between, Loading
    <3>2. h \notin torn /\ mirror'[h] = mirror[h]
      BY <1>3, <2>3
    <3>. QED
      BY <2>1, <3>1, <3>2 DEF VectorsFollowMirror, Embedded
  <2>4. CASE l.alone /\ h \in l.chunk
    <3>1. load'[j].st = "embeddings" => h \in Between'
      BY <1>8, <1>9, <2>4 DEF Between
    <3>2. WithText(l) = {}
      BY <1>8, <1>9, <3>1
    <3>3. mirror'[h] = l.rows[h]
      BY <1>3, <2>4
    <3>. QED
      BY <2>1, <2>4, <3>2, <3>3 DEF WithText
  <2>. QED
    BY <2>2, <2>3, <2>4
<1>. QED
  BY <1>10, <1>12, <1>13, <1>14, <1>15, <1>16, <1>17, <1>18, <1>19

\* The vectors of a chunk are written.
LEMMA UpsertEmbeddingsKeeps ==
    ASSUME LoadIInv, NEW j \in Jobs, UpsertEmbeddings(j)
    PROVE  LoadIInv'
<1>. USE DEF LoadIInv
<1>. DEFINE l == load[j]
            Vector(h) == [text |-> EmbeddingText(l.rows[h]), by |-> l.by]
<1>1. l \in Load /\ l.st = "embeddings" /\ l.chunk \subseteq Hadiths /\ l.by \in Embedders
      /\ l.rows \in [Hadiths -> Matns \cup {Missing}] /\ DimOf[l.by] = width
  BY DEF LoadTypeOK, UpsertEmbeddings, Load
<1>2. \A h \in l.chunk : /\ l.rows[h] # Missing /\ mirror[h] # Missing
                         /\ l.alone => mirror[h] = l.rows[h]
  BY <1>1 DEF ChunkIsFetched, ChunkIsMirrored
<1>3. /\ vectors' = [h \in Hadiths |-> IF h \in WithText(l) THEN Vector(h) ELSE vectors[h]]
      /\ torn' = (IF l.alone THEN torn \ WithText(l) ELSE torn \cup Apart(mirror, vectors'))
      /\ UNCHANGED <<graph, mirror, width>>
  BY DEF UpsertEmbeddings
<1>4. WithText(l) \subseteq l.chunk /\ \A h \in WithText(l) :
         EmbeddingText(l.rows[h]) \in Texts /\ Vector(h) \in [text : Texts, by : Embedders]
         /\ Vector(h).text = EmbeddingText(l.rows[h]) /\ Vector(h).by = l.by
  BY <1>1, <1>2 DEF WithText, Texts
<1>5. PICK n \in NextChunk(l, Written(l)) : load' = [load EXCEPT ![j] = n]
  BY DEF UpsertEmbeddings
<1>6. Written(l) \in [Hadiths -> Matns \cup {Missing}]
      /\ \A h \in Hadiths : Written(l)[h] = IF h \in l.chunk THEN Missing ELSE l.rows[h]
  BY <1>1 DEF Written
<1>. HIDE DEF l, Vector
<1>7. /\ n \in Load /\ n.rows = Written(l) /\ n.by = l.by /\ n.scope = l.scope
      /\ n.alone = l.alone /\ n.st \in {"done", "hadiths"}
      /\ n.st = "hadiths" => n.stale = l.stale /\ \A h \in n.chunk : Written(l)[h] # Missing
  BY <1>1, <1>5, <1>6, NextChunkIs
<1>8. load' \in [Jobs -> Load] /\ load'[j] = n /\ \A k \in Jobs \ {j} : load'[k] = load[k]
  BY <1>5, <1>7, OneJobMoves
<1>9. j \in Loading /\ \A k \in Jobs \ {j} :
         k \in Loading => ~ load[k].alone /\ ~ l.alone
  BY <1>1 DEF OnlyOne, Loading, l
<1>10. LoadTypeOK'
  <2>1. vectors' \in [Hadiths -> [text : Texts, by : Embedders] \cup {Missing}]
    BY <1>3, <1>4 DEF LoadTypeOK
  <2>2. torn' \subseteq Hadiths
    BY <1>3 DEF LoadTypeOK, Apart
  <2>. QED
    BY <1>3, <1>8, <2>1, <2>2 DEF LoadTypeOK
<1>11. OnlyOne'
  BY <1>7, <1>8, <1>9 DEF OnlyOne, Loading
<1>12. ChunkIsFetched' /\ NoLongerStale' /\ ChunkIsMirrored'
  BY <1>3, <1>7, <1>8 DEF ChunkIsFetched, NoLongerStale, ChunkIsMirrored
<1>13. MirroredFirst'
  <2>1. \A h \in Hadiths : vectors'[h] # Missing => h \in WithText(l) \/ vectors[h] # Missing
    BY <1>3
  <2>. QED
    BY <1>2, <1>3, <1>4, <2>1 DEF MirroredFirst, Embedded, Mirrored
<1>14. OneWidth'
  BY <1>1, <1>3, <1>4 DEF OneWidth, Embedded
<1>15. LeftOrCopied'
  <2>. SUFFICES ASSUME NEW k \in Jobs, load'[k].st \in {"hadiths", "embeddings"}, load'[k].alone,
                       NEW h \in load'[k].scope \ load'[k].stale, graph[h] # Missing
                PROVE  \/ load'[k].rows[h] = graph[h]
                       \/ load'[k].rows[h] = Missing /\ Copied(load'[k], h, mirror', vectors')
    BY <1>3 DEF LeftOrCopied, Copied
  <2>1. k = j
    BY <1>8, <1>9 DEF Loading
  <2>2. h \in l.scope \ l.stale /\ l.alone /\ h \in Hadiths
    BY <1>1, <1>7, <1>8, <2>1 DEF Load
  <2>3. \/ l.rows[h] = graph[h]
        \/ l.rows[h] = Missing /\ Copied(l, h, mirror, vectors)
    BY <1>1, <2>2 DEF LeftOrCopied, l
  <2>4. CASE h \in l.chunk
    <3>1. l.rows[h] = graph[h] /\ mirror[h] = graph[h] /\ n.rows[h] = Missing
      BY <1>2, <1>6, <1>7, <2>2, <2>3, <2>4
    <3>2. EmbeddingText(graph[h]) # EmptyText => h \in WithText(l)
      BY <2>4, <3>1 DEF WithText
    <3>3. h \in WithText(l) => vectors'[h] = [text |-> EmbeddingText(graph[h]), by |-> l.by]
      BY <1>3, <2>2, <3>1 DEF Vector
    <3>. QED
      BY <1>3, <1>7, <1>8, <2>1, <3>1, <3>2, <3>3 DEF Copied
  <2>5. CASE h \notin l.chunk
    <3>1. n.rows[h] = l.rows[h] /\ vectors'[h] = vectors[h] /\ mirror'[h] = mirror[h] /\ n.by = l.by
      BY <1>3, <1>4, <1>6, <1>7, <2>2, <2>5
    <3>. QED
      BY <1>8, <2>1, <2>3, <3>1 DEF Copied
  <2>. QED
    BY <2>4, <2>5
<1>16. VectorsFollowMirror'
  <2>. SUFFICES ASSUME NEW h \in Hadiths, vectors'[h] # Missing, h \notin torn', h \notin Between'
                PROVE  mirror[h] # Missing /\ EmbeddingText(mirror[h]) \in {vectors'[h].text, EmptyText}
    BY <1>3 DEF VectorsFollowMirror, Embedded
  <2>1. mirror[h] # Missing
    BY <1>3, <1>13 DEF MirroredFirst, Embedded, Mirrored
  <2>2. CASE ~ l.alone
    BY <1>3, <2>1, <2>2 DEF Apart
  <2>3. CASE l.alone /\ h \in WithText(l)
    BY <1>2, <1>3, <1>4, <2>1, <2>3
  <2>4. CASE l.alone /\ h \in l.chunk /\ h \notin WithText(l)
    BY <1>2, <2>1, <2>4 DEF WithText
  <2>5. CASE l.alone /\ h \notin l.chunk
    <3>1. h \notin Between
      BY <1>9, <2>5 DEF Between, Loading, l
    <3>2. h \notin torn /\ vectors'[h] = vectors[h]
      BY <1>3, <1>4, <2>5
    <3>. QED
      BY <2>1, <3>1, <3>2 DEF VectorsFollowMirror, Embedded
  <2>. QED
    BY <2>2, <2>3, <2>4, <2>5
<1>. QED
  BY <1>10, <1>11, <1>12, <1>13, <1>14, <1>15, <1>16

LEMMA LoadFailsKeeps ==
    ASSUME LoadIInv, NEW j \in Jobs, LoadFails(j)
    PROVE  LoadIInv'
<1>. USE DEF LoadIInv
<1>. DEFINE n == [load[j] EXCEPT !.st = "failed", !.rows = NoRows, !.chunk = {},
                                 !.stale = {}, !.alone = FALSE]
<1>1. n \in Load /\ n.st = "failed"
  BY DEF LoadTypeOK, Load, NoRows
<1>2. /\ load' = [load EXCEPT ![j] = n] /\ UNCHANGED <<graph, mirror, vectors, width>>
      /\ torn' = torn \cup Apart(mirror, vectors)
  BY DEF LoadFails, LoadTypeOK
<1>. HIDE DEF n
<1>3. load' \in [Jobs -> Load] /\ load'[j] = n /\ \A k \in Jobs \ {j} : load'[k] = load[k]
  BY <1>1, <1>2, OneJobMoves
<1>4. LoadTypeOK'
  BY <1>2, <1>3 DEF LoadTypeOK, Apart
<1>5. VectorsFollowMirror'
  BY <1>2 DEF VectorsFollowMirror, MirroredFirst, Mirrored, Embedded, Apart
<1>6. OnlyOne'
  BY <1>1, <1>3 DEF OnlyOne, Loading
<1>. QED
  BY <1>1, <1>2, <1>3, <1>4, <1>5, <1>6 DEF ChunkIsFetched, ChunkIsMirrored, MirroredFirst, Mirrored,
     Embedded, OneWidth, NoLongerStale, LeftOrCopied, Copied

LEMMA IngestHadithKeeps ==
    ASSUME LoadIInv, NEW h \in Hadiths, NEW m \in Matns \cup {Missing}, IngestHadith(h, m)
    PROVE  LoadIInv'
<1>. USE DEF LoadIInv
<1>1. /\ graph' = [graph EXCEPT ![h] = m] /\ UNCHANGED <<mirror, vectors, width, torn>>
      /\ load' = [j \in Jobs |-> IF load[j].st \in {"hadiths", "embeddings"}
                                 THEN [load[j] EXCEPT !.stale = @ \cup {h}] ELSE load[j]]
  BY DEF IngestHadith
<1>2. \A j \in Jobs : load'[j] = IF load[j].st \in {"hadiths", "embeddings"}
                                 THEN [load[j] EXCEPT !.stale = @ \cup {h}] ELSE load[j]
  BY <1>1
<1>3. ASSUME NEW j \in Jobs
      PROVE  /\ load'[j] \in Load /\ load'[j].st = load[j].st /\ load'[j].by = load[j].by
             /\ load'[j].scope = load[j].scope /\ load'[j].rows = load[j].rows
             /\ load'[j].chunk = load[j].chunk /\ load'[j].alone = load[j].alone
             /\ load'[j].stale = IF load[j].st \in {"hadiths", "embeddings"}
                                THEN load[j].stale \cup {h} ELSE load[j].stale
  <2>1. load[j] \in Load
    BY DEF LoadTypeOK
  <2>2. CASE load[j].st \in {"hadiths", "embeddings"}
    <3>1. load'[j] = [load[j] EXCEPT !.stale = @ \cup {h}]
      BY <1>2, <2>2
    <3>. QED
      BY <2>1, <2>2, <3>1 DEF Load
  <2>3. CASE load[j].st \notin {"hadiths", "embeddings"}
    BY <1>2, <2>1, <2>3
  <2>. QED
    BY <2>2, <2>3
<1>4. load' \in [Jobs -> Load]
  BY <1>1, <1>3
<1>5. LoadTypeOK'
  BY <1>1, <1>4 DEF LoadTypeOK
<1>6. VectorsFollowMirror' /\ MirroredFirst'
  BY <1>1, <1>3, <1>4, NothingWritten
<1>7. OnlyOne'
  BY <1>3 DEF OnlyOne, Loading
<1>8. ChunkIsFetched' /\ ChunkIsMirrored' /\ NoLongerStale'
  BY <1>1, <1>3 DEF ChunkIsFetched, ChunkIsMirrored, NoLongerStale
<1>9. OneWidth'
  BY <1>1 DEF OneWidth, Embedded
<1>10. \A g \in Hadiths \ {h} : graph'[g] = graph[g]
  BY <1>1 DEF LoadTypeOK
<1>11. LeftOrCopied'
  <2>. SUFFICES ASSUME NEW k \in Jobs, load'[k].st \in {"hadiths", "embeddings"}, load'[k].alone,
                       NEW g \in load'[k].scope \ load'[k].stale, graph'[g] # Missing
                PROVE  \/ load'[k].rows[g] = graph'[g]
                       \/ /\ load'[k].rows[g] = Missing
                          /\ mirror'[g] = graph'[g]
                          /\ EmbeddingText(graph'[g]) # EmptyText =>
                                vectors'[g] = [text |-> EmbeddingText(graph'[g]), by |-> load'[k].by]
    BY DEF LeftOrCopied, Copied
  <2>1. g \in load[k].scope \ load[k].stale /\ g # h /\ g \in Hadiths
    BY <1>3 DEF Load
  <2>2. graph'[g] = graph[g]
    BY <1>10, <2>1
  <2>. QED
    BY <1>1, <1>3, <2>1, <2>2 DEF LeftOrCopied, Copied
<1>. QED
  BY <1>5, <1>6, <1>7, <1>8, <1>9, <1>11

LEMMA LoadStepInv == LoadIInv /\ [LoadNext]_loadVars => LoadIInv'
<1>1. ASSUME LoadIInv, UNCHANGED loadVars PROVE LoadIInv'
  BY <1>1 DEF loadVars, LoadIInv, LoadTypeOK, OnlyOne, Loading, ChunkIsFetched, ChunkIsMirrored,
     MirroredFirst, Mirrored, Embedded, NoLongerStale, LeftOrCopied, Copied, VectorsFollowMirror,
     Between, OneWidth
<1>2. Scopes \subseteq SUBSET Hadiths
  BY LoadAssumption
<1>. QED
  BY <1>1, <1>2, EmbedHadithsKeeps, EnsureSchemaKeeps, FetchKeeps, UpsertHadithsKeeps,
     UpsertEmbeddingsKeeps, LoadFailsKeeps, IngestHadithKeeps DEF LoadNext

LEMMA AlwaysLoadIInv == LoadSpec => []LoadIInv
BY LoadInitInv, LoadStepInv, PTL DEF LoadSpec

\* As vectors are only of mirrored hadiths, equal counts with none left over mean
\* that the embeddable ones are embedded.
LEMMA CountsDecide == LoadIInv => GateCounts
<1>. SUFFICES ASSUME MirroredFirst, StructuralOk, \A h \in Embedded : Embeddable(mirror[h])
              PROVE  \A h \in Mirrored : Embeddable(mirror[h]) => h \in Embedded
  BY DEF LoadIInv, GateCounts
<1>. DEFINE S == {h \in Mirrored : Embeddable(mirror[h])}
<1>1. IsFiniteSet(S)
  BY LoadAssumption, FS_Subset DEF Mirrored
<1>2. Embedded \subseteq S /\ Cardinality(Embedded) = Cardinality(S)
  BY DEF MirroredFirst, StructuralOk
<1>3. Embedded = S
  BY <1>1, <1>2, FS_Subset
<1>. QED
  BY <1>3

\* embed-hadiths, with any overlaps, failures and re-runs: vectors of one width,
\* each of a mirrored hadith and made of its text unless two writes were torn
\* apart, and counts that only a vector left over can make agree.
THEOREM LoadHolds == LoadSpec => []LoadInv
<1>1. LoadIInv => LoadInv
  BY CountsDecide DEF LoadIInv, LoadInv
<1>. QED
  BY <1>1, AlwaysLoadIInv, PTL

\* A load that was alone leaves in Postgres what it had to read, whatever size its
\* chunks have: only what the ingest has changed since the fetch may differ.
THEOREM LoadIsWhole == LoadSpec => LoadIsComplete
<1>. DEFINE Finishes(j) == load[j].st \notin {"done", "idle"} /\ load'[j].st = "done" /\ load[j].alone
            There(j) == \A h \in load[j].scope \ load[j].stale : graph[h] # Missing =>
                           Copied(load[j], h, mirror', vectors')
            Whole == \A j \in Jobs : Finishes(j) => There(j)
<1>1. ASSUME LoadIInv, LoadNext, NEW j \in Jobs, Finishes(j)
      PROVE  There(j)
  <2>. USE <1>1 DEF LoadIInv
  <2>. DEFINE l == load[j]
  <2>1. l \in Load /\ load \in [Jobs -> Load] /\ l.scope \subseteq Hadiths
    BY DEF LoadTypeOK, Load
  <2>2. \A k \in Jobs \ {j}, n \in Load : load' = [load EXCEPT ![k] = n] => load'[j] = l
    BY <2>1
  <2>3. \/ FetchHadiths(j) \/ UpsertHadiths(j) \/ UpsertEmbeddings(j)
    <3>1. CASE \E k \in Jobs, e \in Embedders, scope \in Scopes : EmbedHadiths(k, e, scope)
      BY <2>1, <3>1 DEF EmbedHadiths, Load
    <3>2. CASE \E h \in Hadiths, m \in Matns \cup {Missing} : IngestHadith(h, m)
      BY <2>1, <3>2 DEF IngestHadith, Load
    <3>3. ASSUME NEW k \in Jobs, EnsureEmbeddingSchema(k) \/ LoadFails(k) PROVE FALSE
      <4>1. load[k] \in Load
        BY <2>1
      <4>2. PICK x \in Load : load' = [load EXCEPT ![k] = x] /\ x.st \in {"read", "failed"}
        BY <2>1, <3>3, <4>1 DEF EnsureEmbeddingSchema, LoadFails, Load, NoRows
      <4>. QED
        BY <2>1, <4>2
    <3>4. ASSUME NEW k \in Jobs \ {j}, FetchHadiths(k) \/ UpsertHadiths(k) \/ UpsertEmbeddings(k)
          PROVE  FALSE
      BY <2>1, <3>4 DEF FetchHadiths, UpsertHadiths, UpsertEmbeddings
    <3>. QED
      BY <3>1, <3>2, <3>3, <3>4 DEF LoadNext
  <2>4. CASE FetchHadiths(j)
    <3>. DEFINE rows == [h \in Hadiths |-> IF h \in l.scope THEN graph[h] ELSE Missing]
    <3>1. rows \in [Hadiths -> Matns \cup {Missing}]
      BY DEF LoadTypeOK
    <3>2. PICK n \in NextChunk(l, rows) : load' = [load EXCEPT ![j] = n]
      BY <2>4 DEF FetchHadiths
    <3>3. n.st = "done"
      BY <2>1, <3>2
    <3>4. \A h \in l.scope : rows[h] = graph[h]
      BY <2>1
    <3>. HIDE DEF rows
    <3>5. \A h \in Hadiths : rows[h] = Missing
      BY <2>1, <3>1, <3>2, <3>3, NextChunkIs
    <3>. QED
      BY <2>1, <3>4, <3>5
  <2>5. ASSUME UpsertHadiths(j) \/ UpsertEmbeddings(j)
        PROVE  /\ \A h \in Hadiths : h \notin l.chunk => l.rows[h] = Missing
               /\ UpsertHadiths(j) => WithText(l) = {}
    <3>1. Written(l) \in [Hadiths -> Matns \cup {Missing}]
      BY <2>1 DEF Written, Load
    <3>2. CASE UpsertHadiths(j) /\ WithText(l) # {}
      BY <2>1, <3>2 DEF UpsertHadiths, Load
    <3>3. PICK n \in NextChunk(l, Written(l)) : load' = [load EXCEPT ![j] = n]
      BY <2>5, <3>2 DEF UpsertHadiths, UpsertEmbeddings
    <3>4. n.st = "done"
      BY <2>1, <3>3
    <3>. HIDE DEF l
    <3>5. \A h \in Hadiths : Written(l)[h] = Missing
      BY <2>1, <3>1, <3>3, <3>4, NextChunkIs
    <3>6. \A h \in Hadiths : h \notin l.chunk => l.rows[h] = Missing
      BY <3>5 DEF Written
    <3>7. UpsertHadiths(j) => WithText(l) = {}
      BY <3>2 DEF l
    <3>. QED
      BY <3>6, <3>7
  <2>6. ASSUME l.st \in {"hadiths", "embeddings"}, NEW h \in l.scope \ l.stale, graph[h] # Missing
        PROVE  /\ h \in Hadiths
               /\ l.rows[h] = graph[h] \/ (l.rows[h] = Missing /\ Copied(l, h, mirror, vectors))
    BY <2>1, <2>6 DEF LeftOrCopied
  <2>7. CASE UpsertHadiths(j)
    <3>1. /\ mirror' = [h \in Hadiths |-> IF h \in l.chunk THEN l.rows[h] ELSE mirror[h]]
          /\ vectors' = vectors /\ l.st = "hadiths"
      BY <2>7 DEF UpsertHadiths
    <3>2. \A h \in l.chunk : l.rows[h] # Missing /\ EmbeddingText(l.rows[h]) = EmptyText
      BY <2>5, <2>7, <3>1 DEF ChunkIsFetched, WithText
    <3>. SUFFICES ASSUME NEW h \in l.scope \ l.stale, graph[h] # Missing
                  PROVE  Copied(l, h, mirror', vectors')
      OBVIOUS
    <3>3. CASE h \in l.chunk
      BY <2>6, <3>1, <3>2, <3>3 DEF Copied
    <3>4. CASE h \notin l.chunk
      BY <2>5, <2>6, <2>7, <3>1, <3>4 DEF Copied
    <3>. QED
      BY <3>3, <3>4
  <2>8. CASE UpsertEmbeddings(j)
    <3>1. /\ vectors' = [h \in Hadiths |->
                IF h \in WithText(l) THEN [text |-> EmbeddingText(l.rows[h]), by |-> l.by] ELSE vectors[h]]
          /\ mirror' = mirror /\ l.st = "embeddings"
      BY <2>8 DEF UpsertEmbeddings
    <3>2. \A h \in l.chunk : l.rows[h] # Missing /\ mirror[h] = l.rows[h]
      BY <3>1 DEF ChunkIsFetched, ChunkIsMirrored
    <3>. SUFFICES ASSUME NEW h \in l.scope \ l.stale, graph[h] # Missing
                  PROVE  Copied(l, h, mirror', vectors')
      OBVIOUS
    <3>3. CASE h \in l.chunk
      BY <2>6, <3>1, <3>2, <3>3 DEF Copied, WithText
    <3>4. CASE h \notin l.chunk
      BY <2>5, <2>6, <2>8, <3>1, <3>4 DEF Copied, WithText
    <3>. QED
      BY <3>3, <3>4
  <2>. QED
    BY <2>3, <2>4, <2>7, <2>8
<1>2. ASSUME LoadIInv, [LoadNext]_loadVars PROVE [Whole]_loadVars
  BY <1>1, <1>2
<1>3. Whole => \A j \in Jobs : load[j].st \notin {"done", "idle"} /\ load'[j].st = "done" /\ load[j].alone =>
          \A h \in load[j].scope \ load[j].stale : graph[h] # Missing =>
              /\ mirror'[h] = graph[h]
              /\ EmbeddingText(graph[h]) # EmptyText =>
                    vectors'[h] = [text |-> EmbeddingText(graph[h]), by |-> load[j].by]
  BY DEF Copied
<1>. HIDE DEF Whole
<1>4. LoadSpec => [][Whole]_loadVars
  BY <1>2, AlwaysLoadIInv, PTL DEF LoadSpec
<1>. QED
  BY <1>3, <1>4, PTL DEF LoadIsComplete

-----------------------------------------------------------------------------
(* The index rebuild.  IndexInv is inductive: the lock makes a builder the  *)
(* owner of _new (BuilderOwnsFresh), and an undisturbed run is the only live *)
(* one, so nobody touches _new between its build and its swap.              *)

\* Nothing exists before the first launch, so every clause holds.
LEMMA IndexInitInv == IndexInit => IndexInv
  BY DEF IndexInit, IndexInv, IndexTypeOK, Index, PCs, LiveStates, BuilderOwnsFresh,
      UndisturbedIsAlone, UndisturbedOwnsFresh, InvalidOnlyAfterOverlap, SchemaFirst, Live

\* What a build that ends leaves under the name _new.
LEMMA BuiltIndex ==
    ASSUME BuilderOwnsFresh, NEW r \in Runs, FinishBuild(r)
    PROVE  fresh' = [by |-> r, valid |-> TRUE]
<1>1. fresh = [by |-> r, valid |-> FALSE]
  BY DEF BuilderOwnsFresh, FinishBuild
<1>2. fresh' = [fresh EXCEPT !.valid = TRUE]
  BY DEF FinishBuild
<1>3. QED BY <1>1, <1>2

\* Every statement of the job, every failure, crash and orphaned build keeps
\* the state well typed.  A build that ends needs BuilderOwnsFresh: the index
\* it completes is there.
LEMMA IndexTypeStep ==
    ASSUME IndexInv, NEW r \in Runs,
           \/ Start(r) \/ Progress(r) \/ StatementFails(r)
           \/ DropInterrupted(r) \/ Crash(r)
    PROVE  IndexTypeOK'
<1> USE DEF IndexInv, IndexTypeOK, Index, PCs, LiveStates, Goto, Live
<1>1. CASE Start(r)            BY <1>1 DEF Start
<1>2. CASE EnsureSchema(r)     BY <1>2 DEF EnsureSchema
<1>3. CASE DropLeftover(r)     BY <1>3 DEF DropLeftover
<1>4. CASE StartBuild(r)       BY <1>4 DEF StartBuild
<1>5. CASE FinishBuild(r)
  <2>1. fresh' = [by |-> r, valid |-> TRUE]
    BY <1>5, BuiltIndex
  <2>2. fresh' \in Index
    BY <2>1
  <2>3. pc' \in [Runs -> PCs]
    BY <1>5 DEF FinishBuild
  <2>4. canonical' = canonical /\ disturbed' = disturbed
        /\ swappedAlone' = swappedAlone
    BY <1>5 DEF FinishBuild
  <2>5. QED BY <2>2, <2>3, <2>4
<1>6. CASE Swap(r)             BY <1>6 DEF Swap
<1>7. CASE OrphanEnds(r)       BY <1>7 DEF OrphanEnds, BuilderOwnsFresh
<1>8. CASE StatementFails(r)   BY <1>8 DEF StatementFails
<1>9. CASE DropInterrupted(r)  BY <1>9 DEF DropInterrupted
<1>10. CASE Crash(r)           BY <1>10 DEF Crash
<1>11. QED
  BY <1>1, <1>2, <1>3, <1>4, <1>5, <1>6, <1>7, <1>8, <1>9, <1>10 DEF Progress

\* The table lock: only the builder changes _new while it builds.
LEMMA BuilderStep ==
    ASSUME IndexInv, NEW r \in Runs,
           \/ Start(r) \/ Progress(r) \/ StatementFails(r)
           \/ DropInterrupted(r) \/ Crash(r)
    PROVE  BuilderOwnsFresh'
<1> SUFFICES ASSUME NEW b \in Runs, pc'[b] \in {"building", "orphan"}
             PROVE  fresh' = [by |-> b, valid |-> FALSE]
  BY DEF BuilderOwnsFresh
<1> USE AbsentAssumption
    DEF IndexInv, IndexTypeOK, Index, PCs, LiveStates, Goto, BuilderOwnsFresh,
        TableUnlocked
<1>1. CASE Start(r)            BY <1>1 DEF Start
<1>2. CASE EnsureSchema(r)     BY <1>2 DEF EnsureSchema
<1>3. CASE DropLeftover(r)     BY <1>3 DEF DropLeftover
<1>4. CASE StartBuild(r)       BY <1>4 DEF StartBuild
<1>5. CASE FinishBuild(r)      BY <1>5 DEF FinishBuild
<1>6. CASE Swap(r)             BY <1>6 DEF Swap
<1>7. CASE OrphanEnds(r)       BY <1>7 DEF OrphanEnds
<1>8. CASE StatementFails(r)   BY <1>8 DEF StatementFails
<1>9. CASE DropInterrupted(r)  BY <1>9 DEF DropInterrupted
<1>10. CASE Crash(r)           BY <1>10 DEF Crash
<1>11. QED
  BY <1>1, <1>2, <1>3, <1>4, <1>5, <1>6, <1>7, <1>8, <1>9, <1>10 DEF Progress

\* Only Start adds a live run, and it disturbs everyone who is live.
LEMMA AloneStep ==
    ASSUME IndexInv, NEW r \in Runs,
           \/ Start(r) \/ Progress(r) \/ StatementFails(r)
           \/ DropInterrupted(r) \/ Crash(r)
    PROVE  UndisturbedIsAlone'
<1> USE DEF IndexInv, IndexTypeOK, UndisturbedIsAlone
<1>1. CASE Start(r)
  <2>1. Live' = Live \cup {r}
    BY <1>1 DEF Start, Live, LiveStates, Goto
  <2>2. QED BY <1>1, <2>1 DEF Start
<1>2. CASE ~ Start(r)
  <2>1. disturbed' = disturbed
    BY <1>2 DEF Progress, EnsureSchema, DropLeftover, StartBuild, FinishBuild,
       Swap, OrphanEnds, StatementFails, DropInterrupted, Crash
  <2>2. \A q \in Runs : pc'[q] \in LiveStates => pc[q] \in LiveStates
    BY <1>2 DEF Progress, EnsureSchema, DropLeftover, StartBuild, FinishBuild,
       Swap, OrphanEnds, StatementFails, DropInterrupted, Crash, Goto, LiveStates
  <2>3. Live' \subseteq Live
    BY <2>2 DEF Live
  <2>4. QED BY <2>1, <2>3
<1>3. QED BY <1>1, <1>2

\* A run that changes _new is live or an orphan; were it another one, the run
\* between its build and its swap would be disturbed, or the orphan would own
\* a _new that is valid.
LEMMA FreshStep ==
    ASSUME IndexInv, NEW r \in Runs,
           \/ Start(r) \/ Progress(r) \/ StatementFails(r)
           \/ DropInterrupted(r) \/ Crash(r)
    PROVE  UndisturbedOwnsFresh'
<1> SUFFICES ASSUME NEW s \in Runs, s \notin disturbed', pc'[s] = "swap"
             PROVE  fresh' = [by |-> s, valid |-> TRUE]
  BY DEF UndisturbedOwnsFresh
<1> USE DEF IndexInv, IndexTypeOK
<1>1. CASE Start(r)
  <2>1. s # r /\ pc[s] = "swap" /\ s \in Live
    BY <1>1 DEF Start, Goto, Live, LiveStates
  <2>2. QED BY <1>1, <2>1 DEF Start
<1>2. CASE s = r /\ ~ Start(r)
  <2>1. FinishBuild(r)
    BY <1>2 DEF Progress, EnsureSchema, DropLeftover, StartBuild, Swap,
       OrphanEnds, StatementFails, DropInterrupted, Crash, Goto
  <2>2. QED BY <1>2, <2>1, BuiltIndex
<1>3. CASE s # r /\ ~ Start(r)
  <2>1. disturbed' = disturbed /\ pc'[s] = pc[s]
    BY <1>3 DEF Progress, EnsureSchema, DropLeftover, StartBuild, FinishBuild,
       Swap, OrphanEnds, StatementFails, DropInterrupted, Crash, Goto
  <2>2. r \notin Live
    BY <2>1, <1>3 DEF UndisturbedIsAlone, Live, LiveStates
  <2>3. OrphanEnds(r)
    BY <1>3, <2>2 DEF Live, LiveStates, Progress, EnsureSchema, DropLeftover,
       StartBuild, FinishBuild, Swap, StatementFails, DropInterrupted, Crash
  <2>4. fresh = [by |-> r, valid |-> FALSE] /\ fresh = [by |-> s, valid |-> TRUE]
    BY <2>1, <2>3 DEF OrphanEnds, BuilderOwnsFresh, UndisturbedOwnsFresh
  <2>5. QED BY <2>4
<1>4. QED BY <1>1, <1>2, <1>3

\* Only Swap and the first EnsureSchema replace the canonical index.
LEMMA ValidStep ==
    ASSUME IndexInv, NEW r \in Runs,
           \/ Start(r) \/ Progress(r) \/ StatementFails(r)
           \/ DropInterrupted(r) \/ Crash(r)
    PROVE  InvalidOnlyAfterOverlap'
<1> USE DEF IndexInv, IndexTypeOK, InvalidOnlyAfterOverlap
<1>1. CASE Swap(r)
  <2>1. CASE fresh = Absent
    BY <1>1, <2>1 DEF Swap
  <2>2. CASE fresh # Absent /\ r \in disturbed
    <3>1. ~ swappedAlone'
      BY <1>1, <2>2 DEF Swap
    <3>2. QED BY <3>1
  <2>3. CASE fresh # Absent /\ r \notin disturbed
    <3>1. canonical' = [by |-> r, valid |-> TRUE]
      BY <1>1, <2>3 DEF Swap, UndisturbedOwnsFresh
    <3>2. QED BY <3>1
  <2>4. QED BY <2>1, <2>2, <2>3
<1>2. CASE EnsureSchema(r)
  BY <1>2 DEF EnsureSchema
<1>3. CASE ~ Swap(r) /\ ~ EnsureSchema(r)
  BY <1>3 DEF Start, Progress, DropLeftover, StartBuild, FinishBuild,
     OrphanEnds, StatementFails, DropInterrupted, Crash
<1>4. QED BY <1>1, <1>2, <1>3

\* The schema step comes first, and no step frees the canonical name.
LEMMA SchemaStep ==
    ASSUME IndexInv, NEW r \in Runs,
           \/ Start(r) \/ Progress(r) \/ StatementFails(r)
           \/ DropInterrupted(r) \/ Crash(r)
    PROVE  SchemaFirst'
<1> USE AbsentAssumption
    DEF IndexInv, IndexTypeOK, Index, PCs, LiveStates, Goto, SchemaFirst
<1>1. CASE Start(r)            BY <1>1 DEF Start
<1>2. CASE EnsureSchema(r)
  <2>1. [by |-> Schema, valid |-> TRUE] # Absent
    <3>1. [by |-> Schema, valid |-> TRUE] \in Index
      BY DEF Index
    <3>2. QED BY <3>1, AbsentAssumption
  <2>2. canonical' # Absent
    BY <1>2, <2>1 DEF EnsureSchema
  <2>3. fresh' = fresh
    BY <1>2 DEF EnsureSchema
  <2>4. QED BY <2>2, <2>3
<1>3. CASE DropLeftover(r)     BY <1>3 DEF DropLeftover
<1>4. CASE StartBuild(r)       BY <1>4 DEF StartBuild
<1>5. CASE FinishBuild(r)
  <2>1. fresh' = [by |-> r, valid |-> TRUE]
    BY <1>5, BuiltIndex
  <2>2. QED BY <1>5, <2>1 DEF FinishBuild
<1>6. CASE Swap(r)             BY <1>6 DEF Swap
<1>7. CASE OrphanEnds(r)       BY <1>7 DEF OrphanEnds, BuilderOwnsFresh
<1>8. CASE StatementFails(r)   BY <1>8 DEF StatementFails
<1>9. CASE DropInterrupted(r)  BY <1>9 DEF DropInterrupted
<1>10. CASE Crash(r)           BY <1>10 DEF Crash
<1>11. QED
  BY <1>1, <1>2, <1>3, <1>4, <1>5, <1>6, <1>7, <1>8, <1>9, <1>10 DEF Progress

LEMMA IndexStepInv == IndexInv /\ [IndexNext]_indexVars => IndexInv'
<1>1. ASSUME IndexInv, IndexNext PROVE IndexInv'
  <2>1. PICK r \in Runs : \/ Start(r) \/ Progress(r) \/ StatementFails(r)
                          \/ DropInterrupted(r) \/ Crash(r)
    BY <1>1 DEF IndexNext
  <2>2. QED
    BY <1>1, <2>1, IndexTypeStep, BuilderStep, AloneStep, FreshStep, ValidStep, SchemaStep
    DEF IndexInv
<1>2. ASSUME IndexInv, UNCHANGED indexVars PROVE IndexInv'
  BY <1>2 DEF IndexInv, indexVars, IndexTypeOK, BuilderOwnsFresh, UndisturbedIsAlone,
     UndisturbedOwnsFresh, InvalidOnlyAfterOverlap, SchemaFirst, Live
<1>3. QED BY <1>1, <1>2

\* The inductive invariant holds for every number of launch places, crashes
\* and overlaps.
THEOREM IndexInvariant == IndexSpec => []IndexInv
<1>1. QED BY IndexInitInv, IndexStepInv, PTL DEF IndexSpec

\* An INVALID index is only ever promoted by a run that overlapped another.
THEOREM PromotionIsSafe == IndexSpec => []InvalidOnlyAfterOverlap
<1>1. IndexInv => InvalidOnlyAfterOverlap
  BY DEF IndexInv
<1>2. QED BY <1>1, IndexInvariant, PTL

\* "Never a window with neither": each step of any number of overlapping, failing or
\* crashing runs provides the first index, replaces it by one a run built, complete
\* unless runs overlapped, or is not seen by the queries at all.
LEMMA ServedStep ==
    ASSUME IndexInv, IndexNext
    PROVE  \/ Served!Provide \/ Served!Replace \/ UNCHANGED Served!servedVars
<1>1. PICK r \in Runs : \/ Start(r) \/ Progress(r) \/ StatementFails(r)
                        \/ DropInterrupted(r) \/ Crash(r)
  BY DEF IndexNext
<1>2. CASE Swap(r)
  <2>1. CASE fresh = Absent
    BY <1>2, <2>1 DEF Swap, Served!servedVars
  <2>2. CASE fresh # Absent
    <3>1. canonical # Absent /\ fresh.by \in Runs /\ fresh \in Index
      BY <1>2, <2>2 DEF Swap, IndexInv, IndexTypeOK, SchemaFirst
    <3>2. fresh = [by |-> fresh.by, valid |-> fresh.valid] /\ fresh.valid \in BOOLEAN
      BY <3>1 DEF Index
    <3>3. canonical' = fresh /\ swappedAlone' = (r \notin disturbed)
      BY <1>2, <2>2 DEF Swap
    <3>4. r \notin disturbed => fresh.valid
      BY <1>2 DEF Swap, IndexInv, UndisturbedOwnsFresh
    <3>5. QED
      BY <3>1, <3>2, <3>3, <3>4 DEF Served!Replace
  <2>3. QED BY <2>1, <2>2
<1>3. CASE EnsureSchema(r)
  BY <1>3 DEF EnsureSchema, Served!Provide, Served!servedVars
<1>4. CASE ~ Swap(r) /\ ~ EnsureSchema(r)
  BY <1>1, <1>4 DEF Start, Progress, DropLeftover, StartBuild, FinishBuild,
     OrphanEnds, StatementFails, DropInterrupted, Crash, Served!servedVars
<1>5. QED BY <1>2, <1>3, <1>4

\* The job implements ServedIndex, for any number of launch places.
THEOREM JobServesIndex == IndexSpec => ServesIndex
<1>1. IndexInit => Served!ServedInit
  BY DEF IndexInit, Served!ServedInit
<1>2. IndexInv /\ [IndexNext]_indexVars
        => [Served!Provide \/ Served!Replace]_(Served!servedVars)
  BY ServedStep DEF indexVars, Served!servedVars
<1>3. QED
  BY <1>1, <1>2, IndexInvariant, PTL DEF IndexSpec, ServesIndex, Served!ServedSpec

\* Success of a run that was alone means its own complete index is in place.
THEOREM SoloSuccessIsOwn == IndexSpec => SuccessMeansOwnIndex
<1> DEFINE Own == \A r \in Runs \ disturbed :
                     pc[r] = "swap" /\ pc'[r] = "done"
                        => canonical' = [by |-> r, valid |-> TRUE]
<1>1. ASSUME IndexInv, [IndexNext]_indexVars PROVE [Own]_indexVars
  <2> SUFFICES ASSUME IndexNext, NEW s \in Runs \ disturbed,
                      pc[s] = "swap", pc'[s] = "done"
               PROVE  canonical' = [by |-> s, valid |-> TRUE]
    BY <1>1
  <2>1. Swap(s)
    BY <1>1 DEF IndexNext, Start, Progress, EnsureSchema, DropLeftover, StartBuild,
       FinishBuild, Swap, OrphanEnds, StatementFails, DropInterrupted, Crash,
       Goto, IndexInv, IndexTypeOK
  <2>2. QED
    BY <1>1, <2>1 DEF Swap, Goto, IndexInv, IndexTypeOK, UndisturbedOwnsFresh
<1>2. QED BY <1>1, IndexInvariant, PTL DEF IndexSpec, SuccessMeansOwnIndex
=============================================================================
