----------------------------- MODULE Chronology -----------------------------
(***************************************************************************)
(* Years AH and what the code derives from them.  A narrator's dates are   *)
(* read by four places which each have their own copy of the active window:*)
(* the overlay job (enrich/historical.py), the dating of a hadith          *)
(* (api/routes/hadiths.py), the plausibility scan of chains                *)
(* (api/routes/validate.py) and the lanes of the timeline                  *)
(* (api/routes/timeline.py, in Cypher).  A window is a pair of years, or   *)
(* None for a narrator who cannot be placed in time.                       *)
(***************************************************************************)
EXTENDS Integers, Sequences, FiniteSetsExt

CONSTANTS None,             \* null: no such year
          AssumedLifespan,  \* DEFAULT_ASSUMED_LIFESPAN_AH
          MaxLifetime,      \* MAX_NARRATOR_LIFETIME_AH
          MaxScan           \* _MAX_SCAN

ASSUME YearsAssumption ==
    /\ None \notin Int /\ None \notin Int \X Int
    /\ AssumedLifespan \in Nat \ {0} /\ MaxLifetime \in Nat /\ MaxScan \in Nat \ {0}

Year == Int \cup {None}

\* The properties of a narrator that any window reads.
NarratorDates ==
    [birth : Year, birthEarliest : Year, death : Year, deathLatest : Year]

EffBirth(d) == IF d.birthEarliest # None THEN d.birthEarliest ELSE d.birth
EffDeath(d) == IF d.deathLatest # None THEN d.deathLatest ELSE d.death

-----------------------------------------------------------------------------
(* The four windows. *)

\* historical.py's _active_window
ActiveWindow(d) ==
    IF EffBirth(d) = None /\ EffDeath(d) = None THEN None
    ELSE IF EffDeath(d) = None THEN <<EffBirth(d), EffBirth(d) + AssumedLifespan>>
    ELSE IF EffBirth(d) = None THEN <<EffDeath(d) - AssumedLifespan, EffDeath(d)>>
    ELSE <<EffBirth(d), EffDeath(d)>>

\* validate.py's _resolve_window, which knows the point years only.
ResolveWindow(birth, death) ==
    IF birth = None /\ death = None THEN None
    ELSE IF death = None THEN <<birth, birth + AssumedLifespan>>
    ELSE IF birth = None THEN <<death - AssumedLifespan, death>>
    ELSE <<birth, death>>

MutDatingWindow(d) ==
    LET Is(w, e, last) == [window |-> w, estimated |-> e, endEstimated |-> last]
    IN IF d.birth = None /\ d.death = None THEN Is(None, TRUE, TRUE)
       ELSE IF d.death = None THEN Is(<<d.birth, d.birth + AssumedLifespan>>, TRUE, TRUE)
       ELSE IF d.birth = None THEN Is(<<d.death - AssumedLifespan, d.death>>, TRUE, FALSE)
       ELSE Is(<<d.birth, d.death>>, FALSE, FALSE)

\* hadiths.py's _dating_window: estimated says that either end was filled in,
\* endEstimated that the death was.
DatingWindow(d) ==
    LET birth == IF d.birthEarliest # None THEN d.birthEarliest ELSE d.birth
        death == IF d.deathLatest # None THEN d.deathLatest ELSE d.death
        Is(w, e, last) == [window |-> w, estimated |-> e, endEstimated |-> last]
    IN IF birth = None /\ death = None THEN Is(None, TRUE, TRUE)
       ELSE IF death = None THEN Is(<<birth, birth + AssumedLifespan>>, TRUE, TRUE)
       ELSE IF birth = None THEN Is(<<death - AssumedLifespan, death>>, TRUE, FALSE)
       ELSE Is(<<birth, death>>, FALSE, FALSE)

\* timeline.py's query: two CASEs over the coalesced years, for the rows that
\* have one.
CypherWindow(d) ==
    LET first == CASE EffDeath(d) = None -> EffBirth(d)
                   [] EffDeath(d) # None /\ EffBirth(d) = None -> EffDeath(d) - AssumedLifespan
                   [] OTHER -> EffBirth(d)
        last == CASE EffDeath(d) = None -> EffBirth(d) + AssumedLifespan
                  [] OTHER -> EffDeath(d)
    IN IF EffBirth(d) # None \/ EffDeath(d) # None THEN <<first, last>> ELSE None

-----------------------------------------------------------------------------
(* Closed intervals. *)

Overlap(v, w) == v[1] <= w[2] /\ v[2] >= w[1]

\* compute_active_during: does the overlay link a narrator to an event?  A
\* window that is too long is taken for bad data; an event without an end year
\* has its start for one.
EventSpan(e) == <<e.start, IF e.end # None THEN e.end ELSE e.start>>

Linked(d, e) ==
    LET w == ActiveWindow(d)
    IN w # None /\ w[2] - w[1] <= MaxLifetime /\ Overlap(w, EventSpan(e))

\* classify_edge: teacher t, student s.
Edge(verdict, gap) == [verdict |-> verdict, gap |-> gap]

ClassifyEdge(t, s) ==
    LET tw == ResolveWindow(t.birth, t.death)
        sw == ResolveWindow(s.birth, s.death)
        Verdict(attested) == IF attested THEN "impossible" ELSE "implausible"
    IN IF tw = None \/ sw = None THEN Edge("undated", None)
       ELSE IF tw[1] <= sw[2] /\ sw[1] <= tw[2] THEN Edge("ok", None)
       ELSE IF tw[2] < sw[1]
            THEN Edge(Verdict(t.death # None /\ s.birth # None), sw[1] - tw[2])
            ELSE Edge(Verdict(s.death # None /\ t.birth # None), tw[1] - sw[2])

-----------------------------------------------------------------------------
(* validate_chains over a set of edges <<t, s>>: which it scans, what it    *)
(* counts, and the flags it returns, asked for one verdict or (None) for    *)
(* the flagged tiers.                                                       *)

Dates(d) == {d.birth, d.death} \ {None}

\* The query: an edge of which neither end is dated is no candidate.
Candidates(edges) == {e \in edges : Dates(e[1]) \cup Dates(e[2]) # {}}

\* LIMIT: whichever rows come first.
Some(limit, S) == kSubset(Min({limit, Cardinality(S)}), S)

\* The query has no ORDER BY, and fetches one candidate more than the scan keeps.
Scans(edges) ==
    UNION {{[rows |-> T, truncated |-> Cardinality(fetched) > MaxScan] : T \in Some(MaxScan, fetched)}
               : fetched \in Some(MaxScan + 1, Candidates(edges))}

VerdictOf(e) == ClassifyEdge(e[1], e[2])

Tally(scan) ==
    [v \in {"impossible", "implausible", "ok", "undated"} |->
        Cardinality({e \in scan : VerdictOf(e).verdict = v})]

Flagged(scan, asked) ==
    {e \in scan : VerdictOf(e).verdict \in
        IF asked = None THEN {"impossible", "implausible"} ELSE {asked}}

\* The sort: the tier, then the widest gap (0 for an edge that is ok).
Stronger(a, b) ==
    LET Tier(edge) == CHOOSE i \in 1..3 : <<"impossible", "implausible", "ok">>[i] = edge.verdict
        Gap(edge) == IF edge.gap = None THEN 0 ELSE edge.gap
        Before(x, y) == Tier(x) < Tier(y) \/ (Tier(x) = Tier(y) /\ Gap(x) > Gap(y))
    IN Before(VerdictOf(a), VerdictOf(b))

\* The first `limit` of them, equals in any order.
FlagAnswers(scan, asked, limit) ==
    LET all == Flagged(scan, asked)
    IN {T \in Some(limit, all) : \A a \in T, b \in all \ T : ~ Stronger(b, a)}

-----------------------------------------------------------------------------
(* derive_hadith_dating: chain lists the dates of the chain's narrators by  *)
(* id; the termini are the earliest and the latest end of a window.         *)

DatingOf(chain) ==
    LET windows == [i \in DOMAIN chain |-> DatingWindow(chain[i])]
        dated == {i \in DOMAIN chain : windows[i].window # None}
        ends == [i \in dated |-> windows[i].window[2]]
        \* min() and max() keep the first of the equals.
        earliest == Min({i \in dated : \A j \in dated : ends[i] <= ends[j]})
        latest == Min({i \in dated : \A j \in dated : ends[i] >= ends[j]})
        anchored == ~ windows[earliest].endEstimated /\ ~ windows[latest].endEstimated
    IN IF dated = {} THEN [tpq |-> None, taq |-> None, confidence |-> "insufficient_data"]
       ELSE [tpq |-> ends[earliest], taq |-> ends[latest],
             confidence |-> IF Cardinality(dated) = 1 THEN "low"
                            ELSE IF anchored /\ Cardinality(dated) = Len(chain) THEN "high"
                            ELSE "medium"]

-----------------------------------------------------------------------------
(* GET /timeline/narrators: the rows whose window meets the viewport.       *)

InView(d, first, last) ==
    LET w == CypherWindow(d)
    IN w # None /\ (first = None \/ w[2] >= first) /\ (last = None \/ w[1] <= last)
=============================================================================
