------------------------------- MODULE Search -------------------------------
(***************************************************************************)
(* What GET /search and GET /search/semantic answer (api/routes/search.py):*)
(* two ranked lists merged fairly and then cut into pages, or one list     *)
(* paged by the database.  Found holds, per query, the rows of the         *)
(* full-text indexes and of the vector index, best first; where the        *)
(* full-text indexes are missing the same rows come by id, all scored      *)
(* alike.                                                                  *)
(***************************************************************************)
EXTENDS Integers, Sequences, FiniteSetsExt

CONSTANTS Queries,         \* what may be typed
          Blank,           \* the query without a letter
          Found,           \* the rows each query matches
          MaxSearchPage,   \* MAX_SEARCH_PAGE
          ResultWindow,    \* MAX_SEARCH_RESULT_WINDOW
          HalfSaturation   \* relevance_saturation_k

ASSUME WindowAssumption ==
    /\ MaxSearchPage \in Nat \ {0} /\ ResultWindow \in Nat \ {0} /\ HalfSaturation \in Nat
    /\ Blank \in Queries

\* A query finds a node once, and each list of rows is of one label.
ASSUME FoundAssumption ==
    \A q \in Queries : \A list \in {"narrators", "hadiths", "near"} :
        LET rows == Found[q][list]
        IN /\ rows \in Seq(Range(rows))
           /\ \A i \in DOMAIN rows : /\ {"id", "title", "score"} \subseteq DOMAIN rows[i]
                                    /\ {rows[i].id, rows[i].title, rows[i].score} \subseteq Int
           /\ \A i, j \in DOMAIN rows : rows[i].id = rows[j].id => i = j

Refused == [status |-> 400, results |-> <<>>, total |-> 0]
Unavailable == [status |-> 503, results |-> <<>>, total |-> 0]

Answer(results, total) == [status |-> 200, results |-> results, total |-> total]

\* FastAPI's le=MAX_SEARCH_PAGE (a 422, here one with the 400) and
\* _enforce_result_window.
InWindow(page, limit) == page \in 1..MaxSearchPage /\ page * limit <= ResultWindow

-----------------------------------------------------------------------------
(* Rows and hits.  A facet of a hit is the set of the filter's labels that  *)
(* its value answers to; it is empty when the value is not known.           *)

\* _death_year_to_century; the fifth century stands for all later ones.
Century(year) == IF year > 0 THEN {Min({5, (year - 1) \div 100 + 1})} ELSE {}

NarratorHit(row) ==
    [type |-> "narrator", id |-> row.id, title |-> row.title, score |-> row.score,
     facets |-> [collections |-> {}, gradings |-> {}, topics |-> {},
                 centuries |-> Century(row.year)]]

HadithHit(row) ==
    [type |-> "hadith", id |-> row.id, title |-> row.title, score |-> row.score,
     facets |-> [collections |-> row.collections, gradings |-> row.gradings,
                 topics |-> row.topics, centuries |-> {}]]

\* In thousandths.
Saturated(score) == IF score <= 0 THEN 0 ELSE (1000 * score) \div (score + HalfSaturation)

Relevance(hits) == [i \in DOMAIN hits |-> [hits[i] EXCEPT !.score = Saturated(@)]]

\* max(0.0, min(1.0, score)).
Similarity(rows) ==
    [i \in DOMAIN rows |-> [rows[i] EXCEPT !.score = Max({0, Min({1000, @})})]]

NarratorHits(rows) == [i \in DOMAIN rows |-> NarratorHit(rows[i])]

HadithHits(rows) == [i \in DOMAIN rows |-> HadithHit(rows[i])]

Prefix(s, n) == SubSeq(s, 1, Min({n, Len(s)}))

\* A page of a list.
Window(s, page, limit) == SubSeq(s, (page - 1) * limit + 1, Min({page * limit, Len(s)}))

\* What s has at some of its places, in their order.
Those(s, places) ==
    [k \in 1..Cardinality(places) |->
        s[CHOOSE i \in places : Cardinality({j \in places : j <= i}) = k]]

\* s in the order of a relation between its places, equals where they were.
Ordered(s, before) ==
    LET rank(i) == Cardinality({j \in DOMAIN s :
                       <<j, i>> \in before \/ (j <= i /\ <<i, j>> \notin before)})
    IN [k \in DOMAIN s |-> s[CHOOSE i \in DOMAIN s : rank(i) = k]]

\* The CONTAINS fallback: ORDER BY id, a flat score.
ById(rows) ==
    LET places == DOMAIN rows
    IN Ordered([i \in places |-> [rows[i] EXCEPT !.score = 1]],
               {p \in places \X places : rows[p[1]].id < rows[p[2]].id})

Ranked(rows, indexed) == IF indexed THEN rows ELSE ById(rows)

-----------------------------------------------------------------------------
(* _interleave_fairly: taken[n] counts what the first n places took from    *)
(* each list, and says whose turn it is.                                    *)

Interleave(first, second, limit) ==
    LET size == Min({limit, Len(first) + Len(second)})
        taken[n \in 0..size] ==
            IF n = 0 THEN [first |-> 0, second |-> 0, turn |-> TRUE]
            ELSE LET t == taken[n - 1]
                     fromFirst == \/ t.turn /\ t.first < Len(first)
                                  \/ t.second >= Len(second)
                 IN [first |-> t.first + (IF fromFirst THEN 1 ELSE 0),
                     second |-> t.second + (IF fromFirst THEN 0 ELSE 1),
                     turn |-> ~t.turn]
    IN [n \in 1..size |->
            IF taken[n].first > taken[n - 1].first
            THEN first[taken[n].first] ELSE second[taken[n].second]]

\* The type with the better top hit leads; narrators lead in a draw.
InterleaveFairly(narrators, hadiths, limit) ==
    IF hadiths # <<>> /\ (narrators = <<>> \/ hadiths[1].score > narrators[1].score)
    THEN Interleave(hadiths, narrators, limit)
    ELSE Interleave(narrators, hadiths, limit)

\* GET /search.
Fulltext(q, page, limit, indexed) ==
    IF q = Blank THEN Answer(<<>>, 0)
    ELSE IF ~InWindow(page, limit) THEN Refused
    ELSE LET end == page * limit
             merged == InterleaveFairly(
                           NarratorHits(Prefix(Ranked(Found[q].narrators, indexed), end)),
                           HadithHits(Prefix(Ranked(Found[q].hadiths, indexed), end)), end)
         IN Answer(Relevance(Window(merged, page, limit)),
                   Len(Found[q].narrators) + Len(Found[q].hadiths))

\* GET /search/semantic; provisioned says whether the embedder and the vector
\* table are there.
Semantic(q, page, limit, provisioned) ==
    IF ~InWindow(page, limit) THEN Refused
    ELSE IF ~provisioned THEN Unavailable
    ELSE Answer(HadithHits(Similarity(Window(Found[q].near, page, limit))),
                Len(Found[q].near))
=============================================================================
