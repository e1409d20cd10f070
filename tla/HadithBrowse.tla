---------------------------- MODULE HadithBrowse ----------------------------
(***************************************************************************)
(* GET /hadiths and GET /hadiths/facets (api/routes/hadiths.py) and the    *)
(* page that shows them (pages/HadithsPage.tsx).  The facets are computed  *)
(* from two reads of the graph and kept in Redis for a while; a list is a  *)
(* count and a page of rows, read one after the other.  The graph is       *)
(* replaced by a reload at any time.  Time passes in ticks.                *)
(***************************************************************************)
EXTENDS Vocabulary

CONSTANTS Loads,       \* the graphs: hadiths by their id
          Calls,       \* concurrent GET /hadiths/facets
          FacetsTTL,   \* _FACETS_CACHE_TTL_SECONDS
          MaxTime,     \* bound: ticks that are told apart after a reload
          PageSizes,
          Options,     \* what each filter may be set to
          Nowhere

ASSUME BrowseAssumption ==
    /\ FacetsTTL \in Nat \ {0} /\ MaxTime \in Nat /\ MaxTime > FacetsTTL
    /\ IsFiniteSet(PageSizes) /\ PageSizes # {} /\ PageSizes \subseteq Nat \ {0}

\* A hadith's grades are texts or absent, and what a filter is set to is a text.
ASSUME LoadsAssumption ==
    /\ \A g \in Loads : /\ IsFiniteSet(DOMAIN g) /\ DOMAIN g \subseteq Nat
                        /\ \A h \in DOMAIN g : {g[h].linked, g[h].composite, g[h].flat} \subseteq Grades
    /\ \A f \in DOMAIN Options : Options[f] \subseteq STRING
    /\ Null \notin STRING

VARIABLES corpus,  \* the graph
          since,   \* ticks since it was loaded
          kept,    \* the cached facets
          calls,
          browse   \* the page, Nowhere when another one is shown

browseVars == <<corpus, since, kept, calls, browse>>

All == "all"
Fields == DOMAIN Options
NoFilters == [f \in Fields |-> All]

Sources(g) == {g[h].source : h \in DOMAIN g} \ {Null}

\* MATCH (h:Hadith) RETURN h.topic_tags, count( * )
TagGroups(g) ==
    [tags \in {g[h].tags : h \in DOMAIN g} |-> Cardinality({h \in DOMAIN g : g[h].tags = tags})]

\* late: a reload came while they were computed (history).
FacetValue(sources, topics, late) == [sources |-> sources, topics |-> topics, late |-> late]
TrueFacets(g) == FacetValue(Sources(g), AggregateTopics(TagGroups(g)), FALSE)

-----------------------------------------------------------------------------
(* GET /hadiths *)

\* The WHERE clause.  isnad holds the narrators of the NARRATED and the
\* TRANSMITTED_TO edges, words what ?q= finds the matns by.
Admits(h, filters) ==
    \A f \in Fields : filters[f] = All \/
        CASE f = "grade" -> GradeFilter(filters[f], Coalesced(h))
          [] f = "narrator" -> filters[f] \in h.isnad
          [] f = "q" -> filters[f] \in h.words
          [] f = "collection" -> h.collection = filters[f]
          [] f = "source_corpus" -> h.source = filters[f]

Matching(g, filters) == {h \in DOMAIN g : Admits(g[h], filters)}

\* ORDER BY h.id SKIP (page - 1) * limit LIMIT limit
RowsOf(g, filters, page, limit) ==
    LET Place(h, S) == Cardinality({k \in S : k <= h})
        all == Matching(g, filters)
    IN {h \in all : Place(h, all) \in (page - 1) * limit + 1 .. page * limit}

\* _build_hadith_response
Row(g, h) == [id |-> h, raw |-> RawGrade(g[h]), grade |-> NormalizeGrade(RawGrade(g[h]))]

-----------------------------------------------------------------------------
Filters == [Fields -> STRING \cup {All}]

Browse ==
    [page : Nat \ {0}, limit : PageSizes, filters : Filters,
     st : {"asked", "counted", "shown", "failed"},
     total : Nat, rows : SUBSET [id : Nat, raw : Grades, grade : GradeTokens \cup {Null}],
     reloaded : BOOLEAN,  \* the graph changed since the list was asked for (history)
     own : BOOLEAN]       \* the page was chosen under these filters and this size (history)

Pages(total, limit) == (total + limit - 1) \div limit

BrowseInit ==
    /\ corpus \in Loads /\ since = 0 /\ kept = Nowhere
    /\ calls = [c \in Calls |-> [st |-> "idle", sources |-> {}, facets |-> Nowhere, late |-> FALSE]]
    /\ browse = Nowhere

-----------------------------------------------------------------------------
(* The graph and the clock *)

\* Calls and lists that are under way read the rest of what they need from the
\* graph that is there now.
Reload(g) ==
    /\ g # corpus /\ corpus' = g /\ since' = 0
    /\ calls' = [c \in Calls |-> IF calls[c].st = "idle" THEN calls[c]
                                                       ELSE [calls[c] EXCEPT !.late = TRUE]]
    /\ browse' = IF browse = Nowhere THEN browse ELSE [browse EXCEPT !.reloaded = TRUE]
    /\ UNCHANGED kept

MutTick ==
    /\ since < MaxTime
    /\ since' = since + 1
    /\ UNCHANGED <<corpus, kept, calls, browse>>

\* SETEX: Redis drops the entry when its time is over.
Tick ==
    /\ since < MaxTime \/ kept # Nowhere
    /\ since' = Min({since + 1, MaxTime})
    /\ kept' = IF kept = Nowhere \/ kept.age + 1 >= FacetsTTL THEN Nowhere
                                                             ELSE [kept EXCEPT !.age = @ + 1]
    /\ UNCHANGED <<corpus, calls, browse>>

(* GET /hadiths/facets *)

\* A miss, an error of Redis and an entry that does not parse are all alike: the
\* facets are computed, the source corpora first.
MissFacets(c) ==
    /\ calls[c].st = "idle"
    /\ calls' = [calls EXCEPT ![c] = [st |-> "topics", sources |-> Sources(corpus),
                                      facets |-> Nowhere, late |-> FALSE]]
    /\ UNCHANGED <<corpus, since, kept, browse>>

ComputeTopics(c) ==
    /\ calls[c].st = "topics"
    /\ calls' = [calls EXCEPT ![c].st = "write",
                              ![c].facets = FacetValue(calls[c].sources,
                                                   AggregateTopics(TagGroups(corpus)), FALSE)]
    /\ UNCHANGED <<corpus, since, kept, browse>>

\* _facets_cache_set; a failure to write is swallowed.
StoreFacets(c) ==
    /\ calls[c].st = "write"
    /\ kept' \in {kept, [value |-> [calls[c].facets EXCEPT !.late = calls[c].late], age |-> 0]}
    /\ calls' = [calls EXCEPT ![c] = [st |-> "idle", sources |-> {}, facets |-> Nowhere,
                                      late |-> FALSE]]
    /\ UNCHANGED <<corpus, since, browse>>

-----------------------------------------------------------------------------
(* The page *)

Asked(b) == [b EXCEPT !.st = "asked", !.total = 0, !.rows = {}, !.reloaded = FALSE]

\* A render with another page, size or filter asks for another list.
Show(b) ==
    /\ browse' = [Asked(b) EXCEPT !.own =
          b.page = 1 \/ <<b.filters, b.limit>> = <<browse.filters, browse.limit>>]
    /\ UNCHANGED <<corpus, since, kept, calls>>

MountHadiths ==
    /\ browse = Nowhere
    /\ \E limit \in {Min(PageSizes)} :
          Show([page |-> 1, limit |-> limit, filters |-> NoFilters, st |-> "asked", total |-> 0,
                rows |-> {}, reloaded |-> FALSE, own |-> TRUE])

LeaveHadiths ==
    /\ browse # Nowhere /\ browse' = Nowhere
    /\ UNCHANGED <<corpus, since, kept, calls>>

MutChangeFilter(f, v) ==
    /\ browse.filters[f] # v
    /\ f = "narrator" => All \in {v, browse.filters[f]}
    /\ Show([browse EXCEPT !.filters[f] = v])

\* handleSearch, handleFilterChange, selectNarrator and clearNarrator.
ChangeFilter(f, v) ==
    /\ browse.filters[f] # v
    /\ f = "narrator" => All \in {v, browse.filters[f]}
    /\ Show([browse EXCEPT !.filters[f] = v, !.page = 1])

ClearAllFilters ==
    /\ browse.filters # NoFilters
    /\ Show([browse EXCEPT !.filters = NoFilters, !.page = 1])

ChangeLimit(limit) ==
    /\ browse.st = "shown" /\ limit # browse.limit
    /\ Show([browse EXCEPT !.limit = limit, !.page = 1])

\* First, previous, next, last, and the page that is jumped to.
TurnPage(page) ==
    LET last == Pages(browse.total, browse.limit) IN
    /\ browse.st = "shown" /\ page # browse.page
    /\ \/ browse.page > 1 /\ page \in {1, browse.page - 1}
       \/ browse.page < last /\ page \in {browse.page + 1, last}
       \/ page \in 1..last
    /\ Show([browse EXCEPT !.page = page])

\* The list comes back: the count, then the rows.  A list that is shown is
\* fetched again when the window has the focus again.
CountHadiths ==
    /\ browse.st \in {"asked", "shown", "failed"}
    /\ browse' = [Asked(browse) EXCEPT !.st = "counted",
                                       !.total = Cardinality(Matching(corpus, browse.filters))]
    /\ UNCHANGED <<corpus, since, kept, calls>>

ListHadiths ==
    /\ browse.st = "counted"
    /\ browse' = [browse EXCEPT !.st = "shown",
                      !.rows = {Row(corpus, h) :
                                   h \in RowsOf(corpus, browse.filters, browse.page, browse.limit)}]
    /\ UNCHANGED <<corpus, since, kept, calls>>

ListLost ==
    /\ browse.st \in {"asked", "counted"}
    /\ browse' = [Asked(browse) EXCEPT !.st = "failed"]
    /\ UNCHANGED <<corpus, since, kept, calls>>

FacetsNext == Tick \/ \E c \in Calls : MissFacets(c) \/ ComputeTopics(c) \/ StoreFacets(c)

PageNext ==
    \/ MountHadiths
    \/ /\ browse # Nowhere
       /\ \/ \E f \in Fields : \E v \in Options[f] \cup {All} : ChangeFilter(f, v)
          \/ \E limit \in PageSizes : ChangeLimit(limit)
          \/ \E page \in 1 .. (browse.page + Pages(browse.total, browse.limit)) : TurnPage(page)
          \/ ClearAllFilters \/ CountHadiths \/ ListHadiths \/ ListLost \/ LeaveHadiths

BrowseNext == FacetsNext \/ PageNext \/ \E g \in Loads : Reload(g)

BrowseSpec == BrowseInit /\ [][BrowseNext]_browseVars

-----------------------------------------------------------------------------
BrowseTypeOK ==
    /\ corpus \in Loads /\ since \in 0..MaxTime
    /\ kept # Nowhere => kept.age \in 0..(FacetsTTL - 1)
    /\ browse = Nowhere \/ browse \in Browse

\* Outdated facets outlive a reload by less than their time to live, unless they
\* were still being computed when it came.
StaleOnlyByOverlap ==
    kept # Nowhere /\ ~kept.value.late /\ since >= FacetsTTL => kept.value = TrueFacets(corpus)

\* A page past the first was chosen under the filters and the page size that are
\* set: none of them carries a deep page into another list.
PageOwnsFilters == browse # Nowhere => browse.own

\* What the list says under a grade filter: every row's badge is the grade that was
\* asked for, and every hadith with that badge is counted.  A grade property that
\* holds '' is the exception: the filter stops at it, the badge looks further.
FilterIsExact ==
    browse # Nowhere /\ browse.st = "shown" /\ ~browse.reloaded
    /\ (\A h \in DOMAIN corpus : Coalesced(corpus[h]) # Empty) =>
        LET token == IF "grade" \in Fields THEN browse.filters["grade"] ELSE All
            others == [browse.filters EXCEPT !["grade"] = All]
        IN token # All =>
              /\ \A row \in browse.rows : row.grade = token
              /\ browse.total = Cardinality({h \in Matching(corpus, others) :
                                                Row(corpus, h).grade = token})

\* The pages of a list that no reload disturbed cover it without an overlap, and
\* the one that is shown is full unless it is the last.
PagesTile ==
    browse # Nowhere /\ browse.st = "shown" /\ ~browse.reloaded =>
        LET all == Matching(corpus, browse.filters)
            last == Pages(browse.total, browse.limit)
            Of(page) == RowsOf(corpus, browse.filters, page, browse.limit)
        IN /\ UNION {Of(page) : page \in 1..last} = all
           /\ \A p, q \in 1..last : p # q => Of(p) \cap Of(q) = {}
           /\ browse.page < last => Cardinality(browse.rows) = browse.limit
           /\ browse.page > last => browse.rows = {}

\* topics.py: a facet counts the hadiths that the search page shows under that topic,
\* each once, whatever tags map to it; only hadiths without any topic are in the last
\* one, and no hadith is dropped.
FacetsCountHadiths ==
    kept # Nowhere /\ ~kept.value.late /\ since >= FacetsTTL =>
        LET topics == kept.value.topics
            Of(value) == {h \in DOMAIN corpus :
                             LET own == CanonicalTopics(corpus[h].tags)
                             IN IF value = Uncategorized THEN own = {} ELSE value \in own}
        IN /\ \A value \in DOMAIN topics : topics[value] = Cardinality(Of(value))
           /\ UNION {Of(value) : value \in DOMAIN topics} = DOMAIN corpus

BrowseInv == BrowseTypeOK /\ PageOwnsFilters /\ PagesTile /\ FilterIsExact
FacetsInv == StaleOnlyByOverlap /\ FacetsCountHadiths
=============================================================================
