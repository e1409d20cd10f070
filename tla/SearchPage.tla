----------------------------- MODULE SearchPage -----------------------------
(***************************************************************************)
(* The search page (pages/SearchPage.tsx, lib/searchPagination.ts,         *)
(* lib/searchFacets.ts) in front of Search.  The reader types, a timer     *)
(* copies the input into the query, the query fetches batches of results   *)
(* that the page filters, sorts and cuts into display pages; a dropdown    *)
(* suggests hits meanwhile.  search is the state of the mounted component, *)
(* Away when another page is; what TanStack Query caches under a key is    *)
(* what the API answers for it, so a new key shows its data at once or     *)
(* loads, either way.                                                      *)
(***************************************************************************)
EXTENDS Search

CONSTANTS Suggested,                     \* SUGGESTED_QUERIES
          TooShort,                      \* queries under two characters
          FacetLabels,                        \* the labels each facet offers
          FulltextBatch, SemanticBatch,  \* SEARCH_MAX_LIMIT, SEMANTIC_SEARCH_MAX_LIMIT
          PerPage, MaxPages,             \* RESULTS_PER_PAGE, MAX_DISPLAY_PAGES
          PagerWidth,                    \* the page buttons shown at a time
          HintLimit, PerGroup,           \* the dropdown's sizes
          Away

\* What searchPagination.ts and search.py ask of each other's numbers.
ASSUME PagerAssumption ==
    /\ PerPage \in Nat \ {0} /\ MaxPages \in Nat \ {0}
    /\ HintLimit \in Nat \ {0} /\ PagerWidth \in Nat
    /\ DOMAIN FacetLabels = {"collections", "gradings", "topics", "centuries"}
    /\ MaxSearchPage >= MaxPages /\ ResultWindow >= MaxPages * PerPage
    /\ \A batch \in {FulltextBatch, SemanticBatch} :
           /\ batch \in Nat /\ batch >= PerPage /\ batch % PerPage = 0
           /\ MaxPages % (batch \div PerPage) = 0
    /\ Blank \in TooShort /\ TooShort \subseteq Queries /\ Suggested \subseteq Queries \ TooShort

VARIABLES search,   \* the component's state
          address,  \* q in the URL
          backend   \* are the full-text indexes and the vectors there?

searchVars == <<search, address, backend>>

Types == {"narrator", "hadith", "collection"}
Modes == {"fulltext", "semantic"}
Sorts == {"relevance", "name", "date"}
NoFacets == [f \in DOMAIN FacetLabels |-> {}]
DefaultFilters == [types |-> Types, facets |-> NoFacets]

SearchState ==
    [input : Queries, query : Queries, mode : Modes, sort : Sorts, page : 1..MaxPages,
     filters : [types : (SUBSET Types) \ {{}}, facets : [DOMAIN FacetLabels -> SUBSET UNION Range(FacetLabels)]],
     timer : BOOLEAN,    \* the debounce is running
     dropdown : BOOLEAN, \* showTypeahead
     active : 0..HintLimit,  \* activeIndex, counted from one, 0 for none
     hint : BOOLEAN,     \* typeaheadData is there
     batch : {"idle", "loading", "data", "failed", "outdated"},  \* the main query
     own : BOOLEAN]      \* the page was chosen for this query, mode and filters (history)

-----------------------------------------------------------------------------
(* searchPagination.ts *)

BatchSize(mode) == IF mode = "semantic" THEN SemanticBatch ELSE FulltextBatch

PagesPerBatch(batch) == Max({1, batch \div PerPage})

ServerPageFor(page, batch) == ((page - 1) \div PagesPerBatch(batch)) + 1

MutLocalPageFor(page, batch) == (page % PagesPerBatch(batch)) + 1

LocalPageFor(page, batch) == ((page - 1) % PagesPerBatch(batch)) + 1

PageCount(n) == (n + PerPage - 1) \div PerPage

PageCountFromTotal(total) == Min({MaxPages, PageCount(total)})

(* searchFacets.ts *)

FacetApplies ==
    [hadith |-> {"collections", "gradings", "topics"}, collection |-> {"collections"},
     narrator |-> {"centuries"}]

MatchesFacets(hit, selected) ==
    \A f \in FacetApplies[hit.type] :
        selected[f] = {} \/ hit.facets[f] = {} \/ hit.facets[f] \cap selected[f] # {}

-----------------------------------------------------------------------------
(* What a state of the page asks for and shows. *)

Ask(q, mode, limit, page) ==
    IF mode = "semantic" THEN Semantic(q, page, limit, backend.provisioned)
                         ELSE Fulltext(q, page, limit, backend.indexed)

ServerPage(s) == ServerPageFor(s.page, BatchSize(s.mode))

SearchKey(s) == <<s.query, s.mode, ServerPage(s)>>

SearchAnswer(s) == Ask(s.query, s.mode, BatchSize(s.mode), ServerPage(s))

SearchData(s) ==
    IF s.batch \in {"data", "outdated"} THEN SearchAnswer(s) ELSE Answer(<<>>, 0)

Passing(s) ==
    LET hits == SearchData(s).results
    IN Those(hits, {i \in DOMAIN hits : /\ hits[i].type \in s.filters.types
                                        /\ MatchesFacets(hits[i], s.filters.facets)})

SortedBy(hits, sort) ==
    LET Better(a, b) == \/ sort = "relevance" /\ a.score > b.score
                        \/ sort = "name" /\ a.title < b.title
    IN Ordered(hits, {p \in (DOMAIN hits) \X (DOMAIN hits) : Better(hits[p[1]], hits[p[2]])})

SortedResults(s) == SortedBy(Passing(s), s.sort)

PageResults(s) == Window(SortedResults(s), LocalPageFor(s.page, BatchSize(s.mode)), PerPage)

FiltersActive(s) == s.filters # DefaultFilters

TotalPages(s) ==
    IF FiltersActive(s) THEN PageCount(Len(Passing(s)))
                        ELSE PageCountFromTotal(SearchData(s).total)

\* The buttons of the pager, a window around the page.
PagerWindow(page, total) ==
    LET half == PagerWidth \div 2
        first == IF total <= PagerWidth \/ page <= half + 1 THEN 1
                 ELSE IF page >= total - half THEN total - PagerWidth + 1
                 ELSE page - half
    IN first .. (first + Min({total, PagerWidth}) - 1)

\* Where the pager leads: one of the buttons, previous or next.
PagerTargets(page, total) ==
    IF total <= 1 THEN {}
    ELSE PagerWindow(page, total)
         \cup (IF page > 1 THEN {page - 1} ELSE {})
         \cup (IF page < total THEN {page + 1} ELSE {})

\* What fills the page.
Shown(s) ==
    CASE s.query \in TooShort -> "start"
      [] s.query \notin TooShort /\ s.batch \in {"failed", "outdated"} -> "error"
      [] s.batch = "loading" -> "loading"
      [] s.batch = "data" /\ Passing(s) = <<>> -> "no results"
      [] OTHER -> "results"

\* The dropdown's data, and its entries in the order they are listed.
HintData(s) == IF s.hint THEN Ask(s.input, s.mode, HintLimit, 1).results ELSE <<>>

Listed(s) ==
    LET hits == HintData(s)
        Group(type) == Prefix(Those(hits, {i \in DOMAIN hits : hits[i].type = type}), PerGroup)
    IN Group("narrator") \o Group("hadith") \o Group("collection")

DropdownShown(s) == s.dropdown /\ s.hint /\ s.input \notin TooShort

-----------------------------------------------------------------------------
SearchInit ==
    /\ search = Away /\ address = Blank
    /\ backend \in [indexed : BOOLEAN, provisioned : BOOLEAN]

\* Where the main query is once the page's state is t.
BatchOf(t) ==
    IF search # Away /\ SearchKey(t) = SearchKey(search) THEN {search.batch}
    ELSE IF t.query \in TooShort THEN {"idle"}
    ELSE {"loading"} \cup (IF SearchAnswer(t).status = 200 THEN {"data"} ELSE {})

HintOf(t) ==
    IF search # Away /\ <<t.input, t.mode>> = <<search.input, search.mode>> THEN {search.hint}
    ELSE {FALSE} \cup (IF t.input \notin TooShort /\ Ask(t.input, t.mode, HintLimit, 1).status = 200
                       THEN {TRUE} ELSE {})

Context(s) == <<s.query, s.mode, s.filters>>

\* The component renders with state t, and its effects run.
Render(t) ==
    /\ \E b \in BatchOf(t), h \in HintOf(t) :
           search' = [t EXCEPT !.batch = b, !.hint = h,
                               !.own = @ /\ Context(t) = Context(search)]
    /\ address' = IF t.query = Blank THEN address ELSE t.query
    /\ UNCHANGED backend

\* The page is opened, at the address in the history or from a link.
MountSearch ==
    /\ search = Away
    /\ \E q \in {address, Blank} :
           LET fresh == [input |-> q, query |-> q, mode |-> "fulltext", sort |-> "relevance",
                         page |-> 1, filters |-> DefaultFilters, timer |-> TRUE,
                         dropdown |-> FALSE, active |-> 0, hint |-> FALSE,
                         batch |-> "idle", own |-> FALSE]
           IN \E b \in BatchOf(fresh) : search' = [fresh EXCEPT !.batch = b]
    /\ UNCHANGED <<address, backend>>

LeaveSearch ==
    /\ search # Away /\ search' = Away
    /\ UNCHANGED <<address, backend>>

\* handleResultClick navigates to the hit's own page.
OpenHit(hit) == search' = Away /\ UNCHANGED <<address, backend>>

-----------------------------------------------------------------------------
(* The input *)

TypeQuery(q) ==
    /\ q # search.input
    /\ Render([search EXCEPT !.input = q, !.timer = TRUE, !.dropdown = TRUE, !.active = 0])

Debounced ==
    /\ search.timer
    /\ Render([search EXCEPT !.timer = FALSE, !.query = search.input, !.page = 1])

\* handleSubmit leaves the timer running.
Submit ==
    /\ Render([search EXCEPT !.query = search.input, !.dropdown = FALSE, !.page = 1])

ClearInput ==
    /\ search.input # Blank
    /\ Render([search EXCEPT !.input = Blank, !.query = Blank, !.timer = TRUE])

Suggest(q) ==
    /\ search.query \in TooShort
    /\ Render([search EXCEPT !.timer = @ \/ q # search.input, !.input = q, !.query = q,
                             !.dropdown = FALSE])

(* The dropdown *)

FocusInput ==
    /\ ~search.dropdown
    /\ Render([search EXCEPT !.dropdown = TRUE])

\* A click outside, or Escape.
CloseDropdown ==
    /\ search.dropdown
    /\ Render([search EXCEPT !.dropdown = FALSE])

\* handleKeyDown moves through typeaheadData.results.
ArrowDown ==
    /\ search.dropdown /\ search.hint
    /\ Render([search EXCEPT !.active = Min({@ + 1, Len(HintData(search))})])

ArrowUp ==
    /\ search.dropdown /\ search.hint
    /\ Render([search EXCEPT !.active = Max({@ - 1, 0})])

Enter ==
    /\ search.dropdown /\ search.hint
    /\ search.active \in DOMAIN HintData(search)
    /\ OpenHit(HintData(search)[search.active])

ClickSuggestion ==
    /\ DropdownShown(search)
    /\ \E hit \in Range(Listed(search)) : OpenHit(hit)

HintArrives ==
    /\ search.dropdown /\ search.input \notin TooShort /\ ~search.hint
    /\ Ask(search.input, search.mode, HintLimit, 1).status = 200
    /\ search' = [search EXCEPT !.hint = TRUE]
    /\ UNCHANGED <<address, backend>>

(* The results *)

ToggleType(type) ==
    /\ search.query \notin TooShort
    /\ LET types == SymDiff(search.filters.types, {type})
       IN Render([search EXCEPT !.filters.types = IF types = {} THEN @ ELSE types, !.page = 1])

ToggleFacet(f, label) ==
    /\ search.query \notin TooShort
    /\ f = "topics" => "hadith" \in search.filters.types
    /\ Render([search EXCEPT !.filters.facets[f] = SymDiff(@, {label}), !.page = 1])

\* The sidebar's button goes to page one, the card's does not.
ClearFilters ==
    /\ search.query \notin TooShort /\ FiltersActive(search)
    /\ \/ Render([search EXCEPT !.filters = DefaultFilters, !.page = 1])
       \/ Shown(search) = "no results" /\ Render([search EXCEPT !.filters = DefaultFilters])

MutChangeMode(mode) == mode # search.mode /\ Render([search EXCEPT !.mode = mode])

ChangeMode(mode) ==
    /\ mode # search.mode
    /\ Render([search EXCEPT !.mode = mode, !.page = 1])

ChangeSort(sort) ==
    /\ search.query \notin TooShort /\ sort # search.sort
    /\ Render([search EXCEPT !.sort = sort])

GoToPage(page) ==
    /\ search.query \notin TooShort
    /\ page \in PagerTargets(search.page, TotalPages(search))
    /\ Render([search EXCEPT !.page = page, !.own = TRUE])

RetrySearch ==
    /\ Shown(search) = "error"
    /\ Render([search EXCEPT !.query = search.input])

ClickResult ==
    /\ Shown(search) = "results"
    /\ \E hit \in Range(PageResults(search)) : OpenHit(hit)

\* The main query's answer, or the loss of both its attempts.  Data that is
\* there is fetched again now and then (refetchOnWindowFocus).
SearchSettles ==
    /\ search.batch \in {"loading", "data", "outdated", "failed"}
    /\ \/ search' = [search EXCEPT !.batch =
              IF SearchAnswer(search).status = 200 THEN "data" ELSE "failed"]
       \/ search' = [search EXCEPT !.batch =
              IF search.batch \in {"loading", "failed"} THEN "failed" ELSE "outdated"]
    /\ UNCHANGED <<address, backend>>

SearchNext ==
    \/ MountSearch
    \/ /\ search # Away
       /\ \/ \E q \in Queries : TypeQuery(q)
          \/ \E q \in Suggested : Suggest(q)
          \/ Debounced \/ Submit \/ ClearInput
          \/ FocusInput \/ CloseDropdown \/ ArrowDown \/ ArrowUp \/ HintArrives
          \/ Enter \/ ClickSuggestion \/ ClickResult
          \/ \E type \in Types : ToggleType(type)
          \/ \E f \in DOMAIN FacetLabels : \E label \in FacetLabels[f] : ToggleFacet(f, label)
          \/ \E mode \in Modes : ChangeMode(mode)
          \/ \E sort \in Sorts : ChangeSort(sort)
          \/ \E page \in 1..MaxPages : GoToPage(page)
          \/ ClearFilters \/ RetrySearch \/ SearchSettles \/ LeaveSearch

SearchSpec == SearchInit /\ [][SearchNext]_searchVars

-----------------------------------------------------------------------------
SearchTypeOK == search \in SearchState \cup {Away} /\ address \in Queries

\* search.py's comment: normal paging never asks past the result window.
WindowNeverTrips ==
    search # Away => InWindow(ServerPage(search), BatchSize(search.mode))

\* SearchPage.tsx's comment: a filtered view is evaluated against batch one.
\* Each change of a filter, of the mode or of the query goes back to page one,
\* and the pages of a filtered view are those of one batch.
FilteredOnBatchOne ==
    search # Away /\ FiltersActive(search) => ServerPage(search) = 1

\* A page past the first was chosen for the query, the mode and the filters it
\* now shows, once no timer is left to correct it: nothing carries a deep page
\* into another result set.  The suggested queries rely on the timer for it.
PageOwnsContext ==
    search # Away /\ ~search.timer /\ search.page > 1 => search.own

\* With no filter set, walking the pager shows every match on exactly one page,
\* however the page sorts its batches: the fair merge, the batches and the display
\* pages fit together without an overlap or a gap.  (Up to MaxPages.)
EveryMatchReachable ==
    search # Away /\ Shown(search) = "results" /\ ~FiltersActive(search)
    /\ SearchData(search).total <= MaxPages * PerPage =>
        LET found == Found[search.query]
            Keys(rows, type) == {<<type, rows[i].id>> : i \in DOMAIN rows}
            matches == IF search.mode = "semantic" THEN Keys(found.near, "hadith")
                       ELSE Keys(found.narrators, "narrator") \cup Keys(found.hadiths, "hadith")
            At(page) == PageResults([search EXCEPT !.page = page, !.batch = "data"])
            Places(m) == {pos \in (1..TotalPages(search)) \X (1..PerPage) :
                             /\ pos[2] \in DOMAIN At(pos[1])
                             /\ <<At(pos[1])[pos[2]].type, At(pos[1])[pos[2]].id>> = m}
        IN \A m \in matches : Cardinality(Places(m)) = 1

\* When the page settles on "no results" and no filter is set, there are none: it
\* is never a page past the end of the results.
EmptyIsTrue ==
    search # Away /\ Shown(search) = "no results" /\ ~search.timer /\ ~FiltersActive(search)
    => SearchData(search).total = 0

\* The pager: where it may be, what it asks for and what an empty page means.
SearchInv ==
    SearchTypeOK /\ WindowNeverTrips /\ FilteredOnBatchOne /\ PageOwnsContext /\ EmptyIsTrue
=============================================================================
