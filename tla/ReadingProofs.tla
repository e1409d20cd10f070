--------------------------- MODULE ReadingProofs ---------------------------
(***************************************************************************)
(* Proofs about the pages that read the graph: the hadith lists and the    *)
(* cached facets (HadithBrowse), the timeline (TimelinePage) and the graph *)
(* explorer (GraphExplorer).                                               *)
(***************************************************************************)
EXTENDS HadithBrowse, TimelinePage, GraphExplorer, Ranking

-----------------------------------------------------------------------------
(* Hadiths *)

\* What a list that no reload disturbed is made of.
Undisturbed(b) ==
    ~b.reloaded =>
        /\ b.st \in {"counted", "shown"} => b.total = Cardinality(Matching(corpus, b.filters))
        /\ b.st = "shown" =>
              b.rows = {Row(corpus, h) : h \in RowsOf(corpus, b.filters, b.page, b.limit)}

BrowseInd ==
    /\ corpus \in Loads
    /\ browse # Nowhere => browse \in Browse /\ browse.own /\ Undisturbed(browse)

\* Predicates is a sequence of seven.
LEMMA PredicatesAre ==
    /\ DOMAIN Predicates = 1..7
    /\ \A i \in 1..7 : /\ Predicates[i].token \in GradeTokens
                       /\ Predicates[i] \in Range(Predicates)
    /\ \A p \in Range(Predicates) : \E i \in 1..7 : p = Predicates[i]
<1>1. DOMAIN Predicates = 1..7
  BY DEF Predicates
<1>. QED
  BY <1>1 DEF Range, GradeTokens

\* No text satisfies two of them, and no two have a token in common.
LEMMA PredicatesExclude ==
    ASSUME NEW groups, NEW i \in 1..7, NEW j \in 1..7
    PROVE  /\ Satisfies(groups, Predicates[i]) /\ Satisfies(groups, Predicates[j]) => i = j
           /\ Predicates[i].token = Predicates[j].token => i = j
<1>1. i \in {1, 2, 3, 4, 5, 6, 7} /\ j \in {1, 2, 3, 4, 5, 6, 7}
  OBVIOUS
<1>2. Predicates[i].token = Predicates[j].token => i = j
  BY <1>1 DEF Predicates
<1>3. Satisfies(groups, Predicates[i]) /\ Satisfies(groups, Predicates[j]) => i = j
  BY <1>1 DEF Predicates, Satisfies
<1>. QED
  BY <1>2, <1>3

\* normalize_grade is one of the predicates' tokens, or none holds.
LEMMA NormalizeIs ==
    ASSUME NEW raw
    PROVE  /\ NormalizeGrade(raw) \in GradeTokens \cup {Null}
           /\ raw # Null => \A i \in 1..7 : Satisfies(Groups(raw), Predicates[i]) =>
                                 NormalizeGrade(raw) = Predicates[i].token
           /\ (\A i \in 1..7 : ~Satisfies(Groups(raw), Predicates[i])) => NormalizeGrade(raw) = Null
<1>. DEFINE holding == {i \in DOMAIN Predicates : Satisfies(Groups(raw), Predicates[i])}
<1>1. holding \subseteq 1..7 /\ \A i \in 1..7 : i \in holding <=> Satisfies(Groups(raw), Predicates[i])
  BY PredicatesAre
<1>2. ASSUME NEW i \in holding, raw # Null
      PROVE  NormalizeGrade(raw) = Predicates[i].token
  <2>1. holding = {i}
    BY <1>1, PredicatesExclude
  <2>2. i \in Int
    BY <1>1
  <2>3. Min({i}) = i
    BY <2>2, OfOne
  <2>. QED
    BY <1>2, <2>1, <2>3 DEF NormalizeGrade
<1>3. holding = {} => NormalizeGrade(raw) = Null
  BY DEF NormalizeGrade
<1>4. raw = Null => NormalizeGrade(raw) = Null
  BY DEF NormalizeGrade
<1>. HIDE DEF holding
<1>. QED
  BY <1>1, <1>2, <1>3, <1>4, PredicatesAre

\* The grade filter finds exactly the hadiths with the badge that was asked for.
LEMMA BadgeIsFilter ==
    ASSUME NEW h, {h.linked, h.composite, h.flat} \subseteq Grades, Coalesced(h) # Empty,
           NEW token, token # Null
    PROVE  GradeFilter(token, Coalesced(h)) <=> NormalizeGrade(RawGrade(h)) = token
<1>. DEFINE c == Coalesced(h)
<1>1. CASE c = Null
  <2>1. h.linked = Null /\ h.composite = Null /\ h.flat = Null
    BY <1>1 DEF Coalesced
  <2>2. RawGrade(h) = Null
    BY <1>1, <2>1 DEF RawGrade
  <2>. QED
    BY <1>1, <2>2 DEF GradeFilter, NormalizeGrade
<1>2. CASE c # Null
  <2>1. RawGrade(h) = c
    BY <1>2 DEF RawGrade
  <2>. HIDE DEF c
  <2>2. ASSUME GradeFilter(token, c) PROVE NormalizeGrade(c) = token
    <3>1. PICK p \in Range(Predicates) : p.token = token /\ Satisfies(Groups(c), p)
      BY <2>2 DEF GradeFilter
    <3>2. PICK i \in 1..7 : p = Predicates[i]
      BY PredicatesAre
    <3>. QED
      BY <1>2, <3>1, <3>2, NormalizeIs
  <2>3. ASSUME NormalizeGrade(c) = token PROVE GradeFilter(token, c)
    <3>1. PICK i \in 1..7 : Satisfies(Groups(c), Predicates[i])
      BY <2>3, NormalizeIs
    <3>2. Predicates[i].token = token
      BY <1>2, <2>3, <3>1, NormalizeIs
    <3>3. Predicates[i] \in Range(Predicates)
      BY PredicatesAre
    <3>. QED
      BY <1>2, <3>1, <3>2, <3>3 DEF GradeFilter
  <2>. QED
    BY <2>1, <2>2, <2>3 DEF c
<1>. QED
  BY <1>1, <1>2

-----------------------------------------------------------------------------
(* The page *)

LEMMA MatchingIs ==
    ASSUME NEW g \in Loads, NEW filters
    PROVE  /\ Matching(g, filters) \subseteq DOMAIN g /\ AreNumbers(Matching(g, filters))
           /\ IsFiniteSet(Matching(g, filters)) /\ Cardinality(Matching(g, filters)) \in Nat
<1>1. Matching(g, filters) \subseteq DOMAIN g /\ AreNumbers(Matching(g, filters))
  BY LoadsAssumption DEF Matching, AreNumbers
<1>2. IsFiniteSet(DOMAIN g)
  BY LoadsAssumption
<1>. QED
  BY <1>1, <1>2, FS_Subset, FS_CardinalityType

LEMMA AskedIs ==
    ASSUME NEW b \in Browse
    PROVE  /\ Asked(b) \in Browse /\ Asked(b).st = "asked" /\ Asked(b).own = b.own
           /\ Asked(b).page = b.page /\ Asked(b).limit = b.limit /\ Asked(b).filters = b.filters
BY DEF Asked, Browse

\* A list is asked for: what was shown is gone, and the page is the first or one
\* of the same list.
LEMMA ShowInv ==
    ASSUME BrowseInd, NEW b \in Browse, Show(b),
           b.page = 1 \/ (b.filters = browse.filters /\ b.limit = browse.limit)
    PROVE  BrowseInd'
<1>. DEFINE own == b.page = 1 \/ <<b.filters, b.limit>> = <<browse.filters, browse.limit>>
            a == Asked(b)
            s == [a EXCEPT !.own = own]
<1>1. browse' = s /\ corpus' = corpus
  BY DEF Show
<1>2. own = TRUE
  OBVIOUS
<1>. HIDE DEF own
<1>3. a \in Browse /\ a.st = "asked"
  BY AskedIs
<1>. HIDE DEF a
<1>4. s \in Browse /\ s.own = TRUE /\ s.st = "asked"
  BY <1>2, <1>3 DEF Browse
<1>. HIDE DEF s
<1>. QED
  BY <1>1, <1>4 DEF BrowseInd, Undisturbed

LEMMA PageStep ==
    ASSUME BrowseInd, PageNext
    PROVE  BrowseInd'
<1>1. CASE MountHadiths
  <2>1. PICK limit \in {Min(PageSizes)} :
            Show([page |-> 1, limit |-> limit, filters |-> NoFilters, st |-> "asked", total |-> 0,
                  rows |-> {}, reloaded |-> FALSE, own |-> TRUE])
    BY <1>1 DEF MountHadiths
  <2>2. limit \in PageSizes
    <3>1. PageSizes \subseteq Int
      BY BrowseAssumption
    <3>. QED
      BY <2>1, <3>1, MinIs, BrowseAssumption
  <2>. DEFINE b == [page |-> 1, limit |-> limit, filters |-> NoFilters, st |-> "asked", total |-> 0,
                    rows |-> {}, reloaded |-> FALSE, own |-> TRUE]
  <2>3. NoFilters \in Filters
    BY DEF NoFilters, Filters
  <2>4. b \in Browse /\ b.page = 1 /\ Show(b)
    BY <2>1, <2>2, <2>3 DEF Browse
  <2>. HIDE DEF b
  <2>. QED
    BY <2>4, ShowInv
<1>2. CASE LeaveHadiths
  BY <1>2 DEF LeaveHadiths, BrowseInd
<1>3. ASSUME browse # Nowhere, NEW f \in Fields, NEW v \in Options[f] \cup {All}, ChangeFilter(f, v)
      PROVE  BrowseInd'
  <2>. DEFINE b == [browse EXCEPT !.filters[f] = v, !.page = 1]
  <2>1. browse \in Browse
    BY <1>3 DEF BrowseInd
  <2>2. [browse.filters EXCEPT ![f] = v] \in Filters
    <3>1. v \in STRING \cup {All}
      BY LoadsAssumption DEF Fields
    <3>2. browse.filters \in Filters
      BY <2>1 DEF Browse
    <3>. QED
      BY <3>1, <3>2 DEF Filters
  <2>3. b \in Browse /\ b.page = 1
    <3>1. PICK first \in Nat \ {0} : first = 1
      OBVIOUS
    <3>2. PICK filters \in Filters : filters = [browse.filters EXCEPT ![f] = v]
      BY <2>2
    <3>3. b = [browse EXCEPT !.filters = filters, !.page = first]
      BY <3>1, <3>2
    <3>. HIDE DEF b
    <3>. QED
      BY <2>1, <3>1, <3>3 DEF Browse
  <2>4. Show(b)
    BY <1>3 DEF ChangeFilter
  <2>. HIDE DEF b
  <2>. QED
    BY <2>3, <2>4, ShowInv
<1>4. ASSUME browse # Nowhere, NEW limit \in PageSizes, ChangeLimit(limit)
      PROVE  BrowseInd'
  <2>. DEFINE b == [browse EXCEPT !.limit = limit, !.page = 1]
  <2>1. browse \in Browse
    BY <1>4 DEF BrowseInd
  <2>2. b \in Browse /\ b.page = 1
    <3>1. PICK first \in Nat \ {0} : first = 1
      OBVIOUS
    <3>2. b = [browse EXCEPT !.limit = limit, !.page = first]
      BY <3>1
    <3>. HIDE DEF b
    <3>. QED
      BY <2>1, <3>1, <3>2 DEF Browse
  <2>3. Show(b)
    BY <1>4 DEF ChangeLimit
  <2>. HIDE DEF b
  <2>. QED
    BY <2>2, <2>3, ShowInv
<1>5. ASSUME browse # Nowhere, ClearAllFilters PROVE BrowseInd'
  <2>. DEFINE b == [browse EXCEPT !.filters = NoFilters, !.page = 1]
  <2>1. browse \in Browse
    BY <1>5 DEF BrowseInd
  <2>2. b \in Browse /\ b.page = 1
    <3>1. PICK first \in Nat \ {0} : first = 1
      OBVIOUS
    <3>2. NoFilters \in Filters
      BY DEF NoFilters, Filters
    <3>3. b = [browse EXCEPT !.filters = NoFilters, !.page = first]
      BY <3>1
    <3>. HIDE DEF b
    <3>. QED
      BY <2>1, <3>1, <3>2, <3>3 DEF Browse
  <2>3. Show(b)
    BY <1>5 DEF ClearAllFilters
  <2>. HIDE DEF b
  <2>. QED
    BY <2>2, <2>3, ShowInv
<1>6. ASSUME browse # Nowhere, NEW page \in 1 .. (browse.page + Pages(browse.total, browse.limit)),
             TurnPage(page)
      PROVE  BrowseInd'
  <2>. DEFINE b == [browse EXCEPT !.page = page]
  <2>1. browse \in Browse
    BY <1>6 DEF BrowseInd
  <2>2. page \in Nat \ {0}
    OBVIOUS
  <2>3. b \in Browse /\ b.filters = browse.filters /\ b.limit = browse.limit
    BY <2>1, <2>2 DEF Browse
  <2>4. Show(b)
    BY <1>6 DEF TurnPage
  <2>. HIDE DEF b
  <2>. QED
    BY <2>3, <2>4, ShowInv
<1>7. ASSUME browse # Nowhere, CountHadiths PROVE BrowseInd'
  <2>. DEFINE a == Asked(browse)
              n == Cardinality(Matching(corpus, browse.filters))
              s == [a EXCEPT !.st = "counted", !.total = n]
  <2>1. browse \in Browse /\ browse.own /\ corpus \in Loads
    BY <1>7 DEF BrowseInd
  <2>2. browse' = s /\ corpus' = corpus
    BY <1>7 DEF CountHadiths
  <2>3. n \in Nat
    BY <2>1, MatchingIs
  <2>4. a \in Browse /\ a.own /\ a.filters = browse.filters
    BY <2>1, AskedIs
  <2>5. n = Cardinality(Matching(corpus, a.filters))
    BY <2>4
  <2>. HIDE DEF a, n
  <2>6. s \in Browse /\ s.own /\ s.st = "counted" /\ s.total = n /\ s.filters = a.filters
    BY <2>3, <2>4 DEF Browse
  <2>. HIDE DEF s
  <2>7. Undisturbed(s)
    BY <2>5, <2>6 DEF Undisturbed
  <2>. QED
    BY <2>1, <2>2, <2>6, <2>7 DEF BrowseInd, Undisturbed
<1>8. ASSUME browse # Nowhere, ListHadiths PROVE BrowseInd'
  <2>. DEFINE rows == {Row(corpus, h) :
                          h \in RowsOf(corpus, browse.filters, browse.page, browse.limit)}
              s == [browse EXCEPT !.st = "shown", !.rows = rows]
  <2>1. browse \in Browse /\ browse.own /\ corpus \in Loads /\ Undisturbed(browse)
    BY <1>8 DEF BrowseInd
  <2>2. browse' = s /\ corpus' = corpus /\ browse.st = "counted"
    BY <1>8 DEF ListHadiths
  <2>3. rows \subseteq [id : Nat, raw : Grades, grade : GradeTokens \cup {Null}]
    <3>1. ASSUME NEW h \in DOMAIN corpus
          PROVE  Row(corpus, h) \in [id : Nat, raw : Grades, grade : GradeTokens \cup {Null}]
      <4>1. h \in Nat /\ {corpus[h].linked, corpus[h].composite, corpus[h].flat} \subseteq Grades
        BY <2>1, LoadsAssumption
      <4>2. RawGrade(corpus[h]) \in Grades
        BY <4>1 DEF RawGrade, Coalesced
      <4>. QED
        BY <4>1, <4>2, NormalizeIs DEF Row
    <3>2. RowsOf(corpus, browse.filters, browse.page, browse.limit) \subseteq DOMAIN corpus
      BY DEF RowsOf, Matching
    <3>. QED
      BY <3>1, <3>2
  <2>. HIDE DEF rows
  <2>4. /\ s \in Browse /\ s.own /\ s.st = "shown" /\ s.rows = rows /\ s.reloaded = browse.reloaded
        /\ s.total = browse.total /\ s.filters = browse.filters
        /\ s.page = browse.page /\ s.limit = browse.limit
    BY <2>1, <2>3 DEF Browse
  <2>. HIDE DEF s
  <2>5. Undisturbed(s)
    BY <2>1, <2>2, <2>4 DEF Undisturbed, rows
  <2>. QED
    BY <2>1, <2>2, <2>4, <2>5 DEF BrowseInd, Undisturbed
<1>9. ASSUME browse # Nowhere, ListLost PROVE BrowseInd'
  <2>. DEFINE a == Asked(browse)
              s == [a EXCEPT !.st = "failed"]
  <2>1. browse \in Browse /\ browse.own /\ corpus \in Loads
    BY <1>9 DEF BrowseInd
  <2>2. browse' = s /\ corpus' = corpus
    BY <1>9 DEF ListLost
  <2>3. a \in Browse /\ a.own
    BY <2>1, AskedIs
  <2>. HIDE DEF a
  <2>4. s \in Browse /\ s.own /\ s.st = "failed"
    BY <2>3 DEF Browse
  <2>. HIDE DEF s
  <2>. QED
    BY <2>1, <2>2, <2>4 DEF BrowseInd, Undisturbed
<1>. QED
  BY <1>1, <1>2, <1>3, <1>4, <1>5, <1>6, <1>7, <1>8, <1>9 DEF PageNext

LEMMA BrowseInitInv == BrowseInit => BrowseInd
BY DEF BrowseInit, BrowseInd

LEMMA BrowseStepInv == BrowseInd /\ [BrowseNext]_browseVars => BrowseInd'
<1>. SUFFICES ASSUME BrowseInd, [BrowseNext]_browseVars PROVE BrowseInd'
  OBVIOUS
<1>1. CASE corpus' = corpus /\ browse' = browse
  BY <1>1 DEF BrowseInd, Undisturbed
<1>2. CASE FacetsNext
  BY <1>1, <1>2 DEF FacetsNext, Tick, MissFacets, ComputeTopics, StoreFacets
<1>3. CASE PageNext
  BY <1>3, PageStep
<1>4. ASSUME NEW g \in Loads, Reload(g) PROVE BrowseInd'
  <2>1. corpus' = g /\ browse' = IF browse = Nowhere THEN browse ELSE [browse EXCEPT !.reloaded = TRUE]
    BY <1>4 DEF Reload
  <2>2. CASE browse = Nowhere
    BY <2>1, <2>2 DEF BrowseInd
  <2>3. CASE browse # Nowhere
    <3>1. browse \in Browse /\ browse.own
      BY <2>3 DEF BrowseInd
    <3>. DEFINE s == [browse EXCEPT !.reloaded = TRUE]
    <3>2. s \in Browse /\ s.own /\ s.reloaded
      BY <3>1 DEF Browse
    <3>. HIDE DEF s
    <3>3. browse' = s
      BY <2>1, <2>3 DEF s
    <3>. QED
      BY <2>1, <3>2, <3>3 DEF BrowseInd, Undisturbed
  <2>. QED
    BY <2>2, <2>3
<1>. QED
  BY <1>1, <1>2, <1>3, <1>4 DEF BrowseNext, browseVars

LEMMA RowsAreAPage ==
    ASSUME NEW g \in Loads, NEW filters, NEW limit \in Nat \ {0}, NEW S, S = Matching(g, filters),
           NEW Piece, Piece = [p \in Nat |-> RowsOf(g, filters, p, limit)],
           NEW L, L = Pages(Cardinality(S), limit)
    PROVE  /\ L \in Nat
           /\ \A x \in S : \E p \in 1..L : x \in Piece[p]
           /\ \A p \in Nat : Piece[p] \subseteq S
           /\ \A p, q \in Nat \ {0} : p # q => Piece[p] \cap Piece[q] = {}
           /\ \A p \in Nat \ {0} : p < L => IsFiniteSet(Piece[p]) /\ Cardinality(Piece[p]) = limit
           /\ \A p \in Nat \ {0} : p > L => Piece[p] = {}
<1>. DEFINE P == [x \in S |-> Cardinality({k \in S : k <= x})]
<1>1. IsFiniteSet(S) /\ AreNumbers(S)
  BY MatchingIs
<1>2. Piece = [p \in Nat |-> {x \in S : P[x] \in PageOf(p, limit)}]
  BY DEF RowsOf, PageOf
<1>3. L = LastPage(Cardinality(S), limit)
  BY DEF Pages, LastPage
<1>4. Numbering(P, S)
  <2>1. P = [x \in S |-> Cardinality({k \in S : k <= x})]
    OBVIOUS
  <2>. HIDE DEF P
  <2>. QED
    BY <1>1, <2>1, PlacesUp
<1>. HIDE DEF P
<1>. QED
  BY <1>1, <1>2, <1>3, <1>4, PagesTheSet

LEMMA TilesGiven == BrowseInd => PagesTile
<1>. SUFFICES ASSUME BrowseInd, browse # Nowhere, browse.st = "shown", ~browse.reloaded
              PROVE  LET all == Matching(corpus, browse.filters)
                         last == Pages(browse.total, browse.limit)
                         Of(page) == RowsOf(corpus, browse.filters, page, browse.limit)
                     IN /\ UNION {Of(page) : page \in 1..last} = all
                        /\ \A p, q \in 1..last : p # q => Of(p) \cap Of(q) = {}
                        /\ browse.page < last => Cardinality(browse.rows) = browse.limit
                        /\ browse.page > last => browse.rows = {}
  BY DEF PagesTile
<1>. DEFINE all == Matching(corpus, browse.filters)
            last == Pages(browse.total, browse.limit)
            Of(page) == RowsOf(corpus, browse.filters, page, browse.limit)
            Piece == [p \in Nat |-> Of(p)]
<1>1. /\ browse \in Browse /\ corpus \in Loads /\ browse.total = Cardinality(all)
      /\ browse.rows = {Row(corpus, h) : h \in Of(browse.page)}
  BY DEF BrowseInd, Undisturbed
<1>2. browse.limit \in Nat \ {0} /\ browse.page \in Nat \ {0}
  BY <1>1, BrowseAssumption DEF Browse
<1>3. /\ last \in Nat
      /\ \A x \in all : \E p \in 1..last : x \in Piece[p]
      /\ \A p \in Nat : Piece[p] \subseteq all
      /\ \A p, q \in Nat \ {0} : p # q => Piece[p] \cap Piece[q] = {}
      /\ \A p \in Nat \ {0} : p < last => IsFiniteSet(Piece[p]) /\ Cardinality(Piece[p]) = browse.limit
      /\ \A p \in Nat \ {0} : p > last => Piece[p] = {}
  <2>1. /\ all = Matching(corpus, browse.filters)
        /\ Piece = [p \in Nat |-> RowsOf(corpus, browse.filters, p, browse.limit)]
        /\ last = Pages(Cardinality(all), browse.limit)
    BY <1>1
  <2>. HIDE DEF all, Piece, last
  <2>. QED
    BY <1>1, <1>2, <2>1, RowsAreAPage
<1>. HIDE DEF all, last
<1>4. \A p \in Nat : Piece[p] = Of(p)
  OBVIOUS
<1>5. 1..last \subseteq Nat \ {0}
  BY <1>3
<1>. HIDE DEF Of, Piece
<1>6. UNION {Of(page) : page \in 1..last} = all
  BY <1>3, <1>4, <1>5
<1>7. \A p, q \in 1..last : p # q => Of(p) \cap Of(q) = {}
  BY <1>3, <1>4, <1>5
<1>8. ASSUME browse.page < last PROVE Cardinality(browse.rows) = browse.limit
  <2>. DEFINE f == [h \in Of(browse.page) |-> Row(corpus, h)]
  <2>1. IsFiniteSet(Of(browse.page)) /\ Cardinality(Of(browse.page)) = browse.limit
    BY <1>2, <1>3, <1>4, <1>8
  <2>2. f \in Bijection(Of(browse.page), browse.rows)
    <3>1. \A h, k \in Of(browse.page) : Row(corpus, h) = Row(corpus, k) => h = k
      BY DEF Row
    <3>. QED
      BY <1>1, <3>1 DEF Bijection, Injection, Surjection, IsInjective
  <2>. QED
    BY <2>1, <2>2, FS_Bijection DEF ExistsBijection
<1>9. browse.page > last => browse.rows = {}
  BY <1>1, <1>2, <1>3, <1>4
<1>. QED
  BY <1>6, <1>7, <1>8, <1>9 DEF all, last, Of

LEMMA ExactGiven == BrowseInd => FilterIsExact
<1>. SUFFICES ASSUME BrowseInd, browse # Nowhere, browse.st = "shown", ~browse.reloaded,
                     \A h \in DOMAIN corpus : Coalesced(corpus[h]) # Empty,
                     "grade" \in Fields, browse.filters["grade"] # All
              PROVE  LET token == browse.filters["grade"]
                         others == [browse.filters EXCEPT !["grade"] = All]
                     IN /\ \A row \in browse.rows : row.grade = token
                        /\ browse.total = Cardinality({h \in Matching(corpus, others) :
                                                          Row(corpus, h).grade = token})
  BY DEF FilterIsExact
<1>. DEFINE token == browse.filters["grade"]
            others == [browse.filters EXCEPT !["grade"] = All]
<1>1. /\ browse \in Browse /\ corpus \in Loads
      /\ browse.total = Cardinality(Matching(corpus, browse.filters))
      /\ browse.rows = {Row(corpus, h) :
                           h \in RowsOf(corpus, browse.filters, browse.page, browse.limit)}
  BY DEF BrowseInd, Undisturbed
<1>2. browse.filters \in Filters /\ token \in STRING
  BY <1>1 DEF Browse, Filters, All
<1>3. token # Null
  BY <1>2, LoadsAssumption
<1>4. ASSUME NEW h \in DOMAIN corpus
      PROVE  Admits(corpus[h], browse.filters) <=>
                Admits(corpus[h], others) /\ Row(corpus, h).grade = token
  <2>1. {corpus[h].linked, corpus[h].composite, corpus[h].flat} \subseteq Grades
    BY <1>1, LoadsAssumption
  <2>2. GradeFilter(token, Coalesced(corpus[h])) <=> Row(corpus, h).grade = token
    BY <1>3, <2>1, BadgeIsFilter DEF Row
  <2>3. /\ others["grade"] = All
        /\ \A f \in Fields : f # "grade" => others[f] = browse.filters[f]
    BY <1>2 DEF Filters
  <2>. QED
    BY <2>2, <2>3 DEF Admits
<1>5. Matching(corpus, browse.filters) =
        {h \in Matching(corpus, others) : Row(corpus, h).grade = token}
  BY <1>4 DEF Matching
<1>6. RowsOf(corpus, browse.filters, browse.page, browse.limit) \subseteq Matching(corpus, browse.filters)
  BY DEF RowsOf
<1>. QED
  BY <1>1, <1>5, <1>6

-----------------------------------------------------------------------------
(* The facets *)

Values == {FacetValue(Sources(g), AggregateTopics(TagGroups(k)), late) :
              g \in Loads, k \in Loads, late \in BOOLEAN}

Calling == [st : {"idle", "topics", "write"},
            sources : {Sources(g) : g \in Loads} \cup {{}},
            facets : Values \cup {Nowhere}, late : BOOLEAN]

\* What one call may have read, the graph being g: unless a reload overlapped it,
\* what it has read is of that graph.
CallOf(call, g) ==
    /\ call.st # "idle" => call.sources \in {Sources(k) : k \in Loads}
    /\ call.st = "topics" /\ ~call.late => call.sources = Sources(g)
    /\ call.st = "write" => call.facets \in Values /\ ~call.facets.late
    /\ call.st = "write" /\ ~call.late => call.facets = TrueFacets(g)

\* What is kept is the graph's, or has been since before the last reload.
FacetsInd ==
    /\ corpus \in Loads /\ since \in 0..MaxTime
    /\ kept # Nowhere =>
          /\ kept \in [value : Values, age : 0..(FacetsTTL - 1)]
          /\ ~kept.value.late => kept.value = TrueFacets(corpus) \/ since <= kept.age
    /\ calls \in [Calls -> Calling]
    /\ \A c \in Calls : CallOf(calls[c], corpus)

LEMMA FacetsInitInv == BrowseInit => FacetsInd
<1>. SUFFICES ASSUME BrowseInit PROVE FacetsInd
  OBVIOUS
<1>1. 0 \in 0..MaxTime
  BY BrowseAssumption
<1>. QED
  BY <1>1 DEF BrowseInit, FacetsInd, Calling, CallOf

LEMMA ValuesAre ==
    ASSUME NEW g \in Loads, NEW k \in Loads
    PROVE  /\ FacetValue(Sources(g), AggregateTopics(TagGroups(k)), FALSE) \in Values
           /\ ~FacetValue(Sources(g), AggregateTopics(TagGroups(k)), FALSE).late
           /\ TrueFacets(k) \in Values /\ ~TrueFacets(k).late
<1>1. /\ FacetValue(Sources(g), AggregateTopics(TagGroups(k)), FALSE) \in Values
      /\ TrueFacets(k) \in Values
  <2>1. \A a \in Loads, late \in BOOLEAN :
            FacetValue(Sources(a), AggregateTopics(TagGroups(k)), late) \in Values
    BY DEF Values
  <2>. QED
    BY <2>1 DEF TrueFacets
<1>2. \A s, t : ~FacetValue(s, t, FALSE).late
  BY DEF FacetValue
<1>. QED
  BY <1>1, <1>2 DEF TrueFacets

LEMMA LateValue ==
    ASSUME NEW v \in Values, ~v.late, NEW late \in BOOLEAN, NEW w, w = [v EXCEPT !.late = late]
    PROVE  w \in Values /\ w.late = late /\ (~late => w = v)
<1>1. PICK g \in Loads, k \in Loads : \E l \in BOOLEAN :
          v = FacetValue(Sources(g), AggregateTopics(TagGroups(k)), l)
  BY DEF Values
<1>. DEFINE s == Sources(g)
            t == AggregateTopics(TagGroups(k))
<1>2. PICK l \in BOOLEAN : v = FacetValue(s, t, l)
  BY <1>1
<1>3. \A x \in BOOLEAN : FacetValue(s, t, x) \in Values
  BY DEF Values
<1>. HIDE DEF s, t
<1>4. w = FacetValue(s, t, late) /\ w.late = late /\ (~late => w = v)
  BY <1>2 DEF FacetValue
<1>. QED
  BY <1>3, <1>4

LEMMA CallChanges ==
    ASSUME FacetsInd, NEW c \in Calls, NEW call \in Calling, CallOf(call, corpus),
           calls' = [calls EXCEPT ![c] = call]
    PROVE  /\ calls' \in [Calls -> Calling]
           /\ \A d \in Calls : CallOf(calls'[d], corpus)
BY DEF FacetsInd, Calling, CallOf

LEMMA FacetsStep ==
    ASSUME FacetsInd, FacetsNext
    PROVE  FacetsInd'
<1>1. /\ corpus \in Loads /\ since \in 0..MaxTime /\ calls \in [Calls -> Calling]
      /\ \A c \in Calls : CallOf(calls[c], corpus)
  BY DEF FacetsInd, Calling, CallOf
<1>2. CASE Tick
  <2>1. /\ since' = Min({since + 1, MaxTime}) /\ corpus' = corpus /\ calls' = calls
        /\ kept' = IF kept = Nowhere \/ kept.age + 1 >= FacetsTTL THEN Nowhere
                                                                  ELSE [kept EXCEPT !.age = @ + 1]
    BY <1>2 DEF Tick
  <2>2. since' \in {since + 1, MaxTime} /\ since' <= since + 1 /\ since' <= MaxTime
    <3>1. since + 1 \in Int /\ MaxTime \in Int
      BY <1>1, BrowseAssumption
    <3>. QED
      BY <2>1, <3>1, OfTwo
  <2>3. since' \in 0..MaxTime
    BY <1>1, <2>2, BrowseAssumption
  <2>4. ASSUME kept' # Nowhere
        PROVE  /\ kept' \in [value : Values, age : 0..(FacetsTTL - 1)]
               /\ ~kept'.value.late => kept'.value = TrueFacets(corpus) \/ since' <= kept'.age
    <3>1. kept # Nowhere /\ kept.age + 1 < FacetsTTL /\ kept' = [kept EXCEPT !.age = @ + 1]
      <4>1. kept # Nowhere /\ ~(kept.age + 1 >= FacetsTTL) /\ kept' = [kept EXCEPT !.age = @ + 1]
        BY <2>1, <2>4
      <4>2. kept.age \in Nat
        BY <4>1, BrowseAssumption DEF FacetsInd
      <4>. QED
        BY <4>1, <4>2, BrowseAssumption
    <3>2. /\ kept \in [value : Values, age : 0..(FacetsTTL - 1)]
          /\ ~kept.value.late => kept.value = TrueFacets(corpus) \/ since <= kept.age
      BY <3>1 DEF FacetsInd
    <3>3. /\ kept' \in [value : Values, age : 0..(FacetsTTL - 1)]
          /\ kept'.value = kept.value /\ kept'.age = kept.age + 1
      BY <3>1, <3>2, BrowseAssumption
    <3>. QED
      BY <1>1, <2>2, <3>2, <3>3, BrowseAssumption
  <2>. QED
    BY <1>1, <2>1, <2>3, <2>4 DEF FacetsInd, Calling, CallOf, TrueFacets
<1>3. ASSUME NEW c \in Calls, MissFacets(c) PROVE FacetsInd'
  <2>. DEFINE call == [st |-> "topics", sources |-> Sources(corpus), facets |-> Nowhere, late |-> FALSE]
  <2>1. /\ calls' = [calls EXCEPT ![c] = call]
        /\ corpus' = corpus /\ since' = since /\ kept' = kept
    BY <1>3 DEF MissFacets
  <2>2. call \in Calling /\ CallOf(call, corpus)
    BY <1>1 DEF Calling, CallOf
  <2>. HIDE DEF call
  <2>3. calls' \in [Calls -> Calling] /\ \A d \in Calls : CallOf(calls'[d], corpus)
    BY <2>1, <2>2, CallChanges
  <2>. QED
    BY <1>1, <2>1, <2>3 DEF FacetsInd, Calling, CallOf, TrueFacets
<1>4. ASSUME NEW c \in Calls, ComputeTopics(c) PROVE FacetsInd'
  <2>. DEFINE old == calls[c]
              v == FacetValue(old.sources, AggregateTopics(TagGroups(corpus)), FALSE)
              call == [old EXCEPT !.st = "write", !.facets = v]
  <2>1. /\ calls' = [calls EXCEPT ![c] = call] /\ old.st = "topics"
        /\ corpus' = corpus /\ since' = since /\ kept' = kept
    BY <1>1, <1>4 DEF ComputeTopics
  <2>2. old \in Calling /\ CallOf(old, corpus)
    BY <1>1
  <2>. HIDE DEF old
  <2>3. PICK g \in Loads : old.sources = Sources(g)
    BY <2>1, <2>2 DEF CallOf
  <2>4. v \in Values /\ ~v.late /\ (~old.late => v = TrueFacets(corpus))
    <3>1. v \in Values /\ ~v.late
      BY <1>1, <2>3, ValuesAre
    <3>2. ~old.late => old.sources = Sources(corpus)
      BY <2>1, <2>2 DEF CallOf
    <3>. QED
      BY <3>1, <3>2 DEF TrueFacets
  <2>. HIDE DEF v
  <2>5. /\ call \in Calling /\ call.st = "write" /\ call.facets = v /\ call.late = old.late
        /\ call.sources = old.sources
    BY <2>2, <2>4 DEF Calling
  <2>. HIDE DEF call
  <2>6. CallOf(call, corpus)
    BY <2>3, <2>4, <2>5 DEF CallOf
  <2>7. calls' \in [Calls -> Calling] /\ \A d \in Calls : CallOf(calls'[d], corpus)
    BY <2>1, <2>5, <2>6, CallChanges
  <2>. QED
    BY <1>1, <2>1, <2>7 DEF FacetsInd, Calling, CallOf, TrueFacets
<1>5. ASSUME NEW c \in Calls, StoreFacets(c) PROVE FacetsInd'
  <2>. DEFINE old == calls[c]
              v == [old.facets EXCEPT !.late = old.late]
              call == [st |-> "idle", sources |-> {}, facets |-> Nowhere, late |-> FALSE]
  <2>1. /\ calls' = [calls EXCEPT ![c] = call] /\ old.st = "write"
        /\ corpus' = corpus /\ since' = since /\ kept' \in {kept, [value |-> v, age |-> 0]}
    BY <1>1, <1>5 DEF StoreFacets
  <2>2. old \in Calling /\ CallOf(old, corpus)
    BY <1>1
  <2>. HIDE DEF old
  <2>3. old.facets \in Values /\ ~old.facets.late /\ old.late \in BOOLEAN
    BY <2>1, <2>2 DEF CallOf, Calling
  <2>4. v \in Values /\ v.late = old.late /\ (~old.late => v = old.facets)
    BY <2>3, LateValue
  <2>5. ~v.late => v = TrueFacets(corpus)
    BY <2>1, <2>2, <2>4 DEF CallOf
  <2>. HIDE DEF v
  <2>6. call \in Calling /\ CallOf(call, corpus)
    BY DEF Calling, CallOf
  <2>. HIDE DEF call
  <2>7. calls' \in [Calls -> Calling] /\ \A d \in Calls : CallOf(calls'[d], corpus)
    BY <2>1, <2>6, CallChanges
  <2>8. kept' # Nowhere =>
          /\ kept' \in [value : Values, age : 0..(FacetsTTL - 1)]
          /\ ~kept'.value.late => kept'.value = TrueFacets(corpus) \/ since <= kept'.age
    <3>1. CASE kept' = kept
      BY <3>1 DEF FacetsInd
    <3>2. CASE kept' = [value |-> v, age |-> 0]
      BY <2>4, <2>5, <3>2, BrowseAssumption
    <3>. QED
      BY <2>1, <3>1, <3>2
  <2>. QED
    BY <1>1, <2>1, <2>7, <2>8 DEF FacetsInd, Calling, CallOf, TrueFacets
<1>. QED
  BY <1>2, <1>3, <1>4, <1>5 DEF FacetsNext

LEMMA FacetsStepInv == FacetsInd /\ [BrowseNext]_browseVars => FacetsInd'
<1>. SUFFICES ASSUME FacetsInd, [BrowseNext]_browseVars PROVE FacetsInd'
  OBVIOUS
<1>1. CASE corpus' = corpus /\ since' = since /\ kept' = kept /\ calls' = calls
  BY <1>1 DEF FacetsInd, CallOf, TrueFacets
<1>2. CASE FacetsNext
  BY <1>2, FacetsStep
<1>3. CASE PageNext
  BY <1>1, <1>3 DEF PageNext, MountHadiths, LeaveHadiths, ChangeFilter, ChangeLimit, TurnPage,
                   ClearAllFilters, CountHadiths, ListHadiths, ListLost, Show
<1>4. ASSUME NEW g \in Loads, Reload(g) PROVE FacetsInd'
  <2>1. /\ corpus' = g /\ since' = 0 /\ kept' = kept
        /\ calls' = [c \in Calls |-> IF calls[c].st = "idle" THEN calls[c]
                                                           ELSE [calls[c] EXCEPT !.late = TRUE]]
    BY <1>4 DEF Reload
  <2>2. calls \in [Calls -> Calling] /\ \A c \in Calls : CallOf(calls[c], corpus)
    BY DEF FacetsInd, Calling, CallOf
  <2>3. ASSUME NEW c \in Calls PROVE calls'[c] \in Calling /\ CallOf(calls'[c], g)
    <3>. DEFINE old == calls[c]
                call == [old EXCEPT !.late = TRUE]
    <3>1. old \in Calling /\ CallOf(old, corpus)
      BY <2>2
    <3>2. calls'[c] = IF old.st = "idle" THEN old ELSE call
      BY <2>1
    <3>. HIDE DEF old
    <3>3. /\ call \in Calling /\ call.late /\ call.st = old.st
          /\ call.sources = old.sources /\ call.facets = old.facets
      BY <3>1 DEF Calling
    <3>. HIDE DEF call
    <3>4. CallOf(call, g)
      BY <3>1, <3>3 DEF CallOf
    <3>5. old.st = "idle" => CallOf(old, g)
      BY DEF CallOf
    <3>. QED
      BY <3>1, <3>2, <3>3, <3>4, <3>5
  <2>4. kept' # Nowhere =>
          /\ kept' \in [value : Values, age : 0..(FacetsTTL - 1)]
          /\ since' <= kept'.age
    BY <2>1, BrowseAssumption DEF FacetsInd
  <2>5. calls' \in [Calls -> Calling]
    BY <2>1, <2>3
  <2>6. since' \in 0..MaxTime
    BY <2>1, BrowseAssumption
  <2>. QED
    BY <2>1, <2>3, <2>4, <2>5, <2>6 DEF FacetsInd, Calling, CallOf, TrueFacets
<1>. QED
  BY <1>1, <1>2, <1>3, <1>4 DEF BrowseNext, browseVars

LEMMA StaleGiven == FacetsInd => StaleOnlyByOverlap
<1>. SUFFICES ASSUME FacetsInd, kept # Nowhere, ~kept.value.late, since >= FacetsTTL
              PROVE  kept.value = TrueFacets(corpus)
  BY DEF StaleOnlyByOverlap
<1>1. kept.age \in 0..(FacetsTTL - 1) /\ (kept.value = TrueFacets(corpus) \/ since <= kept.age)
      /\ since \in 0..MaxTime
  BY DEF FacetsInd
<1>. QED
  BY <1>1, BrowseAssumption

\* The hadiths of some groups are as many as the groups count together.
LEMMA GroupsCount ==
    ASSUME NEW g \in Loads, NEW Q \in SUBSET DOMAIN TagGroups(g)
    PROVE  MapThenSumSet(LAMBDA tags : TagGroups(g)[tags], Q)
              = Cardinality({h \in DOMAIN g : g[h].tags \in Q})
<1>. DEFINE w == TagGroups(g)
            Of(s) == {h \in DOMAIN g : g[h].tags \in s}
            G == [s \in SUBSET Q |-> Cardinality(Of(s))]
<1>1. IsFiniteSet(DOMAIN g)
  BY LoadsAssumption
<1>2. IsFiniteSet(Q)
  <2>1. DOMAIN w = {g[h].tags : h \in DOMAIN g}
    BY DEF TagGroups
  <2>2. IsFiniteSet({g[h].tags : h \in DOMAIN g})
    <3>. DEFINE f == [h \in DOMAIN g |-> g[h].tags]
    <3>1. f \in Surjection(DOMAIN g, {g[h].tags : h \in DOMAIN g})
      BY DEF Surjection
    <3>. QED
      BY <1>1, <3>1, FS_Surjection
  <2>. QED
    BY <2>1, <2>2, FS_Subset
<1>3. ASSUME NEW s \in SUBSET Q, s # {}, NEW x \in s
      PROVE  Cardinality(Of(s)) = w[x] + Cardinality(Of(s \ {x}))
  <2>1. w[x] = Cardinality({h \in DOMAIN g : g[h].tags = x})
    BY DEF TagGroups
  <2>2. /\ IsFiniteSet({h \in DOMAIN g : g[h].tags = x}) /\ IsFiniteSet(Of(s \ {x}))
        /\ Cardinality({h \in DOMAIN g : g[h].tags = x}) \in Nat
        /\ Cardinality(Of(s \ {x})) \in Nat
    BY <1>1, FS_Subset, FS_CardinalityType
  <2>3. /\ Of(s) = {h \in DOMAIN g : g[h].tags = x} \cup Of(s \ {x})
        /\ {h \in DOMAIN g : g[h].tags = x} \cap Of(s \ {x}) = {}
    BY <1>3
  <2>. HIDE DEF Of, w
  <2>4. Cardinality(Of(s)) = w[x] + Cardinality(Of(s \ {x})) - Cardinality({})
    BY <2>1, <2>2, <2>3, FS_Union
  <2>. QED
    BY <2>1, <2>2, <2>4, FS_EmptySet
<1>4. Sums(G, w, Q)
  <2>1. ASSUME NEW s \in SUBSET Q
        PROVE  G[s] = IF s = {} THEN 0
                      ELSE w[CHOOSE x \in s : TRUE] + G[s \ {CHOOSE x \in s : TRUE}]
    <3>1. CASE s = {}
      <4>1. Of(s) = {}
        BY <3>1
      <4>. QED
        BY <3>1, <4>1, FS_EmptySet
    <3>2. CASE s # {}
      <4>1. PICK y \in s : y = CHOOSE x \in s : TRUE
        BY <3>2
      <4>2. s \ {y} \in SUBSET Q /\ G[s] = Cardinality(Of(s)) /\ G[s \ {y}] = Cardinality(Of(s \ {y}))
        OBVIOUS
      <4>3. Cardinality(Of(s)) = w[y] + Cardinality(Of(s \ {y}))
        BY <1>3, <3>2
      <4>. QED
        BY <3>2, <4>1, <4>2, <4>3
    <3>. QED
      BY <3>1, <3>2
  <2>2. G = [s \in SUBSET Q |-> G[s]]
    OBVIOUS
  <2>. HIDE DEF G, w
  <2>. QED
    BY <2>1, <2>2 DEF Sums
<1>5. G[Q] = Cardinality(Of(Q))
  OBVIOUS
<1>6. MapThenSumSet(LAMBDA x : w[x], Q) = G[Q]
  <2>. HIDE DEF G, w
  <2>. QED
    BY <1>2, <1>4, SumIs
<1>. QED
  BY <1>5, <1>6

LEMMA TopicsAre ==
    ASSUME NEW tags
    PROVE  CanonicalTopics(tags) \subseteq TopicTokens
<1>1. ASSUME NEW tag PROVE NormalizeTopic(tag) \in TopicTokens \cup {Null}
  <2>. DEFINE matching == {i \in DOMAIN TopicPriority : TopicPriority[i] \in tag}
  <2>1. DOMAIN TopicPriority = 1..8 /\ matching \subseteq 1..8 /\ matching \subseteq Int
    BY DEF TopicPriority
  <2>2. IsFiniteSet(matching)
    <3>1. IsFiniteSet(1..8)
      <4>1. 1 \in Int /\ 8 \in Int
        OBVIOUS
      <4>. QED
        BY <4>1, FS_Interval, Zenon
    <3>. HIDE DEF matching
    <3>. QED
      BY <2>1, <3>1, FS_Subset
  <2>3. matching # {} => Min(matching) \in matching
    <3>. HIDE DEF matching
    <3>. QED
      BY <2>1, <2>2, MinIs
  <2>4. \A i \in matching : TopicPriority[i] \in TopicTokens
    BY DEF TopicTokens, Range
  <2>5. NormalizeTopic(tag) = IF matching = {} THEN Null ELSE TopicPriority[Min(matching)]
    BY DEF NormalizeTopic
  <2>. HIDE DEF matching
  <2>. QED
    BY <2>3, <2>4, <2>5
<1>. QED
  BY <1>1 DEF CanonicalTopics

LEMMA UncategorizedIsNone == Uncategorized \notin TopicTokens
<1>1. DOMAIN TopicPriority = 1..8
  BY DEF TopicPriority
<1>2. ASSUME NEW i \in 1..8 PROVE TopicPriority[i] # Uncategorized
  <2>1. i \in {1, 2, 3, 4, 5, 6, 7, 8}
    OBVIOUS
  <2>. QED
    BY <2>1 DEF TopicPriority, Uncategorized
<1>. QED
  BY <1>1, <1>2 DEF TopicTokens, Range

\* aggregate_topic_facets_from_counts, over the graph's own groups.
LEMMA FacetCounts ==
    ASSUME NEW g \in Loads, NEW topics, topics = AggregateTopics(TagGroups(g)),
           NEW value \in TopicTokens \cup {Uncategorized}
    PROVE  topics[value] = Cardinality(
               {h \in DOMAIN g : IF value = Uncategorized THEN CanonicalTopics(g[h].tags) = {}
                                                          ELSE value \in CanonicalTopics(g[h].tags)})
<1>. DEFINE groups == TagGroups(g)
            Sum(S) == MapThenSumSet(LAMBDA tags : groups[tags], S)
            none == {tags \in DOMAIN groups : CanonicalTopics(tags) = {}}
            some == {tags \in DOMAIN groups : value \in CanonicalTopics(tags)}
<1>1. DOMAIN groups = {g[h].tags : h \in DOMAIN g}
  BY DEF TagGroups
<1>2. topics[value] = IF value = Uncategorized THEN Sum(none) ELSE Sum(some)
  BY DEF AggregateTopics
<1>3. Sum(none) = Cardinality({h \in DOMAIN g : g[h].tags \in none})
  <2>. HIDE DEF none
  <2>1. none \in SUBSET DOMAIN TagGroups(g)
    BY DEF none
  <2>. QED
    BY <2>1, GroupsCount
<1>4. Sum(some) = Cardinality({h \in DOMAIN g : g[h].tags \in some})
  <2>. HIDE DEF some
  <2>1. some \in SUBSET DOMAIN TagGroups(g)
    BY DEF some
  <2>. QED
    BY <2>1, GroupsCount
<1>5. /\ {h \in DOMAIN g : g[h].tags \in none} = {h \in DOMAIN g : CanonicalTopics(g[h].tags) = {}}
      /\ {h \in DOMAIN g : g[h].tags \in some} = {h \in DOMAIN g : value \in CanonicalTopics(g[h].tags)}
  BY <1>1
<1>. HIDE DEF Sum, none, some
<1>. QED
  BY <1>2, <1>3, <1>4, <1>5

LEMMA CountsGiven == FacetsInd => FacetsCountHadiths
<1>. SUFFICES ASSUME FacetsInd, kept # Nowhere, ~kept.value.late, since >= FacetsTTL
              PROVE  LET topics == kept.value.topics
                         Of(value) == {h \in DOMAIN corpus :
                                          LET own == CanonicalTopics(corpus[h].tags)
                                          IN IF value = Uncategorized THEN own = {} ELSE value \in own}
                     IN /\ \A value \in DOMAIN topics : topics[value] = Cardinality(Of(value))
                        /\ UNION {Of(value) : value \in DOMAIN topics} = DOMAIN corpus
  BY DEF FacetsCountHadiths
<1>. DEFINE topics == kept.value.topics
            Of(value) == {h \in DOMAIN corpus :
                             IF value = Uncategorized THEN CanonicalTopics(corpus[h].tags) = {}
                                                      ELSE value \in CanonicalTopics(corpus[h].tags)}
<1>1. corpus \in Loads /\ topics = AggregateTopics(TagGroups(corpus))
  <2>1. corpus \in Loads /\ kept.value = TrueFacets(corpus)
    BY StaleGiven DEF FacetsInd, StaleOnlyByOverlap
  <2>2. \A s, t, late : FacetValue(s, t, late).topics = t
    BY DEF FacetValue
  <2>3. TrueFacets(corpus).topics = AggregateTopics(TagGroups(corpus))
    BY <2>2 DEF TrueFacets
  <2>4. kept.value.topics = AggregateTopics(TagGroups(corpus))
    BY <2>1, <2>3, Zenon
  <2>. QED
    BY <2>1, <2>4
<1>2. DOMAIN topics = TopicTokens \cup {Uncategorized}
  BY <1>1 DEF AggregateTopics
<1>3. ASSUME NEW value \in DOMAIN topics PROVE topics[value] = Cardinality(Of(value))
  <2>. HIDE DEF topics
  <2>. QED
    BY <1>1, <1>2, FacetCounts
<1>4. ASSUME NEW h \in DOMAIN corpus PROVE \E value \in DOMAIN topics : h \in Of(value)
  <2>1. CASE CanonicalTopics(corpus[h].tags) = {}
    BY <1>2, <2>1
  <2>2. CASE CanonicalTopics(corpus[h].tags) # {}
    <3>1. PICK value \in TopicTokens : value \in CanonicalTopics(corpus[h].tags)
      BY <2>2, TopicsAre
    <3>2. value # Uncategorized
      BY UncategorizedIsNone
    <3>. QED
      BY <1>2, <3>1, <3>2
  <2>. QED
    BY <2>1, <2>2
<1>5. UNION {Of(value) : value \in DOMAIN topics} = DOMAIN corpus
  BY <1>4
<1>. QED
  BY <1>3, <1>5

\* In every reachable state, the list that is shown is a page of what matches, the
\* pages cover it, its badges are what the filter asked for, and the page was
\* chosen in this list.
THEOREM BrowseInvariant == BrowseSpec => []BrowseInv
<1>1. BrowseInd /\ FacetsInd => BrowseInv
  <2>1. BrowseInd /\ FacetsInd => BrowseTypeOK
    BY DEF BrowseInd, FacetsInd, BrowseTypeOK
  <2>2. BrowseInd => PageOwnsFilters
    BY DEF BrowseInd, PageOwnsFilters
  <2>. QED
    BY <2>1, <2>2, TilesGiven, ExactGiven DEF BrowseInv
<1>. QED
  BY <1>1, BrowseInitInv, BrowseStepInv, FacetsInitInv, FacetsStepInv, PTL DEF BrowseSpec

\* In every reachable state, facets that no reload overlapped and that are kept for
\* as long as their time to live are those of the graph, and count its hadiths.
THEOREM FacetsInvariant == BrowseSpec => []FacetsInv
<1>1. FacetsInd => FacetsInv
  BY StaleGiven, CountsGiven DEF FacetsInv
<1>. QED
  BY <1>1, FacetsInitInv, FacetsStepInv, PTL DEF BrowseSpec

-----------------------------------------------------------------------------
(* Timeline *)

\* The query for the lanes computes the window of the overlay job.
LEMMA CypherAgrees ==
    ASSUME NEW d \in NarratorDates
    PROVE  /\ CypherWindow(d) = ActiveWindow(d)
           /\ ActiveWindow(d) # None => ActiveWindow(d) \in Int \X Int
<1>1. EffBirth(d) \in Year /\ EffDeath(d) \in Year
  BY DEF NarratorDates, EffBirth, EffDeath
<1>. DEFINE b == EffBirth(d)
            e == EffDeath(d)
<1>2. CypherWindow(d) = ActiveWindow(d)
  BY <1>1 DEF CypherWindow, ActiveWindow
<1>3. ActiveWindow(d) # None => ActiveWindow(d) \in Int \X Int
  BY <1>1, YearsAssumption DEF ActiveWindow, Year
<1>. QED
  BY <1>2, <1>3

LEMMA RangeIs ==
    ASSUME NEW g \in Histories
    PROVE  /\ TimelineRange(g) \in Ranges
           /\ (\A e \in DOMAIN g.events : g.events[e].start <= EventSpan(g.events[e])[2]) =>
                 \A e \in DOMAIN g.events : Within(g.events[e].start, TimelineRange(g))
<1>. DEFINE ids == DOMAIN g.events
<1>1. IsFiniteSet(ids) /\ \A e \in ids : g.events[e] \in [start : Int, end : Year]
  BY HistoriesAssumption
<1>2. \A e \in ids : g.events[e].start \in Int /\ EventSpan(g.events[e])[2] \in Int
  BY <1>1, YearsAssumption DEF EventSpan, Year
<1>3. CASE ids = {}
  BY <1>3 DEF TimelineRange, Ranges
<1>4. CASE ids # {}
  <2>1. Starts(g) \subseteq Int /\ Starts(g) # {} /\ Ends(g) \subseteq Int /\ Ends(g) # {}
    BY <1>2, <1>4 DEF Starts, Ends
  <2>2. IsFiniteSet(Starts(g))
    <3>. DEFINE f == [e \in ids |-> g.events[e].start]
    <3>1. f \in Surjection(ids, Starts(g))
      BY DEF Surjection, Starts
    <3>. QED
      BY <1>1, <3>1, FS_Surjection
  <2>3. IsFiniteSet(Ends(g))
    <3>. DEFINE f == [e \in ids |-> EventSpan(g.events[e])[2]]
    <3>1. f \in Surjection(ids, Ends(g))
      BY DEF Surjection, Ends
    <3>. QED
      BY <1>1, <3>1, FS_Surjection
  <2>. DEFINE lo == Min(Starts(g))
              hi == Max(Ends(g))
  <2>4. lo \in Int /\ \A y \in Starts(g) : lo <= y
    BY <2>1, <2>2, MinIs
  <2>5. hi \in Int /\ \A y \in Ends(g) : y <= hi
    BY <2>1, <2>3, MaxIs
  <2>6. TimelineRange(g) = <<lo, hi>>
    BY <1>4 DEF TimelineRange
  <2>. HIDE DEF lo, hi
  <2>7. \A e \in ids : lo <= g.events[e].start /\ EventSpan(g.events[e])[2] <= hi
    BY <2>4, <2>5 DEF Starts, Ends
  <2>. QED
    BY <1>2, <2>4, <2>5, <2>6, <2>7 DEF Ranges, Within
<1>. QED
  BY <1>3, <1>4

\* What GET /timeline and GET /timeline/narrators answer.
LEMMA EventAnswersAre ==
    ASSUME NEW g \in Histories, NEW range, NEW a \in EventAnswers(g, range),
           NEW all, all = {e \in DOMAIN g.events : Within(g.events[e].start, range)}
    PROVE  /\ a \in EventData /\ a.of = g
           /\ a.shown \subseteq all
           /\ Cardinality(all) <= EventLimit => a.shown = all
           /\ a.shown # all => Cardinality(a.shown) = EventLimit
<1>1. PICK T \in Some(EventLimit, all) : a = [of |-> g, shown |-> T]
  BY DEF EventAnswers
<1>2. IsFiniteSet(all) /\ all \subseteq TimelineEvents
  <2>1. IsFiniteSet(DOMAIN g.events) /\ all \in SUBSET DOMAIN g.events
    BY HistoriesAssumption
  <2>. QED
    BY <2>1, FS_Subset DEF TimelineEvents
<1>3. /\ T \subseteq all /\ Cardinality(all) \in Nat
      /\ T # all <=> Cardinality(all) > EventLimit
      /\ T # all => Cardinality(T) = EventLimit
  BY <1>1, <1>2, TakenIs, TimelineAssumption DEF Some
<1>4. a.of = g /\ a.shown = T /\ a \in EventData
  BY <1>1, <1>2, <1>3 DEF EventData
<1>. QED
  BY <1>3, <1>4, TimelineAssumption

LEMMA LaneAnswersAre ==
    ASSUME NEW g \in Histories, NEW range \in Ranges, NEW l \in LaneAnswers(g, range),
           NEW people, people = {n \in DOMAIN g.people :
                LET w == ActiveWindow(g.people[n]) IN w # None /\ Overlap(w, range)}
    PROVE  /\ l \in LaneData /\ l.of = g
           /\ l.entries \subseteq people
           /\ l.truncated <=> l.entries # people
<1>. DEFINE met == {n \in DOMAIN g.people : InView(g.people[n], range[1], range[2])}
<1>1. met = people
  <2>1. range[1] \in Int /\ range[2] \in Int /\ range[1] # None /\ range[2] # None
    BY YearsAssumption DEF Ranges
  <2>2. ASSUME NEW n \in DOMAIN g.people
        PROVE  InView(g.people[n], range[1], range[2]) <=>
                 (ActiveWindow(g.people[n]) # None /\ Overlap(ActiveWindow(g.people[n]), range))
    <3>1. /\ CypherWindow(g.people[n]) = ActiveWindow(g.people[n])
          /\ ActiveWindow(g.people[n]) # None => ActiveWindow(g.people[n]) \in Int \X Int
      BY HistoriesAssumption, CypherAgrees
    <3>. QED
      BY <2>1, <3>1 DEF InView, Overlap
  <2>. QED
    BY <2>2
<1>2. PICK T \in Some(LaneLimit, met) :
          l = [of |-> g, entries |-> T, truncated |-> Cardinality(met) > LaneLimit]
  BY DEF LaneAnswers
<1>3. IsFiniteSet(met) /\ met \subseteq People
  <2>1. IsFiniteSet(DOMAIN g.people) /\ met \in SUBSET DOMAIN g.people
    BY HistoriesAssumption
  <2>. QED
    BY <2>1, FS_Subset DEF People
<1>. HIDE DEF met
<1>4. T \subseteq met /\ (T # met <=> Cardinality(met) > LaneLimit)
  BY <1>2, <1>3, TakenIs, TimelineAssumption DEF Some
<1>5. /\ l.of = g /\ l.entries = T /\ l.truncated = (Cardinality(met) > LaneLimit)
      /\ l \in LaneData
  BY <1>2, <1>3, <1>4 DEF LaneData
<1>. QED
  BY <1>1, <1>4, <1>5

LEMMA AnswersAreTyped ==
    ASSUME NEW g \in Histories, NEW range \in Ranges
    PROVE  /\ \A e \in EventAnswers(g, range) : e \in EventData /\ e.of = g
           /\ \A l \in LaneAnswers(g, range) : l \in LaneData /\ l.of = g
<1>1. ASSUME NEW e \in EventAnswers(g, range) PROVE e \in EventData /\ e.of = g
  <2>. DEFINE all == {k \in DOMAIN g.events : Within(g.events[k].start, range)}
  <2>1. PICK T \in Some(EventLimit, all) : e = [of |-> g, shown |-> T]
    BY DEF EventAnswers
  <2>2. T \subseteq TimelineEvents
    BY DEF Some, kSubset, TimelineEvents
  <2>. QED
    BY <2>1, <2>2 DEF EventData
<1>2. ASSUME NEW l \in LaneAnswers(g, range) PROVE l \in LaneData /\ l.of = g
  <2>. DEFINE people == {n \in DOMAIN g.people :
                          LET w == ActiveWindow(g.people[n]) IN w # None /\ Overlap(w, range)}
  <2>1. people = {n \in DOMAIN g.people :
                    LET w == ActiveWindow(g.people[n]) IN w # None /\ Overlap(w, range)}
    OBVIOUS
  <2>. HIDE DEF people
  <2>. QED
    BY <2>1, LaneAnswersAre
<1>. QED
  BY <1>1, <1>2

LEMMA RangeAnswerIs ==
    ASSUME NEW g \in Histories
    PROVE  /\ RangeAnswer(g) \in RangeData
           /\ RangeAnswer(g).of = g /\ RangeAnswer(g).range = TimelineRange(g)
<1>1. RangeAnswer(g) = [of |-> g, range |-> TimelineRange(g)] /\ TimelineRange(g) \in Ranges
  BY RangeIs DEF RangeAnswer
<1>. QED
  BY <1>1 DEF RangeData

-----------------------------------------------------------------------------

\* The range of the page s and where it is from.
RangeOf(s) ==
    /\ s.typed # None => s.range = s.typed
    /\ s.typed = None /\ s.range # None =>
           s.opened \in Histories /\ s.range = TimelineRange(s.opened)
    /\ s.typed = None /\ s.range = None => s.opened = None
    /\ s.known # None => s.known.of \in Histories /\ s.known.range = TimelineRange(s.known.of)

\* Its answers are to the range that it shows, each of the graph it says.
AnswersOf(s) ==
    /\ s.events # None => /\ s.events.of \in Histories
                          /\ s.events \in EventAnswers(s.events.of, Effective(s))
    /\ s.lanes # None => /\ s.lanes.of \in Histories
                         /\ s.lanes \in LaneAnswers(s.lanes.of, Effective(s))

TimelineInd ==
    timeline # Gone => timeline \in Timeline /\ RangeOf(timeline) /\ AnswersOf(timeline)

LEMMA EffectiveIs ==
    ASSUME NEW s \in Timeline
    PROVE  Effective(s) \in Ranges
BY TimelineAssumption, YearsAssumption DEF Effective, Timeline, Ranges, RangeData

LEMMA AdoptIs ==
    ASSUME NEW s \in Timeline, RangeOf(s) \/ (s.typed = None /\ s.range = None /\ s.opened = None),
           s.known # None => s.known.of \in Histories /\ s.known.range = TimelineRange(s.known.of)
    PROVE  /\ Adopt(s) \in Timeline /\ RangeOf(Adopt(s))
           /\ Adopt(s).known = s.known /\ Adopt(s).typed = s.typed
           /\ Adopt(s).events = s.events /\ Adopt(s).lanes = s.lanes
<1>1. CASE s.range = None /\ s.known # None
  <2>. DEFINE t == TakeOver(s)
  <2>1. s.known.range \in Ranges /\ s.known.range # None /\ s.known.of \in Histories
    BY <1>1, YearsAssumption DEF Timeline, RangeData, Ranges
  <2>2. s.typed = None
    BY <1>1 DEF RangeOf
  <2>3. /\ t \in Timeline /\ t.range = s.known.range /\ t.opened = s.known.of
        /\ t.known = s.known /\ t.typed = s.typed /\ t.events = s.events /\ t.lanes = s.lanes
    BY <2>1 DEF TakeOver, Timeline
  <2>4. Adopt(s) = t
    BY <1>1 DEF Adopt
  <2>. HIDE DEF t
  <2>5. RangeOf(t)
    BY <1>1, <2>1, <2>2, <2>3 DEF RangeOf
  <2>. QED
    BY <2>3, <2>4, <2>5
<1>2. CASE ~(s.range = None /\ s.known # None)
  BY <1>2 DEF Adopt, RangeOf
<1>. QED
  BY <1>1, <1>2

\* Another state t of the page: its answers are kept if its range is, and asked for
\* again if not.
LEMMA RedrawInv ==
    ASSUME TimelineInd, NEW t \in Timeline, Redraw(t), RangeOf(t),
           timeline # Gone /\ Effective(t) = Effective(timeline) => AnswersOf(t)
    PROVE  TimelineInd'
<1>2. CASE timeline # Gone /\ Effective(t) = Effective(timeline)
  <2>1. timeline' = t
    BY <1>2 DEF Redraw
  <2>. QED
    BY <1>2, <2>1 DEF TimelineInd
<1>3. CASE ~(timeline # Gone /\ Effective(t) = Effective(timeline))
  <2>1. PICK g \in Histories, h \in Histories :
            \E e \in {None} \cup EventAnswers(g, Effective(t)), l \in {None} \cup LaneAnswers(h, Effective(t)) :
                timeline' = [t EXCEPT !.events = e, !.lanes = l]
    BY <1>3, Zenon DEF Redraw
  <2>2. PICK e \in {None} \cup EventAnswers(g, Effective(t)), l \in {None} \cup LaneAnswers(h, Effective(t)) :
            timeline' = [t EXCEPT !.events = e, !.lanes = l]
    BY <2>1
  <2>. DEFINE s == [t EXCEPT !.events = e, !.lanes = l]
  <2>3. e # None => e \in EventData /\ e.of = g /\ e \in EventAnswers(g, Effective(t))
    BY <2>2, EffectiveIs, AnswersAreTyped
  <2>4. l # None => l \in LaneData /\ l.of = h /\ l \in LaneAnswers(h, Effective(t))
    BY <2>2, EffectiveIs, AnswersAreTyped
  <2>5. /\ s \in Timeline /\ s.events = e /\ s.lanes = l
        /\ s.range = t.range /\ s.known = t.known /\ s.typed = t.typed /\ s.opened = t.opened
    BY <2>3, <2>4 DEF Timeline
  <2>6. timeline' = s
    BY <2>2
  <2>. HIDE DEF s
  <2>7. Effective(s) = Effective(t)
    BY <2>5 DEF Effective
  <2>8. RangeOf(s)
    BY <2>5 DEF RangeOf
  <2>9. AnswersOf(s)
    BY <2>3, <2>4, <2>5, <2>7 DEF AnswersOf
  <2>. QED
    BY <2>5, <2>6, <2>8, <2>9 DEF TimelineInd
<1>. QED
  BY <1>2, <1>3

LEMMA MountTimelineInv ==
    ASSUME TimelineInd, MountTimeline
    PROVE  TimelineInd'
<1>. DEFINE blank(known) == [range |-> None, known |-> known, events |-> None, lanes |-> None,
                             lost |-> FALSE, selected |-> None, typed |-> None, opened |-> None]
<1>1. PICK known \in {None} \cup {RangeAnswer(g) : g \in Histories} : Redraw(Adopt(blank(known)))
  BY DEF MountTimeline
<1>2. /\ timeline = Gone /\ known \in RangeData \cup {None}
      /\ known # None => known.of \in Histories /\ known.range = TimelineRange(known.of)
  BY <1>1, RangeAnswerIs DEF MountTimeline
<1>. DEFINE s == blank(known)
<1>3. /\ s \in Timeline /\ s.range = None /\ s.known = known /\ s.typed = None /\ s.opened = None
  BY <1>2 DEF Timeline
<1>4. Redraw(Adopt(s))
  BY <1>1
<1>. HIDE DEF s
<1>. QED
  BY <1>2, <1>3, <1>4, AdoptIs, RedrawInv

LEMMA RangeArrivesInv ==
    ASSUME TimelineInd, timeline # Gone, RangeArrives
    PROVE  TimelineInd'
<1>1. PICK g \in Histories : Redraw(Adopt([timeline EXCEPT !.known = RangeAnswer(g)]))
  BY DEF RangeArrives
<1>. DEFINE s == [timeline EXCEPT !.known = RangeAnswer(g)]
            t == Adopt(s)
<1>2. timeline \in Timeline /\ RangeOf(timeline) /\ AnswersOf(timeline)
  BY DEF TimelineInd
<1>3. /\ RangeAnswer(g) \in RangeData
      /\ RangeAnswer(g).of = g /\ RangeAnswer(g).range = TimelineRange(g)
  BY RangeAnswerIs
<1>4. /\ s \in Timeline /\ s.known = RangeAnswer(g) /\ s.range = timeline.range
      /\ s.typed = timeline.typed /\ s.opened = timeline.opened
      /\ s.events = timeline.events /\ s.lanes = timeline.lanes
  BY <1>2, <1>3 DEF Timeline
<1>5. Redraw(t)
  BY <1>1
<1>. HIDE DEF s
<1>6. RangeOf(s)
  BY <1>2, <1>3, <1>4 DEF RangeOf
<1>7. /\ t \in Timeline /\ RangeOf(t)
      /\ t.events = s.events /\ t.lanes = s.lanes
  BY <1>3, <1>4, <1>6, AdoptIs
<1>. HIDE DEF t
<1>8. Effective(t) = Effective(timeline) => AnswersOf(t)
  BY <1>2, <1>4, <1>7 DEF AnswersOf
<1>. QED
  BY <1>5, <1>7, <1>8, RedrawInv

\* The steps that leave the range as it is.
LEMMA SameRange ==
    ASSUME TimelineInd, timeline # Gone, NEW t \in Timeline, Redraw(t),
           t.range = timeline.range, t.known = timeline.known, t.typed = timeline.typed,
           t.opened = timeline.opened, AnswersOf(t)
    PROVE  TimelineInd'
<1>1. RangeOf(t)
  BY DEF TimelineInd, RangeOf
<1>. QED
  BY <1>1, RedrawInv

LEMMA EventsArriveInv ==
    ASSUME TimelineInd, timeline # Gone, EventsArrive
    PROVE  TimelineInd'
<1>1. timeline \in Timeline /\ AnswersOf(timeline)
  BY DEF TimelineInd
<1>2. PICK g \in Histories : \E e \in EventAnswers(g, Effective(timeline)) :
          Redraw([timeline EXCEPT !.events = e, !.lost = FALSE])
  BY DEF EventsArrive
<1>3. PICK e \in EventAnswers(g, Effective(timeline)) :
          Redraw([timeline EXCEPT !.events = e, !.lost = FALSE])
  BY <1>2
<1>. DEFINE t == [timeline EXCEPT !.events = e, !.lost = FALSE]
<1>4. e \in EventData /\ e.of = g
  BY <1>1, EffectiveIs, AnswersAreTyped
<1>5. /\ t \in Timeline /\ t.events = e /\ t.lanes = timeline.lanes
      /\ t.range = timeline.range /\ t.known = timeline.known /\ t.typed = timeline.typed
      /\ t.opened = timeline.opened
  BY <1>1, <1>4 DEF Timeline
<1>6. Redraw(t)
  BY <1>3
<1>. HIDE DEF t
<1>7. Effective(t) = Effective(timeline)
  BY <1>5 DEF Effective
<1>8. AnswersOf(t)
  BY <1>1, <1>4, <1>5, <1>7 DEF AnswersOf
<1>. QED
  BY <1>5, <1>6, <1>8, SameRange

LEMMA LanesArriveInv ==
    ASSUME TimelineInd, timeline # Gone, LanesArrive
    PROVE  TimelineInd'
<1>1. timeline \in Timeline /\ AnswersOf(timeline)
  BY DEF TimelineInd
<1>2. PICK g \in Histories : \E l \in LaneAnswers(g, Effective(timeline)) :
          Redraw([timeline EXCEPT !.lanes = l])
  BY DEF LanesArrive
<1>3. PICK l \in LaneAnswers(g, Effective(timeline)) : Redraw([timeline EXCEPT !.lanes = l])
  BY <1>2
<1>. DEFINE t == [timeline EXCEPT !.lanes = l]
<1>4. l \in LaneData /\ l.of = g
  BY <1>1, EffectiveIs, AnswersAreTyped
<1>5. /\ t \in Timeline /\ t.lanes = l /\ t.events = timeline.events
      /\ t.range = timeline.range /\ t.known = timeline.known /\ t.typed = timeline.typed
      /\ t.opened = timeline.opened
  BY <1>1, <1>4 DEF Timeline
<1>6. Redraw(t)
  BY <1>3
<1>. HIDE DEF t
<1>7. Effective(t) = Effective(timeline)
  BY <1>5 DEF Effective
<1>8. AnswersOf(t)
  BY <1>1, <1>4, <1>5, <1>7 DEF AnswersOf
<1>. QED
  BY <1>5, <1>6, <1>8, SameRange

LEMMA EventsLostInv ==
    ASSUME TimelineInd, timeline # Gone, EventsLost
    PROVE  TimelineInd'
<1>. DEFINE t == [timeline EXCEPT !.lost = TRUE]
<1>1. timeline \in Timeline /\ AnswersOf(timeline)
  BY DEF TimelineInd
<1>2. /\ t \in Timeline /\ t.lanes = timeline.lanes /\ t.events = timeline.events
      /\ t.range = timeline.range /\ t.known = timeline.known /\ t.typed = timeline.typed
      /\ t.opened = timeline.opened
  BY <1>1 DEF Timeline
<1>3. Redraw(t)
  BY DEF EventsLost
<1>. HIDE DEF t
<1>4. AnswersOf(t)
  BY <1>1, <1>2 DEF AnswersOf, Effective
<1>. QED
  BY <1>2, <1>3, <1>4, SameRange

LEMMA ClickEventInv ==
    ASSUME TimelineInd, timeline # Gone, NEW e \in Drawn(timeline), ClickEvent(e)
    PROVE  TimelineInd'
<1>. DEFINE choice == IF timeline.selected = e THEN None ELSE e
            t == [timeline EXCEPT !.selected = choice]
<1>1. timeline \in Timeline /\ AnswersOf(timeline)
  BY DEF TimelineInd
<1>2. choice \in TimelineEvents \cup {None}
  BY <1>1 DEF Drawn, Timeline, EventData
<1>3. Redraw(t)
  BY DEF ClickEvent
<1>. HIDE DEF choice
<1>4. /\ t \in Timeline /\ t.lanes = timeline.lanes /\ t.events = timeline.events
      /\ t.range = timeline.range /\ t.known = timeline.known /\ t.typed = timeline.typed
      /\ t.opened = timeline.opened
  BY <1>1, <1>2 DEF Timeline
<1>. HIDE DEF t
<1>5. AnswersOf(t)
  BY <1>1, <1>4 DEF AnswersOf, Effective
<1>. QED
  BY <1>3, <1>4, <1>5, SameRange

LEMMA TypeYearInv ==
    ASSUME TimelineInd, timeline # Gone, NEW field \in {1, 2}, NEW year \in TypedYears,
           TypeYear(field, year)
    PROVE  TimelineInd'
<1>. DEFINE range == IF field = 1 THEN <<year, Effective(timeline)[2]>>
                                  ELSE <<Effective(timeline)[1], year>>
            t == [timeline EXCEPT !.range = range, !.typed = range]
<1>1. timeline \in Timeline /\ RangeOf(timeline) /\ AnswersOf(timeline)
  BY DEF TimelineInd
<1>2. Redraw(t) /\ year # Effective(timeline)[field]
  BY DEF TypeYear
<1>3. Effective(timeline) \in Ranges
  BY <1>1, EffectiveIs
<1>4. range \in Ranges /\ range # None /\ range # Effective(timeline)
  BY <1>2, <1>3, TimelineAssumption, YearsAssumption DEF Ranges
<1>. HIDE DEF range
<1>5. /\ t \in Timeline /\ t.range = range /\ t.typed = range /\ t.known = timeline.known
  BY <1>1, <1>4 DEF Timeline
<1>. HIDE DEF t
<1>6. Effective(t) = range
  BY <1>4, <1>5 DEF Effective
<1>7. RangeOf(t)
  BY <1>1, <1>4, <1>5 DEF RangeOf
<1>. QED
  BY <1>2, <1>4, <1>5, <1>6, <1>7, RedrawInv

LEMMA TimelineInitInv == TimelineInit => TimelineInd
BY DEF TimelineInit, TimelineInd

LEMMA TimelineStepInv == TimelineInd /\ [TimelineNext]_timelineVars => TimelineInd'
<1>. SUFFICES ASSUME TimelineInd, [TimelineNext]_timelineVars PROVE TimelineInd'
  OBVIOUS
<1>1. CASE UNCHANGED timelineVars
  BY <1>1 DEF timelineVars, TimelineInd
<1>2. CASE MountTimeline
  BY <1>2, MountTimelineInv
<1>3. CASE timeline # Gone /\ (RangeArrives \/ EventsArrive \/ EventsLost \/ LanesArrive)
  BY <1>3, RangeArrivesInv, EventsArriveInv, EventsLostInv, LanesArriveInv
<1>4. CASE LeaveTimeline
  BY <1>4 DEF LeaveTimeline, TimelineInd
<1>5. ASSUME timeline # Gone, NEW field \in {1, 2}, NEW year \in TypedYears, TypeYear(field, year)
      PROVE  TimelineInd'
  BY <1>5, TypeYearInv
<1>6. ASSUME timeline # Gone, NEW e \in Drawn(timeline), ClickEvent(e) PROVE TimelineInd'
  BY <1>6, ClickEventInv
<1>. QED
  BY <1>1, <1>2, <1>3, <1>4, <1>5, <1>6 DEF TimelineNext

LEMMA TimelineIndGives == TimelineInd => TimelineInv
<1>. SUFFICES ASSUME TimelineInd PROVE TimelineInv
  OBVIOUS
<1>1. TimelineTypeOK
  BY DEF TimelineInd, TimelineTypeOK
<1>2. TypedStays
  BY DEF TimelineInd, RangeOf, TypedStays, Effective
<1>3. OpensOnEverything
  <2>. DEFINE g == timeline.opened
  <2>. SUFFICES ASSUME timeline # Gone, timeline.typed = None,
                       timeline.events # None, timeline.events.of = g,
                       \A e \in DOMAIN g.events : g.events[e].start <= EventSpan(g.events[e])[2],
                       Cardinality(DOMAIN g.events) <= EventLimit
                PROVE  timeline.events.shown = DOMAIN g.events
    BY DEF OpensOnEverything
  <2>1. g \in Histories /\ g # None /\ timeline.events \in EventAnswers(g, Effective(timeline))
    BY TimelineAssumption DEF TimelineInd, AnswersOf
  <2>2. Effective(timeline) = TimelineRange(g)
    BY <2>1 DEF TimelineInd, RangeOf, Effective
  <2>. DEFINE all == {e \in DOMAIN g.events : Within(g.events[e].start, TimelineRange(g))}
  <2>3. all = DOMAIN g.events
    BY <2>1, RangeIs
  <2>4. all = {e \in DOMAIN g.events : Within(g.events[e].start, TimelineRange(g))}
    OBVIOUS
  <2>. HIDE DEF all
  <2>5. Cardinality(all) <= EventLimit
    BY <2>3
  <2>. HIDE DEF g
  <2>6. timeline.events.shown = all
    BY <2>1, <2>2, <2>4, <2>5, EventAnswersAre
  <2>. QED
    BY <2>3, <2>6
<1>4. DrawnInRange
  <2>. SUFFICES ASSUME timeline # Gone
                PROVE  LET range == Effective(timeline)
                           Meets(d) == LET w == ActiveWindow(d) IN w # None /\ Overlap(w, range)
                           EventsOf(g) == {e \in DOMAIN g.events : Within(g.events[e].start, range)}
                           PeopleOf(g) == {n \in DOMAIN g.people : Meets(g.people[n])}
                       IN /\ timeline.events # None =>
                                /\ timeline.events.shown \subseteq EventsOf(timeline.events.of)
                                /\ timeline.events.shown # EventsOf(timeline.events.of) =>
                                       Cardinality(timeline.events.shown) = EventLimit
                          /\ timeline.lanes # None =>
                                /\ timeline.lanes.entries \subseteq PeopleOf(timeline.lanes.of)
                                /\ timeline.lanes.truncated <=>
                                       timeline.lanes.entries # PeopleOf(timeline.lanes.of)
    BY DEF DrawnInRange
  <2>. DEFINE range == Effective(timeline)
              events(g) == {e \in DOMAIN g.events : Within(g.events[e].start, range)}
              people(g) == {n \in DOMAIN g.people :
                               LET w == ActiveWindow(g.people[n]) IN w # None /\ Overlap(w, range)}
  <2>1. timeline \in Timeline /\ AnswersOf(timeline)
    BY DEF TimelineInd
  <2>2. range \in Ranges
    BY <2>1, EffectiveIs
  <2>3. ASSUME timeline.events # None
        PROVE  /\ timeline.events.shown \subseteq events(timeline.events.of)
               /\ timeline.events.shown # events(timeline.events.of) =>
                      Cardinality(timeline.events.shown) = EventLimit
    <3>. DEFINE g == timeline.events.of
                all == events(g)
    <3>1. g \in Histories /\ timeline.events \in EventAnswers(g, range)
      BY <2>1, <2>3 DEF AnswersOf
    <3>2. all = {e \in DOMAIN g.events : Within(g.events[e].start, range)}
      OBVIOUS
    <3>. HIDE DEF range, g, all
    <3>3. /\ timeline.events.shown \subseteq all
          /\ timeline.events.shown # all => Cardinality(timeline.events.shown) = EventLimit
      BY <3>1, <3>2, EventAnswersAre
    <3>. QED
      BY <3>3 DEF all, g
  <2>4. ASSUME timeline.lanes # None
        PROVE  /\ timeline.lanes.entries \subseteq people(timeline.lanes.of)
               /\ timeline.lanes.truncated <=> timeline.lanes.entries # people(timeline.lanes.of)
    <3>. DEFINE g == timeline.lanes.of
                all == people(g)
    <3>1. g \in Histories /\ timeline.lanes \in LaneAnswers(g, range)
      BY <2>1, <2>4 DEF AnswersOf
    <3>2. all = {n \in DOMAIN g.people :
                    LET w == ActiveWindow(g.people[n]) IN w # None /\ Overlap(w, range)}
      OBVIOUS
    <3>. HIDE DEF range, g, all
    <3>3. /\ timeline.lanes.entries \subseteq all
          /\ timeline.lanes.truncated <=> timeline.lanes.entries # all
      BY <2>2, <3>1, <3>2, LaneAnswersAre
    <3>. QED
      BY <3>3 DEF all, g
  <2>. QED
    BY <2>3, <2>4
<1>5. CountedHaveLanes
  <2>. DEFINE g == timeline.events.of
  <2>. SUFFICES ASSUME timeline # Gone, timeline.events # None, timeline.lanes # None,
                       g = timeline.lanes.of, ~timeline.lanes.truncated,
                       NEW e \in timeline.events.shown, g.events[e].end = None,
                       NEW n \in Counted(g, e), Linked(g.people[n], g.events[e])
                PROVE  n \in timeline.lanes.entries
    BY DEF CountedHaveLanes
  <2>. DEFINE range == Effective(timeline)
  <2>1. timeline \in Timeline /\ g \in Histories
    BY DEF TimelineInd, AnswersOf
  <2>2. /\ e \in DOMAIN g.events /\ Within(g.events[e].start, range)
        /\ timeline.lanes.entries = {k \in DOMAIN g.people :
              LET w == ActiveWindow(g.people[k]) IN w # None /\ Overlap(w, range)}
    BY <1>4 DEF DrawnInRange
  <2>3. range \in Ranges
    BY <2>1, EffectiveIs
  <2>. HIDE DEF range, g
  <2>4. g.events[e].start \in Int
    BY <2>1, <2>2, HistoriesAssumption
  <2>. DEFINE w == ActiveWindow(g.people[n])
  <2>5. /\ n \in DOMAIN g.people /\ w # None
        /\ Overlap(w, <<g.events[e].start, g.events[e].start>>)
    BY DEF Counted, Linked, EventSpan
  <2>6. w \in Int \X Int
    BY <2>1, <2>5, HistoriesAssumption, CypherAgrees
  <2>. HIDE DEF w
  <2>7. Overlap(w, range)
    BY <2>2, <2>3, <2>4, <2>5, <2>6 DEF Overlap, Within, Ranges
  <2>. QED
    BY <2>2, <2>5, <2>7 DEF w
<1>. QED
  BY <1>1, <1>2, <1>3, <1>4, <1>5 DEF TimelineInv

\* In every reachable state, what the timeline draws belongs to the range that its
\* inputs show and misses nothing of it in the graph that the answer is of, and what
\* the reader typed stays: also with answers of different graphs on one page.
THEOREM TimelineInvariant == TimelineSpec => []TimelineInv
<1>1. TimelineSpec => []TimelineInd
  BY TimelineInitInv, TimelineStepInv, PTL DEF TimelineSpec
<1>. QED
  BY <1>1, TimelineIndGives, PTL

-----------------------------------------------------------------------------
(* Graph explorer *)

\* A neighbour is at one transmission.
LEMMA NextDoor ==
    ASSUME NEW n \in Persons, NEW m \in Near(n, 1)
    PROVE  \E l \in Links : {l.from, l.to} = {n, m}
<1>. DEFINE Known(k, w) == IF k = 0 THEN {n}
                           ELSE w[k - 1] \cup {b \in Persons : \E a \in w[k - 1] : Transmits(a, b)}
            W == CHOOSE within : within = [k \in 0..1 |-> Known(k, within)]
<1>1. m \in W[1] /\ m # n /\ m \in Persons
  BY DEF Near
<1>2. \E within : within = [k \in 0..1 |-> Known(k, within)]
  <2>. DEFINE w == [k \in 0..1 |->
                      IF k = 0 THEN {n} ELSE {n} \cup {b \in Persons : \E a \in {n} : Transmits(a, b)}]
  <2>1. w[0] = {n}
    OBVIOUS
  <2>2. \A k \in 0..1 : k = 0 \/ k - 1 = 0
    OBVIOUS
  <2>3. w = [k \in 0..1 |-> Known(k, w)]
    BY <2>1, <2>2
  <2>. QED
    BY <2>3
<1>3. W = [k \in 0..1 |-> Known(k, W)]
  BY <1>2
<1>. HIDE DEF W
<1>4. W[0] = {n} /\ W[1] = W[0] \cup {b \in Persons : \E a \in W[0] : Transmits(a, b)}
  <2>1. 0 \in 0..1 /\ 1 \in 0..1 /\ 1 - 1 = 0 /\ 1 # 0
    OBVIOUS
  <2>2. W[0] = Known(0, W) /\ W[1] = Known(1, W)
    BY <1>3, <2>1, Zenon
  <2>. QED
    BY <2>1, <2>2
<1>5. Transmits(n, m)
  BY <1>1, <1>4
<1>. QED
  BY <1>5 DEF Transmits

LEMMA NearIs ==
    ASSUME NEW n \in Persons, NEW depth \in Depths
    PROVE  Near(n, depth) \subseteq Persons \ {n} /\ IsFiniteSet(Near(n, depth))
<1>1. Near(n, depth) \subseteq Persons \ {n}
  BY DEF Near
<1>. QED
  BY <1>1, FS_Subset, ExplorerAssumption

\* What a network's nodes and edges are.
LEMMA NetworkIs ==
    ASSUME NEW n \in Persons, NEW depth \in Depths, NEW w \in Networks(n, depth)
    PROVE  /\ w.nodes \subseteq Persons /\ n \in w.nodes /\ w.edges = LinksAmong(w.nodes)
           /\ depth = 1 /\ Cardinality(Near(n, 1)) <= Cap => Near(n, 1) \subseteq w.nodes
<1>. DEFINE pools == {Near(n, depth)} \cup IF depth > 1 THEN {Near(n, depth) \cup {n}} ELSE {}
<1>1. PICK pool \in pools : \E near \in kSubset(Min({Cap, Cardinality(pool)}), pool) :
             w = [nodes |-> {n} \cup near, edges |-> LinksAmong({n} \cup near)]
  BY DEF Networks
<1>2. PICK near \in kSubset(Min({Cap, Cardinality(pool)}), pool) :
             w = [nodes |-> {n} \cup near, edges |-> LinksAmong({n} \cup near)]
  BY <1>1
<1>3. near \subseteq pool /\ Cardinality(near) = Min({Cap, Cardinality(pool)})
  BY <1>2 DEF kSubset
<1>4. pool \subseteq Persons /\ (depth = 1 => pool = Near(n, 1))
  BY <1>1, NearIs DEF Depths
<1>5. w.nodes = {n} \cup near /\ w.edges = LinksAmong({n} \cup near)
  BY <1>2
<1>6. ASSUME depth = 1, Cardinality(Near(n, 1)) <= Cap PROVE Near(n, 1) \subseteq w.nodes
  <2>1. IsFiniteSet(pool) /\ Cardinality(pool) \in Nat /\ Cardinality(pool) <= Cap
    BY <1>4, <1>6, FS_Subset, FS_CardinalityType, ExplorerAssumption
  <2>2. Cap \in Int /\ Cardinality(pool) \in Int
    BY <2>1, ExplorerAssumption
  <2>3. /\ Min({Cap, Cardinality(pool)}) \in {Cap, Cardinality(pool)}
        /\ Min({Cap, Cardinality(pool)}) <= Cardinality(pool)
    BY <2>2, OfTwo, Zenon
  <2>4. Min({Cap, Cardinality(pool)}) = Cardinality(pool)
    BY <2>1, <2>2, <2>3
  <2>5. near = pool
    BY <1>3, <2>1, <2>4, FS_Subset
  <2>. QED
    BY <1>4, <1>5, <1>6, <2>5
<1>. QED
  BY <1>3, <1>4, <1>5, <1>6

-----------------------------------------------------------------------------
(* The bands. *)

BandOf(n) == CHOOSE own \in DOMAIN BandKeys : BandKeys[own] = Generation[n]

LEMMA BandKeysAre ==
    /\ DOMAIN BandKeys = 1..6 /\ DOMAIN TabaqaOrder = 1..5
    /\ \A i \in 1..5 : BandKeys[i] = TabaqaOrder[i]
    /\ BandKeys[6] = Unknown
    /\ \A i, j \in 1..5 : TabaqaOrder[i] = TabaqaOrder[j] => i = j
BY DEF BandKeys, TabaqaOrder

LEMMA BandsDiffer ==
    ASSUME NEW i \in 1..6, NEW j \in 1..6, BandKeys[i] = BandKeys[j]
    PROVE  i = j
<1>1. \A k \in 1..5 : TabaqaOrder[k] # Unknown
  BY BandKeysAre, GenerationAssumption DEF Range
<1>. QED
  BY <1>1, BandKeysAre

LEMMA BandOfIs ==
    ASSUME NEW n \in Persons
    PROVE  /\ BandOf(n) \in 1..6 /\ BandKeys[BandOf(n)] = Generation[n]
           /\ \A i \in 1..6 : BandKeys[i] = Generation[n] => i = BandOf(n)
           /\ BandOf(n) = IF Generation[n] = Unknown THEN Len(TabaqaOrder) + 1
                          ELSE CHOOSE i \in DOMAIN TabaqaOrder : TabaqaOrder[i] = Generation[n]
<1>1. Generation[n] = Unknown \/ \E i \in 1..5 : TabaqaOrder[i] = Generation[n]
  BY GenerationAssumption, BandKeysAre DEF Range
<1>2. \E i \in 1..6 : BandKeys[i] = Generation[n]
  BY <1>1, BandKeysAre
<1>3. BandOf(n) \in 1..6 /\ BandKeys[BandOf(n)] = Generation[n]
  BY <1>2, BandKeysAre DEF BandOf
<1>4. \A i \in 1..6 : BandKeys[i] = Generation[n] => i = BandOf(n)
  BY <1>3, BandsDiffer
<1>5. CASE Generation[n] = Unknown
  <2>1. Len(TabaqaOrder) = 5
    BY DEF TabaqaOrder
  <2>2. BandOf(n) = 6
    BY <1>4, <1>5, BandKeysAre
  <2>. QED
    BY <1>3, <1>4, <1>5, <2>1, <2>2
<1>6. CASE Generation[n] # Unknown
  <2>. DEFINE i == CHOOSE i \in DOMAIN TabaqaOrder : TabaqaOrder[i] = Generation[n]
  <2>1. i \in 1..5 /\ TabaqaOrder[i] = Generation[n]
    BY <1>1, <1>6, BandKeysAre
  <2>. HIDE DEF i
  <2>2. i = BandOf(n)
    BY <1>4, <2>1, BandKeysAre
  <2>. QED
    BY <1>3, <1>4, <1>6, <2>2 DEF i
<1>. QED
  BY <1>5, <1>6

\* The rank is one less than the place of the band among those that are there.
LEMMA BandRank ==
    ASSUME NEW nodes \in SUBSET Persons, NEW n \in nodes
    PROVE  /\ IsFiniteSet(Bands(nodes)) /\ Bands(nodes) \subseteq 1..6 /\ BandOf(n) \in Bands(nodes)
           /\ Linear(Ascending(Bands(nodes)), Bands(nodes))
           /\ Ranks(Bands(nodes), Ascending(Bands(nodes)))[BandOf(n)] \in Int
           /\ TabaqaRank(nodes)[n] = Ranks(Bands(nodes), Ascending(Bands(nodes)))[BandOf(n)] - 1
<1>. DEFINE B == Bands(nodes)
            x == BandOf(n)
            below == {i \in B : i < x}
            upto == {i \in B : i <= x}
<1>1. B \subseteq 1..6 /\ x \in B /\ x \in 1..6
  BY BandOfIs, BandKeysAre DEF Bands
<1>2. IsFiniteSet(B)
  <2>1. IsFiniteSet(1..6)
    <3>1. \A a, b \in Int : IsFiniteSet(a..b)
      BY FS_Interval
    <3>2. 1 \in Int /\ 6 \in Int
      OBVIOUS
    <3>. QED
      BY <3>1, <3>2, Zenon
  <2>. QED
    BY <1>1, <2>1, FS_Subset
<1>3. Linear(Ascending(B), B)
  BY <1>1, NumbersAreLinear
<1>4. UpTo(x, B, Ascending(B)) = upto
  BY <1>1 DEF UpTo, Ascending
<1>5. Ranks(B, Ascending(B))[x] = Cardinality(upto)
  BY <1>1, <1>4 DEF Ranks
<1>6. TabaqaRank(nodes)[n] = Cardinality(below)
  BY DEF TabaqaRank, BandOf
<1>7. below = upto \ {x} /\ x \in upto
  BY <1>1
<1>8. IsFiniteSet(upto)
  BY <1>2, FS_Subset
<1>9. Cardinality(upto) \in Nat /\ Cardinality(below) = Cardinality(upto) - 1
  <2>. HIDE DEF upto, below
  <2>. QED
    BY <1>7, <1>8, FS_RemoveElement, FS_CardinalityType
<1>. QED
  BY <1>1, <1>2, <1>3, <1>5, <1>6, <1>9

LEMMA BandsAre ==
    ASSUME NEW nodes \in SUBSET Persons
    PROVE  LET rank == TabaqaRank(nodes)
               Order(n) == IF Generation[n] = Unknown THEN Len(TabaqaOrder) + 1
                           ELSE CHOOSE i \in DOMAIN TabaqaOrder : TabaqaOrder[i] = Generation[n]
           IN /\ \A a, b \in nodes : rank[a] < rank[b] <=> Order(a) < Order(b)
              /\ Range(rank) = 0 .. (Cardinality(Range(rank)) - 1)
<1>. DEFINE rank == TabaqaRank(nodes)
            B == Bands(nodes)
            P == Ranks(B, Ascending(B))
<1>1. ASSUME NEW a \in nodes, NEW b \in nodes PROVE rank[a] < rank[b] <=> BandOf(a) < BandOf(b)
  <2>1. /\ IsFiniteSet(B) /\ B \subseteq 1..6 /\ BandOf(a) \in B /\ BandOf(b) \in B
        /\ Linear(Ascending(B), B) /\ P[BandOf(a)] \in Int /\ P[BandOf(b)] \in Int
        /\ rank[a] = P[BandOf(a)] - 1 /\ rank[b] = P[BandOf(b)] - 1
    BY BandRank
  <2>2. <<BandOf(b), BandOf(a)>> \in Ascending(B) <=> P[BandOf(b)] <= P[BandOf(a)]
    BY <2>1, RankOrder
  <2>3. BandOf(b) <= BandOf(a) <=> P[BandOf(b)] <= P[BandOf(a)]
    BY <2>1, <2>2 DEF Ascending
  <2>4. BandOf(a) \in Int /\ BandOf(b) \in Int
    BY <2>1
  <2>. HIDE DEF rank, B, P
  <2>. QED
    BY <2>1, <2>3, <2>4
<1>2. Range(rank) = 0 .. (Cardinality(Range(rank)) - 1)
  <2>1. CASE nodes = {}
    <3>1. Range(rank) = {}
      BY <2>1 DEF Range, TabaqaRank
    <3>2. Cardinality(Range(rank)) = 0
      BY <3>1, FS_EmptySet, Zenon
    <3>. QED
      BY <3>1, <3>2
  <2>2. CASE nodes # {}
    <3>1. /\ IsFiniteSet(B) /\ B \subseteq 1..6 /\ Linear(Ascending(B), B)
          /\ \A n \in nodes : /\ BandOf(n) \in B /\ P[BandOf(n)] \in Int
                              /\ rank[n] = P[BandOf(n)] - 1
      BY <2>2, BandRank
    <3>2. Cardinality(B) \in Nat
      BY <3>1, FS_CardinalityType
    <3>3. \A n \in nodes : P[BandOf(n)] \in 1..Cardinality(B)
      BY <3>1, RankOrder
    <3>4. ASSUME NEW k \in 0 .. (Cardinality(B) - 1) PROVE \E n \in nodes : rank[n] = k
      <4>1. k + 1 \in 1..Cardinality(B)
        BY <3>2
      <4>2. PICK x \in B : P[x] = k + 1
        BY <3>1, <4>1, RanksTaken
      <4>3. PICK n \in nodes : Generation[n] = BandKeys[x]
        BY <4>2 DEF Bands
      <4>4. BandOf(n) = x
        BY <3>1, <4>2, <4>3, BandOfIs
      <4>. QED
        BY <3>1, <4>2, <4>4
    <3>5. Range(rank) = 0 .. (Cardinality(B) - 1)
      <4>1. DOMAIN rank = nodes
        BY DEF TabaqaRank
      <4>2. Range(rank) = {rank[n] : n \in nodes}
        BY <4>1 DEF Range
      <4>3. \A n \in nodes : rank[n] \in 0 .. (Cardinality(B) - 1)
        BY <3>1, <3>2, <3>3
      <4>. HIDE DEF rank
      <4>. QED
        BY <3>4, <4>2, <4>3
    <3>6. Cardinality(0 .. (Cardinality(B) - 1)) = Cardinality(B)
      <4>1. 0 \in Int /\ Cardinality(B) - 1 \in Int
        BY <3>2
      <4>2. Cardinality(0 .. (Cardinality(B) - 1)) =
              IF 0 > Cardinality(B) - 1 THEN 0 ELSE Cardinality(B) - 1 - 0 + 1
        BY <4>1, FS_Interval, Zenon
      <4>. HIDE DEF B
      <4>. QED
        BY <3>2, <4>2
    <3>. QED
      BY <3>5, <3>6
  <2>. QED
    BY <2>1, <2>2
<1>3. ASSUME NEW n \in nodes
      PROVE  BandOf(n) = IF Generation[n] = Unknown THEN Len(TabaqaOrder) + 1
                         ELSE CHOOSE i \in DOMAIN TabaqaOrder : TabaqaOrder[i] = Generation[n]
  BY BandOfIs
<1>. HIDE DEF rank, B, P
<1>4. \A a, b \in nodes : rank[a] < rank[b] <=> BandOf(a) < BandOf(b)
  BY <1>1
<1>. DEFINE Order(n) == IF Generation[n] = Unknown THEN Len(TabaqaOrder) + 1
                        ELSE CHOOSE i \in DOMAIN TabaqaOrder : TabaqaOrder[i] = Generation[n]
<1>5. \A n \in nodes : BandOf(n) = Order(n)
  BY <1>3
<1>. HIDE DEF Order
<1>6. \A a, b \in nodes : rank[a] < rank[b] <=> Order(a) < Order(b)
  BY <1>4, <1>5
<1>. QED
  BY <1>2, <1>6 DEF rank, Order

-----------------------------------------------------------------------------
\* A picked narrator whose network is there is on the canvas, with his neighbours.
PickedDrawn(s) ==
    s.network = "there" =>
        /\ s.selected \in s.nodes
        /\ s.depth = 1 /\ Cardinality(Near(s.selected, 1)) <= Cap =>
              \A m \in Near(s.selected, 1) :
                  m \in s.nodes /\ \E l \in s.edges : {l.from, l.to} = {m, s.selected}

CanvasKept(s) ==
    /\ \A l \in s.edges : {l.from, l.to} \subseteq s.nodes
    /\ s.selected = Nobody => s.network = "none"
    /\ s.by \in {"nobody", "reset"} => s.nodes = {} /\ s.edges = {} /\ s.selected = Nobody
    /\ s.by \in {"seed", "reader"} => s.selected # Nobody
    /\ s.by \in {"seed", "reset"} => s.seeded
    /\ PickedDrawn(s)

ExplorerInd == explore # Hidden => explore \in Explorer /\ CanvasKept(explore)

\* A network that is merged leaves no edge without its ends and draws who is picked.
LEMMA MergeInv ==
    ASSUME NEW s \in Explorer, s.selected # Nobody, s.by \in {"seed", "reader"},
           s.by = "seed" => s.seeded,
           \A l \in s.edges : {l.from, l.to} \subseteq s.nodes,
           NEW w \in Networks(s.selected, s.depth)
    PROVE  Merge(s, w) \in Explorer /\ CanvasKept(Merge(s, w))
<1>. DEFINE t == Merge(s, w)
<1>1. /\ s.selected \in Persons /\ s.depth \in Depths
      /\ s.nodes \subseteq Persons /\ s.edges \subseteq Links
  BY DEF Explorer
<1>2. /\ w.nodes \subseteq Persons /\ s.selected \in w.nodes /\ w.edges = LinksAmong(w.nodes)
      /\ s.depth = 1 /\ Cardinality(Near(s.selected, 1)) <= Cap =>
            Near(s.selected, 1) \subseteq w.nodes
  BY <1>1, NetworkIs
<1>3. w.edges \subseteq Links
  BY <1>2 DEF LinksAmong
<1>4. /\ s.nodes \cup w.nodes \in SUBSET Persons
      /\ s.edges \cup w.edges \in SUBSET Links
  BY <1>1, <1>2, <1>3
<1>5. t = [s EXCEPT !.network = "there", !.nodes = s.nodes \cup w.nodes,
                    !.edges = s.edges \cup w.edges]
  BY DEF Merge
<1>6. /\ t \in Explorer /\ t.network = "there" /\ t.nodes = s.nodes \cup w.nodes
      /\ t.edges = s.edges \cup w.edges /\ t.selected = s.selected /\ t.depth = s.depth
      /\ t.by = s.by /\ t.seeded = s.seeded
  BY <1>4, <1>5 DEF Explorer
<1>. HIDE DEF t
<1>7. \A l \in t.edges : {l.from, l.to} \subseteq t.nodes
  BY <1>2, <1>6 DEF LinksAmong
<1>8. ASSUME t.depth = 1, Cardinality(Near(t.selected, 1)) <= Cap, NEW m \in Near(t.selected, 1)
      PROVE  m \in t.nodes /\ \E l \in t.edges : {l.from, l.to} = {m, t.selected}
  <2>1. m \in w.nodes
    BY <1>2, <1>6, <1>8
  <2>2. PICK l \in Links : {l.from, l.to} = {s.selected, m}
    BY <1>1, <1>6, <1>8, NextDoor
  <2>3. l \in w.edges
    BY <1>2, <2>1, <2>2 DEF LinksAmong
  <2>. QED
    BY <1>6, <2>1, <2>2, <2>3
<1>9. PickedDrawn(t)
  BY <1>2, <1>6, <1>8 DEF PickedDrawn
<1>10. t.network # "none"
  BY <1>6
<1>11. CanvasKept(t)
  BY <1>6, <1>7, <1>9, <1>10 DEF CanvasKept
<1>. QED
  BY <1>6, <1>11 DEF t

LEMMA DrawKeeps ==
    ASSUME NEW t \in Explorer, Draw(t)
    PROVE  explore'.by = t.by
<1>1. \/ explore' = [t EXCEPT !.network = "none"] \/ explore' = t
      \/ explore' = [t EXCEPT !.network = "loading"]
      \/ \E w \in Networks(t.selected, t.depth) : explore' = Merge(t, w)
  BY DEF Draw, Drawings
<1>. QED
  BY <1>1 DEF Merge, Explorer

\* Whatever the page goes over to.
LEMMA DrawInv ==
    ASSUME ExplorerInd, explore # Hidden, NEW t \in Explorer, Draw(t),
           \A l \in t.edges : {l.from, l.to} \subseteq t.nodes,
           t.by \in {"nobody", "reset"} => t.nodes = {} /\ t.edges = {} /\ t.selected = Nobody,
           t.by \in {"seed", "reader"} => t.selected # Nobody,
           t.by \in {"seed", "reset"} => t.seeded,
           t.selected = explore.selected /\ t.depth = explore.depth => PickedDrawn(t)
    PROVE  ExplorerInd'
<1>1. CASE t.selected = Nobody
  <2>. DEFINE u == [t EXCEPT !.network = "none"]
  <2>1. explore' = u
    BY <1>1 DEF Draw, Drawings
  <2>2. /\ u \in Explorer /\ u.network = "none" /\ u.nodes = t.nodes /\ u.edges = t.edges
        /\ u.selected = t.selected /\ u.by = t.by /\ u.seeded = t.seeded
    BY DEF Explorer
  <2>. HIDE DEF u
  <2>3. CanvasKept(u)
    BY <1>1, <2>2 DEF CanvasKept, PickedDrawn
  <2>. QED
    BY <2>1, <2>2, <2>3 DEF ExplorerInd
<1>2. CASE t.selected # Nobody /\ t.selected = explore.selected /\ t.depth = explore.depth
  <2>1. explore' = t
    BY <1>2 DEF Draw, Drawings
  <2>2. CanvasKept(t)
    BY <1>2 DEF CanvasKept
  <2>. QED
    BY <2>1, <2>2 DEF ExplorerInd
<1>3. CASE t.selected # Nobody /\ ~(t.selected = explore.selected /\ t.depth = explore.depth)
  <2>. DEFINE u == [t EXCEPT !.network = "loading"]
  <2>1. explore' = u \/ \E w \in Networks(t.selected, t.depth) : explore' = Merge(t, w)
    BY <1>3 DEF Draw, Drawings
  <2>2. CASE explore' = u
    <3>1. /\ u \in Explorer /\ u.network = "loading" /\ u.nodes = t.nodes /\ u.edges = t.edges
          /\ u.selected = t.selected /\ u.by = t.by /\ u.seeded = t.seeded
      BY DEF Explorer
    <3>. HIDE DEF u
    <3>2. CanvasKept(u)
      BY <1>3, <3>1 DEF CanvasKept, PickedDrawn
    <3>. QED
      BY <2>2, <3>1, <3>2 DEF ExplorerInd
  <2>3. CASE \E w \in Networks(t.selected, t.depth) : explore' = Merge(t, w)
    <3>1. t.by \in {"seed", "reader"}
      BY <1>3 DEF Explorer
    <3>. QED
      BY <1>3, <2>3, <3>1, MergeInv DEF ExplorerInd
  <2>. QED
    BY <2>1, <2>2, <2>3
<1>. QED
  BY <1>1, <1>2, <1>3

\* The page goes over to a state that shows the same.
LEMMA SameDrawn ==
    ASSUME ExplorerInd, explore # Hidden, NEW t \in Explorer, Draw(t),
           t.selected = explore.selected, t.nodes = explore.nodes, t.edges = explore.edges,
           t.by = explore.by, t.seeded = explore.seeded,
           t.network \in {explore.network, "lost"}
    PROVE  ExplorerInd' /\ explore'.by = explore.by
<1>1. CanvasKept(explore)
  BY DEF ExplorerInd
<1>2. ASSUME t.depth = explore.depth PROVE PickedDrawn(t)
  BY <1>1, <1>2 DEF CanvasKept, PickedDrawn
<1>3. /\ \A l \in t.edges : {l.from, l.to} \subseteq t.nodes
      /\ t.by \in {"nobody", "reset"} => t.nodes = {} /\ t.edges = {} /\ t.selected = Nobody
      /\ t.by \in {"seed", "reader"} => t.selected # Nobody
      /\ t.by \in {"seed", "reset"} => t.seeded
  BY <1>1 DEF CanvasKept
<1>. QED
  BY <1>2, <1>3, DrawInv, DrawKeeps

\* Another narrator is picked.
LEMMA PickInv ==
    ASSUME ExplorerInd, explore # Hidden, NEW t \in Explorer, Draw(t),
           t.selected # Nobody, t.nodes = explore.nodes, t.edges = explore.edges,
           t.depth = explore.depth, t.network = explore.network,
           t.by = "reader" \/ (t.by = "seed" /\ t.seeded)
    PROVE  ExplorerInd' /\ explore'.by = t.by
<1>1. CanvasKept(explore)
  BY DEF ExplorerInd
<1>2. ASSUME t.selected = explore.selected PROVE PickedDrawn(t)
  BY <1>1, <1>2 DEF CanvasKept, PickedDrawn
<1>3. \A l \in t.edges : {l.from, l.to} \subseteq t.nodes
  BY <1>1 DEF CanvasKept
<1>. QED
  BY <1>2, <1>3, DrawInv, DrawKeeps

LEMMA FreshIs == Fresh \in Explorer /\ CanvasKept(Fresh) /\ [Fresh EXCEPT !.sample = "there"] \in Explorer
<1>1. Fresh \in Explorer
  BY DEF Fresh, Explorer, Depths, Layouts
<1>2. CanvasKept(Fresh)
  BY DEF Fresh, CanvasKept, PickedDrawn
<1>3. [Fresh EXCEPT !.sample = "there"] \in Explorer
  BY <1>1 DEF Explorer
<1>. QED
  BY <1>1, <1>2, <1>3

\* The page seeds itself, or leaves the state as it is.
LEMMA SeededIs ==
    ASSUME NEW s \in Explorer
    PROVE  /\ Seeded(s) = s \/ /\ s.selected = Nobody /\ Seeded(s).selected \in Persons
                               /\ Seeded(s).by = "seed" /\ Seeded(s).seeded /\ ~s.seeded
           /\ Seeded(s) \in Explorer /\ Seeded(s).nodes = s.nodes /\ Seeded(s).edges = s.edges
           /\ Seeded(s).depth = s.depth /\ Seeded(s).network = s.network
<1>1. CASE s.sample = "there" /\ ~s.seeded /\ s.selected = Nobody /\ Sampled # <<>>
  <2>1. Sampled[1] \in Persons
    BY <1>1, ExplorerAssumption
  <2>. DEFINE t == [s EXCEPT !.seeded = TRUE, !.selected = Sampled[1], !.by = "seed"]
  <2>2. Seeded(s) = t
    BY <1>1 DEF Seeded
  <2>3. /\ t \in Explorer /\ t.nodes = s.nodes /\ t.edges = s.edges /\ t.depth = s.depth
        /\ t.network = s.network /\ t.selected = Sampled[1] /\ t.by = "seed" /\ t.seeded
    BY <2>1 DEF Explorer
  <2>. HIDE DEF t
  <2>. QED
    BY <1>1, <2>1, <2>2, <2>3
<1>2. CASE ~(s.sample = "there" /\ ~s.seeded /\ s.selected = Nobody /\ Sampled # <<>>)
  BY <1>2 DEF Seeded
<1>. QED
  BY <1>1, <1>2

LEMMA MountExplorerInv ==
    ASSUME MountExplorer
    PROVE  ExplorerInd'
<1>1. CASE explore' = Fresh
  BY <1>1, FreshIs DEF ExplorerInd
<1>2. CASE explore' # Fresh
  <2>. DEFINE s == [Fresh EXCEPT !.sample = "there"]
              t == Seeded(s)
              net == IF t.selected = Nobody THEN "none" ELSE "loading"
              u == [t EXCEPT !.network = net]
  <2>1. explore' = u
    BY <1>2 DEF MountExplorer
  <2>2. /\ s.nodes = {} /\ s.edges = {} /\ s.selected = Nobody /\ s.by = "nobody" /\ s.depth = 1
        /\ ~s.seeded /\ s \in Explorer
    BY FreshIs DEF Fresh
  <2>. HIDE DEF s
  <2>3. /\ t \in Explorer /\ t.nodes = {} /\ t.edges = {}
        /\ \/ t.selected = Nobody /\ t.by = "nobody"
           \/ t.selected \in Persons /\ t.by = "seed" /\ t.seeded
    BY <2>2, SeededIs
  <2>. HIDE DEF t
  <2>4. net \in {"none", "loading"} /\ (t.selected = Nobody => net = "none")
    OBVIOUS
  <2>. HIDE DEF net
  <2>5. /\ u \in Explorer /\ u.network = net /\ u.nodes = {} /\ u.edges = {}
        /\ u.selected = t.selected /\ u.by = t.by /\ u.seeded = t.seeded
    BY <2>3, <2>4 DEF Explorer
  <2>. HIDE DEF u
  <2>6. CanvasKept(u)
    BY <2>3, <2>4, <2>5, ExplorerAssumption DEF CanvasKept, PickedDrawn
  <2>. QED
    BY <2>1, <2>5, <2>6 DEF ExplorerInd
<1>. QED
  BY <1>1, <1>2

LEMMA SampleArrivesInv ==
    ASSUME ExplorerInd, explore # Hidden, SampleArrives
    PROVE  /\ ExplorerInd'
           /\ explore'.by = explore.by \/ (explore.selected = Nobody /\ ~explore.seeded)
<1>. DEFINE s == [explore EXCEPT !.sample = "there"]
            t == Seeded(s)
<1>1. /\ s \in Explorer /\ s.selected = explore.selected /\ s.nodes = explore.nodes
      /\ s.edges = explore.edges /\ s.depth = explore.depth /\ s.network = explore.network
      /\ s.by = explore.by /\ s.seeded = explore.seeded
  BY DEF ExplorerInd, Explorer
<1>2. Draw(t)
  BY DEF SampleArrives
<1>. HIDE DEF s
<1>3. /\ t \in Explorer /\ t.nodes = explore.nodes /\ t.edges = explore.edges
      /\ t.depth = explore.depth /\ t.network = explore.network
      /\ t = s \/ (s.selected = Nobody /\ ~s.seeded /\ t.selected \in Persons /\ t.by = "seed" /\ t.seeded)
  BY <1>1, SeededIs
<1>. HIDE DEF t
<1>4. CASE t = s
  BY <1>1, <1>2, <1>3, <1>4, SameDrawn
<1>5. CASE s.selected = Nobody /\ ~s.seeded /\ t.selected \in Persons /\ t.by = "seed" /\ t.seeded
  BY <1>1, <1>2, <1>3, <1>5, PickInv, ExplorerAssumption
<1>. QED
  BY <1>3, <1>4, <1>5

LEMMA NetworkArrivesInv ==
    ASSUME ExplorerInd, explore # Hidden, NetworkArrives
    PROVE  ExplorerInd' /\ explore'.by = explore.by
<1>1. explore \in Explorer /\ CanvasKept(explore)
  BY DEF ExplorerInd
<1>2. explore.selected # Nobody /\ explore.by \in {"seed", "reader"}
  BY <1>1 DEF NetworkArrives, CanvasKept, Explorer
<1>3. PICK w \in Networks(explore.selected, explore.depth) : explore' = Merge(explore, w)
  BY DEF NetworkArrives
<1>4. Merge(explore, w) \in Explorer /\ CanvasKept(Merge(explore, w))
  BY <1>1, <1>2, MergeInv DEF CanvasKept
<1>5. Merge(explore, w).by = explore.by
  BY <1>1 DEF Merge, Explorer
<1>. QED
  BY <1>3, <1>4, <1>5 DEF ExplorerInd

\* What only opens, closes, loses or arranges.
LEMMA AsideInv ==
    ASSUME ExplorerInd, explore # Hidden,
           \/ SampleLost \/ NetworkLost \/ TypeNarrator \/ ClearSearch \/ CloseDetail
           \/ EscapeKey \/ ToggleFilters
           \/ \E d \in Depths : SetDepth(d)
           \/ \E mode \in Layouts : SetLayout(mode)
    PROVE  ExplorerInd' /\ explore'.by = explore.by
<1>. DEFINE Aside(t) ==
        /\ Draw(t) /\ t \in Explorer /\ t.selected = explore.selected /\ t.nodes = explore.nodes
        /\ t.edges = explore.edges /\ t.by = explore.by /\ t.seeded = explore.seeded
        /\ t.network \in {explore.network, "lost"}
<1>0. explore \in Explorer
  BY DEF ExplorerInd
<1>1. CASE SampleLost
  <2>1. Aside([explore EXCEPT !.sample = "lost"])
    BY <1>0, <1>1 DEF SampleLost, Explorer
  <2>. QED
    BY <2>1, SameDrawn
<1>2. CASE NetworkLost
  <2>1. Aside([explore EXCEPT !.network = "lost"])
    BY <1>0, <1>2 DEF NetworkLost, Explorer
  <2>. QED
    BY <2>1, SameDrawn
<1>3. CASE TypeNarrator
  <2>1. Aside([explore EXCEPT !.searching = TRUE, !.dropdown = TRUE])
    BY <1>0, <1>3 DEF TypeNarrator, Explorer
  <2>. QED
    BY <2>1, SameDrawn
<1>4. CASE ClearSearch
  <2>1. Aside([explore EXCEPT !.searching = FALSE, !.dropdown = FALSE])
    BY <1>0, <1>4 DEF ClearSearch, Explorer
  <2>. QED
    BY <2>1, SameDrawn
<1>5. CASE CloseDetail \/ (EscapeKey /\ explore.detail)
  <2>1. Aside([explore EXCEPT !.detail = FALSE])
    BY <1>0, <1>5 DEF CloseDetail, EscapeKey, Explorer
  <2>. QED
    BY <2>1, SameDrawn
<1>6. CASE EscapeKey /\ ~explore.detail
  <2>1. Aside([explore EXCEPT !.dropdown = FALSE])
    BY <1>0, <1>6 DEF EscapeKey, Explorer
  <2>. QED
    BY <2>1, SameDrawn
<1>7. CASE ToggleFilters
  <2>1. PICK f \in BOOLEAN : Draw([explore EXCEPT !.filters = f])
    BY <1>0, <1>7 DEF ToggleFilters, Explorer
  <2>2. Aside([explore EXCEPT !.filters = f])
    BY <1>0, <2>1 DEF Explorer
  <2>. QED
    BY <2>2, SameDrawn
<1>8. CASE \E d \in Depths : SetDepth(d)
  <2>1. PICK d \in Depths : Draw([explore EXCEPT !.depth = d])
    BY <1>8 DEF SetDepth
  <2>2. Aside([explore EXCEPT !.depth = d])
    BY <1>0, <2>1 DEF Explorer
  <2>. QED
    BY <2>2, SameDrawn
<1>9. CASE \E mode \in Layouts : SetLayout(mode)
  <2>1. PICK mode \in Layouts : Draw([explore EXCEPT !.layout = mode])
    BY <1>9 DEF SetLayout
  <2>2. Aside([explore EXCEPT !.layout = mode])
    BY <1>0, <2>1 DEF Explorer
  <2>. QED
    BY <2>2, SameDrawn
<1>. QED
  BY <1>1, <1>2, <1>3, <1>4, <1>5, <1>6, <1>7, <1>8, <1>9

LEMMA SuggestedIs == Suggestions \subseteq Persons
<1>. DEFINE last == Min({SuggestionCount, Len(Sampled)})
<1>1. 6 \in Int /\ Len(Sampled) \in Nat /\ Len(Sampled) \in Int
  BY ExplorerAssumption
<1>2. last \in {SuggestionCount, Len(Sampled)} /\ last <= Len(Sampled)
  BY <1>1, OfTwo DEF SuggestionCount
<1>3. last \in Nat
  BY <1>1, <1>2 DEF SuggestionCount
<1>. HIDE DEF last
<1>4. \A i \in DOMAIN SubSeq(Sampled, 1, last) : SubSeq(Sampled, 1, last)[i] \in Persons
  BY <1>2, <1>3, ExplorerAssumption
<1>. QED
  BY <1>4 DEF Suggestions, Range, last

\* The reader picks a narrator.
LEMMA ReaderPicks ==
    ASSUME ExplorerInd, explore # Hidden, NEW n \in Persons,
           SelectSearch(n) \/ ClickNode(n) \/ SelectSuggested(n)
    PROVE  ExplorerInd' /\ explore'.by = "reader"
<1>. DEFINE Picked(t) ==
        /\ Draw(t) /\ t \in Explorer /\ t.selected = n /\ t.nodes = explore.nodes
        /\ t.edges = explore.edges /\ t.depth = explore.depth /\ t.network = explore.network
        /\ t.by = "reader"
<1>0. explore \in Explorer /\ n # Nobody
  BY ExplorerAssumption DEF ExplorerInd
<1>1. CASE SelectSearch(n)
  <2>1. Picked([explore EXCEPT !.selected = n, !.searching = FALSE, !.dropdown = FALSE,
                               !.detail = TRUE, !.by = "reader"])
    BY <1>0, <1>1 DEF SelectSearch, Explorer
  <2>. QED
    BY <1>0, <2>1, PickInv
<1>2. CASE ClickNode(n)
  <2>1. Picked([explore EXCEPT !.selected = n, !.detail = TRUE, !.by = "reader"])
    BY <1>0, <1>2 DEF ClickNode, Explorer
  <2>. QED
    BY <1>0, <2>1, PickInv
<1>3. CASE SelectSuggested(n)
  <2>1. Picked([explore EXCEPT !.seeded = TRUE, !.selected = n, !.searching = FALSE,
                               !.dropdown = FALSE, !.by = "reader"])
    BY <1>0, <1>3 DEF SelectSuggested, Explorer
  <2>. QED
    BY <1>0, <2>1, PickInv
<1>. QED
  BY <1>1, <1>2, <1>3

LEMMA ResetInv ==
    ASSUME ExplorerInd, explore # Hidden, ResetGraph
    PROVE  ExplorerInd' /\ explore'.by = "reset"
<1>. DEFINE t == [explore EXCEPT !.seeded = TRUE, !.nodes = {}, !.edges = {},
                                !.selected = Nobody, !.searching = FALSE, !.detail = FALSE,
                                !.by = "reset"]
<1>1. /\ t \in Explorer /\ t.nodes = {} /\ t.edges = {} /\ t.selected = Nobody
      /\ t.by = "reset" /\ t.seeded /\ t.network = explore.network /\ t.depth = explore.depth
  BY DEF ExplorerInd, Explorer
<1>2. Draw(t)
  BY DEF ResetGraph
<1>. HIDE DEF t
<1>3. ASSUME t.selected = explore.selected PROVE PickedDrawn(t)
  BY <1>1, <1>3 DEF ExplorerInd, CanvasKept, PickedDrawn
<1>. QED
  BY <1>1, <1>2, <1>3, DrawInv, DrawKeeps

LEMMA ExplorerStepInv == ExplorerInd /\ [ExplorerNext]_exploreVars => ExplorerInd'
<1>. SUFFICES ASSUME ExplorerInd, [ExplorerNext]_exploreVars
              PROVE  ExplorerInd'
  OBVIOUS
<1>1. CASE MountExplorer
  BY <1>1, MountExplorerInv
<1>2. CASE explore # Hidden /\ SampleArrives
  BY <1>2, SampleArrivesInv
<1>3. CASE explore # Hidden /\ NetworkArrives
  BY <1>3, NetworkArrivesInv
<1>4. CASE /\ explore # Hidden
           /\ \/ SampleLost \/ NetworkLost \/ TypeNarrator \/ ClearSearch \/ CloseDetail
              \/ EscapeKey \/ ToggleFilters
              \/ \E d \in Depths : SetDepth(d)
              \/ \E mode \in Layouts : SetLayout(mode)
  BY <1>4, AsideInv
<1>5. CASE explore # Hidden /\ \E n \in Persons : SelectSearch(n) \/ ClickNode(n)
  BY <1>5, ReaderPicks
<1>6. CASE explore # Hidden /\ \E n \in Suggestions : SelectSuggested(n)
  BY <1>6, ReaderPicks, SuggestedIs
<1>7. CASE explore # Hidden /\ ResetGraph
  BY <1>7, ResetInv
<1>8. CASE explore # Hidden /\ LeaveExplorer
  BY <1>8 DEF LeaveExplorer, ExplorerInd
<1>9. CASE UNCHANGED exploreVars
  BY <1>9 DEF exploreVars, ExplorerInd
<1>. QED
  BY <1>1, <1>2, <1>3, <1>4, <1>5, <1>6, <1>7, <1>8, <1>9 DEF ExplorerNext

\* In every reachable state of the explorer, whatever networks were merged in whatever
\* order, each edge has both ends on the canvas, a reset canvas is blank, the narrator
\* picked and his neighbours are drawn, and the bands are in the order of generations.
THEOREM ExplorerInvariant == ExplorerSpec => []ExplorerInv
<1>1. ExplorerInit => ExplorerInd
  BY DEF ExplorerInit, ExplorerInd
<1>2. ExplorerInd => ExplorerInv
  <2>. SUFFICES ASSUME ExplorerInd PROVE ExplorerInv
    OBVIOUS
  <2>1. ExplorerTypeOK /\ CanvasClosed /\ ResetSticks
    BY DEF ExplorerInd, CanvasKept, ExplorerTypeOK, CanvasClosed, ResetSticks
  <2>2. PickIsDrawn
    <3>. SUFFICES ASSUME explore # Hidden, explore.network = "there"
                  PROVE  /\ explore.selected \in explore.nodes
                         /\ Lit(explore) \subseteq explore.nodes
                         /\ explore.depth = 1 /\ Cardinality(Near(explore.selected, 1)) <= Cap =>
                               Near(explore.selected, 1) \subseteq Lit(explore)
      BY DEF PickIsDrawn
    <3>1. explore \in Explorer /\ CanvasKept(explore) /\ PickedDrawn(explore)
      BY DEF ExplorerInd, CanvasKept
    <3>2. explore.selected # Nobody /\ explore.selected \in explore.nodes
      BY <3>1 DEF CanvasKept, PickedDrawn
    <3>3. Lit(explore) = {explore.selected} \cup
             {n \in explore.nodes : \E l \in explore.edges :
                 {l.from, l.to} = {n, explore.selected}}
      BY <3>2 DEF Lit
    <3>. QED
      BY <3>1, <3>2, <3>3 DEF PickedDrawn
  <2>3. BandsChronological
    <3>. SUFFICES ASSUME explore # Hidden PROVE BandsChronological
      BY DEF BandsChronological
    <3>1. explore.nodes \in SUBSET Persons
      BY DEF ExplorerInd, Explorer
    <3>. QED
      BY <3>1, BandsAre DEF BandsChronological
  <2>. QED
    BY <2>1, <2>2, <2>3 DEF ExplorerInv
<1>. QED
  BY <1>1, <1>2, ExplorerStepInv, PTL DEF ExplorerSpec

\* No step lets the page pick by itself once the reader has picked or cleared.
THEOREM ExplorerSeedsOnce == ExplorerSpec => SeedsOnlyUntouched
<1>. DEFINE Once == explore # Hidden /\ explore' # Hidden /\ explore'.by = "seed"
                       /\ explore.by # "seed" => explore.by = "nobody"
<1>1. ExplorerInit => ExplorerInd
  BY DEF ExplorerInit, ExplorerInd
<1>2. ExplorerInd /\ [ExplorerNext]_exploreVars => Once
  <2>. SUFFICES ASSUME ExplorerInd, [ExplorerNext]_exploreVars, explore # Hidden,
                       explore' # Hidden, explore'.by = "seed", explore.by # "seed"
                PROVE  explore.by = "nobody"
    OBVIOUS
  <2>0. explore \in Explorer /\ CanvasKept(explore)
    BY DEF ExplorerInd
  <2>1. CASE SampleArrives
    BY <2>0, <2>1, SampleArrivesInv DEF CanvasKept, Explorer
  <2>2. CASE NetworkArrives
    BY <2>2, NetworkArrivesInv
  <2>3. CASE \/ SampleLost \/ NetworkLost \/ TypeNarrator \/ ClearSearch \/ CloseDetail
             \/ EscapeKey \/ ToggleFilters
             \/ \E d \in Depths : SetDepth(d)
             \/ \E mode \in Layouts : SetLayout(mode)
    BY <2>3, AsideInv
  <2>4. CASE \E n \in Persons : SelectSearch(n) \/ ClickNode(n)
    BY <2>4, ReaderPicks
  <2>5. CASE \E n \in Suggestions : SelectSuggested(n)
    BY <2>5, ReaderPicks, SuggestedIs
  <2>6. CASE ResetGraph
    BY <2>6, ResetInv
  <2>7. CASE MountExplorer \/ LeaveExplorer \/ UNCHANGED exploreVars
    BY <2>7 DEF MountExplorer, LeaveExplorer, exploreVars
  <2>. QED
    BY <2>1, <2>2, <2>3, <2>4, <2>5, <2>6, <2>7 DEF ExplorerNext
<1>. QED
  BY <1>1, <1>2, ExplorerStepInv, PTL DEF ExplorerSpec, SeedsOnlyUntouched
=============================================================================
