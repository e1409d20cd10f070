---------------------------- MODULE SearchProofs ----------------------------
(***************************************************************************)
(* Proofs about SearchPage, for any rows found, any sizes of the batches,  *)
(* pages and hints that fit together (PagerAssumption), with the indexes   *)
(* and the vectors there or not: a page past the first has results, and    *)
(* each match is on one page.                                              *)
(***************************************************************************)
EXTENDS SearchPage, Ranking

-----------------------------------------------------------------------------
(* Search: what is filtered, ordered and cut of a list.                     *)

\* The k-th of a set of numbers.
Kth(S, k) == CHOOSE i \in S : Cardinality({j \in S : j <= i}) = k

LEMMA KthIs ==
    ASSUME NEW S, IsFiniteSet(S), AreNumbers(S), NEW k \in 1..Cardinality(S)
    PROVE  Kth(S, k) \in S /\ Cardinality({j \in S : j <= Kth(S, k)}) = k
<1>. DEFINE P == [x \in S |-> Cardinality({y \in S : y <= x})]
<1>1. Numbering(P, S)
  BY PlacesUp
<1>2. PICK x \in S : P[x] = k
  <2>. HIDE DEF P
  <2>. QED
    BY <1>1 DEF Numbering
<1>. QED
  BY <1>2 DEF Kth

LEMMA IntervalIs ==
    ASSUME NEW n \in Nat
    PROVE  IsFiniteSet(1..n) /\ Cardinality(1..n) = n /\ AreNumbers(1..n)
<1>1. \A a, b \in Int : IsFiniteSet(a..b) /\ Cardinality(a..b) = IF a > b THEN 0 ELSE b - a + 1
  BY FS_Interval
<1>2. IsFiniteSet(1..n) /\ Cardinality(1..n) = n
  BY <1>1
<1>. QED
  BY <1>2 DEF AreNumbers

LEMMA ThoseAre ==
    ASSUME NEW s, NEW n \in Nat, DOMAIN s = 1..n, NEW places \in SUBSET (1..n)
    PROVE  /\ Cardinality(places) \in Nat /\ Cardinality(places) <= n
           /\ DOMAIN Those(s, places) = 1..Cardinality(places)
           /\ Len(Those(s, places)) = Cardinality(places)
           /\ Those(s, places) = <<>> <=> places = {}
           /\ \A k \in 1..Cardinality(places) : \E i \in places : Those(s, places)[k] = s[i]
           /\ places = 1..n => \A k \in 1..n : Those(s, places)[k] = s[k]
<1>1. IsFiniteSet(1..n) /\ Cardinality(1..n) = n /\ AreNumbers(1..n)
  BY IntervalIs
<1>2. /\ IsFiniteSet(places) /\ Cardinality(places) \in Nat /\ Cardinality(places) <= n
      /\ AreNumbers(places) /\ (places = {} <=> Cardinality(places) = 0)
  <2>1. AreNumbers(places)
    BY <1>1 DEF AreNumbers
  <2>2. IsFiniteSet(places) /\ Cardinality(places) <= Cardinality(1..n)
    BY <1>1, FS_Subset
  <2>. QED
    BY <1>1, <2>1, <2>2, FS_CardinalityType, FS_EmptySet
<1>3. Those(s, places) = [k \in 1..Cardinality(places) |-> s[Kth(places, k)]]
  BY DEF Those, Kth
<1>4. \A k \in 1..Cardinality(places) : Kth(places, k) \in places
  BY <1>2, KthIs
<1>5. ASSUME places = 1..n, NEW k \in 1..n PROVE Kth(places, k) = k
  <2>1. Kth(1..n, k) \in 1..n /\ Cardinality({j \in 1..n : j <= Kth(1..n, k)}) = k
    BY <1>1, KthIs
  <2>2. \A i \in 1..n : {j \in 1..n : j <= i} = 1..i
    OBVIOUS
  <2>3. Cardinality(1..Kth(1..n, k)) = k
    BY <2>1, <2>2
  <2>. QED
    BY <1>5, <2>1, <2>3, IntervalIs
<1>6. Len(Those(s, places)) = Cardinality(places) /\ (Those(s, places) = <<>> <=> Cardinality(places) = 0)
  BY <1>2, <1>3
<1>. QED
  BY <1>1, <1>2, <1>3, <1>4, <1>5, <1>6

\* A page of a list of n: its rows are those of the list from the page's first on.
LEMMA WindowIs ==
    ASSUME NEW s, s \in Seq(Range(s)), NEW page \in Nat \ {0}, NEW limit \in Nat \ {0}
    PROVE  LET w == Window(s, page, limit)
               before == (page - 1) * limit
           IN /\ before \in Nat /\ before + limit = page * limit
              /\ w \in Seq(Range(s)) /\ Len(w) \in Nat /\ DOMAIN w = 1..Len(w) /\ Len(w) <= limit
              /\ \A j \in 1..limit : j <= Len(w) <=> before + j <= Len(s)
              /\ \A j \in 1..Len(w) : before + j \in 1..Len(s) /\ w[j] = s[before + j]
<1>. DEFINE before == (page - 1) * limit
            last == Min({page * limit, Len(s)})
            w == Window(s, page, limit)
<1>1. before \in Nat /\ before + limit = page * limit /\ Len(s) \in Nat
  <2>1. page - 1 \in Nat /\ page = (page - 1) + 1
    OBVIOUS
  <2>. QED
    BY <2>1
<1>. HIDE DEF before
<1>2. last \in Int /\ last \in {before + limit, Len(s)} /\ last <= before + limit /\ last <= Len(s)
  <2>. DEFINE a == page * limit
              b == Len(s)
  <2>1. a \in Int /\ b \in Int /\ a = before + limit
    BY <1>1
  <2>2. Min({a, b}) \in {a, b} /\ Min({a, b}) <= a /\ Min({a, b}) <= b
    <3>. HIDE DEF a, b
    <3>. QED
      BY <2>1, OfTwo
  <2>3. last = Min({a, b})
    OBVIOUS
  <2>. HIDE DEF a, last
  <2>. QED
    BY <2>1, <2>2, <2>3
<1>3. w = SubSeq(s, before + 1, last)
  BY DEF Window, before
<1>. HIDE DEF w, last
<1>4. /\ w \in Seq(Range(s)) /\ Len(w) = (IF before + 1 <= last THEN last - before ELSE 0)
      /\ \A j \in 1..Len(w) : w[j] = s[before + j]
  <2>. DEFINE S == Range(s)
              a == before + 1
  <2>1. s \in Seq(S) /\ a \in Int /\ a >= 1 /\ w = SubSeq(s, a, last)
    BY <1>1, <1>3
  <2>2. last \in Int /\ last <= Len(s)
    BY <1>2
  <2>. HIDE DEF S, a
  <2>3. w \in Seq(S) /\ Len(w) = (IF a <= last THEN (last - a) + 1 ELSE 0)
    BY <2>1, <2>2
  <2>4. \A j \in 1..Len(w) : w[j] = s[(a + j) - 1]
    BY <2>1, <2>2
  <2>5. \A j \in 1..Len(w) : (a + j) - 1 = before + j
    BY <1>1, <2>3 DEF a
  <2>6. (last - a) + 1 = last - before
    BY <1>1, <2>2 DEF a
  <2>. QED
    BY <2>3, <2>4, <2>5, <2>6 DEF S, a
<1>5. /\ Len(w) \in Nat /\ DOMAIN w = 1..Len(w) /\ Len(w) <= limit
      /\ \A j \in 1..limit : j <= Len(w) <=> before + j <= Len(s)
      /\ \A j \in 1..Len(w) : before + j \in 1..Len(s)
  BY <1>1, <1>2, <1>4
<1>. QED
  BY <1>1, <1>4, <1>5 DEF before, w

\* Each of the places from 1 to n goes to a place of its own.
Permutes(pi, n) ==
    /\ pi \in [1..n -> 1..n]
    /\ \A i \in 1..n : \E k \in 1..n : pi[k] = i
    /\ \A k, l \in 1..n : pi[k] = pi[l] => k = l

\* A stable sort by a number permutes a list.
LEMMA OrderedIs ==
    ASSUME NEW s, NEW n \in Nat, DOMAIN s = 1..n, NEW v, \A i \in 1..n : v[i] \in Int,
           NEW before, \A i, j \in 1..n : <<i, j>> \in before <=> v[i] < v[j]
    PROVE  /\ DOMAIN Ordered(s, before) = 1..n
           /\ \E pi : Permutes(pi, n) /\ \A k \in 1..n : Ordered(s, before)[k] = s[pi[k]]
<1>. DEFINE Up(j, i) == <<j, i>> \in before \/ (j <= i /\ <<i, j>> \notin before)
            R == {p \in (1..n) \X (1..n) : Up(p[1], p[2])}
            pi == [k \in 1..n |-> CHOOSE i \in 1..n : Ranks(1..n, R)[i] = k]
<1>1. Linear(R, 1..n)
  <2>1. \A i, j \in 1..n : <<i, j>> \in R <=> Up(i, j)
    OBVIOUS
  <2>2. ASSUME NEW i \in 1..n, NEW j \in 1..n
        PROVE  Up(i, j) <=> v[i] < v[j] \/ (i <= j /\ v[i] <= v[j])
    <3>1. /\ <<i, j>> \in before <=> v[i] < v[j]
          /\ <<j, i>> \in before <=> v[j] < v[i]
          /\ v[i] \in Int /\ v[j] \in Int
      OBVIOUS
    <3>. QED
      BY <3>1
  <2>. HIDE DEF Up, R
  <2>3. \A i, j \in 1..n : Up(i, i) /\ (Up(i, j) \/ Up(j, i)) /\ (Up(i, j) /\ Up(j, i) => i = j)
    BY <2>2
  <2>4. \A i, j, k \in 1..n : Up(i, j) /\ Up(j, k) => Up(i, k)
    BY <2>2
  <2>. QED
    BY <2>1, <2>3, <2>4, Zenon DEF Linear
<1>2. IsFiniteSet(1..n) /\ Cardinality(1..n) = n
  BY IntervalIs
<1>3. /\ \A k \in 1..n : \E i \in 1..n : Ranks(1..n, R)[i] = k
      /\ \A i \in 1..n : Ranks(1..n, R)[i] \in 1..n
  <2>. DEFINE S == 1..n
  <2>. HIDE DEF R, S
  <2>1. IsFiniteSet(S) /\ Cardinality(S) = n /\ Linear(R, S)
    BY <1>1, <1>2 DEF S
  <2>2. \A k \in 1..Cardinality(S) : \E i \in S : Ranks(S, R)[i] = k
    BY <2>1, RanksTaken
  <2>3. \A i \in S : Ranks(S, R)[i] \in 1..Cardinality(S)
    BY <2>1, RankOrder
  <2>. QED
    BY <2>1, <2>2, <2>3 DEF S
<1>4. \A i, j \in 1..n : Ranks(1..n, R)[i] = Ranks(1..n, R)[j] => i = j
  <2>. HIDE DEF R
  <2>. QED
    BY <1>1, <1>2, RankOrder
<1>5. ASSUME NEW i \in 1..n
      PROVE  Ranks(1..n, R)[i] = Cardinality({j \in DOMAIN s : Up(j, i)})
  <2>1. UpTo(i, 1..n, R) = {j \in 1..n : Up(j, i)}
    BY DEF UpTo
  <2>. QED
    BY <2>1 DEF Ranks
<1>6. Ordered(s, before) = [k \in 1..n |-> s[pi[k]]]
  <2>1. ASSUME NEW k \in 1..n
        PROVE  (CHOOSE i \in 1..n : Cardinality({j \in DOMAIN s : Up(j, i)}) = k) = pi[k]
    <3>. DEFINE P(i) == Cardinality({j \in DOMAIN s : Up(j, i)}) = k
                Q(i) == Ranks(1..n, R)[i] = k
    <3>1. \A i \in 1..n : P(i) <=> Q(i)
      BY <1>5
    <3>2. pi[k] = CHOOSE i \in 1..n : Q(i)
      OBVIOUS
    <3>. HIDE DEF P, Q
    <3>3. (CHOOSE i \in 1..n : P(i)) = (CHOOSE i \in 1..n : Q(i))
      BY <3>1, Zenon
    <3>. QED
      BY <3>2, <3>3 DEF P
  <2>2. Ordered(s, before) =
          [k \in 1..n |-> s[CHOOSE i \in 1..n : Cardinality({j \in DOMAIN s : Up(j, i)}) = k]]
    BY DEF Ordered
  <2>. HIDE DEF pi
  <2>. QED
    BY <2>1, <2>2
<1>7. Permutes(pi, n)
  <2>. DEFINE rank == Ranks(1..n, R)
  <2>. HIDE DEF rank
  <2>1. \A k \in 1..n : pi[k] \in 1..n /\ rank[pi[k]] = k
    BY <1>3 DEF rank
  <2>2. pi \in [1..n -> 1..n]
    BY <2>1
  <2>. HIDE DEF pi
  <2>3. \A i \in 1..n : rank[i] \in 1..n
    BY <1>3 DEF rank
  <2>4. \A i, j \in 1..n : rank[i] = rank[j] => i = j
    BY <1>4 DEF rank
  <2>5. \A i \in 1..n : pi[rank[i]] = i
    BY <2>1, <2>3, <2>4
  <2>. QED
    BY <2>1, <2>2, <2>3, <2>5 DEF Permutes
<1>. QED
  <2>. HIDE DEF pi
  <2>. QED
    BY <1>6, <1>7

\* Hits, or rows, by number, with numbers to sort them by.
Sortable(s, n) ==
    /\ DOMAIN s = 1..n
    /\ \A i \in 1..n : /\ {"id", "title", "score"} \subseteq DOMAIN s[i]
                       /\ s[i].id \in Int /\ s[i].title \in Int /\ s[i].score \in Int

LEMMA ListIs ==
    ASSUME NEW n \in Nat, NEW g, g = [k \in 1..n |-> g[k]]
    PROVE  g \in Seq(Range(g)) /\ Len(g) = n /\ DOMAIN g = 1..n
<1>. DEFINE S == Range(g)
<1>1. \A k \in 1..n : g[k] \in S
  BY DEF Range
<1>. HIDE DEF S
<1>2. g \in [1..n -> S]
  BY <1>1
<1>3. g \in Seq(S) /\ Len(g) = n
  BY <1>2
<1>. QED
  BY <1>3 DEF S

LEMMA SortedIs ==
    ASSUME NEW n \in Nat, NEW hits, Sortable(hits, n), NEW sort
    PROVE  /\ DOMAIN SortedBy(hits, sort) = 1..n
           /\ \E pi : Permutes(pi, n) /\ \A k \in 1..n : SortedBy(hits, sort)[k] = hits[pi[k]]
<1>. DEFINE Better(a, b) == \/ sort = "relevance" /\ a.score > b.score
                            \/ sort = "name" /\ a.title < b.title
            before == {p \in (1..n) \X (1..n) : Better(hits[p[1]], hits[p[2]])}
            v == [i \in 1..n |-> IF sort = "relevance" THEN -hits[i].score
                                 ELSE IF sort = "name" THEN hits[i].title ELSE 0]
<1>1. \A i \in 1..n : hits[i].score \in Int /\ hits[i].title \in Int
  BY DEF Sortable
<1>2. \A i \in 1..n : v[i] \in Int
  BY <1>1
<1>3. ASSUME NEW i \in 1..n, NEW j \in 1..n
      PROVE  <<i, j>> \in before <=> v[i] < v[j]
  <2>1. <<i, j>> \in before <=> Better(hits[i], hits[j])
    OBVIOUS
  <2>2. Better(hits[i], hits[j]) <=> v[i] < v[j]
    <3>1. CASE sort = "relevance"
      <4>1. v[i] = -hits[i].score /\ v[j] = -hits[j].score /\ (Better(hits[i], hits[j]) <=> hits[i].score > hits[j].score)
        BY <3>1
      <4>. HIDE DEF v, Better
      <4>. QED
        BY <1>1, <4>1
    <3>2. CASE sort = "name"
      <4>1. v[i] = hits[i].title /\ v[j] = hits[j].title /\ (Better(hits[i], hits[j]) <=> hits[i].title < hits[j].title)
        BY <3>2
      <4>. HIDE DEF v, Better
      <4>. QED
        BY <1>1, <4>1
    <3>3. CASE sort # "relevance" /\ sort # "name"
      BY <3>3
    <3>. QED
      BY <3>1, <3>2, <3>3
  <2>. QED
    BY <2>1, <2>2
<1>4. SortedBy(hits, sort) = Ordered(hits, before)
  BY DEF SortedBy, Sortable
<1>5. DOMAIN hits = 1..n
  BY DEF Sortable
<1>. HIDE DEF before, v
<1>6. /\ DOMAIN Ordered(hits, before) = 1..n
      /\ \E pi : Permutes(pi, n) /\ \A k \in 1..n : Ordered(hits, before)[k] = hits[pi[k]]
  BY <1>2, <1>3, <1>5, OrderedIs
<1>. QED
  BY <1>4, <1>6

\* The rows of one list of a query, in the order in which they are paged.
Lists(rows, ranked) ==
    /\ ranked \in Seq(Range(ranked)) /\ Len(ranked) = Len(rows) /\ Sortable(ranked, Len(rows))
    /\ \A i \in 1..Len(rows) : \E k \in 1..Len(rows) : ranked[k].id = rows[i].id
    /\ \A k \in 1..Len(rows) : \E i \in 1..Len(rows) : ranked[k].id = rows[i].id
    /\ \A k, l \in 1..Len(rows) : ranked[k].id = ranked[l].id => k = l

LEMMA RowsAre ==
    ASSUME NEW q \in Queries, NEW list \in {"narrators", "hadiths", "near"}
    PROVE  LET rows == Found[q][list] IN Len(rows) \in Nat /\ Lists(rows, rows)
<1>. DEFINE rows == Found[q][list]
<1>1. /\ rows \in Seq(Range(rows))
      /\ \A i \in DOMAIN rows : /\ {"id", "title", "score"} \subseteq DOMAIN rows[i]
                               /\ {rows[i].id, rows[i].title, rows[i].score} \subseteq Int
      /\ \A i, j \in DOMAIN rows : rows[i].id = rows[j].id => i = j
  BY FoundAssumption
<1>. HIDE DEF rows
<1>2. Len(rows) \in Nat /\ DOMAIN rows = 1..Len(rows)
  BY <1>1
<1>3. Sortable(rows, Len(rows))
  BY <1>1, <1>2 DEF Sortable
<1>4. Len(rows) \in Nat /\ Lists(rows, rows)
  BY <1>1, <1>2, <1>3 DEF Lists
<1>. QED
  BY <1>4 DEF rows

LEMMA RankedIs ==
    ASSUME NEW rows, Len(rows) \in Nat, Lists(rows, rows), NEW indexed
    PROVE  Lists(rows, Ranked(rows, indexed))
<1>. DEFINE n == Len(rows)
            scored == [i \in 1..n |-> [rows[i] EXCEPT !.score = 1]]
            before == {p \in (1..n) \X (1..n) : rows[p[1]].id < rows[p[2]].id}
            v == [i \in 1..n |-> rows[i].id]
<1>1. /\ n \in Nat /\ DOMAIN rows = 1..n /\ Sortable(rows, n)
      /\ \A k, l \in 1..n : rows[k].id = rows[l].id => k = l
  BY DEF Lists, Sortable
<1>. HIDE DEF n
<1>0. n \in Nat
  BY <1>1
<1>2. CASE indexed
  BY <1>2 DEF Ranked
<1>3. CASE ~indexed
  <2>1. ById(rows) = Ordered(scored, before)
    BY <1>1 DEF ById
  <2>2. DOMAIN scored = 1..n
    OBVIOUS
  <2>3. \A i \in 1..n : v[i] \in Int
    BY <1>1 DEF Sortable
  <2>4. \A i, j \in 1..n : <<i, j>> \in before <=> v[i] < v[j]
    OBVIOUS
  <2>5. \A i \in 1..n : /\ scored[i].id = rows[i].id
                        /\ {"id", "title", "score"} \subseteq DOMAIN scored[i]
                        /\ scored[i].id \in Int /\ scored[i].title \in Int /\ scored[i].score \in Int
    BY <1>1 DEF Sortable
  <2>. HIDE DEF before, v, scored
  <2>6. /\ DOMAIN Ordered(scored, before) = 1..n
        /\ \E pi : Permutes(pi, n) /\ \A k \in 1..n : Ordered(scored, before)[k] = scored[pi[k]]
    BY <1>0, <2>2, <2>3, <2>4, OrderedIs
  <2>. DEFINE ranked == Ordered(scored, before)
  <2>7. PICK pi : Permutes(pi, n) /\ \A k \in 1..n : ranked[k] = scored[pi[k]]
    BY <2>6
  <2>8. ranked \in Seq(Range(ranked)) /\ Len(ranked) = n
    <3>1. ranked = [k \in 1..n |-> ranked[k]]
      BY <2>2 DEF Ordered
    <3>. QED
      BY <1>1, <3>1, ListIs
  <2>. HIDE DEF ranked
  <2>9. \A k \in 1..n : pi[k] \in 1..n
    BY <2>7 DEF Permutes
  <2>10. Sortable(ranked, n)
    <3>1. DOMAIN ranked = 1..n
      BY <2>6 DEF ranked
    <3>. QED
      BY <2>5, <2>7, <2>9, <3>1 DEF Sortable
  <2>11. \A k \in 1..n : ranked[k].id = rows[pi[k]].id
    BY <2>5, <2>7, <2>9
  <2>12. \A i \in 1..n : \E k \in 1..n : ranked[k].id = rows[i].id
    BY <2>7, <2>11 DEF Permutes
  <2>14. \A k \in 1..n : \E i \in 1..n : ranked[k].id = rows[i].id
    BY <2>9, <2>11
  <2>13. \A k, l \in 1..n : ranked[k].id = ranked[l].id => k = l
    <3>. SUFFICES ASSUME NEW k \in 1..n, NEW l \in 1..n, ranked[k].id = ranked[l].id PROVE k = l
      OBVIOUS
    <3>1. rows[pi[k]].id = rows[pi[l]].id
      BY <2>11
    <3>2. pi[k] = pi[l]
      BY <1>1, <2>9, <3>1
    <3>. QED
      BY <2>7, <3>2 DEF Permutes
  <2>. QED
    BY <1>3, <2>1, <2>8, <2>10, <2>12, <2>13, <2>14 DEF Lists, Ranked, ranked, n
<1>. QED
  BY <1>2, <1>3

-----------------------------------------------------------------------------
(* The fair merge: after n places, from lists of a and of b rows, half of n *)
(* are from the first unless one of the lists has run out.                  *)

Turns(n, a, b) ==
    LET half == (n + 1) \div 2
    IN IF half > a THEN a ELSE IF n - half > b THEN n - b ELSE half

Took(n, a, b) ==
    [first |-> Turns(n, a, b), second |-> n - Turns(n, a, b), turn |-> n % 2 = 0]

\* F counts as _interleave_fairly does.
Counts(F, a, b, size) ==
    F = [n \in 0..size |->
            IF n = 0 THEN [first |-> 0, second |-> 0, turn |-> TRUE]
            ELSE LET t == F[n - 1]
                     fromFirst == \/ t.turn /\ t.first < a
                                  \/ t.second >= b
                 IN [first |-> t.first + (IF fromFirst THEN 1 ELSE 0),
                     second |-> t.second + (IF fromFirst THEN 0 ELSE 1),
                     turn |-> ~t.turn]]

LEMMA HalvesAre ==
    ASSUME NEW n \in Nat
    PROVE  \E h \in Nat : \/ n = 2 * h /\ (n + 1) \div 2 = h /\ n % 2 = 0 
                          \/ n = 2 * h + 1 /\ (n + 1) \div 2 = h + 1 /\ n % 2 = 1
<1>1. n \div 2 \in Nat /\ n % 2 \in {0, 1} /\ n = 2 * (n \div 2) + (n % 2)
  OBVIOUS
<1>2. CASE n % 2 = 0
  BY <1>1, <1>2
<1>3. CASE n % 2 = 1
  BY <1>1, <1>3
<1>. QED
  BY <1>1, <1>2, <1>3

LEMMA TurnsAre ==
    ASSUME NEW a \in Nat, NEW b \in Nat, NEW n \in Nat, n <= a + b
    PROVE  /\ Turns(n, a, b) \in Nat /\ Turns(n, a, b) <= a
           /\ n - Turns(n, a, b) \in Nat /\ n - Turns(n, a, b) <= b
           /\ n > 0 => LET t == Turns(n - 1, a, b)
                           fromFirst == ((n - 1) % 2 = 0 /\ t < a) \/ (n - 1) - t >= b
                       IN Turns(n, a, b) = t + (IF fromFirst THEN 1 ELSE 0)
<1>1. PICK h \in Nat : \/ n = 2 * h /\ (n + 1) \div 2 = h /\ n % 2 = 0 
                       \/ n = 2 * h + 1 /\ (n + 1) \div 2 = h + 1 /\ n % 2 = 1
  BY HalvesAre
<1>2. /\ Turns(n, a, b) \in Nat /\ Turns(n, a, b) <= a
      /\ n - Turns(n, a, b) \in Nat /\ n - Turns(n, a, b) <= b
  BY <1>1 DEF Turns
<1>3. ASSUME n > 0
      PROVE  LET t == Turns(n - 1, a, b)
                 fromFirst == ((n - 1) % 2 = 0 /\ t < a) \/ (n - 1) - t >= b
             IN Turns(n, a, b) = t + (IF fromFirst THEN 1 ELSE 0)
  <2>1. n - 1 \in Nat
    BY <1>3
  <2>2. PICK g \in Nat : \/ n - 1 = 2 * g /\ ((n - 1) + 1) \div 2 = g /\ (n - 1) % 2 = 0 
                         \/ n - 1 = 2 * g + 1 /\ ((n - 1) + 1) \div 2 = g + 1 /\ (n - 1) % 2 = 1
    BY <2>1, HalvesAre
  <2>. QED
    BY <1>1, <1>3, <2>2 DEF Turns
<1>. QED
  BY <1>2, <1>3

LEMMA CountsAre ==
    ASSUME NEW a \in Nat, NEW b \in Nat, NEW size \in Nat, size <= a + b,
           NEW F, Counts(F, a, b, size), NEW n \in 0..size
    PROVE  F[n] = Took(n, a, b)
<1>. DEFINE bad == {k \in 0..size : F[k] # Took(k, a, b)}
<1>1. F[0] = Took(0, a, b)
  <2>1. F[0] = [first |-> 0, second |-> 0, turn |-> TRUE]
    BY DEF Counts
  <2>2. Turns(0, a, b) = 0
    BY DEF Turns
  <2>3. 0 - 0 = 0 /\ (0 % 2 = 0) = TRUE
    OBVIOUS
  <2>. QED
    BY <2>1, <2>2, <2>3, Zenon DEF Took
<1>2. ASSUME NEW k \in 1..size, F[k - 1] = Took(k - 1, a, b)
      PROVE  F[k] = Took(k, a, b)
  <2>. DEFINE t == Turns(k - 1, a, b)
              s == (k - 1) - t
              even == (k - 1) % 2 = 0
              fromFirst == (even /\ t < a) \/ s >= b
  <2>1. F[k - 1].first = t /\ F[k - 1].second = s /\ F[k - 1].turn = even
    BY <1>2 DEF Took
  <2>2. F[k] = [first |-> t + (IF fromFirst THEN 1 ELSE 0),
                second |-> s + (IF fromFirst THEN 0 ELSE 1),
                turn |-> ~even]
    <3>1. k \in 0..size /\ k # 0
      OBVIOUS
    <3>2. F[k] = LET u == F[k - 1]
                     turned == \/ u.turn /\ u.first < a
                               \/ u.second >= b
                 IN [first |-> u.first + (IF turned THEN 1 ELSE 0),
                     second |-> u.second + (IF turned THEN 0 ELSE 1),
                     turn |-> ~u.turn]
      BY <3>1, Zenon DEF Counts
    <3>. HIDE DEF t, s, even
    <3>. QED
      BY <2>1, <3>2
  <2>3. Turns(k, a, b) = t + (IF fromFirst THEN 1 ELSE 0) /\ t \in Nat
    <3>1. k \in Nat /\ k <= a + b /\ k > 0
      OBVIOUS
    <3>2. k - 1 \in Nat /\ k - 1 <= a + b
      OBVIOUS
    <3>3. t \in Nat
      BY <3>2, TurnsAre
    <3>4. LET u == Turns(k - 1, a, b)
              fromF == ((k - 1) % 2 = 0 /\ u < a) \/ (k - 1) - u >= b
          IN Turns(k, a, b) = u + (IF fromF THEN 1 ELSE 0)
      BY <3>1, TurnsAre
    <3>. QED
      BY <3>3, <3>4, Zenon
  <2>4. k - Turns(k, a, b) = s + (IF fromFirst THEN 0 ELSE 1)
    <3>. HIDE DEF t
    <3>. QED
      BY <2>3
  <2>5. (k % 2 = 0) = ~even
    OBVIOUS
  <2>. HIDE DEF t, s, even, fromFirst
  <2>. QED
    BY <2>2, <2>3, <2>4, <2>5 DEF Took
<1>3. bad = {}
  <2>. SUFFICES ASSUME bad # {} PROVE FALSE
    OBVIOUS
  <2>1. \A x, y \in Int : IsFiniteSet(x..y)
    BY FS_Interval
  <2>2. IsFiniteSet(0..size)
    BY <2>1
  <2>3. bad \subseteq 0..size /\ \A k \in bad : k \in Int
    OBVIOUS
  <2>4. \A k \in 0..size : k \in bad <=> F[k] # Took(k, a, b)
    OBVIOUS
  <2>. HIDE DEF bad
  <2>5. IsFiniteSet(bad) /\ bad \subseteq Int
    BY <2>2, <2>3, FS_Subset
  <2>6. PICK m \in bad : \A k \in bad : m <= k
    BY <2>5, MinIs
  <2>7. m \in 1..size
    BY <1>1, <2>3, <2>4, <2>6
  <2>8. m - 1 \in 0..size /\ m - 1 \notin bad
    BY <2>3, <2>6, <2>7
  <2>. QED
    BY <1>2, <2>4, <2>6, <2>7, <2>8
<1>. QED
  BY <1>3

LEMMA CountsHas ==
    ASSUME NEW a \in Nat, NEW b \in Nat, NEW size \in Nat, size <= a + b
    PROVE  Counts([n \in 0..size |-> Took(n, a, b)], a, b, size)
<1>. DEFINE F == [n \in 0..size |-> Took(n, a, b)]
            Next(n) == IF n = 0 THEN [first |-> 0, second |-> 0, turn |-> TRUE]
                       ELSE LET t == F[n - 1]
                                fromFirst == \/ t.turn /\ t.first < a
                                             \/ t.second >= b
                            IN [first |-> t.first + (IF fromFirst THEN 1 ELSE 0),
                                second |-> t.second + (IF fromFirst THEN 0 ELSE 1),
                                turn |-> ~t.turn]
<1>1. Took(0, a, b) = Next(0)
  <2>1. Turns(0, a, b) = 0
    BY DEF Turns
  <2>2. 0 - 0 = 0 /\ (0 % 2 = 0) = TRUE
    OBVIOUS
  <2>. QED
    BY <2>1, <2>2, Zenon DEF Took
<1>2. ASSUME NEW k \in 1..size
      PROVE  Took(k, a, b) = Next(k)
  <2>. DEFINE t == Turns(k - 1, a, b)
              s == (k - 1) - t
              even == (k - 1) % 2 = 0
              fromFirst == (even /\ t < a) \/ s >= b
  <2>1. F[k - 1] = [first |-> t, second |-> s, turn |-> even]
    BY DEF Took
  <2>2. /\ F[k - 1].first = t /\ F[k - 1].second = s /\ F[k - 1].turn = even
    BY <2>1
  <2>3. k # 0
    OBVIOUS
  <2>4. Next(k) = [first |-> t + (IF fromFirst THEN 1 ELSE 0),
                   second |-> s + (IF fromFirst THEN 0 ELSE 1),
                   turn |-> ~even]
    <3>. HIDE DEF t, s, even, F
    <3>. QED
      BY <2>2, <2>3
  <2>5. k \in Nat /\ k <= a + b /\ k > 0
    OBVIOUS
  <2>6. k - 1 \in Nat /\ k - 1 <= a + b
    OBVIOUS
  <2>7. t \in Nat
    BY <2>6, TurnsAre
  <2>8. LET u == Turns(k - 1, a, b)
            fromF == ((k - 1) % 2 = 0 /\ u < a) \/ (k - 1) - u >= b
        IN Turns(k, a, b) = u + (IF fromF THEN 1 ELSE 0)
    BY <2>5, TurnsAre
  <2>9. Turns(k, a, b) = t + (IF fromFirst THEN 1 ELSE 0)
    BY <2>8, Zenon
  <2>10. k - Turns(k, a, b) = s + (IF fromFirst THEN 0 ELSE 1)
    <3>. HIDE DEF t
    <3>. QED
      BY <2>7, <2>9
  <2>11. (k % 2 = 0) = ~even
    OBVIOUS
  <2>. HIDE DEF t, s, even, fromFirst
  <2>. QED
    BY <2>4, <2>9, <2>10, <2>11 DEF Took
<1>3. \A n \in 0..size : n = 0 \/ n \in 1..size
  OBVIOUS
<1>4. \A n \in 0..size : Took(n, a, b) = Next(n)
  BY <1>1, <1>2, <1>3, Zenon
<1>5. F = [n \in 0..size |-> Next(n)]
  BY <1>4, Zenon
<1>. QED
  BY <1>5, Zenon DEF Counts

\* m has size places, the n-th of the list whose turn it is.
Merges(m, first, second, a, b, size) ==
    /\ m = [k \in 1..size |-> m[k]]
    /\ \A n \in 1..size :
          m[n] = IF Turns(n, a, b) > Turns(n - 1, a, b)
                 THEN first[Turns(n, a, b)] ELSE second[n - Turns(n, a, b)]

LEMMA MergeIs ==
    ASSUME NEW first, NEW second, NEW a \in Nat, NEW b \in Nat, NEW limit \in Nat,
           Len(first) = a, Len(second) = b
    PROVE  Merges(Interleave(first, second, limit), first, second, a, b,
                  IF limit <= a + b THEN limit ELSE a + b)
<1>. DEFINE size == Min({limit, Len(first) + Len(second)})
            body(F) == [n \in 0..size |->
                          IF n = 0 THEN [first |-> 0, second |-> 0, turn |-> TRUE]
                          ELSE LET t == F[n - 1]
                                   fromFirst == \/ t.turn /\ t.first < Len(first)
                                                \/ t.second >= Len(second)
                               IN [first |-> t.first + (IF fromFirst THEN 1 ELSE 0),
                                   second |-> t.second + (IF fromFirst THEN 0 ELSE 1),
                                   turn |-> ~t.turn]]
            taken == CHOOSE F : F = body(F)
            m == Interleave(first, second, limit)
            sz == IF limit <= a + b THEN limit ELSE a + b
<1>1. m = [n \in 1..size |-> IF taken[n].first > taken[n - 1].first
                             THEN first[taken[n].first] ELSE second[taken[n].second]]
  BY Zenon DEF Interleave
<1>2. size = sz /\ sz \in Nat /\ sz <= a + b
  BY DEF Min
<1>3. \A F : F = body(F) <=> Counts(F, a, b, sz)
  BY <1>2, Zenon DEF Counts
<1>4. Counts(taken, a, b, sz)
  <2>1. \E F : Counts(F, a, b, sz)
    BY <1>2, CountsHas
  <2>. HIDE DEF body
  <2>. QED
    BY <2>1, <1>3, Zenon
<1>. HIDE DEF taken, size, sz, m
<1>5. ASSUME NEW n \in 1..sz
      PROVE  m[n] = IF Turns(n, a, b) > Turns(n - 1, a, b)
                    THEN first[Turns(n, a, b)] ELSE second[n - Turns(n, a, b)]
  <2>1. n \in 0..sz /\ n - 1 \in 0..sz
    BY <1>2
  <2>2. taken[n] = Took(n, a, b) /\ taken[n - 1] = Took(n - 1, a, b)
    BY <1>2, <1>4, <2>1, CountsAre
  <2>3. taken[n].first = Turns(n, a, b) /\ taken[n].second = n - Turns(n, a, b)
        /\ taken[n - 1].first = Turns(n - 1, a, b)
    BY <2>2 DEF Took
  <2>4. m[n] = IF taken[n].first > taken[n - 1].first
               THEN first[taken[n].first] ELSE second[taken[n].second]
    BY <1>1, <1>2, Zenon
  <2>. QED
    BY <2>3, <2>4, Zenon
<1>6. m = [k \in 1..sz |-> m[k]]
  BY <1>1, <1>2, Zenon
<1>. QED
  BY <1>5, <1>6, Zenon DEF Merges, sz, m

LEMMA Euclid ==
    ASSUME NEW d \in Nat \ {0}, NEW n \in Nat
    PROVE  /\ n \div d \in Nat /\ n % d \in Nat /\ n % d < d
           /\ n = (d * (n \div d)) + (n % d)
OBVIOUS

LEMMA Quotient ==
    ASSUME NEW d \in Nat \ {0}, NEW q \in Nat, NEW r \in Nat, r < d, NEW n \in Nat, n = (d * q) + r
    PROVE  n \div d = q /\ n % d = r
<1>. DEFINE x == n \div d
            y == n % d
<1>1. /\ x \in Nat /\ y \in Nat /\ y < d /\ n = (d * x) + y
  BY Euclid
<1>. HIDE DEF x, y
<1>2. d * (x - q) = r - y
  BY <1>1
<1>3. x - q = 0
  BY <1>1, <1>2
<1>. QED
  BY <1>1, <1>3 DEF x, y

-----------------------------------------------------------------------------
(* searchPagination.ts: a batch is a whole number of display pages, and the *)
(* pages a whole number of batches.                                         *)

Fits(batch, K, B) ==
    /\ batch \in Nat \ {0} /\ K \in Nat \ {0} /\ B \in Nat \ {0}
    /\ batch = PerPage * K /\ MaxPages = K * B /\ PagesPerBatch(batch) = K

LEMMA BatchesFit ==
    ASSUME NEW mode \in Modes
    PROVE  \E K, B : Fits(BatchSize(mode), K, B)
<1>. DEFINE batch == BatchSize(mode)
            K == batch \div PerPage
            B == MaxPages \div K
<1>1. /\ PerPage \in Nat \ {0} /\ MaxPages \in Nat \ {0}
      /\ batch \in Nat /\ batch >= PerPage /\ batch % PerPage = 0 /\ MaxPages % K = 0
  BY PagerAssumption DEF BatchSize
<1>. HIDE DEF batch
<1>2. K \in Nat /\ batch = PerPage * K
  BY <1>1, Euclid
<1>3. K # 0
  BY <1>1, <1>2
<1>. HIDE DEF K
<1>4. B \in Nat /\ MaxPages = K * B
  BY <1>1, <1>2, <1>3, Euclid
<1>5. B # 0
  BY <1>1, <1>2, <1>4
<1>6. Max({1, batch \div PerPage}) = K
  <2>1. Max({1, K}) = IF 1 >= K THEN 1 ELSE K
    BY <1>2, <1>3 DEF Max
  <2>. QED
    BY <1>2, <1>3, <2>1 DEF K
<1>. HIDE DEF B
<1>7. Fits(batch, K, B)
  BY <1>1, <1>2, <1>3, <1>4, <1>5, <1>6 DEF Fits, PagesPerBatch
<1>. QED
  BY <1>7 DEF batch

LEMMA PageIs ==
    ASSUME NEW mode \in Modes, NEW K, NEW B, Fits(BatchSize(mode), K, B),
           NEW page \in 1..MaxPages
    PROVE  LET batch == BatchSize(mode)
               sp == ServerPageFor(page, batch)
               lp == LocalPageFor(page, batch)
           IN /\ sp \in Nat /\ sp >= 1 /\ sp <= B /\ lp \in Nat /\ lp >= 1 /\ lp <= K
              /\ page = (K * (sp - 1)) + lp
              /\ InWindow(sp, batch)
<1>. DEFINE batch == BatchSize(mode)
            x == (page - 1) \div K
            y == (page - 1) % K
<1>1. /\ batch \in Nat \ {0} /\ K \in Nat \ {0} /\ B \in Nat \ {0}
      /\ batch = PerPage * K /\ MaxPages = K * B /\ PagesPerBatch(batch) = K
  BY DEF Fits
<1>2. /\ PerPage \in Nat \ {0} /\ MaxPages \in Nat \ {0} /\ page - 1 \in Nat
  BY PagerAssumption
<1>3. ServerPageFor(page, batch) = x + 1 /\ LocalPageFor(page, batch) = y + 1
  BY <1>1 DEF ServerPageFor, LocalPageFor
<1>4. x \in Nat /\ y \in Nat /\ y < K /\ page - 1 = (K * x) + y
  BY <1>1, <1>2, Euclid
<1>. HIDE DEF batch, x, y
<1>5. x < B
  <2>1. K * x < K * B
    BY <1>1, <1>2, <1>4
  <2>. QED
    BY <1>1, <1>4, <2>1
<1>6. x + 1 \in 1..MaxSearchPage
  <2>1. B <= MaxPages
    BY <1>1
  <2>2. MaxPages <= MaxSearchPage /\ MaxSearchPage \in Nat
    BY PagerAssumption, WindowAssumption
  <2>. QED
    BY <1>1, <1>2, <1>4, <1>5, <2>1, <2>2
<1>7. (x + 1) * batch <= ResultWindow
  <2>1. (x + 1) * batch = PerPage * (K * (x + 1))
    BY <1>1, <1>2, <1>4
  <2>2. K * (x + 1) <= MaxPages
    BY <1>1, <1>4, <1>5
  <2>3. PerPage * (K * (x + 1)) <= PerPage * MaxPages
    <3>. DEFINE u == K * (x + 1)
    <3>1. u \in Nat
      BY <1>1, <1>4
    <3>. HIDE DEF u
    <3>. QED
      BY <1>2, <2>2, <3>1 DEF u
  <2>4. PerPage * MaxPages <= ResultWindow /\ ResultWindow \in Nat
    BY PagerAssumption, WindowAssumption
  <2>5. (x + 1) * batch \in Nat
    BY <1>1, <1>4
  <2>. QED
    BY <1>2, <2>1, <2>3, <2>4, <2>5
<1>8. InWindow(x + 1, batch)
  BY <1>6, <1>7 DEF InWindow
<1>9. /\ x + 1 \in Nat /\ x + 1 >= 1 /\ x + 1 <= B /\ y + 1 \in Nat /\ y + 1 >= 1 /\ y + 1 <= K
      /\ page = (K * ((x + 1) - 1)) + (y + 1)
  BY <1>1, <1>2, <1>4, <1>5
<1>. QED
  BY <1>3, <1>8, <1>9, Zenon DEF batch

\* Where a display page begins among the results: so far in its batch.
LEMMA PlaceOf ==
    ASSUME NEW P \in Nat \ {0}, NEW K \in Nat \ {0}, NEW sp \in Nat \ {0}, NEW lp \in 1..K
    PROVE  LET batch == P * K
               page == (K * (sp - 1)) + lp
           IN /\ (sp - 1) * batch \in Nat /\ (page - 1) * P \in Nat /\ (lp - 1) * P \in Nat
              /\ (page - 1) * P = ((sp - 1) * batch) + ((lp - 1) * P)
              /\ ((lp - 1) * P) + P <= batch
<1>. DEFINE u == sp - 1
            v == lp - 1
            page == (K * u) + lp
            batch == P * K
<1>1. u \in Nat /\ v \in Nat /\ v + 1 <= K /\ lp = v + 1
  OBVIOUS
<1>. HIDE DEF u, v
<1>2. (K * u) \in Nat /\ batch \in Nat
  BY <1>1
<1>3. page - 1 = (K * u) + v
  BY <1>1, <1>2
<1>4. ((K * u) + v) * P = (u * batch) + (v * P)
  BY <1>1
<1>5. u * batch \in Nat /\ v * P \in Nat /\ ((K * u) + v) * P \in Nat
  BY <1>1, <1>2
<1>6. (v * P) + P <= batch
  <2>1. P * (v + 1) <= P * K
    BY <1>1, TimesGrows
  <2>2. P * (v + 1) = (v * P) + P
    BY <1>1
  <2>. QED
    BY <2>1, <2>2
<1>7. /\ u * batch \in Nat /\ (page - 1) * P \in Nat /\ v * P \in Nat
      /\ (page - 1) * P = (u * batch) + (v * P)
      /\ (v * P) + P <= batch
  <2>. HIDE DEF page, batch
  <2>. QED
    BY <1>3, <1>4, <1>5, <1>6
<1>. QED
  BY <1>7, Zenon DEF u, v, page, batch

-----------------------------------------------------------------------------
(* The answers: what the API returns for a page is the cut of one merged    *)
(* list, whatever part of it the merge has looked at.                       *)

Hit(h) ==
    /\ h.type \in Types
    /\ {"id", "title", "score"} \subseteq DOMAIN h
    /\ h.id \in Int /\ h.title \in Int /\ h.score \in Int

KeyOf(h) == <<h.type, h.id>>

\* The hits from place before on, at most limit of them, of a list of keys.
CutOf(hits, keys, total, before, limit) ==
    /\ Len(hits) \in Nat /\ DOMAIN hits = 1..Len(hits) /\ Len(hits) <= limit
    /\ \A j \in 1..limit : j <= Len(hits) <=> before + j <= total
    /\ \A j \in 1..Len(hits) : /\ before + j \in 1..total
                               /\ Hit(hits[j]) /\ KeyOf(hits[j]) = keys[before + j]

\* The merged list of a query, by key.
Leads(n, h) == h # <<>> /\ (n = <<>> \/ h[1].score > n[1].score)

MergedKeys(first, of, second, under) ==
    [p \in 1..(Len(first) + Len(second)) |->
        IF Turns(p, Len(first), Len(second)) > Turns(p - 1, Len(first), Len(second))
        THEN <<of, first[Turns(p, Len(first), Len(second))].id>>
        ELSE <<under, second[p - Turns(p, Len(first), Len(second))].id>>]

FulltextKeys(q, indexed) ==
    LET n == Ranked(Found[q].narrators, indexed)
        h == Ranked(Found[q].hadiths, indexed)
    IN IF Leads(n, h) THEN MergedKeys(h, "hadith", n, "narrator")
                      ELSE MergedKeys(n, "narrator", h, "hadith")

LEMMA PrefixIs ==
    ASSUME NEW s, s \in Seq(Range(s)), NEW n \in Nat \ {0}
    PROVE  LET p == Prefix(s, n)
           IN /\ p \in Seq(Range(s)) /\ Len(p) = (IF n <= Len(s) THEN n ELSE Len(s))
              /\ DOMAIN p = 1..Len(p)
              /\ \A j \in 1..Len(p) : j \in 1..Len(s) /\ p[j] = s[j]
<1>. DEFINE p == Prefix(s, n)
<1>1. p = Window(s, 1, n)
  <2>1. (1 - 1) * n + 1 = 1 /\ 1 * n = n
    OBVIOUS
  <2>. QED
    BY <2>1, Zenon DEF Prefix, Window
<1>2. LET w == Window(s, 1, n)
          before == (1 - 1) * n
      IN /\ w \in Seq(Range(s)) /\ Len(w) \in Nat /\ DOMAIN w = 1..Len(w) /\ Len(w) <= n
         /\ \A j \in 1..n : j <= Len(w) <=> before + j <= Len(s)
         /\ \A j \in 1..Len(w) : before + j \in 1..Len(s) /\ w[j] = s[before + j]
  <2>1. \A page \in Nat \ {0} :
            LET w == Window(s, page, n)
                before == (page - 1) * n
            IN /\ w \in Seq(Range(s)) /\ Len(w) \in Nat /\ DOMAIN w = 1..Len(w) /\ Len(w) <= n
               /\ \A j \in 1..n : j <= Len(w) <=> before + j <= Len(s)
               /\ \A j \in 1..Len(w) : before + j \in 1..Len(s) /\ w[j] = s[before + j]
    BY WindowIs
  <2>2. 1 \in Nat \ {0}
    OBVIOUS
  <2>. QED
    BY <2>1, <2>2, Zenon
<1>3. (1 - 1) * n = 0
  OBVIOUS
<1>. HIDE DEF p
<1>4. /\ p \in Seq(Range(s)) /\ Len(p) \in Nat /\ DOMAIN p = 1..Len(p) /\ Len(p) <= n
      /\ \A j \in 1..n : j <= Len(p) <=> 0 + j <= Len(s)
      /\ \A j \in 1..Len(p) : 0 + j \in 1..Len(s) /\ p[j] = s[0 + j]
  BY <1>1, <1>2, <1>3, Zenon
<1>5. Len(s) \in Nat
  OBVIOUS
<1>6. Len(p) = IF n <= Len(s) THEN n ELSE Len(s)
  <2>. DEFINE lp == Len(p)
              ls == Len(s)
  <2>1. lp \in Nat /\ ls \in Nat /\ lp <= n
    BY <1>4, <1>5
  <2>2. \A j \in 1..n : j <= lp <=> 0 + j <= ls
    BY <1>4
  <2>. HIDE DEF lp, ls
  <2>3. n \in 1..n /\ (ls \in 1..n \/ ls = 0 \/ ls > n) /\ (lp \in 1..n \/ lp = 0)
    BY <2>1
  <2>4. n <= lp <=> n <= ls
    BY <2>1, <2>2, <2>3
  <2>5. ls \in 1..n => ls <= lp
    BY <2>1, <2>2
  <2>6. lp \in 1..n => lp <= ls
    BY <2>1, <2>2
  <2>7. lp = IF n <= ls THEN n ELSE ls
    BY <2>1, <2>3, <2>4, <2>5, <2>6
  <2>. QED
    BY <2>7 DEF lp, ls
<1>7. \A j \in 1..Len(p) : j \in 1..Len(s) /\ p[j] = s[j]
  BY <1>4
<1>. QED
  BY <1>4, <1>6, <1>7 DEF p

\* The hits of a prefix of ranked rows.
HitsOf(hits, ranked, type, end) ==
    /\ Len(hits) = (IF end <= Len(ranked) THEN end ELSE Len(ranked))
    /\ Len(hits) \in Nat /\ DOMAIN hits = 1..Len(hits) /\ hits \in Seq(Range(hits))
    /\ \A j \in 1..Len(hits) : /\ Hit(hits[j]) /\ KeyOf(hits[j]) = <<type, ranked[j].id>>
                               /\ hits[j].score = ranked[j].score

LEMMA HitsAre ==
    ASSUME NEW ranked, ranked \in Seq(Range(ranked)), Sortable(ranked, Len(ranked)),
           NEW end \in Nat \ {0}
    PROVE  /\ HitsOf(NarratorHits(Prefix(ranked, end)), ranked, "narrator", end)
           /\ HitsOf(HadithHits(Prefix(ranked, end)), ranked, "hadith", end)
<1>. DEFINE p == Prefix(ranked, end)
            m == Len(p)
            x == NarratorHits(p)
            y == HadithHits(p)
<1>1. /\ m = (IF end <= Len(ranked) THEN end ELSE Len(ranked))
      /\ DOMAIN p = 1..m
      /\ \A j \in 1..m : j \in 1..Len(ranked) /\ p[j] = ranked[j]
  BY PrefixIs
<1>2. Len(ranked) \in Nat /\ m \in Nat
  BY <1>1
<1>3. /\ x = [i \in 1..m |-> NarratorHit(p[i])]
      /\ y = [i \in 1..m |-> HadithHit(p[i])]
  BY <1>1 DEF NarratorHits, HadithHits
<1>4. \A j \in 1..m : /\ {"id", "title", "score"} \subseteq DOMAIN ranked[j]
                      /\ ranked[j].id \in Int /\ ranked[j].title \in Int /\ ranked[j].score \in Int
  BY <1>1 DEF Sortable
<1>. HIDE DEF p, m, x, y
<1>5. x = [k \in 1..m |-> x[k]] /\ y = [k \in 1..m |-> y[k]]
  BY <1>3
<1>6. /\ x \in Seq(Range(x)) /\ Len(x) = m /\ DOMAIN x = 1..m
      /\ y \in Seq(Range(y)) /\ Len(y) = m /\ DOMAIN y = 1..m
  BY <1>2, <1>5, ListIs
<1>7. \A j \in 1..m : /\ Hit(x[j]) /\ KeyOf(x[j]) = <<"narrator", ranked[j].id>>
                      /\ x[j].score = ranked[j].score
  <2>. TAKE j \in 1..m
  <2>1. x[j] = NarratorHit(ranked[j])
    BY <1>1, <1>3
  <2>. QED
    BY <1>4, <2>1 DEF NarratorHit, Hit, KeyOf, Types
<1>8. \A j \in 1..m : /\ Hit(y[j]) /\ KeyOf(y[j]) = <<"hadith", ranked[j].id>>
                      /\ y[j].score = ranked[j].score
  <2>. TAKE j \in 1..m
  <2>1. y[j] = HadithHit(ranked[j])
    BY <1>1, <1>3
  <2>. QED
    BY <1>4, <2>1 DEF HadithHit, Hit, KeyOf, Types
<1>9. HitsOf(x, ranked, "narrator", end)
  BY <1>1, <1>2, <1>6, <1>7 DEF HitsOf
<1>10. HitsOf(y, ranked, "hadith", end)
  BY <1>1, <1>2, <1>6, <1>8 DEF HitsOf
<1>. QED
  BY <1>9, <1>10 DEF x, y, p

LEMMA TurnsOfPrefix ==
    ASSUME NEW a \in Nat, NEW b \in Nat, NEW end \in Nat, NEW n \in 0..end
    PROVE  Turns(n, IF end <= a THEN end ELSE a, IF end <= b THEN end ELSE b) = Turns(n, a, b)
<1>1. PICK h \in Nat : \/ n = 2 * h /\ (n + 1) \div 2 = h /\ n % 2 = 0
                       \/ n = 2 * h + 1 /\ (n + 1) \div 2 = h + 1 /\ n % 2 = 1
  BY HalvesAre
<1>. QED
  BY <1>1 DEF Turns

\* A list of hits that has the first keys.
Begins(m, keys, size) ==
    /\ m \in Seq(Range(m)) /\ Len(m) = size
    /\ \A n \in 1..size : Hit(m[n]) /\ KeyOf(m[n]) = keys[n]

LEMMA MergedIs ==
    ASSUME NEW first, Len(first) \in Nat, NEW second, Len(second) \in Nat, NEW of, NEW under,
           NEW end \in Nat \ {0},
           NEW x, HitsOf(x, first, of, end), NEW y, HitsOf(y, second, under, end)
    PROVE  Begins(Interleave(x, y, end), MergedKeys(first, of, second, under),
                  IF end <= Len(first) + Len(second) THEN end ELSE Len(first) + Len(second))
<1>. DEFINE a == Len(first)
            b == Len(second)
            a1 == IF end <= a THEN end ELSE a
            b1 == IF end <= b THEN end ELSE b
            m == Interleave(x, y, end)
            total == a + b
            keys == MergedKeys(first, of, second, under)
            size == IF end <= total THEN end ELSE total
<1>0. a \in Nat /\ b \in Nat
  OBVIOUS
<1>. HIDE DEF a, b
<1>1. a \in Nat /\ b \in Nat /\ a1 \in Nat /\ b1 \in Nat /\ total \in Nat /\ size \in Nat
  BY <1>0
<1>2. /\ Len(x) = a1 /\ Len(y) = b1
      /\ \A j \in 1..a1 : Hit(x[j]) /\ KeyOf(x[j]) = <<of, first[j].id>>
      /\ \A j \in 1..b1 : Hit(y[j]) /\ KeyOf(y[j]) = <<under, second[j].id>>
  BY DEF HitsOf, a, b
<1>3. (IF end <= a1 + b1 THEN end ELSE a1 + b1) = size
  BY <1>1
<1>4. /\ m = [k \in 1..size |-> m[k]]
      /\ \A n \in 1..size :
             m[n] = IF Turns(n, a1, b1) > Turns(n - 1, a1, b1)
                    THEN x[Turns(n, a1, b1)] ELSE y[n - Turns(n, a1, b1)]
  <2>. HIDE DEF a1, b1, size, m
  <2>1. a1 \in Nat /\ b1 \in Nat /\ end \in Nat /\ Len(x) = a1 /\ Len(y) = b1
    BY <1>1, <1>2
  <2>2. Merges(Interleave(x, y, end), x, y, a1, b1, IF end <= a1 + b1 THEN end ELSE a1 + b1)
    BY <2>1, MergeIs, Zenon
  <2>. QED
    BY <2>2, <1>3, Zenon DEF m, Merges
<1>5. m \in Seq(Range(m)) /\ Len(m) = size
  <2>. HIDE DEF m, size
  <2>. QED
    BY <1>1, <1>4, ListIs
<1>6. ASSUME NEW n \in 1..size
      PROVE  Hit(m[n]) /\ KeyOf(m[n]) = keys[n]
  <2>. DEFINE t == Turns(n, a, b)
              u == Turns(n - 1, a, b)
  <2>1. n \in 1..total /\ n \in Nat /\ n - 1 \in Nat /\ n <= end /\ n <= a + b /\ n > 0
        /\ n <= a1 + b1 /\ n - 1 <= a + b
    <3>1. n \in Nat /\ n >= 1 /\ n <= size
      BY <1>1
    <3>2. size <= end /\ size <= total
      BY <1>1
    <3>3. n \in 1..total /\ n <= a + b /\ n <= end /\ n - 1 \in Nat
      BY <1>1, <3>1, <3>2
    <3>4. n <= a1 + b1
      BY <1>1, <3>1, <3>3
    <3>. QED
      BY <1>1, <3>1, <3>3, <3>4
  <2>2. Turns(n, a1, b1) = t /\ Turns(n - 1, a1, b1) = u
    BY <1>1, <2>1, TurnsOfPrefix
  <2>3. m[n] = IF t > u THEN x[t] ELSE y[n - t]
    BY <1>4, <2>2, Zenon
  <2>4. keys[n] = IF t > u THEN <<of, first[t].id>> ELSE <<under, second[n - t].id>>
    BY <2>1, Zenon DEF MergedKeys, a, b
  <2>5. /\ Turns(n, a1, b1) \in Nat /\ Turns(n, a1, b1) <= a1
        /\ n - Turns(n, a1, b1) \in Nat /\ n - Turns(n, a1, b1) <= b1
    BY <1>1, <2>1, TurnsAre
  <2>6. u \in Nat /\ (t = u + 1 \/ t = u)
    <3>1. u \in Nat
      BY <1>1, <2>1, TurnsAre
    <3>2. LET v == Turns(n - 1, a, b)
              fromFirst == ((n - 1) % 2 = 0 /\ v < a) \/ (n - 1) - v >= b
          IN t = v + (IF fromFirst THEN 1 ELSE 0)
      BY <1>1, <2>1, TurnsAre
    <3>. QED
      BY <3>1, <3>2
  <2>7. n - 1 - u \in Nat
    <3>1. (n - 1) - Turns(n - 1, a, b) \in Nat
      BY <1>1, <2>1, TurnsAre
    <3>. QED
      BY <3>1, <2>6, <2>1
  <2>8. t \in Nat /\ t <= a1 /\ n - t \in Nat /\ n - t <= b1
    BY <2>2, <2>5
  <2>. HIDE DEF t, u, m, keys, a1, b1
  <2>9. CASE t > u
    <3>1. t \in 1..a1
      BY <1>1, <2>6, <2>8, <2>9
    <3>. QED
      BY <1>2, <2>3, <2>4, <2>9, <3>1
  <2>10. CASE ~(t > u)
    <3>1. t = u /\ n - t >= 1
      BY <2>1, <2>6, <2>7, <2>8, <2>10
    <3>2. n - t \in 1..b1
      BY <1>1, <2>8, <3>1
    <3>. QED
      BY <1>2, <2>3, <2>4, <2>10, <3>2
  <2>. QED
    BY <2>9, <2>10
<1>. HIDE DEF m, keys, size
<1>7. Begins(m, keys, size)
  BY <1>5, <1>6, Zenon DEF Begins
<1>. QED
  BY <1>7, Zenon DEF m, keys, size, a, b

\* A page of a list of hits is the cut of its keys, and so is a copy of it with
\* other scores.
LEMMA CutIs ==
    ASSUME NEW m, NEW total \in Nat, NEW keys,
           NEW page \in Nat \ {0}, NEW limit \in Nat \ {0},
           Begins(m, keys, IF page * limit <= total THEN page * limit ELSE total),
           NEW hits, DOMAIN hits = DOMAIN Window(m, page, limit),
           hits = [i \in DOMAIN hits |-> hits[i]],
           \A i \in DOMAIN hits : Hit(Window(m, page, limit)[i]) =>
                 Hit(hits[i]) /\ KeyOf(hits[i]) = KeyOf(Window(m, page, limit)[i])
    PROVE  CutOf(hits, keys, total, (page - 1) * limit, limit)
<1>. DEFINE w == Window(m, page, limit)
            before == (page - 1) * limit
            lm == Len(m)
            lw == Len(w)
            end == page * limit
<1>1. /\ before \in Nat /\ before + limit = end
      /\ lw \in Nat /\ DOMAIN w = 1..lw /\ lw <= limit
      /\ \A j \in 1..limit : j <= lw <=> before + j <= lm
      /\ \A j \in 1..lw : before + j \in 1..lm /\ w[j] = m[before + j]
  <2>1. m \in Seq(Range(m))
    BY DEF Begins
  <2>. QED
    BY <2>1, WindowIs
<1>2. end \in Nat /\ lm = IF end <= total THEN end ELSE total
  BY DEF Begins
<1>3. DOMAIN hits = 1..lw
  BY <1>1
<1>4. \A n \in 1..lm : Hit(m[n]) /\ KeyOf(m[n]) = keys[n]
  BY Zenon DEF Begins
<1>5. \A i \in 1..lw : Hit(w[i]) => Hit(hits[i]) /\ KeyOf(hits[i]) = KeyOf(w[i])
  BY <1>3
<1>. HIDE DEF w, before, lm, lw, end
<1>6. Len(hits) = lw
  BY <1>1, <1>3, ListIs
<1>7. ASSUME NEW j \in 1..limit
      PROVE  j <= lw <=> before + j <= total
  <2>1. before + j <= end
    BY <1>1
  <2>2. before + j <= lm <=> before + j <= total
    BY <1>1, <1>2, <2>1
  <2>. QED
    BY <1>1, <2>2
<1>8. ASSUME NEW j \in 1..lw
      PROVE  /\ before + j \in 1..total
             /\ Hit(hits[j]) /\ KeyOf(hits[j]) = keys[before + j]
  <2>1. before + j \in 1..lm /\ w[j] = m[before + j]
    BY <1>1
  <2>2. Hit(w[j]) /\ KeyOf(w[j]) = keys[before + j]
    BY <1>4, <2>1
  <2>3. before + j \in 1..total
    BY <1>1, <1>2, <2>1
  <2>. QED
    BY <1>5, <2>2, <2>3
<1>9. CutOf(hits, keys, total, before, limit)
  BY <1>1, <1>3, <1>6, <1>7, <1>8, Zenon DEF CutOf
<1>. QED
  BY <1>9 DEF before

MatchTotal(q, mode) ==
    IF mode = "semantic" THEN Len(Found[q].near)
                         ELSE Len(Found[q].narrators) + Len(Found[q].hadiths)

NearKeys(q) == [p \in 1..Len(Found[q].near) |-> <<"hadith", Found[q].near[p].id>>]

LEMMA RescoredIs ==
    ASSUME NEW h, Hit(h), NEW x \in Int
    PROVE  Hit([h EXCEPT !.score = x]) /\ KeyOf([h EXCEPT !.score = x]) = KeyOf(h)
BY DEF Hit, KeyOf

LEMMA FulltextIs ==
    ASSUME NEW q \in Queries, q # Blank, NEW page \in Nat \ {0}, NEW limit \in Nat \ {0},
           InWindow(page, limit), NEW indexed
    PROVE  LET r == Fulltext(q, page, limit, indexed)
           IN /\ r.status = 200
              /\ r.total = Len(Found[q].narrators) + Len(Found[q].hadiths)
              /\ CutOf(r.results, FulltextKeys(q, indexed), r.total, (page - 1) * limit, limit)
<1>. DEFINE end == page * limit
            rn == Ranked(Found[q].narrators, indexed)
            rh == Ranked(Found[q].hadiths, indexed)
            x == NarratorHits(Prefix(rn, end))
            y == HadithHits(Prefix(rh, end))
            m == InterleaveFairly(x, y, end)
            w == Window(m, page, limit)
            a == Len(Found[q].narrators)
            b == Len(Found[q].hadiths)
            keys == FulltextKeys(q, indexed)
            total == a + b
            r == Fulltext(q, page, limit, indexed)
<1>1. r = Answer(Relevance(w), total)
  BY Zenon DEF Fulltext
<1>2. /\ a \in Nat /\ Lists(Found[q].narrators, rn)
      /\ b \in Nat /\ Lists(Found[q].hadiths, rh)
  BY RowsAre, RankedIs
<1>3. /\ Len(rn) = a /\ rn \in Seq(Range(rn)) /\ Sortable(rn, Len(rn))
      /\ Len(rh) = b /\ rh \in Seq(Range(rh)) /\ Sortable(rh, Len(rh))
  BY <1>2, Zenon DEF Lists
<1>4. end \in Nat \ {0}
  OBVIOUS
<1>5. HitsOf(x, rn, "narrator", end) /\ HitsOf(y, rh, "hadith", end)
  <2>. HIDE DEF end, rn, rh
  <2>. QED
    BY <1>3, <1>4, HitsAre
<1>6. m = IF Leads(rn, rh) THEN Interleave(y, x, end) ELSE Interleave(x, y, end)
  <2>. HIDE DEF end, rn, rh, x, y
  <2>1. (x = <<>> <=> rn = <<>>) /\ (rn # <<>> => x[1].score = rn[1].score)
    BY <1>3, <1>4, <1>5 DEF HitsOf
  <2>2. (y = <<>> <=> rh = <<>>) /\ (rh # <<>> => y[1].score = rh[1].score)
    BY <1>3, <1>4, <1>5 DEF HitsOf
  <2>. QED
    BY <2>1, <2>2 DEF InterleaveFairly, Leads
<1>7. Begins(m, keys, IF end <= total THEN end ELSE total)
  <2>1. keys = IF Leads(rn, rh) THEN MergedKeys(rh, "hadith", rn, "narrator")
                                ELSE MergedKeys(rn, "narrator", rh, "hadith")
    BY DEF FulltextKeys
  <2>. HIDE DEF end, rn, rh, x, y, a, b, m, keys
  <2>2. Len(rn) \in Nat /\ Len(rh) \in Nat
    BY <1>2, <1>3
  <2>3. CASE Leads(rn, rh)
    <3>. DEFINE z == Interleave(y, x, end)
                k == MergedKeys(rh, "hadith", rn, "narrator")
    <3>1. Begins(z, k, IF end <= Len(rh) + Len(rn) THEN end ELSE Len(rh) + Len(rn))
      BY <1>4, <1>5, <2>2, MergedIs, Zenon
    <3>2. Len(rh) + Len(rn) = total
      BY <1>2, <1>3
    <3>3. m = z /\ keys = k
      BY <1>6, <2>1, <2>3, Zenon
    <3>. QED
      BY <3>1, <3>2, <3>3, Zenon
  <2>4. CASE ~Leads(rn, rh)
    <3>. DEFINE z == Interleave(x, y, end)
                k == MergedKeys(rn, "narrator", rh, "hadith")
    <3>1. Begins(z, k, IF end <= Len(rn) + Len(rh) THEN end ELSE Len(rn) + Len(rh))
      BY <1>4, <1>5, <2>2, MergedIs, Zenon
    <3>2. Len(rn) + Len(rh) = total
      BY <1>2, <1>3
    <3>3. m = z /\ keys = k
      BY <1>6, <2>1, <2>4, Zenon
    <3>. QED
      BY <3>1, <3>2, <3>3, Zenon
  <2>. QED
    BY <2>3, <2>4
<1>. DEFINE hits == Relevance(w)
<1>8. total \in Nat
  <2>. HIDE DEF a, b
  <2>. QED
    BY <1>2
<1>9. hits = [i \in DOMAIN w |-> [w[i] EXCEPT !.score = Saturated(@)]]
  BY Zenon DEF Relevance
<1>. HIDE DEF rn, rh, x, y, m, keys, total, hits
<1>10. DOMAIN hits = DOMAIN w /\ hits = [i \in DOMAIN hits |-> hits[i]]
  <2>. HIDE DEF w
  <2>. QED
    BY <1>9
<1>11. ASSUME NEW i \in DOMAIN hits, Hit(w[i])
       PROVE  Hit(hits[i]) /\ KeyOf(hits[i]) = KeyOf(w[i])
  <2>. HIDE DEF w
  <2>1. hits[i] = [w[i] EXCEPT !.score = Saturated(w[i].score)]
    BY <1>9, <1>10
  <2>2. w[i].score \in Int
    BY <1>11 DEF Hit
  <2>3. Saturated(w[i].score) \in Int
    <3>1. HalfSaturation \in Nat
      BY WindowAssumption
    <3>2. ASSUME NEW v \in Int PROVE Saturated(v) \in Int
      <4>1. CASE v <= 0
        BY <4>1 DEF Saturated
      <4>2. CASE v > 0
        <5>1. v + HalfSaturation \in Nat \ {0} /\ 1000 * v \in Nat
          BY <3>1, <4>2
        <5>2. (1000 * v) \div (v + HalfSaturation) \in Nat
          BY <5>1, Euclid
        <5>. QED
          BY <4>2, <5>2 DEF Saturated
      <4>. QED
        BY <4>1, <4>2
    <3>. QED
      BY <2>2, <3>2
  <2>. QED
    BY <1>11, <2>1, <2>3, RescoredIs
<1>12. CutOf(hits, keys, total, (page - 1) * limit, limit)
  <2>1. \A i \in DOMAIN hits : Hit(w[i]) => Hit(hits[i]) /\ KeyOf(hits[i]) = KeyOf(w[i])
    BY <1>11, Zenon
  <2>. QED
    BY <1>7, <1>8, <1>10, <2>1, CutIs, Zenon
<1>13. r.status = 200 /\ r.results = hits /\ r.total = total
  BY <1>1 DEF Answer, hits
<1>. QED
  BY <1>12, <1>13, Zenon DEF total, keys, r, a, b

LEMMA SemanticIs ==
    ASSUME NEW q \in Queries, NEW page \in Nat \ {0}, NEW limit \in Nat \ {0},
           InWindow(page, limit), NEW provisioned,
           Semantic(q, page, limit, provisioned).status = 200
    PROVE  LET r == Semantic(q, page, limit, provisioned)
           IN /\ r.total = Len(Found[q].near)
              /\ CutOf(r.results, NearKeys(q), r.total, (page - 1) * limit, limit)
<1>. DEFINE rows == Found[q].near
            total == Len(rows)
            w == Window(rows, page, limit)
            before == (page - 1) * limit
            lw == Len(w)
            hits == HadithHits(Similarity(w))
            r == Semantic(q, page, limit, provisioned)
            keys == NearKeys(q)
            Clamped(row) == [row EXCEPT !.score = Max({0, Min({1000, row.score})})]
<1>1. r = Answer(hits, total)
  <2>1. CASE provisioned
    BY <2>1, Zenon DEF Semantic
  <2>2. CASE ~provisioned
    <3>1. r = Unavailable
      BY <2>2, Zenon DEF Semantic
    <3>2. Unavailable.status # 200
      BY DEF Unavailable
    <3>. QED
      BY <3>1, <3>2
  <2>. QED
    BY <2>1, <2>2
<1>2. rows \in Seq(Range(rows)) /\ Sortable(rows, total) /\ total \in Nat
  BY RowsAre DEF Lists
<1>3. /\ before \in Nat
      /\ lw \in Nat /\ DOMAIN w = 1..lw /\ lw <= limit
      /\ \A j \in 1..limit : j <= lw <=> before + j <= total
      /\ \A j \in 1..lw : before + j \in 1..total /\ w[j] = rows[before + j]
  <2>. HIDE DEF rows
  <2>. QED
    BY <1>2, WindowIs
<1>4. keys = [p \in 1..total |-> <<"hadith", rows[p].id>>]
  BY DEF NearKeys
<1>. HIDE DEF rows, total, w, before, lw, r, keys
<1>5. DOMAIN Similarity(w) = 1..lw
      /\ \A i \in 1..lw : Similarity(w)[i] = Clamped(w[i])
  BY <1>3 DEF Similarity
<1>. HIDE DEF Clamped
<1>6. hits = [i \in 1..lw |-> HadithHit(Similarity(w)[i])]
  <2>. DEFINE sim == Similarity(w)
  <2>1. DOMAIN sim = 1..lw
    BY <1>5
  <2>. HIDE DEF sim
  <2>2. HadithHits(sim) = [i \in 1..lw |-> HadithHit(sim[i])]
    BY <2>1 DEF HadithHits
  <2>. QED
    BY <2>2 DEF sim
<1>7. ASSUME NEW j \in 1..lw
      PROVE  Hit(hits[j]) /\ KeyOf(hits[j]) = keys[before + j]
  <2>. DEFINE row == rows[before + j]
              score == Max({0, Min({1000, row.score})})
              sim == Similarity(w)[j]
  <2>1. before + j \in 1..total /\ w[j] = row
    BY <1>3
  <2>2. /\ {"id", "title", "score"} \subseteq DOMAIN row
        /\ row.id \in Int /\ row.title \in Int /\ row.score \in Int
    BY <1>2, <2>1 DEF Sortable
  <2>3. score \in Int
    <3>1. ASSUME NEW v \in Int PROVE Max({0, Min({1000, v})}) \in Int
      BY DEF Max, Min
    <3>. HIDE DEF row
    <3>. QED
      BY <2>2, <3>1
  <2>4. sim = [row EXCEPT !.score = score]
    <3>1. sim = Clamped(row)
      BY <1>5, <2>1
    <3>. HIDE DEF row, sim
    <3>. QED
      BY <3>1 DEF Clamped
  <2>. HIDE DEF row, score, sim
  <2>5. sim.id = row.id /\ sim.title = row.title /\ sim.score = score
    BY <2>2, <2>4
  <2>6. hits[j] = HadithHit(sim)
    <3>. HIDE DEF hits
    <3>. QED
      BY <1>6 DEF sim
  <2>7. Hit(hits[j]) /\ KeyOf(hits[j]) = <<"hadith", row.id>>
    BY <2>2, <2>3, <2>5, <2>6 DEF HadithHit, Hit, KeyOf, Types
  <2>8. keys[before + j] = <<"hadith", row.id>>
    BY <1>4, <2>1 DEF row
  <2>. QED
    BY <2>7, <2>8
<1>. HIDE DEF hits
<1>8. DOMAIN hits = 1..lw /\ Len(hits) = lw
  <2>1. hits = [k \in 1..lw |-> hits[k]]
    BY <1>6
  <2>. QED
    BY <1>3, <2>1, ListIs
<1>9. CutOf(hits, keys, total, before, limit)
  BY <1>3, <1>7, <1>8, Zenon DEF CutOf
<1>10. r.results = hits /\ r.total = total
  BY <1>1 DEF Answer
<1>. QED
  BY <1>9, <1>10, Zenon DEF total, rows, before, r, keys

-----------------------------------------------------------------------------
(* Every match has one place in the merged list.                            *)

LEMMA TurnsGrow ==
    ASSUME NEW a \in Nat, NEW b \in Nat, NEW n \in Nat, n <= a + b, NEW m \in Nat, m <= n
    PROVE  Turns(m, a, b) <= Turns(n, a, b) /\ m - Turns(m, a, b) <= n - Turns(n, a, b)
<1>1. PICK h \in Nat : \/ n = 2 * h /\ (n + 1) \div 2 = h /\ n % 2 = 0
                       \/ n = 2 * h + 1 /\ (n + 1) \div 2 = h + 1 /\ n % 2 = 1
  BY HalvesAre
<1>2. PICK g \in Nat : \/ m = 2 * g /\ (m + 1) \div 2 = g /\ m % 2 = 0
                       \/ m = 2 * g + 1 /\ (m + 1) \div 2 = g + 1 /\ m % 2 = 1
  BY HalvesAre
<1>. QED
  BY <1>1, <1>2 DEF Turns

\* Where the i-th of the first list, or of the second, is.
LEMMA TurnOf ==
    ASSUME NEW a \in Nat, NEW b \in Nat
    PROVE  /\ \A i \in 1..a : \E n \in 1..(a + b) : Turns(n, a, b) = i /\ Turns(n - 1, a, b) = i - 1
           /\ \A j \in 1..b : \E n \in 1..(a + b) :
                 n - Turns(n, a, b) = j /\ Turns(n, a, b) = Turns(n - 1, a, b)
<1>1. ASSUME NEW i \in 1..a
      PROVE  \E n \in 1..(a + b) : Turns(n, a, b) = i /\ Turns(n - 1, a, b) = i - 1
  <2>. DEFINE n == IF i <= b + 1 THEN 2 * i - 1 ELSE i + b
  <2>1. n \in 1..(a + b) /\ n \in Nat /\ n - 1 \in Nat
    OBVIOUS
  <2>2. PICK h \in Nat : \/ n = 2 * h /\ (n + 1) \div 2 = h /\ n % 2 = 0
                         \/ n = 2 * h + 1 /\ (n + 1) \div 2 = h + 1 /\ n % 2 = 1
    BY <2>1, HalvesAre
  <2>3. PICK g \in Nat : \/ n - 1 = 2 * g /\ ((n - 1) + 1) \div 2 = g /\ (n - 1) % 2 = 0
                         \/ n - 1 = 2 * g + 1 /\ ((n - 1) + 1) \div 2 = g + 1 /\ (n - 1) % 2 = 1
    BY <2>1, HalvesAre
  <2>4. Turns(n, a, b) = i /\ Turns(n - 1, a, b) = i - 1
    BY <2>1, <2>2, <2>3 DEF Turns
  <2>. QED
    BY <2>1, <2>4
<1>2. ASSUME NEW j \in 1..b
      PROVE  \E n \in 1..(a + b) : n - Turns(n, a, b) = j /\ Turns(n, a, b) = Turns(n - 1, a, b)
  <2>. DEFINE n == IF j <= a THEN 2 * j ELSE j + a
  <2>1. n \in 1..(a + b) /\ n \in Nat /\ n - 1 \in Nat
    OBVIOUS
  <2>2. PICK h \in Nat : \/ n = 2 * h /\ (n + 1) \div 2 = h /\ n % 2 = 0
                         \/ n = 2 * h + 1 /\ (n + 1) \div 2 = h + 1 /\ n % 2 = 1
    BY <2>1, HalvesAre
  <2>3. PICK g \in Nat : \/ n - 1 = 2 * g /\ ((n - 1) + 1) \div 2 = g /\ (n - 1) % 2 = 0
                         \/ n - 1 = 2 * g + 1 /\ ((n - 1) + 1) \div 2 = g + 1 /\ (n - 1) % 2 = 1
    BY <2>1, HalvesAre
  <2>4. n - Turns(n, a, b) = j /\ Turns(n, a, b) = Turns(n - 1, a, b)
    BY <2>1, <2>2, <2>3 DEF Turns
  <2>. QED
    BY <2>1, <2>4
<1>. QED
  BY <1>1, <1>2

\* keys lists a set, each of its members once.
Enumerates(keys, total, matches) ==
    /\ \A p \in 1..total : keys[p] \in matches
    /\ \A m \in matches : \E p \in 1..total : keys[p] = m
    /\ \A p, o \in 1..total : keys[p] = keys[o] => p = o

KeysIn(rows, type) == {<<type, rows[i].id>> : i \in DOMAIN rows}

Matches(q, mode) ==
    IF mode = "semantic" THEN KeysIn(Found[q].near, "hadith")
    ELSE KeysIn(Found[q].narrators, "narrator") \cup KeysIn(Found[q].hadiths, "hadith")

LEMMA RankedKeys ==
    ASSUME NEW rows, NEW ranked, Len(rows) \in Nat, Lists(rows, rows), Lists(rows, ranked), NEW type
    PROVE  /\ \A k \in 1..Len(rows) : <<type, ranked[k].id>> \in KeysIn(rows, type)
           /\ \A m \in KeysIn(rows, type) : \E k \in 1..Len(rows) : m = <<type, ranked[k].id>>
           /\ \A k, l \in 1..Len(rows) : ranked[k].id = ranked[l].id => k = l
<1>. DEFINE n == Len(rows)
<1>1. /\ DOMAIN rows = 1..n
      /\ \A i \in 1..n : \E k \in 1..n : ranked[k].id = rows[i].id
      /\ \A k \in 1..n : \E i \in 1..n : ranked[k].id = rows[i].id
      /\ \A k, l \in 1..n : ranked[k].id = ranked[l].id => k = l
  BY DEF Lists, Sortable
<1>. HIDE DEF n
<1>2. KeysIn(rows, type) = {<<type, rows[i].id>> : i \in 1..n}
  BY <1>1 DEF KeysIn
<1>3. /\ \A k \in 1..n : <<type, ranked[k].id>> \in KeysIn(rows, type)
      /\ \A m \in KeysIn(rows, type) : \E k \in 1..n : m = <<type, ranked[k].id>>
  <2>1. ASSUME NEW k \in 1..n PROVE <<type, ranked[k].id>> \in KeysIn(rows, type)
    <3>1. PICK i \in 1..n : ranked[k].id = rows[i].id
      BY <1>1
    <3>. QED
      BY <1>2, <3>1
  <2>2. ASSUME NEW m \in KeysIn(rows, type) PROVE \E k \in 1..n : m = <<type, ranked[k].id>>
    <3>1. PICK i \in 1..n : m = <<type, rows[i].id>>
      BY <1>2
    <3>2. PICK k \in 1..n : ranked[k].id = rows[i].id
      BY <1>1
    <3>. QED
      BY <3>1, <3>2
  <2>. QED
    BY <2>1, <2>2
<1>. QED
  BY <1>1, <1>3 DEF n

LEMMA MergedEnumerate ==
    ASSUME NEW rows, NEW first, Len(rows) \in Nat, Lists(rows, rows), Lists(rows, first),
           NEW others, NEW second, Len(others) \in Nat, Lists(others, others), Lists(others, second),
           NEW of, NEW under, of # under
    PROVE  Enumerates(MergedKeys(first, of, second, under), Len(rows) + Len(others),
                      KeysIn(rows, of) \cup KeysIn(others, under))
<1>. DEFINE a == Len(rows)
            b == Len(others)
            keys == MergedKeys(first, of, second, under)
            T(p) == Turns(p, a, b)
            K == KeysIn(rows, of)
            U == KeysIn(others, under)
<1>1. a \in Nat /\ b \in Nat /\ Len(first) = a /\ Len(second) = b
  BY DEF Lists
<1>2. /\ \A k \in 1..a : <<of, first[k].id>> \in K
      /\ \A m \in K : \E k \in 1..a : m = <<of, first[k].id>>
      /\ \A k, l \in 1..a : first[k].id = first[l].id => k = l
  BY RankedKeys
<1>3. /\ \A k \in 1..b : <<under, second[k].id>> \in U
      /\ \A m \in U : \E k \in 1..b : m = <<under, second[k].id>>
      /\ \A k, l \in 1..b : second[k].id = second[l].id => k = l
  BY RankedKeys
<1>0. a \in Nat /\ b \in Nat
  BY <1>1
<1>4. \A p \in 1..(a + b) :
          /\ T(p) > T(p - 1) => keys[p] = <<of, first[T(p)].id>>
          /\ ~(T(p) > T(p - 1)) => keys[p] = <<under, second[p - T(p)].id>>
  BY <1>1, Zenon DEF MergedKeys
<1>. HIDE DEF a, b, keys, K, U
<1>5. ASSUME NEW p \in 1..(a + b)
      PROVE  /\ T(p) \in Nat /\ T(p - 1) \in Nat /\ p \in Nat /\ p - 1 \in Nat
             /\ T(p) > T(p - 1) => T(p) \in 1..a /\ T(p) = T(p - 1) + 1
             /\ ~(T(p) > T(p - 1)) => p - T(p) \in 1..b /\ T(p) = T(p - 1)
  <2>1. p \in Nat /\ p - 1 \in Nat /\ p <= a + b /\ p - 1 <= a + b /\ p > 0
    BY <1>0
  <2>2. T(p) \in Nat /\ T(p) <= a /\ p - T(p) \in Nat /\ p - T(p) <= b
    BY <1>0, <2>1, TurnsAre
  <2>5. LET t == Turns(p - 1, a, b)
            fromFirst == ((p - 1) % 2 = 0 /\ t < a) \/ (p - 1) - t >= b
        IN Turns(p, a, b) = t + (IF fromFirst THEN 1 ELSE 0)
    BY <1>0, <2>1, TurnsAre
  <2>3. T(p - 1) \in Nat /\ (p - 1) - T(p - 1) \in Nat
    BY <1>0, <2>1, TurnsAre
  <2>4. T(p) = T(p - 1) + 1 \/ T(p) = T(p - 1)
    BY <2>5, <2>3
  <2>. HIDE DEF T
  <2>. QED
    BY <1>0, <2>1, <2>2, <2>3, <2>4
<1>6. ASSUME NEW p \in 1..(a + b), NEW o \in 1..(a + b), p < o
      PROVE  T(p) <= T(o - 1) /\ p - T(p) <= (o - 1) - T(o - 1)
  <2>1. o - 1 \in Nat /\ o - 1 <= a + b /\ p \in Nat /\ p <= o - 1
    BY <1>0, <1>6
  <2>. QED
    BY <1>0, <2>1, TurnsGrow
<1>7. \A i \in 1..a : \E n \in 1..(a + b) : T(n) = i /\ T(n - 1) = i - 1
  BY <1>0, TurnOf
<1>8. \A j \in 1..b : \E n \in 1..(a + b) : n - T(n) = j /\ T(n) = T(n - 1)
  BY <1>0, TurnOf
<1>. HIDE DEF T
<1>9. ASSUME NEW p \in 1..(a + b) PROVE keys[p] \in K \cup U
  <2>1. CASE T(p) > T(p - 1)
    <3>1. T(p) \in 1..a /\ keys[p] = <<of, first[T(p)].id>>
      BY <1>4, <1>5, <2>1
    <3>. QED
      BY <1>2, <3>1
  <2>2. CASE ~(T(p) > T(p - 1))
    <3>1. p - T(p) \in 1..b /\ keys[p] = <<under, second[p - T(p)].id>>
      BY <1>4, <1>5, <2>2
    <3>. QED
      BY <1>3, <3>1
  <2>. QED
    BY <2>1, <2>2
<1>10. ASSUME NEW m \in K \cup U PROVE \E p \in 1..(a + b) : keys[p] = m
  <2>1. CASE m \in K
    <3>1. PICK k \in 1..a : m = <<of, first[k].id>>
      BY <1>2, <2>1
    <3>2. PICK n \in 1..(a + b) : T(n) = k /\ T(n - 1) = k - 1
      BY <1>7
    <3>3. T(n) > T(n - 1)
      BY <1>0, <3>2
    <3>. QED
      BY <1>4, <3>1, <3>2, <3>3, Zenon
  <2>2. CASE m \in U
    <3>1. PICK k \in 1..b : m = <<under, second[k].id>>
      BY <1>3, <2>2
    <3>2. PICK n \in 1..(a + b) : n - T(n) = k /\ T(n) = T(n - 1)
      BY <1>8
    <3>3. ~(T(n) > T(n - 1))
      BY <1>5, <3>2
    <3>. QED
      BY <1>4, <3>1, <3>2, <3>3, Zenon
  <2>. QED
    BY <2>1, <2>2
<1>11. ASSUME NEW p \in 1..(a + b), NEW o \in 1..(a + b), keys[p] = keys[o]
       PROVE  T(p) > T(p - 1) <=> T(o) > T(o - 1)
  <2>. DEFINE x == first[T(p)].id
              y == first[T(o)].id
              v == second[p - T(p)].id
              z == second[o - T(o)].id
  <2>1. /\ T(p) > T(p - 1) => keys[p] = <<of, x>>
        /\ ~(T(p) > T(p - 1)) => keys[p] = <<under, v>>
        /\ T(o) > T(o - 1) => keys[o] = <<of, y>>
        /\ ~(T(o) > T(o - 1)) => keys[o] = <<under, z>>
    BY <1>4
  <2>. HIDE DEF x, y, v, z
  <2>2. <<of, x>> # <<under, z>> /\ <<under, v>> # <<of, y>>
    OBVIOUS
  <2>. QED
    BY <1>11, <2>1, <2>2, Zenon
<1>12. ASSUME NEW p \in 1..(a + b), NEW o \in 1..(a + b), keys[p] = keys[o]
       PROVE  ~(p < o)
  <2>. SUFFICES ASSUME p < o PROVE FALSE
    OBVIOUS
  <2>1. T(p) <= T(o - 1) /\ p - T(p) <= (o - 1) - T(o - 1)
    BY <1>6
  <2>2. CASE T(p) > T(p - 1)
    <3>1. T(o) > T(o - 1)
      BY <1>11, <1>12, <2>2
    <3>2. first[T(p)].id = first[T(o)].id
      <4>1. keys[p] = <<of, first[T(p)].id>> /\ keys[o] = <<of, first[T(o)].id>>
        BY <1>4, <2>2, <3>1
      <4>2. \A u, v : <<of, u>> = <<of, v>> => u = v
        OBVIOUS
      <4>. QED
        BY <1>12, <4>1, <4>2, Zenon
    <3>3. T(p) \in 1..a /\ T(o) \in 1..a /\ T(o) = T(o - 1) + 1
      BY <1>5, <2>2, <3>1
    <3>4. T(p) = T(o)
      BY <1>2, <3>2, <3>3
    <3>. QED
      BY <1>5, <2>1, <3>3, <3>4
  <2>3. CASE ~(T(p) > T(p - 1))
    <3>1. ~(T(o) > T(o - 1))
      BY <1>11, <1>12, <2>3
    <3>2. second[p - T(p)].id = second[o - T(o)].id
      <4>1. keys[p] = <<under, second[p - T(p)].id>> /\ keys[o] = <<under, second[o - T(o)].id>>
        BY <1>4, <2>3, <3>1
      <4>2. \A u, v : <<under, u>> = <<under, v>> => u = v
        OBVIOUS
      <4>. QED
        BY <1>12, <4>1, <4>2, Zenon
    <3>3. p - T(p) \in 1..b /\ o - T(o) \in 1..b /\ T(o) = T(o - 1)
      BY <1>5, <2>3, <3>1
    <3>4. p - T(p) = o - T(o)
      BY <1>3, <3>2, <3>3
    <3>. QED
      BY <1>5, <2>1, <3>3, <3>4
  <2>. QED
    BY <2>2, <2>3
<1>13. \A p, o \in 1..(a + b) : keys[p] = keys[o] => p = o
  <2>. SUFFICES ASSUME NEW p \in 1..(a + b), NEW o \in 1..(a + b), keys[p] = keys[o] PROVE p = o
    OBVIOUS
  <2>1. ~(p < o) /\ ~(o < p)
    BY <1>12
  <2>. QED
    BY <1>0, <2>1
<1>14. Enumerates(keys, a + b, K \cup U)
  BY <1>9, <1>10, <1>13, Zenon DEF Enumerates
<1>. QED
  BY <1>14 DEF a, b, keys, K, U

\* What the API answers where the indexes and the vectors are as up says.
AskAt(q, mode, limit, page, up) ==
    IF mode = "semantic" THEN Semantic(q, page, limit, up.provisioned)
                         ELSE Fulltext(q, page, limit, up.indexed)

Keys(q, mode, up) ==
    IF mode = "semantic" THEN NearKeys(q) ELSE FulltextKeys(q, up.indexed)

LEMMA TotalIs ==
    ASSUME NEW q \in Queries, NEW mode
    PROVE  MatchTotal(q, mode) \in Nat
<1>1. Len(Found[q].near) \in Nat /\ Len(Found[q].narrators) \in Nat /\ Len(Found[q].hadiths) \in Nat
  BY RowsAre
<1>2. Len(Found[q].narrators) + Len(Found[q].hadiths) \in Nat
  <2>1. \A m, n \in Nat : m + n \in Nat
    OBVIOUS
  <2>. QED
    BY <1>1, <2>1, Zenon
<1>. QED
  BY <1>1, <1>2, Zenon DEF MatchTotal

LEMMA KeysAre ==
    ASSUME NEW q \in Queries, NEW mode, NEW up
    PROVE  Enumerates(Keys(q, mode, up), MatchTotal(q, mode), Matches(q, mode))
<1>1. CASE mode = "semantic"
  <2>. DEFINE rows == Found[q].near
              n == Len(rows)
              keys == NearKeys(q)
  <2>1. n \in Nat /\ Lists(rows, rows)
    BY RowsAre
  <2>2. keys = [p \in 1..n |-> <<"hadith", rows[p].id>>]
    BY DEF NearKeys
  <2>. HIDE DEF rows
  <2>3. DOMAIN rows = 1..n /\ \A k, l \in 1..n : rows[k].id = rows[l].id => k = l
    BY <2>1 DEF Lists, Sortable
  <2>4. KeysIn(rows, "hadith") = {<<"hadith", rows[i].id>> : i \in 1..n}
    BY <2>3 DEF KeysIn
  <2>. HIDE DEF n, keys
  <2>5. \A p, o \in 1..n : keys[p] = keys[o] => p = o
    <3>. SUFFICES ASSUME NEW p \in 1..n, NEW o \in 1..n, keys[p] = keys[o] PROVE p = o
      OBVIOUS
    <3>1. <<"hadith", rows[p].id>> = <<"hadith", rows[o].id>>
      BY <2>2
    <3>2. \A u, v : <<"hadith", u>> = <<"hadith", v>> => u = v
      OBVIOUS
    <3>3. rows[p].id = rows[o].id
      BY <3>1, <3>2, Zenon
    <3>. QED
      BY <2>3, <3>3
  <2>6. Enumerates(keys, n, KeysIn(rows, "hadith"))
    BY <2>2, <2>4, <2>5 DEF Enumerates
  <2>. QED
    BY <1>1, <2>6 DEF Keys, MatchTotal, Matches, keys, n, rows
<1>2. CASE mode # "semantic"
  <2>. DEFINE rn == Found[q].narrators
              rh == Found[q].hadiths
              n == Ranked(rn, up.indexed)
              h == Ranked(rh, up.indexed)
              N == KeysIn(rn, "narrator")
              H == KeysIn(rh, "hadith")
  <2>1. /\ Len(rn) \in Nat /\ Lists(rn, rn) /\ Lists(rn, n)
        /\ Len(rh) \in Nat /\ Lists(rh, rh) /\ Lists(rh, h)
    BY RowsAre, RankedIs
  <2>2. /\ Keys(q, mode, up) = (IF Leads(n, h) THEN MergedKeys(h, "hadith", n, "narrator")
                                          ELSE MergedKeys(n, "narrator", h, "hadith"))
        /\ MatchTotal(q, mode) = Len(rn) + Len(rh)
        /\ Matches(q, mode) = N \cup H
    BY <1>2 DEF Keys, FulltextKeys, MatchTotal, Matches
  <2>. HIDE DEF rn, rh, n, h, N, H
  <2>3. Enumerates(MergedKeys(n, "narrator", h, "hadith"), Len(rn) + Len(rh), N \cup H)
    BY <2>1, MergedEnumerate DEF N, H
  <2>4. Enumerates(MergedKeys(h, "hadith", n, "narrator"), Len(rh) + Len(rn), H \cup N)
    BY <2>1, MergedEnumerate DEF N, H
  <2>5. Len(rh) + Len(rn) = Len(rn) + Len(rh) /\ H \cup N = N \cup H
    BY <2>1
  <2>6. Enumerates(MergedKeys(h, "hadith", n, "narrator"), Len(rn) + Len(rh), N \cup H)
    BY <2>4, <2>5, Zenon
  <2>7. CASE Leads(n, h)
    BY <2>2, <2>6, <2>7, Zenon
  <2>8. CASE ~Leads(n, h)
    BY <2>2, <2>3, <2>8, Zenon
  <2>. QED
    BY <2>7, <2>8
<1>. QED
  BY <1>1, <1>2

LEMMA AskIs ==
    ASSUME NEW q \in Queries, q # Blank, NEW mode, NEW page \in Nat \ {0},
           NEW limit \in Nat \ {0}, NEW up, AskAt(q, mode, limit, page, up).status = 200
    PROVE  LET r == AskAt(q, mode, limit, page, up)
           IN /\ r.total = MatchTotal(q, mode)
              /\ CutOf(r.results, Keys(q, mode, up), MatchTotal(q, mode), (page - 1) * limit, limit)
<1>. DEFINE r == AskAt(q, mode, limit, page, up)
<1>0. InWindow(page, limit)
  <2>. SUFFICES ASSUME ~InWindow(page, limit) PROVE FALSE
    OBVIOUS
  <2>1. r = Refused
    BY DEF AskAt, Semantic, Fulltext
  <2>2. Refused.status # 200
    BY DEF Refused
  <2>. QED
    BY <2>1, <2>2
<1>1. CASE mode = "semantic"
  <2>1. r = Semantic(q, page, limit, up.provisioned)
    BY <1>1 DEF AskAt
  <2>3. LET x == Semantic(q, page, limit, up.provisioned)
        IN /\ x.total = Len(Found[q].near)
           /\ CutOf(x.results, NearKeys(q), x.total, (page - 1) * limit, limit)
    BY <1>0, <2>1, SemanticIs
  <2>. QED
    BY <1>1, <2>1, <2>3, Zenon DEF MatchTotal, Keys
<1>2. CASE mode # "semantic"
  <2>1. r = Fulltext(q, page, limit, up.indexed)
    BY <1>2 DEF AskAt
  <2>3. LET x == Fulltext(q, page, limit, up.indexed)
        IN /\ x.status = 200
           /\ x.total = Len(Found[q].narrators) + Len(Found[q].hadiths)
           /\ CutOf(x.results, FulltextKeys(q, up.indexed), x.total, (page - 1) * limit, limit)
    BY <1>0, FulltextIs
  <2>. QED
    BY <1>2, <2>1, <2>3, Zenon DEF MatchTotal, Keys
<1>. QED
  BY <1>1, <1>2

\* An answer never has more hits than were asked for.
LEMMA AskedLen ==
    ASSUME NEW q \in Queries, NEW mode, NEW page \in Nat \ {0}, NEW limit \in Nat \ {0}, NEW up
    PROVE  Len(AskAt(q, mode, limit, page, up).results) \in 0..limit
<1>. DEFINE r == AskAt(q, mode, limit, page, up)
<1>0. (\A n : n \in Nat /\ n <= limit => n \in 0..limit) /\ Len(<<>>) \in 0..limit
  OBVIOUS
<1>1. CASE q # Blank /\ r.status = 200
  <2>1. CutOf(r.results, Keys(q, mode, up), MatchTotal(q, mode), (page - 1) * limit, limit)
    BY <1>1, AskIs
  <2>2. Len(r.results) \in Nat /\ Len(r.results) <= limit
    BY <2>1, Zenon DEF CutOf
  <2>. QED
    BY <1>0, <2>2, Zenon
<1>2. CASE mode = "semantic" /\ r.status # 200
  <2>1. r = Refused \/ r = Unavailable
    <3>1. r = Semantic(q, page, limit, up.provisioned)
      BY <1>2 DEF AskAt
    <3>2. \A x, y : Answer(x, y).status = 200
      BY DEF Answer
    <3>. QED
      BY <1>2, <3>1, <3>2 DEF Semantic
  <2>2. r.results = <<>>
    BY <2>1 DEF Refused, Unavailable
  <2>. QED
    BY <1>0, <2>2, Zenon
<1>3. CASE mode # "semantic" /\ (q = Blank \/ r.status # 200)
  <2>1. r = Refused \/ r = Answer(<<>>, 0)
    <3>1. r = Fulltext(q, page, limit, up.indexed)
      BY <1>3 DEF AskAt
    <3>2. CASE q = Blank
      BY <3>1, <3>2, Zenon DEF Fulltext
    <3>3. CASE q # Blank /\ ~InWindow(page, limit)
      BY <3>1, <3>3, Zenon DEF Fulltext
    <3>4. CASE q # Blank /\ InWindow(page, limit)
      <4>1. LET x == Fulltext(q, page, limit, up.indexed)
            IN /\ x.status = 200
               /\ x.total = Len(Found[q].narrators) + Len(Found[q].hadiths)
               /\ CutOf(x.results, FulltextKeys(q, up.indexed), x.total, (page - 1) * limit, limit)
        BY <3>4, FulltextIs
      <4>. QED
        BY <1>3, <3>1, <3>4, <4>1
    <3>. QED
      BY <3>2, <3>3, <3>4
  <2>2. r.results = <<>>
    BY <2>1 DEF Refused, Answer
  <2>. QED
    BY <1>0, <2>2, Zenon
<1>4. CASE mode = "semantic" /\ r.status = 200
  <2>1. r = Semantic(q, page, limit, up.provisioned)
    BY <1>4 DEF AskAt
  <2>2. CASE InWindow(page, limit)
    <3>1. LET x == Semantic(q, page, limit, up.provisioned)
          IN CutOf(x.results, NearKeys(q), x.total, (page - 1) * limit, limit)
      BY <1>4, <2>1, <2>2, SemanticIs
    <3>2. Len(r.results) \in Nat /\ Len(r.results) <= limit
      BY <2>1, <3>1, Zenon DEF CutOf
    <3>. QED
      BY <1>0, <3>2, Zenon
  <2>3. CASE ~InWindow(page, limit)
    <3>1. r = Refused
      BY <2>1, <2>3 DEF Semantic
    <3>2. Refused.status # 200
      BY DEF Refused
    <3>. QED
      BY <1>4, <3>1, <3>2
  <2>. QED
    BY <2>2, <2>3
<1>. QED
  BY <1>1, <1>2, <1>3, <1>4

-----------------------------------------------------------------------------
(* The search page: a page past the first has results, once no timer is     *)
(* left.                                                                    *)

BatchAt(q, mode, page, up) ==
    AskAt(q, mode, BatchSize(mode), ServerPageFor(page, BatchSize(mode)), up)

\* The hits that pass the filters.
Sieved(hits, filters) ==
    Those(hits, {i \in DOMAIN hits : /\ hits[i].type \in filters.types
                                     /\ MatchesFacets(hits[i], filters.facets)})

Reaches(s, up) ==
    /\ s.query \notin TooShort
    /\ IF FiltersActive(s) THEN Sieved(BatchAt(s.query, s.mode, 1, up).results, s.filters) # <<>>
       ELSE (s.page - 1) * PerPage < MatchTotal(s.query, s.mode)

Kept(s, up) ==
    /\ s.batch = "idle" <=> s.query \in TooShort
    /\ s.batch \in {"data", "outdated"} => BatchAt(s.query, s.mode, s.page, up).status = 200
    /\ FiltersActive(s) => s.page <= PagesPerBatch(BatchSize(s.mode))
    /\ ~s.timer => s.query = s.input
    /\ ~s.timer /\ s.page > 1 => s.own /\ Reaches(s, up)

SearchInd == SearchTypeOK /\ (search # Away => Kept(search, backend))

-----------------------------------------------------------------------------
LEMMA AnswersAre ==
    /\ \A q, mode, limit, page : Ask(q, mode, limit, page) = AskAt(q, mode, limit, page, backend)
    /\ \A s : SearchAnswer(s) = BatchAt(s.query, s.mode, s.page, backend)
BY DEF Ask, AskAt, SearchAnswer, BatchAt, ServerPage

LEMMA PageInBatch ==
    ASSUME NEW mode \in Modes, NEW page \in 1..MaxPages
    PROVE  /\ ServerPageFor(page, BatchSize(mode)) \in Nat \ {0}
           /\ BatchSize(mode) \in Nat \ {0}
           /\ InWindow(ServerPageFor(page, BatchSize(mode)), BatchSize(mode))
           /\ page <= PagesPerBatch(BatchSize(mode)) <=> ServerPageFor(page, BatchSize(mode)) = 1
<1>. DEFINE batch == BatchSize(mode)
            sp == ServerPageFor(page, batch)
            lp == LocalPageFor(page, batch)
<1>1. PICK K, B : Fits(batch, K, B)
  BY BatchesFit
<1>2. /\ sp \in Nat /\ sp >= 1 /\ sp <= B /\ lp \in Nat /\ lp >= 1 /\ lp <= K
      /\ page = (K * (sp - 1)) + lp
      /\ InWindow(sp, batch)
  BY <1>1, PageIs
<1>3. PagesPerBatch(batch) = K /\ K \in Nat \ {0} /\ batch \in Nat \ {0}
  BY <1>1 DEF Fits
<1>. HIDE DEF batch, sp, lp
<1>4. page <= K <=> sp = 1
  <2>1. CASE sp = 1
    BY <1>2, <1>3, <2>1
  <2>2. CASE sp # 1
    <3>1. K * (sp - 1) >= K
      BY <1>2, <1>3, <2>2
    <3>2. K * (sp - 1) \in Nat
      BY <1>2, <1>3
    <3>. QED
      BY <1>2, <1>3, <2>2, <3>1, <3>2
  <2>. QED
    BY <2>1, <2>2
<1>5. sp \in Nat \ {0}
  BY <1>2
<1>. QED
  BY <1>2, <1>3, <1>4, <1>5 DEF batch, sp

\* What the answer for a page holds.
LEMMA BatchIs ==
    ASSUME NEW q \in Queries, q \notin TooShort, NEW mode \in Modes, NEW page \in 1..MaxPages,
           NEW up, BatchAt(q, mode, page, up).status = 200
    PROVE  LET r == BatchAt(q, mode, page, up)
               batch == BatchSize(mode)
           IN /\ r.total = MatchTotal(q, mode)
              /\ CutOf(r.results, Keys(q, mode, up), MatchTotal(q, mode),
                       (ServerPageFor(page, batch) - 1) * batch, batch)
<1>. DEFINE batch == BatchSize(mode)
            sp == ServerPageFor(page, batch)
            r == BatchAt(q, mode, page, up)
<1>1. sp \in Nat \ {0} /\ batch \in Nat \ {0}
  BY PageInBatch
<1>2. q # Blank
  BY PagerAssumption
<1>3. r = AskAt(q, mode, batch, sp, up)
  BY DEF BatchAt
<1>. HIDE DEF batch, sp, r
<1>4. LET x == AskAt(q, mode, batch, sp, up)
      IN /\ x.total = MatchTotal(q, mode)
         /\ CutOf(x.results, Keys(q, mode, up), MatchTotal(q, mode), (sp - 1) * batch, batch)
  <2>1. AskAt(q, mode, batch, sp, up).status = 200
    BY <1>3, Zenon DEF r
  <2>. QED
    BY <1>1, <1>2, <2>1, AskIs
<1>. QED
  BY <1>3, <1>4, Zenon DEF batch, sp, r

\* The filters pass at most all of a batch, and all of it where none is set.
LEMMA SievedIs ==
    ASSUME NEW hits, NEW keys, NEW total, NEW before, NEW limit,
           CutOf(hits, keys, total, before, limit), NEW filters
    PROVE  /\ Len(Sieved(hits, filters)) \in Nat /\ Len(Sieved(hits, filters)) <= Len(hits)
           /\ Sieved(hits, filters) = <<>> <=> Len(Sieved(hits, filters)) = 0
           /\ filters = DefaultFilters =>
                 /\ DOMAIN Sieved(hits, filters) = 1..Len(hits)
                 /\ Len(Sieved(hits, filters)) = Len(hits)
                 /\ \A k \in 1..Len(hits) : Sieved(hits, filters)[k] = hits[k]
<1>. DEFINE n == Len(hits)
            pass(i) == hits[i].type \in filters.types /\ MatchesFacets(hits[i], filters.facets)
            places == {i \in 1..n : pass(i)}
            t == Those(hits, places)
<1>1. n \in Nat /\ DOMAIN hits = 1..n /\ \A j \in 1..n : Hit(hits[j])
  BY DEF CutOf
<1>2. Sieved(hits, filters) = t
  BY <1>1, Zenon DEF Sieved
<1>3. places \in SUBSET (1..n)
  OBVIOUS
<1>4. ASSUME filters = DefaultFilters PROVE places = 1..n
  <2>1. filters.types = Types /\ filters.facets = NoFacets
    BY <1>4 DEF DefaultFilters
  <2>2. \A f \in {"collections", "gradings", "topics", "centuries"} : NoFacets[f] = {}
    BY PagerAssumption DEF NoFacets
  <2>3. \A i \in 1..n : pass(i)
    <3>. TAKE i \in 1..n
    <3>1. hits[i].type \in Types
      BY <1>1 DEF Hit
    <3>2. FacetApplies[hits[i].type] \subseteq {"collections", "gradings", "topics", "centuries"}
      BY <3>1 DEF Types, FacetApplies
    <3>3. MatchesFacets(hits[i], NoFacets)
      BY <2>2, <3>2, Zenon DEF MatchesFacets
    <3>. QED
      BY <2>1, <3>1, <3>3
  <2>. HIDE DEF pass
  <2>. QED
    BY <2>3
<1>. HIDE DEF n, places
<1>5. /\ Cardinality(places) \in Nat /\ Cardinality(places) <= n
      /\ DOMAIN t = 1..Cardinality(places)
      /\ Len(t) = Cardinality(places)
      /\ t = <<>> <=> places = {}
      /\ places = 1..n => \A k \in 1..n : t[k] = hits[k]
  BY <1>1, <1>3, ThoseAre
<1>6. Cardinality(places) = 0 <=> places = {}
  <2>1. IsFiniteSet(places)
    BY <1>1, <1>3, IntervalIs, FS_Subset
  <2>. QED
    BY <2>1, FS_EmptySet
<1>7. places = 1..n => Cardinality(places) = n
  BY <1>1, IntervalIs
<1>. HIDE DEF t
<1>8. Len(t) \in Nat /\ Len(t) <= n /\ (t = <<>> <=> Len(t) = 0)
  BY <1>5, <1>6
<1>9. ASSUME filters = DefaultFilters
      PROVE DOMAIN t = 1..n /\ Len(t) = n /\ \A k \in 1..n : t[k] = hits[k]
  BY <1>4, <1>5, <1>7, <1>9
<1>. QED
  BY <1>2, <1>8, <1>9, Zenon DEF n

LEMMA SievedNone ==
    ASSUME NEW filters
    PROVE  Sieved(<<>>, filters) = <<>> /\ Len(Sieved(<<>>, filters)) = 0
<1>1. DOMAIN <<>> = 1..0 /\ {} \in SUBSET (1..0) /\ Len(<<>>) = 0
  OBVIOUS
<1>2. {i \in DOMAIN <<>> : /\ <<>>[i].type \in filters.types
                           /\ MatchesFacets(<<>>[i], filters.facets)} = {}
  BY <1>1
<1>3. Sieved(<<>>, filters) = Those(<<>>, {})
  BY <1>2, Zenon DEF Sieved
<1>4. Those(<<>>, {}) = <<>>
  BY <1>1, ThoseAre
<1>. QED
  BY <1>1, <1>3, <1>4

-----------------------------------------------------------------------------
(* The steps. *)

\* The parts of a page's state that its place in the results hangs on.
LEMMA ReachesSame ==
    ASSUME NEW s, NEW t, NEW up, t.query = s.query, t.mode = s.mode, t.page = s.page,
           t.filters = s.filters
    PROVE  Reaches(t, up) <=> Reaches(s, up)
BY DEF Reaches, FiltersActive

LEMMA BatchesAre ==
    ASSUME SearchTypeOK, NEW t \in SearchState, NEW b \in BatchOf(t)
    PROVE  b \in {"idle", "loading", "data", "failed", "outdated"}
BY DEF BatchOf, SearchTypeOK, SearchState

LEMMA BatchKept ==
    ASSUME SearchInd, NEW t \in SearchState, NEW b \in BatchOf(t)
    PROVE  /\ b = "idle" <=> t.query \in TooShort
           /\ b \in {"data", "outdated"} => BatchAt(t.query, t.mode, t.page, backend).status = 200
<1>1. CASE search # Away /\ SearchKey(t) = SearchKey(search)
  <2>1. b = search.batch
    BY <1>1 DEF BatchOf
  <2>2. t.query = search.query /\ t.mode = search.mode /\ ServerPage(t) = ServerPage(search)
    BY <1>1 DEF SearchKey
  <2>3. BatchAt(t.query, t.mode, t.page, backend) = BatchAt(search.query, search.mode, search.page, backend)
    BY <2>2, Zenon DEF BatchAt, ServerPage
  <2>4. Kept(search, backend)
    BY <1>1 DEF SearchInd
  <2>. QED
    BY <2>1, <2>2, <2>3, <2>4 DEF Kept
<1>2. CASE ~(search # Away /\ SearchKey(t) = SearchKey(search))
  <2>1. SearchAnswer(t) = BatchAt(t.query, t.mode, t.page, backend)
    BY AnswersAre
  <2>. QED
    BY <1>2, <2>1 DEF BatchOf
<1>. QED
  BY <1>1, <1>2

LEMMA HintsAre ==
    ASSUME SearchTypeOK, NEW t \in SearchState, NEW h \in HintOf(t)
    PROVE  h \in BOOLEAN
BY DEF HintOf, SearchTypeOK, SearchState

LEMMA RenderInv ==
    ASSUME SearchInd, search # Away, NEW t \in SearchState, Render(t),
           ~t.timer => t.query = t.input,
           FiltersActive(t) => t.page <= PagesPerBatch(BatchSize(t.mode)),
           ~t.timer /\ t.page > 1 => t.own /\ Context(t) = Context(search) /\ Reaches(t, backend)
    PROVE  SearchInd'
<1>1. PICK b \in BatchOf(t), h \in HintOf(t) :
          search' = [t EXCEPT !.batch = b, !.hint = h, !.own = @ /\ Context(t) = Context(search)]
  BY DEF Render
<1>. DEFINE own == t.own /\ Context(t) = Context(search)
<1>2. b \in {"idle", "loading", "data", "failed", "outdated"} /\ h \in BOOLEAN /\ own \in BOOLEAN
  BY BatchesAre, HintsAre DEF SearchInd
<1>3. search' = [t EXCEPT !.batch = b, !.hint = h, !.own = own]
  BY <1>1
<1>. HIDE DEF own
<1>4. search' \in SearchState
  BY <1>2, <1>3 DEF SearchState
<1>5. /\ search'.query = t.query /\ search'.mode = t.mode /\ search'.page = t.page
      /\ search'.filters = t.filters /\ search'.timer = t.timer /\ search'.input = t.input
      /\ search'.batch = b /\ search'.own = own
  BY <1>3 DEF SearchState
<1>6. backend' = backend /\ address' \in Queries
  <2>1. address \in Queries /\ t.query \in Queries
    BY DEF SearchInd, SearchTypeOK, SearchState
  <2>. QED
    BY <2>1 DEF Render
<1>7. FiltersActive(search') <=> FiltersActive(t)
  BY <1>5 DEF FiltersActive
<1>8. Reaches(search', backend) <=> Reaches(t, backend)
  BY <1>5, ReachesSame
<1>9. /\ b = "idle" <=> t.query \in TooShort
      /\ b \in {"data", "outdated"} => BatchAt(t.query, t.mode, t.page, backend).status = 200
  BY BatchKept
<1>10. Kept(search', backend)
  <2>1. search'.batch = "idle" <=> search'.query \in TooShort
    BY <1>5, <1>9
  <2>2. search'.batch \in {"data", "outdated"} =>
           BatchAt(search'.query, search'.mode, search'.page, backend).status = 200
    BY <1>5, <1>9
  <2>3. FiltersActive(search') => search'.page <= PagesPerBatch(BatchSize(search'.mode))
    BY <1>5, <1>7
  <2>4. ~search'.timer => search'.query = search'.input
    BY <1>5
  <2>5. ~search'.timer /\ search'.page > 1 => search'.own /\ Reaches(search', backend)
    BY <1>5, <1>8 DEF own
  <2>. QED
    BY <2>1, <2>2, <2>3, <2>4, <2>5 DEF Kept
<1>. QED
  BY <1>4, <1>6, <1>10 DEF SearchInd, SearchTypeOK

\* Back on page one, nothing can be wrong with the page.
LEMMA PageOne ==
    ASSUME SearchInd, search # Away, NEW t \in SearchState, Render(t), t.page = 1,
           ~t.timer => t.query = t.input
    PROVE  SearchInd'
<1>1. FiltersActive(t) => t.page <= PagesPerBatch(BatchSize(t.mode))
  <2>1. t.mode \in Modes /\ 1 \in 1..MaxPages
    BY PagerAssumption DEF SearchState
  <2>2. PICK K, B : Fits(BatchSize(t.mode), K, B)
    BY <2>1, BatchesFit
  <2>3. PagesPerBatch(BatchSize(t.mode)) = K /\ K \in Nat \ {0}
    BY <2>2 DEF Fits
  <2>. QED
    BY <2>3
<1>2. ~(t.page > 1)
  OBVIOUS
<1>. QED
  BY <1>1, <1>2, RenderInv

\* Nor when the page keeps what it shows.
LEMMA SamePlace ==
    ASSUME SearchInd, search # Away, NEW t \in SearchState, Render(t),
           t.page = search.page, t.query = search.query, t.mode = search.mode,
           t.filters = search.filters, t.own = search.own,
           ~t.timer => ~search.timer /\ t.input = search.input
    PROVE  SearchInd'
<1>1. Kept(search, backend)
  BY DEF SearchInd
<1>2. Context(t) = Context(search)
  BY DEF Context
<1>3. Reaches(t, backend) <=> Reaches(search, backend)
  BY ReachesSame
<1>4. FiltersActive(t) <=> FiltersActive(search)
  BY DEF FiltersActive
<1>5. FiltersActive(t) => t.page <= PagesPerBatch(BatchSize(t.mode))
  BY <1>1, <1>4 DEF Kept
<1>6. ~t.timer => t.query = t.input
  BY <1>1 DEF Kept
<1>7. ~t.timer /\ t.page > 1 => t.own /\ Context(t) = Context(search) /\ Reaches(t, backend)
  BY <1>1, <1>2, <1>3 DEF Kept
<1>. QED
  BY <1>5, <1>6, <1>7, RenderInv

\* While the timer runs, all that matters is a filtered view's batch.
LEMMA TimerLeft ==
    ASSUME SearchInd, search # Away, NEW t \in SearchState, Render(t), t.timer,
           t.page = search.page, t.mode = search.mode,
           FiltersActive(t) => t.filters = search.filters
    PROVE  SearchInd'
<1>1. Kept(search, backend)
  BY DEF SearchInd
<1>2. FiltersActive(t) => t.page <= PagesPerBatch(BatchSize(t.mode))
  BY <1>1 DEF Kept, FiltersActive
<1>. QED
  BY <1>2, RenderInv

LEMMA HintsLen ==
    ASSUME SearchTypeOK, search # Away
    PROVE  Len(HintData(search)) \in 0..HintLimit
<1>1. search.input \in Queries /\ HintLimit \in Nat \ {0}
  BY PagerAssumption DEF SearchTypeOK, SearchState
<1>2. Len(AskAt(search.input, search.mode, HintLimit, 1, backend).results) \in 0..HintLimit
  <2>1. 1 \in Nat \ {0}
    OBVIOUS
  <2>. QED
    BY <1>1, <2>1, AskedLen
<1>3. Len(<<>>) \in 0..HintLimit
  BY <1>1
<1>4. Ask(search.input, search.mode, HintLimit, 1) = AskAt(search.input, search.mode, HintLimit, 1, backend)
  BY AnswersAre
<1>. QED
  BY <1>2, <1>3, <1>4, Zenon DEF HintData

LEMMA TypingInv ==
    ASSUME SearchInd, search # Away,
           \/ \E q \in Queries : TypeQuery(q)
           \/ \E q \in Suggested : Suggest(q)
           \/ Debounced \/ Submit \/ ClearInput
    PROVE  SearchInd'
<1>0. 1 \in 1..MaxPages /\ 0 \in 0..HintLimit
  BY PagerAssumption
<1>1. search \in SearchState /\ Kept(search, backend)
  BY DEF SearchInd, SearchTypeOK
<1>2. CASE \E q \in Queries : TypeQuery(q)
  <2>1. PICK q \in Queries : TypeQuery(q)
    BY <1>2
  <2>. DEFINE t == [search EXCEPT !.input = q, !.timer = TRUE, !.dropdown = TRUE, !.active = 0]
  <2>2. Render(t)
    BY <2>1 DEF TypeQuery
  <2>3. /\ t \in SearchState /\ t.timer /\ t.page = search.page /\ t.mode = search.mode
        /\ t.filters = search.filters
    BY <1>0, <1>1 DEF SearchState
  <2>. QED
    BY <2>2, <2>3, TimerLeft
<1>3. CASE \E q \in Suggested : Suggest(q)
  <2>1. PICK q \in Suggested : Suggest(q)
    BY <1>3
  <2>. DEFINE timer == search.timer \/ q # search.input
              t == [search EXCEPT !.timer = timer, !.input = q, !.query = q, !.dropdown = FALSE]
  <2>2. Render(t) /\ search.query \in TooShort
    BY <2>1 DEF Suggest
  <2>3. q \in Queries /\ q \notin TooShort
    BY PagerAssumption
  <2>4. timer
    BY <1>1, <2>2, <2>3 DEF Kept
  <2>5. timer \in BOOLEAN
    BY <1>1 DEF SearchState
  <2>. HIDE DEF timer
  <2>6. /\ t \in SearchState /\ t.timer /\ t.page = search.page /\ t.mode = search.mode
        /\ t.filters = search.filters
    BY <1>1, <2>3, <2>4, <2>5 DEF SearchState
  <2>. QED
    BY <2>2, <2>6, TimerLeft
<1>4. CASE Debounced
  <2>. DEFINE t == [search EXCEPT !.timer = FALSE, !.query = search.input, !.page = 1]
  <2>1. Render(t)
    BY <1>4 DEF Debounced
  <2>2. t \in SearchState /\ t.page = 1 /\ t.query = t.input
    BY <1>0, <1>1 DEF SearchState
  <2>. QED
    BY <2>1, <2>2, PageOne
<1>5. CASE Submit
  <2>. DEFINE t == [search EXCEPT !.query = search.input, !.dropdown = FALSE, !.page = 1]
  <2>1. Render(t)
    BY <1>5 DEF Submit
  <2>2. t \in SearchState /\ t.page = 1 /\ t.query = t.input
    BY <1>0, <1>1 DEF SearchState
  <2>. QED
    BY <2>1, <2>2, PageOne
<1>6. CASE ClearInput
  <2>. DEFINE t == [search EXCEPT !.input = Blank, !.query = Blank, !.timer = TRUE]
  <2>1. Render(t)
    BY <1>6 DEF ClearInput
  <2>2. /\ t \in SearchState /\ t.timer /\ t.page = search.page /\ t.mode = search.mode
        /\ t.filters = search.filters
    BY <1>1, WindowAssumption DEF SearchState
  <2>. QED
    BY <2>1, <2>2, TimerLeft
<1>. QED
  BY <1>2, <1>3, <1>4, <1>5, <1>6

LEMMA DropdownInv ==
    ASSUME SearchInd, search # Away,
           FocusInput \/ CloseDropdown \/ ArrowDown \/ ArrowUp \/ HintArrives
    PROVE  SearchInd'
<1>1. search \in SearchState /\ Kept(search, backend) /\ address \in Queries
  BY DEF SearchInd, SearchTypeOK
<1>2. CASE FocusInput \/ CloseDropdown
  <2>1. PICK d \in BOOLEAN : Render([search EXCEPT !.dropdown = d])
    BY <1>2 DEF FocusInput, CloseDropdown
  <2>. DEFINE t == [search EXCEPT !.dropdown = d]
  <2>2. /\ t \in SearchState /\ t.page = search.page /\ t.query = search.query /\ t.mode = search.mode
        /\ t.filters = search.filters /\ t.own = search.own /\ t.timer = search.timer
        /\ t.input = search.input
    BY <1>1 DEF SearchState
  <2>. QED
    BY <2>1, <2>2, SamePlace
<1>3. CASE ArrowDown \/ ArrowUp
  <2>1. \E a : a \in 0..HintLimit /\ Render([search EXCEPT !.active = a])
    <3>1. search.active \in 0..HintLimit /\ HintLimit \in Nat
      BY <1>1, PagerAssumption DEF SearchState
    <3>2. Len(HintData(search)) \in 0..HintLimit
      BY HintsLen DEF SearchInd
    <3>3. CASE ArrowDown
      <4>. DEFINE n == Len(HintData(search))
                  a == Min({search.active + 1, n})
      <4>1. Render([search EXCEPT !.active = a])
        BY <3>3 DEF ArrowDown
      <4>. HIDE DEF n
      <4>2. a \in 0..HintLimit
        BY <3>1, <3>2 DEF Min, n
      <4>. QED
        BY <4>1, <4>2
    <3>4. CASE ArrowUp
      <4>. DEFINE a == Max({search.active - 1, 0})
      <4>1. Render([search EXCEPT !.active = a])
        BY <3>4 DEF ArrowUp
      <4>2. a \in 0..HintLimit
        BY <3>1 DEF Max
      <4>. QED
        BY <4>1, <4>2
    <3>. QED
      BY <1>3, <3>3, <3>4
  <2>2. PICK a : a \in 0..HintLimit /\ Render([search EXCEPT !.active = a])
    BY <2>1
  <2>. DEFINE t == [search EXCEPT !.active = a]
  <2>3. /\ t \in SearchState /\ t.page = search.page /\ t.query = search.query /\ t.mode = search.mode
        /\ t.filters = search.filters /\ t.own = search.own /\ t.timer = search.timer
        /\ t.input = search.input
    BY <1>1, <2>2 DEF SearchState
  <2>. QED
    BY <2>2, <2>3, SamePlace
<1>4. CASE HintArrives
  <2>1. search' = [search EXCEPT !.hint = TRUE] /\ address' = address /\ backend' = backend
    BY <1>4 DEF HintArrives
  <2>2. /\ search' \in SearchState /\ search'.page = search.page /\ search'.query = search.query
        /\ search'.mode = search.mode /\ search'.filters = search.filters /\ search'.own = search.own
        /\ search'.timer = search.timer /\ search'.input = search.input /\ search'.batch = search.batch
    BY <1>1, <2>1 DEF SearchState
  <2>3. Kept(search', backend)
    <3>1. Reaches(search', backend) <=> Reaches(search, backend)
      BY <2>2, ReachesSame
    <3>2. FiltersActive(search') <=> FiltersActive(search)
      BY <2>2 DEF FiltersActive
    <3>. QED
      BY <1>1, <2>2, <3>1, <3>2 DEF Kept
  <2>. QED
    BY <1>1, <2>1, <2>2, <2>3 DEF SearchInd, SearchTypeOK
<1>. QED
  BY <1>2, <1>3, <1>4

-----------------------------------------------------------------------------
(* What the page shows. *)

LEMMA DataIs ==
    ASSUME NEW s \in SearchState, Kept(s, backend)
    PROVE  /\ Passing(s) = Sieved(SearchData(s).results, s.filters)
           /\ IF s.batch \in {"data", "outdated"}
              THEN /\ s.query \notin TooShort
                   /\ SearchData(s) = BatchAt(s.query, s.mode, s.page, backend)
                   /\ SearchData(s).total = MatchTotal(s.query, s.mode)
                   /\ CutOf(SearchData(s).results, Keys(s.query, s.mode, backend),
                            MatchTotal(s.query, s.mode),
                            (ServerPage(s) - 1) * BatchSize(s.mode), BatchSize(s.mode))
              ELSE SearchData(s).total = 0 /\ SearchData(s).results = <<>>
<1>1. Passing(s) = Sieved(SearchData(s).results, s.filters)
  BY DEF Passing, Sieved
<1>2. CASE s.batch \in {"data", "outdated"}
  <2>1. SearchData(s) = BatchAt(s.query, s.mode, s.page, backend)
    BY <1>2, AnswersAre DEF SearchData
  <2>2. BatchAt(s.query, s.mode, s.page, backend).status = 200 /\ s.query \notin TooShort
    BY <1>2 DEF Kept
  <2>3. s.query \in Queries /\ s.mode \in Modes /\ s.page \in 1..MaxPages
    BY DEF SearchState
  <2>4. LET r == BatchAt(s.query, s.mode, s.page, backend)
            batch == BatchSize(s.mode)
        IN /\ r.total = MatchTotal(s.query, s.mode)
           /\ CutOf(r.results, Keys(s.query, s.mode, backend), MatchTotal(s.query, s.mode),
                    (ServerPageFor(s.page, batch) - 1) * batch, batch)
    BY <2>2, <2>3, BatchIs
  <2>. QED
    BY <1>1, <1>2, <2>1, <2>2, <2>4, Zenon DEF ServerPage
<1>3. CASE s.batch \notin {"data", "outdated"}
  <2>1. SearchData(s) = Answer(<<>>, 0)
    BY <1>3 DEF SearchData
  <2>. QED
    BY <1>1, <1>3, <2>1 DEF Answer
<1>. QED
  BY <1>2, <1>3

LEMMA FirstBatch ==
    ASSUME NEW s \in SearchState, s.page <= PagesPerBatch(BatchSize(s.mode)), NEW up
    PROVE  BatchAt(s.query, s.mode, s.page, up) = BatchAt(s.query, s.mode, 1, up)
<1>1. s.mode \in Modes /\ s.page \in 1..MaxPages /\ 1 \in 1..MaxPages
  BY PagerAssumption DEF SearchState
<1>2. ServerPageFor(s.page, BatchSize(s.mode)) = 1
  BY <1>1, PageInBatch
<1>3. 1 <= PagesPerBatch(BatchSize(s.mode))
  <2>1. PICK K, B : Fits(BatchSize(s.mode), K, B)
    BY <1>1, BatchesFit
  <2>. QED
    BY <2>1 DEF Fits
<1>4. ServerPageFor(1, BatchSize(s.mode)) = 1
  BY <1>1, <1>3, PageInBatch
<1>. QED
  BY <1>2, <1>4 DEF BatchAt

LEMMA ShownIs ==
    ASSUME NEW s \in SearchState, Kept(s, backend)
    PROVE  /\ Shown(s) = "no results" =>
                 s.query \notin TooShort /\ s.batch = "data" /\ Passing(s) = <<>>
           /\ Shown(s) = "results" => s.query \notin TooShort /\ s.batch = "data"
<1>1. /\ s.batch = "idle" <=> s.query \in TooShort
      /\ s.batch \in {"idle", "loading", "data", "failed", "outdated"}
  BY DEF Kept, SearchState
<1>2. CASE s.query \in TooShort
  <2>1. Shown(s) = "start"
    BY <1>1, <1>2 DEF Shown
  <2>. QED
    BY <2>1
<1>3. CASE s.query \notin TooShort /\ s.batch \in {"failed", "outdated"}
  <2>1. Shown(s) = "error"
    BY <1>1, <1>3 DEF Shown
  <2>. QED
    BY <2>1
<1>4. CASE s.query \notin TooShort /\ s.batch = "loading"
  <2>1. Shown(s) = "loading"
    BY <1>1, <1>4 DEF Shown
  <2>. QED
    BY <2>1
<1>5. CASE s.query \notin TooShort /\ s.batch = "data"
  <2>1. Passing(s) # <<>> => Shown(s) = "results"
    BY <1>1, <1>5 DEF Shown
  <2>. QED
    BY <1>5, <2>1
<1>. QED
  BY <1>1, <1>2, <1>3, <1>4, <1>5

\* The pager leads to a page there is, or one back.
LEMMA TargetsAre ==
    ASSUME NEW page \in Nat, NEW total \in Nat, NEW p \in PagerTargets(page, total)
    PROVE  p \in Int /\ (p <= total \/ p = page - 1)
<1>. DEFINE half == PagerWidth \div 2
            first == IF total <= PagerWidth \/ page <= half + 1 THEN 1
                     ELSE IF page >= total - half THEN total - PagerWidth + 1
                     ELSE page - half
            shown == Min({total, PagerWidth})
<1>0. PagerWidth \in Nat
  BY PagerAssumption
<1>1. half \in Nat /\ PagerWidth <= 2 * half + 1
  BY <1>0
<1>. HIDE DEF half
<1>2. shown \in Nat /\ shown <= total /\ shown <= PagerWidth
  BY <1>0 DEF Min
<1>3. first \in Int /\ first + shown - 1 <= total
  <2>1. CASE total <= PagerWidth \/ page <= half + 1
    <3>1. first = 1
      BY <1>0, <1>1, <2>1
    <3>. HIDE DEF shown, first
    <3>. QED
      BY <1>2, <3>1
  <2>2. CASE total > PagerWidth /\ page > half + 1 /\ page >= total - half
    <3>1. first = total - PagerWidth + 1
      BY <1>0, <1>1, <2>2
    <3>. HIDE DEF shown, first
    <3>. QED
      BY <1>0, <1>2, <3>1
  <2>3. CASE total > PagerWidth /\ page > half + 1 /\ page < total - half
    <3>1. first = page - half
      BY <1>0, <1>1, <2>3
    <3>. HIDE DEF shown, first
    <3>. QED
      BY <1>0, <1>1, <1>2, <2>3, <3>1
  <2>. QED
    BY <1>0, <1>1, <2>1, <2>2, <2>3
<1>. HIDE DEF first, shown
<1>4. PagerWindow(page, total) = first .. (first + shown - 1)
  BY DEF PagerWindow, first, shown, half
<1>5. \A x \in PagerWindow(page, total) : x \in Int /\ x <= total
  BY <1>2, <1>3, <1>4
<1>6. CASE p \in PagerWindow(page, total)
  BY <1>5, <1>6
<1>7. CASE p \notin PagerWindow(page, total)
  BY <1>7 DEF PagerTargets
<1>. QED
  BY <1>6, <1>7

\* Every page there is has a hit, and a filtered view's are in the first batch.
LEMMA PagesReach ==
    ASSUME NEW s \in SearchState, Kept(s, backend), NEW p \in Nat, p > 1, p <= TotalPages(s)
    PROVE  /\ Reaches([s EXCEPT !.page = p], backend)
           /\ FiltersActive(s) => p <= PagesPerBatch(BatchSize(s.mode))
<1>. DEFINE t == [s EXCEPT !.page = p]
            q == s.query
            mode == s.mode
            data == SearchData(s)
            total == MatchTotal(q, mode)
<1>0. q \in Queries /\ mode \in Modes /\ PerPage \in Nat \ {0} /\ MaxPages \in Nat
  BY PagerAssumption DEF SearchState
<1>1. t.query = q /\ t.mode = mode /\ t.filters = s.filters /\ t.page = p
  BY DEF SearchState
<1>2. FiltersActive(t) <=> FiltersActive(s)
  BY <1>1 DEF FiltersActive
<1>. HIDE DEF t
<1>3. CASE FiltersActive(s)
  <2>. DEFINE m == Len(Passing(s))
  <2>1. TotalPages(s) = LastPage(m, PerPage)
    BY <1>3 DEF TotalPages, PageCount, LastPage
  <2>2. s.batch \in {"data", "outdated"} /\ m \in Nat /\ m <= BatchSize(mode) /\ m > 0
    <3>1. CASE s.batch \in {"data", "outdated"}
      <4>1. CutOf(data.results, Keys(q, mode, backend), total,
                  (ServerPage(s) - 1) * BatchSize(mode), BatchSize(mode))
        BY <3>1, DataIs
      <4>2. Passing(s) = Sieved(data.results, s.filters)
        BY DataIs
      <4>3. Len(data.results) \in Nat /\ Len(data.results) <= BatchSize(mode)
        BY <4>1, Zenon DEF CutOf
      <4>4. Len(Sieved(data.results, s.filters)) \in Nat
            /\ Len(Sieved(data.results, s.filters)) <= Len(data.results)
        BY <4>1, SievedIs
      <4>5. BatchSize(mode) \in Nat
        <5>1. 1 \in 1..MaxPages
          BY PagerAssumption
        <5>. QED
          BY <1>0, <5>1, PageInBatch
      <4>6. m \in Nat /\ m <= BatchSize(mode)
        <5>. HIDE DEF data
        <5>. QED
          BY <4>2, <4>3, <4>4, <4>5
      <4>. HIDE DEF m
      <4>7. p <= LastPage(m, PerPage) <=> (p - 1) * PerPage < m
        BY <1>0, <4>6, PagesAre DEF LastPage
      <4>8. (p - 1) * PerPage < m
        BY <2>1, <4>7
      <4>9. (p - 1) * PerPage \in Nat
        BY <1>0
      <4>. QED
        BY <3>1, <4>6, <4>8, <4>9
    <3>2. CASE s.batch \notin {"data", "outdated"}
      <4>1. data.results = <<>> /\ Passing(s) = Sieved(data.results, s.filters)
        BY <3>2, DataIs
      <4>2. Sieved(<<>>, s.filters) = <<>>
        BY SievedNone
      <4>3. m = 0
        BY <4>1, <4>2
      <4>. HIDE DEF m
      <4>4. p <= LastPage(0, PerPage) <=> (p - 1) * PerPage < 0
        BY <1>0, PagesAre DEF LastPage
      <4>5. (p - 1) * PerPage \in Nat
        BY <1>0
      <4>. QED
        BY <2>1, <4>3, <4>4, <4>5
    <3>. QED
      BY <3>1, <3>2
  <2>3. s.page <= PagesPerBatch(BatchSize(mode))
    BY <1>3 DEF Kept
  <2>4. q \notin TooShort /\ data = BatchAt(q, mode, 1, backend)
    BY <2>2, <2>3, DataIs, FirstBatch
  <2>5. Passing(s) = Sieved(BatchAt(q, mode, 1, backend).results, s.filters)
    BY <2>4, DataIs
  <2>6. Passing(s) # <<>>
    BY <2>2
  <2>7. Reaches(t, backend)
    BY <1>1, <1>2, <1>3, <2>4, <2>5, <2>6 DEF Reaches
  <2>8. p <= PagesPerBatch(BatchSize(mode))
    <3>1. PICK K, B : Fits(BatchSize(mode), K, B)
      BY <1>0, BatchesFit
    <3>2. PagesPerBatch(BatchSize(mode)) = K /\ K \in Nat /\ BatchSize(mode) = PerPage * K
      BY <3>1 DEF Fits
    <3>. HIDE DEF m
    <3>3. p <= LastPage(m, PerPage) <=> (p - 1) * PerPage < m
      BY <1>0, <2>2, PagesAre DEF LastPage
    <3>4. (p - 1) * PerPage < PerPage * K
      <4>. DEFINE x == (p - 1) * PerPage
                  y == PerPage * K
      <4>1. x \in Nat /\ y \in Nat
        BY <1>0, <3>2
      <4>2. x < m /\ m <= y
        BY <2>1, <2>2, <3>2, <3>3
      <4>. HIDE DEF x, y
      <4>3. x < y
        BY <2>2, <4>1, <4>2
      <4>. QED
        BY <4>3 DEF x, y
    <3>5. p - 1 < K
      <4>1. ASSUME p - 1 >= K PROVE FALSE
        <5>1. PerPage * K <= PerPage * (p - 1)
          BY <1>0, <3>2, <4>1, TimesGrows
        <5>2. PerPage * (p - 1) = (p - 1) * PerPage
          BY <1>0
        <5>3. PerPage * K \in Nat /\ (p - 1) * PerPage \in Nat
          BY <1>0, <3>2
        <5>. QED
          BY <3>4, <5>1, <5>2, <5>3
      <4>. QED
        BY <3>2, <4>1
    <3>. QED
      BY <3>2, <3>5
  <2>. QED
    BY <1>3, <2>7, <2>8 DEF t
<1>4. CASE ~FiltersActive(s)
  <2>. DEFINE n == data.total
  <2>1. TotalPages(s) = Min({MaxPages, LastPage(n, PerPage)})
    BY <1>4 DEF TotalPages, PageCountFromTotal, PageCount, LastPage
  <2>2. n \in Nat /\ (n = 0 \/ (n = total /\ q \notin TooShort))
    <3>1. total \in Nat
      BY <1>0, TotalIs
    <3>2. n = 0 \/ (n = total /\ q \notin TooShort)
      BY DataIs
    <3>. HIDE DEF n, total
    <3>. QED
      BY <3>1, <3>2
  <2>. HIDE DEF n, total
  <2>3. LastPage(n, PerPage) \in Nat /\ (p <= LastPage(n, PerPage) <=> (p - 1) * PerPage < n)
    BY <1>0, <2>2, PagesAre DEF LastPage
  <2>4. p <= LastPage(n, PerPage)
    BY <1>0, <2>1, <2>3 DEF Min
  <2>5. (p - 1) * PerPage \in Nat
    BY <1>0
  <2>6. n = total /\ q \notin TooShort
    BY <2>2, <2>3, <2>4, <2>5
  <2>7. Reaches(t, backend)
    BY <1>1, <1>2, <1>4, <2>3, <2>4, <2>6 DEF Reaches, total
  <2>. QED
    BY <1>4, <2>7 DEF t
<1>. QED
  BY <1>3, <1>4

-----------------------------------------------------------------------------
LEMMA FilterInv ==
    ASSUME SearchInd, search # Away,
           \/ \E type \in Types : ToggleType(type)
           \/ \E f \in DOMAIN FacetLabels : \E label \in FacetLabels[f] : ToggleFacet(f, label)
           \/ \E mode \in Modes : ChangeMode(mode)
           \/ \E sort \in Sorts : ChangeSort(sort)
    PROVE  SearchInd'
<1>0. 1 \in 1..MaxPages
  BY PagerAssumption
<1>1. search \in SearchState /\ Kept(search, backend)
  BY DEF SearchInd, SearchTypeOK
<1>t. ~search.timer => search.query = search.input
  BY <1>1 DEF Kept
<1>2. CASE \E type \in Types : ToggleType(type)
  <2>1. PICK type \in Types : ToggleType(type)
    BY <1>2
  <2>. DEFINE types == SymDiff(search.filters.types, {type})
              new == IF types = {} THEN search.filters.types ELSE types
              t == [search EXCEPT !.filters.types = new, !.page = 1]
  <2>2. Render(t)
    BY <2>1 DEF ToggleType
  <2>3. search.filters.types \in (SUBSET Types) \ {{}}
    BY <1>1 DEF SearchState
  <2>4. new \in (SUBSET Types) \ {{}}
    <3>1. types \subseteq Types
      BY <2>3 DEF SymDiff
    <3>. HIDE DEF types
    <3>. QED
      BY <2>3, <3>1
  <2>. HIDE DEF new
  <2>5. t \in SearchState /\ t.page = 1 /\ t.query = search.query /\ t.input = search.input
        /\ t.timer = search.timer
    BY <1>0, <1>1, <2>4 DEF SearchState
  <2>. QED
    BY <1>t, <2>2, <2>5, PageOne
<1>3. CASE \E f \in DOMAIN FacetLabels : \E label \in FacetLabels[f] : ToggleFacet(f, label)
  <2>0. PICK f \in DOMAIN FacetLabels : \E label \in FacetLabels[f] : ToggleFacet(f, label)
    BY <1>3
  <2>1. PICK label \in FacetLabels[f] : ToggleFacet(f, label)
    BY <2>0
  <2>. DEFINE labels == SymDiff(search.filters.facets[f], {label})
              all == SUBSET UNION Range(FacetLabels)
              t == [search EXCEPT !.filters.facets[f] = labels, !.page = 1]
  <2>2. Render(t)
    BY <2>1 DEF ToggleFacet
  <2>3. search.filters.facets \in [DOMAIN FacetLabels -> all]
    BY <1>1 DEF SearchState
  <2>4. labels \in all
    <3>1. label \in UNION Range(FacetLabels)
      BY DEF Range
    <3>2. search.filters.facets[f] \in all
      BY <2>3
    <3>. QED
      BY <3>1, <3>2 DEF SymDiff
  <2>. HIDE DEF labels
  <2>5. [search.filters.facets EXCEPT ![f] = labels] \in [DOMAIN FacetLabels -> all]
    <3>. HIDE DEF all
    <3>. QED
      BY <2>3, <2>4
  <2>. DEFINE facets == [search.filters.facets EXCEPT ![f] = labels]
  <2>6. t = [search EXCEPT !.filters = [search.filters EXCEPT !.facets = facets], !.page = 1]
    OBVIOUS
  <2>. HIDE DEF facets, all
  <2>7. [search.filters EXCEPT !.facets = facets] \in
            [types : (SUBSET Types) \ {{}}, facets : [DOMAIN FacetLabels -> all]]
    <3>1. search.filters \in [types : (SUBSET Types) \ {{}}, facets : [DOMAIN FacetLabels -> all]]
      BY <1>1 DEF SearchState, all
    <3>. QED
      BY <2>5, <3>1 DEF facets
  <2>. DEFINE filters == [search.filters EXCEPT !.facets = facets]
  <2>. HIDE DEF filters
  <2>8. t = [search EXCEPT !.filters = filters, !.page = 1]
    BY <2>6 DEF filters
  <2>. HIDE DEF t
  <2>9. t \in SearchState /\ t.page = 1 /\ t.query = search.query /\ t.input = search.input
        /\ t.timer = search.timer
    BY <1>0, <1>1, <2>7, <2>8 DEF SearchState, filters, all
  <2>. QED
    BY <1>t, <2>2, <2>9, PageOne DEF t
<1>4. CASE \E mode \in Modes : ChangeMode(mode)
  <2>1. PICK mode \in Modes : ChangeMode(mode)
    BY <1>4
  <2>. DEFINE t == [search EXCEPT !.mode = mode, !.page = 1]
  <2>2. Render(t)
    BY <2>1 DEF ChangeMode
  <2>3. t \in SearchState /\ t.page = 1 /\ t.query = search.query /\ t.input = search.input
        /\ t.timer = search.timer
    BY <1>0, <1>1 DEF SearchState
  <2>. QED
    BY <1>t, <2>2, <2>3, PageOne
<1>5. CASE \E sort \in Sorts : ChangeSort(sort)
  <2>1. PICK sort \in Sorts : ChangeSort(sort)
    BY <1>5
  <2>. DEFINE t == [search EXCEPT !.sort = sort]
  <2>2. Render(t)
    BY <2>1 DEF ChangeSort
  <2>3. /\ t \in SearchState /\ t.page = search.page /\ t.query = search.query /\ t.mode = search.mode
        /\ t.filters = search.filters /\ t.own = search.own /\ t.timer = search.timer
        /\ t.input = search.input
    BY <1>1 DEF SearchState
  <2>. QED
    BY <2>2, <2>3, SamePlace
<1>. QED
  BY <1>2, <1>3, <1>4, <1>5

LEMMA GoToPageInv ==
    ASSUME SearchInd, search # Away, NEW page \in 1..MaxPages, GoToPage(page)
    PROVE  SearchInd'
<1>. DEFINE t == [search EXCEPT !.page = page, !.own = TRUE]
            u == [search EXCEPT !.page = page]
<1>0. search \in SearchState /\ Kept(search, backend) /\ PerPage \in Nat \ {0} /\ page \in Nat
      /\ search.page \in Nat /\ page >= 1 /\ search.page >= 1
  BY PagerAssumption DEF SearchInd, SearchTypeOK, SearchState
<1>1. Render(t) /\ page \in PagerTargets(search.page, TotalPages(search)) /\ search.query \notin TooShort
  BY DEF GoToPage
<1>2. /\ t \in SearchState /\ t.own /\ t.query = search.query /\ t.mode = search.mode
      /\ t.filters = search.filters /\ t.page = page /\ t.timer = search.timer
      /\ t.input = search.input
  BY <1>0 DEF SearchState
<1>u. u.query = search.query /\ u.mode = search.mode /\ u.filters = search.filters /\ u.page = page
  BY <1>0 DEF SearchState
<1>. HIDE DEF t, u
<1>3. FiltersActive(t) <=> FiltersActive(search)
  BY <1>2 DEF FiltersActive
<1>4. TotalPages(search) \in Nat
  <2>1. CASE FiltersActive(search)
    <3>1. Len(Passing(search)) \in Nat
      <4>1. CASE search.batch \in {"data", "outdated"}
        <5>1. CutOf(SearchData(search).results, Keys(search.query, search.mode, backend),
                    MatchTotal(search.query, search.mode),
                    (ServerPage(search) - 1) * BatchSize(search.mode), BatchSize(search.mode))
          BY <1>0, <4>1, DataIs
        <5>2. Len(Sieved(SearchData(search).results, search.filters)) \in Nat
          BY <5>1, SievedIs
        <5>3. Passing(search) = Sieved(SearchData(search).results, search.filters)
          BY <1>0, DataIs
        <5>. QED
          BY <5>2, <5>3
      <4>2. CASE search.batch \notin {"data", "outdated"}
        <5>1. Passing(search) = Sieved(<<>>, search.filters)
          BY <1>0, <4>2, DataIs
        <5>2. Len(Sieved(<<>>, search.filters)) \in Nat
          BY SievedNone
        <5>. QED
          BY <5>1, <5>2
      <4>. QED
        BY <4>1, <4>2
    <3>2. TotalPages(search) = LastPage(Len(Passing(search)), PerPage)
      BY <2>1 DEF TotalPages, PageCount, LastPage
    <3>. DEFINE m == Len(Passing(search))
    <3>. HIDE DEF m
    <3>3. LastPage(m, PerPage) \in Nat
      <4>1. m \in Nat /\ 1 \in Nat \ {0}
        BY <3>1 DEF m
      <4>. QED
        BY <1>0, <4>1, PagesAre DEF LastPage
    <3>. QED
      BY <3>2, <3>3 DEF m
  <2>2. CASE ~FiltersActive(search)
    <3>. DEFINE m == SearchData(search).total
    <3>1. TotalPages(search) = Min({MaxPages, LastPage(m, PerPage)})
      BY <2>2 DEF TotalPages, PageCountFromTotal, PageCount, LastPage
    <3>2. m \in Nat
      <4>1. MatchTotal(search.query, search.mode) \in Nat
        <5>1. search.query \in Queries
          BY <1>0 DEF SearchState
        <5>. QED
          BY <5>1, TotalIs
      <4>2. m = 0 \/ m = MatchTotal(search.query, search.mode)
        BY <1>0, DataIs
      <4>. HIDE DEF m
      <4>. QED
        BY <4>1, <4>2
    <3>. HIDE DEF m
    <3>3. LastPage(m, PerPage) \in Nat
      <4>1. 1 \in Nat \ {0}
        OBVIOUS
      <4>. QED
        BY <1>0, <3>2, <4>1, PagesAre DEF LastPage
    <3>. QED
      BY <3>1, <3>3, PagerAssumption DEF Min
  <2>. QED
    BY <2>1, <2>2
<1>5. page <= TotalPages(search) \/ page = search.page - 1
  BY <1>0, <1>1, <1>4, TargetsAre
<1>6. FiltersActive(t) => t.page <= PagesPerBatch(BatchSize(t.mode))
  <2>. SUFFICES ASSUME FiltersActive(search) PROVE page <= PagesPerBatch(BatchSize(search.mode))
    BY <1>2, <1>3
  <2>0. search.page <= PagesPerBatch(BatchSize(search.mode))
        /\ PagesPerBatch(BatchSize(search.mode)) \in Nat /\ 1 <= PagesPerBatch(BatchSize(search.mode))
    <3>1. search.mode \in Modes
      BY <1>0 DEF SearchState
    <3>2. PICK K, B : Fits(BatchSize(search.mode), K, B)
      BY <3>1, BatchesFit
    <3>3. PagesPerBatch(BatchSize(search.mode)) = K /\ K \in Nat \ {0}
      BY <3>2 DEF Fits
    <3>. QED
      BY <1>0, <3>3 DEF Kept
  <2>1. CASE page = 1
    BY <2>0, <2>1
  <2>2. CASE page > 1 /\ page <= TotalPages(search)
    BY <1>0, <2>2, PagesReach
  <2>3. CASE page = search.page - 1
    <3>. DEFINE k == PagesPerBatch(BatchSize(search.mode))
    <3>. HIDE DEF k
    <3>1. search.page <= k /\ k \in Nat
      BY <2>0 DEF k
    <3>2. page <= k
      BY <1>0, <2>3, <3>1
    <3>. QED
      BY <3>2 DEF k
  <2>. QED
    BY <1>0, <1>5, <2>1, <2>2, <2>3
<1>7. ASSUME ~t.timer, t.page > 1
      PROVE  t.own /\ Context(t) = Context(search) /\ Reaches(t, backend)
  <2>1. Context(t) = Context(search)
    BY <1>2 DEF Context
  <2>2. Reaches(t, backend)
    <3>1. CASE page <= TotalPages(search)
      <4>1. Reaches(u, backend)
        BY <1>0, <1>2, <1>7, <3>1, PagesReach DEF u
      <4>. QED
        BY <1>2, <1>u, <4>1, ReachesSame
    <3>2. CASE page = search.page - 1
      <4>1. search.page > 1 /\ ~search.timer
        BY <1>0, <1>2, <1>7, <3>2
      <4>2. Reaches(search, backend)
        BY <1>0, <4>1 DEF Kept
      <4>3. CASE FiltersActive(search)
        BY <1>2, <1>3, <4>2, <4>3 DEF Reaches
      <4>4. CASE ~FiltersActive(search)
        <5>. DEFINE total == MatchTotal(search.query, search.mode)
        <5>1. total \in Nat
          <6>1. search.query \in Queries
            BY <1>0 DEF SearchState
          <6>. QED
            BY <6>1, TotalIs
        <5>2. (search.page - 1) * PerPage < total
          BY <4>2, <4>4 DEF Reaches
        <5>. HIDE DEF total
        <5>3. (page - 1) * PerPage < total
          <6>1. (page - 1) * PerPage = (search.page - 1) * PerPage - PerPage
            BY <1>0, <3>2
          <6>2. (search.page - 1) * PerPage \in Nat /\ (page - 1) * PerPage \in Nat
            BY <1>0
          <6>. QED
            BY <1>0, <5>1, <5>2, <6>1, <6>2
        <5>. QED
          BY <1>2, <1>3, <4>2, <4>4, <5>3 DEF Reaches, total
      <4>. QED
        BY <4>3, <4>4
    <3>. QED
      BY <1>5, <3>1, <3>2
  <2>. QED
    BY <1>2, <2>1, <2>2
<1>8. ~t.timer => t.query = t.input
  BY <1>0, <1>2 DEF Kept
<1>. QED
  BY <1>1, <1>2, <1>6, <1>7, <1>8, RenderInv

LEMMA DefaultIs ==
    /\ DefaultFilters \in [types : (SUBSET Types) \ {{}},
                           facets : [DOMAIN FacetLabels -> SUBSET UNION Range(FacetLabels)]]
    /\ \A s : s.filters = DefaultFilters => ~FiltersActive(s)
<1>1. Types \in (SUBSET Types) \ {{}}
  BY DEF Types
<1>2. NoFacets \in [DOMAIN FacetLabels -> SUBSET UNION Range(FacetLabels)]
  BY DEF NoFacets
<1>3. \A s : s.filters = DefaultFilters => ~FiltersActive(s)
  BY DEF FiltersActive
<1>. QED
  BY <1>1, <1>2, <1>3 DEF DefaultFilters

LEMMA ClearFiltersInv ==
    ASSUME SearchInd, search # Away, ClearFilters
    PROVE  SearchInd'
<1>0. search \in SearchState /\ Kept(search, backend) /\ 1 \in 1..MaxPages
  BY PagerAssumption DEF SearchInd, SearchTypeOK
<1>1. FiltersActive(search)
  BY DEF ClearFilters
<1>2. CASE Render([search EXCEPT !.filters = DefaultFilters, !.page = 1])
  <2>. DEFINE t == [search EXCEPT !.filters = DefaultFilters, !.page = 1]
  <2>1. t \in SearchState /\ t.page = 1 /\ t.query = search.query /\ t.input = search.input
        /\ t.timer = search.timer
    <3>. DEFINE filters == DefaultFilters
    <3>1. filters \in [types : (SUBSET Types) \ {{}},
                       facets : [DOMAIN FacetLabels -> SUBSET UNION Range(FacetLabels)]]
      BY DefaultIs
    <3>. HIDE DEF filters
    <3>2. [search EXCEPT !.filters = filters, !.page = 1] \in SearchState
      BY <1>0, <3>1 DEF SearchState
    <3>. QED
      BY <1>0, <3>2 DEF SearchState, filters
  <2>2. ~t.timer => t.query = t.input
    BY <1>0, <2>1 DEF Kept
  <2>. QED
    BY <1>2, <2>1, <2>2, PageOne
<1>3. CASE Shown(search) = "no results" /\ Render([search EXCEPT !.filters = DefaultFilters])
  <2>. DEFINE filters == DefaultFilters
              t == [search EXCEPT !.filters = filters]
  <2>1. filters \in [types : (SUBSET Types) \ {{}},
                     facets : [DOMAIN FacetLabels -> SUBSET UNION Range(FacetLabels)]]
    BY DefaultIs
  <2>2. Render(t)
    BY <1>3
  <2>. HIDE DEF filters
  <2>3. t \in SearchState /\ t.page = search.page /\ t.query = search.query /\ t.input = search.input
        /\ t.timer = search.timer /\ t.filters = filters /\ search.page \in 1..MaxPages
    BY <1>0, <2>1 DEF SearchState
  <2>4. ~FiltersActive(t)
    <3>. HIDE DEF t
    <3>. QED
      BY <2>3, DefaultIs DEF filters
  <2>5. search.query \notin TooShort /\ search.batch = "data" /\ Passing(search) = <<>>
    BY <1>0, <1>3, ShownIs
  <2>6. search.timer \/ ~(search.page > 1)
    <3>. SUFFICES ASSUME ~search.timer, search.page > 1 PROVE FALSE
      OBVIOUS
    <3>1. Reaches(search, backend) /\ search.page <= PagesPerBatch(BatchSize(search.mode))
      BY <1>0, <1>1 DEF Kept
    <3>2. Sieved(BatchAt(search.query, search.mode, 1, backend).results, search.filters) # <<>>
      BY <1>1, <3>1 DEF Reaches
    <3>3. /\ Passing(search) = Sieved(SearchData(search).results, search.filters)
          /\ SearchData(search) = BatchAt(search.query, search.mode, search.page, backend)
      BY <1>0, <2>5, DataIs
    <3>4. BatchAt(search.query, search.mode, search.page, backend)
              = BatchAt(search.query, search.mode, 1, backend)
      BY <1>0, <3>1, FirstBatch
    <3>. QED
      BY <2>5, <3>2, <3>3, <3>4
  <2>7. ~t.timer => t.query = t.input
    BY <1>0, <2>3 DEF Kept
  <2>8. ~(~t.timer /\ t.page > 1)
    BY <2>3, <2>6
  <2>. HIDE DEF t
  <2>. QED
    BY <2>2, <2>3, <2>4, <2>7, <2>8, RenderInv
<1>. QED
  BY <1>2, <1>3 DEF ClearFilters

LEMMA RetryInv ==
    ASSUME SearchInd, search # Away, RetrySearch
    PROVE  SearchInd'
<1>. DEFINE t == [search EXCEPT !.query = search.input]
<1>0. search \in SearchState /\ Kept(search, backend)
  BY DEF SearchInd, SearchTypeOK
<1>1. Render(t)
  BY DEF RetrySearch
<1>2. /\ t \in SearchState /\ t.page = search.page /\ t.query = search.input /\ t.mode = search.mode
      /\ t.filters = search.filters /\ t.own = search.own /\ t.timer = search.timer
      /\ t.input = search.input /\ search.timer \in BOOLEAN
  BY <1>0 DEF SearchState
<1>3. ~search.timer => search.query = search.input
  BY <1>0 DEF Kept
<1>. HIDE DEF t
<1>4. CASE search.timer
  BY <1>1, <1>2, <1>4, TimerLeft
<1>5. CASE ~search.timer
  <2>1. t.query = search.query
    BY <1>2, <1>3, <1>5
  <2>. QED
    BY <1>1, <1>2, <1>5, <2>1, SamePlace
<1>. QED
  BY <1>4, <1>5

LEMMA SettlesInv ==
    ASSUME SearchInd, search # Away, SearchSettles
    PROVE  SearchInd'
<1>0. search \in SearchState /\ Kept(search, backend) /\ address \in Queries
  BY DEF SearchInd, SearchTypeOK
<1>1. PICK b : /\ search' = [search EXCEPT !.batch = b]
               /\ \/ b = IF SearchAnswer(search).status = 200 THEN "data" ELSE "failed"
                  \/ b = IF search.batch \in {"loading", "failed"} THEN "failed" ELSE "outdated"
  BY DEF SearchSettles
<1>2. address' = address /\ backend' = backend /\ search.batch # "idle"
  BY DEF SearchSettles
<1>3. b \in {"data", "failed", "outdated"}
  BY <1>1
<1>4. /\ search' \in SearchState /\ search'.page = search.page /\ search'.query = search.query
      /\ search'.mode = search.mode /\ search'.filters = search.filters /\ search'.own = search.own
      /\ search'.timer = search.timer /\ search'.input = search.input /\ search'.batch = b
  BY <1>0, <1>1, <1>3 DEF SearchState
<1>5. b = "data" => BatchAt(search.query, search.mode, search.page, backend).status = 200
  <2>1. SearchAnswer(search) = BatchAt(search.query, search.mode, search.page, backend)
    BY AnswersAre
  <2>. QED
    BY <1>1, <2>1
<1>6. b = "outdated" => search.batch \in {"data", "outdated"}
  BY <1>0, <1>1, <1>2 DEF SearchState
<1>. QED
  <2>1. Reaches(search', backend) <=> Reaches(search, backend)
    BY <1>4, ReachesSame
  <2>2. FiltersActive(search') <=> FiltersActive(search)
    BY <1>4 DEF FiltersActive
  <2>3. b \in {"data", "outdated"} =>
           BatchAt(search.query, search.mode, search.page, backend).status = 200
    BY <1>0, <1>5, <1>6 DEF Kept
  <2>4. Kept(search', backend)
    BY <1>0, <1>2, <1>3, <1>4, <2>1, <2>2, <2>3 DEF Kept
  <2>. QED
    BY <1>0, <1>2, <1>4, <2>4 DEF SearchInd, SearchTypeOK

LEMMA MountSearchInv ==
    ASSUME SearchInd, MountSearch
    PROVE  SearchInd'
<1>. DEFINE filters == DefaultFilters
            fresh(q) == [input |-> q, query |-> q, mode |-> "fulltext", sort |-> "relevance",
                         page |-> 1, filters |-> filters, timer |-> TRUE,
                         dropdown |-> FALSE, active |-> 0, hint |-> FALSE,
                         batch |-> "idle", own |-> FALSE]
<1>0. address \in Queries /\ Blank \in Queries /\ search = Away
      /\ 1 \in 1..MaxPages /\ 0 \in 0..HintLimit
  BY PagerAssumption, WindowAssumption DEF SearchInd, SearchTypeOK, MountSearch
<1>1. PICK q \in {address, Blank} : \E b \in BatchOf(fresh(q)) : search' = [fresh(q) EXCEPT !.batch = b]
  BY DEF MountSearch
<1>2. PICK b \in BatchOf(fresh(q)) : search' = [fresh(q) EXCEPT !.batch = b]
  BY <1>1
<1>3. address' = address /\ backend' = backend
  BY DEF MountSearch
<1>4. filters \in [types : (SUBSET Types) \ {{}},
                   facets : [DOMAIN FacetLabels -> SUBSET UNION Range(FacetLabels)]]
  BY DefaultIs
<1>. HIDE DEF filters
<1>5. fresh(q) \in SearchState
  BY <1>0, <1>4 DEF SearchState, Modes, Sorts
<1>6. b \in {"idle", "loading", "data", "failed", "outdated"}
  BY <1>5, BatchesAre DEF SearchInd
<1>7. /\ b = "idle" <=> fresh(q).query \in TooShort
      /\ b \in {"data", "outdated"} =>
            BatchAt(fresh(q).query, fresh(q).mode, fresh(q).page, backend).status = 200
  BY <1>5, BatchKept
<1>. DEFINE t == fresh(q)
<1>8. t.page = 1 /\ t.timer /\ t.filters = filters
  OBVIOUS
<1>9. search' = [t EXCEPT !.batch = b]
  BY <1>2
<1>. HIDE DEF fresh, t
<1>10. /\ search' \in SearchState /\ search'.page = 1 /\ search'.query = t.query /\ search'.mode = t.mode
       /\ search'.filters = filters /\ search'.timer /\ search'.batch = b
  <2>1. t \in SearchState
    BY <1>5 DEF t
  <2>. QED
    BY <1>6, <1>8, <1>9, <2>1 DEF SearchState
<1>11. ~FiltersActive(search')
  BY <1>10, DefaultIs DEF filters
<1>12. Kept(search', backend)
  <2>1. /\ b = "idle" <=> t.query \in TooShort
        /\ b \in {"data", "outdated"} => BatchAt(t.query, t.mode, 1, backend).status = 200
    BY <1>7, <1>8 DEF t
  <2>. QED
    BY <1>10, <1>11, <2>1 DEF Kept
<1>. QED
  BY <1>0, <1>3, <1>10, <1>12 DEF SearchInd, SearchTypeOK

LEMMA AwayInv ==
    ASSUME SearchInd, search' = Away, address' = address
    PROVE  SearchInd'
BY DEF SearchInd, SearchTypeOK

LEMMA SearchStepInv == SearchInd /\ [SearchNext]_searchVars => SearchInd'
<1>. SUFFICES ASSUME SearchInd, [SearchNext]_searchVars PROVE SearchInd'
  OBVIOUS
<1>1. CASE MountSearch
  BY <1>1, MountSearchInv
<1>2. CASE search # Away /\ ~MountSearch /\ SearchNext
  <2>1. CASE \/ \E q \in Queries : TypeQuery(q)
             \/ \E q \in Suggested : Suggest(q)
             \/ Debounced \/ Submit \/ ClearInput
    BY <1>2, <2>1, TypingInv
  <2>2. CASE FocusInput \/ CloseDropdown \/ ArrowDown \/ ArrowUp \/ HintArrives
    BY <1>2, <2>2, DropdownInv
  <2>3. CASE \/ \E type \in Types : ToggleType(type)
             \/ \E f \in DOMAIN FacetLabels : \E label \in FacetLabels[f] : ToggleFacet(f, label)
             \/ \E mode \in Modes : ChangeMode(mode)
             \/ \E sort \in Sorts : ChangeSort(sort)
    BY <1>2, <2>3, FilterInv
  <2>4. CASE \E page \in 1..MaxPages : GoToPage(page)
    BY <1>2, <2>4, GoToPageInv
  <2>5. CASE ClearFilters
    BY <1>2, <2>5, ClearFiltersInv
  <2>6. CASE RetrySearch
    BY <1>2, <2>6, RetryInv
  <2>7. CASE SearchSettles
    BY <1>2, <2>7, SettlesInv
  <2>8. CASE Enter \/ ClickSuggestion \/ ClickResult \/ LeaveSearch
    <3>1. search' = Away /\ address' = address
      BY <2>8 DEF Enter, ClickSuggestion, ClickResult, LeaveSearch, OpenHit
    <3>. QED
      BY <3>1, AwayInv
  <2>. QED
    BY <1>2, <2>1, <2>2, <2>3, <2>4, <2>5, <2>6, <2>7, <2>8 DEF SearchNext
<1>3. CASE UNCHANGED searchVars
  BY <1>3 DEF SearchInd, SearchTypeOK, searchVars
<1>. QED
  BY <1>1, <1>2, <1>3 DEF SearchNext

LEMMA SearchInitInv == SearchInit => SearchInd
BY WindowAssumption DEF SearchInit, SearchInd, SearchTypeOK

\* A page without a hit before which the results end is the first.
LEMMA NothingLeft ==
    ASSUME NEW mode \in Modes, NEW page \in 1..MaxPages, NEW total \in Nat,
           ~((ServerPageFor(page, BatchSize(mode)) - 1) * BatchSize(mode) + 1 <= total),
           page > 1 => (page - 1) * PerPage < total
    PROVE  total = 0
<1>. DEFINE batch == BatchSize(mode)
            sp == ServerPageFor(page, batch)
            lp == LocalPageFor(page, batch)
            begins == (sp - 1) * batch
            within == (lp - 1) * PerPage
            left == (page - 1) * PerPage
<1>0. ~(begins + 1 <= total) /\ (page > 1 => left < total)
  OBVIOUS
<1>1. PICK K, B : Fits(batch, K, B)
  BY BatchesFit
<1>2. /\ sp \in Nat /\ sp >= 1 /\ lp \in Nat /\ lp >= 1 /\ lp <= K
      /\ page = (K * (sp - 1)) + lp
  BY <1>1, PageIs
<1>3. PerPage \in Nat \ {0} /\ K \in Nat \ {0} /\ batch = PerPage * K
  BY <1>1, PagerAssumption DEF Fits
<1>. HIDE DEF batch, sp, lp
<1>4. begins \in Nat /\ left \in Nat /\ within \in Nat /\ left = begins + within
  <2>. DEFINE p == (K * (sp - 1)) + lp
              b == PerPage * K
  <2>1. sp \in Nat \ {0} /\ lp \in 1..K
    BY <1>2, <1>3
  <2>2. /\ (sp - 1) * b \in Nat /\ (p - 1) * PerPage \in Nat /\ within \in Nat
        /\ (p - 1) * PerPage = ((sp - 1) * b) + within
    BY <1>3, <2>1, PlaceOf
  <2>3. b = batch /\ p = page
    BY <1>2, <1>3
  <2>. QED
    BY <2>2, <2>3, Zenon
<1>5. page = 1 => left = 0
  BY <1>3
<1>. HIDE DEF begins, within, left
<1>. QED
  BY <1>0, <1>4, <1>5

\* One is above the length of an empty batch.
LEMMA NoneIsLess == ~(1 <= 0)
  OBVIOUS

LEMMA SearchIndGives == SearchInd => SearchInv
<1>. SUFFICES ASSUME SearchInd PROVE SearchInv
  OBVIOUS
<1>1. SearchTypeOK
  BY DEF SearchInd
<1>2. ASSUME search # Away
      PROVE  search \in SearchState /\ Kept(search, backend) /\ search.mode \in Modes
             /\ search.page \in 1..MaxPages /\ search.query \in Queries
  BY <1>2 DEF SearchInd, SearchTypeOK, SearchState
<1>3. WindowNeverTrips
  BY <1>2, PageInBatch DEF WindowNeverTrips, ServerPage
<1>4. FilteredOnBatchOne
  <2>. SUFFICES ASSUME search # Away, FiltersActive(search) PROVE ServerPage(search) = 1
    BY DEF FilteredOnBatchOne
  <2>1. search.page <= PagesPerBatch(BatchSize(search.mode))
    BY <1>2 DEF Kept
  <2>. QED
    BY <1>2, <2>1, PageInBatch DEF ServerPage
<1>5. PageOwnsContext
  BY <1>2 DEF PageOwnsContext, Kept
<1>6. EmptyIsTrue
  <2>. SUFFICES ASSUME search # Away, Shown(search) = "no results", search.filters = DefaultFilters,
                       search.page > 1 => (search.page - 1) * PerPage
                                              < MatchTotal(search.query, search.mode)
                PROVE  SearchData(search).total = 0
    BY <1>2 DEF EmptyIsTrue, Kept, Reaches, FiltersActive
  <2>. DEFINE batch == BatchSize(search.mode)
              total == MatchTotal(search.query, search.mode)
              hits == SearchData(search).results
              sp == ServerPage(search)
              lp == LocalPageFor(search.page, batch)
  <2>1. search.batch = "data" /\ Passing(search) = <<>>
    BY <1>2, ShownIs
  <2>2. /\ SearchData(search).total = total
        /\ CutOf(hits, Keys(search.query, search.mode, backend), total, (sp - 1) * batch, batch)
        /\ Passing(search) = Sieved(hits, search.filters)
    BY <1>2, <2>1, DataIs
  <2>3. total \in Nat
    BY <1>2, TotalIs
  <2>4. Len(hits) = 0
    <3>2. /\ Sieved(hits, search.filters) = <<>> <=> Len(Sieved(hits, search.filters)) = 0
          /\ Len(Sieved(hits, search.filters)) = Len(hits)
      BY <2>2, SievedIs
    <3>. QED
      BY <2>1, <2>2, <3>2
  <2>5. batch \in Nat \ {0}
    BY <1>2, PageInBatch
  <2>6. 1 <= Len(hits) <=> (sp - 1) * batch + 1 <= total
    <3>. HIDE DEF batch
    <3>1. 1 \in 1..batch
      BY ONLY <2>5
    <3>. QED
      BY <2>2, <3>1, Zenon DEF CutOf
  <2>7. ~((sp - 1) * batch + 1 <= total)
    <3>. HIDE DEF hits, sp, batch, total
    <3>. QED
      BY <2>4, <2>6, NoneIsLess, Zenon
  <2>8. total = 0
    <3>. HIDE DEF total
    <3>1. total \in Nat
      BY <2>3
    <3>2. search.page > 1 => (search.page - 1) * PerPage < total
      BY DEF total
    <3>. QED
      BY <1>2, <2>7, <3>1, <3>2, NothingLeft, Zenon DEF ServerPage
  <2>. QED
    BY <2>2, <2>8
<1>. QED
  BY <1>1, <1>3, <1>4, <1>5, <1>6 DEF SearchInv

THEOREM SearchInvariant == SearchSpec => []SearchInv
<1>. QED
  BY SearchInitInv, SearchStepInv, SearchIndGives, PTL DEF SearchSpec

-----------------------------------------------------------------------------
(* Every match on one page: the batches cut up what the merge lists, each   *)
(* batch is sorted in itself, and the display pages cut up each batch.      *)

\* A list of total in batches of P * K, each of which is put in an order of its own.
Batched(n, pi, P, K, B, total) ==
    \A sp \in 1..B :
        /\ n[sp] \in Nat /\ n[sp] <= P * K /\ Permutes(pi[sp], n[sp])
        /\ \A j \in 1..(P * K) : j <= n[sp] <=> ((sp - 1) * (P * K)) + j <= total

\* Place p of the list is at place j of page lp of batch sp.
LiesAt(p, n, pi, P, K, sp, lp, j) ==
    /\ ((lp - 1) * P) + j <= n[sp]
    /\ ((sp - 1) * (P * K)) + pi[sp][((lp - 1) * P) + j] = p

\* A number from 1 on, by the block it is in and its place there.
LEMMA Block ==
    ASSUME NEW d \in Nat \ {0}, NEW c \in Nat, NEW p \in 1..(d * c)
    PROVE  \E u \in 1..c, r \in 1..d : ((u - 1) * d) + r = p
<1>. DEFINE x == (p - 1) \div d
            y == (p - 1) % d
<1>1. d * c \in Nat /\ p - 1 \in Nat /\ p <= d * c
  OBVIOUS
<1>2. x \in Nat /\ y \in Nat /\ y < d /\ p - 1 = (d * x) + y
  BY <1>1, Euclid
<1>. HIDE DEF x, y
<1>3. x < c
  <2>1. d * x < d * c
    BY <1>1, <1>2
  <2>. QED
    BY <1>2, <2>1
<1>4. ((x + 1) - 1) * d + (y + 1) = p
  BY <1>1, <1>2
<1>5. x + 1 \in 1..c /\ y + 1 \in 1..d
  BY <1>2, <1>3
<1>. QED
  BY <1>4, <1>5

LEMMA SameBlock ==
    ASSUME NEW d \in Nat \ {0}, NEW u \in Nat \ {0}, NEW v \in Nat \ {0}, NEW r \in 1..d,
           NEW t \in 1..d, ((u - 1) * d) + r = ((v - 1) * d) + t
    PROVE  u = v /\ r = t
<1>. DEFINE a == u - 1
            b == v - 1
            x == r - 1
            y == t - 1
<1>1. /\ a \in Nat /\ b \in Nat /\ x \in Nat /\ y \in Nat /\ x < d /\ y < d
      /\ u = a + 1 /\ v = b + 1 /\ r = x + 1 /\ t = y + 1
      /\ (a * d) + r = (b * d) + t
  OBVIOUS
<1>. HIDE DEF a, b, x, y
<1>. DEFINE n == (d * a) + x
<1>2. n \in Nat /\ n = (d * b) + y
  BY <1>1
<1>3. n = (d * a) + x
  OBVIOUS
<1>. HIDE DEF n
<1>4. n \div d = a /\ n % d = x
  BY <1>1, <1>2, <1>3, Quotient
<1>5. n \div d = b /\ n % d = y
  BY <1>1, <1>2, Quotient
<1>. QED
  BY <1>1, <1>4, <1>5

LEMMA LiesSomewhere ==
    ASSUME NEW P \in Nat \ {0}, NEW K \in Nat \ {0}, NEW B \in Nat \ {0}, NEW total \in Nat,
           total <= (P * K) * B, NEW n, NEW pi, Batched(n, pi, P, K, B, total), NEW p \in 1..total
    PROVE  \E sp \in 1..B, lp \in 1..K, j \in 1..P : LiesAt(p, n, pi, P, K, sp, lp, j)
<1>. DEFINE d == P * K
<1>1. d \in Nat \ {0} /\ d * B \in Nat /\ p \in 1..(d * B)
  OBVIOUS
<1>2. \E sp \in 1..B, r \in 1..d : ((sp - 1) * d) + r = p
  <2>. HIDE DEF d
  <2>1. B \in Nat
    OBVIOUS
  <2>2. \A c \in Nat : \A q \in 1..(d * c) : \E u \in 1..c, r \in 1..d : ((u - 1) * d) + r = q
    BY <1>1, Block
  <2>3. p \in 1..(d * B)
    BY <1>1
  <2>. QED
    BY <2>1, <2>2, <2>3, Zenon
<1>3. PICK sp \in 1..B : \E r \in 1..d : ((sp - 1) * d) + r = p
  BY <1>2, Zenon
<1>4. PICK r \in 1..d : ((sp - 1) * d) + r = p
  BY <1>3, Zenon
<1>5. /\ n[sp] \in Nat /\ n[sp] <= d /\ Permutes(pi[sp], n[sp])
      /\ \A j \in 1..d : j <= n[sp] <=> ((sp - 1) * d) + j <= total
  BY Zenon DEF Batched
<1>6. r \in 1..n[sp]
  <2>. HIDE DEF d
  <2>1. ((sp - 1) * d) + r <= total
    BY <1>4
  <2>. QED
    BY <1>1, <1>4, <1>5, <2>1
<1>7. PICK k \in 1..n[sp] : pi[sp][k] = r
  BY <1>5, <1>6, Zenon DEF Permutes
<1>8. \E lp \in 1..K, j \in 1..P : ((lp - 1) * P) + j = k
  <2>1. k \in 1..(P * K)
    BY <1>1, <1>5
  <2>. QED
    BY <2>1, Block
<1>9. PICK lp \in 1..K : \E j \in 1..P : ((lp - 1) * P) + j = k
  BY <1>8, Zenon
<1>10. PICK j \in 1..P : ((lp - 1) * P) + j = k
  BY <1>9, Zenon
<1>11. k <= n[sp]
  BY <1>5
<1>12. LiesAt(p, n, pi, P, K, sp, lp, j)
  BY <1>4, <1>7, <1>10, <1>11, Zenon DEF LiesAt
<1>. QED
  BY <1>12, Zenon

LEMMA LiesOnce ==
    ASSUME NEW P \in Nat \ {0}, NEW K \in Nat \ {0}, NEW B \in Nat \ {0}, NEW total \in Nat,
           NEW n, NEW pi, Batched(n, pi, P, K, B, total), NEW p,
           NEW sp \in 1..B, NEW lp \in 1..K, NEW j \in 1..P, LiesAt(p, n, pi, P, K, sp, lp, j),
           NEW sq \in 1..B, NEW lq \in 1..K, NEW i \in 1..P, LiesAt(p, n, pi, P, K, sq, lq, i)
    PROVE  sp = sq /\ lp = lq /\ j = i
<1>. DEFINE d == P * K
            k == ((lp - 1) * P) + j
            l == ((lq - 1) * P) + i
<1>1. d \in Nat \ {0}
  OBVIOUS
<1>2. k \in Nat /\ k >= 1 /\ l \in Nat /\ l >= 1
  <2>1. (lp - 1) * P \in Nat /\ (lq - 1) * P \in Nat
    OBVIOUS
  <2>. QED
    BY <2>1
<1>3. /\ k <= n[sp] /\ ((sp - 1) * d) + pi[sp][k] = p
      /\ l <= n[sq] /\ ((sq - 1) * d) + pi[sq][l] = p
  BY Zenon DEF LiesAt
<1>4. /\ n[sp] \in Nat /\ n[sp] <= d /\ Permutes(pi[sp], n[sp])
      /\ n[sq] \in Nat /\ n[sq] <= d /\ Permutes(pi[sq], n[sq])
  BY Zenon DEF Batched
<1>. HIDE DEF d, k, l
<1>5. k \in 1..n[sp] /\ l \in 1..n[sq]
  BY <1>2, <1>3, <1>4
<1>6. pi[sp][k] \in 1..n[sp] /\ pi[sq][l] \in 1..n[sq]
  BY <1>4, <1>5 DEF Permutes
<1>7. pi[sp][k] \in 1..d /\ pi[sq][l] \in 1..d
  BY <1>1, <1>4, <1>6
<1>8. sp = sq /\ pi[sp][k] = pi[sq][l]
  <2>1. sp \in Nat \ {0} /\ sq \in Nat \ {0}
    OBVIOUS
  <2>2. ((sp - 1) * d) + pi[sp][k] = ((sq - 1) * d) + pi[sq][l]
    BY <1>3, Zenon
  <2>. DEFINE r == pi[sp][k]
              t == pi[sq][l]
  <2>3. r \in 1..d /\ t \in 1..d /\ ((sp - 1) * d) + r = ((sq - 1) * d) + t
    BY <1>7, <2>2, Zenon
  <2>. HIDE DEF r, t
  <2>4. sp = sq /\ r = t
    BY <1>1, <2>1, <2>3, SameBlock
  <2>. QED
    BY <2>4 DEF r, t
<1>9. k = l
  <2>1. \A a, b \in 1..n[sp] : pi[sp][a] = pi[sp][b] => a = b
    BY <1>4, Zenon DEF Permutes
  <2>. QED
    BY <1>5, <1>8, <2>1, Zenon
<1>10. lp = lq /\ j = i
  <2>1. lp \in Nat \ {0} /\ lq \in Nat \ {0}
    OBVIOUS
  <2>2. ((lp - 1) * P) + j = ((lq - 1) * P) + i
    BY <1>9 DEF k, l
  <2>. QED
    BY <2>1, <2>2, SameBlock
<1>. QED
  BY <1>8, <1>10

\* Where one page of a result set is answered, every page is.
LEMMA EveryPageAnswered ==
    ASSUME NEW q \in Queries, q \notin TooShort, NEW mode \in Modes, NEW up,
           NEW here \in 1..MaxPages, BatchAt(q, mode, here, up).status = 200,
           NEW page \in 1..MaxPages
    PROVE  BatchAt(q, mode, page, up).status = 200
<1>. DEFINE batch == BatchSize(mode)
            sp == ServerPageFor(page, batch)
            sh == ServerPageFor(here, batch)
<1>1. /\ sp \in Nat \ {0} /\ batch \in Nat \ {0} /\ InWindow(sp, batch) /\ InWindow(sh, batch)
      /\ q # Blank
  BY PageInBatch, PagerAssumption
<1>2. BatchAt(q, mode, page, up) = AskAt(q, mode, batch, sp, up)
      /\ BatchAt(q, mode, here, up) = AskAt(q, mode, batch, sh, up)
  BY DEF BatchAt
<1>. HIDE DEF batch, sp, sh
<1>3. CASE mode = "semantic"
  <2>1. AskAt(q, mode, batch, sp, up) = Semantic(q, sp, batch, up.provisioned)
        /\ AskAt(q, mode, batch, sh, up) = Semantic(q, sh, batch, up.provisioned)
    BY <1>3 DEF AskAt
  <2>2. Semantic(q, sh, batch, up.provisioned).status = 200
    BY <1>2, <2>1
  <2>3. Unavailable.status # 200
    BY DEF Unavailable
  <2>4. up.provisioned
    BY <1>1, <2>2, <2>3, Zenon DEF Semantic
  <2>5. Semantic(q, sp, batch, up.provisioned)
            = Answer(HadithHits(Similarity(Window(Found[q].near, sp, batch))), Len(Found[q].near))
    BY <1>1, <2>4, Zenon DEF Semantic
  <2>6. Semantic(q, sp, batch, up.provisioned).status = 200
    BY <2>5 DEF Answer
  <2>. QED
    BY <1>2, <2>1, <2>6
<1>4. CASE mode # "semantic"
  <2>1. AskAt(q, mode, batch, sp, up) = Fulltext(q, sp, batch, up.indexed)
    BY <1>4 DEF AskAt
  <2>2. LET x == Fulltext(q, sp, batch, up.indexed)
        IN /\ x.status = 200
           /\ x.total = Len(Found[q].narrators) + Len(Found[q].hadiths)
           /\ CutOf(x.results, FulltextKeys(q, up.indexed), x.total, (sp - 1) * batch, batch)
    BY <1>1, FulltextIs
  <2>3. Fulltext(q, sp, batch, up.indexed).status = 200
    BY <2>2, Zenon
  <2>. QED
    BY <1>2, <2>1, <2>3
<1>. QED
  BY <1>3, <1>4

\* A batch of a search, its hits as they pass where no filter is set, and one way
\* in which sorting them permutes them.
Hits(s, sp, up) == AskAt(s.query, s.mode, BatchSize(s.mode), sp, up).results

Unsorted(s, sp, up) == Sieved(Hits(s, sp, up), DefaultFilters)

Sorting(s, sp, up) ==
    CHOOSE pi : /\ Permutes(pi, Len(Hits(s, sp, up)))
                /\ \A k \in 1..Len(Hits(s, sp, up)) :
                       SortedBy(Unsorted(s, sp, up), s.sort)[k] = Unsorted(s, sp, up)[pi[k]]

\* What the sorted batch holds.
SortedBatch(s, sp, up, list, total) ==
    LET n == Len(Hits(s, sp, up))
        batch == BatchSize(s.mode)
    IN /\ n \in Nat /\ n <= batch /\ Permutes(Sorting(s, sp, up), n)
       /\ \A j \in 1..batch : j <= n <=> ((sp - 1) * batch) + j <= total
       /\ list \in Seq(Range(list)) /\ Len(list) = n /\ DOMAIN list = 1..n
       /\ \A k \in 1..n :
              KeyOf(list[k]) = Keys(s.query, s.mode, up)[((sp - 1) * batch) + Sorting(s, sp, up)[k]]

LEMMA SortedBatchIs ==
    ASSUME NEW s \in SearchState, NEW up, NEW sp \in Nat \ {0}, NEW total,
           CutOf(Hits(s, sp, up), Keys(s.query, s.mode, up), total,
                 (sp - 1) * BatchSize(s.mode), BatchSize(s.mode))
    PROVE  SortedBatch(s, sp, up, SortedBy(Unsorted(s, sp, up), s.sort), total)
<1>. DEFINE hits == Hits(s, sp, up)
            n == Len(hits)
            batch == BatchSize(s.mode)
            before == (sp - 1) * batch
            keys == Keys(s.query, s.mode, up)
            passing == Unsorted(s, sp, up)
            list == SortedBy(passing, s.sort)
            pi == Sorting(s, sp, up)
<1>1. /\ n \in Nat /\ DOMAIN hits = 1..n /\ n <= batch
      /\ \A j \in 1..batch : j <= n <=> before + j <= total
      /\ \A j \in 1..n : Hit(hits[j]) /\ KeyOf(hits[j]) = keys[before + j]
  BY Zenon DEF CutOf
<1>2. DOMAIN passing = 1..n /\ \A k \in 1..n : passing[k] = hits[k]
  BY SievedIs DEF Unsorted
<1>3. Sortable(passing, n)
  <2>. HIDE DEF hits, n, passing
  <2>. QED
    BY <1>1, <1>2 DEF Sortable, Hit
<1>4. /\ DOMAIN list = 1..n
      /\ \E x : Permutes(x, n) /\ \A k \in 1..n : list[k] = passing[x[k]]
  <2>. HIDE DEF hits, n, passing
  <2>. QED
    BY <1>1, <1>3, SortedIs
<1>5. Permutes(pi, n) /\ \A k \in 1..n : list[k] = passing[pi[k]]
  <2>1. pi = CHOOSE x : Permutes(x, n) /\ \A k \in 1..n : list[k] = passing[x[k]]
    BY DEF Sorting
  <2>. HIDE DEF pi, n, list, passing, hits
  <2>. QED
    BY <1>4, <2>1, Zenon
<1>6. list \in Seq(Range(list)) /\ Len(list) = n
  <2>1. list = [k \in 1..n |-> list[k]]
    <3>1. DOMAIN passing = 1..n
      BY <1>2
    <3>2. \A b : Ordered(passing, b) = [k \in 1..n |-> Ordered(passing, b)[k]]
      BY <3>1 DEF Ordered
    <3>3. \E b : list = Ordered(passing, b)
      BY Zenon DEF SortedBy
    <3>. HIDE DEF list, n, passing
    <3>. QED
      BY <3>2, <3>3
  <2>. HIDE DEF list, n
  <2>. QED
    BY <1>1, <2>1, ListIs
<1>7. \A k \in 1..n : KeyOf(list[k]) = keys[before + pi[k]]
  <2>. TAKE k \in 1..n
  <2>. HIDE DEF hits, n, passing, list, pi, keys, before
  <2>1. pi[k] \in 1..n
    BY <1>5 DEF Permutes
  <2>2. list[k] = hits[pi[k]]
    BY <1>2, <1>5, <2>1
  <2>. QED
    BY <1>1, <2>1, <2>2, Zenon
<1>. HIDE DEF list, passing, pi, keys
<1>8. SortedBatch(s, sp, up, list, total)
  <2>. HIDE DEF list
  <2>. QED
    BY <1>1, <1>4, <1>5, <1>6, <1>7, Zenon DEF SortedBatch, n, hits, batch, before, pi, keys
<1>. QED
  BY <1>8 DEF list, passing

\* A page of the browser is a page of a sorted batch.
LEMMA PageResultsAre ==
    ASSUME NEW s \in SearchState, s.query \notin TooShort, s.filters = DefaultFilters,
           s.batch = "data", BatchAt(s.query, s.mode, s.page, backend).status = 200,
           NEW page \in 1..MaxPages
    PROVE  LET batch == BatchSize(s.mode)
               sp == ServerPageFor(page, batch)
               total == MatchTotal(s.query, s.mode)
               list == SortedBy(Unsorted(s, sp, backend), s.sort)
           IN /\ SortedBatch(s, sp, backend, list, total)
              /\ PageResults([s EXCEPT !.page = page, !.batch = "data"])
                     = Window(list, LocalPageFor(page, batch), PerPage)
<1>. DEFINE t == [s EXCEPT !.page = page, !.batch = "data"]
            batch == BatchSize(s.mode)
            sp == ServerPageFor(page, batch)
            total == MatchTotal(s.query, s.mode)
            list == SortedBy(Unsorted(s, sp, backend), s.sort)
<1>1. /\ t.query = s.query /\ t.mode = s.mode /\ t.page = page /\ t.filters = DefaultFilters
      /\ t.batch = "data" /\ t.sort = s.sort
      /\ s.query \in Queries /\ s.mode \in Modes /\ s.page \in 1..MaxPages
  BY DEF SearchState
<1>2. BatchAt(s.query, s.mode, page, backend).status = 200
  BY <1>1, EveryPageAnswered
<1>3. LET r == BatchAt(s.query, s.mode, page, backend)
      IN /\ r.total = MatchTotal(s.query, s.mode)
         /\ CutOf(r.results, Keys(s.query, s.mode, backend), MatchTotal(s.query, s.mode),
                  (ServerPageFor(page, BatchSize(s.mode)) - 1) * BatchSize(s.mode), BatchSize(s.mode))
  BY <1>1, <1>2, BatchIs
<1>4. BatchAt(s.query, s.mode, page, backend).results = Hits(s, sp, backend)
  BY DEF BatchAt, Hits
<1>5. sp \in Nat \ {0}
  BY <1>1, PageInBatch
<1>. HIDE DEF t
<1>6. SortedBatch(s, sp, backend, list, total)
  <2>1. CutOf(Hits(s, sp, backend), Keys(s.query, s.mode, backend), total, (sp - 1) * batch, batch)
    BY <1>3, <1>4
  <2>. HIDE DEF sp, total
  <2>. QED
    BY <1>5, <2>1, SortedBatchIs
<1>7. SearchData(t).results = Hits(s, sp, backend)
  <2>1. SearchData(t) = SearchAnswer(t)
    BY <1>1 DEF SearchData
  <2>2. SearchAnswer(t) = BatchAt(t.query, t.mode, t.page, backend)
    BY AnswersAre
  <2>. QED
    BY <1>1, <1>4, <2>1, <2>2, Zenon
<1>8. Passing(t) = Unsorted(s, sp, backend)
  <2>1. Passing(t) = Sieved(SearchData(t).results, t.filters)
    BY DEF Passing, Sieved
  <2>. QED
    BY <1>1, <1>7, <2>1, Zenon DEF Unsorted
<1>9. PageResults(t) = Window(list, LocalPageFor(page, batch), PerPage)
  BY <1>1, <1>8, Zenon DEF PageResults, SortedResults, list, batch
<1>. QED
  BY <1>6, <1>9, Zenon DEF t, batch, sp, total, list

LEMMA PageCounted ==
    ASSUME NEW total \in Nat
    PROVE  /\ PageCountFromTotal(total) \in Int /\ PageCountFromTotal(total) <= MaxPages
           /\ \A page \in 1..MaxPages :
                 (page - 1) * PerPage < total => page \in 1..PageCountFromTotal(total)
<1>. DEFINE x == PageCount(total)
            c == PageCountFromTotal(total)
<1>1. PerPage \in Nat \ {0} /\ MaxPages \in Nat \ {0}
  BY PagerAssumption
<1>2. \E y \in Nat : x \in Nat /\ y < PerPage /\ (total + PerPage) - 1 = (PerPage * x) + y
  <2>. DEFINE z == (total + PerPage) - 1
  <2>1. z \in Nat /\ x = z \div PerPage
    BY <1>1 DEF PageCount
  <2>. HIDE DEF z, x
  <2>2. z \div PerPage \in Nat /\ z % PerPage \in Nat /\ z % PerPage < PerPage
        /\ z = (PerPage * (z \div PerPage)) + (z % PerPage)
    BY <1>1, <2>1, Euclid
  <2>. QED
    BY <2>1, <2>2 DEF z
<1>. HIDE DEF x
<1>3. c \in Int /\ c \in {MaxPages, x} /\ c <= MaxPages /\ c <= x
  <2>1. Min({MaxPages, x}) \in {MaxPages, x} /\ Min({MaxPages, x}) <= MaxPages /\ Min({MaxPages, x}) <= x
    <3>1. x \in Int /\ MaxPages \in Int
      BY <1>1, <1>2
    <3>. QED
      BY <3>1, OfTwo
  <2>2. c = Min({MaxPages, x})
    BY DEF PageCountFromTotal, x
  <2>. HIDE DEF c
  <2>. QED
    BY <1>1, <1>2, <2>1, <2>2
<1>. HIDE DEF c
<1>4. ASSUME NEW page \in 1..MaxPages, (page - 1) * PerPage < total PROVE page \in 1..c
  <2>1. PICK y \in Nat : x \in Nat /\ y < PerPage /\ (total + PerPage) - 1 = (PerPage * x) + y
    BY <1>2
  <2>2. ~(x < page)
    <3>. SUFFICES ASSUME x < page PROVE FALSE
      OBVIOUS
    <3>. DEFINE v == page - 1
    <3>1. v \in Nat /\ x <= v /\ v * PerPage < total
      BY <1>1, <1>4, <2>1
    <3>. HIDE DEF v
    <3>2. PerPage * x <= PerPage * v
      BY <1>1, <2>1, <3>1
    <3>3. PerPage * v = v * PerPage /\ PerPage * v \in Nat /\ PerPage * x \in Nat
      BY <1>1, <2>1, <3>1
    <3>. QED
      BY <1>1, <2>1, <3>1, <3>2, <3>3
  <2>. QED
    BY <1>1, <1>3, <2>1, <2>2
<1>. QED
  BY <1>3, <1>4 DEF c

\* The hits of each batch, and how the page sorts them.
Lengths(s, B) == [sp \in 1..B |-> Len(Hits(s, sp, backend))]

Sortings(s, B) == [sp \in 1..B |-> Sorting(s, sp, backend)]

\* What place j of page lp of batch sp shows.
PlaceHas(w, s, K, B, sp, lp, j) ==
    /\ j \in DOMAIN w <=> ((lp - 1) * PerPage) + j <= Lengths(s, B)[sp]
    /\ j \in DOMAIN w =>
          KeyOf(w[j]) = Keys(s.query, s.mode, backend)
                            [((sp - 1) * (PerPage * K)) + Sortings(s, B)[sp][((lp - 1) * PerPage) + j]]

Browsed(s) ==
    /\ s \in SearchState /\ s.query \notin TooShort /\ s.filters = DefaultFilters
    /\ s.batch = "data" /\ BatchAt(s.query, s.mode, s.page, backend).status = 200

At(s, page) == PageResults([s EXCEPT !.page = page, !.batch = "data"])

\* Batch sp begins on a display page of its own.
LEMMA PageFor ==
    ASSUME NEW mode \in Modes, NEW K, NEW B, Fits(BatchSize(mode), K, B),
           NEW sp \in 1..B, NEW lp \in 1..K
    PROVE  LET page == (K * (sp - 1)) + lp
           IN /\ page \in 1..MaxPages /\ ServerPageFor(page, BatchSize(mode)) = sp
              /\ LocalPageFor(page, BatchSize(mode)) = lp
<1>. DEFINE a == sp - 1
            b == lp - 1
            n == (K * a) + b
            page == (K * a) + lp
<1>1. /\ K \in Nat \ {0} /\ B \in Nat \ {0} /\ MaxPages = K * B
      /\ PagesPerBatch(BatchSize(mode)) = K
  BY DEF Fits
<1>2. a \in Nat /\ b \in Nat /\ b < K /\ a + 1 <= B /\ sp = a + 1 /\ lp = b + 1
  BY <1>1
<1>. HIDE DEF a, b
<1>3. n \in Nat /\ page - 1 = n /\ page \in Nat /\ page >= 1
  BY <1>1, <1>2
<1>4. page <= MaxPages
  <2>1. K * (a + 1) <= K * B
    BY <1>1, <1>2, TimesGrows
  <2>2. K * (a + 1) = (K * a) + K /\ K * a \in Nat
    BY <1>1, <1>2
  <2>. QED
    BY <1>1, <1>2, <2>1, <2>2
<1>5. n \div K = a /\ n % K = b
  <2>1. n = (K * a) + b
    OBVIOUS
  <2>. HIDE DEF n
  <2>. QED
    BY <1>1, <1>2, <1>3, <2>1, Quotient
<1>6. page \in 1..MaxPages
  <2>. HIDE DEF page
  <2>. QED
    BY <1>1, <1>3, <1>4
<1>7. ServerPageFor(page, BatchSize(mode)) = sp /\ LocalPageFor(page, BatchSize(mode)) = lp
  <2>1. /\ ServerPageFor(page, BatchSize(mode)) = ((page - 1) \div K) + 1
        /\ LocalPageFor(page, BatchSize(mode)) = ((page - 1) % K) + 1
    BY <1>1, Zenon DEF ServerPageFor, LocalPageFor
  <2>. HIDE DEF page, n
  <2>. QED
    BY <1>2, <1>3, <1>5, <2>1
<1>. QED
  BY <1>6, <1>7 DEF a

LEMMA PlacesAre ==
    ASSUME NEW s, Browsed(s), NEW K, NEW B, Fits(BatchSize(s.mode), K, B),
           NEW sp \in 1..B, NEW lp \in 1..K
    PROVE  /\ SortedBatch(s, sp, backend, SortedBy(Unsorted(s, sp, backend), s.sort),
                          MatchTotal(s.query, s.mode))
           /\ \A j \in 1..PerPage : PlaceHas(At(s, (K * (sp - 1)) + lp), s, K, B, sp, lp, j)
<1>. DEFINE batch == BatchSize(s.mode)
            page == (K * (sp - 1)) + lp
            total == MatchTotal(s.query, s.mode)
            list == SortedBy(Unsorted(s, sp, backend), s.sort)
            n == Len(Hits(s, sp, backend))
            w == At(s, page)
            first == (lp - 1) * PerPage
            pi == Sorting(s, sp, backend)
            keys == Keys(s.query, s.mode, backend)
<1>1. page \in 1..MaxPages /\ ServerPageFor(page, batch) = sp /\ LocalPageFor(page, batch) = lp
  <2>1. s.mode \in Modes
    BY DEF Browsed, SearchState
  <2>. QED
    BY <2>1, PageFor
<1>2. /\ K \in Nat \ {0} /\ B \in Nat \ {0} /\ batch = PerPage * K /\ PerPage \in Nat \ {0}
      /\ sp \in Nat \ {0} /\ lp \in Nat \ {0}
  BY PagerAssumption DEF Fits
<1>3. LET bb == BatchSize(s.mode)
          sq == ServerPageFor(page, bb)
          tt == MatchTotal(s.query, s.mode)
          ll == SortedBy(Unsorted(s, sq, backend), s.sort)
      IN /\ SortedBatch(s, sq, backend, ll, tt)
         /\ PageResults([s EXCEPT !.page = page, !.batch = "data"])
                = Window(ll, LocalPageFor(page, bb), PerPage)
  <2>. HIDE DEF page
  <2>. QED
    BY <1>1, PageResultsAre DEF Browsed
<1>4. SortedBatch(s, sp, backend, list, total) /\ w = Window(list, lp, PerPage)
  BY <1>1, <1>3, Zenon DEF At
<1>5. /\ n \in Nat /\ n <= batch /\ Permutes(pi, n)
      /\ list \in Seq(Range(list)) /\ Len(list) = n /\ DOMAIN list = 1..n
      /\ \A k \in 1..n : KeyOf(list[k]) = keys[((sp - 1) * batch) + pi[k]]
  BY <1>4, Zenon DEF SortedBatch
<1>. HIDE DEF list, w, page, n, pi, keys, batch, total
<1>6. /\ Len(w) \in Nat /\ DOMAIN w = 1..Len(w) /\ Len(w) <= PerPage /\ first \in Nat
      /\ \A j \in 1..PerPage : j <= Len(w) <=> first + j <= n
      /\ \A j \in 1..Len(w) : first + j \in 1..n /\ w[j] = list[first + j]
  <2>1. LET x == Window(list, lp, PerPage)
            before == (lp - 1) * PerPage
        IN /\ before \in Nat /\ before + PerPage = lp * PerPage
           /\ x \in Seq(Range(list)) /\ Len(x) \in Nat /\ DOMAIN x = 1..Len(x) /\ Len(x) <= PerPage
           /\ \A j \in 1..PerPage : j <= Len(x) <=> before + j <= Len(list)
           /\ \A j \in 1..Len(x) : before + j \in 1..Len(list) /\ x[j] = list[before + j]
    BY <1>2, <1>5, WindowIs
  <2>. QED
    BY <1>4, <1>5, <2>1, Zenon
<1>7. Lengths(s, B)[sp] = n /\ Sortings(s, B)[sp] = pi
  BY DEF Lengths, Sortings, n, pi
<1>8. ASSUME NEW j \in 1..PerPage PROVE PlaceHas(w, s, K, B, sp, lp, j)
  <2>. HIDE DEF first
  <2>1. j \in DOMAIN w <=> first + j <= n
    BY <1>2, <1>6
  <2>2. ASSUME j \in DOMAIN w PROVE KeyOf(w[j]) = keys[((sp - 1) * batch) + pi[first + j]]
    BY <1>5, <1>6, <2>2, Zenon
  <2>. QED
    BY <1>2, <1>7, <2>1, <2>2, Zenon DEF PlaceHas, first, keys
<1>. QED
  BY <1>4, <1>8, Zenon DEF w, page, list, total

\* Where a match lies, as the page counts.
PlacesOf(s, m) ==
    {pos \in (1..TotalPages(s)) \X (1..PerPage) :
        /\ pos[2] \in DOMAIN At(s, pos[1])
        /\ KeyOf(At(s, pos[1])[pos[2]]) = m}

LEMMA BatchedIs ==
    ASSUME NEW s, Browsed(s), NEW K, NEW B, Fits(BatchSize(s.mode), K, B)
    PROVE  Batched(Lengths(s, B), Sortings(s, B), PerPage, K, B, MatchTotal(s.query, s.mode))
<1>. SUFFICES ASSUME NEW sp \in 1..B
              PROVE  /\ Lengths(s, B)[sp] \in Nat /\ Lengths(s, B)[sp] <= PerPage * K
                     /\ Permutes(Sortings(s, B)[sp], Lengths(s, B)[sp])
                     /\ \A j \in 1..(PerPage * K) :
                            j <= Lengths(s, B)[sp]
                                <=> ((sp - 1) * (PerPage * K)) + j <= MatchTotal(s.query, s.mode)
  BY Zenon DEF Batched
<1>1. 1 \in 1..K
  BY DEF Fits
<1>2. SortedBatch(s, sp, backend, SortedBy(Unsorted(s, sp, backend), s.sort),
                  MatchTotal(s.query, s.mode))
  BY <1>1, PlacesAre
<1>3. BatchSize(s.mode) = PerPage * K
  BY DEF Fits
<1>4. Lengths(s, B)[sp] = Len(Hits(s, sp, backend)) /\ Sortings(s, B)[sp] = Sorting(s, sp, backend)
  BY DEF Lengths, Sortings
<1>5. LET n == Len(Hits(s, sp, backend))
          batch == BatchSize(s.mode)
      IN /\ n \in Nat /\ n <= batch /\ Permutes(Sorting(s, sp, backend), n)
         /\ \A j \in 1..batch : j <= n <=> ((sp - 1) * batch) + j <= MatchTotal(s.query, s.mode)
  BY <1>2, Zenon DEF SortedBatch
<1>. QED
  BY <1>3, <1>4, <1>5, Zenon

\* Each place of a batch is one of the merged list.
LEMMA LiesIn ==
    ASSUME NEW P \in Nat \ {0}, NEW K \in Nat \ {0}, NEW B \in Nat \ {0}, NEW total \in Nat,
           NEW n, NEW pi, Batched(n, pi, P, K, B, total),
           NEW sp \in 1..B, NEW lp \in 1..K, NEW j \in 1..P, ((lp - 1) * P) + j <= n[sp]
    PROVE  /\ ((sp - 1) * (P * K)) + pi[sp][((lp - 1) * P) + j] \in 1..total
           /\ (((K * (sp - 1)) + lp) - 1) * P < total
<1>. DEFINE d == P * K
            k == ((lp - 1) * P) + j
            before == (sp - 1) * d
            f == (lp - 1) * P
<1>1. d \in Nat \ {0}
  OBVIOUS
<1>2. before \in Nat /\ f \in Nat
  <2>. HIDE DEF d
  <2>. QED
    BY <1>1
<1>3. k \in Nat /\ k >= 1 /\ k <= n[sp] /\ f < k
  <2>1. k = f + j
    OBVIOUS
  <2>. HIDE DEF f
  <2>. QED
    BY <1>2, <2>1
<1>4. /\ n[sp] \in Nat /\ n[sp] <= d /\ Permutes(pi[sp], n[sp])
      /\ \A i \in 1..d : i <= n[sp] <=> before + i <= total
  BY Zenon DEF Batched
<1>5. (((K * (sp - 1)) + lp) - 1) * P = before + f
  <2>. DEFINE page == (K * (sp - 1)) + lp
  <2>1. sp \in Nat \ {0}
    OBVIOUS
  <2>2. LET batch == P * K
            pg == (K * (sp - 1)) + lp
        IN /\ (sp - 1) * batch \in Nat /\ (pg - 1) * P \in Nat /\ (lp - 1) * P \in Nat
           /\ (pg - 1) * P = ((sp - 1) * batch) + ((lp - 1) * P)
           /\ ((lp - 1) * P) + P <= batch
    BY <2>1, PlaceOf
  <2>. QED
    BY <2>2, Zenon
<1>. HIDE DEF d, k, before, f
<1>6. k \in 1..n[sp] /\ k \in 1..d
  BY <1>1, <1>3, <1>4
<1>7. pi[sp][k] \in 1..n[sp]
  BY <1>4, <1>6 DEF Permutes
<1>8. pi[sp][k] \in 1..d /\ pi[sp][k] <= n[sp]
  BY <1>1, <1>4, <1>7
<1>9. before + pi[sp][k] <= total /\ before + k <= total
  BY <1>3, <1>4, <1>6, <1>8, Zenon
<1>10. before + pi[sp][k] \in 1..total
  BY <1>1, <1>2, <1>8, <1>9
<1>11. before + f < total
  BY <1>2, <1>3, <1>9
<1>. QED
  BY <1>5, <1>10, <1>11, Zenon DEF before, k, d

\* The total bounds the places, on the pages there may be.
Small(s) == MatchTotal(s.query, s.mode) <= MaxPages * PerPage

LEMMA FoundSomewhere ==
    ASSUME NEW s, Browsed(s), Small(s), TotalPages(s) = PageCountFromTotal(MatchTotal(s.query, s.mode)),
           NEW m \in Matches(s.query, s.mode)
    PROVE  PlacesOf(s, m) # {}
<1>. DEFINE batch == BatchSize(s.mode)
            total == MatchTotal(s.query, s.mode)
            keys == Keys(s.query, s.mode, backend)
<1>0. s.query \in Queries /\ s.mode \in Modes
  BY DEF Browsed, SearchState
<1>1. PICK K, B : Fits(batch, K, B)
  BY <1>0, BatchesFit
<1>2. /\ K \in Nat \ {0} /\ B \in Nat \ {0} /\ batch = PerPage * K /\ PerPage \in Nat \ {0}
      /\ MaxPages = K * B /\ MaxPages \in Nat \ {0}
  BY <1>1, PagerAssumption DEF Fits
<1>3. total \in Nat
  BY <1>0, TotalIs
<1>4. total <= (PerPage * K) * B
  <2>1. MaxPages * PerPage = (PerPage * K) * B
    BY <1>2
  <2>. QED
    BY <2>1 DEF Small
<1>. DEFINE n == Lengths(s, B)
            pi == Sortings(s, B)
<1>5. Batched(n, pi, PerPage, K, B, total)
  BY <1>1, BatchedIs
<1>6. PICK p \in 1..total : keys[p] = m
  <2>1. Enumerates(keys, total, Matches(s.query, s.mode))
    BY <1>0, KeysAre
  <2>. QED
    BY <2>1, Zenon DEF Enumerates
<1>. HIDE DEF n, pi, total, keys, batch
<1>7. \E sp \in 1..B, lp \in 1..K, j \in 1..PerPage : LiesAt(p, n, pi, PerPage, K, sp, lp, j)
  BY <1>2, <1>3, <1>4, <1>5, LiesSomewhere
<1>8. PICK sp \in 1..B : \E lp \in 1..K, j \in 1..PerPage : LiesAt(p, n, pi, PerPage, K, sp, lp, j)
  BY <1>7, Zenon
<1>9. PICK lp \in 1..K : \E j \in 1..PerPage : LiesAt(p, n, pi, PerPage, K, sp, lp, j)
  BY <1>8, Zenon
<1>10. PICK j \in 1..PerPage : LiesAt(p, n, pi, PerPage, K, sp, lp, j)
  BY <1>9, Zenon
<1>. DEFINE page == (K * (sp - 1)) + lp
            w == At(s, page)
<1>11. /\ ((lp - 1) * PerPage) + j <= n[sp]
       /\ ((sp - 1) * (PerPage * K)) + pi[sp][((lp - 1) * PerPage) + j] = p
  BY <1>10, Zenon DEF LiesAt
<1>12. PlaceHas(w, s, K, B, sp, lp, j)
  BY <1>1, PlacesAre, Zenon DEF batch
<1>13. j \in DOMAIN w /\ KeyOf(w[j]) = m
  BY <1>6, <1>11, <1>12, Zenon DEF PlaceHas, n, pi, keys
<1>14. (page - 1) * PerPage < total
  BY <1>2, <1>3, <1>5, <1>11, LiesIn, Zenon
<1>15. page \in 1..TotalPages(s)
  <2>1. page \in 1..MaxPages
    <3>1. LET pg == (K * (sp - 1)) + lp
          IN /\ pg \in 1..MaxPages /\ ServerPageFor(pg, BatchSize(s.mode)) = sp
             /\ LocalPageFor(pg, BatchSize(s.mode)) = lp
      BY <1>0, <1>1, PageFor DEF batch
    <3>. QED
      BY <3>1, Zenon
  <2>2. \A pg \in 1..MaxPages : (pg - 1) * PerPage < total => pg \in 1..PageCountFromTotal(total)
    BY <1>3, PageCounted
  <2>. QED
    BY <1>14, <2>1, <2>2, Zenon DEF total
<1>. HIDE DEF page
<1>16. <<page, j>> \in PlacesOf(s, m)
  BY <1>13, <1>15 DEF PlacesOf
<1>. QED
  BY <1>16

LEMMA FoundOnce ==
    ASSUME NEW s, Browsed(s), TotalPages(s) = PageCountFromTotal(MatchTotal(s.query, s.mode)),
           NEW m, NEW x \in PlacesOf(s, m), NEW y \in PlacesOf(s, m)
    PROVE  x = y
<1>. DEFINE batch == BatchSize(s.mode)
            total == MatchTotal(s.query, s.mode)
            keys == Keys(s.query, s.mode, backend)
<1>0. s.query \in Queries /\ s.mode \in Modes
  BY DEF Browsed, SearchState
<1>1. PICK K, B : Fits(batch, K, B)
  BY <1>0, BatchesFit
<1>2. /\ K \in Nat \ {0} /\ B \in Nat \ {0} /\ batch = PerPage * K /\ PerPage \in Nat \ {0}
      /\ MaxPages = K * B /\ MaxPages \in Nat \ {0}
  BY <1>1, PagerAssumption DEF Fits
<1>3. total \in Nat
  BY <1>0, TotalIs
<1>. DEFINE n == Lengths(s, B)
            pi == Sortings(s, B)
<1>4. Batched(n, pi, PerPage, K, B, total)
  BY <1>1, BatchedIs
<1>5. \A p, o \in 1..total : keys[p] = keys[o] => p = o
  <2>1. Enumerates(keys, total, Matches(s.query, s.mode))
    BY <1>0, KeysAre
  <2>. QED
    BY <2>1, Zenon DEF Enumerates
<1>6. TotalPages(s) \in Int /\ TotalPages(s) <= MaxPages
  BY <1>3, PageCounted
<1>. HIDE DEF total, n, pi, keys, batch
<1>7. ASSUME NEW z \in PlacesOf(s, m)
      PROVE  \E sp \in 1..B, lp \in 1..K : \E p \in 1..total :
                 /\ z[1] = (K * (sp - 1)) + lp /\ z[2] \in 1..PerPage /\ z = <<z[1], z[2]>>
                 /\ LiesAt(p, n, pi, PerPage, K, sp, lp, z[2]) /\ keys[p] = m
  <2>. DEFINE page == z[1]
              j == z[2]
              w == At(s, page)
              sp == ServerPageFor(page, batch)
              lp == LocalPageFor(page, batch)
  <2>1. page \in 1..TotalPages(s) /\ j \in 1..PerPage /\ z = <<page, j>> /\ j \in DOMAIN w /\ KeyOf(w[j]) = m
    BY DEF PlacesOf
  <2>2. page \in 1..MaxPages
    <3>. HIDE DEF page
    <3>. QED
      BY <1>2, <1>6, <2>1
  <2>3. LET bb == BatchSize(s.mode)
            sq == ServerPageFor(page, bb)
            lq == LocalPageFor(page, bb)
        IN /\ sq \in Nat /\ sq >= 1 /\ sq <= B /\ lq \in Nat /\ lq >= 1 /\ lq <= K
           /\ page = (K * (sq - 1)) + lq
           /\ InWindow(sq, bb)
    <3>. HIDE DEF page
    <3>. QED
      BY <1>0, <1>1, <2>2, PageIs DEF batch
  <2>. HIDE DEF sp, lp, page, j, w
  <2>4. /\ sp \in Nat /\ sp >= 1 /\ sp <= B /\ lp \in Nat /\ lp >= 1 /\ lp <= K
        /\ page = (K * (sp - 1)) + lp
    BY <2>3, Zenon DEF sp, lp, batch
  <2>5. sp \in 1..B /\ lp \in 1..K
    BY <1>2, <2>4
  <2>6. PlaceHas(w, s, K, B, sp, lp, j)
    <3>1. \A i \in 1..PerPage : PlaceHas(At(s, (K * (sp - 1)) + lp), s, K, B, sp, lp, i)
      BY <1>1, <2>5, PlacesAre, Zenon DEF batch
    <3>2. w = At(s, (K * (sp - 1)) + lp)
      BY <2>4 DEF w
    <3>. QED
      BY <2>1, <3>1, <3>2, Zenon
  <2>7. /\ ((lp - 1) * PerPage) + j <= n[sp]
        /\ KeyOf(w[j]) = keys[((sp - 1) * (PerPage * K)) + pi[sp][((lp - 1) * PerPage) + j]]
    BY <2>1, <2>6, Zenon DEF PlaceHas, n, pi, keys
  <2>. DEFINE p == ((sp - 1) * (PerPage * K)) + pi[sp][((lp - 1) * PerPage) + j]
  <2>8. p \in 1..total
    BY <1>2, <1>3, <1>4, <2>1, <2>5, <2>7, LiesIn, Zenon
  <2>9. LiesAt(p, n, pi, PerPage, K, sp, lp, j) /\ keys[p] = m
    BY <2>1, <2>7, Zenon DEF LiesAt
  <2>. HIDE DEF p
  <2>. QED
    BY <2>1, <2>4, <2>5, <2>8, <2>9, Zenon DEF page, j
<1>8. PICK sp \in 1..B, lp \in 1..K : \E p \in 1..total :
          /\ x[1] = (K * (sp - 1)) + lp /\ x[2] \in 1..PerPage /\ x = <<x[1], x[2]>>
          /\ LiesAt(p, n, pi, PerPage, K, sp, lp, x[2]) /\ keys[p] = m
  BY <1>7, Zenon
<1>9. PICK p \in 1..total :
          /\ x[1] = (K * (sp - 1)) + lp /\ x[2] \in 1..PerPage /\ x = <<x[1], x[2]>>
          /\ LiesAt(p, n, pi, PerPage, K, sp, lp, x[2]) /\ keys[p] = m
  BY <1>8, Zenon
<1>10. PICK sq \in 1..B, lq \in 1..K : \E o \in 1..total :
          /\ y[1] = (K * (sq - 1)) + lq /\ y[2] \in 1..PerPage /\ y = <<y[1], y[2]>>
          /\ LiesAt(o, n, pi, PerPage, K, sq, lq, y[2]) /\ keys[o] = m
  BY <1>7, Zenon
<1>11. PICK o \in 1..total :
          /\ y[1] = (K * (sq - 1)) + lq /\ y[2] \in 1..PerPage /\ y = <<y[1], y[2]>>
          /\ LiesAt(o, n, pi, PerPage, K, sq, lq, y[2]) /\ keys[o] = m
  BY <1>10, Zenon
<1>12. p = o
  BY <1>5, <1>9, <1>11, Zenon
<1>13. LiesAt(p, n, pi, PerPage, K, sq, lq, y[2])
  BY <1>11, <1>12, Zenon
<1>14. sp = sq /\ lp = lq /\ x[2] = y[2]
  <2>. DEFINE j == x[2]
              i == y[2]
  <2>1. /\ j \in 1..PerPage /\ LiesAt(p, n, pi, PerPage, K, sp, lp, j)
        /\ i \in 1..PerPage /\ LiesAt(p, n, pi, PerPage, K, sq, lq, i)
    BY <1>9, <1>11, <1>13, Zenon
  <2>. HIDE DEF i, j
  <2>2. sp = sq /\ lp = lq /\ j = i
    BY <1>2, <1>3, <1>4, <2>1, LiesOnce
  <2>. QED
    BY <2>2, Zenon DEF i, j
<1>15. x[1] = y[1]
  BY <1>9, <1>11, <1>14, Zenon
<1>16. x = <<x[1], x[2]>> /\ y = <<y[1], y[2]>>
  BY <1>9, <1>11, Zenon
<1>. QED
  BY <1>14, <1>15, <1>16, Zenon

LEMMA SearchIndReaches == SearchInd => EveryMatchReachable
<1>. SUFFICES ASSUME SearchInd, search # Away, Shown(search) = "results", ~FiltersActive(search),
                     SearchData(search).total <= MaxPages * PerPage,
                     NEW m \in Matches(search.query, search.mode)
              PROVE  Cardinality(PlacesOf(search, m)) = 1
  BY Zenon DEF EveryMatchReachable, Matches, KeysIn, PlacesOf, At, KeyOf
<1>1. search \in SearchState /\ Kept(search, backend)
  BY DEF SearchInd, SearchTypeOK
<1>2. search.query \notin TooShort /\ search.batch = "data"
  BY <1>1, ShownIs
<1>3. search.filters = DefaultFilters
  BY DEF FiltersActive
<1>4. BatchAt(search.query, search.mode, search.page, backend).status = 200
  BY <1>1, <1>2 DEF Kept
<1>5. Browsed(search)
  BY <1>1, <1>2, <1>3, <1>4 DEF Browsed
<1>6. SearchData(search).total = MatchTotal(search.query, search.mode)
  BY <1>1, <1>2, DataIs
<1>7. TotalPages(search) = PageCountFromTotal(MatchTotal(search.query, search.mode))
  BY <1>6, Zenon DEF TotalPages
<1>8. Small(search)
  BY <1>6, Zenon DEF Small
<1>9. PlacesOf(search, m) # {}
  BY <1>5, <1>7, <1>8, FoundSomewhere
<1>10. \A x, y \in PlacesOf(search, m) : x = y
  BY <1>5, <1>7, FoundOnce
<1>11. PICK x : PlacesOf(search, m) = {x}
  BY <1>9, <1>10
<1>. QED
  BY <1>11, FS_Singleton

\* With no filter set, each match of a query, narrator or hadith, is at one place
\* on one of the pager's pages, however many there are (up to MaxPages).
THEOREM MatchesReachable == SearchSpec => []EveryMatchReachable
<1>. QED
  BY SearchInitInv, SearchStepInv, SearchIndReaches, PTL DEF SearchSpec
=============================================================================
