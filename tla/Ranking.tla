------------------------------ MODULE Ranking ------------------------------
(***************************************************************************)
(* Lemmas on places in an order: a list that the code sorts and cuts into  *)
(* pages is modelled as a set with the rank of each element, the number of *)
(* elements up to it.  The ranks of n elements are 1, ..., n, each taken   *)
(* once; so whatever cuts the ranks into pieces cuts the set.              *)
(***************************************************************************)
EXTENDS FiniteSetsExt, FiniteSetTheorems, TLAPS

\* R, a set of pairs, puts the elements of S in one line.
Linear(R, S) ==
    /\ \A x \in S : <<x, x>> \in R
    /\ \A x, y \in S : <<x, y>> \in R \/ <<y, x>> \in R
    /\ \A x, y \in S : <<x, y>> \in R /\ <<y, x>> \in R => x = y
    /\ \A x, y, z \in S : <<x, y>> \in R /\ <<y, z>> \in R => <<x, z>> \in R

UpTo(x, S, R) == {y \in S : <<y, x>> \in R}

Ranks(S, R) == [x \in S |-> Cardinality(UpTo(x, S, R))]

\* P gives the elements of S the numbers from 1, each to one of them.
Numbering(P, S) ==
    /\ \A x \in S : P[x] \in 1..Cardinality(S)
    /\ \A x, y \in S : P[x] = P[y] => x = y
    /\ \A k \in 1..Cardinality(S) : \E x \in S : P[x] = k

\* Who comes before another has fewer elements up to it.
LEMMA RankOrder ==
    ASSUME NEW S, NEW R, IsFiniteSet(S), Linear(R, S), NEW x \in S, NEW y \in S
    PROVE  /\ Ranks(S, R)[x] \in 1..Cardinality(S)
           /\ <<x, y>> \in R <=> Ranks(S, R)[x] <= Ranks(S, R)[y]
           /\ Ranks(S, R)[x] = Ranks(S, R)[y] => x = y
<1>1. ASSUME NEW z \in S
      PROVE  /\ IsFiniteSet(UpTo(z, S, R)) /\ UpTo(z, S, R) \subseteq S /\ z \in UpTo(z, S, R)
             /\ Ranks(S, R)[z] = Cardinality(UpTo(z, S, R)) /\ Ranks(S, R)[z] \in Nat
             /\ Ranks(S, R)[z] <= Cardinality(S) /\ Ranks(S, R)[z] # 0
  <2>1. UpTo(z, S, R) \subseteq S /\ z \in UpTo(z, S, R)
    BY DEF UpTo, Linear
  <2>2. IsFiniteSet(UpTo(z, S, R)) /\ Cardinality(UpTo(z, S, R)) <= Cardinality(S)
    BY <2>1, FS_Subset
  <2>. QED
    BY <2>1, <2>2, FS_CardinalityType, FS_EmptySet DEF Ranks
<1>2. ASSUME NEW a \in S, NEW b \in S, <<a, b>> \in R, a # b
      PROVE  Ranks(S, R)[a] < Ranks(S, R)[b]
  <2>1. UpTo(a, S, R) \subseteq UpTo(b, S, R) /\ b \notin UpTo(a, S, R)
    BY <1>2 DEF UpTo, Linear
  <2>2. UpTo(a, S, R) # UpTo(b, S, R)
    BY <1>1, <2>1
  <2>3. Cardinality(UpTo(a, S, R)) <= Cardinality(UpTo(b, S, R))
        /\ Cardinality(UpTo(a, S, R)) # Cardinality(UpTo(b, S, R))
    BY <1>1, <2>1, <2>2, FS_Subset
  <2>. QED
    BY <1>1, <2>3
<1>3. Cardinality(S) \in Nat
  BY FS_CardinalityType
<1>4. Ranks(S, R)[x] \in 1..Cardinality(S)
  BY <1>1, <1>3
<1>5. <<x, y>> \in R \/ <<y, x>> \in R
  BY DEF Linear
<1>. QED
  BY <1>1, <1>2, <1>4, <1>5

\* Every rank is taken.
LEMMA RanksTaken ==
    ASSUME NEW S, NEW R, IsFiniteSet(S), Linear(R, S), NEW k \in 1..Cardinality(S)
    PROVE  \E x \in S : Ranks(S, R)[x] = k
<1>1. Cardinality(S) \in Nat
  BY FS_CardinalityType
<1>2. Ranks(S, R) \in [S -> 1..Cardinality(S)]
  BY RankOrder DEF Ranks
<1>3. Ranks(S, R) \in Injection(S, 1..Cardinality(S))
  BY <1>2, RankOrder DEF Injection, IsInjective
<1>4. IsFiniteSet(1..Cardinality(S)) /\ Cardinality(1..Cardinality(S)) = Cardinality(S)
  BY <1>1, FS_Interval
<1>5. Ranks(S, R) \in Surjection(S, 1..Cardinality(S))
  BY <1>3, <1>4, FS_Injection
<1>. QED
  BY <1>5 DEF Surjection

-----------------------------------------------------------------------------
(* Numbers, from the least or from the greatest. *)

AreNumbers(S) == S \subseteq Int

Ascending(S) == {p \in S \X S : p[1] <= p[2]}
Descending(S) == {p \in S \X S : p[1] >= p[2]}

LEMMA NumbersAreLinear ==
    ASSUME NEW S, S \subseteq Int
    PROVE  Linear(Ascending(S), S) /\ Linear(Descending(S), S)
BY DEF Linear, Ascending, Descending

\* The places of numbers listed from the greatest are 1, 2, ... to the last.
LEMMA PlacesFill ==
    ASSUME NEW S, IsFiniteSet(S), AreNumbers(S), NEW k \in 1..Cardinality(S)
    PROVE  \E x \in S : Cardinality({y \in S : y >= x}) = k
<1>1. Linear(Descending(S), S)
  BY NumbersAreLinear DEF AreNumbers
<1>2. PICK x \in S : Ranks(S, Descending(S))[x] = k
  BY <1>1, RanksTaken
<1>3. UpTo(x, S, Descending(S)) = {y \in S : y >= x}
  BY DEF UpTo, Descending
<1>. QED
  BY <1>2, <1>3 DEF Ranks

\* The places of numbers listed from the least, as a function.
LEMMA PlacesUp ==
    ASSUME NEW S, IsFiniteSet(S), AreNumbers(S),
           NEW P, P = [x \in S |-> Cardinality({y \in S : y <= x})]
    PROVE  Numbering(P, S)
<1>1. Linear(Ascending(S), S)
  BY NumbersAreLinear DEF AreNumbers
<1>2. ASSUME NEW x \in S PROVE UpTo(x, S, Ascending(S)) = {y \in S : y <= x}
  BY DEF UpTo, Ascending
<1>3. P = Ranks(S, Ascending(S))
  BY <1>2 DEF Ranks
<1>4. \A x \in S : P[x] \in 1..Cardinality(S)
  BY <1>1, <1>3, RankOrder
<1>5. ASSUME NEW x \in S, NEW y \in S, P[x] = P[y] PROVE x = y
  <2>1. Ranks(S, Ascending(S))[x] = Ranks(S, Ascending(S))[y]
    BY <1>3, <1>5
  <2>. QED
    BY <1>1, <2>1, RankOrder
<1>6. \A k \in 1..Cardinality(S) : \E x \in S : P[x] = k
  BY <1>1, <1>3, RanksTaken
<1>. QED
  BY <1>4, <1>5, <1>6 DEF Numbering

LEMMA LastInLine ==
    ASSUME NEW S, NEW R, IsFiniteSet(S), S # {}, Linear(R, S)
    PROVE  \E x \in S : \A y \in S : <<y, x>> \in R
<1>1. Cardinality(S) \in Nat /\ Cardinality(S) # 0
  BY FS_CardinalityType, FS_EmptySet
<1>2. PICK x \in S : Ranks(S, R)[x] = Cardinality(S)
  BY <1>1, RanksTaken
<1>3. ASSUME NEW y \in S PROVE <<y, x>> \in R
  <2>1. Ranks(S, R)[y] \in 1..Cardinality(S)
    BY RankOrder
  <2>2. Ranks(S, R)[y] <= Ranks(S, R)[x]
    BY <1>1, <1>2, <2>1
  <2>. QED
    BY <2>2, RankOrder
<1>. QED
  BY <1>3

LEMMA MaxIs ==
    ASSUME NEW S, IsFiniteSet(S), S \subseteq Int, S # {}
    PROVE  Max(S) \in S /\ \A y \in S : y <= Max(S)
<1>1. Linear(Ascending(S), S)
  BY NumbersAreLinear
<1>2. PICK x \in S : \A y \in S : <<y, x>> \in Ascending(S)
  BY <1>1, LastInLine
<1>. QED
  BY <1>2 DEF Max, Ascending

LEMMA MinIs ==
    ASSUME NEW S, IsFiniteSet(S), S \subseteq Int, S # {}
    PROVE  Min(S) \in S /\ \A y \in S : Min(S) <= y
<1>1. Linear(Descending(S), S)
  BY NumbersAreLinear
<1>2. PICK x \in S : \A y \in S : <<y, x>> \in Descending(S)
  BY <1>1, LastInLine
<1>. QED
  BY <1>2 DEF Min, Descending

LEMMA OfOne ==
    ASSUME NEW a \in Int
    PROVE  Min({a}) = a /\ Max({a}) = a
<1>1. IsFiniteSet({a}) /\ {a} \subseteq Int /\ {a} # {}
  BY FS_Singleton
<1>. QED
  BY <1>1, MaxIs, MinIs

LEMMA OfTwo ==
    ASSUME NEW a \in Int, NEW b \in Int
    PROVE  /\ Max({a, b}) \in {a, b} /\ a <= Max({a, b}) /\ b <= Max({a, b})
           /\ Min({a, b}) \in {a, b} /\ Min({a, b}) <= a /\ Min({a, b}) <= b
<1>1. {a, b} = {a} \cup {b}
  OBVIOUS
<1>2. IsFiniteSet({a, b})
  <2>1. IsFiniteSet({a})
    BY FS_Singleton
  <2>. QED
    BY <1>1, <2>1, FS_AddElement
<1>. QED
  BY <1>2, MaxIs, MinIs

\* What a limit takes of a finite set has the limit's size, or is all of it.
LEMMA TakenIs ==
    ASSUME NEW S, IsFiniteSet(S), NEW limit \in Nat,
           NEW T \in kSubset(Min({limit, Cardinality(S)}), S)
    PROVE  /\ T \subseteq S /\ Cardinality(S) \in Nat /\ IsFiniteSet(T)
           /\ T # S <=> Cardinality(S) > limit
           /\ T # S => Cardinality(T) = limit
<1>1. Cardinality(S) \in Nat
  BY FS_CardinalityType
<1>2. T \in SUBSET S /\ Cardinality(T) = Min({limit, Cardinality(S)})
  BY DEF kSubset
<1>3. /\ Min({limit, Cardinality(S)}) \in {limit, Cardinality(S)}
      /\ Min({limit, Cardinality(S)}) <= limit /\ Min({limit, Cardinality(S)}) <= Cardinality(S)
  <2>1. limit \in Int /\ Cardinality(S) \in Int
    BY <1>1
  <2>. QED
    BY <2>1, OfTwo, Zenon
<1>4. IsFiniteSet(T) /\ (Cardinality(T) = Cardinality(S) => T = S)
  BY <1>2, FS_Subset
<1>. QED
  BY <1>1, <1>2, <1>3, <1>4

-----------------------------------------------------------------------------
(* Sums.  A sum over a set is a recursive function; that its value does not *)
(* depend on the order is by taking a least set on which it would.         *)

\* F sums the weights w over the subsets of Q, one element after the other.
Sums(F, w, Q) ==
    F = [s \in SUBSET Q |-> IF s = {} THEN 0
                             ELSE w[CHOOSE x \in s : TRUE] + F[s \ {CHOOSE x \in s : TRUE}]]

LEMMA SumsAgree ==
    ASSUME NEW Q, IsFiniteSet(Q), NEW w, NEW F, NEW G, Sums(F, w, Q), Sums(G, w, Q)
    PROVE  F = G
<1>. DEFINE N == {n \in 0..Cardinality(Q) :
                    \E s \in SUBSET Q : Cardinality(s) = n /\ F[s] # G[s]}
<1>1. Cardinality(Q) \in Nat
  BY FS_CardinalityType
<1>2. ASSUME N # {} PROVE FALSE
  <2>1. IsFiniteSet(0..Cardinality(Q)) /\ N \in SUBSET (0..Cardinality(Q))
    BY <1>1, FS_Interval
  <2>2. IsFiniteSet(N) /\ N \subseteq Int
    <3>1. N \subseteq Int
      BY <1>1
    <3>. HIDE DEF N
    <3>. QED
      BY <2>1, <3>1, FS_Subset
  <2>3. PICK n \in N : \A k \in N : n <= k
    <3>. HIDE DEF N
    <3>. QED
      BY <1>2, <2>2, MinIs
  <2>4. PICK s \in SUBSET Q : Cardinality(s) = n /\ F[s] # G[s]
    OBVIOUS
  <2>. DEFINE x == CHOOSE x \in s : TRUE
              t == s \ {x}
  <2>5. s # {} /\ x \in s
    BY <2>4 DEF Sums
  <2>6. IsFiniteSet(s) /\ t \in SUBSET Q
    BY FS_Subset
  <2>7. Cardinality(t) = n - 1 /\ n \in Nat /\ Cardinality(t) \in Nat
    BY <1>1, <2>4, <2>5, <2>6, FS_RemoveElement, FS_Subset, FS_CardinalityType
  <2>8. F[t] = G[t]
    BY <1>1, <2>3, <2>6, <2>7
  <2>9. F[s] = w[x] + F[t] /\ G[s] = w[x] + G[t]
    BY <2>5 DEF Sums
  <2>. QED
    BY <2>4, <2>8, <2>9
<1>3. ASSUME NEW s \in SUBSET Q PROVE F[s] = G[s]
  <2>1. Cardinality(s) \in 0..Cardinality(Q)
    BY <1>1, FS_Subset, FS_CardinalityType
  <2>. QED
    BY <1>2, <2>1
<1>4. /\ F = [s \in SUBSET Q |-> F[s]]
      /\ G = [s \in SUBSET Q |-> G[s]]
  BY DEF Sums
<1>. QED
  BY <1>3, <1>4

LEMMA SumIs ==
    ASSUME NEW Q, IsFiniteSet(Q), NEW w, NEW G, Sums(G, w, Q)
    PROVE  MapThenSumSet(LAMBDA x : w[x], Q) = G[Q]
<1>. DEFINE F == CHOOSE F : Sums(F, w, Q)
<1>1. Sums(F, w, Q)
  OBVIOUS
<1>2. F = G
  <2>. HIDE DEF F
  <2>. QED
    BY <1>1, SumsAgree
<1>3. MapThenSumSet(LAMBDA x : w[x], Q) = F[Q]
  BY DEF MapThenSumSet, MapThenFoldSet, Sums
<1>. QED
  BY <1>2, <1>3

-----------------------------------------------------------------------------
(* Pages of F. *)

LEMMA TimesGrows ==
    ASSUME NEW F \in Nat, NEW a \in Int, NEW b \in Int, a <= b
    PROVE  F * a <= F * b
OBVIOUS

LEMMA QuotientIs ==
    ASSUME NEW n \in Nat, NEW F \in Nat \ {0}
    PROVE  n \div F \in Nat /\ F * (n \div F) <= n /\ n < F * (n \div F) + F
OBVIOUS

\* There is a page p exactly if the pages before it do not take everything.
LEMMA PagesAre ==
    ASSUME NEW n \in Nat, NEW F \in Nat \ {0}, NEW p \in Nat \ {0}
    PROVE  /\ (n + F - 1) \div F \in Nat
           /\ p <= (n + F - 1) \div F <=> (p - 1) * F < n
<1>. DEFINE q == (n + F - 1) \div F
<1>1. q \in Nat /\ F * q <= n + F - 1 /\ n + F - 1 < F * q + F
  BY QuotientIs
<1>2. F * (p - 1) = F * p - F /\ (p - 1) * F = F * (p - 1) /\ F * p \in Nat /\ F * q \in Nat
  BY <1>1
<1>3. ASSUME p <= q PROVE (p - 1) * F < n
  BY <1>1, <1>2, <1>3, TimesGrows
<1>4. ASSUME q <= p - 1 PROVE n <= (p - 1) * F
  <2>1. F * q <= F * (p - 1)
    BY <1>1, <1>4, TimesGrows
  <2>. QED
    BY <1>1, <1>2, <2>1
<1>. QED
  BY <1>1, <1>2, <1>3, <1>4

LastPage(n, F) == (n + F - 1) \div F

PageOf(p, F) == (p - 1) * F + 1 .. p * F

\* The pages of a numbered set: each number is on one of them, and every page but
\* the last is full.
LEMMA NumberOnPage ==
    ASSUME NEW n \in Nat, NEW F \in Nat \ {0}, NEW k \in 1..n
    PROVE  \E p \in 1..LastPage(n, F) : k \in PageOf(p, F)
<1>. DEFINE q == (k - 1) \div F
            p == q + 1
<1>1. k - 1 \in Nat /\ k \in Nat
  OBVIOUS
<1>2. q \in Nat /\ F * q <= k - 1 /\ k - 1 < F * q + F
  BY <1>1, QuotientIs
<1>3. p \in Nat \ {0} /\ p - 1 = q
  BY <1>2
<1>4. F * q = (p - 1) * F /\ F * q + F = p * F /\ F * q \in Nat
  BY <1>2, <1>3
<1>. HIDE DEF p, q
<1>5. (p - 1) * F < n
  BY <1>1, <1>2, <1>4
<1>6. p <= LastPage(n, F) /\ LastPage(n, F) \in Nat
  BY <1>3, <1>5, PagesAre DEF LastPage
<1>7. k \in PageOf(p, F)
  BY <1>1, <1>2, <1>4 DEF PageOf
<1>. QED
  BY <1>3, <1>6, <1>7

LEMMA PagesApart ==
    ASSUME NEW F \in Nat \ {0}, NEW p \in Nat \ {0}, NEW q \in Nat \ {0}, p # q
    PROVE  PageOf(p, F) \cap PageOf(q, F) = {}
<1>1. ASSUME NEW a \in Nat \ {0}, NEW b \in Nat \ {0}, a < b
      PROVE  PageOf(a, F) \cap PageOf(b, F) = {}
  <2>1. F * a <= F * (b - 1)
    BY <1>1, TimesGrows
  <2>2. F * a = a * F /\ F * (b - 1) = (b - 1) * F /\ a * F \in Nat /\ (b - 1) * F \in Nat
    BY <1>1
  <2>. QED
    BY <2>1, <2>2 DEF PageOf
<1>. QED
  BY <1>1

LEMMA FullPage ==
    ASSUME NEW n \in Nat, NEW F \in Nat \ {0}, NEW p \in Nat \ {0}
    PROVE  /\ p < LastPage(n, F) =>
                 /\ PageOf(p, F) \subseteq 1..n
                 /\ IsFiniteSet(PageOf(p, F)) /\ Cardinality(PageOf(p, F)) = F
           /\ p > LastPage(n, F) => PageOf(p, F) \cap 1..n = {}
<1>1. (p - 1) * F \in Nat /\ p * F = (p - 1) * F + F /\ p * F = ((p + 1) - 1) * F
  OBVIOUS
<1>2. LastPage(n, F) \in Nat /\ (p <= LastPage(n, F) <=> (p - 1) * F < n)
  BY PagesAre DEF LastPage
<1>3. p + 1 <= LastPage(n, F) <=> p * F < n
  <2>1. p + 1 \in Nat \ {0}
    OBVIOUS
  <2>2. p + 1 <= LastPage(n, F) <=> ((p + 1) - 1) * F < n
    BY <2>1, PagesAre DEF LastPage
  <2>. QED
    BY <1>1, <2>2
<1>. DEFINE a == (p - 1) * F
            b == p * F
<1>4. PageOf(p, F) = a + 1 .. b
  BY DEF PageOf
<1>5. a \in Nat /\ b = a + F
  BY <1>1
<1>. HIDE DEF a, b
<1>6. ASSUME p < LastPage(n, F)
      PROVE  /\ PageOf(p, F) \subseteq 1..n
             /\ IsFiniteSet(PageOf(p, F)) /\ Cardinality(PageOf(p, F)) = F
  <2>1. b < n
    BY <1>2, <1>3, <1>6 DEF b
  <2>2. IsFiniteSet(a + 1 .. b) /\ Cardinality(a + 1 .. b) = F
    BY <1>5, FS_Interval
  <2>. QED
    BY <1>4, <1>5, <2>1, <2>2
<1>7. ASSUME p > LastPage(n, F) PROVE PageOf(p, F) \cap 1..n = {}
  <2>1. a >= n
    BY <1>2, <1>5, <1>7 DEF a
  <2>. QED
    BY <1>4, <1>5, <2>1
<1>. QED
  BY <1>6, <1>7

LEMMA PagesTheSet ==
    ASSUME NEW S, IsFiniteSet(S), NEW P, Numbering(P, S), NEW F \in Nat \ {0},
           NEW L, L = LastPage(Cardinality(S), F),
           NEW Piece, Piece = [p \in Nat |-> {x \in S : P[x] \in PageOf(p, F)}]
    PROVE  /\ L \in Nat
           /\ \A x \in S : \E p \in 1..L : x \in Piece[p]
           /\ \A p \in Nat : Piece[p] \subseteq S
           /\ \A p, q \in Nat \ {0} : p # q => Piece[p] \cap Piece[q] = {}
           /\ \A p \in Nat \ {0} : p < L => IsFiniteSet(Piece[p]) /\ Cardinality(Piece[p]) = F
           /\ \A p \in Nat \ {0} : p > L => Piece[p] = {}
<1>1. Cardinality(S) \in Nat
  BY FS_CardinalityType
<1>2. L \in Nat
  BY <1>1, PagesAre, 1 \in Nat \ {0} DEF LastPage
<1>3. ASSUME NEW x \in S PROVE \E p \in 1..L : x \in Piece[p]
  <2>1. P[x] \in 1..Cardinality(S)
    BY DEF Numbering
  <2>. QED
    BY <1>1, <2>1, NumberOnPage
<1>4. ASSUME NEW p \in Nat \ {0}, NEW q \in Nat \ {0}, p # q PROVE Piece[p] \cap Piece[q] = {}
  BY <1>4, PagesApart
<1>5. ASSUME NEW p \in Nat \ {0}, p < L
      PROVE  IsFiniteSet(Piece[p]) /\ Cardinality(Piece[p]) = F
  <2>1. /\ PageOf(p, F) \subseteq 1..Cardinality(S)
        /\ IsFiniteSet(PageOf(p, F)) /\ Cardinality(PageOf(p, F)) = F
    BY <1>1, <1>5, FullPage
  <2>. DEFINE f == [x \in Piece[p] |-> P[x]]
  <2>2. f \in Bijection(Piece[p], PageOf(p, F))
    <3>1. Piece[p] = {x \in S : P[x] \in PageOf(p, F)}
      OBVIOUS
    <3>2. f \in [Piece[p] -> PageOf(p, F)]
      BY <3>1
    <3>3. \A x, y \in Piece[p] : f[x] = f[y] => x = y
      BY <3>1 DEF Numbering
    <3>4. \A k \in PageOf(p, F) : \E x \in Piece[p] : f[x] = k
      BY <3>1, <2>1 DEF Numbering
    <3>. QED
      BY <3>2, <3>3, <3>4 DEF Bijection, Injection, Surjection, IsInjective
  <2>3. IsFiniteSet(Piece[p])
    BY FS_Subset
  <2>4. Cardinality(PageOf(p, F)) = Cardinality(Piece[p])
    BY <2>2, <2>3, FS_Bijection DEF ExistsBijection
  <2>. QED
    BY <2>1, <2>3, <2>4
<1>6. ASSUME NEW p \in Nat \ {0}, p > L PROVE Piece[p] = {}
  <2>1. PageOf(p, F) \cap 1..Cardinality(S) = {}
    BY <1>1, <1>6, FullPage
  <2>. QED
    BY <2>1 DEF Numbering
<1>. QED
  BY <1>2, <1>3, <1>4, <1>5, <1>6
=============================================================================
