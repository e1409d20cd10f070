----------------------------- MODULE Vocabulary -----------------------------
(***************************************************************************)
(* The canonical grades and topics (utils/grades.py, utils/topics.py).  A  *)
(* free text is known by the keyword groups it contains a keyword of.      *)
(***************************************************************************)
EXTENDS Integers, Sequences, FiniteSetsExt

CONSTANTS Null,   \* no such property
          Empty   \* ''

ASSUME VocabularyAssumption == Null # Empty

-----------------------------------------------------------------------------
(* Grades *)

GradeGroups == {"sahih", "hasan", "daif", "mawdu", "munkar", "shadh"}

\* _PREDICATES, in the order normalize_grade tries them.
Predicates ==
    << [token |-> "mawdu", required |-> {"mawdu"}, excluded |-> {}],
       [token |-> "munkar", required |-> {"munkar"}, excluded |-> {"mawdu"}],
       [token |-> "shadh", required |-> {"shadh"}, excluded |-> {"mawdu", "munkar"}],
       [token |-> "hasan_sahih", required |-> {"hasan", "sahih"},
        excluded |-> {"mawdu", "munkar", "shadh"}],
       [token |-> "sahih", required |-> {"sahih"},
        excluded |-> {"mawdu", "munkar", "shadh", "hasan"}],
       [token |-> "hasan", required |-> {"hasan"},
        excluded |-> {"mawdu", "munkar", "shadh", "sahih"}],
       [token |-> "daif", required |-> {"daif"},
        excluded |-> {"mawdu", "munkar", "shadh", "sahih", "hasan"}] >>

GradeTokens == {p.token : p \in Range(Predicates)}

Grades == {Null, Empty} \cup SUBSET GradeGroups

\* The groups of a text; the empty text is in none.
Groups(raw) == IF raw = Empty THEN {} ELSE raw

Satisfies(groups, predicate) ==
    predicate.required \subseteq groups /\ predicate.excluded \cap groups = {}

\* The first predicate that holds.
NormalizeGrade(raw) ==
    IF raw = Null THEN Null
    ELSE LET holding == {i \in DOMAIN Predicates : Satisfies(Groups(raw), Predicates[i])}
         IN IF holding = {} THEN Null ELSE Predicates[Min(holding)].token

\* grade_filter_clause, as Cypher evaluates it: null is not true.
GradeFilter(token, raw) ==
    /\ raw # Null
    /\ \E p \in Range(Predicates) : p.token = token /\ Satisfies(Groups(raw), p)

\* coalesce(g.grade, h.grade_composite, h.grade): the first that is there.
Coalesced(h) ==
    IF h.linked # Null THEN h.linked ELSE IF h.composite # Null THEN h.composite ELSE h.flat

\* _build_hadith_response's `or`: the first that is there and not empty.
RawGrade(h) ==
    LET there == {g \in {Coalesced(h), h.composite, h.flat} : g \notin {Null, Empty}}
    IN CASE Coalesced(h) \in there -> Coalesced(h)
         [] Coalesced(h) \notin there /\ h.composite \in there -> h.composite
         [] OTHER -> h.flat

-----------------------------------------------------------------------------
(* Topics *)

\* The keyword groups in the order they are tried.
TopicPriority ==
    <<"eschatology", "quran", "sira", "ibadah", "aqidah", "akhlaq", "knowledge", "fiqh">>

TopicTokens == Range(TopicPriority)

Uncategorized == "uncategorized"

NormalizeTopic(tag) ==
    LET matching == {i \in DOMAIN TopicPriority : TopicPriority[i] \in tag}
    IN IF matching = {} THEN Null ELSE TopicPriority[Min(matching)]

CanonicalTopics(tags) == {NormalizeTopic(tag) : tag \in tags} \ {Null}

\* aggregate_topic_facets_from_counts: groups counts the hadiths that have
\* exactly these tags.
AggregateTopics(groups) ==
    LET Sum(S) == MapThenSumSet(LAMBDA tags : groups[tags], S)
    IN [value \in TopicTokens \cup {Uncategorized} |->
            IF value = Uncategorized
            THEN Sum({tags \in DOMAIN groups : CanonicalTopics(tags) = {}})
            ELSE Sum({tags \in DOMAIN groups : value \in CanonicalTopics(tags)})]
=============================================================================
