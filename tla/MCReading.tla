------------------------------ MODULE MCReading ------------------------------
(***************************************************************************)
(* What a reader sees: the pages of the site with the handlers behind them *)
(* and the two jobs that prepare the data they show.  They share no state, *)
(* so a behaviour is that of one of them, chosen at the start; the others  *)
(* stay as they began.                                                     *)
(***************************************************************************)
EXTENDS EmbeddingLoad, Overlay, SearchPage, HadithBrowse, GraphExplorer,
        TimelinePage, TLC

CONSTANTS Scenes,
          hashing, wide, text, translation, whitespace,   \* EmbeddingLoad
          fitna, caliphate,                               \* Overlay
          umar, prayer, nothing                           \* SearchPage

VARIABLE scene

-----------------------------------------------------------------------------
(* EmbeddingLoad: a hadith without a translation, a translated one, and one *)
(* whose translation is blank.  Embedders of two widths.  A job after the   *)
(* other over all hadiths, and overlapping ones over a single hadith.       *)

Matn(ar, en) == [ar |-> ar, en |-> en]
MCMatns == {Matn(text, NoText), Matn(text, translation), Matn(text, whitespace)}
MCDimOf == hashing :> 384 @@ wide :> 768

(* Overlay: point years alone, with the bounds a dates file resolves, and   *)
(* none at all; a later version of the file drops an event and moves the    *)
(* other.                                                                   *)

Lifetime(b, be, d, dl) == [birth |-> b, birthEarliest |-> be, death |-> d, deathLatest |-> dl]
Spell(s, e) == [start |-> s, end |-> e]
MCDated == {Lifetime(None, None, 4, None), Lifetime(1, None, None, None),
            Lifetime(4, None, 5, 6), Lifetime(1, -2, 2, None),
            Lifetime(None, None, None, None)}
MCCurated == {fitna :> Spell(3, None) @@ caliphate :> Spell(5, 6), fitna :> Spell(2, None)}

(* SearchPage: a query with narrators and hadiths, dated and graded or not, *)
(* one that finds a hadith only by meaning what its words do not, and none. *)

Narr(i, s, y) == [id |-> i, title |-> 5 - i, score |-> s, year |-> y]
Hdth(i, s, g) == [id |-> i, title |-> i, score |-> s, collections |-> {}, gradings |-> g, topics |-> {}]
MCFound ==
    nothing :> [narrators |-> <<>>, hadiths |-> <<>>, near |-> <<>>] @@
    umar :> [narrators |-> <<Narr(2, 5, 450), Narr(1, 3, 0)>>,
             hadiths |-> <<Hdth(2, 4, {}), Hdth(1, 2, {"sahih"})>>,
             near |-> <<Hdth(1, 900, {"sahih"}), Hdth(2, 700, {}), Hdth(3, -100, {})>>] @@
    prayer :> [narrators |-> <<>>, hadiths |-> <<Hdth(3, 4, {})>>,
               near |-> <<Hdth(3, 900, {}), Hdth(2, 700, {}), Hdth(1, 300, {"sahih"})>>]
MCFacetLabels == [collections |-> {}, gradings |-> {"sahih"}, centuries |-> {}, topics |-> {}]

(* HadithBrowse: three states of the graph that reloads go between.         *)

Hadith(source, linked, composite, tags, isnad) ==
    [source |-> source, linked |-> linked, composite |-> composite, flat |-> Null,
     tags |-> tags, isnad |-> isnad, words |-> {}, collection |-> Null]
MCLoads == {
    1 :> Hadith("s1", {"hasan", "sahih"}, Null, {{"ibadah"}, {"ibadah", "fiqh"}}, {"n1"}) @@
    2 :> Hadith("s1", {"sahih", "mawdu"}, {"sahih"}, {{"quran"}, {"sira"}}, {}) @@
    3 :> Hadith("s2", Null, {"sahih"}, {}, {"n1"}),
    1 :> Hadith("s2", {"sahih"}, Null, {{"ibadah"}}, {}) @@
    4 :> Hadith(Null, Null, Null, {{}}, {"n1"}),
    1 :> Hadith("s1", Empty, {"sahih"}, {{"ibadah"}}, {})}
MCOptions == [grade |-> {"sahih", "hasan_sahih"}, narrator |-> {"n1"}]

(* GraphExplorer: two transmissions, and a link that is none.               *)

Link(a, b, kind) == [from |-> a, to |-> b, kind |-> kind]
MCLinks == {Link(1, 2, "TRANSMITTED_TO"), Link(2, 3, "TRANSMITTED_TO"),
            Link(3, 1, "STUDIED_UNDER")}
MCGeneration == 1 :> "tabii" @@ 2 :> "sahabi" @@ 3 :> Unknown
MCSampled == <<3, 1>>

(* TimelinePage: events of several years and open ends, lives with one year *)
(* or none, an edge that a narrator's later dates do not give, and a graph  *)
(* without events.                                                          *)

MCDefaultRange == <<0, 30>>
Point(b, d) == Lifetime(b, None, d, None)
MCHistories == {
    [events |-> 1 :> Spell(2, None) @@ 2 :> Spell(20, 60) @@ 3 :> Spell(45, None),
     people |-> 1 :> Point(1, 4) @@ 2 :> Point(None, 46) @@ 3 :> Point(None, None),
     edges |-> {<<1, 1>>, <<2, 2>>, <<2, 3>>}],
    [events |-> 1 :> Spell(10, None), people |-> 2 :> Point(9, None) @@ 1 :> Point(30, 80),
     edges |-> {<<2, 1>>, <<1, 1>>}],   \* the second is left over
    [events |-> <<>>, people |-> 1 :> Point(1, 15), edges |-> {}]}

OneJob == \A j \in Jobs \ {CHOOSE first \in Jobs : TRUE} : load[j].st = "idle"
\* The filter panel, which changes nothing else, opens over a bare canvas only.
BareCanvas == explore # Hidden /\ explore.filters => ~explore.detail /\ ~explore.searching
OneHadith == Cardinality({h \in Hadiths : graph[h] # Missing \/ mirror[h] # Missing}) <= 1

-----------------------------------------------------------------------------
\* Told apart by nothing but their names.
ReadingSymmetry == Permutations(Hadiths) \cup Permutations(Narrators)

MCInit ==
    /\ scene \in Scenes
    /\ LoadInit /\ OverlayInit /\ SearchInit
    /\ BrowseInit /\ ExplorerInit /\ TimelineInit
    /\ scene \notin {"load", "loads"} => graph = NoRows
    /\ scene = "loads" => OneHadith
    /\ scene # "overlay" => dates = NoDates /\ job.file = CHOOSE file \in Curated : TRUE
    /\ backend.indexed = backend.provisioned   \* each mode has the one of its own
    /\ scene # "search" => backend.indexed
    /\ scene \notin {"facets", "browse"} => corpus = CHOOSE g \in Loads : TRUE

\* The facets and the browse page read the same graph; their steps are not mixed.
MCNext ==
    /\ \/ /\ LoadNext
          /\ \/ scene = "load" /\ OneJob'
             \/ scene = "loads" /\ OneHadith'
          /\ UNCHANGED <<overlayVars, searchVars, browseVars, exploreVars, timelineVars>>
       \/ /\ scene = "overlay" /\ OverlayNext
          /\ UNCHANGED <<loadVars, searchVars, browseVars, exploreVars, timelineVars>>
       \/ /\ scene = "search" /\ SearchNext
          /\ UNCHANGED <<loadVars, overlayVars, browseVars, exploreVars, timelineVars>>
       \/ /\ \/ scene = "facets" /\ FacetsNext
             \/ scene = "browse" /\ PageNext
             \/ scene \in {"facets", "browse"} /\ \E g \in Loads : Reload(g)
          /\ UNCHANGED <<loadVars, overlayVars, searchVars, exploreVars, timelineVars>>
       \/ /\ scene = "explorer" /\ ExplorerNext /\ BareCanvas'
          /\ UNCHANGED <<loadVars, overlayVars, searchVars, browseVars, timelineVars>>
       \/ /\ scene = "timeline" /\ TimelineNext
          /\ UNCHANGED <<loadVars, overlayVars, searchVars, browseVars, exploreVars>>
    /\ UNCHANGED scene

ReadingSpec ==
    MCInit /\ [][MCNext]_<<scene, loadVars, overlayVars, searchVars, browseVars,
                           exploreVars, timelineVars>>
=============================================================================
