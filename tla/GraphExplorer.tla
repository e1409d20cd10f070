--------------------------- MODULE GraphExplorer ---------------------------
(***************************************************************************)
(* The graph explorer (pages/GraphExplorerPage.tsx, ForceGraph.tsx,        *)
(* lib/tabaqa.ts) in front of GET /graph/narrator/{id}/network             *)
(* (api/routes/graph.py).  The page opens on the best connected narrator   *)
(* of a sample, or on whom the reader picks before the sample is there;    *)
(* each network that arrives is merged into what is drawn.                 *)
(***************************************************************************)
EXTENDS Integers, Sequences, FiniteSetsExt

CONSTANTS Persons,   \* by their id
          Links,       \* TRANSMITTED_TO and STUDIED_UNDER, [from, to, kind]
          Generation,  \* the band of a narrator's generation, or Unknown
          Unknown,
          Cap,         \* the endpoint's limit
          NodeLimit,   \* NODE_LIMIT
          Sampled,     \* the narrators of the sample, best connected first
          Hidden, Nobody

ASSUME ExplorerAssumption ==
    /\ IsFiniteSet(Persons) /\ Nobody \notin Persons /\ Sampled \in Seq(Persons)
    /\ Cap \in Nat /\ NodeLimit \in Nat

VARIABLES explore   \* the component's state, Hidden when another page is shown

exploreVars == <<explore>>

Depths == 1..3
Layouts == {"force", "hierarchy", "radial", "tabaqa"}
TabaqaOrder == <<"sahabi", "tabii", "taba_tabii", "atba_taba_tabiin", "later">>
SuggestionCount == 6

ASSUME GenerationAssumption ==
    /\ Unknown \notin Range(TabaqaOrder)
    /\ Generation \in [Persons -> Range(TabaqaOrder) \cup {Unknown}]

-----------------------------------------------------------------------------
(* get_narrator_network *)

Transmits(a, b) == \E l \in Links : l.kind = "TRANSMITTED_TO" /\ {l.from, l.to} = {a, b}

Near(n, depth) ==
    LET within[k \in 0..depth] ==
            IF k = 0 THEN {n}
            ELSE within[k - 1] \cup {b \in Persons : \E a \in within[k - 1] : Transmits(a, b)}
    IN {m \in Persons \ {n} : m \in within[depth]}

LinksAmong(nodes) == {l \in Links : l.from \in nodes /\ l.to \in nodes}

\* LIMIT without an order: any neighbours, up to so many.  From depth 2 on a path
\* may lead back to the narrator, who then takes one of the places.
Networks(n, depth) ==
    LET pools == {Near(n, depth)} \cup IF depth > 1 THEN {Near(n, depth) \cup {n}} ELSE {}
        Cut(pool) == kSubset(Min({Cap, Cardinality(pool)}), pool)
    IN {[nodes |-> {n} \cup near, edges |-> LinksAmong({n} \cup near)] :
           near \in UNION {Cut(pool) : pool \in pools}}

(* tabaqa.ts *)

BandKeys == Append(TabaqaOrder, Unknown)

\* The places in that order of the bands that have a node.
Bands(nodes) == {i \in DOMAIN BandKeys : \E n \in nodes : Generation[n] = BandKeys[i]}

\* A band's index among those that are there.
TabaqaRank(nodes) ==
    [n \in nodes |->
        Cardinality({i \in Bands(nodes) :
            i < CHOOSE own \in DOMAIN BandKeys : BandKeys[own] = Generation[n]})]

(* What is handed to the canvas, and what it lights. *)

GraphData(s) ==
    [nodes |-> s.nodes, links |-> s.edges,
     pinned |-> IF s.layout = "tabaqa" THEN TabaqaRank(s.nodes) ELSE <<>>]

Lit(s) ==
    IF s.selected = Nobody THEN s.nodes
    ELSE {s.selected} \cup {n \in s.nodes : \E l \in s.edges : {l.from, l.to} = {n, s.selected}}

OverLimit(s) == Cardinality(s.nodes) > NodeLimit

Suggestions == Range(SubSeq(Sampled, 1, Min({SuggestionCount, Len(Sampled)})))

-----------------------------------------------------------------------------
Explorer ==
    [selected : Persons \cup {Nobody}, depth : Depths,
     nodes : SUBSET Persons, edges : SUBSET Links, layout : Layouts,
     detail : BOOLEAN, searching : BOOLEAN, dropdown : BOOLEAN,
     filters : BOOLEAN,
     network : {"none", "loading", "there", "lost"},
     sample : {"loading", "there", "lost"},
     seeded : BOOLEAN,   \* didAutoSeedRef
     by : {"nobody", "seed", "reader", "reset"}]  \* who last chose what is shown (history)

Fresh ==
    [selected |-> Nobody, depth |-> 1, nodes |-> {}, edges |-> {}, layout |-> "force",
     detail |-> FALSE, searching |-> FALSE, dropdown |-> FALSE, filters |-> FALSE,
     network |-> "none", sample |-> "loading", seeded |-> FALSE, by |-> "nobody"]

\* The effect on networkData: nodes are replaced, edges that are there are kept.
Merge(s, network) ==
    [s EXCEPT !.network = "there", !.nodes = @ \cup network.nodes, !.edges = @ \cup network.edges]

\* The render with state t: another narrator or depth is another query, whose
\* answer is there at once when it is cached.
Drawings(t) ==
    IF t.selected = Nobody THEN {[t EXCEPT !.network = "none"]}
    ELSE IF <<t.selected, t.depth>> = <<explore.selected, explore.depth>> THEN {t}
    ELSE {[t EXCEPT !.network = "loading"]} \cup {Merge(t, w) : w \in Networks(t.selected, t.depth)}

Draw(t) == explore' \in Drawings(t)

MutSeeded(t) ==
    IF t.sample = "there" /\ t.selected = Nobody /\ Sampled # <<>>
    THEN [t EXCEPT !.seeded = TRUE, !.selected = Sampled[1], !.by = "seed"] ELSE t

\* The effect that seeds the page.
Seeded(t) ==
    IF t.sample = "there" /\ ~t.seeded /\ t.selected = Nobody /\ Sampled # <<>>
    THEN [t EXCEPT !.seeded = TRUE, !.selected = Sampled[1], !.by = "seed"] ELSE t

ExplorerInit == explore = Hidden

\* The sample is there at once when it is cached.
MountExplorer ==
    /\ explore = Hidden
    /\ \/ explore' = Fresh
       \/ LET t == Seeded([Fresh EXCEPT !.sample = "there"])
          IN explore' \in {[t EXCEPT !.network = IF t.selected = Nobody THEN "none" ELSE "loading"]}

LeaveExplorer == explore # Hidden /\ explore' = Hidden

SampleArrives == explore.sample = "loading" /\ Draw(Seeded([explore EXCEPT !.sample = "there"]))

SampleLost == explore.sample = "loading" /\ Draw([explore EXCEPT !.sample = "lost"])

\* Also a network that is there, fetched again.
NetworkArrives ==
    /\ explore.network # "none"
    /\ explore' \in {Merge(explore, w) : w \in Networks(explore.selected, explore.depth)}

NetworkLost == explore.network = "loading" /\ Draw([explore EXCEPT !.network = "lost"])

\* The search box: its dropdown lists narrators of the whole graph.
TypeNarrator == Draw([explore EXCEPT !.searching = TRUE, !.dropdown = TRUE])

ClearSearch == explore.searching /\ Draw([explore EXCEPT !.searching = FALSE, !.dropdown = FALSE])

SelectSearch(n) ==
    /\ explore.searching /\ explore.dropdown
    /\ Draw([explore EXCEPT !.selected = n, !.searching = FALSE, !.dropdown = FALSE,
                              !.detail = TRUE, !.by = "reader"])

\* The chips of the empty canvas.
SelectSuggested(n) ==
    /\ explore.nodes = {} /\ explore.sample = "there"
    /\ Draw([explore EXCEPT !.seeded = TRUE, !.selected = n, !.searching = FALSE,
                              !.dropdown = FALSE, !.by = "reader"])

ClickNode(n) ==
    /\ n \in GraphData(explore).nodes
    /\ Draw([explore EXCEPT !.selected = n, !.detail = TRUE, !.by = "reader"])

SetDepth(d) == d # explore.depth /\ Draw([explore EXCEPT !.depth = d])

SetLayout(mode) == mode # explore.layout /\ Draw([explore EXCEPT !.layout = mode])

CloseDetail ==
    /\ explore.detail /\ explore.selected # Nobody
    /\ Draw([explore EXCEPT !.detail = FALSE])

EscapeKey ==
    /\ explore.detail \/ explore.dropdown
    /\ Draw(IF explore.detail THEN [explore EXCEPT !.detail = FALSE]
                                ELSE [explore EXCEPT !.dropdown = FALSE])

\* The banner over NODE_LIMIT only opens the filters.
ToggleFilters ==
    \/ Draw([explore EXCEPT !.filters = ~@])
    \/ OverLimit(explore) /\ Draw([explore EXCEPT !.filters = TRUE])

MutResetGraph ==
    Draw([explore EXCEPT !.seeded = TRUE, !.nodes = {}, !.selected = Nobody,
                           !.searching = FALSE, !.detail = FALSE, !.by = "reset"])

ResetGraph ==
    Draw([explore EXCEPT !.seeded = TRUE, !.nodes = {}, !.edges = {}, !.selected = Nobody,
                           !.searching = FALSE, !.detail = FALSE, !.by = "reset"])

ExplorerNext ==
    \/ MountExplorer
    \/ /\ explore # Hidden
       /\ \/ SampleArrives \/ SampleLost \/ NetworkArrives \/ NetworkLost
          \/ TypeNarrator \/ ClearSearch \/ CloseDetail \/ EscapeKey \/ ToggleFilters \/ ResetGraph
          \/ \E n \in Persons : SelectSearch(n) \/ ClickNode(n)
          \/ \E n \in Suggestions : SelectSuggested(n)
          \/ \E d \in Depths : SetDepth(d)
          \/ \E mode \in Layouts : SetLayout(mode)
          \/ LeaveExplorer

ExplorerSpec == ExplorerInit /\ [][ExplorerNext]_exploreVars

-----------------------------------------------------------------------------
ExplorerTypeOK == explore \in Explorer \cup {Hidden}

\* Every edge that is drawn joins two nodes that are drawn, whatever networks,
\* cut off anywhere, were merged and however they raced a reset: the simulation
\* throws on an edge without its nodes.
CanvasClosed ==
    explore # Hidden => \A l \in explore.edges : {l.from, l.to} \subseteq explore.nodes

\* A reset canvas stays blank until the reader picks a narrator: neither the
\* sample nor a network asked for before puts anything back.
ResetSticks ==
    explore # Hidden /\ explore.by = "reset" => explore.nodes = {} /\ explore.selected = Nobody

\* What is picked is drawn once its network is there, with all its links to
\* whatever its own network brought.
PickIsDrawn ==
    explore # Hidden /\ explore.network = "there" =>
        /\ explore.selected \in explore.nodes
        /\ Lit(explore) \subseteq explore.nodes
        /\ explore.depth = 1 /\ Cardinality(Near(explore.selected, 1)) <= Cap =>
               Near(explore.selected, 1) \subseteq Lit(explore)

\* The bands read from the earliest generation down, without a gap, and whoever
\* has none stands below all others.
BandsChronological ==
    explore # Hidden =>
        LET rank == TabaqaRank(explore.nodes)
            Order(n) == IF Generation[n] = Unknown THEN Len(TabaqaOrder) + 1
                        ELSE CHOOSE i \in DOMAIN TabaqaOrder : TabaqaOrder[i] = Generation[n]
        IN /\ \A a, b \in explore.nodes : rank[a] < rank[b] <=> Order(a) < Order(b)
           /\ Range(rank) = 0 .. (Cardinality(Range(rank)) - 1)

\* What the canvas draws.
ExplorerInv ==
    ExplorerTypeOK /\ CanvasClosed /\ ResetSticks /\ PickIsDrawn /\ BandsChronological

\* The page picks by itself only before the reader ever did, or cleared it.
SeedsOnlyUntouched ==
    [][explore # Hidden /\ explore' # Hidden /\ explore'.by = "seed" /\ explore.by # "seed"
          => explore.by = "nobody"]_exploreVars
=============================================================================
