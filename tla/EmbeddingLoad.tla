---------------------------- MODULE EmbeddingLoad ----------------------------
(***************************************************************************)
(* The `isnad embed-hadiths` job and the recall gate (enrich/embeddings.py)*)
(* with the smoke check of the deployed endpoint (api/semantic_smoke.py).  *)
(* The job copies the graph's hadiths to Postgres and their vectors beside *)
(* them, chunk by chunk, the two tables in transactions of their own; it   *)
(* may stop between any two, and jobs may overlap.  A vector is known by   *)
(* the text and the embedder it was made of.                               *)
(***************************************************************************)
EXTENDS Integers, FiniteSetsExt

CONSTANTS Hadiths, Jobs,
          Matns,       \* the matns a hadith may have, [ar, en]
          NoText,        \* no such column value
          EmptyText,       \* ''
          Blanks,      \* texts of white space only
          Scopes,      \* what --limit, --include and --exclude leave to be read
          Embedders, DimOf,  \* EMBEDDING_MODEL and the width of its vectors
          Batch,       \* --batch-size
          Missing

ASSUME LoadAssumption ==
    /\ Batch \in Nat \ {0} /\ IsFiniteSet(Hadiths)
    /\ NoText # EmptyText /\ {NoText, EmptyText} \cap Blanks = {}
    /\ Scopes \subseteq SUBSET Hadiths /\ Embedders # {} /\ \A e \in Embedders : DimOf[e] # Missing

VARIABLES graph,    \* Neo4j's hadiths
          mirror,   \* isnad_graph.hadiths
          vectors,  \* isnad_graph.hadith_embeddings
          width,    \* of the embedding column, Missing before the table
          load,     \* the state of each job
          torn      \* hadiths whose mirror and vector two writes left apart (history)

loadVars == <<graph, mirror, vectors, width, load, torn>>

Falsy == {NoText, EmptyText}

\* embedding_text: (matn_en or matn_ar or "").strip()
EmbeddingText(m) ==
    LET matn == IF m.en \notin Falsy THEN m.en ELSE IF m.ar \notin Falsy THEN m.ar ELSE EmptyText
    IN IF matn \in Blanks THEN EmptyText ELSE matn

\* _EMBEDDABLE_COUNT_SQL: coalesce(matn_en, matn_ar, '') <> ''
Embeddable(m) ==
    LET matn == IF m.en # NoText THEN m.en ELSE IF m.ar # NoText THEN m.ar ELSE EmptyText
    IN matn # EmptyText

Texts == {EmbeddingText(m) : m \in Matns} \ {EmptyText}
Mirrored == {h \in Hadiths : mirror[h] # Missing}
Embedded == {h \in Hadiths : vectors[h] # Missing}

Load == [st : {"idle", "schema", "read", "hadiths", "embeddings", "done", "failed"},
         by : Embedders, scope : SUBSET Hadiths,
         rows : [Hadiths -> Matns \cup {Missing}],  \* fetched and not yet written
         chunk : SUBSET Hadiths,
         stale : SUBSET Hadiths,  \* that the ingest has changed since the fetch (history)
         alone : BOOLEAN]   \* the only job since it was launched (history)

LoadTypeOK ==
    /\ graph \in [Hadiths -> Matns \cup {Missing}]
    /\ mirror \in [Hadiths -> Matns \cup {Missing}]
    /\ vectors \in [Hadiths -> [text : Texts, by : Embedders] \cup {Missing}]
    /\ width \in {DimOf[e] : e \in Embedders} \cup {Missing}
    /\ load \in [Jobs -> Load]
    /\ torn \subseteq Hadiths

NoRows == [h \in Hadiths |-> Missing]

LoadInit ==
    /\ graph \in [Hadiths -> Matns \cup {Missing}]
    /\ mirror = NoRows /\ vectors = NoRows /\ width = Missing /\ torn = {}
    /\ load = [j \in Jobs |-> [st |-> "idle", by |-> CHOOSE e \in Embedders : TRUE, scope |-> {}, rows |-> NoRows,
                               chunk |-> {}, stale |-> {}, alone |-> FALSE]]

Loading == {j \in Jobs : load[j].st \notin {"idle", "done", "failed"}}

-----------------------------------------------------------------------------
EmbedHadiths(j, e, scope) ==
    /\ j \notin Loading
    /\ load' = [k \in Jobs |->
           IF k = j THEN [st |-> "schema", by |-> e, scope |-> scope, rows |-> NoRows,
                          chunk |-> {}, stale |-> {}, alone |-> Loading = {}]
           ELSE [load[k] EXCEPT !.alone = FALSE]]
    /\ UNCHANGED <<graph, mirror, vectors, width, torn>>

\* ensure_embedding_schema: a table that is there keeps its width.
EnsureEmbeddingSchema(j) ==
    /\ load[j].st = "schema"
    /\ width' = IF width = Missing THEN DimOf[load[j].by] ELSE width
    /\ load' = [load EXCEPT ![j].st = "read"]
    /\ UNCHANGED <<graph, mirror, vectors, torn>>

\* The chunk after this one, or the end.
NextChunk(l, rows) ==
    LET left == {h \in Hadiths : rows[h] # Missing}
    IN IF left = {} THEN {[l EXCEPT !.st = "done", !.rows = rows, !.chunk = {}, !.stale = {}]}
       ELSE {[l EXCEPT !.st = "hadiths", !.rows = rows, !.chunk = c] :
                c \in {c \in SUBSET left : Cardinality(c) = Min({Batch, Cardinality(left)})}}

\* fetch_hadiths_from_neo4j
FetchHadiths(j) ==
    /\ load[j].st = "read"
    /\ \E l \in NextChunk(load[j], [h \in Hadiths |->
                              IF h \in load[j].scope THEN graph[h] ELSE Missing]) :
          load' = [load EXCEPT ![j] = l]
    /\ UNCHANGED <<graph, mirror, vectors, width, torn>>

WithText(l) == {h \in l.chunk : EmbeddingText(l.rows[h]) # EmptyText}

Written(l) == [h \in Hadiths |-> IF h \in l.chunk THEN Missing ELSE l.rows[h]]

\* The vector that is there was made of another text than the mirror's.
Apart(m, v) == {h \in Hadiths : v[h] # Missing /\ v[h].text # EmbeddingText(m[h])}

\* execute_many(_UPSERT_HADITH_SQL), empty matns included.  A chunk with no
\* text is done with that.
UpsertHadiths(j) ==
    LET l == load[j] IN
    /\ l.st = "hadiths"
    /\ mirror' = [h \in Hadiths |-> IF h \in l.chunk THEN l.rows[h] ELSE mirror[h]]
    /\ IF WithText(l) = {} THEN \E next \in NextChunk(l, Written(l)) : load' = [load EXCEPT ![j] = next]
                           ELSE load' = [load EXCEPT ![j].st = "embeddings"]
    /\ torn' = (IF l.alone THEN torn ELSE torn \cup Apart(mirror', vectors))
    /\ UNCHANGED <<graph, vectors, width>>

MutUpsertEmbeddings(j) ==
    LET l == load[j] IN
    /\ l.st = "embeddings"
    /\ DimOf[l.by] = width
    /\ vectors' = [h \in Hadiths |->
           IF h \in WithText(l) /\ vectors[h] = Missing
           THEN [text |-> EmbeddingText(l.rows[h]), by |-> l.by] ELSE vectors[h]]
    /\ \E next \in NextChunk(l, Written(l)) : load' = [load EXCEPT ![j] = next]
    /\ torn' = (IF l.alone THEN torn \ WithText(l) ELSE torn \cup Apart(mirror, vectors'))
    /\ UNCHANGED <<graph, mirror, width>>

\* execute_many(_UPSERT_EMBEDDING_SQL): the column's width refuses vectors of
\* another embedder.
UpsertEmbeddings(j) ==
    LET l == load[j] IN
    /\ l.st = "embeddings"
    /\ DimOf[l.by] = width
    /\ vectors' = [h \in Hadiths |->
           IF h \in WithText(l) THEN [text |-> EmbeddingText(l.rows[h]), by |-> l.by]
                                ELSE vectors[h]]
    /\ \E next \in NextChunk(l, Written(l)) : load' = [load EXCEPT ![j] = next]
    /\ torn' = (IF l.alone THEN torn \ WithText(l) ELSE torn \cup Apart(mirror, vectors'))
    /\ UNCHANGED <<graph, mirror, width>>

\* A statement is refused (that of a wrong width always is), or the process dies.
LoadFails(j) ==
    /\ j \in Loading
    /\ load' = [load EXCEPT ![j].st = "failed", ![j].rows = NoRows, ![j].chunk = {},
                            ![j].stale = {}, ![j].alone = FALSE]
    /\ torn' = torn \cup Apart(mirror, vectors)
    /\ UNCHANGED <<graph, mirror, vectors, width>>

\* The ingest: a hadith comes, goes or gets another matn.
IngestHadith(h, m) ==
    /\ graph[h] # m
    /\ graph' = [graph EXCEPT ![h] = m]
    /\ load' = [j \in Jobs |-> IF load[j].st \in {"hadiths", "embeddings"}
                                 THEN [load[j] EXCEPT !.stale = @ \cup {h}] ELSE load[j]]
    /\ UNCHANGED <<mirror, vectors, width, torn>>

LoadNext ==
    \/ \E j \in Jobs :
          \/ \E e \in Embedders, scope \in Scopes : EmbedHadiths(j, e, scope)
          \/ EnsureEmbeddingSchema(j) \/ FetchHadiths(j)
          \/ UpsertHadiths(j) \/ UpsertEmbeddings(j) \/ LoadFails(j)
    \/ \E h \in Hadiths, m \in Matns \cup {Missing} : IngestHadith(h, m)

LoadSpec == LoadInit /\ [][LoadNext]_loadVars

-----------------------------------------------------------------------------
(* The gates.  A ranking by vectors of one embedder with a query of another *)
(* means nothing: Relevant is the outcome of the keyword checks.            *)

StructuralOk == Embedded # {} /\
    Cardinality(Embedded) = Cardinality({h \in Mirrored : Embeddable(mirror[h])})

Relevant(by) == Embedded # {} /\ \A h \in Embedded : vectors[h].by = by

\* verify_recall, run in the embed container with its own embedder; an embedder
\* of another width makes the query an error.
VerifyRecall(by) == width = DimOf[by] /\ StructuralOk /\ Relevant(by)

-----------------------------------------------------------------------------
\* Every vector belongs to a mirrored hadith and was made of its text, except
\* while a job is between its two writes of a chunk, where a job once failed or
\* jobs overlapped there, and where the hadith has lost its text since.
Between == UNION {load[j].chunk : j \in {k \in Jobs : load[k].st = "embeddings"}}

VectorsFollowMirror ==
    \A h \in Embedded \ (torn \cup Between) :
        mirror[h] # Missing /\ EmbeddingText(mirror[h]) \in {vectors[h].text, EmptyText}

\* A job that was alone leaves in Postgres what it had to read in the graph.
LoadIsComplete ==
    [][\A j \in Jobs : load[j].st \notin {"done", "idle"} /\ load'[j].st = "done" /\ load[j].alone =>
          \A h \in load[j].scope \ load[j].stale : graph[h] # Missing =>
              /\ mirror'[h] = graph[h]
              /\ EmbeddingText(graph[h]) # EmptyText =>
                    vectors'[h] = [text |-> EmbeddingText(graph[h]), by |-> load[j].by]]_loadVars

\* The column's width never changes: an embedder of another width can only fail,
\* after its chunk of hadiths but before any of its vectors.
OneWidth == \A h \in Embedded : DimOf[vectors[h].by] = width

\* The counts may agree with a vector missing only if another vector is left of
\* a hadith that is no longer embeddable.
GateCounts ==
    StructuralOk => \/ \A h \in Mirrored : Embeddable(mirror[h]) => h \in Embedded
                    \/ \E h \in Embedded : ~ Embeddable(mirror[h])

\* verify_recall's docstring: "every embeddable hadith was embedded; not a
\* partial load".
GateCatchesPartialLoad ==
    \A by \in Embedders : VerifyRecall(by) =>
        \A j \in Jobs : load[j].st = "failed" =>
            \A h \in load[j].scope : graph[h] # Missing /\ EmbeddingText(graph[h]) # EmptyText
                                        => h \in Embedded

LoadInv == LoadTypeOK /\ VectorsFollowMirror /\ OneWidth /\ GateCounts
=============================================================================
