---------------------------- MODULE SourcePurge -----------------------------
(***************************************************************************)
(* Removing everything one source corpus loaded: POST /admin/data/purge    *)
(* (admin/data.py) and the panel that drives it (DataManagementPage's      *)
(* PurgeSection).                                                          *)
(*                                                                         *)
(* The graph is the number of nodes per source_corpus: DETACH DELETE takes *)
(* a node's edges with it, and relationship counts are reported exactly as *)
(* node counts are.  A handler's reads and each of its batches are         *)
(* transactions of their own, so other purges and loads run in between.    *)
(* The answer and the audit entry (best-effort, external) carry the same   *)
(* numbers, hence are one step.                                            *)
(***************************************************************************)
EXTENDS Naturals

CONSTANTS Names,        \* non-blank texts a caller may send as source_corpus
          Corpora,      \* those that are corpora of the graph
          Strip,        \* str.strip() on Names
          Panels,       \* open DataManagementPages
          PurgeRequests,     \* purge requests the backend runs at a time (a bound)
          ApiCalls,     \* <<source_corpus, confirmation>> sent by other clients (a bound)
          Nil,
          PurgeBatch,        \* _PURGE_BATCH_SIZE
          Size,         \* nodes each name's source has, all loaded at first
          MaxLoads      \* nodes loaded by ingestion meanwhile (a bound)

ASSUME NamesAssumption == /\ Corpora \subseteq Names /\ Names # {} /\ Nil \notin Names \cup PurgeRequests
                          /\ Strip \in [Names -> Names]
                          /\ ApiCalls \subseteq Names \X (Names \cup {Nil})
ASSUME BatchAssumption == PurgeBatch \in Nat \ {0} /\ MaxLoads \in Nat
ASSUME SizeAssumption == /\ Size \in [Names -> Nat]
                         /\ \A n \in Names \ Corpora : Size[n] = 0

VARIABLES count,   \* nodes of each corpus
          panel,   \* React state of each PurgeSection
          purges,     \* the backend's handlers
          loads    \* nodes loaded so far

purgeVars == <<count, panel, purges, loads>>

PanelState == [selected : Corpora \cup {Nil},
               confirm : Names \cup {Nil},     \* confirmText; Nil: no such name
               preview : Corpora \cup {Nil},   \* the corpus previewed
               previewing : Corpora \cup {Nil},
               purging : PurgeRequests \cup {Nil}]
HandlerState == [st : {"none", "received", "deleting", "done", "refused", "failed"},
                 corpus : Names, confirmation : Names \cup {Nil},
                 counted : Nat, deleted : Nat,
                 alone : BOOLEAN]   \* counted, and no one else has changed
                                    \* the corpus since (history)

PurgeTypeOK == /\ count \in [Names -> Nat]
          /\ panel \in [Panels -> PanelState]
          /\ purges \in [PurgeRequests -> HandlerState]
          /\ loads \in Nat

NewPanel == [selected |-> Nil, confirm |-> Nil, preview |-> Nil,
             previewing |-> Nil, purging |-> Nil]
Received(name, confirmation) ==
    [st |-> "received", corpus |-> Strip[name], confirmation |-> confirmation,
     counted |-> 0, deleted |-> 0, alone |-> FALSE]
NoPurge == [Received(CHOOSE n \in Names : TRUE, Nil) EXCEPT !.st = "none"]

\* An HTTP error tells its status and no numbers.
Error(r, st) == [r EXCEPT !.st = st, !.counted = 0, !.deleted = 0, !.alone = FALSE]

PurgeInit == /\ count = Size
        /\ panel = [p \in Panels |-> NewPanel]
        /\ purges = [q \in PurgeRequests |-> NoPurge]
        /\ loads = 0

-----------------------------------------------------------------------------
(* PurgeSection. *)

Select(p, c) ==
    /\ panel' = [panel EXCEPT ![p].selected = c, ![p].confirm = Nil, ![p].preview = Nil]
    /\ UNCHANGED <<count, purges, loads>>

\* The confirmation input is there once there is a preview.
Type(p, text) ==
    /\ panel[p].preview # Nil
    /\ panel' = [panel EXCEPT ![p].confirm = text]
    /\ UNCHANGED <<count, purges, loads>>

Preview(p) ==
    /\ panel[p].selected # Nil /\ panel[p].previewing = Nil
    /\ panel' = [panel EXCEPT ![p].previewing = panel[p].selected]
    /\ UNCHANGED <<count, purges, loads>>

\* previewMutation settles: a result is shown whatever is selected by now.
PreviewSettles(p) ==
    /\ panel[p].previewing # Nil
    /\ \E shown \in {panel[p].previewing, panel[p].preview} :   \* success, failure
          panel' = [panel EXCEPT ![p].previewing = Nil, ![p].preview = shown]
    /\ UNCHANGED <<count, purges, loads>>

CanPurge(p) ==
    /\ panel[p].selected # Nil /\ panel[p].preview # Nil
    /\ panel[p].confirm = panel[p].selected
    /\ panel[p].purging = Nil

Purge(p, q) ==
    /\ CanPurge(p)
    /\ purges[q].st = "none"
    /\ purges' = [purges EXCEPT ![q] = Received(panel[p].selected, panel[p].confirm)]
    /\ panel' = [panel EXCEPT ![p].purging = q]
    /\ UNCHANGED <<count, loads>>

\* The page is left or reloaded: the backend does not notice.
LeavePanel(p) ==
    /\ panel' = [panel EXCEPT ![p] = NewPanel]
    /\ UNCHANGED <<count, purges, loads>>

-----------------------------------------------------------------------------
(* purge_source. *)

\* An administrator's own client calls the API.
ApiPurge(q, call) ==
    /\ purges[q].st = "none"
    /\ purges' = [purges EXCEPT ![q] = Received(call[1], call[2])]
    /\ UNCHANGED <<count, panel, loads>>

MutConfirmed(r) == r.confirmation # Nil

Confirmed(r) == r.confirmation = r.corpus

\* _purge_node_counts: an error degrades to nothing counted.
Counted(c, ok) == IF ok THEN count[c] ELSE 0

\* Count, then the confirmation gate.
Begin(q) ==
    LET r == purges[q] IN
    /\ r.st = "received"
    /\ \E ok \in BOOLEAN :
          purges' = [purges EXCEPT ![q] =
                     IF Confirmed(r)
                     THEN [r EXCEPT !.st = "deleting", !.alone = ok,
                                    !.counted = Counted(r.corpus, ok)]
                     ELSE Error(r, "refused")]
    /\ UNCHANGED <<count, panel, loads>>

\* The other handlers no longer have the corpus to themselves.
Disturb(c, f) == [o \in PurgeRequests |->
    IF f[o].corpus = c THEN [f[o] EXCEPT !.alone = FALSE] ELSE f[o]]

Least(m, n) == IF m < n THEN m ELSE n

MutExhausted(deleted) == deleted <= PurgeBatch

MutNeverExhausted(deleted) == deleted > PurgeBatch

\* A short batch means that the corpus is exhausted.
Exhausted(deleted) == deleted < PurgeBatch

MutDeleteBatch(q) ==
    LET r == purges[q]
        deleted == Least(count[r.corpus], PurgeBatch)
    IN /\ r.st = "deleting"
       /\ count' = [count EXCEPT ![r.corpus] = @ - deleted]
       /\ purges' = [Disturb(r.corpus, purges) EXCEPT ![q] =
                     [r EXCEPT !.deleted = deleted,
                               !.st = IF Exhausted(deleted) THEN "done" ELSE "deleting"]]
       /\ UNCHANGED <<panel, loads>>

DeleteBatch(q) ==
    LET r == purges[q]
        deleted == Least(count[r.corpus], PurgeBatch)
    IN /\ r.st = "deleting"
       /\ count' = [count EXCEPT ![r.corpus] = @ - deleted]
       /\ purges' = [Disturb(r.corpus, purges) EXCEPT ![q] =
                     [r EXCEPT !.deleted = @ + deleted,
                               !.st = IF Exhausted(deleted) THEN "done" ELSE "deleting"]]
       /\ UNCHANGED <<panel, loads>>

\* The batch's transaction fails, or commits without the handler learning so;
\* batches already committed stay committed.
BatchFails(q) ==
    LET r == purges[q] IN
    /\ r.st = "deleting"
    /\ \E deleted \in {0, Least(count[r.corpus], PurgeBatch)} :
          /\ count' = [count EXCEPT ![r.corpus] = @ - deleted]
          /\ purges' = [(IF deleted = 0 THEN purges ELSE Disturb(r.corpus, purges))
                        EXCEPT ![q] = Error(r, "failed")]
    /\ UNCHANGED <<panel, loads>>

\* The answer reaches the panel that waits for it, if any, or is lost.  Only
\* success resets the panel: after a failure its operator may click again.
AnswerPurge(q) ==
    /\ purges[q].st \in {"done", "refused", "failed"}
    /\ purges' = [purges EXCEPT ![q] = NoPurge]
    /\ \E heard \in BOOLEAN :
          panel' = [p \in Panels |->
              IF panel[p].purging # q THEN panel[p]
              ELSE IF heard /\ purges[q].st = "done"
              THEN [panel[p] EXCEPT !.purging = Nil, !.confirm = Nil, !.preview = Nil]
              ELSE [panel[p] EXCEPT !.purging = Nil]]
    /\ UNCHANGED <<count, loads>>

\* Ingestion loads a missing node of corpus c again.
LoadNode(c) ==
    /\ loads < MaxLoads /\ count[c] < Size[c]
    /\ loads' = loads + 1
    /\ count' = [count EXCEPT ![c] = @ + 1]
    /\ purges' = Disturb(c, purges)
    /\ UNCHANGED panel

PurgeNext ==
    \/ \E p \in Panels :
          \/ \E c \in Corpora \cup {Nil} : Select(p, c)
          \/ \E text \in Corpora \cup {Nil} : Type(p, text)
          \/ Preview(p) \/ PreviewSettles(p) \/ LeavePanel(p)
          \/ \E q \in PurgeRequests : Purge(p, q)
    \/ \E q \in PurgeRequests :
          \/ \E call \in ApiCalls : ApiPurge(q, call)
          \/ Begin(q) \/ DeleteBatch(q) \/ BatchFails(q) \/ AnswerPurge(q)
    \/ \E c \in Corpora : LoadNode(c)

PurgeSpec == PurgeInit /\ [][PurgeNext]_purgeVars

\* The backend runs the handlers it has started.
PurgeFairness == \A q \in PurgeRequests : WF_purgeVars(DeleteBatch(q))

-----------------------------------------------------------------------------
(* Properties. *)

\* Nodes of a corpus disappear only at the hands of a handler whose caller
\* typed that corpus's name, however requests, panels and loads interleave.
NoCollateral ==
    [][\A c \in Names : count'[c] < count[c] =>
          \E q \in PurgeRequests : /\ purges[q].st = "deleting"
                              /\ purges[q].corpus = c /\ purges[q].confirmation = c]_purgeVars

\* A handler that reports success has seen its corpus empty: stopping at a
\* short batch leaves nothing behind, although other purges and loads change
\* the number of nodes between its batches.
DoneMeansGone ==
    [][\A q \in PurgeRequests : purges[q].st = "deleting" /\ purges'[q].st = "done" =>
          count'[purges[q].corpus] = 0]_purgeVars

\* The numbers reported and audited, taken before the first batch, are those
\* removed when nothing else changed the corpus meanwhile.
ReportTrueAlone ==
    \A q \in PurgeRequests : LET r == purges[q] IN
        /\ r.alone /\ r.st = "deleting" => r.counted = r.deleted + count[r.corpus]
        /\ r.alone /\ r.st = "done" => r.counted = r.deleted

\* Every purge ends, once ingestion lets it.
PurgeEnds ==
    \A q \in PurgeRequests : purges[q].st = "deleting" ~> purges[q].st # "deleting"

\* "a confirmation can never carry over onto a corpus it wasn't reviewed for"
\* (DataManagementPage): where the purge button is enabled, the corpus it would
\* purge is the one previewed.
PurgeIsReviewed == \A p \in Panels : CanPurge(p) => panel[p].preview = panel[p].selected

-----------------------------------------------------------------------------
(* The inductive strengthening of ReportTrueAlone. *)

\* Whoever deletes has passed the confirmation gate; whoever has not begun has
\* deleted nothing.
InOrder(r) == /\ r.st = "deleting" => r.confirmation = r.corpus
              /\ r.st = "received" => r.deleted = 0
GatePassed == \A q \in PurgeRequests : InOrder(purges[q])

\* Every deletion is confirmed, and its numbers are right while it is alone.
PurgeInv == PurgeTypeOK /\ GatePassed /\ ReportTrueAlone
=============================================================================
