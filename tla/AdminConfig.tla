----------------------------- MODULE AdminConfig -----------------------------
(***************************************************************************)
(* PATCH /admin/config (admin/config.py, update_config) and what follows   *)
(* it into Loki's runtime overrides file (loki_retention.py).              *)
(*                                                                         *)
(* Every statement of a handler commits by itself and handlers run in a    *)
(* thread pool, so others run in between.  The audit table is known by the *)
(* new_value of each key's latest row, the overrides file by the value on  *)
(* its retention_period line: the texts stored and read back (str, int,    *)
(* JSON) stand for the same values, and differ in width.  A setting nobody *)
(* has changed has its default, and counts as audited so.                  *)
(***************************************************************************)
EXTENDS Naturals

CONSTANTS Keys,       \* the fields of SystemConfig
          Retention,  \* log_retention_days
          Rank,       \* the order in which the model declares the fields
          Values,
          Width,      \* length of a value's text in the overrides file
          Keep,       \* a field the request leaves alone
          Keyless,    \* no overrides file, or no retention_period line in it
          Requests    \* handlers running at a time (a bound)

ASSUME KeysAssumption == Retention \in Keys /\ Keep \notin Values /\ Keyless \notin Values
ASSUME OrderAssumption == /\ Rank \in [Keys -> Nat] /\ Width \in [Values -> Nat]
                          /\ \A j, k \in Keys : Rank[j] = Rank[k] => j = k

VARIABLES config,     \* system_config over the defaults
          audited,    \* new_value of each key's latest config_audit row
          file,       \* the overrides file
          req,        \* the handlers
          muddled,    \* keys whose latest row may not tell what is stored, and
          adrift,     \* the file may not either: handlers met, or one failed
          overlapped  \* two retention changes have met (history, all three)

vars == <<config, audited, file, req, muddled, adrift, overlapped>>

FileState == [value : Values \cup {Keyless}, mixed : BOOLEAN]  \* bytes of two texts
RequestState ==
    [st : {"none", "received", "upserting", "auditing",
           "reading", "truncating", "writing", "answering"},
     updates : [Keys -> Values \cup {Keep}],
     todo : SUBSET Keys,       \* keys not yet stored and audited
     current : [Keys -> Values \cup {Keep}],   \* as loaded
     mixed : BOOLEAN,          \* so is the text about to be written
     shared : SUBSET Keys]     \* its keys that another handler works on (history)

TypeOK == /\ config \in [Keys -> Values] /\ audited \in [Keys -> Values]
          /\ file \in FileState
          /\ req \in [Requests -> RequestState]
          /\ muddled \subseteq Keys /\ adrift \in BOOLEAN /\ overlapped \in BOOLEAN

NoRequest == [st |-> "none", updates |-> [k \in Keys |-> Keep], todo |-> {},
              current |-> [k \in Keys |-> Keep], mixed |-> FALSE, shared |-> {}]

\* The deployment seeds the file with the default, or does not mount it.
Init == /\ config \in [Keys -> Values] /\ audited = config
        /\ file \in [value : {config[Retention], Keyless}, mixed : {FALSE}]
        /\ req = [q \in Requests |-> NoRequest]
        /\ muddled = {} /\ adrift = (file.value = Keyless) /\ overlapped = FALSE

Fields(r) == {k \in Keys : r.updates[k] # Keep}

\* Handlers between their load of the current values and their answer.
Busy(q) == req[q].st \in {"upserting", "auditing", "reading", "truncating", "writing"}

-----------------------------------------------------------------------------
Receive(q, updates) ==
    /\ req[q].st = "none"
    /\ \E k \in Keys : updates[k] # Keep       \* else 400
    /\ req' = [req EXCEPT ![q] = [NoRequest EXCEPT !.st = "received", !.updates = updates]]
    /\ UNCHANGED <<config, audited, file, muddled, adrift, overlapped>>

Meeting(q) == {p \in Requests \ {q} : Busy(p)}
SharedWith(q, ps) == Fields(req[q]) \cap UNION {Fields(req[p]) : p \in ps}

\* `current`, for the audit rows of all the fields.
Load(q) ==
    /\ req[q].st = "received"
    /\ req' = [p \in Requests |->
          IF p = q THEN [req[q] EXCEPT !.st = "upserting", !.todo = Fields(req[q]),
                                       !.current = config, !.shared = SharedWith(q, Meeting(q))]
          ELSE IF Busy(p) THEN [req[p] EXCEPT !.shared = @ \cup SharedWith(q, {p})]
          ELSE req[p]]
    /\ overlapped' = (overlapped \/ Retention \in SharedWith(q, Meeting(q)))
    /\ UNCHANGED <<config, audited, file, muddled, adrift>>

\* The loop is at k: it runs over the fields in their order of declaration.
At(r, k) == k \in r.todo /\ \A j \in r.todo : Rank[k] <= Rank[j]

MutUpsertReloads(q, k) ==
    /\ req[q].st = "upserting" /\ At(req[q], k)
    /\ config' = [config EXCEPT ![k] = req[q].updates[k]]
    /\ req' = [req EXCEPT ![q].st = "auditing", ![q].current = config']
    /\ UNCHANGED <<audited, file, muddled, adrift, overlapped>>

Upsert(q, k) ==
    /\ req[q].st = "upserting" /\ At(req[q], k)
    /\ config' = [config EXCEPT ![k] = req[q].updates[k]]
    /\ req' = [req EXCEPT ![q].st = "auditing"]
    /\ UNCHANGED <<audited, file, muddled, adrift, overlapped>>

\* Where a handler goes when `todo` is left.
Then(r, todo) == IF todo # {} THEN "upserting"
                 ELSE IF Retention \in Fields(r) THEN "reading" ELSE "answering"

Audit(q, k) ==
    LET rest == req[q].todo \ {k} IN
    /\ req[q].st = "auditing" /\ At(req[q], k)
    /\ audited' = [audited EXCEPT ![k] = req[q].updates[k]]
    /\ req' = [req EXCEPT ![q].todo = rest, ![q].st = Then(req[q], rest)]
    /\ muddled' = IF k \in req[q].shared THEN muddled \cup {k} ELSE muddled \ {k}
    /\ UNCHANGED <<config, file, adrift, overlapped>>

-----------------------------------------------------------------------------
(* apply_loki_retention.  It never raises. *)

GiveUp(q) == /\ req' = [req EXCEPT ![q].st = "answering"]
             /\ adrift' = TRUE
             /\ UNCHANGED <<config, audited, file, muddled, overlapped>>

MutReadOverrides(q) ==
    /\ req[q].st = "reading"
    /\ req' = [req EXCEPT ![q].st = "truncating", ![q].mixed = file.mixed]
    /\ UNCHANGED <<config, audited, file, muddled, adrift, overlapped>>

\* The text is read; without a line to rewrite there is nothing to do.
ReadOverrides(q) ==
    /\ req[q].st = "reading"
    /\ IF file.value = Keyless
       THEN GiveUp(q)
       ELSE /\ req' = [req EXCEPT ![q].st = "truncating", ![q].mixed = file.mixed]
            /\ UNCHANGED <<config, audited, file, muddled, adrift, overlapped>>

\* open(target, "w").
Truncate(q) ==
    /\ req[q].st = "truncating"
    /\ file' = [value |-> Keyless, mixed |-> FALSE]
    /\ req' = [req EXCEPT ![q].st = "writing"]
    /\ UNCHANGED <<config, audited, muddled, adrift, overlapped>>

\* The text goes over what another writer has written since, if anything: a
\* longer or mixed text's last bytes stay behind it.
WriteOverrides(q) ==
    LET days == req[q].updates[Retention] IN
    /\ req[q].st = "writing"
    /\ file' = [value |-> days,
                mixed |-> req[q].mixed \/ file.mixed
                          \/ (file.value # Keyless /\ Width[file.value] > Width[days])]
    /\ adrift' = (Retention \in req[q].shared)
    /\ req' = [req EXCEPT ![q].st = "answering"]
    /\ UNCHANGED <<config, audited, muddled, overlapped>>

\* OSError in read_text, open or write.
OverridesError(q) ==
    /\ req[q].st \in {"reading", "truncating", "writing"}
    /\ GiveUp(q)

-----------------------------------------------------------------------------
\* Without a connection or with a failing statement the request ends; so it
\* does with its process.  What is committed stays, and so may the statement
\* under way: an upsert that nobody audits, an audit row.
Fail(q) ==
    LET r == req[q] IN
    /\ r.st # "none"
    /\ req' = [req EXCEPT ![q] = NoRequest]
    /\ adrift' = (adrift \/ (Busy(q) /\ Retention \in Fields(r)))
    /\ \E k \in Keys :
          \/ /\ UNCHANGED <<config, audited>>
             /\ muddled' = muddled \cup {j \in Keys : r.st = "auditing" /\ At(r, j)}
          \/ /\ r.st = "upserting" /\ At(r, k)
             /\ config' = [config EXCEPT ![k] = r.updates[k]]
             /\ muddled' = muddled \cup {k}
             /\ UNCHANGED audited
          \/ /\ r.st = "auditing" /\ At(r, k)
             /\ audited' = [audited EXCEPT ![k] = r.updates[k]]
             /\ muddled' = muddled \cup {k}
             /\ UNCHANGED config
    /\ UNCHANGED <<file, overlapped>>

Answer(q) ==
    /\ req[q].st = "answering"
    /\ req' = [req EXCEPT ![q] = NoRequest]
    /\ UNCHANGED <<config, audited, file, muddled, adrift, overlapped>>

Next == \E q \in Requests :
    \/ \E updates \in [Keys -> Values \cup {Keep}] : Receive(q, updates)
    \/ Load(q)
    \/ \E k \in Keys : Upsert(q, k) \/ Audit(q, k)
    \/ ReadOverrides(q) \/ Truncate(q) \/ WriteOverrides(q) \/ OverridesError(q)
    \/ Fail(q) \/ Answer(q)

Spec == Init /\ [][Next]_vars

-----------------------------------------------------------------------------
(* Properties. *)

Auditing(q, k) == req[q].st = "auditing" /\ At(req[q], k)

\* The audit log tells what is stored, for every key whose last change met no
\* other handler and did not fail between its two statements.
TrailIsTrue ==
    \A k \in Keys : k \notin muddled /\ (\A q \in Requests : ~ Auditing(q, k))
                       => audited[k] = config[k]

\* And without such a meeting or failure the rows chain: each old_value, read
\* before the first field was stored, is the new_value of the row before.
RowsChain ==
    \A q \in Requests, k \in Keys :
        Auditing(q, k) /\ k \notin muddled /\ k \notin req[q].shared
           => req[q].current[k] = audited[k]

\* When nobody changes the retention, Loki's file has the stored value, unless
\* the last change met another or gave up ("the DB write is the source of truth").
LokiFollows ==
    ~ adrift /\ (\A q \in Requests : Busy(q) => Retention \notin Fields(req[q]))
       => file.value = config[Retention]

\* The file's text is garbled only if two retention changes have overlapped:
\* failures and crashes of single handlers leave it whole or empty.
MixedOnlyByOverlap ==
    file.mixed \/ (\E q \in Requests : req[q].mixed) => overlapped

\* An overrides file that has lost its line stays without it, whatever is saved
\* afterwards: only a writer that had read the line puts it back.
NeverInvented ==
    [][file.value = Keyless /\ (\A q \in Requests : req[q].st \notin {"truncating", "writing"})
          => file'.value = Keyless /\ (\A q \in Requests : req'[q].st \notin {"truncating", "writing"})]_vars

-----------------------------------------------------------------------------
(* The inductive strengthening. *)

\* A key a handler does not share is its own while it works on it.
Exclusive ==
    \A p, q \in Requests : p # q /\ Busy(p) /\ Busy(q)
        => Fields(req[p]) \cap Fields(req[q]) \subseteq req[p].shared

\* An unshared key has the loaded value until its upsert, the new one after it.
KnowsOwn ==
    \A q \in Requests : Busy(q) =>
        LET r == req[q] IN
        /\ r.todo \subseteq Fields(r) /\ r.shared \subseteq Fields(r)
        /\ r.st \in {"reading", "truncating", "writing"} => r.todo = {} /\ Retention \in Fields(r)
        /\ \A k \in Fields(r) \ r.shared :
              config[k] = IF k \in r.todo /\ ~ Auditing(q, k) THEN r.current[k]
                                                              ELSE r.updates[k]

\* A writer that is alone writes into the file it truncated.
SoloFile ==
    \A q \in Requests :
        /\ req[q].st = "writing" /\ Retention \notin req[q].shared
              => file.value = Keyless
        /\ Busy(q) /\ Retention \in req[q].shared => overlapped
KeylessIsWhole == file.value = Keyless => ~ file.mixed

ConfigInv == /\ TypeOK /\ Exclusive /\ KnowsOwn /\ SoloFile /\ KeylessIsWhole
             /\ TrailIsTrue /\ RowsChain /\ LokiFollows /\ MixedOnlyByOverlap
=============================================================================
