-------------------------- MODULE AdminConfigProofs --------------------------
(***************************************************************************)
(* Proofs about AdminConfig for any settings, values and number of         *)
(* concurrent handlers.                                                    *)
(***************************************************************************)
EXTENDS AdminConfig, TLAPS

BusyStates == {"upserting", "auditing", "reading", "truncating", "writing"}

\* What KnowsOwn asks of a handler r under the settings c.
Own(r, c) ==
    r.st \in BusyStates =>
        /\ r.todo \subseteq Fields(r) /\ r.shared \subseteq Fields(r)
        /\ r.st \in {"reading", "truncating", "writing"} => r.todo = {} /\ Retention \in Fields(r)
        /\ \A k \in Fields(r) \ r.shared :
              c[k] = IF k \in r.todo /\ ~ (r.st = "auditing" /\ At(r, k))
                     THEN r.current[k] ELSE r.updates[k]

LEMMA KnowsOwnIs == KnowsOwn <=> \A q \in Requests : Own(req[q], config)
BY DEF KnowsOwn, Own, Busy, BusyStates, Auditing

LEMMA KnowsOwnNext == KnowsOwn' <=> \A q \in Requests : Own(req'[q], config')
BY DEF KnowsOwn, Own, Busy, BusyStates, Auditing

LEMMA NoRequestIs == NoRequest \in RequestState /\ NoRequest.st = "none" /\ ~ NoRequest.mixed
BY DEF NoRequest, RequestState

\* A loop is at one key at a time.
LEMMA AtIsUnique ==
    ASSUME NEW r \in RequestState, NEW j \in Keys, NEW k \in Keys, At(r, j), At(r, k)
    PROVE  j = k
<1>1. Rank[j] <= Rank[k] /\ Rank[k] <= Rank[j]
  BY DEF At
<1>2. Rank[j] \in Nat /\ Rank[k] \in Nat
  BY OrderAssumption
<1>. QED
  BY <1>1, <1>2, OrderAssumption

LEMMA InitInv == Init => ConfigInv
<1>. SUFFICES ASSUME Init PROVE ConfigInv
  OBVIOUS
<1>1. TypeOK
  BY NoRequestIs, KeysAssumption DEF Init, TypeOK, FileState
<1>2. \A q \in Requests : ~ Busy(q) /\ ~ req[q].mixed
  BY NoRequestIs DEF Init, Busy
<1>3. \A q \in Requests : req[q].st = "none"
  BY NoRequestIs DEF Init
<1>4. Exclusive /\ KnowsOwn /\ SoloFile
  BY <1>2, <1>3 DEF Exclusive, KnowsOwn, SoloFile
<1>5. TrailIsTrue /\ RowsChain
  BY <1>3 DEF Init, TrailIsTrue, RowsChain, Auditing
<1>6. KeylessIsWhole /\ LokiFollows /\ MixedOnlyByOverlap
  BY <1>2 DEF Init, KeylessIsWhole, LokiFollows, MixedOnlyByOverlap
<1>. QED
  BY <1>1, <1>4, <1>5, <1>6 DEF ConfigInv

\* A handler of another request than q's is as it was.
LEMMA OthersKept ==
    ASSUME TypeOK, NEW q \in Requests, NEW r, req' = [req EXCEPT ![q] = r]
    PROVE  req'[q] = r /\ \A p \in Requests \ {q} : req'[p] = req[p]
BY DEF TypeOK

\* The steps that leave the settings alone and in which no handler becomes
\* busy: a handler that stays busy has the fields and the shared keys it had.
LEMMA LocalStep ==
    ASSUME ConfigInv, NEW q \in Requests, NEW r \in RequestState,
           req' = [req EXCEPT ![q] = r], config' = config,
           audited' \in [Keys -> Values], file' \in FileState,
           muddled' \subseteq Keys, adrift' \in BOOLEAN, overlapped' = overlapped,
           r.st \in BusyStates => /\ Busy(q) /\ r.updates = req[q].updates
                                  /\ r.shared = req[q].shared,
           Own(r, config)
    PROVE  TypeOK' /\ Exclusive' /\ KnowsOwn'
<1>1. TypeOK'
  BY DEF ConfigInv, TypeOK
<1>2. req'[q] = r /\ \A p \in Requests \ {q} : req'[p] = req[p]
  BY OthersKept DEF ConfigInv
<1>3. Exclusive'
  <2>1. \A p \in Requests : Busy(p)' => /\ Busy(p) /\ req'[p].shared = req[p].shared
                                        /\ req'[p].updates = req[p].updates
    BY <1>2 DEF Busy, BusyStates
  <2>2. \A p \in Requests : Busy(p)' => Fields(req'[p]) = Fields(req[p])
    BY <2>1 DEF Fields
  <2>. QED
    BY <2>1, <2>2 DEF ConfigInv, Exclusive
<1>4. KnowsOwn'
  BY <1>2, KnowsOwnIs, KnowsOwnNext DEF ConfigInv
<1>. QED
  BY <1>1, <1>3, <1>4

\* A handler that is not at work comes or goes.
LEMMA IdleStep ==
    ASSUME ConfigInv, NEW q \in Requests, NEW r \in RequestState,
           req' = [req EXCEPT ![q] = r], ~ Busy(q), r.st \in {"none", "received"}, ~ r.mixed,
           UNCHANGED <<config, audited, file, muddled, adrift, overlapped>>
    PROVE  ConfigInv'
<1>1. TypeOK' /\ Exclusive' /\ KnowsOwn'
  <2>1. Own(r, config)
    BY DEF Own, BusyStates
  <2>2. r.st \notin BusyStates
    BY DEF BusyStates
  <2>. QED
    BY <2>1, <2>2, LocalStep DEF ConfigInv, TypeOK
<1>2. req'[q] = r /\ \A p \in Requests \ {q} : req'[p] = req[p]
  BY OthersKept DEF ConfigInv
<1>3. \A p \in Requests : Busy(p)' => Busy(p) /\ req'[p] = req[p]
  BY <1>2 DEF Busy
<1>4. \A p \in Requests, k \in Keys : Auditing(p, k)' <=> Auditing(p, k) /\ req'[p] = req[p]
  BY <1>2 DEF Busy, Auditing
<1>5. SoloFile' /\ KeylessIsWhole'
  BY <1>2, <1>3 DEF ConfigInv, SoloFile, KeylessIsWhole
<1>6. TrailIsTrue'
  <2>1. ASSUME NEW k \in Keys, \A p \in Requests : ~ Auditing(p, k)'
        PROVE  \A p \in Requests : ~ Auditing(p, k)
    BY <1>2, <2>1 DEF Auditing, Busy
  <2>. QED
    BY <2>1 DEF ConfigInv, TrailIsTrue
<1>7. RowsChain'
  BY <1>4 DEF ConfigInv, RowsChain
<1>8. LokiFollows'
  <2>1. \A p \in Requests : Busy(p) => Busy(p)' /\ req'[p] = req[p]
    BY <1>2 DEF Busy
  <2>. QED
    BY <2>1 DEF ConfigInv, LokiFollows
<1>9. MixedOnlyByOverlap'
  BY <1>2 DEF ConfigInv, MixedOnlyByOverlap
<1>. QED
  BY <1>1, <1>5, <1>6, <1>7, <1>8, <1>9 DEF ConfigInv

LEMMA ReceiveStep ==
    ASSUME ConfigInv, NEW q \in Requests, NEW u \in [Keys -> Values \cup {Keep}], Receive(q, u)
    PROVE  ConfigInv'
<1>. DEFINE r == [NoRequest EXCEPT !.st = "received", !.updates = u]
<1>1. r \in RequestState /\ r.st = "received" /\ ~ r.mixed
  BY DEF NoRequest, RequestState
<1>. QED
  BY <1>1, IdleStep DEF Receive, Busy

LEMMA AnswerStep ==
    ASSUME ConfigInv, NEW q \in Requests, Answer(q)
    PROVE  ConfigInv'
BY NoRequestIs, IdleStep DEF Answer, Busy

-----------------------------------------------------------------------------
LEMMA SharedWithIs ==
    ASSUME NEW q, NEW ps, NEW k
    PROVE  k \in SharedWith(q, ps) <=> k \in Fields(req[q]) /\ \E p \in ps : k \in Fields(req[p])
BY DEF SharedWith

LEMMA WithSharedIs ==
    ASSUME NEW r \in RequestState, NEW s \in SUBSET Keys
    PROVE  LET x == [r EXCEPT !.shared = @ \cup s]
           IN /\ x \in RequestState
              /\ x.st = r.st /\ x.todo = r.todo /\ x.current = r.current
              /\ x.updates = r.updates /\ x.mixed = r.mixed
              /\ x.shared = r.shared \cup s
<1>1. r.shared \cup s \in SUBSET Keys
  BY DEF RequestState
<1>. QED
  BY <1>1 DEF RequestState

LEMMA LoadStep ==
    ASSUME ConfigInv, NEW q \in Requests, Load(q)
    PROVE  ConfigInv'
<1>. DEFINE mine == SharedWith(q, Meeting(q))
<1>0. TypeOK /\ ~ Busy(q)
  BY DEF ConfigInv, Load, Busy
<1>1. /\ req'[q] = [req[q] EXCEPT !.st = "upserting", !.todo = Fields(req[q]),
                                  !.current = config, !.shared = mine]
      /\ \A p \in Requests \ {q} :
            req'[p] = IF Busy(p) THEN [req[p] EXCEPT !.shared = @ \cup SharedWith(q, {p})]
                                 ELSE req[p]
  BY DEF Load
<1>2. /\ req'[q].st = "upserting" /\ req'[q].todo = Fields(req[q])
      /\ req'[q].current = config /\ req'[q].shared = mine
      /\ req'[q].updates = req[q].updates /\ req'[q].mixed = req[q].mixed
  BY <1>0, <1>1 DEF TypeOK, RequestState
<1>3. ASSUME NEW p \in Requests \ {q}
      PROVE  /\ req'[p] \in RequestState
             /\ req'[p].st = req[p].st /\ req'[p].todo = req[p].todo
             /\ req'[p].current = req[p].current /\ req'[p].updates = req[p].updates
             /\ req'[p].mixed = req[p].mixed
             /\ req'[p].shared = IF Busy(p) THEN req[p].shared \cup SharedWith(q, {p})
                                            ELSE req[p].shared
  <2>1. req[p] \in RequestState /\ SharedWith(q, {p}) \in SUBSET Keys
    BY <1>0 DEF TypeOK, SharedWith, Fields
  <2>2. CASE Busy(p)
    <3>1. req'[p] = [req[p] EXCEPT !.shared = @ \cup SharedWith(q, {p})]
      BY <1>1, <2>2
    <3>2. PICK s \in SUBSET Keys : s = SharedWith(q, {p})
      BY <2>1
    <3>3. req'[p] = [req[p] EXCEPT !.shared = @ \cup s]
      BY <3>1, <3>2
    <3>4. /\ req'[p] \in RequestState
          /\ req'[p].st = req[p].st /\ req'[p].todo = req[p].todo
          /\ req'[p].current = req[p].current /\ req'[p].updates = req[p].updates
          /\ req'[p].mixed = req[p].mixed
          /\ req'[p].shared = req[p].shared \cup s
      BY <2>1, <3>3, WithSharedIs
    <3>. QED
      BY <2>2, <3>2, <3>4
  <2>3. CASE ~ Busy(p)
    BY <1>1, <2>1, <2>3
  <2>. QED
    BY <2>2, <2>3
<1>4. \A p \in Requests : Fields(req'[p]) = Fields(req[p])
  <2>1. \A p \in Requests : req'[p].updates = req[p].updates
    BY <1>2, <1>3
  <2>. QED
    BY <2>1 DEF Fields
<1>5. Busy(q)' /\ \A p \in Requests \ {q} : Busy(p)' <=> Busy(p)
  BY <1>2, <1>3 DEF Busy
<1>6. mine \subseteq Fields(req[q]) /\ \A p : SharedWith(q, {p}) \subseteq Fields(req[p])
  BY DEF SharedWith
<1>7. TypeOK'
  <2>0. /\ config \in [Keys -> Values \cup {Keep}] /\ Fields(req[q]) \in SUBSET Keys
        /\ mine \in SUBSET Keys /\ \A p : SharedWith(q, {p}) \in SUBSET Keys
    BY <1>0, <1>6 DEF TypeOK, Fields
  <2>1. req'[q] \in RequestState
    <3>. req[q] \in RequestState
      BY <1>0 DEF TypeOK
    <3>. HIDE DEF mine
    <3>. QED
      BY <1>1, <2>0 DEF RequestState
  <2>2. \A p \in Requests \ {q} : req'[p] \in RequestState
    BY <1>3
  <2>3. req' = [p \in Requests |-> req'[p]]
    BY DEF Load
  <2>4. req' \in [Requests -> RequestState]
    BY <2>1, <2>2, <2>3
  <2>. QED
    BY <1>0, <2>4 DEF TypeOK, Load
<1>8. Exclusive'
  <2>1. ASSUME NEW o \in Requests \ {q}, Busy(o)
        PROVE  /\ Fields(req[q]) \cap Fields(req[o]) \subseteq req'[q].shared
               /\ Fields(req[q]) \cap Fields(req[o]) \subseteq req'[o].shared
    <3>1. o \in Meeting(q)
      BY <2>1 DEF Meeting
    <3>2. \A k \in Fields(req[q]) \cap Fields(req[o]) : k \in mine /\ k \in SharedWith(q, {o})
      BY <3>1 DEF SharedWith
    <3>3. req'[q].shared = mine /\ SharedWith(q, {o}) \subseteq req'[o].shared
      BY <1>2, <1>3, <2>1
    <3>. HIDE DEF mine
    <3>. QED
      BY <3>2, <3>3
  <2>2. \A o \in Requests \ {q} : Busy(o) => req[o].shared \subseteq req'[o].shared
    BY <1>3
  <2>. QED
    BY <1>4, <1>5, <2>1, <2>2 DEF ConfigInv, Exclusive
<1>9. KnowsOwn'
  <2>1. Own(req'[q], config')
    BY <1>2, <1>4, <1>6 DEF Own, Load
  <2>2. ASSUME NEW p \in Requests \ {q}
        PROVE  Own(req'[p], config')
    <3>1. Own(req[p], config) /\ config' = config
      BY KnowsOwnIs DEF ConfigInv, Load
    <3>2. \A k \in Keys : At(req'[p], k) <=> At(req[p], k)
      BY <1>3 DEF At
    <3>3. req[p].shared \subseteq req'[p].shared /\ (Busy(p) => req'[p].shared \subseteq req[p].shared \cup Fields(req[p]))
      BY <1>3, <1>6
    <3>4. Fields(req[p]) \subseteq Keys
      BY DEF Fields
    <3>. QED
      BY <1>3, <1>4, <3>1, <3>2, <3>3, <3>4 DEF Own, Busy, BusyStates
  <2>. QED
    BY <2>1, <2>2, KnowsOwnNext
<1>10. ASSUME NEW p \in Requests, NEW k \in Keys
       PROVE  Auditing(p, k)' <=> Auditing(p, k)
  <2>1. CASE p = q
    BY <1>2, <2>1 DEF Auditing, Load
  <2>2. CASE p # q
    BY <1>3, <2>2 DEF Auditing, At
  <2>. QED
    BY <2>1, <2>2
<1>11. SoloFile'
  <2>1. ASSUME NEW p \in Requests \ {q}, Busy(p), Retention \in SharedWith(q, {p})
        PROVE  Retention \in mine
    BY <2>1, SharedWithIs DEF Meeting
  <2>2. overlapped' = (overlapped \/ Retention \in mine) /\ file' = file
    BY DEF Load
  <2>3. SoloFile
    BY DEF ConfigInv
  <2>4. ASSUME NEW p \in Requests, Busy(p)', Retention \in req'[p].shared
        PROVE  overlapped'
    <3>. HIDE DEF mine
    <3>1. CASE p = q
      BY <1>2, <2>2, <2>4, <3>1
    <3>2. CASE p # q
      BY <1>3, <1>5, <2>1, <2>2, <2>3, <2>4, <3>2 DEF SoloFile
    <3>. QED
      BY <3>1, <3>2
  <2>5. ASSUME NEW p \in Requests, req'[p].st = "writing", Retention \notin req'[p].shared
        PROVE  file'.value = Keyless
    <3>1. p # q
      BY <1>2, <2>5
    <3>. QED
      BY <1>3, <2>2, <2>3, <2>5, <3>1 DEF SoloFile
  <2>. QED
    BY <2>4, <2>5 DEF SoloFile
<1>12. KeylessIsWhole' /\ TrailIsTrue'
  BY <1>10 DEF ConfigInv, KeylessIsWhole, TrailIsTrue, Load
<1>13. RowsChain'
  <2>1. ASSUME NEW p \in Requests, NEW k \in Keys, Auditing(p, k)
        PROVE  p # q /\ req[p].shared \subseteq req'[p].shared /\ req'[p].current = req[p].current
    <3>1. p # q
      BY <2>1 DEF Auditing, Load
    <3>. QED
      BY <1>3, <3>1
  <2>. QED
    BY <1>10, <2>1 DEF ConfigInv, RowsChain, Load
<1>14. LokiFollows'
  BY <1>4, <1>5 DEF ConfigInv, LokiFollows, Load
<1>15. MixedOnlyByOverlap'
  BY <1>2, <1>3 DEF ConfigInv, MixedOnlyByOverlap, Load
<1>. QED
  BY <1>7, <1>8, <1>9, <1>11, <1>12, <1>13, <1>14, <1>15 DEF ConfigInv

-----------------------------------------------------------------------------
\* A busy handler's key that it does not share is nobody else's.
LEMMA Alone ==
    ASSUME ConfigInv, NEW p \in Requests, NEW q \in Requests, p # q, Busy(p), Busy(q),
           NEW k \in Fields(req[p]), k \in Fields(req[q])
    PROVE  k \in req[p].shared /\ k \in req[q].shared
BY DEF ConfigInv, Exclusive

LEMMA AuditingIs ==
    ASSUME ConfigInv, NEW q \in Requests, NEW k \in Keys, Auditing(q, k)
    PROVE  /\ Busy(q) /\ k \in Fields(req[q])
           /\ k \notin req[q].shared => config[k] = req[q].updates[k]
BY DEF ConfigInv, KnowsOwn, Auditing, Busy, At

LEMMA UpsertStep ==
    ASSUME ConfigInv, NEW q \in Requests, NEW k \in Keys, Upsert(q, k)
    PROVE  ConfigInv'
<1>. DEFINE r == [req[q] EXCEPT !.st = "auditing"]
<1>0. TypeOK /\ req[q] \in RequestState /\ Busy(q) /\ At(req[q], k)
  BY DEF ConfigInv, TypeOK, Upsert, Busy
<1>1. /\ r \in RequestState /\ r.st = "auditing" /\ r.updates = req[q].updates
      /\ r.todo = req[q].todo /\ r.current = req[q].current
      /\ r.mixed = req[q].mixed /\ r.shared = req[q].shared
  BY <1>0 DEF RequestState
<1>2. req'[q] = r /\ \A p \in Requests \ {q} : req'[p] = req[p]
  BY <1>0, OthersKept DEF Upsert
<1>3. k \in Fields(req[q]) /\ req[q].updates[k] \in Values
  BY <1>0 DEF ConfigInv, KnowsOwn, At, Fields, RequestState
<1>4. /\ config' \in [Keys -> Values] /\ config'[k] = req[q].updates[k]
      /\ \A j \in Keys \ {k} : config'[j] = config[j]
  BY <1>0, <1>3 DEF Upsert, TypeOK
<1>5. TypeOK'
  BY <1>0, <1>1, <1>4 DEF TypeOK, Upsert
<1>. HIDE DEF r
<1>6. /\ \A p \in Requests : Busy(p)' <=> Busy(p)
      /\ \A p \in Requests : Fields(req'[p]) = Fields(req[p])
      /\ \A p \in Requests : req'[p].shared = req[p].shared /\ req'[p].mixed = req[p].mixed
  BY <1>0, <1>1, <1>2 DEF Busy, Fields
<1>7. Exclusive'
  BY <1>6 DEF ConfigInv, Exclusive
<1>8. /\ Auditing(q, k)'
      /\ \A p \in Requests \ {q}, j \in Keys : Auditing(p, j)' <=> Auditing(p, j)
  BY <1>0, <1>1, <1>2 DEF Auditing, At
<1>9. KnowsOwn'
  <2>1. Own(req'[q], config')
    <3>1. Own(req[q], config)
      BY KnowsOwnIs DEF ConfigInv
    <3>2. \A j \in Keys : At(r, j) <=> j = k
      BY <1>0, <1>1, AtIsUnique DEF At
    <3>3. Fields(r) = Fields(req[q]) /\ Fields(r) \subseteq Keys
      BY <1>1 DEF Fields
    <3>4. req[q].st = "upserting"
      BY DEF Upsert
    <3>. QED
      BY <1>1, <1>2, <1>4, <3>1, <3>2, <3>3, <3>4 DEF Own, BusyStates
  <2>2. ASSUME NEW p \in Requests \ {q}
        PROVE  Own(req'[p], config')
    <3>1. Own(req[p], config)
      BY KnowsOwnIs DEF ConfigInv
    <3>2. Busy(p) => k \notin Fields(req[p]) \ req[p].shared
      BY <1>0, <1>3, Alone
    <3>3. Fields(req[p]) \subseteq Keys
      BY DEF Fields
    <3>. QED
      BY <1>2, <1>4, <3>1, <3>2, <3>3 DEF Own, Busy, BusyStates
  <2>. QED
    BY <2>1, <2>2, KnowsOwnNext
<1>10. SoloFile' /\ KeylessIsWhole'
  <2>1. \A p \in Requests : req'[p].st = "writing" => req[p].st = "writing"
    BY <1>1, <1>2
  <2>. QED
    BY <1>6, <2>1 DEF ConfigInv, SoloFile, KeylessIsWhole, Upsert
<1>11. TrailIsTrue'
  <2>1. \A j \in Keys : Auditing(q, j) => FALSE
    BY DEF Auditing, Upsert
  <2>. QED
    BY <1>4, <1>8, <2>1 DEF ConfigInv, TrailIsTrue, Upsert
<1>12. RowsChain'
  <2>1. ASSUME NEW j \in Keys, Auditing(q, j)', j \notin muddled, j \notin req[q].shared
        PROVE  req[q].current[j] = audited[j]
    <3>1. j = k
      BY <1>0, <1>1, <1>2, <2>1, AtIsUnique DEF Auditing, At
    <3>2. config[k] = req[q].current[k]
      BY <1>0, <1>3, <2>1, <3>1 DEF ConfigInv, KnowsOwn, Upsert, Auditing, At
    <3>3. \A p \in Requests : ~ Auditing(p, k)
      <4>1. ~ Auditing(q, k)
        BY DEF Auditing, Upsert
      <4>2. \A p \in Requests \ {q} : ~ Auditing(p, k)
        BY <1>0, <1>3, <2>1, <3>1, Alone, AuditingIs
      <4>. QED
        BY <4>1, <4>2
    <3>. QED
      BY <2>1, <3>1, <3>2, <3>3 DEF ConfigInv, TrailIsTrue
  <2>2. req'[q].current = req[q].current /\ audited' = audited /\ muddled' = muddled
    BY <1>1, <1>2 DEF Upsert
  <2>. QED
    BY <1>2, <1>6, <1>8, <2>1, <2>2 DEF ConfigInv, RowsChain
<1>13. LokiFollows'
  <2>1. CASE k = Retention
    BY <1>0, <1>3, <1>6, <2>1 DEF LokiFollows
  <2>2. CASE k # Retention
    BY <1>4, <1>6, <2>2, KeysAssumption DEF ConfigInv, LokiFollows, Upsert
  <2>. QED
    BY <2>1, <2>2
<1>14. MixedOnlyByOverlap'
  BY <1>6 DEF ConfigInv, MixedOnlyByOverlap, Upsert
<1>. QED
  BY <1>5, <1>7, <1>9, <1>10, <1>11, <1>12, <1>13, <1>14 DEF ConfigInv

LEMMA AuditStep ==
    ASSUME ConfigInv, NEW q \in Requests, NEW k \in Keys, Audit(q, k)
    PROVE  ConfigInv'
<1>. DEFINE rest == req[q].todo \ {k}
            r == [req[q] EXCEPT !.todo = rest, !.st = Then(req[q], rest)]
<1>0. /\ TypeOK /\ req[q] \in RequestState /\ Auditing(q, k) /\ Busy(q)
      /\ req[q].st = "auditing" /\ At(req[q], k) /\ k \in req[q].todo
  BY DEF ConfigInv, TypeOK, Audit, Auditing, At, Busy
<1>1. /\ r \in RequestState /\ r.st = Then(req[q], rest) /\ r.updates = req[q].updates
      /\ r.todo = rest /\ r.current = req[q].current
      /\ r.mixed = req[q].mixed /\ r.shared = req[q].shared
  BY <1>0 DEF RequestState, Then
<1>2. req' = [req EXCEPT ![q] = r]
  BY DEF Audit
<1>3. req'[q] = r /\ \A p \in Requests \ {q} : req'[p] = req[p]
  BY <1>0, <1>2, OthersKept
<1>4. k \in Fields(req[q]) /\ req[q].updates[k] \in Values
  BY <1>0, AuditingIs DEF RequestState, Fields
<1>5. /\ audited' \in [Keys -> Values] /\ audited'[k] = req[q].updates[k]
      /\ \A j \in Keys \ {k} : audited'[j] = audited[j]
      /\ \A j \in Keys \ {k} : j \in muddled' <=> j \in muddled
      /\ k \in muddled' <=> k \in req[q].shared
  BY <1>0, <1>4 DEF Audit, TypeOK
<1>6. Own(r, config)
  <2>1. Own(req[q], config)
    BY KnowsOwnIs DEF ConfigInv
  <2>2. \A j \in Keys : At(req[q], j) => j = k
    BY <1>0, AtIsUnique
  <2>3. Fields(r) = Fields(req[q]) /\ Fields(r) \subseteq Keys
    BY <1>1 DEF Fields
  <2>. HIDE DEF r
  <2>. QED
    BY <1>0, <1>1, <2>1, <2>2, <2>3 DEF Own, BusyStates, Then
<1>7. Fields(r) = Fields(req[q])
  BY <1>1 DEF Fields
<1>8. TypeOK' /\ Exclusive' /\ KnowsOwn'
  <2>1. file' \in FileState /\ muddled' \subseteq Keys /\ adrift' \in BOOLEAN
    BY <1>0 DEF Audit, TypeOK
  <2>2. config' = config /\ overlapped' = overlapped
    BY DEF Audit
  <2>. HIDE DEF r
  <2>. QED
    BY <1>0, <1>1, <1>2, <1>5, <1>6, <2>1, <2>2, LocalStep
<1>. HIDE DEF r
<1>9. /\ \A p \in Requests : Busy(p)' => Busy(p)
      /\ \A p \in Requests : Fields(req'[p]) = Fields(req[p])
      /\ \A p \in Requests : req'[p].shared = req[p].shared /\ req'[p].mixed = req[p].mixed
      /\ Busy(q) /\ (Retention \in Fields(req[q]) => Busy(q)')
  BY <1>0, <1>1, <1>3, <1>7 DEF Busy, Then
<1>10. SoloFile' /\ KeylessIsWhole'
  <2>1. \A p \in Requests : req'[p].st = "writing" => req[p].st = "writing"
    BY <1>1, <1>3 DEF Then
  <2>. QED
    BY <1>9, <2>1 DEF ConfigInv, SoloFile, KeylessIsWhole, Audit
<1>11. /\ \A j \in Keys : ~ Auditing(q, j)'
       /\ \A j \in Keys : Auditing(q, j) => j = k
       /\ \A p \in Requests \ {q}, j \in Keys : Auditing(p, j)' <=> Auditing(p, j)
  BY <1>0, <1>1, <1>3, AtIsUnique DEF Auditing, Then
<1>12. TrailIsTrue'
  <2>1. k \notin muddled' => audited'[k] = config[k]
    BY <1>0, <1>5, AuditingIs
  <2>2. config' = config
    BY DEF Audit
  <2>3. \A j \in Keys \ {k} : (\A p \in Requests : ~ Auditing(p, j)') => \A p \in Requests : ~ Auditing(p, j)
    BY <1>11
  <2>. QED
    BY <1>5, <2>1, <2>2, <2>3 DEF ConfigInv, TrailIsTrue
<1>13. RowsChain'
  <2>1. ASSUME NEW p \in Requests, NEW j \in Keys, Auditing(p, j)', j \notin muddled',
               j \notin req'[p].shared
        PROVE  req'[p].current[j] = audited'[j]
    <3>1. p # q /\ Auditing(p, j) /\ req'[p] = req[p]
      BY <1>3, <1>11, <2>1
    <3>2. j # k
      BY <1>0, <1>4, <2>1, <3>1, Alone, AuditingIs
    <3>. QED
      BY <1>5, <2>1, <3>1, <3>2 DEF ConfigInv, RowsChain
  <2>. QED
    BY <2>1 DEF RowsChain
<1>14. LokiFollows'
  BY <1>3, <1>9 DEF ConfigInv, LokiFollows, Audit, Busy
<1>15. MixedOnlyByOverlap'
  BY <1>9 DEF ConfigInv, MixedOnlyByOverlap, Audit
<1>. QED
  BY <1>8, <1>10, <1>12, <1>13, <1>14, <1>15 DEF ConfigInv

-----------------------------------------------------------------------------
\* A handler goes on, with nothing left to store, in the overrides file.
LEMMA FileStep ==
    ASSUME ConfigInv, NEW q \in Requests, NEW r \in RequestState,
           req[q].st \in {"reading", "truncating", "writing"},
           r.st \in {"reading", "truncating", "writing", "answering"},
           req' = [req EXCEPT ![q] = r],
           r.updates = req[q].updates, r.todo = req[q].todo, r.shared = req[q].shared,
           file' \in FileState, adrift' \in BOOLEAN,
           UNCHANGED <<config, audited, muddled, overlapped>>
    PROVE  /\ TypeOK' /\ Exclusive' /\ KnowsOwn' /\ TrailIsTrue' /\ RowsChain'
           /\ req'[q] = r /\ \A p \in Requests \ {q} : req'[p] = req[p]
           /\ \A p \in Requests : Fields(req'[p]) = Fields(req[p])
           /\ \A p \in Requests : req'[p].shared = req[p].shared
           /\ \A p \in Requests : Busy(p)' => Busy(p)
           /\ Busy(q) /\ Retention \in Fields(req[q])
           /\ Retention \notin req[q].shared => config[Retention] = req[q].updates[Retention]
<1>1. /\ Busy(q) /\ req[q].todo = {} /\ Retention \in Fields(req[q])
      /\ Retention \notin req[q].shared => config[Retention] = req[q].updates[Retention]
  BY DEF ConfigInv, KnowsOwn, Busy
<1>2. Own(r, config)
  <2>1. Own(req[q], config)
    BY KnowsOwnIs DEF ConfigInv
  <2>2. Fields(r) = Fields(req[q])
    BY DEF Fields
  <2>. QED
    BY <1>1, <2>1, <2>2 DEF Own, BusyStates
<1>3. TypeOK' /\ Exclusive' /\ KnowsOwn'
  BY <1>1, <1>2, LocalStep DEF ConfigInv, TypeOK
<1>4. req'[q] = r /\ \A p \in Requests \ {q} : req'[p] = req[p]
  BY OthersKept DEF ConfigInv
<1>5. \A p \in Requests, j \in Keys : Auditing(p, j)' <=> Auditing(p, j)
  BY <1>4 DEF Auditing
<1>6. \A p \in Requests, j \in Keys : Auditing(p, j) => req'[p] = req[p]
  BY <1>4 DEF Auditing
<1>7. TrailIsTrue' /\ RowsChain'
  BY <1>5, <1>6 DEF ConfigInv, TrailIsTrue, RowsChain
<1>8. /\ \A p \in Requests : Fields(req'[p]) = Fields(req[p])
      /\ \A p \in Requests : req'[p].shared = req[p].shared
      /\ \A p \in Requests : Busy(p)' => Busy(p)
  BY <1>1, <1>4 DEF Fields, Busy
<1>. QED
  BY <1>1, <1>3, <1>4, <1>7, <1>8

LEMMA GiveUpStep ==
    ASSUME ConfigInv, NEW q \in Requests, GiveUp(q),
           req[q].st \in {"reading", "truncating", "writing"}
    PROVE  ConfigInv'
<1>. DEFINE r == [req[q] EXCEPT !.st = "answering"]
<1>0. TypeOK /\ req[q] \in RequestState
  BY DEF ConfigInv, TypeOK
<1>1. /\ r \in RequestState /\ r.st = "answering" /\ r.updates = req[q].updates
      /\ r.todo = req[q].todo /\ r.mixed = req[q].mixed /\ r.shared = req[q].shared
  BY <1>0 DEF RequestState
<1>2. /\ req' = [req EXCEPT ![q] = r] /\ adrift' = TRUE /\ file' = file
      /\ UNCHANGED <<config, audited, muddled, overlapped>>
  BY DEF GiveUp
<1>3. file' \in FileState /\ adrift' \in BOOLEAN
  BY <1>0, <1>2 DEF TypeOK
<1>. HIDE DEF r
<1>4. /\ TypeOK' /\ Exclusive' /\ KnowsOwn' /\ TrailIsTrue' /\ RowsChain'
      /\ req'[q] = r /\ \A p \in Requests \ {q} : req'[p] = req[p]
      /\ \A p \in Requests : req'[p].shared = req[p].shared
      /\ \A p \in Requests : Busy(p)' => Busy(p)
  BY <1>1, <1>2, <1>3, FileStep
<1>5. SoloFile' /\ KeylessIsWhole'
  BY <1>1, <1>2, <1>4 DEF ConfigInv, SoloFile, KeylessIsWhole
<1>6. LokiFollows'
  BY <1>2 DEF LokiFollows
<1>7. MixedOnlyByOverlap'
  BY <1>1, <1>2, <1>4 DEF ConfigInv, MixedOnlyByOverlap
<1>. QED
  BY <1>4, <1>5, <1>6, <1>7 DEF ConfigInv

LEMMA ReadStep ==
    ASSUME ConfigInv, NEW q \in Requests, ReadOverrides(q)
    PROVE  ConfigInv'
<1>. DEFINE r == [req[q] EXCEPT !.st = "truncating", !.mixed = file.mixed]
<1>0. TypeOK /\ req[q] \in RequestState /\ req[q].st = "reading" /\ file \in FileState
  BY DEF ConfigInv, TypeOK, ReadOverrides
<1>1. CASE file.value = Keyless
  BY <1>0, <1>1, GiveUpStep DEF ReadOverrides
<1>2. CASE file.value # Keyless
  <2>1. /\ r \in RequestState /\ r.st = "truncating" /\ r.updates = req[q].updates
        /\ r.todo = req[q].todo /\ r.mixed = file.mixed /\ r.shared = req[q].shared
    BY <1>0 DEF RequestState, FileState
  <2>2. req' = [req EXCEPT ![q] = r] /\ UNCHANGED <<config, audited, file, muddled, adrift, overlapped>>
    BY <1>2 DEF ReadOverrides
  <2>3. file' \in FileState /\ adrift' \in BOOLEAN
    BY <1>0, <2>2 DEF TypeOK
  <2>. HIDE DEF r
  <2>4. /\ TypeOK' /\ Exclusive' /\ KnowsOwn' /\ TrailIsTrue' /\ RowsChain'
        /\ req'[q] = r /\ \A p \in Requests \ {q} : req'[p] = req[p]
        /\ \A p \in Requests : Fields(req'[p]) = Fields(req[p])
        /\ \A p \in Requests : req'[p].shared = req[p].shared
        /\ \A p \in Requests : Busy(p)' => Busy(p)
        /\ Retention \in Fields(req[q])
    BY <1>0, <2>1, <2>2, <2>3, FileStep
  <2>5. SoloFile' /\ KeylessIsWhole'
    BY <2>1, <2>2, <2>4 DEF ConfigInv, SoloFile, KeylessIsWhole
  <2>6. Busy(q)'
    BY <2>1, <2>4 DEF Busy
  <2>7. LokiFollows'
    BY <2>4, <2>6 DEF LokiFollows
  <2>8. MixedOnlyByOverlap'
    BY <2>1, <2>2, <2>4 DEF ConfigInv, MixedOnlyByOverlap
  <2>. QED
    BY <2>4, <2>5, <2>7, <2>8 DEF ConfigInv
<1>. QED
  BY <1>1, <1>2

LEMMA TruncateStep ==
    ASSUME ConfigInv, NEW q \in Requests, Truncate(q)
    PROVE  ConfigInv'
<1>. DEFINE r == [req[q] EXCEPT !.st = "writing"]
<1>0. TypeOK /\ req[q] \in RequestState /\ req[q].st = "truncating"
  BY DEF ConfigInv, TypeOK, Truncate
<1>1. /\ r \in RequestState /\ r.st = "writing" /\ r.updates = req[q].updates
      /\ r.todo = req[q].todo /\ r.mixed = req[q].mixed /\ r.shared = req[q].shared
  BY <1>0 DEF RequestState
<1>2. req' = [req EXCEPT ![q] = r] /\ UNCHANGED <<config, audited, muddled, adrift, overlapped>>
  BY DEF Truncate
<1>3. /\ file' \in FileState /\ file'.value = Keyless /\ ~ file'.mixed
      /\ adrift' \in BOOLEAN
  BY <1>0, <1>2 DEF Truncate, FileState, TypeOK
<1>. HIDE DEF r
<1>4. /\ TypeOK' /\ Exclusive' /\ KnowsOwn' /\ TrailIsTrue' /\ RowsChain'
      /\ req'[q] = r /\ \A p \in Requests \ {q} : req'[p] = req[p]
      /\ \A p \in Requests : Fields(req'[p]) = Fields(req[p])
      /\ \A p \in Requests : req'[p].shared = req[p].shared
      /\ \A p \in Requests : Busy(p)' => Busy(p)
      /\ Retention \in Fields(req[q])
  BY <1>0, <1>1, <1>2, <1>3, FileStep
<1>5. SoloFile' /\ KeylessIsWhole'
  BY <1>2, <1>3, <1>4 DEF ConfigInv, SoloFile, KeylessIsWhole
<1>6. Busy(q)'
  BY <1>1, <1>4 DEF Busy
<1>7. LokiFollows'
  BY <1>4, <1>6 DEF LokiFollows
<1>8. MixedOnlyByOverlap'
  BY <1>1, <1>2, <1>3, <1>4 DEF ConfigInv, MixedOnlyByOverlap
<1>. QED
  BY <1>4, <1>5, <1>7, <1>8 DEF ConfigInv

LEMMA WriteStep ==
    ASSUME ConfigInv, NEW q \in Requests, WriteOverrides(q)
    PROVE  ConfigInv'
<1>. DEFINE r == [req[q] EXCEPT !.st = "answering"]
            days == req[q].updates[Retention]
<1>0. TypeOK /\ req[q] \in RequestState /\ req[q].st = "writing" /\ Busy(q)
  BY DEF ConfigInv, TypeOK, WriteOverrides, Busy
<1>1. /\ r \in RequestState /\ r.st = "answering" /\ r.updates = req[q].updates
      /\ r.todo = req[q].todo /\ r.mixed = req[q].mixed /\ r.shared = req[q].shared
  BY <1>0 DEF RequestState
<1>2. /\ req' = [req EXCEPT ![q] = r] /\ UNCHANGED <<config, audited, muddled, overlapped>>
      /\ adrift' = (Retention \in req[q].shared)
  BY DEF WriteOverrides
<1>3. Retention \in Fields(req[q]) /\ days \in Values
  <2>1. Retention \in Fields(req[q])
    BY <1>0 DEF ConfigInv, KnowsOwn
  <2>. QED
    BY <1>0, <2>1 DEF Fields, RequestState
<1>4. /\ file' \in FileState /\ file'.value = days
      /\ file'.mixed => req[q].mixed \/ file.mixed \/ file.value # Keyless
  BY <1>0, <1>3 DEF WriteOverrides, FileState, TypeOK, RequestState
<1>5. adrift' \in BOOLEAN
  BY <1>2
<1>. HIDE DEF r, days
<1>6. /\ TypeOK' /\ Exclusive' /\ KnowsOwn' /\ TrailIsTrue' /\ RowsChain'
      /\ req'[q] = r /\ \A p \in Requests \ {q} : req'[p] = req[p]
      /\ \A p \in Requests : req'[p].shared = req[p].shared
      /\ \A p \in Requests : Busy(p)' => Busy(p)
      /\ Retention \notin req[q].shared => config[Retention] = req[q].updates[Retention]
  BY <1>0, <1>1, <1>2, <1>4, <1>5, FileStep
<1>7. SoloFile'
  <2>1. ASSUME NEW p \in Requests, req'[p].st = "writing"
        PROVE  Retention \in req'[p].shared
    <3>1. p # q /\ req[p].st = "writing"
      BY <1>1, <1>6, <2>1
    <3>2. Busy(p) /\ Retention \in Fields(req[p])
      BY <3>1 DEF Busy, ConfigInv, KnowsOwn
    <3>. QED
      BY <1>0, <1>3, <1>6, <3>1, <3>2, Alone
  <2>. QED
    BY <1>2, <1>6, <2>1 DEF ConfigInv, SoloFile
<1>8. KeylessIsWhole'
  BY <1>3, <1>4, KeysAssumption DEF KeylessIsWhole
<1>9. LokiFollows'
  BY <1>2, <1>4, <1>6 DEF LokiFollows, days
<1>10. MixedOnlyByOverlap'
  <2>1. file.value # Keyless => overlapped
    BY <1>0 DEF ConfigInv, SoloFile
  <2>. QED
    BY <1>1, <1>2, <1>4, <1>6, <2>1 DEF ConfigInv, MixedOnlyByOverlap
<1>. QED
  BY <1>6, <1>7, <1>8, <1>9, <1>10 DEF ConfigInv

-----------------------------------------------------------------------------
LEMMA FailStep ==
    ASSUME ConfigInv, NEW q \in Requests, Fail(q)
    PROVE  ConfigInv'
<1>0. TypeOK /\ req[q] \in RequestState
  BY DEF ConfigInv, TypeOK
<1>1. req'[q] = NoRequest /\ \A p \in Requests \ {q} : req'[p] = req[p]
  BY <1>0, OthersKept DEF Fail
\* What its statement under way may have changed was its to change.
<1>2. /\ config' \in [Keys -> Values] /\ audited' \in [Keys -> Values]
      /\ muddled \subseteq muddled' /\ muddled' \subseteq Keys
      /\ \A j \in Keys : Auditing(q, j) => j \in muddled'
      /\ \A j \in Keys : config'[j] # config[j] \/ audited'[j] # audited[j]
              => Busy(q) /\ j \in Fields(req[q]) /\ j \in muddled'
  <2>1. PICK k \in Keys :
          \/ /\ UNCHANGED <<config, audited>>
             /\ muddled' = muddled \cup {j \in Keys : Auditing(q, j)}
          \/ /\ req[q].st = "upserting" /\ At(req[q], k)
             /\ config' = [config EXCEPT ![k] = req[q].updates[k]]
             /\ muddled' = muddled \cup {k} /\ UNCHANGED audited
          \/ /\ Auditing(q, k)
             /\ audited' = [audited EXCEPT ![k] = req[q].updates[k]]
             /\ muddled' = muddled \cup {k} /\ UNCHANGED config
    BY DEF Fail, Auditing
  <2>2. CASE UNCHANGED <<config, audited>> /\ muddled' = muddled \cup {j \in Keys : Auditing(q, j)}
    BY <1>0, <2>2 DEF TypeOK
  <2>3. CASE /\ req[q].st = "upserting" /\ At(req[q], k)
             /\ config' = [config EXCEPT ![k] = req[q].updates[k]]
             /\ muddled' = muddled \cup {k} /\ UNCHANGED audited
    <3>1. Busy(q) /\ k \in Fields(req[q]) /\ req[q].updates[k] \in Values
      BY <1>0, <2>3 DEF Busy, ConfigInv, KnowsOwn, At, Fields, RequestState
    <3>2. \A j \in Keys : ~ Auditing(q, j)
      BY <2>3 DEF Auditing
    <3>. QED
      BY <1>0, <2>3, <3>1, <3>2 DEF TypeOK
  <2>4. CASE /\ Auditing(q, k)
             /\ audited' = [audited EXCEPT ![k] = req[q].updates[k]]
             /\ muddled' = muddled \cup {k} /\ UNCHANGED config
    <3>1. Busy(q) /\ k \in Fields(req[q])
      BY <2>4, AuditingIs
    <3>2. req[q].updates[k] \in Values
      BY <1>0, <3>1 DEF Fields, RequestState
    <3>3. \A j \in Keys : Auditing(q, j) => j = k
      BY <1>0, <2>4, AtIsUnique DEF Auditing
    <3>. QED
      BY <1>0, <2>4, <3>1, <3>2, <3>3 DEF TypeOK
  <2>. QED
    BY <2>1, <2>2, <2>3, <2>4
<1>3. /\ file' = file /\ overlapped' = overlapped
      /\ req' = [req EXCEPT ![q] = NoRequest]
      /\ adrift' = (adrift \/ (Busy(q) /\ Retention \in Fields(req[q])))
  BY DEF Fail
<1>4. TypeOK'
  BY <1>0, <1>2, <1>3, NoRequestIs DEF TypeOK
<1>5. /\ ~ Busy(q)' /\ ~ req'[q].mixed /\ \A j \in Keys : ~ Auditing(q, j)'
      /\ \A p \in Requests \ {q} : Busy(p)' <=> Busy(p)
      /\ \A p \in Requests \ {q}, j \in Keys : Auditing(p, j)' <=> Auditing(p, j)
  BY <1>1, NoRequestIs DEF Busy, Auditing
<1>6. Exclusive'
  BY <1>1, <1>5 DEF ConfigInv, Exclusive
<1>7. KnowsOwn'
  <2>1. Own(req'[q], config')
    BY <1>1, NoRequestIs DEF Own, BusyStates
  <2>2. ASSUME NEW p \in Requests \ {q}
        PROVE  Own(req'[p], config')
    <3>1. Own(req[p], config) /\ Fields(req[p]) \subseteq Keys
      BY KnowsOwnIs DEF ConfigInv, Fields
    <3>2. ASSUME Busy(p), NEW j \in Fields(req[p]) \ req[p].shared
          PROVE  config'[j] = config[j]
      BY <1>2, <3>1, <3>2, Alone
    <3>. QED
      BY <1>1, <3>1, <3>2 DEF Own, Busy, BusyStates
  <2>. QED
    BY <2>1, <2>2, KnowsOwnNext
<1>8. SoloFile' /\ KeylessIsWhole'
  BY <1>1, <1>3, <1>5, NoRequestIs DEF ConfigInv, SoloFile, KeylessIsWhole
<1>9. TrailIsTrue'
  <2>1. ASSUME NEW j \in Keys, j \notin muddled', \A p \in Requests : ~ Auditing(p, j)'
        PROVE  audited'[j] = config'[j]
    <3>1. \A p \in Requests : ~ Auditing(p, j)
      BY <1>2, <1>5, <2>1
    <3>. QED
      BY <1>2, <2>1, <3>1 DEF ConfigInv, TrailIsTrue
  <2>. QED
    BY <2>1 DEF TrailIsTrue
<1>10. RowsChain'
  BY <1>1, <1>2, <1>5 DEF ConfigInv, RowsChain
<1>11. LokiFollows'
  BY <1>1, <1>2, <1>3, <1>5, KeysAssumption DEF ConfigInv, LokiFollows
<1>12. MixedOnlyByOverlap'
  BY <1>1, <1>3, <1>5 DEF ConfigInv, MixedOnlyByOverlap
<1>. QED
  BY <1>4, <1>6, <1>7, <1>8, <1>9, <1>10, <1>11, <1>12 DEF ConfigInv

-----------------------------------------------------------------------------
LEMMA NextInv == ConfigInv /\ [Next]_vars => ConfigInv'
<1>. SUFFICES ASSUME ConfigInv, [Next]_vars PROVE ConfigInv'
  OBVIOUS
<1>1. CASE UNCHANGED vars
  <2>1. UNCHANGED <<config, audited, file, req, muddled, adrift, overlapped>>
    BY <1>1 DEF vars
  <2>. QED
    BY <2>1 DEF ConfigInv, TypeOK, Exclusive, KnowsOwn, SoloFile, KeylessIsWhole, TrailIsTrue,
                RowsChain, LokiFollows, MixedOnlyByOverlap, Busy, Auditing
<1>2. CASE Next
  <2>. PICK q \in Requests :
         \/ \E u \in [Keys -> Values \cup {Keep}] : Receive(q, u)
         \/ Load(q)
         \/ \E k \in Keys : Upsert(q, k) \/ Audit(q, k)
         \/ ReadOverrides(q) \/ Truncate(q) \/ WriteOverrides(q) \/ OverridesError(q)
         \/ Fail(q) \/ Answer(q)
    BY <1>2 DEF Next
  <2>1. ASSUME NEW u \in [Keys -> Values \cup {Keep}], Receive(q, u) PROVE ConfigInv'
    BY <2>1, ReceiveStep
  <2>2. CASE Load(q)
    BY <2>2, LoadStep
  <2>3. ASSUME NEW k \in Keys, Upsert(q, k) PROVE ConfigInv'
    BY <2>3, UpsertStep
  <2>4. ASSUME NEW k \in Keys, Audit(q, k) PROVE ConfigInv'
    BY <2>4, AuditStep
  <2>5. CASE ReadOverrides(q)
    BY <2>5, ReadStep
  <2>6. CASE Truncate(q)
    BY <2>6, TruncateStep
  <2>7. CASE WriteOverrides(q)
    BY <2>7, WriteStep
  <2>8. CASE OverridesError(q)
    BY <2>8, GiveUpStep DEF OverridesError
  <2>9. CASE Fail(q)
    BY <2>9, FailStep
  <2>10. CASE Answer(q)
    BY <2>10, AnswerStep
  <2>. QED
    BY <2>1, <2>2, <2>3, <2>4, <2>5, <2>6, <2>7, <2>8, <2>9, <2>10
<1>. QED
  BY <1>1, <1>2

\* The inductive invariant: what a handler does not share with another is its
\* own, from its load to its last write (update_config, apply_loki_retention).
THEOREM ConfigInvariant == Spec => []ConfigInv
<1>. QED
  BY InitInv, NextInv, PTL DEF Spec

\* The audit log tells what is stored, where changes neither met nor failed.
THEOREM TrailAlwaysTrue == Spec => []TrailIsTrue
<1>1. ConfigInv => TrailIsTrue
  BY DEF ConfigInv
<1>. QED
  BY <1>1, ConfigInvariant, PTL

\* The old_value of a row is the new_value of the row before it, likewise.
THEOREM RowsAlwaysChain == Spec => []RowsChain
<1>1. ConfigInv => RowsChain
  BY DEF ConfigInv
<1>. QED
  BY <1>1, ConfigInvariant, PTL

\* Loki's file has the stored retention after a change that met no other and
\* did not give up.
THEOREM LokiAlwaysFollows == Spec => []LokiFollows
<1>1. ConfigInv => LokiFollows
  BY DEF ConfigInv
<1>. QED
  BY <1>1, ConfigInvariant, PTL

\* Only overlapping retention changes garble the file.
THEOREM GarbledOnlyByOverlap == Spec => []MixedOnlyByOverlap
<1>1. ConfigInv => MixedOnlyByOverlap
  BY DEF ConfigInv
<1>. QED
  BY <1>1, ConfigInvariant, PTL

\* A file without its line stays so: no step of any handler invents one.
THEOREM LineNeverInvented == Spec => NeverInvented
<1>. DEFINE AtFile(p) == req[p].st \in {"truncating", "writing"}
            Lost == file.value = Keyless /\ \A p \in Requests : ~ AtFile(p)
<1>1. TypeOK /\ [Next]_vars => (Lost => Lost')
  <2>. SUFFICES ASSUME TypeOK, [Next]_vars, Lost PROVE Lost'
    OBVIOUS
  <2>1. CASE UNCHANGED vars
    BY <2>1 DEF vars
  <2>2. ASSUME NEW q \in Requests, NEW r, req' = [req EXCEPT ![q] = r], file' = file,
               r.st \notin {"truncating", "writing"}
        PROVE  Lost'
    <3>1. req'[q] = r /\ \A p \in Requests \ {q} : req'[p] = req[p]
      BY <2>2, OthersKept
    <3>. QED
      BY <2>2, <3>1
  <2>3. ASSUME NEW q \in Requests, NEW u \in [Keys -> Values \cup {Keep}], Receive(q, u)
        PROVE  Lost'
    <3>1. [NoRequest EXCEPT !.st = "received", !.updates = u].st = "received"
      BY DEF NoRequest
    <3>. QED
      BY <2>2, <2>3, <3>1 DEF Receive
  <2>4. ASSUME NEW q \in Requests, Load(q)
        PROVE  Lost'
    <3>1. ASSUME NEW p \in Requests PROVE ~ AtFile(p)'
      <4>1. req[p] \in RequestState /\ ~ AtFile(p)
        BY DEF TypeOK
      <4>2. req'[p].st \in {"upserting", req[p].st}
        BY <2>4, <4>1 DEF Load, RequestState
      <4>. QED
        BY <4>1, <4>2
    <3>. QED
      BY <2>4, <3>1 DEF Load
  <2>5. ASSUME NEW q \in Requests, NEW k \in Keys, Upsert(q, k)
        PROVE  Lost'
    <3>1. [req[q] EXCEPT !.st = "auditing"].st = "auditing"
      BY DEF TypeOK, RequestState
    <3>. QED
      BY <2>2, <2>5, <3>1 DEF Upsert
  <2>6. ASSUME NEW q \in Requests, NEW k \in Keys, Audit(q, k)
        PROVE  Lost'
    <3>. DEFINE rest == req[q].todo \ {k}
                r == [req[q] EXCEPT !.todo = rest, !.st = Then(req[q], rest)]
    <3>1. r.st = Then(req[q], rest)
      BY DEF TypeOK, RequestState
    <3>2. r.st \notin {"truncating", "writing"}
      BY <3>1 DEF Then
    <3>3. req' = [req EXCEPT ![q] = r] /\ file' = file
      BY <2>6 DEF Audit
    <3>. HIDE DEF r
    <3>. QED
      BY <2>2, <3>2, <3>3
  <2>7. ASSUME NEW q \in Requests, GiveUp(q)
        PROVE  Lost'
    <3>1. [req[q] EXCEPT !.st = "answering"].st = "answering"
      BY DEF TypeOK, RequestState
    <3>. QED
      BY <2>2, <2>7, <3>1 DEF GiveUp
  <2>8. ASSUME NEW q \in Requests, Fail(q) \/ Answer(q)
        PROVE  Lost'
    BY <2>2, <2>8, NoRequestIs DEF Fail, Answer
  <2>9. ASSUME NEW q \in Requests
        PROVE  ~ Truncate(q) /\ ~ WriteOverrides(q)
    BY DEF Truncate, WriteOverrides
  <2>10. ASSUME NEW q \in Requests, ReadOverrides(q) \/ OverridesError(q)
         PROVE  GiveUp(q)
    BY <2>10 DEF ReadOverrides, OverridesError
  <2>. QED
    BY <2>1, <2>3, <2>4, <2>5, <2>6, <2>7, <2>8, <2>9, <2>10 DEF Next
<1>2. ConfigInv => TypeOK
  BY DEF ConfigInv
<1>3. TypeOK /\ [Next]_vars =>
        [file.value = Keyless /\ (\A q \in Requests : req[q].st \notin {"truncating", "writing"})
            => file'.value = Keyless
               /\ (\A q \in Requests : req'[q].st \notin {"truncating", "writing"})]_vars
  BY <1>1
<1>. QED
  BY <1>2, <1>3, ConfigInvariant, PTL DEF Spec, NeverInvented
=============================================================================
