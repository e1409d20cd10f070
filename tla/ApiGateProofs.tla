---------------------------- MODULE ApiGateProofs ----------------------------
(***************************************************************************)
(* Proofs about RateLimiter and JwksAuth, and that ApiGate implements      *)
(* both: for any clients, workers, keys, limits and times.                 *)
(***************************************************************************)
EXTENDS ApiGate, FiniteSetTheorems, TLAPS

LEMMA Instances ==
    /\ Instants \subseteq Nat
    /\ \A S \in SUBSET Instants : IsFiniteSet(S) /\ Cardinality(S) \in Nat
    /\ \A S, T \in SUBSET Instants : S \subseteq T => Cardinality(S) <= Cardinality(T)
<1>1. IsFiniteSet(Instants) /\ Instants \subseteq Nat
  BY WorkersAssumption, FS_Interval DEF Instants
<1>2. \A S \in SUBSET Instants : IsFiniteSet(S)
  BY <1>1, FS_Subset
<1>3. \A S \in SUBSET Instants : Cardinality(S) \in Nat
  BY <1>2, FS_CardinalityType
<1>4. ASSUME NEW S \in SUBSET Instants, NEW T \in SUBSET Instants, S \subseteq T
      PROVE  Cardinality(S) <= Cardinality(T)
  BY <1>2, <1>4, FS_Subset
<1>. QED
  BY <1>1, <1>2, <1>3, <1>4

-----------------------------------------------------------------------------
(* The rate limiter.                                                       *)

Nows(b, c) == {g.now : g \in Recent(b, c)}

LEMMA StampedRecord ==
    ASSUME LimiterTypeOK, NEW w \in Workers, req[w].st = "stamped"
    PROVE  /\ req[w] \in [st : {"stamped", "granted", "refused"}, client : Clients, now : Instants]
           /\ req[w].client \in Clients /\ req[w].now \in Instants
           /\ \A out \in {"granted", "refused"} :
                 [req EXCEPT ![w].st = out] \in [Workers -> Requests]
BY DEF LimiterTypeOK, Requests, Idle

LEMMA LimiterInitInv == clock = 0 /\ LimiterInit => LimiterInv
<1>. SUFFICES ASSUME clock = 0, LimiterInit PROVE LimiterInv
  OBVIOUS
<1>1. LimiterTypeOK
  BY WorkersAssumption, LimiterAssumption
  DEF LimiterInit, LimiterTypeOK, Requests, Backends, Instants
<1>2. StampsFresh
  BY DEF LimiterInit, StampsFresh, Idle, Backends
<1>3. \A b \in Backends, c \in Clients : Recent(b, c) = {} /\ Stamps(b, c) = {}
  BY DEF LimiterInit, Recent, Stamps, Backends
<1>4. GrantsKept /\ StampsAsked
  BY <1>3 DEF GrantsKept, StampsAsked
<1>5. GrantsBounded
  <2>1. \A b \in Backends, c \in Clients : {g.now : g \in Recent(b, c)} = {}
    BY <1>3
  <2>. QED
    BY <2>1, FS_EmptySet, LimiterAssumption DEF GrantsBounded
<1>. QED
  BY <1>1, <1>2, <1>4, <1>5 DEF LimiterInv

\* Whichever backend decides: what it counted held every recent admission.
LEMMA DecisionInv ==
    ASSUME LimiterInv, LimiterTypeOK', NEW w \in Workers, req[w].st = "stamped",
           NEW c, c = req[w].client, NEW now, now = req[w].now,
           NEW b \in Backends, NEW allowed \in BOOLEAN, Decide(w, b, allowed),
           allowed => Cardinality(Live(Stamps(b, c), now)) < Limit /\ now \in Stamps(b, c)',
           \A a \in Backends, d \in Clients :
              /\ Live(Stamps(a, d), now) \subseteq Stamps(a, d)'
              /\ Stamps(a, d)' \subseteq Stamps(a, d) \cup (IF d = c THEN {now} ELSE {}),
           clock' = clock, asked' = asked
    PROVE  LimiterInv'
<1>. DEFINE new == [now |-> now, at |-> clock]
<1>0. c \in Clients /\ now \in Instants /\ clock \in Instants /\ Instants \subseteq Nat
      /\ Window \in Nat /\ Slip \in Nat /\ Slip < Window /\ Limit \in Nat
  BY StampedRecord, Instances, LimiterAssumption DEF LimiterInv, LimiterTypeOK
<1>1. now <= clock /\ clock <= now + Slip /\ <<now, w>> \in asked[c]
  BY DEF LimiterInv, StampsFresh
<1>2. \A v \in Workers : /\ v # w => req'[v] = req[v]
                         /\ req'[w].st \in {"granted", "refused"}
  BY DEF Decide, LimiterInv, LimiterTypeOK, Requests
<1>3. \A a \in Backends, d \in Clients :
         granted'[a][d] = granted[a][d] \cup (IF allowed /\ a = b /\ d = c THEN {new} ELSE {})
  BY <1>0 DEF Decide, LimiterInv, LimiterTypeOK
<1>4. \A a \in Backends, d \in Clients :
         Recent(a, d)' \subseteq Recent(a, d) \cup (IF allowed /\ a = b /\ d = c THEN {new} ELSE {})
  BY <1>3 DEF Recent
<1>5. StampsFresh'
  <2>1. \A v \in Workers : req'[v].st = "stamped" => req'[v] = req[v] /\ req[v].st = "stamped"
    BY <1>2
  <2>2. new.at <= clock /\ new.now <= new.at /\ new.at <= new.now + Slip
    BY <1>0, <1>1
  <2>. QED
    BY <2>1, <2>2, <1>3 DEF StampsFresh, LimiterInv
<1>6. \A a \in Backends, d \in Clients : \A g \in Recent(a, d) :
         g.now \in Live(Stamps(a, d), now)
  <2>. SUFFICES ASSUME NEW a \in Backends, NEW d \in Clients, NEW g \in Recent(a, d)
                PROVE  g.now \in Stamps(a, d) /\ g.now + Window > now
    BY DEF Live
  <2>1. g.now \in Stamps(a, d)
    BY DEF LimiterInv, GrantsKept
  <2>2. g \in granted[a][d] /\ g.at + Window > clock + Slip
    BY DEF Recent
  <2>3. granted[a][d] \in SUBSET [now : Instants, at : Instants]
    BY DEF LimiterInv, LimiterTypeOK
  <2>4. g.at \in Nat /\ g.now \in Nat
    BY <2>2, <2>3, <1>0
  <2>5. g.at <= g.now + Slip
    BY <2>2 DEF LimiterInv, StampsFresh
  <2>6. now \in Nat /\ clock \in Nat
    BY <1>0
  <2>7. g.now + Window > now
    BY <2>2, <2>4, <2>5, <2>6, <1>0, <1>1
  <2>. QED
    BY <2>1, <2>7
<1>7. GrantsKept'
  <2>. SUFFICES ASSUME NEW a \in Backends, NEW d \in Clients, NEW g \in Recent(a, d)'
                PROVE  g.now \in Stamps(a, d)'
    BY DEF GrantsKept
  <2>1. CASE g \in Recent(a, d)
    BY <2>1, <1>6
  <2>2. CASE g \notin Recent(a, d)
    <3>1. g = new /\ allowed /\ a = b /\ d = c
      BY <2>2, <1>4
    <3>2. g.now = now /\ a = b /\ d = c
      BY <3>1
    <3>3. now \in Stamps(b, c)'
      BY <3>1
    <3>4. Stamps(a, d)' = Stamps(b, c)'
      BY <3>2 DEF Stamps
    <3>. QED
      BY <3>2, <3>3, <3>4
  <2>. QED
    BY <2>1, <2>2
<1>8. StampsAsked'
  <2>. SUFFICES ASSUME NEW a \in Backends, NEW d \in Clients, NEW t \in Stamps(a, d)',
                       t + Window + Slip > clock
                PROVE  \E v \in Workers : /\ <<t, v>> \in asked[d]
                                          /\ ~(req'[v].st = "stamped" /\ req'[v].now = t)
    BY DEF StampsAsked
  <2>1. CASE t \in Stamps(a, d)
    BY <2>1, <1>2 DEF LimiterInv, StampsAsked
  <2>2. CASE t \notin Stamps(a, d)
    BY <2>2, <1>1, <1>2
  <2>. QED
    BY <2>1, <2>2
<1>9. GrantsBounded'
  <2>. SUFFICES ASSUME NEW a \in Backends, NEW d \in Clients
                PROVE  Cardinality(Nows(a, d)') <= Limit
    BY DEF GrantsBounded, Nows
  <2>1. Nows(a, d) \in SUBSET Instants /\ Cardinality(Nows(a, d)) <= Limit
    <3>1. Cardinality(Nows(a, d)) <= Limit
      BY DEF LimiterInv, GrantsBounded, Nows
    <3>2. granted[a][d] \in SUBSET [now : Instants, at : Instants]
      BY DEF LimiterInv, LimiterTypeOK
    <3>. QED
      BY <3>1, <3>2 DEF Nows, Recent
  <2>2. Nows(a, d)' \in SUBSET Instants
    BY DEF LimiterTypeOK, Nows, Recent, Instants, Backends
  <2>3. CASE ~(allowed /\ a = b /\ d = c)
    <3>1. Nows(a, d)' \subseteq Nows(a, d)
      BY <2>3, <1>4 DEF Nows
    <3>. QED
      BY <3>1, <2>1, <2>2, <1>0, Instances
  <2>4. CASE allowed /\ a = b /\ d = c
    <3>1. Nows(a, d)' \subseteq Nows(a, d) \cup {now}
      BY <1>4 DEF Nows
    <3>2. Live(Stamps(a, d), now) \in SUBSET Instants
      BY DEF LimiterInv, LimiterTypeOK, Live, Stamps, Backends
    <3>3. Cardinality(Nows(a, d)) <= Cardinality(Live(Stamps(a, d), now))
      BY <1>6, <2>1, <3>2, Instances DEF Nows
    <3>4. Cardinality(Nows(a, d)) < Limit
      BY <3>2, <3>3, <2>1, <2>4, <1>0, Instances
    <3>5. Cardinality(Nows(a, d) \cup {now}) <= Cardinality(Nows(a, d)) + 1
      <4>1. IsFiniteSet(Nows(a, d)) /\ Cardinality(Nows(a, d)) \in Nat
        BY <2>1, Instances
      <4>2. \/ Cardinality(Nows(a, d) \cup {now}) = Cardinality(Nows(a, d))
            \/ Cardinality(Nows(a, d) \cup {now}) = Cardinality(Nows(a, d)) + 1
        BY <4>1, FS_AddElement
      <4>. QED
        BY <4>1, <4>2
    <3>6. Nows(a, d) \cup {now} \in SUBSET Instants
      BY <2>1, <1>0
    <3>. QED
      BY <3>1, <3>4, <3>5, <3>6, <2>1, <2>2, <1>0, Instances
  <2>. QED
    BY <2>3, <2>4
<1>. QED
  BY <1>5, <1>7, <1>8, <1>9 DEF LimiterInv

\* The pipeline's transaction: the window of one client, seen at a stamp.
LEMMA PipelineStamps ==
    ASSUME LimiterTypeOK, NEW c \in Clients, NEW now \in Instants,
           zset' = RedisRecord(c, now)
    PROVE  /\ zset' \in [Clients -> SUBSET Instants]
           /\ now \in zset'[c]
           /\ \A d \in Clients : /\ Live(zset[d], now) \subseteq zset'[d]
                                 /\ zset'[d] \subseteq zset[d] \cup (IF d = c THEN {now} ELSE {})
BY DEF LimiterTypeOK, RedisRecord, Live

LEMMA MemoryStamps ==
    ASSUME LimiterTypeOK, NEW w \in Workers, NEW c \in Clients, NEW now \in Instants,
           window' = MemoryRecord(w, c, now)
    PROVE  /\ window' \in [Workers -> [Clients -> SUBSET Instants]]
           /\ MemoryAllows(w, c, now) => now \in window'[w][c]
           /\ \A v \in Workers, d \in Clients :
                 /\ Live(window[v][d], now) \subseteq window'[v][d]
                 /\ window'[v][d] \subseteq window[v][d] \cup (IF d = c THEN {now} ELSE {})
<1>1. window \in [Workers -> [Clients -> SUBSET Instants]]
  BY DEF LimiterTypeOK
<1>2. window' = [window EXCEPT ![w][c] =
                    Live(window[w][c], now) \cup (IF MemoryAllows(w, c, now) THEN {now} ELSE {})]
  BY DEF MemoryRecord
<1>3. \A v \in Workers, d \in Clients :
         window'[v][d] = IF v = w /\ d = c
                         THEN Live(window[w][c], now) \cup (IF MemoryAllows(w, c, now) THEN {now} ELSE {})
                         ELSE window[v][d]
  BY <1>1, <1>2
<1>4. window' \in [Workers -> [Clients -> SUBSET Instants]]
  BY <1>1, <1>2 DEF Live
<1>. QED
  BY <1>1, <1>3, <1>4 DEF Live

LEMMA DecideType ==
    ASSUME LimiterTypeOK, NEW w \in Workers, req[w].st = "stamped", NEW b \in Backends,
           NEW allowed \in BOOLEAN, Decide(w, b, allowed)
    PROVE  /\ req' \in [Workers -> Requests]
           /\ granted' \in [Backends -> [Clients -> SUBSET [now : Instants, at : Instants]]]
<1>1. req' \in [Workers -> Requests]
  BY StampedRecord DEF Decide
<1>2. granted' \in [Backends -> [Clients -> SUBSET [now : Instants, at : Instants]]]
  <2>1. req[w].client \in Clients /\ req[w].now \in Instants /\ clock \in Instants
        /\ granted \in [Backends -> [Clients -> SUBSET [now : Instants, at : Instants]]]
    BY StampedRecord DEF LimiterTypeOK
  <2>2. [now |-> req[w].now, at |-> clock] \in [now : Instants, at : Instants]
    BY <2>1
  <2>. QED
    BY <2>1, <2>2 DEF Decide
<1>. QED
  BY <1>1, <1>2

LEMMA ByRedisInv ==
    ASSUME LimiterInv, NEW w \in Workers, ByRedis(w), clock' = clock
    PROVE  LimiterInv'
<1>. PICK c, now : c = req[w].client /\ now = req[w].now
  OBVIOUS
<1>. DEFINE ok == RedisAllows(c, now)
<1>1. req[w].st = "stamped" /\ LimiterTypeOK /\ c \in Clients /\ now \in Instants
      /\ Redis \in Backends
  BY StampedRecord DEF ByRedis, LimiterInv, Backends
<1>2. /\ now \in zset'[c] /\ zset' \in [Clients -> SUBSET Instants]
      /\ \A d \in Clients : /\ Live(zset[d], now) \subseteq zset'[d]
                            /\ zset'[d] \subseteq zset[d] \cup (IF d = c THEN {now} ELSE {})
  BY <1>1, PipelineStamps DEF ByRedis
<1>3. ok \in BOOLEAN /\ Decide(w, Redis, ok)
  BY DEF ByRedis, RedisAllows
<1>4. LimiterTypeOK'
  BY <1>1, <1>2, <1>3, DecideType DEF ByRedis, LimiterTypeOK
<1>5. ok => Cardinality(Live(Stamps(Redis, c), now)) < Limit /\ now \in Stamps(Redis, c)'
  <2>1. Stamps(Redis, c) = zset[c] /\ Stamps(Redis, c)' = zset'[c]
    BY DEF Stamps
  <2>. QED
    BY <1>2, <2>1 DEF RedisAllows
<1>6. \A a \in Backends, d \in Clients :
         /\ Live(Stamps(a, d), now) \subseteq Stamps(a, d)'
         /\ Stamps(a, d)' \subseteq Stamps(a, d) \cup (IF d = c THEN {now} ELSE {})
  BY <1>2 DEF Stamps, ByRedis, Live
<1>7. asked' = asked
  BY DEF ByRedis
<1>. QED
  BY <1>1, <1>3, <1>4, <1>5, <1>6, <1>7, DecisionInv

\* Memory decides, whether or not the pipeline's transaction ran before.
LEMMA InMemoryInv ==
    ASSUME LimiterInv, NEW w \in Workers, req[w].st = "stamped", DecideInMemory(w),
           zset' = zset \/ zset' = RedisRecord(req[w].client, req[w].now),
           link' \in [Workers -> {"unchecked", "connected", "off"}],
           faults' \in 0..MaxFaults, clock' = clock
    PROVE  LimiterInv'
<1>. PICK c, now : c = req[w].client /\ now = req[w].now
  OBVIOUS
<1>. DEFINE ok == MemoryAllows(w, c, now)
<1>1. LimiterTypeOK /\ c \in Clients /\ now \in Instants
      /\ w \in Backends /\ w # Redis
  BY StampedRecord, LimiterAssumption DEF LimiterInv, Backends
<1>2. /\ window' \in [Workers -> [Clients -> SUBSET Instants]]
      /\ ok => now \in window'[w][c]
      /\ \A v \in Workers, d \in Clients :
            /\ Live(window[v][d], now) \subseteq window'[v][d]
            /\ window'[v][d] \subseteq window[v][d] \cup (IF d = c THEN {now} ELSE {})
  BY <1>1, MemoryStamps DEF DecideInMemory
<1>3. /\ zset' \in [Clients -> SUBSET Instants]
      /\ \A d \in Clients : /\ Live(zset[d], now) \subseteq zset'[d]
                            /\ zset'[d] \subseteq zset[d] \cup (IF d = c THEN {now} ELSE {})
  <2>1. CASE zset' = zset
    BY <2>1, <1>1 DEF Live, LimiterTypeOK
  <2>2. CASE zset' = RedisRecord(c, now)
    BY <2>2, <1>1, PipelineStamps
  <2>. QED
    BY <2>1, <2>2
<1>4. ok \in BOOLEAN /\ Decide(w, w, ok)
  BY DEF DecideInMemory, MemoryAllows
<1>5. LimiterTypeOK'
  BY <1>1, <1>2, <1>3, <1>4, DecideType DEF DecideInMemory, LimiterTypeOK
<1>6. ok => Cardinality(Live(Stamps(w, c), now)) < Limit /\ now \in Stamps(w, c)'
  <2>1. Stamps(w, c) = window[w][c] /\ Stamps(w, c)' = window'[w][c]
    BY <1>1 DEF Stamps
  <2>. QED
    BY <1>2, <2>1 DEF MemoryAllows
<1>7. \A a \in Backends, d \in Clients :
         /\ Live(Stamps(a, d), now) \subseteq Stamps(a, d)'
         /\ Stamps(a, d)' \subseteq Stamps(a, d) \cup (IF d = c THEN {now} ELSE {})
  BY <1>2, <1>3 DEF Stamps, Backends
<1>8. asked' = asked
  BY DEF DecideInMemory
<1>. QED
  BY <1>1, <1>4, <1>5, <1>6, <1>7, <1>8, DecisionInv

\* Nothing that leaves the stamps, the admissions and the clock alone can hurt,
\* as long as requests are only stamped on record.
LEMMA QuietStep ==
    ASSUME LimiterInv, LimiterTypeOK', clock' = clock,
           \A b \in Backends, c \in Clients :
              /\ granted'[b][c] \subseteq granted[b][c]
              /\ Stamps(b, c)' = Stamps(b, c) \/ (Stamps(b, c)' = {} /\ granted'[b][c] = {}),
           \A c \in Clients : asked[c] \subseteq asked'[c],
           \A w \in Workers : req'[w].st = "stamped" =>
              \/ req'[w] = req[w]
              \/ /\ req'[w].now = clock /\ <<clock, w>> \in asked'[req'[w].client]
                 /\ \A d \in Clients : <<clock, w>> \notin asked[d]
    PROVE  LimiterInv'
<1>0. clock \in Nat /\ Slip \in Nat
  BY Instances, LimiterAssumption DEF LimiterInv, LimiterTypeOK
<1>1. StampsFresh'
  <2>1. ASSUME NEW w \in Workers, req'[w].st = "stamped"
        PROVE  /\ req'[w].now <= clock /\ clock <= req'[w].now + Slip
               /\ <<req'[w].now, w>> \in asked'[req'[w].client]
    <3>1. CASE req'[w] = req[w]
      <4>1. req[w].st = "stamped" /\ req[w].client \in Clients
        BY <2>1, <3>1, StampedRecord DEF LimiterInv
      <4>. QED
        BY <3>1, <4>1 DEF LimiterInv, StampsFresh
    <3>2. CASE req'[w].now = clock /\ <<clock, w>> \in asked'[req'[w].client]
      BY <3>2, <1>0
    <3>. QED
      BY <2>1, <3>1, <3>2
  <2>2. \A b \in Backends, c \in Clients : \A g \in granted'[b][c] :
           g.at <= clock /\ g.now <= g.at /\ g.at <= g.now + Slip
    BY DEF LimiterInv, StampsFresh
  <2>. QED
    BY <2>1, <2>2 DEF StampsFresh
<1>2. \A b \in Backends, c \in Clients : Recent(b, c)' \subseteq Recent(b, c)
  BY DEF Recent
<1>3. \A b \in Backends, c \in Clients : granted'[b][c] = {} => Recent(b, c)' = {}
  BY DEF Recent
<1>4. GrantsKept'
  <2>. SUFFICES ASSUME NEW b \in Backends, NEW c \in Clients, NEW g \in Recent(b, c)'
                PROVE  g.now \in Stamps(b, c)'
    BY DEF GrantsKept
  <2>1. Stamps(b, c)' = Stamps(b, c)
    BY <1>3
  <2>. QED
    BY <2>1, <1>2 DEF LimiterInv, GrantsKept
<1>5. StampsAsked'
  <2>. SUFFICES ASSUME NEW b \in Backends, NEW c \in Clients, NEW t \in Stamps(b, c)',
                       t + Window + Slip > clock
                PROVE  \E w \in Workers : /\ <<t, w>> \in asked'[c]
                                          /\ ~(req'[w].st = "stamped" /\ req'[w].now = t)
    BY DEF StampsAsked
  <2>1. t \in Stamps(b, c)
    OBVIOUS
  <2>2. PICK w \in Workers : <<t, w>> \in asked[c] /\ ~(req[w].st = "stamped" /\ req[w].now = t)
    BY <2>1 DEF LimiterInv, StampsAsked
  <2>3. ASSUME req'[w].st = "stamped", req'[w].now = t
        PROVE  FALSE
    <3>1. CASE req'[w] = req[w]
      BY <2>2, <2>3, <3>1
    <3>2. CASE req'[w].now = clock /\ \A d \in Clients : <<clock, w>> \notin asked[d]
      BY <2>2, <2>3, <3>2
    <3>. QED
      BY <2>3, <3>1, <3>2
  <2>. QED
    BY <2>2, <2>3
<1>6. GrantsBounded'
  <2>. SUFFICES ASSUME NEW b \in Backends, NEW c \in Clients
                PROVE  Cardinality(Nows(b, c)') <= Limit
    BY DEF GrantsBounded, Nows
  <2>1. Cardinality(Nows(b, c)) <= Limit
    BY DEF LimiterInv, GrantsBounded, Nows
  <2>2. granted[b][c] \in SUBSET [now : Instants, at : Instants]
    BY DEF LimiterInv, LimiterTypeOK
  <2>3. Nows(b, c)' \subseteq Nows(b, c) /\ Nows(b, c) \in SUBSET Instants
    BY <1>2, <2>2 DEF Nows, Recent
  <2>. QED
    BY <2>1, <2>3, Instances, LimiterAssumption
<1>. QED
  BY <1>1, <1>4, <1>5, <1>6 DEF LimiterInv

LEMMA StampInv ==
    ASSUME LimiterInv, NEW w \in Workers, NEW c \in Clients, Stamp(w, c), clock' = clock
    PROVE  LimiterInv'
<1>1. LimiterTypeOK'
  BY LimiterAssumption DEF LimiterInv, LimiterTypeOK, Stamp, Requests
<1>2. /\ \A v \in Workers \ {w} : req'[v] = req[v]
      /\ req'[w] = [st |-> "stamped", client |-> c, now |-> clock]
      /\ \A d \in Clients : asked'[d] = IF d = c THEN asked[c] \cup {<<clock, w>>} ELSE asked[d]
      /\ \A d \in Clients : <<clock, w>> \notin asked[d]
  BY DEF LimiterInv, LimiterTypeOK, Stamp
<1>3. \A d \in Clients : asked[d] \subseteq asked'[d]
  BY <1>2
<1>4. \A v \in Workers : req'[v].st = "stamped" =>
         \/ req'[v] = req[v]
         \/ /\ req'[v].now = clock /\ <<clock, v>> \in asked'[req'[v].client]
            /\ \A d \in Clients : <<clock, v>> \notin asked[d]
  BY <1>2
<1>5. \A b \in Backends, d \in Clients :
         granted'[b][d] = granted[b][d] /\ Stamps(b, d)' = Stamps(b, d)
  BY DEF Stamp, Stamps
<1>. QED
  BY <1>1, <1>3, <1>4, <1>5, QuietStep

\* Actions after which no request is stamped that was not, and that leave the
\* stamps alone.
LEMMA PingInv ==
    ASSUME LimiterInv, NEW w \in Workers, Ping(w), clock' = clock
    PROVE  LimiterInv'
<1>1. LimiterTypeOK'
  BY DEF LimiterInv, LimiterTypeOK, Ping
<1>. QED
  BY <1>1, QuietStep DEF Ping, Stamps

LEMMA FinishInv ==
    ASSUME LimiterInv, NEW w \in Workers, Finish(w), clock' = clock
    PROVE  LimiterInv'
<1>1. LimiterTypeOK'
  BY DEF LimiterInv, LimiterTypeOK, Finish, Requests
<1>2. \A v \in Workers : req'[v].st = "stamped" => req'[v] = req[v]
  BY DEF LimiterInv, LimiterTypeOK, Finish, Idle
<1>3. \A b \in Backends, c \in Clients :
         granted'[b][c] = granted[b][c] /\ Stamps(b, c)' = Stamps(b, c)
  BY DEF Finish, Stamps
<1>4. asked' = asked
  BY DEF Finish
<1>. QED
  BY <1>1, <1>2, <1>3, <1>4, QuietStep

LEMMA RestartInv ==
    ASSUME LimiterInv, NEW w \in Workers, RestartLimiter(w), clock' = clock
    PROVE  LimiterInv'
<1>1. LimiterTypeOK'
  <2>1. req' \in [Workers -> Requests] /\ link' \in [Workers -> {"unchecked", "connected", "off"}]
    BY DEF LimiterInv, LimiterTypeOK, RestartLimiter, Requests
  <2>2. window' \in [Workers -> [Clients -> SUBSET Instants]]
    BY DEF LimiterInv, LimiterTypeOK, RestartLimiter
  <2>3. granted' \in [Backends -> [Clients -> SUBSET [now : Instants, at : Instants]]]
    BY DEF LimiterInv, LimiterTypeOK, RestartLimiter
  <2>4. faults' \in 0..MaxFaults
    BY LimiterAssumption DEF LimiterInv, LimiterTypeOK, RestartLimiter, Fault
  <2>. QED
    BY <2>1, <2>2, <2>3, <2>4 DEF LimiterInv, LimiterTypeOK, RestartLimiter
<1>2. \A v \in Workers : req'[v].st = "stamped" => req'[v] = req[v]
  BY DEF LimiterInv, LimiterTypeOK, RestartLimiter, Idle
<1>3. \A b \in Backends, c \in Clients :
         /\ granted'[b][c] = IF b = w THEN {} ELSE granted[b][c]
         /\ Stamps(b, c)' = IF b = w THEN {} ELSE Stamps(b, c)
  BY LimiterAssumption DEF LimiterInv, LimiterTypeOK, RestartLimiter, Stamps, Backends
<1>4. asked' = asked
  BY DEF RestartLimiter
<1>. QED
  BY <1>1, <1>2, <1>3, <1>4, QuietStep

LEMMA RedisStopsInv ==
    ASSUME LimiterInv, RedisStops, clock' = clock
    PROVE  LimiterInv'
<1>1. LimiterTypeOK'
  <2>1. faults' \in 0..MaxFaults
    BY LimiterAssumption DEF LimiterInv, LimiterTypeOK, RedisStops, Fault
  <2>. QED
    BY <2>1 DEF LimiterInv, LimiterTypeOK, RedisStops
<1>. QED
  BY <1>1, QuietStep DEF RedisStops, Stamps

LEMMA RedisStartsInv ==
    ASSUME LimiterInv, RedisStarts, clock' = clock
    PROVE  LimiterInv'
<1>1. LimiterTypeOK'
  BY DEF LimiterInv, LimiterTypeOK, RedisStarts
<1>2. \A b \in Backends, c \in Clients :
         \/ granted'[b][c] = granted[b][c] /\ Stamps(b, c)' = Stamps(b, c)
         \/ granted'[b][c] = {} /\ Stamps(b, c)' = {}
  <2>1. CASE UNCHANGED <<zset, granted>>
    BY <2>1 DEF RedisStarts, Stamps
  <2>2. CASE /\ zset' = [c \in Clients |-> {}]
             /\ granted' = [granted EXCEPT ![Redis] = [c \in Clients |-> {}]]
    BY <2>2 DEF RedisStarts, Stamps, LimiterInv, LimiterTypeOK, Backends
  <2>. QED
    BY <2>1, <2>2 DEF RedisStarts
<1>. QED
  BY <1>1, <1>2, QuietStep DEF RedisStarts

\* Time narrows what is recent, and drops from record only what no request
\* being decided can still meet.
LEMMA LimiterTickInv ==
    ASSUME LimiterInv, LimiterTick
    PROVE  LimiterInv'
<1>0. clock \in Nat /\ Slip \in Nat /\ Window \in Nat /\ clock' = clock + 1 /\ clock' \in Instants
      /\ Slip < Window
  BY Instances, LimiterAssumption, WorkersAssumption
  DEF LimiterInv, LimiterTypeOK, LimiterTick, Instants
<1>1. LimiterTypeOK'
  BY <1>0 DEF LimiterInv, LimiterTypeOK, LimiterTick, TickLimiter
<1>2. /\ req' = req /\ zset' = zset /\ window' = window
      /\ \A b \in Backends, c \in Clients : granted'[b][c] \subseteq granted[b][c]
      /\ \A c \in Clients : asked'[c] = {a \in asked[c] : a[1] + Window + Slip > clock + 1}
      /\ \A w \in Workers : req[w].st = "stamped" => clock < req[w].now + Slip
  BY DEF LimiterTick, TickLimiter
<1>3. \A b \in Backends, c \in Clients : granted[b][c] \in SUBSET [now : Instants, at : Instants]
  BY DEF LimiterInv, LimiterTypeOK
<1>4. \A b \in Backends, c \in Clients : Recent(b, c)' \subseteq Recent(b, c)
  <2>. SUFFICES ASSUME NEW b \in Backends, NEW c \in Clients, NEW g \in Recent(b, c)'
                PROVE  g \in Recent(b, c)
    OBVIOUS
  <2>1. g \in granted[b][c] /\ g.at + Window > clock + 1 + Slip
    BY <1>0, <1>2 DEF Recent
  <2>2. g.at \in Nat
    BY <2>1, <1>3, Instances
  <2>3. g.at + Window > clock + Slip
    BY <2>1, <2>2, <1>0
  <2>. QED
    BY <2>1, <2>3 DEF Recent
<1>5. StampsFresh'
  <2>1. ASSUME NEW w \in Workers, req[w].st = "stamped"
        PROVE  /\ req[w].now <= clock + 1 /\ clock + 1 <= req[w].now + Slip
               /\ <<req[w].now, w>> \in asked'[req[w].client]
    <3>1. req[w].now \in Nat /\ req[w].client \in Clients
      BY <2>1, StampedRecord, Instances DEF LimiterInv
    <3>2. req[w].now <= clock /\ <<req[w].now, w>> \in asked[req[w].client]
      BY <2>1 DEF LimiterInv, StampsFresh
    <3>3. clock + 1 <= req[w].now + Slip /\ req[w].now <= clock + 1
          /\ req[w].now + Window + Slip > clock + 1
      BY <2>1, <3>1, <3>2, <1>0, <1>2
    <3>. QED
      BY <3>1, <3>2, <3>3, <1>2
  <2>2. ASSUME NEW b \in Backends, NEW c \in Clients, NEW g \in granted'[b][c]
        PROVE  g.at <= clock + 1 /\ g.now <= g.at /\ g.at <= g.now + Slip
    <3>0. g \in granted[b][c]
      BY <1>2
    <3>1. g.at \in Nat
      BY <3>0, <1>3, Instances
    <3>2. g.at <= clock /\ g.now <= g.at /\ g.at <= g.now + Slip
      BY <3>0 DEF LimiterInv, StampsFresh
    <3>. QED
      BY <3>1, <3>2, <1>0
  <2>. QED
    BY <2>1, <2>2, <1>0, <1>2 DEF StampsFresh
<1>6. \A b \in Backends, c \in Clients : Stamps(b, c)' = Stamps(b, c)
  BY <1>2 DEF Stamps
<1>7. GrantsKept'
  BY <1>4, <1>6 DEF GrantsKept, LimiterInv
<1>8. StampsAsked'
  <2>. SUFFICES ASSUME NEW b \in Backends, NEW c \in Clients, NEW t \in Stamps(b, c),
                       t + Window + Slip > clock + 1
                PROVE  \E w \in Workers : /\ <<t, w>> \in asked'[c]
                                          /\ ~(req[w].st = "stamped" /\ req[w].now = t)
    BY <1>0, <1>2, <1>6 DEF StampsAsked
  <2>1. t \in Nat
    BY Instances DEF LimiterInv, LimiterTypeOK, Stamps, Backends
  <2>2. t + Window + Slip > clock
    BY <2>1, <1>0
  <2>3. PICK w \in Workers : <<t, w>> \in asked[c] /\ ~(req[w].st = "stamped" /\ req[w].now = t)
    BY <2>2 DEF LimiterInv, StampsAsked
  <2>. QED
    BY <2>3, <1>2
<1>9. GrantsBounded'
  <2>. SUFFICES ASSUME NEW b \in Backends, NEW c \in Clients
                PROVE  Cardinality(Nows(b, c)') <= Limit
    BY DEF GrantsBounded, Nows
  <2>1. Cardinality(Nows(b, c)) <= Limit
    BY DEF LimiterInv, GrantsBounded, Nows
  <2>2. Nows(b, c)' \subseteq Nows(b, c) /\ Nows(b, c) \in SUBSET Instants
    BY <1>3, <1>4 DEF Nows, Recent
  <2>. QED
    BY <2>1, <2>2, Instances, LimiterAssumption
<1>. QED
  BY <1>1, <1>5, <1>7, <1>8, <1>9 DEF LimiterInv

LEMMA LimiterNextInv == LimiterInv /\ [LimiterNext]_<<clock, limiterVars>> => LimiterInv'
<1>. SUFFICES ASSUME LimiterInv, [LimiterNext]_<<clock, limiterVars>>
              PROVE  LimiterInv'
  OBVIOUS
<1>1. CASE UNCHANGED <<clock, limiterVars>>
  <2>0. /\ UNCHANGED <<clock, redisUp, zset, link, window, req>>
        /\ UNCHANGED <<faults, sent, asked, granted>>
    BY <1>1 DEF limiterVars
  <2>1. LimiterTypeOK' /\ StampsFresh'
    BY <2>0 DEF LimiterInv, LimiterTypeOK, StampsFresh
  <2>2. \A b, c : Recent(b, c)' = Recent(b, c) /\ Stamps(b, c)' = Stamps(b, c)
    BY <2>0 DEF Recent, Stamps
  <2>3. GrantsKept' /\ GrantsBounded'
    BY <2>2 DEF LimiterInv, GrantsKept, GrantsBounded
  <2>4. StampsAsked'
    BY <2>0, <2>2 DEF LimiterInv, StampsAsked
  <2>. QED
    BY <2>1, <2>3, <2>4 DEF LimiterInv
<1>2. CASE LimiterTick
  BY <1>2, LimiterTickInv
<1>3. CASE LimiterStep /\ clock' = clock
  <2>1. ASSUME NEW w \in Workers, NEW c \in Clients, Stamp(w, c) PROVE LimiterInv'
    BY <1>3, <2>1, StampInv
  <2>2. ASSUME NEW w \in Workers, Ping(w) PROVE LimiterInv'
    BY <1>3, <2>2, PingInv
  <2>3. ASSUME NEW w \in Workers, ByRedis(w) PROVE LimiterInv'
    BY <1>3, <2>3, ByRedisInv
  <2>4. ASSUME NEW w \in Workers, RedisLost(w) PROVE LimiterInv'
    <3>1. link' \in [Workers -> {"unchecked", "connected", "off"}]
      BY <2>4 DEF RedisLost, LimiterInv, LimiterTypeOK
    <3>2. faults' \in 0..MaxFaults
      BY <2>4, LimiterAssumption DEF RedisLost, Fault, LimiterInv, LimiterTypeOK
    <3>. QED
      BY <1>3, <2>4, <3>1, <3>2, InMemoryInv DEF RedisLost
  <2>5. ASSUME NEW w \in Workers, ByMemory(w) PROVE LimiterInv'
    BY <1>3, <2>5, InMemoryInv DEF ByMemory, LimiterInv, LimiterTypeOK
  <2>6. ASSUME NEW w \in Workers, Finish(w) PROVE LimiterInv'
    BY <1>3, <2>6, FinishInv
  <2>7. ASSUME NEW w \in Workers, RestartLimiter(w) PROVE LimiterInv'
    BY <1>3, <2>7, RestartInv
  <2>8. CASE RedisStops
    BY <1>3, <2>8, RedisStopsInv
  <2>9. CASE RedisStarts
    BY <1>3, <2>9, RedisStartsInv
  <2>. QED
    BY <1>3, <2>1, <2>2, <2>3, <2>4, <2>5, <2>6, <2>7, <2>8, <2>9 DEF LimiterStep
<1>. QED
  BY <1>1, <1>2, <1>3 DEF LimiterNext

\* RateLimiter's state stays typed and every backend keeps count, for any limit,
\* window, workers and clients.
THEOREM LimiterInvariant == LimiterSpec => []LimiterInv
<1>. QED
  BY LimiterInitInv, LimiterNextInv, PTL DEF LimiterSpec

\* No backend admits more than Limit requests of a client within Window - Slip.
THEOREM LimitHolds == LimiterSpec => []GrantsBounded
<1>1. LimiterInv => GrantsBounded
  BY DEF LimiterInv
<1>. QED
  BY <1>1, LimiterInvariant, PTL

\* What a backend counted against a request is other requests of its client.
LEMMA CountedAreAsked ==
    ASSUME LimiterInv, NEW w \in Workers, req[w].st = "stamped", NEW b \in Backends,
           NEW c \in Clients, c = req[w].client, NEW now, now = req[w].now,
           Cardinality(Live(Stamps(b, c), now)) >= Limit
    PROVE  Cardinality({a \in asked[c] \ {<<now, w>>} : a[1] + Window > now}) >= Limit
<1>. DEFINE others == {a \in asked[c] \ {<<now, w>>} : a[1] + Window > now}
            live == Live(Stamps(b, c), now)
            By(t) == CHOOSE v \in Workers : <<t, v>> \in others
            f == [t \in live |-> <<t, By(t)>>]
<1>0. /\ now \in Nat /\ clock \in Nat /\ Window \in Nat /\ Slip \in Nat /\ Limit \in Nat
      /\ now <= clock /\ clock <= now + Slip
  BY StampedRecord, Instances, LimiterAssumption DEF LimiterInv, LimiterTypeOK, StampsFresh
<1>1. live \in SUBSET Instants
  BY DEF LimiterInv, LimiterTypeOK, Live, Stamps, Backends
<1>2. \A t \in live : \E v \in Workers : <<t, v>> \in others
  <2>. SUFFICES ASSUME NEW t \in live PROVE \E v \in Workers : <<t, v>> \in others
    OBVIOUS
  <2>1. t \in Nat /\ t \in Stamps(b, c) /\ t + Window > now
    BY <1>1, Instances DEF Live
  <2>2. t + Window + Slip > clock
    BY <2>1, <1>0
  <2>3. PICK v \in Workers : <<t, v>> \in asked[c] /\ ~(req[v].st = "stamped" /\ req[v].now = t)
    BY <2>1, <2>2 DEF LimiterInv, StampsAsked
  <2>4. <<t, v>> # <<now, w>>
    BY <2>3
  <2>. QED
    BY <2>1, <2>3, <2>4
<1>3. \A t \in live : f[t] \in others /\ f[t][1] = t
  BY <1>2
<1>4. IsFiniteSet(others)
  <2>1. IsFiniteSet(Instants) /\ IsFiniteSet(Workers)
    BY Instances, WorkersAssumption
  <2>2. IsFiniteSet(Instants \X Workers)
    BY <2>1, FS_Product
  <2>3. others \in SUBSET (Instants \X Workers)
    BY DEF LimiterInv, LimiterTypeOK
  <2>. QED
    BY <2>2, <2>3, FS_Subset
<1>5. f \in Injection(live, others)
  <2>1. f \in [live -> others]
    BY <1>3
  <2>2. \A s, t \in live : f[s] = f[t] => s = t
    BY <1>3
  <2>. HIDE DEF f, live, others
  <2>3. DOMAIN f = live
    BY <2>1
  <2>. QED
    BY <2>1, <2>2, <2>3, Zenon DEF Injection, IsInjective
<1>6. Cardinality(live) <= Cardinality(others)
  BY <1>4, <1>5, FS_Injection
<1>7. Cardinality(live) \in Nat /\ Cardinality(others) \in Nat
  BY <1>1, <1>4, Instances, FS_CardinalityType
<1>. QED
  BY <1>0, <1>6, <1>7

\* A 429 is always owed to Limit other requests of the same client.
THEOREM RefusalsEarned == LimiterSpec => RefusedOnlyWhenBusy
<1>1. ASSUME LimiterInv, [LimiterNext]_<<clock, limiterVars>>,
             NEW w \in Workers, Refuses(w)
      PROVE  LET others == asked[req[w].client] \ {<<req[w].now, w>>}
             IN  Cardinality({a \in others : a[1] + Window > req[w].now}) >= Limit
  <2>. PICK c, now : c = req[w].client /\ now = req[w].now
    OBVIOUS
  <2>0. /\ req[w].st = "stamped" /\ req'[w].st = "refused" /\ c \in Clients /\ now \in Instants
        /\ Limit \in Nat /\ w \in Backends /\ Redis \in Backends /\ w # Redis
    BY <1>1, StampedRecord, LimiterAssumption DEF Refuses, LimiterInv, Backends
  <2>1. PICK b \in {Redis, w} : Decide(w, b, Cardinality(Live(Stamps(b, c), now)) < Limit)
    <3>1. Stamps(Redis, c) = zset[c] /\ Stamps(w, c) = window[w][c]
      BY <2>0 DEF Stamps
    <3>2. CASE ByRedis(w)
      BY <3>1, <3>2 DEF ByRedis, RedisAllows
    <3>3. CASE DecideInMemory(w)
      BY <3>1, <3>3 DEF DecideInMemory, MemoryAllows
    <3>4. ByRedis(w) \/ DecideInMemory(w)
      <4>1. \A v \in Workers, d \in Clients : ~(Stamp(v, d) /\ req'[w].st = "refused" /\ req[w].st = "stamped")
        BY <1>1 DEF Stamp, LimiterInv, LimiterTypeOK
      <4>2. \A v \in Workers \ {w} : ByRedis(v) \/ DecideInMemory(v) \/ Finish(v) \/ RestartLimiter(v)
                                      => req'[w] = req[w]
        BY <1>1 DEF ByRedis, DecideInMemory, Decide, Finish, RestartLimiter, LimiterInv, LimiterTypeOK
      <4>3. ~Finish(w) /\ ~RestartLimiter(w)
        BY <1>1, <2>0 DEF Finish, RestartLimiter, Idle, LimiterInv, LimiterTypeOK
      <4>4. req' # req
        BY <2>0
      <4>. QED
        BY <1>1, <2>0, <4>1, <4>2, <4>3, <4>4
        DEF LimiterNext, LimiterStep, LimiterTick, TickLimiter, limiterVars, Ping, RedisLost,
            ByMemory, RedisStops, RedisStarts
    <3>. QED
      BY <3>2, <3>3, <3>4
  <2>2. ~(Cardinality(Live(Stamps(b, c), now)) < Limit)
    BY <2>0, <2>1 DEF Decide, LimiterInv, LimiterTypeOK
  <2>3. Live(Stamps(b, c), now) \in SUBSET Instants
    BY <1>1, <2>0 DEF LimiterInv, LimiterTypeOK, Live, Stamps
  <2>4. Cardinality(Live(Stamps(b, c), now)) >= Limit
    BY <2>0, <2>2, <2>3, Instances
  <2>. QED
    BY <1>1, <2>0, <2>4, CountedAreAsked
<1>2. LimiterInv /\ [LimiterNext]_<<clock, limiterVars>> =>
        [\A w \in Workers : Refuses(w) =>
           LET others == asked[req[w].client] \ {<<req[w].now, w>>}
           IN  Cardinality({a \in others : a[1] + Window > req[w].now}) >= Limit
        ]_<<clock, limiterVars>>
  BY <1>1
<1>. QED
  BY <1>2, LimiterInvariant, PTL DEF LimiterSpec, RefusedOnlyWhenBusy

-----------------------------------------------------------------------------
(* The verifier.                                                           *)

LEMMA VerifierTimes ==
    /\ Instants \subseteq Nat /\ TTL \in Nat /\ Patience \in Nat /\ Patience < TTL
    /\ Garbled \notin SUBSET Keys
BY Instances, VerifierAssumption DEF Garbled

\* What a call is made of.
LEMMA CallTypes ==
    /\ Quiet \in Calls /\ Quiet.st = "none" /\ Cold \in JwksState
    /\ \A out \in Outcomes, token \in Tokens : [st |-> out, token |-> token] \in Calls
    /\ \A token \in Tokens, start \in Instants, retried \in BOOLEAN :
          /\ [st |-> "fetching", token |-> token, start |-> start, retried |-> retried] \in Calls
          /\ \A answer \in (SUBSET Keys) \cup {Garbled} :
                [st |-> "served", token |-> token, start |-> start, retried |-> retried,
                 answer |-> answer] \in Calls
    /\ \A r \in Calls : r.st \in {"fetching", "served"} =>
          r.token \in Tokens /\ r.start \in Instants /\ r.retried \in BOOLEAN
    /\ \A r \in Calls : r.st = "served" => r.answer \in (SUBSET Keys) \cup {Garbled}
    /\ \A r \in Calls : r.st \in Outcomes => r.token \in Tokens
BY DEF Calls, Quiet, Cold, JwksState, Outcomes

LEMMA VerifierInitInv == clock = 0 /\ VerifierInit => VerifierInv
<1>. SUFFICES ASSUME clock = 0, VerifierInit PROVE VerifierInv
  OBVIOUS
<1>1. VerifierTypeOK
  BY WorkersAssumption, CallTypes DEF VerifierInit, VerifierTypeOK, Instants
<1>2. \A w \in Workers : /\ cache[w] = Cold /\ filled[w] = Cold /\ cache[w].keys = {}
                        /\ call[w].st = "none" /\ ~Pending(w)
  BY CallTypes DEF VerifierInit, Cold, Pending
<1>3. KeysDated /\ CallsSound /\ CacheKept
  BY <1>2 DEF KeysDated, NoneRetiredBefore, CallsSound, CacheKept
<1>. QED
  BY <1>1, <1>3 DEF VerifierInv

\* VerifierInv worker by worker, for a worker's cache, call and histories.
Sound(jwks, r, full, spoilt) ==
    /\ NoneRetiredBefore(jwks.keys, jwks.at)
    /\ ~spoilt /\ full # Cold => jwks = full
    /\ r.st = "served" => NoneRetiredBefore(r.answer, r.start)
    /\ r.st \in {"fetching", "served"} =>
          /\ r.start <= clock /\ clock <= r.start + Patience
          /\ r.token.key \in Keys => status[r.token.key] # "unborn"
          /\ r.st = "served" /\ r.answer # Garbled /\ r.token.key \in Published
                => r.token.key \in r.answer
          /\ IF r.retried THEN spoilt ELSE jwks # Cold => jwks.at + TTL <= r.start

LEMMA SoundIs ==
    VerifierInv <=> VerifierTypeOK /\ \A w \in Workers : Sound(cache[w], call[w], filled[w], spoiled[w])
BY DEF VerifierInv, KeysDated, CallsSound, CacheKept, Pending, Sound

LEMMA SoundNext ==
    VerifierInv' <=> VerifierTypeOK'
                     /\ \A w \in Workers : Sound(cache[w], call[w], filled[w], spoiled[w])'
BY DEF VerifierInv, KeysDated, CallsSound, CacheKept, Pending, Sound

\* A step of worker w that leaves the keys and the clock alone.
LEMMA WorkerStep ==
    ASSUME VerifierInv, NEW w \in Workers,
           NEW jwks \in JwksState, NEW r \in Calls, NEW full \in JwksState, NEW spoilt \in BOOLEAN,
           cache' = [cache EXCEPT ![w] = jwks], call' = [call EXCEPT ![w] = r],
           filled' = [filled EXCEPT ![w] = full], spoiled' = [spoiled EXCEPT ![w] = spoilt],
           status' = status, retiredAt' = retiredAt, clock' = clock,
           Sound(jwks, r, full, spoilt)
    PROVE  VerifierInv'
<1>1. VerifierTypeOK'
  BY DEF VerifierInv, VerifierTypeOK
<1>2. /\ cache'[w] = jwks /\ call'[w] = r /\ filled'[w] = full
      /\ \A v \in Workers \ {w} : cache'[v] = cache[v] /\ call'[v] = call[v] /\ filled'[v] = filled[v]
  BY DEF VerifierInv, VerifierTypeOK
<1>3. spoiled'[w] = spoilt /\ \A v \in Workers \ {w} : spoiled'[v] = spoiled[v]
  BY Zenon DEF VerifierInv, VerifierTypeOK
<1>4. ASSUME NEW v \in Workers
      PROVE  Sound(cache[v], call[v], filled[v], spoiled[v])'
  <2>1. CASE v = w
    <3>1. spoiled'[v] <=> spoilt
      BY <2>1, <1>3
    <3>. QED
      BY <2>1, <3>1, <1>2 DEF Sound, NoneRetiredBefore, Published
  <2>2. CASE v # w
    <3>1. Sound(cache[v], call[v], filled[v], spoiled[v])
      BY SoundIs
    <3>2. spoiled'[v] <=> spoiled[v]
      BY <2>2, <1>3
    <3>. QED
      BY <2>2, <3>1, <3>2, <1>2 DEF Sound, NoneRetiredBefore, Published
  <2>. QED
    BY <2>1, <2>2
<1>. QED
  BY <1>1, <1>4, SoundNext

\* A call that has ended, or is being retried, is sound whatever it met.
LEMMA SoundCalls ==
    ASSUME VerifierTypeOK, NEW jwks \in JwksState, NEW full, NEW spoilt \in BOOLEAN,
           NoneRetiredBefore(jwks.keys, jwks.at), ~spoilt /\ full # Cold => jwks = full,
           NEW token \in Tokens
    PROVE  /\ \A out \in Outcomes : Sound(jwks, [st |-> out, token |-> token], full, spoilt)
           /\ Sound(jwks, Quiet, full, spoilt)
           /\ (token.key \in Keys => status[token.key] # "unborn") =>
                 /\ spoilt => Sound(jwks, [st |-> "fetching", token |-> token, start |-> clock,
                                         retried |-> TRUE], full, spoilt)
                 /\ (jwks # Cold => jwks.at + TTL <= clock) =>
                       Sound(jwks, [st |-> "fetching", token |-> token, start |-> clock,
                                    retried |-> FALSE], full, spoilt)
<1>1. clock \in Nat /\ Patience \in Nat /\ clock <= clock /\ clock <= clock + Patience
  BY VerifierTimes DEF VerifierTypeOK
<1>2. \A out \in Outcomes : Sound(jwks, [st |-> out, token |-> token], full, spoilt)
  BY DEF Sound, Outcomes
<1>3. Sound(jwks, Quiet, full, spoilt)
  BY DEF Sound, Quiet
<1>. QED
  BY <1>1, <1>2, <1>3 DEF Sound

LEMMA ColdSound == NoneRetiredBefore(Cold.keys, Cold.at)
BY DEF NoneRetiredBefore, Cold

LEMMA DecodeInv ==
    ASSUME VerifierInv, NEW w \in Workers, NEW token \in Tokens, NEW kept \in JwksState,
           NEW retried \in BOOLEAN, Decode(w, token, kept, retried),
           token.key \in Keys => status[token.key] # "unborn",
           NoneRetiredBefore(kept.keys, kept.at),
           NEW full \in JwksState, filled' = [filled EXCEPT ![w] = full],
           NEW spoilt \in BOOLEAN, spoiled' = [spoiled EXCEPT ![w] = spoilt],
           ~spoilt /\ full # Cold => kept = full,
           ~Verifies(token, kept.keys) /\ ~retried => spoilt,
           status' = status, retiredAt' = retiredAt, clock' = clock
    PROVE  VerifierInv'
<1>0. VerifierTypeOK /\ clock \in Instants
  BY DEF VerifierInv, VerifierTypeOK
<1>1. ASSUME NEW out \in Outcomes, End(w, token, out), cache' = [cache EXCEPT ![w] = kept]
      PROVE  VerifierInv'
  <2>1. Sound(kept, [st |-> out, token |-> token], full, spoilt)
    BY <1>0, SoundCalls
  <2>. QED
    BY <1>1, <2>1, CallTypes, WorkerStep DEF End
<1>2. CASE Verifies(token, kept.keys)
  <2>1. PICK out \in Outcomes : End(w, token, out) /\ cache' = [cache EXCEPT ![w] = kept]
    BY <1>2 DEF Decode, Outcomes
  <2>. QED
    BY <2>1, <1>1
<1>3. CASE ~Verifies(token, kept.keys) /\ ~retried
  <2>1. spoilt /\ cache' = [cache EXCEPT ![w] = Cold] /\ Fetch(w, token, TRUE)
    BY <1>3 DEF Decode
  <2>2. Sound(Cold, [st |-> "fetching", token |-> token, start |-> clock, retried |-> TRUE],
              full, spoilt)
    BY <1>0, <2>1, SoundCalls, ColdSound, CallTypes
  <2>3. Cold \in JwksState
        /\ [st |-> "fetching", token |-> token, start |-> clock, retried |-> TRUE] \in Calls
    BY <1>0, CallTypes
  <2>. QED
    BY <2>1, <2>2, <2>3, WorkerStep DEF Fetch
<1>4. CASE ~Verifies(token, kept.keys) /\ retried
  <2>1. End(w, token, "refused") /\ cache' = [cache EXCEPT ![w] = kept]
    BY <1>4 DEF Decode
  <2>. QED
    BY <2>1, <1>1 DEF Outcomes
<1>. QED
  BY <1>2, <1>3, <1>4

\* A worker's own entries, and the EXCEPT that leaves one as it is.
LEMMA OwnState ==
    ASSUME VerifierInv, NEW w \in Workers
    PROVE  /\ cache[w] \in JwksState /\ filled[w] \in JwksState /\ call[w] \in Calls
           /\ spoiled[w] \in BOOLEAN /\ clock \in Instants /\ VerifierTypeOK
           /\ cache = [cache EXCEPT ![w] = cache[w]] /\ filled = [filled EXCEPT ![w] = filled[w]]
           /\ \E spoilt \in BOOLEAN : /\ spoilt = spoiled[w] /\ spoiled = [spoiled EXCEPT ![w] = spoilt]
                                     /\ Sound(cache[w], call[w], filled[w], spoilt)
<1>1. VerifierTypeOK /\ Sound(cache[w], call[w], filled[w], spoiled[w])
  BY SoundIs
<1>2. spoiled = [spoiled EXCEPT ![w] = spoiled[w]] /\ spoiled[w] \in BOOLEAN
  BY <1>1, Zenon DEF VerifierTypeOK
<1>3. \E spoilt \in BOOLEAN : /\ spoilt = spoiled[w] /\ spoiled = [spoiled EXCEPT ![w] = spoilt]
                             /\ Sound(cache[w], call[w], filled[w], spoilt)
  BY <1>1, <1>2, Zenon
<1>. QED
  BY <1>1, <1>3 DEF VerifierTypeOK

\* A step that moves on the call of worker w, and nothing else.
LEMMA CallStep ==
    ASSUME VerifierInv, NEW w \in Workers, NEW r \in Calls, call' = [call EXCEPT ![w] = r],
           cache' = cache, filled' = filled, spoiled' = spoiled,
           status' = status, retiredAt' = retiredAt, clock' = clock,
           Sound(cache[w], r, filled[w], spoiled[w])
    PROVE  VerifierInv'
<1>1. VerifierTypeOK'
  BY DEF VerifierInv, VerifierTypeOK
<1>2. call'[w] = r /\ \A v \in Workers \ {w} : call'[v] = call[v]
  BY DEF VerifierInv, VerifierTypeOK
<1>3. ASSUME NEW v \in Workers
      PROVE  Sound(cache[v], call[v], filled[v], spoiled[v])'
  <2>1. spoiled'[v] <=> spoiled[v]
    OBVIOUS
  <2>2. CASE v = w
    BY <2>1, <2>2, <1>2 DEF Sound, NoneRetiredBefore, Published
  <2>3. CASE v # w
    <3>1. Sound(cache[v], call[v], filled[v], spoiled[v])
      BY SoundIs
    <3>. QED
      BY <2>1, <2>3, <3>1, <1>2 DEF Sound, NoneRetiredBefore, Published
  <2>. QED
    BY <2>2, <2>3
<1>. QED
  BY <1>1, <1>3, SoundNext

\* A call that is over asks nothing of the rest.
LEMMA OverStep ==
    ASSUME VerifierInv, NEW w \in Workers, NEW r \in Calls, call' = [call EXCEPT ![w] = r],
           r.st \notin {"fetching", "served"},
           cache' = cache, filled' = filled, spoiled' = spoiled,
           status' = status, retiredAt' = retiredAt, clock' = clock
    PROVE  VerifierInv'
<1>1. Sound(cache[w], call[w], filled[w], spoiled[w])
  BY SoundIs
<1>2. Sound(cache[w], r, filled[w], spoiled[w])
  BY <1>1 DEF Sound
<1>. QED
  BY <1>2, CallStep

LEMMA BeginInv ==
    ASSUME VerifierInv, NEW w \in Workers, NEW token \in Tokens, Begin(w, token), clock' = clock
    PROVE  VerifierInv'
<1>0. /\ token.key \in Keys => status[token.key] # "unborn"
      /\ status' = status /\ retiredAt' = retiredAt /\ filled' = filled
  BY DEF Begin
<1>1. /\ Sound(cache[w], call[w], filled[w], spoiled[w])
      /\ cache[w] \in JwksState /\ filled[w] \in JwksState /\ clock \in Instants /\ VerifierTypeOK
      /\ cache = [cache EXCEPT ![w] = cache[w]] /\ filled = [filled EXCEPT ![w] = filled[w]]
  BY OwnState, SoundIs
<1>2. CASE token = NoHeader /\ End(w, token, "refused") /\ cache' = cache /\ spoiled' = spoiled
  <2>. DEFINE r == [st |-> "refused", token |-> token]
  <2>1. r \in Calls /\ r.st \notin {"fetching", "served"}
    BY CallTypes DEF Outcomes
  <2>2. call' = [call EXCEPT ![w] = r]
    BY <1>2 DEF End
  <2>. HIDE DEF r
  <2>. QED
    BY <1>0, <1>2, <2>1, <2>2, OverStep
<1>3. CASE /\ CacheLive(w) /\ Decode(w, token, cache[w], FALSE)
           /\ spoiled' = [spoiled EXCEPT ![w] = @ \/ ~Verifies(token, cache[w].keys)]
  <2>. DEFINE spoilt == spoiled[w] \/ ~Verifies(token, cache[w].keys)
  <2>1. spoilt \in BOOLEAN /\ spoiled' = [spoiled EXCEPT ![w] = spoilt]
    BY <1>3
  <2>2. /\ ~spoilt /\ filled[w] # Cold => cache[w] = filled[w]
        /\ NoneRetiredBefore(cache[w].keys, cache[w].at)
    BY <1>1 DEF Sound
  <2>3. ~Verifies(token, cache[w].keys) => spoilt
    OBVIOUS
  <2>4. filled' = [filled EXCEPT ![w] = filled[w]]
    BY <1>0, <1>1
  <2>. HIDE DEF spoilt
  <2>. QED
    BY <1>0, <1>1, <1>3, <2>1, <2>2, <2>3, <2>4, DecodeInv
<1>4. CASE ~CacheLive(w) /\ Fetch(w, token, FALSE) /\ cache' = cache /\ spoiled' = spoiled
  <2>. DEFINE r == [st |-> "fetching", token |-> token, start |-> clock, retried |-> FALSE]
  <2>1. cache[w] # Cold => cache[w].at + TTL <= clock
    BY <1>4, <1>1, VerifierTimes DEF CacheLive, JwksState
  <2>2. clock <= clock /\ clock <= clock + Patience
    BY <1>1, VerifierTimes
  <2>3. Sound(cache[w], r, filled[w], spoiled[w])
    BY <1>0, <1>1, <2>1, <2>2 DEF Sound
  <2>4. r \in Calls
    BY <1>1, CallTypes
  <2>5. call' = [call EXCEPT ![w] = r]
    BY <1>4 DEF Fetch
  <2>. HIDE DEF r
  <2>. QED
    BY <1>0, <1>4, <2>3, <2>4, <2>5, CallStep
<1>. QED
  BY <1>2, <1>3, <1>4 DEF Begin

LEMMA ServeInv ==
    ASSUME VerifierInv, NEW w \in Workers, Serve(w), clock' = clock
    PROVE  VerifierInv'
<1>. PICK answer \in {Published, Garbled} :
        call' = [call EXCEPT ![w] = [st |-> "served", token |-> call[w].token,
                       start |-> call[w].start, retried |-> call[w].retried, answer |-> answer]]
  BY DEF Serve
<1>. DEFINE r == [st |-> "served", token |-> call[w].token, start |-> call[w].start,
                  retried |-> call[w].retried, answer |-> answer]
<1>1. /\ call[w] \in Calls /\ call[w].st = "fetching" /\ clock \in Instants /\ VerifierTypeOK
      /\ Sound(cache[w], call[w], filled[w], spoiled[w])
  BY SoundIs DEF Serve, VerifierTypeOK
<1>2. call[w].token \in Tokens /\ call[w].start \in Instants /\ call[w].retried \in BOOLEAN
  BY <1>1, CallTypes
<1>3. answer \in (SUBSET Keys) \cup {Garbled}
  <2>1. Published \in SUBSET Keys
    BY DEF Published
  <2>2. CASE answer = Published
    BY <2>1, <2>2
  <2>3. CASE answer = Garbled
    BY <2>3
  <2>. QED
    BY <2>2, <2>3
<1>4. r \in Calls
  BY <1>2, <1>3, CallTypes
<1>5. NoneRetiredBefore(answer, call[w].start)
  BY <1>1, <1>2, VerifierAssumption DEF NoneRetiredBefore, Published, Garbled, Sound
<1>6. Sound(cache[w], r, filled[w], spoiled[w])
  BY <1>1, <1>5 DEF Sound
<1>7. call' = [call EXCEPT ![w] = r]
  OBVIOUS
<1>8. /\ cache' = cache /\ filled' = filled /\ spoiled' = spoiled
      /\ status' = status /\ retiredAt' = retiredAt
  BY DEF Serve
<1>. HIDE DEF r
<1>. QED
  BY <1>4, <1>6, <1>7, <1>8, CallStep

LEMMA ReceiveInv ==
    ASSUME VerifierInv, NEW w \in Workers, Receive(w), clock' = clock
    PROVE  VerifierInv'
<1>. DEFINE token == call[w].token
            jwks == [keys |-> call[w].answer, at |-> call[w].start]
            retried == call[w].retried
            spoilt == ~Verifies(token, call[w].answer) /\ ~retried
<1>1. /\ call[w] \in Calls /\ call[w].st = "served" /\ call[w].answer # Garbled
      /\ Sound(cache[w], call[w], filled[w], spoiled[w])
  BY SoundIs DEF Receive, VerifierTypeOK
<1>2. /\ token \in Tokens /\ jwks \in JwksState /\ retried \in BOOLEAN
      /\ jwks.keys = call[w].answer /\ jwks.at = call[w].start
  <2>0. call[w].answer \in (SUBSET Keys) \cup {Garbled}
    BY <1>1, CallTypes, Zenon
  <2>1. call[w].answer \in SUBSET Keys
    BY <1>1, <2>0
  <2>2. token \in Tokens /\ retried \in BOOLEAN /\ call[w].start \in Instants
    BY <1>1, CallTypes
  <2>3. jwks \in [keys : SUBSET Keys, at : Instants]
    BY <2>1, <2>2
  <2>. QED
    BY <2>2, <2>3 DEF JwksState
<1>3. /\ token.key \in Keys => status[token.key] # "unborn"
      /\ NoneRetiredBefore(jwks.keys, jwks.at)
  BY <1>1, <1>2 DEF Sound
<1>4. /\ Decode(w, token, jwks, retried) /\ filled' = [filled EXCEPT ![w] = jwks]
      /\ spoiled' = [spoiled EXCEPT ![w] = spoilt]
      /\ status' = status /\ retiredAt' = retiredAt
  BY DEF Receive
<1>5. /\ spoilt \in BOOLEAN
      /\ ~Verifies(token, jwks.keys) /\ ~retried => spoilt
  BY <1>2
<1>. HIDE DEF token, jwks, retried, spoilt
<1>. QED
  BY <1>2, <1>3, <1>4, <1>5, DecodeInv

\* What ends a call and touches nothing else.
LEMMA EndInv ==
    ASSUME VerifierInv, NEW w \in Workers, ReceiveGarbled(w) \/ FetchFails(w) \/ Reply(w),
           clock' = clock
    PROVE  VerifierInv'
<1>1. /\ cache' = cache /\ filled' = filled /\ spoiled' = spoiled
      /\ status' = status /\ retiredAt' = retiredAt
  BY DEF ReceiveGarbled, FetchFails, Reply
<1>2. call[w] \in Calls
  BY DEF VerifierInv, VerifierTypeOK
<1>3. PICK r \in Calls : r.st \notin {"fetching", "served"} /\ call' = [call EXCEPT ![w] = r]
  <2>1. CASE Reply(w)
    BY <2>1, CallTypes DEF Reply
  <2>2. CASE ReceiveGarbled(w) \/ FetchFails(w)
    <3>1. call[w].st \in {"fetching", "served"} /\ call[w].token \in Tokens
      BY <2>2, <1>2, CallTypes DEF ReceiveGarbled, FetchFails
    <3>2. PICK out \in Outcomes : call' = [call EXCEPT ![w] = [st |-> out, token |-> call[w].token]]
      BY <2>2 DEF ReceiveGarbled, FetchFails, End, Outcomes
    <3>. QED
      BY <3>1, <3>2, CallTypes DEF Outcomes
  <2>. QED
    BY <2>1, <2>2
<1>. QED
  BY <1>1, <1>3, OverStep

LEMMA RecycleInv ==
    ASSUME VerifierInv, NEW w \in Workers, Recycle(w), clock' = clock
    PROVE  VerifierInv'
<1>1. Sound(Cold, Quiet, Cold, FALSE)
  BY ColdSound, CallTypes DEF Sound
<1>. QED
  BY <1>1, CallTypes, WorkerStep DEF Recycle

\* A step that leaves the workers alone, while keys or the clock move: no key
\* fetched gets an end before its fetch, none is born or published again that
\* was not, and nobody waits too long.
LEMMA WorldStep ==
    ASSUME VerifierInv, VerifierTypeOK',
           cache' = cache, call' = call, filled' = filled, spoiled' = spoiled,
           \A k \in Keys, at \in Nat : at <= clock /\ (status[k] # "published" => at <= retiredAt[k])
              => at <= clock' /\ (status'[k] # "published" => at <= retiredAt'[k]),
           \A k \in Keys : status[k] # "unborn" =>
              status'[k] # "unborn" /\ (status'[k] = "published" => status[k] = "published"),
           \A w \in Workers : Pending(w) =>
              call[w].start <= clock' /\ clock' <= call[w].start + Patience
    PROVE  VerifierInv'
<1>1. ASSUME NEW keys, NEW at \in Nat, NoneRetiredBefore(keys, at)
      PROVE  NoneRetiredBefore(keys, at)'
  BY <1>1 DEF NoneRetiredBefore
<1>2. ASSUME NEW w \in Workers
      PROVE  Sound(cache[w], call[w], filled[w], spoiled[w])'
  <2>1. Sound(cache[w], call[w], filled[w], spoiled[w]) /\ cache[w] \in JwksState /\ call[w] \in Calls
    BY SoundIs, OwnState
  <2>2. cache[w].at \in Nat /\ (Pending(w) => call[w].start \in Nat)
    BY <2>1, WorkersAssumption, CallTypes DEF JwksState, Cold, Instants, Pending
  <2>3. NoneRetiredBefore(cache[w].keys, cache[w].at)'
    <3>. PICK keys \in {cache[w].keys}, at \in Nat : at = cache[w].at
      BY <2>2
    <3>1. NoneRetiredBefore(keys, at)'
      BY <2>1, <1>1 DEF Sound
    <3>. QED
      BY <3>1 DEF NoneRetiredBefore
  <2>4. (call[w].st = "served" => NoneRetiredBefore(call[w].answer, call[w].start))'
    <3>1. SUFFICES ASSUME call[w].st = "served"
                   PROVE  NoneRetiredBefore(call[w].answer, call[w].start)'
      OBVIOUS
    <3>. PICK keys \in {call[w].answer}, at \in Nat : at = call[w].start
      BY <2>2, <3>1 DEF Pending
    <3>2. NoneRetiredBefore(keys, at)'
      BY <2>1, <3>1, <1>1 DEF Sound
    <3>. QED
      BY <3>2 DEF NoneRetiredBefore
  <2>5. spoiled'[w] <=> spoiled[w]
    OBVIOUS
  <2>6. call[w].token.key \in Keys /\ status[call[w].token.key] # "unborn" =>
           /\ status'[call[w].token.key] # "unborn"
           /\ call[w].token.key \in Published' => call[w].token.key \in Published
    BY DEF Published
  <2>7. call[w].token.key \in Published' => call[w].token.key \in Keys
    BY DEF Published
  <2>. QED
    BY <2>1, <2>3, <2>4, <2>5, <2>6, <2>7 DEF Sound, Pending
<1>. QED
  BY <1>2, SoundNext

LEMMA PublishInv ==
    ASSUME VerifierInv, NEW k \in Keys, Publish(k), clock' = clock
    PROVE  VerifierInv'
<1>1. VerifierTypeOK /\ VerifierTypeOK' /\ clock \in Nat
  BY VerifierTimes DEF Publish, VerifierInv, VerifierTypeOK
<1>2. /\ status[k] = "unborn" /\ status'[k] = "published" /\ retiredAt' = retiredAt
      /\ \A j \in Keys \ {k} : status'[j] = status[j]
      /\ cache' = cache /\ call' = call /\ filled' = filled /\ spoiled' = spoiled
  BY <1>1 DEF Publish, VerifierTypeOK
<1>3. \A w \in Workers : Pending(w) => call[w].start <= clock' /\ clock' <= call[w].start + Patience
  BY DEF VerifierInv, CallsSound
<1>. QED
  BY <1>1, <1>2, <1>3, WorldStep

LEMMA RetireInv ==
    ASSUME VerifierInv, NEW k \in Keys, Retire(k), clock' = clock
    PROVE  VerifierInv'
<1>1. VerifierTypeOK /\ VerifierTypeOK' /\ clock \in Nat
  BY VerifierTimes DEF Retire, VerifierInv, VerifierTypeOK
<1>2. /\ status[k] = "published" /\ status'[k] = "retired" /\ retiredAt'[k] = clock
      /\ \A j \in Keys \ {k} : status'[j] = status[j] /\ retiredAt'[j] = retiredAt[j]
      /\ cache' = cache /\ call' = call /\ filled' = filled /\ spoiled' = spoiled
  BY <1>1 DEF Retire, VerifierTypeOK
<1>3. \A w \in Workers : Pending(w) => call[w].start <= clock' /\ clock' <= call[w].start + Patience
  BY DEF VerifierInv, CallsSound
<1>. QED
  BY <1>1, <1>2, <1>3, WorldStep

LEMMA VerifierTickInv == VerifierInv /\ VerifierTick => VerifierInv'
<1>. SUFFICES ASSUME VerifierInv, VerifierTick PROVE VerifierInv'
  OBVIOUS
<1>1. /\ clock \in Nat /\ clock' = clock + 1 /\ clock' \in Instants /\ VerifierTypeOK
      /\ status' = status /\ retiredAt' = retiredAt
      /\ cache' = cache /\ call' = call /\ filled' = filled /\ spoiled' = spoiled
  BY WorkersAssumption DEF VerifierTick, TickVerifier, verifierVars, VerifierInv, VerifierTypeOK, Instants
<1>2. VerifierTypeOK'
  BY <1>1 DEF VerifierTypeOK
<1>3. ASSUME NEW w \in Workers, Pending(w)
      PROVE  call[w].start <= clock' /\ clock' <= call[w].start + Patience
  <2>1. call[w].start \in Nat /\ call[w].start <= clock /\ clock < call[w].start + Patience
    BY <1>1, <1>3, CallTypes, VerifierTimes
    DEF VerifierTick, TickVerifier, VerifierInv, VerifierTypeOK, CallsSound, Pending
  <2>. QED
    BY <1>1, <2>1, VerifierTimes
<1>. QED
  BY <1>1, <1>2, <1>3, WorldStep

LEMMA VerifierNextInv == VerifierInv /\ [VerifierNext]_<<clock, verifierVars>> => VerifierInv'
<1>. SUFFICES ASSUME VerifierInv, [VerifierNext]_<<clock, verifierVars>> PROVE VerifierInv'
  OBVIOUS
<1>1. CASE VerifierTick
  BY <1>1, VerifierTickInv
<1>2. ASSUME NEW w \in Workers, clock' = clock,
             \/ \E token \in Tokens : Begin(w, token)
             \/ Serve(w) \/ Receive(w) \/ ReceiveGarbled(w) \/ FetchFails(w)
             \/ Reply(w) \/ Recycle(w)
      PROVE  VerifierInv'
  BY <1>2, BeginInv, ServeInv, ReceiveInv, EndInv, RecycleInv
<1>3. ASSUME NEW k \in Keys, clock' = clock, Publish(k) \/ Retire(k)
      PROVE  VerifierInv'
  BY <1>3, PublishInv, RetireInv
<1>4. CASE UNCHANGED <<clock, verifierVars>>
  BY <1>4 DEF verifierVars, VerifierInv, VerifierTypeOK, KeysDated, NoneRetiredBefore, CallsSound,
              CacheKept, Pending, Published
<1>. QED
  BY <1>1, <1>2, <1>3, <1>4 DEF VerifierNext, VerifierStep

\* Whatever the interleaving of verifications, fetches, rotations and time, what
\* a worker holds was published when it asked for it, and is dropped only for cause.
THEOREM VerifierInvariant == VerifierSpec => []VerifierInv
<1>1. clock = 0 /\ VerifierInit => VerifierInv
  BY VerifierInitInv
<1>. QED
  BY <1>1, VerifierNextInv, PTL DEF VerifierSpec

\* The steps that end a call.
LEMMA EndedBy ==
    ASSUME VerifierTypeOK, [VerifierNext]_<<clock, verifierVars>>, NEW w \in Workers,
           NEW out \in Outcomes, Ends(w, out)
    PROVE  \/ \E token \in Tokens : Begin(w, token)
           \/ Receive(w) \/ ReceiveGarbled(w) \/ FetchFails(w)
<1>1. call'[w] # call[w] /\ call' # call
  BY DEF Ends
<1>2. \A v \in Workers \ {w} : ~(\/ \E token \in Tokens : Begin(v, token)
                              \/ Serve(v) \/ Receive(v) \/ ReceiveGarbled(v) \/ FetchFails(v)
                              \/ Reply(v) \/ Recycle(v))
  BY <1>1 DEF VerifierTypeOK, Begin, Serve, Receive, ReceiveGarbled, FetchFails, Reply, Recycle,
              Decode, End, Fetch
<1>3. ~Serve(w) /\ ~Reply(w) /\ ~Recycle(w)
  BY DEF Ends, VerifierTypeOK, Serve, Reply, Recycle, Outcomes, Quiet
<1>4. \A k \in Keys : ~Publish(k) /\ ~Retire(k)
  BY <1>1 DEF Publish, Retire
<1>5. ~VerifierTick /\ ~UNCHANGED <<clock, verifierVars>>
  BY <1>1 DEF VerifierTick, TickVerifier, verifierVars
<1>. QED
  BY <1>2, <1>3, <1>4, <1>5 DEF VerifierNext, VerifierStep

\* What Decode's answer tells of the token and the keys.
LEMMA DecodeAnswers ==
    ASSUME VerifierTypeOK, NEW w \in Workers, NEW token, NEW kept, NEW retried \in BOOLEAN,
           Decode(w, token, kept, retried)
    PROVE  /\ call'[w].st \in {"accepted", "refused", "fetching"}
           /\ call'[w].st = "accepted" => call'[w].token = token /\ Verifies(token, kept.keys)
           /\ call'[w].st = "refused" =>
                 /\ call'[w].token = token
                 /\ token.sort = "access" => retried /\ ~Verifies(token, kept.keys)
BY DEF VerifierTypeOK, Decode, End, Fetch

\* A retired key dies on every worker within the TTL of its retirement.
THEOREM RetiredKeysDie == VerifierSpec => RetiredKeyDies
<1>1. ASSUME VerifierInv, [VerifierNext]_<<clock, verifierVars>>, NEW w \in Workers,
             Ends(w, "accepted"), NEW key, key = call'[w].token.key
      PROVE  status[key] = "published" \/ clock < retiredAt[key] + TTL
  <2>1. /\ VerifierTypeOK /\ Sound(cache[w], call[w], filled[w], spoiled[w])
        /\ cache[w] \in JwksState /\ call[w] \in Calls /\ call'[w].st = "accepted"
    BY <1>1, SoundIs, OwnState DEF Ends
  <2>2. ASSUME NEW keys \in SUBSET Keys, NEW at \in Instants, NoneRetiredBefore(keys, at),
               clock < at + TTL, key \in keys
        PROVE  status[key] = "published" \/ clock < retiredAt[key] + TTL
    <3>1. key \in Keys /\ (status[key] # "published" => at <= retiredAt[key])
      BY <2>2 DEF NoneRetiredBefore
    <3>2. at \in Nat /\ clock \in Nat /\ retiredAt[key] \in Nat
      BY <2>1, <2>2, <3>1, VerifierTimes DEF VerifierTypeOK
    <3>. QED
      BY <2>2, <3>1, <3>2, VerifierTimes
  <2>3. CASE \E token \in Tokens : Begin(w, token)
    <3>. PICK token \in Tokens : Begin(w, token)
      BY <2>3
    <3>1. CacheLive(w) /\ Decode(w, token, cache[w], FALSE)
      <4>1. ~End(w, token, "refused") /\ ~Fetch(w, token, FALSE)
        BY <2>1 DEF End, Fetch, VerifierTypeOK
      <4>. QED
        BY <4>1 DEF Begin
    <3>2. key \in cache[w].keys
      BY <1>1, <2>1, <3>1, DecodeAnswers DEF Verifies
    <3>3. cache[w].keys \in SUBSET Keys /\ cache[w].at \in Instants /\ clock < cache[w].at + TTL
      BY <2>1, <3>1 DEF JwksState, CacheLive
    <3>. QED
      BY <2>1, <2>2, <3>2, <3>3 DEF Sound
  <2>4. CASE Receive(w)
    <3>. DEFINE jwks == [keys |-> call[w].answer, at |-> call[w].start]
    <3>1. Decode(w, call[w].token, jwks, call[w].retried) /\ call[w].st = "served"
      BY <2>4 DEF Receive
    <3>2. call[w].retried \in BOOLEAN /\ call[w].start \in Instants
      BY <2>1, <3>1, CallTypes
    <3>3. key \in call[w].answer
      BY <1>1, <2>1, <3>1, <3>2, DecodeAnswers DEF Verifies
    <3>4. call[w].answer \in SUBSET Keys
      BY <2>1, <2>4, CallTypes DEF Receive
    <3>5. clock < call[w].start + TTL
      BY <2>1, <3>1, <3>2, VerifierTimes DEF Sound, VerifierTypeOK
    <3>. QED
      BY <2>1, <2>2, <3>1, <3>2, <3>3, <3>4, <3>5 DEF Sound
  <2>5. CASE ReceiveGarbled(w) \/ FetchFails(w)
    BY <2>1, <2>5 DEF ReceiveGarbled, FetchFails, End, VerifierTypeOK
  <2>. QED
    BY <1>1, <2>1, <2>3, <2>4, <2>5, EndedBy DEF Outcomes
<1>2. VerifierInv /\ [VerifierNext]_<<clock, verifierVars>> =>
        [\A w \in Workers : Ends(w, "accepted") =>
          LET key == call'[w].token.key
          IN  status[key] = "published" \/ clock < retiredAt[key] + TTL]_<<clock, verifierVars>>
  BY <1>1
<1>. QED
  BY <1>2, VerifierInvariant, PTL DEF VerifierSpec, RetiredKeyDies

\* A good token with a published key is refused only by a garbled answer.
THEOREM GenuineTokensPass == VerifierSpec => GenuineNeverRefused
<1>1. ASSUME VerifierInv, [VerifierNext]_<<clock, verifierVars>>, NEW w \in Workers,
             Ends(w, "refused"), call'[w].token.sort = "access", call'[w].token.key \in Published
      PROVE  call[w].st = "served" /\ call[w].answer = Garbled
  <2>1. /\ VerifierTypeOK /\ Sound(cache[w], call[w], filled[w], spoiled[w])
        /\ call[w] \in Calls /\ call'[w].st = "refused"
    BY <1>1, SoundIs, OwnState DEF Ends
  <2>2. \A token \in Tokens : ~Begin(w, token)
    <3>. SUFFICES ASSUME NEW token \in Tokens, Begin(w, token) PROVE FALSE
      OBVIOUS
    <3>1. NoHeader.key \notin Published
      BY VerifierAssumption DEF NoHeader, Published
    <3>2. CASE End(w, token, "refused") /\ token = NoHeader
      BY <1>1, <2>1, <3>1, <3>2 DEF End, VerifierTypeOK
    <3>3. CASE Decode(w, token, cache[w], FALSE)
      BY <1>1, <2>1, <3>3, DecodeAnswers
    <3>4. CASE Fetch(w, token, FALSE)
      BY <2>1, <3>4 DEF Fetch, VerifierTypeOK
    <3>. QED
      BY <3>2, <3>3, <3>4 DEF Begin
  <2>3. ~Receive(w)
    <3>. SUFFICES ASSUME Receive(w) PROVE FALSE
      OBVIOUS
    <3>. DEFINE jwks == [keys |-> call[w].answer, at |-> call[w].start]
    <3>1. /\ Decode(w, call[w].token, jwks, call[w].retried)
          /\ call[w].st = "served" /\ call[w].answer # Garbled
      BY DEF Receive
    <3>2. call[w].retried \in BOOLEAN
      BY <2>1, <3>1, CallTypes
    <3>3. call'[w].token = call[w].token /\ ~Verifies(call[w].token, call[w].answer)
      BY <1>1, <2>1, <3>1, <3>2, DecodeAnswers
    <3>4. call[w].token.key \in call[w].answer
      BY <1>1, <2>1, <3>1, <3>3 DEF Sound
    <3>. QED
      BY <1>1, <3>3, <3>4 DEF Verifies
  <2>4. ~FetchFails(w)
    BY <2>1 DEF FetchFails, End, VerifierTypeOK
  <2>. QED
    BY <1>1, <2>1, <2>2, <2>3, <2>4, EndedBy DEF Outcomes, ReceiveGarbled
<1>2. VerifierInv /\ [VerifierNext]_<<clock, verifierVars>> =>
        [\A w \in Workers :
          (/\ Ends(w, "refused") /\ call'[w].token.sort = "access"
           /\ call'[w].token.key \in Published)
              => call[w].st = "served" /\ call[w].answer = Garbled]_<<clock, verifierVars>>
  BY <1>1
<1>. QED
  BY <1>2, VerifierInvariant, PTL DEF VerifierSpec, GenuineNeverRefused

\* An outage of the user-service is felt only by a worker that has seen a token fail.
THEOREM OutagesAreCarried == VerifierSpec => CacheCarriesOutage
<1>1. ASSUME VerifierInv, [VerifierNext]_<<clock, verifierVars>>, NEW w \in Workers,
             Ends(w, "unavailable"), filled[w] # Cold,
             Verifies(call[w].token, filled[w].keys), call[w].start < filled[w].at + TTL
      PROVE  spoiled[w]
  <2>1. /\ VerifierTypeOK /\ Sound(cache[w], call[w], filled[w], spoiled[w])
        /\ call[w] \in Calls /\ filled[w] \in JwksState /\ call'[w].st = "unavailable"
    BY <1>1, SoundIs, OwnState DEF Ends
  <2>2. \A token \in Tokens : ~Begin(w, token)
    <3>. SUFFICES ASSUME NEW token \in Tokens, Begin(w, token) PROVE FALSE
      OBVIOUS
    <3>1. ~End(w, token, "refused") /\ ~Fetch(w, token, FALSE)
      BY <2>1 DEF End, Fetch, VerifierTypeOK
    <3>2. ~Decode(w, token, cache[w], FALSE)
      BY <2>1, DecodeAnswers
    <3>. QED
      BY <3>1, <3>2 DEF Begin
  <2>3. ~Receive(w)
    <3>1. Receive(w) => call[w].st = "served"
      BY DEF Receive
    <3>. QED
      BY <2>1, <3>1, CallTypes, DecodeAnswers DEF Receive
  <2>4. ~ReceiveGarbled(w)
    BY <2>1 DEF ReceiveGarbled, End, VerifierTypeOK
  <2>5. FetchFails(w)
    BY <1>1, <2>1, <2>2, <2>3, <2>4, EndedBy DEF Outcomes
  <2>6. call[w].st \in {"fetching", "served"} /\ call[w].start \in Nat
    BY <2>1, <2>5, CallTypes, VerifierTimes DEF FetchFails
  <2>7. filled[w].at \in Nat
    BY <1>1, <2>1, VerifierTimes DEF JwksState
  <2>8. ~(filled[w].at + TTL <= call[w].start)
    BY <1>1, <2>6, <2>7, VerifierTimes
  <2>. QED
    BY <1>1, <2>1, <2>6, <2>8 DEF Sound
<1>2. VerifierInv /\ [VerifierNext]_<<clock, verifierVars>> =>
        [\A w \in Workers :
          (/\ Ends(w, "unavailable") /\ filled[w] # Cold
           /\ Verifies(call[w].token, filled[w].keys) /\ call[w].start < filled[w].at + TTL)
              => spoiled[w]]_<<clock, verifierVars>>
  BY <1>1
<1>. QED
  BY <1>2, VerifierInvariant, PTL DEF VerifierSpec, CacheCarriesOutage

-----------------------------------------------------------------------------
(* The two together.                                                       *)

\* What a request does in the one is a step or a stutter of the other.
LEMMA GateSteps ==
    [Next]_vars => [LimiterNext]_<<clock, limiterVars>> /\ [VerifierNext]_<<clock, verifierVars>>
<1>. SUFFICES ASSUME [Next]_vars
              PROVE  [LimiterNext]_<<clock, limiterVars>> /\ [VerifierNext]_<<clock, verifierVars>>
  OBVIOUS
<1>1. CASE UNCHANGED vars
  BY <1>1 DEF vars
<1>2. ASSUME NEW w \in Workers, NEW c \in Clients, Arrive(w, c)
      PROVE  [LimiterNext]_<<clock, limiterVars>> /\ [VerifierNext]_<<clock, verifierVars>>
  BY <1>2 DEF Arrive, LimiterNext, LimiterStep
<1>3. ASSUME NEW w \in Workers, Admit(w)
      PROVE  [LimiterNext]_<<clock, limiterVars>> /\ [VerifierNext]_<<clock, verifierVars>>
  BY <1>3 DEF Admit, LimiterNext, LimiterStep
<1>4. ASSUME NEW w \in Workers, NEW token \in Tokens, Forward(w, token)
      PROVE  [LimiterNext]_<<clock, limiterVars>> /\ [VerifierNext]_<<clock, verifierVars>>
  BY <1>4 DEF Forward, VerifierNext, VerifierStep
<1>5. ASSUME NEW w \in Workers, Verify(w)
      PROVE  [LimiterNext]_<<clock, limiterVars>> /\ [VerifierNext]_<<clock, verifierVars>>
  BY <1>5 DEF Verify, VerifierNext, VerifierStep
<1>6. ASSUME NEW w \in Workers, Respond(w)
      PROVE  [LimiterNext]_<<clock, limiterVars>> /\ [VerifierNext]_<<clock, verifierVars>>
  BY <1>6 DEF Respond, LimiterNext, LimiterStep, VerifierNext, VerifierStep
<1>7. ASSUME NEW w \in Workers, Restart(w)
      PROVE  [LimiterNext]_<<clock, limiterVars>> /\ [VerifierNext]_<<clock, verifierVars>>
  BY <1>7 DEF Restart, LimiterNext, LimiterStep, VerifierNext, VerifierStep
<1>8. CASE RedisChanges
  BY <1>8 DEF RedisChanges, LimiterNext, LimiterStep
<1>9. CASE KeysChange
  BY <1>9 DEF KeysChange, VerifierNext, VerifierStep
<1>10. CASE Tick
  BY <1>10 DEF Tick, LimiterNext, LimiterTick, VerifierNext, VerifierTick
<1>. QED
  BY <1>1, <1>2, <1>3, <1>4, <1>5, <1>6, <1>7, <1>8, <1>9, <1>10 DEF Next

\* The gate implements the limiter and the verifier: a request that goes from the
\* one to the other upsets neither.
THEOREM GateImplements == Spec => LimiterSpec /\ VerifierSpec
BY GateSteps, PTL DEF Spec, Init, LimiterSpec, VerifierSpec

\* Hence everything both keep true holds of the whole gate.
THEOREM GateInvariant == Spec => []GateInv
<1>1. Init => sole \in Workers \cup {Nobody}
  BY DEF Init
<1>2. sole \in Workers \cup {Nobody} /\ [Next]_vars => (sole \in Workers \cup {Nobody})'
  BY DEF Next, vars, Arrive, Admit, Forward, Verify, Respond, Restart, RedisChanges, KeysChange, Tick
<1>3. Spec => [](sole \in Workers \cup {Nobody})
  BY <1>1, <1>2, PTL DEF Spec
<1>. QED
  BY <1>3, GateImplements, LimiterInvariant, VerifierInvariant, PTL DEF GateInv

\* The properties of both hold of the gate.
THEOREM GateCorrect ==
    Spec => /\ []GrantsBounded /\ RefusedOnlyWhenBusy
            /\ RetiredKeyDies /\ GenuineNeverRefused /\ CacheCarriesOutage
BY GateImplements, LimitHolds, RefusalsEarned, RetiredKeysDie, GenuineTokensPass, OutagesAreCarried
=============================================================================
