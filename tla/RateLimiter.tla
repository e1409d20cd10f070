----------------------------- MODULE RateLimiter -----------------------------
(***************************************************************************)
(* RateLimitMiddleware (api/middleware.py): a sliding window per client,   *)
(* in a Redis sorted set all workers share, or in the worker's own memory  *)
(* when Redis cannot be used.                                              *)
(*                                                                         *)
(* Everything from time.time() to the decision is synchronous, so a worker *)
(* decides one request at a time; other workers, and Redis, move meanwhile.*)
(* Time is in units of Tick.  A worker's successive stamps differ; those   *)
(* of two workers may be equal, and then are one member of the sorted set. *)
(***************************************************************************)
EXTENDS ApiWorkers

CONSTANTS Clients,
          Redis,      \* the name of the shared backend
          Limit,      \* requests_per_minute
          Window,     \* window_seconds
          Slip,       \* longest time between a stamp and its decision (a bound)
          MaxFaults,  \* Redis outages, lost answers, restarts (a bound)
          MaxRequests \* requests stamped (a bound)

ASSUME LimiterAssumption ==
    /\ Redis \notin Workers /\ Limit \in Nat \ {0}
    /\ Slip \in Nat /\ Window \in Nat /\ Slip < Window
    /\ MaxFaults \in Nat /\ MaxRequests \in Nat

VARIABLES redisUp,   \* Redis answers
          zset,      \* ratelimit:<client>: the stamps it holds
          link,      \* _redis and _redis_checked of each worker
          window,    \* _window of each worker
          req,       \* the request each worker is deciding
          faults,    \* faults so far
          sent,      \* requests so far
          asked,     \* stamps handed out lately, by worker (history)
          granted    \* admissions lately, by who decided (history)

limiterVars == <<redisUp, zset, link, window, req, faults, sent, asked, granted>>

Backends == {Redis} \cup Workers
Idle == [st |-> "idle"]
Requests == {Idle} \cup [st : {"stamped", "granted", "refused"}, client : Clients, now : Instants]
Fault == faults < MaxFaults /\ faults' = faults + 1

\* granted forgets what is too old to matter to any property.
LimiterTypeOK ==
    /\ clock \in Instants /\ redisUp \in BOOLEAN
    /\ zset \in [Clients -> SUBSET Instants]
    /\ link \in [Workers -> {"unchecked", "connected", "off"}]
    /\ window \in [Workers -> [Clients -> SUBSET Instants]]
    /\ req \in [Workers -> Requests]
    /\ faults \in 0..MaxFaults /\ sent \in 0..MaxRequests
    /\ asked \in [Clients -> SUBSET (Instants \X Workers)]
    /\ granted \in [Backends -> [Clients -> SUBSET [now : Instants, at : Instants]]]

LimiterInit ==
    /\ redisUp \in BOOLEAN
    /\ zset = [c \in Clients |-> {}]
    /\ link = [w \in Workers |-> "unchecked"]
    /\ window = [w \in Workers |-> [c \in Clients |-> {}]]
    /\ req = [w \in Workers |-> Idle] /\ faults = 0 /\ sent = 0
    /\ asked = [c \in Clients |-> {}]
    /\ granted = [b \in Backends |-> [c \in Clients |-> {}]]

-----------------------------------------------------------------------------
(* What a decision reads and writes.                                       *)

\* (mutant of Live) The window never slides.
MutNeverSlides(stamps, now) == stamps

\* Stamps still in the window of a request stamped now.
Live(stamps, now) == {t \in stamps : t + Window > now}

\* (mutant of RedisAllows) <= for <.
MutOneTooMany(c, now) == Cardinality(Live(zset[c], now)) <= Limit

\* zremrangebyscore and zcard: the pipeline counts what is still live.
RedisAllows(c, now) == Cardinality(Live(zset[c], now)) < Limit

\* zremrangebyscore and zadd: a refused request is recorded too.
RedisRecord(c, now) == [zset EXCEPT ![c] = Live(@, now) \cup {now}]

\* _check_memory.
MemoryAllows(w, c, now) == Cardinality(Live(window[w][c], now)) < Limit

\* It prunes, and records only what it admits.
MemoryRecord(w, c, now) ==
    [window EXCEPT ![w][c] = Live(@, now) \cup (IF MemoryAllows(w, c, now) THEN {now} ELSE {})]

\* The request of worker w is admitted, or refused with 429, by backend b.
Decide(w, b, allowed) ==
    LET c == req[w].client
    IN  /\ req' = [req EXCEPT ![w].st = IF allowed THEN "granted" ELSE "refused"]
        /\ granted' = IF allowed
                      THEN [granted EXCEPT ![b][c] = @ \cup {[now |-> req[w].now, at |-> clock]}]
                      ELSE granted

-----------------------------------------------------------------------------
(* A worker.                                                               *)

\* A request of client c reaches worker w, which stamps it.
Stamp(w, c) ==
    /\ req[w].st = "idle"
    /\ sent < MaxRequests /\ sent' = sent + 1
    /\ \A d \in Clients : <<clock, w>> \notin asked[d]
    /\ req' = [req EXCEPT ![w] = [st |-> "stamped", client |-> c, now |-> clock]]
    /\ asked' = [asked EXCEPT ![c] = @ \cup {<<clock, w>>}]
    /\ UNCHANGED <<redisUp, zset, link, window, faults, granted>>

\* _get_redis, not checked yet: the ping's outcome is kept.
Ping(w) ==
    /\ req[w].st = "stamped" /\ link[w] = "unchecked"
    /\ link' = [link EXCEPT ![w] = IF redisUp THEN "connected" ELSE "off"]
    /\ UNCHANGED <<redisUp, zset, window, req, faults, sent, asked, granted>>

\* _check_redis: the pipeline runs as one transaction and answers.
ByRedis(w) ==
    /\ req[w].st = "stamped" /\ link[w] = "connected" /\ redisUp
    /\ zset' = RedisRecord(req[w].client, req[w].now)
    /\ Decide(w, Redis, RedisAllows(req[w].client, req[w].now))
    /\ UNCHANGED <<redisUp, link, window, faults, sent, asked>>

\* _check_memory for the request of worker w.
DecideInMemory(w) ==
    /\ window' = MemoryRecord(w, req[w].client, req[w].now)
    /\ Decide(w, w, MemoryAllows(w, req[w].client, req[w].now))
    /\ UNCHANGED <<redisUp, sent, asked>>

\* The pipeline fails, or it ran and its answer is lost: the connection is
\* dropped, to be checked again by the next request, and memory decides.
RedisLost(w) ==
    /\ req[w].st = "stamped" /\ link[w] = "connected"
    /\ \/ ~redisUp /\ UNCHANGED <<zset, faults>>
       \/ redisUp /\ Fault /\ zset' = RedisRecord(req[w].client, req[w].now)
    /\ link' = [link EXCEPT ![w] = "unchecked"]
    /\ DecideInMemory(w)

\* The worker has no Redis client: memory decides.
ByMemory(w) ==
    /\ req[w].st = "stamped" /\ link[w] = "off"
    /\ DecideInMemory(w)
    /\ UNCHANGED <<zset, link, faults>>

\* The response has been sent.
Finish(w) ==
    /\ req[w].st \in {"granted", "refused"}
    /\ req' = [req EXCEPT ![w] = Idle]
    /\ UNCHANGED <<redisUp, zset, link, window, faults, sent, asked, granted>>

-----------------------------------------------------------------------------
(* Redis and time.                                                         *)

RedisStops ==
    /\ redisUp /\ redisUp' = FALSE /\ Fault
    /\ UNCHANGED <<zset, link, window, req, sent, asked, granted>>

\* Redis is back with its data, or (nothing makes it write them) without: its
\* admissions count from there.
RedisStarts ==
    /\ ~redisUp /\ redisUp' = TRUE
    /\ \/ UNCHANGED <<zset, granted>>
       \/ /\ zset' = [c \in Clients |-> {}]
          /\ granted' = [granted EXCEPT ![Redis] = [c \in Clients |-> {}]]
    /\ UNCHANGED <<link, window, req, faults, sent, asked>>

\* A worker process is replaced; its socket timeouts bound how long it decides.
RestartLimiter(w) ==
    /\ link' = [link EXCEPT ![w] = "unchecked"]
    /\ window' = [window EXCEPT ![w] = [c \in Clients |-> {}]]
    /\ req' = [req EXCEPT ![w] = Idle]
    /\ granted' = [granted EXCEPT ![w] = [c \in Clients |-> {}]]
    /\ Fault
    /\ UNCHANGED <<redisUp, zset, sent, asked>>

\* Time passes; the histories forget what has left every window.
TickLimiter ==
    /\ \A w \in Workers : req[w].st = "stamped" => clock < req[w].now + Slip
    /\ asked' = [c \in Clients |-> {a \in asked[c] : a[1] + Window + Slip > clock + 1}]
    /\ granted' = [b \in Backends |-> [c \in Clients |->
                      {g \in granted[b][c] : g.at + Window > clock + 1 + Slip}]]
    /\ UNCHANGED <<redisUp, zset, link, window, req, faults, sent>>

LimiterStep ==
    \/ \E w \in Workers : \/ \E c \in Clients : Stamp(w, c)
                          \/ Ping(w) \/ ByRedis(w) \/ RedisLost(w) \/ ByMemory(w)
                          \/ Finish(w) \/ RestartLimiter(w)
    \/ RedisStops \/ RedisStarts

LimiterTick == clock < MaxTime /\ clock' = clock + 1 /\ TickLimiter
LimiterNext == (LimiterStep /\ UNCHANGED clock) \/ LimiterTick

LimiterSpec == clock = 0 /\ LimiterInit /\ [][LimiterNext]_<<clock, limiterVars>>

-----------------------------------------------------------------------------
(* Properties.                                                             *)

\* Admissions of client c by backend b still recent: by when they were made,
\* whatever they were stamped.
Recent(b, c) == {g \in granted[b][c] : g.at + Window > clock + Slip}

\* No backend admits more than Limit requests of a client in any span of
\* Window - Slip, although stamps reach Redis out of order, a late request
\* prunes for an early one, and answers are lost.  Requests of two workers with
\* the same stamp count once, as in the sorted set.
GrantsBounded ==
    \A b \in Backends, c \in Clients : Cardinality({g.now : g \in Recent(b, c)}) <= Limit

Refuses(w) == req[w].st = "stamped" /\ req'[w].st = "refused"

\* A 429 is the client's own doing: it had made Limit other requests in the
\* window before this one, so one that waits Retry-After gets in, whatever other
\* clients do and whichever backend decides.
RefusedOnlyWhenBusy ==
    [][\A w \in Workers : Refuses(w) =>
          LET others == asked[req[w].client] \ {<<req[w].now, w>>}
          IN  Cardinality({a \in others : a[1] + Window > req[w].now}) >= Limit
      ]_<<clock, limiterVars>>

\* docs/deployment/rate-limiting.md: "uses a Redis sorted set when available".
\* A worker that takes a request while Redis answers can put it to Redis.
RedisWhenAvailable ==
    [][\A w \in Workers : req[w].st = "idle" /\ req'[w].st = "stamped" /\ redisUp
          => link[w] # "off"]_<<clock, limiterVars>>

-----------------------------------------------------------------------------
(* The inductive strengthening.                                            *)

\* A stamp is no older than Slip, and on record.
StampsFresh ==
    /\ \A w \in Workers : req[w].st = "stamped" =>
          /\ req[w].now <= clock /\ clock <= req[w].now + Slip
          /\ <<req[w].now, w>> \in asked[req[w].client]
    /\ \A b \in Backends, c \in Clients : \A g \in granted[b][c] :
          g.at <= clock /\ g.now <= g.at /\ g.at <= g.now + Slip

Stamps(b, c) == IF b = Redis THEN zset[c] ELSE window[b][c]

\* No backend has pruned a recent admission.
GrantsKept ==
    \A b \in Backends, c \in Clients : \A g \in Recent(b, c) : g.now \in Stamps(b, c)

\* Every live stamp a backend holds is that of a request already decided.
StampsAsked ==
    \A b \in Backends, c \in Clients : \A t \in Stamps(b, c) :
        t + Window + Slip > clock =>
            \E w \in Workers : <<t, w>> \in asked[c] /\ ~(req[w].st = "stamped" /\ req[w].now = t)

LimiterInv == LimiterTypeOK /\ StampsFresh /\ GrantsKept /\ StampsAsked /\ GrantsBounded
=============================================================================
