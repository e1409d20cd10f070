------------------------------- MODULE JwksAuth -------------------------------
(***************************************************************************)
(* require_auth and the JWKS cache (api/middleware.py, api/auth.py): a     *)
(* worker verifies a token with the keys it cached, fetches them from the  *)
(* user-service when it has none or they are too old, and, when a token    *)
(* fails, drops them and tries once more with fresh ones.                  *)
(*                                                                         *)
(* The code is synchronous inside the worker's event loop, so a worker     *)
(* verifies one token at a time and waits out its own fetches; time, and   *)
(* the user-service's keys, move meanwhile.                                *)
(***************************************************************************)
EXTENDS ApiWorkers

CONSTANTS Keys,       \* the signing keys the user-service will ever have
          Forger,     \* somebody else's key
          NoToken,    \* no Authorization header, or not a Bearer one
          TTL,        \* user_service_jwks_cache_ttl
          Patience    \* longest time a fetch lasts (a bound)

ASSUME VerifierAssumption ==
    /\ Forger \notin Keys /\ NoToken \notin Keys
    /\ TTL \in Nat /\ Patience \in Nat /\ Patience < TTL

VARIABLES status, retiredAt,  \* each key's life in the user-service
          cache,              \* _jwks_cache and _jwks_fetched_at of each worker
          call,               \* the verification each worker is at
          filled,             \* what each worker last fetched (history)
          spoiled             \* a token has failed since (history)

verifierVars == <<status, retiredAt, cache, call, filled, spoiled>>

Forged == [key |-> Forger, sort |-> "access"]
NoHeader == [key |-> NoToken, sort |-> "access"]
Tokens == [key : Keys, sort : {"access", "other", "expired"}] \cup {Forged, NoHeader}

Cold == [keys |-> {}, at |-> MaxTime + 1]
JwksState == {Cold} \cup [keys : SUBSET Keys, at : Instants]
Garbled == {Forger}  \* a 200 whose body is not JSON

Quiet == [st |-> "none"]
Outcomes == {"accepted", "refused", "unavailable"}  \* 200, 401, 503
Calls == {Quiet}
    \cup [st : {"fetching"}, token : Tokens, start : Instants, retried : BOOLEAN]
    \cup [st : {"served"}, token : Tokens, start : Instants, retried : BOOLEAN,
          answer : (SUBSET Keys) \cup {Garbled}]
    \cup [st : Outcomes, token : Tokens]

VerifierTypeOK ==
    /\ clock \in Instants
    /\ status \in [Keys -> {"unborn", "published", "retired"}]
    /\ retiredAt \in [Keys -> Instants]
    /\ cache \in [Workers -> JwksState] /\ filled \in [Workers -> JwksState]
    /\ call \in [Workers -> Calls] /\ spoiled \in [Workers -> BOOLEAN]

VerifierInit ==
    /\ \E k \in Keys : status = [j \in Keys |-> IF j = k THEN "published" ELSE "unborn"]
    /\ retiredAt = [k \in Keys |-> 0]
    /\ cache = [w \in Workers |-> Cold] /\ filled = [w \in Workers |-> Cold]
    /\ call = [w \in Workers |-> Quiet] /\ spoiled = [w \in Workers |-> FALSE]

-----------------------------------------------------------------------------
(* A worker.                                                               *)

Published == {k \in Keys : status[k] = "published"}

\* jwt.decode with RS256: any of the keys, and not expired.
Verifies(token, keys) == token.key \in keys /\ token.sort # "expired"

\* (mutant of CacheLive) The TTL is not looked at.
MutForever(w) == cache[w] # Cold

\* fetch_jwks answers from the cache.
CacheLive(w) == cache[w] # Cold /\ clock < cache[w].at + TTL

Fetch(w, token, retried) ==
    call' = [call EXCEPT ![w] = [st |-> "fetching", token |-> token,
                                 start |-> clock, retried |-> retried]]

End(w, token, outcome) == call' = [call EXCEPT ![w] = [st |-> outcome, token |-> token]]

\* (mutant of Decode) No second try.
MutNoRetry(w, token, kept, retried) ==
    /\ End(w, token, IF Verifies(token, kept.keys) /\ token.sort = "access"
                     THEN "accepted" ELSE "refused")
    /\ cache' = [cache EXCEPT ![w] = kept]

\* verify_user_service_token once it has keys, held in the cache as kept; then
\* require_auth's check of the claims.  A failed token empties the cache.
Decode(w, token, kept, retried) ==
    \/ /\ Verifies(token, kept.keys)
       /\ End(w, token, IF token.sort = "access" THEN "accepted" ELSE "refused")
       /\ cache' = [cache EXCEPT ![w] = kept]
    \/ /\ ~Verifies(token, kept.keys) /\ ~retried
       /\ cache' = [cache EXCEPT ![w] = Cold]
       /\ Fetch(w, token, TRUE)
    \/ /\ ~Verifies(token, kept.keys) /\ retried
       /\ End(w, token, "refused")
       /\ cache' = [cache EXCEPT ![w] = kept]

\* require_auth, up to the first await of the network.
Begin(w, token) ==
    /\ call[w] = Quiet
    /\ token.key \in Keys => status[token.key] # "unborn"
    /\ \/ /\ token = NoHeader
          /\ End(w, token, "refused")
          /\ UNCHANGED <<cache, spoiled>>
       \/ /\ token # NoHeader /\ CacheLive(w)
          /\ Decode(w, token, cache[w], FALSE)
          /\ spoiled' = [spoiled EXCEPT ![w] = @ \/ ~Verifies(token, cache[w].keys)]
       \/ /\ token # NoHeader /\ ~CacheLive(w)
          /\ Fetch(w, token, FALSE)
          /\ UNCHANGED <<cache, spoiled>>
    /\ UNCHANGED <<status, retiredAt, filled>>

\* The user-service answers with the keys it publishes, or something in between
\* answers for it.
Serve(w) ==
    /\ call[w].st = "fetching"
    /\ \E answer \in {Published, Garbled} :
          call' = [call EXCEPT ![w] = [st |-> "served", token |-> call[w].token,
                       start |-> call[w].start, retried |-> call[w].retried, answer |-> answer]]
    /\ UNCHANGED <<status, retiredAt, cache, filled, spoiled>>

\* (mutant of Receive) _jwks_fetched_at is not set.
MutUndated(w) ==
    /\ call[w].st = "served" /\ call[w].answer # Garbled
    /\ LET jwks == [keys |-> call[w].answer, at |-> call[w].start]
       IN  /\ Decode(w, call[w].token, [jwks EXCEPT !.at = 0], call[w].retried)
           /\ filled' = [filled EXCEPT ![w] = jwks]
           /\ spoiled' = [spoiled EXCEPT ![w] =
                             ~Verifies(call[w].token, call[w].answer) /\ ~call[w].retried]
    /\ UNCHANGED <<status, retiredAt>>

\* The answer arrives.  Its age counts from before the request was sent.
Receive(w) ==
    /\ call[w].st = "served" /\ call[w].answer # Garbled
    /\ LET jwks == [keys |-> call[w].answer, at |-> call[w].start]
       IN  /\ Decode(w, call[w].token, jwks, call[w].retried)
           /\ filled' = [filled EXCEPT ![w] = jwks]
           /\ spoiled' = [spoiled EXCEPT ![w] =
                             ~Verifies(call[w].token, call[w].answer) /\ ~call[w].retried]
    /\ UNCHANGED <<status, retiredAt>>

\* (mutant of ReceiveGarbled) The body is kept as if it held keys.
MutGarbledKept(w) ==
    /\ call[w].st = "served" /\ call[w].answer = Garbled
    /\ End(w, call[w].token, "refused")
    /\ cache' = [cache EXCEPT ![w] = [keys |-> Garbled, at |-> call[w].start]]
    /\ UNCHANGED <<status, retiredAt, filled, spoiled>>

\* Parsing it raises JSONDecodeError, a ValueError: the token gets the blame.
ReceiveGarbled(w) ==
    /\ call[w].st = "served" /\ call[w].answer = Garbled
    /\ End(w, call[w].token, "refused")
    /\ UNCHANGED <<status, retiredAt, cache, filled, spoiled>>

\* httpx.HTTPError: no connection, a timeout, an error status.
FetchFails(w) ==
    /\ call[w].st \in {"fetching", "served"}
    /\ End(w, call[w].token, "unavailable")
    /\ UNCHANGED <<status, retiredAt, cache, filled, spoiled>>

Reply(w) ==
    /\ call[w].st \in Outcomes
    /\ call' = [call EXCEPT ![w] = Quiet]
    /\ UNCHANGED <<status, retiredAt, cache, filled, spoiled>>

\* A worker process is replaced.
Recycle(w) ==
    /\ cache' = [cache EXCEPT ![w] = Cold] /\ filled' = [filled EXCEPT ![w] = Cold]
    /\ call' = [call EXCEPT ![w] = Quiet] /\ spoiled' = [spoiled EXCEPT ![w] = FALSE]
    /\ UNCHANGED <<status, retiredAt>>

-----------------------------------------------------------------------------
(* The user-service's keys, and time.                                      *)

Publish(k) ==
    /\ status[k] = "unborn" /\ status' = [status EXCEPT ![k] = "published"]
    /\ UNCHANGED <<retiredAt, cache, call, filled, spoiled>>

Retire(k) ==
    /\ status[k] = "published" /\ status' = [status EXCEPT ![k] = "retired"]
    /\ retiredAt' = [retiredAt EXCEPT ![k] = clock]
    /\ UNCHANGED <<cache, call, filled, spoiled>>

TickVerifier ==
    /\ \A w \in Workers : call[w].st \in {"fetching", "served"} => clock < call[w].start + Patience
    /\ UNCHANGED verifierVars

VerifierStep ==
    \/ \E w \in Workers : \/ \E token \in Tokens : Begin(w, token)
                          \/ Serve(w) \/ Receive(w) \/ ReceiveGarbled(w) \/ FetchFails(w)
                          \/ Reply(w) \/ Recycle(w)
    \/ \E k \in Keys : Publish(k) \/ Retire(k)

VerifierTick == clock < MaxTime /\ clock' = clock + 1 /\ TickVerifier
VerifierNext == (VerifierStep /\ UNCHANGED clock) \/ VerifierTick

VerifierSpec == clock = 0 /\ VerifierInit /\ [][VerifierNext]_<<clock, verifierVars>>

-----------------------------------------------------------------------------
(* Properties.                                                             *)

Ends(w, outcome) == call[w].st # outcome /\ call'[w].st = outcome

\* A key the user-service has stopped publishing opens nothing from TTL later on,
\* on any worker, although each has its own copy, answers arrive after the keys
\* they carry were retired, and a retry may fill the cache of a failed token.
RetiredKeyDies ==
    [][\A w \in Workers : Ends(w, "accepted") =>
          LET key == call'[w].token.key
          IN  status[key] = "published" \/ clock < retiredAt[key] + TTL]_<<clock, verifierVars>>

\* A fresh access token signed with a key the user-service publishes is never
\* refused for want of the key: however old the cache, the retry finds it.  Only
\* an answer that is not JSON can turn it away with 401.
GenuineNeverRefused ==
    [][\A w \in Workers :
          (/\ Ends(w, "refused") /\ call'[w].token.sort = "access"
           /\ call'[w].token.key \in Published)
              => call[w].st = "served" /\ call[w].answer = Garbled]_<<clock, verifierVars>>

\* A token whose key the worker fetched less than TTL before is turned away with
\* 503 only if some token failed since: nothing else empties the cache, and as
\* long as nobody presents a bad token an outage of the user-service goes unseen.
CacheCarriesOutage ==
    [][\A w \in Workers :
          (/\ Ends(w, "unavailable") /\ filled[w] # Cold
           /\ Verifies(call[w].token, filled[w].keys) /\ call[w].start < filled[w].at + TTL)
              => spoiled[w]]_<<clock, verifierVars>>

-----------------------------------------------------------------------------
(* The inductive strengthening.                                            *)

Pending(w) == call[w].st \in {"fetching", "served"}

\* Whoever fetched keys at an instant got no key retired before.
NoneRetiredBefore(keys, at) ==
    \A k \in keys \cap Keys : at <= clock /\ (status[k] # "published" => at <= retiredAt[k])

KeysDated ==
    \A w \in Workers : /\ NoneRetiredBefore(cache[w].keys, cache[w].at)
                       /\ call[w].st = "served" => NoneRetiredBefore(call[w].answer, call[w].start)

\* A fetch lasts at most Patience; its token's key exists, and is in the answer
\* if it is published to this day.
CallsSound ==
    \A w \in Workers : Pending(w) =>
        /\ call[w].start <= clock /\ clock <= call[w].start + Patience
        /\ call[w].token.key \in Keys => status[call[w].token.key] # "unborn"
        /\ call[w].st = "served" /\ call[w].answer # Garbled /\ call[w].token.key \in Published
              => call[w].token.key \in call[w].answer

\* What was fetched is in the cache, unless a token failed; nobody fetches who
\* could do without.
CacheKept ==
    \A w \in Workers :
        /\ ~spoiled[w] /\ filled[w] # Cold => cache[w] = filled[w]
        /\ Pending(w) => IF call[w].retried THEN spoiled[w]
                         ELSE cache[w] # Cold => cache[w].at + TTL <= call[w].start

VerifierInv == VerifierTypeOK /\ KeysDated /\ CallsSound /\ CacheKept
=============================================================================
