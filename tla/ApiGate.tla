------------------------------- MODULE ApiGate -------------------------------
(***************************************************************************)
(* What every request to the API passes (api/app.py, create_app): the rate *)
(* limiter, then, on the protected routers, require_auth.  The limiter     *)
(* (RateLimiter) and the verifier (JwksAuth) share the clock; a worker     *)
(* hands an admitted request from the one to the other.                    *)
(*                                                                         *)
(* sole keeps the product of the two small (a bound): either the workers   *)
(* serve open routes while Redis and the workers fail, or one worker       *)
(* serves one client protected routes while the keys change.               *)
(***************************************************************************)
EXTENDS RateLimiter, JwksAuth

CONSTANT Nobody

VARIABLE sole  \* the worker that serves protected routes, or Nobody

vars == <<clock, limiterVars, verifierVars, sole>>

Init ==
    /\ clock = 0 /\ LimiterInit /\ VerifierInit
    /\ \/ sole = Nobody
       \/ sole \in Workers /\ redisUp

\* The open routes: health, and what needs no token.
Open == sole = Nobody

-----------------------------------------------------------------------------
(* One request. *)

\* A request arrives at worker w, and the limiter stamps it.
Arrive(w, c) ==
    /\ Open \/ (sole = w /\ \A d \in Clients \ {c} : asked[d] = {} /\ zset[d] = {})
    /\ Stamp(w, c)
    /\ UNCHANGED <<clock, verifierVars, sole>>

\* The limiter decides it.
Admit(w) ==
    /\ Ping(w) \/ ByRedis(w) \/ (Open /\ RedisLost(w)) \/ ByMemory(w)
    /\ UNCHANGED <<clock, verifierVars, sole>>

\* call_next: an admitted request to a protected route reaches require_auth.
Forward(w, token) ==
    /\ sole = w /\ req[w].st = "granted"
    /\ Begin(w, token)
    /\ UNCHANGED <<clock, limiterVars, sole>>

\* require_auth fetches keys and decodes.
Verify(w) ==
    /\ Serve(w) \/ Receive(w) \/ ReceiveGarbled(w) \/ FetchFails(w)
    /\ UNCHANGED <<clock, limiterVars, sole>>

\* The response goes out: a 429 at once, the rest from the route or from
\* require_auth.
Respond(w) ==
    /\ Finish(w)
    /\ \/ Reply(w)
       \/ (Open \/ req[w].st = "refused") /\ UNCHANGED verifierVars
    /\ UNCHANGED <<clock, sole>>

\* A worker process is replaced.
Restart(w) ==
    /\ RestartLimiter(w) /\ Recycle(w)
    /\ UNCHANGED <<clock, sole>>

-----------------------------------------------------------------------------
(* What is around the workers. *)

RedisChanges ==
    /\ Open /\ (RedisStops \/ RedisStarts)
    /\ UNCHANGED <<clock, verifierVars, sole>>

KeysChange ==
    /\ ~Open /\ \E k \in Keys : Publish(k) \/ Retire(k)
    /\ UNCHANGED <<clock, limiterVars, sole>>

Tick ==
    /\ clock < MaxTime /\ clock' = clock + 1
    /\ TickLimiter /\ TickVerifier
    /\ UNCHANGED sole

Next ==
    \/ \E w \in Workers : \/ \E c \in Clients : Arrive(w, c)
                          \/ Admit(w)
                          \/ \E token \in Tokens : Forward(w, token)
                          \/ Verify(w) \/ Respond(w) \/ Restart(w)
    \/ RedisChanges \/ KeysChange \/ Tick

Spec == Init /\ [][Next]_vars


-----------------------------------------------------------------------------
\* What the limiter and the verifier keep true when they share requests.
GateInv == LimiterInv /\ VerifierInv /\ sole \in Workers \cup {Nobody}
=============================================================================
