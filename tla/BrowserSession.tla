--------------------------- MODULE BrowserSession ---------------------------
(***************************************************************************)
(* The signed-in session of one browser: localStorage's access_token and   *)
(* the httpOnly refresh cookie, shared by every tab, and in each tab the   *)
(* AuthProvider (useAuth), the API clients' "401, refresh once, retry      *)
(* once" and the single-flight refreshAccessToken.                         *)
(*                                                                         *)
(* A JavaScript continuation runs to completion, so one action is one      *)
(* continuation: whatever happens between two awaits.  Tabs interleave at  *)
(* every await.  The user-service is external: it rotates the refresh      *)
(* cookie on use, refuses one that is no longer current, and mints access  *)
(* tokens that expire.  A token is only what a server would say of it, and *)
(* a cookie only whether it is the current one.                            *)
(***************************************************************************)
CONSTANTS Tabs, Calls,
          CallsIn,    \* the calls each tab makes (a bound)
          Loader,     \* the caller loadUser is, beside a tab's API calls
          Nobody      \* no flight, no rotation to blame

ASSUME CallsInAssumption == CallsIn \in [Tabs -> SUBSET Calls]
ASSUME CallersAssumption == Loader \notin Calls /\ Nobody \notin Tabs \cup Calls \cup {Loader}

VARIABLES
    live,       \* the user-service session behind the cookie is not revoked
    jarCurrent, \* the cookie jar holds the current refresh cookie
    stored,     \* localStorage access_token
    tab,        \* each tab's React state
    caller,     \* each tab's loader and API calls
    flight,     \* the refresh each caller of a tab started, if any
    late        \* a refresh was answered after a sign-out, since the last sign-in
                \* (history)

vars == <<live, jarCurrent, stored, tab, caller, flight, late>>

Callers == Calls \cup {Loader}
Token == {"none", "expired", "valid"}
Failure == {"revoked", "network", "stale", "self"}

TabState == [loading : BOOLEAN, user : BOOLEAN,
             modal : Failure \cup {"no", "expired", "unexplained"},  \* and why
             revoking : BOOLEAN,     \* a revocation under way, its token valid
             signingOut : BOOLEAN,   \* signOut / signOutAll awaiting it
             leaving : BOOLEAN,      \* location.href is set, page still alive
             entered : BOOLEAN,      \* this page completed an email login
             polling : BOOLEAN,      \* a refreshUser under way, its token accepted
             signedOut : BOOLEAN,    \* signed out, not signed in since, and
             revoked : BOOLEAN]      \* the revocation got through (history)
CallerState ==
    [st : {"start", "idle", "sent", "waiting", "resent", "hung"},
     tok : {"none", "valid", "outlived"},  \* good, or no longer, under way
     first : BOOLEAN,                \* waiting before having sent anything
     on : Callers \cup {Nobody}]     \* whose flight it awaits
FlightState ==
    [st : {"none", "sent", "granted"} \cup Failure,
     cookie : {"current", "stale", "self"},  \* self: this tab rotated it away
     tok : {"none", "valid", "outlived"}]

TypeOK ==
    /\ live \in BOOLEAN /\ jarCurrent \in BOOLEAN /\ stored \in Token
    /\ tab \in [Tabs -> TabState]
    /\ caller \in [Tabs -> [Callers -> CallerState]]
    /\ flight \in [Tabs -> [Callers -> FlightState]]
    /\ late \in BOOLEAN

NoFlight == [st |-> "none", cookie |-> "stale", tok |-> "none"]
Idle == [st |-> "idle", tok |-> "none", first |-> FALSE, on |-> Nobody]
Bearing(token) == IF token = "expired" THEN "none" ELSE token
Sent(token) == [Idle EXCEPT !.st = "sent", !.tok = Bearing(token)]
Resent(token) == [Idle EXCEPT !.st = "resent", !.tok = Bearing(token)]

\* A page that has just loaded: AuthProvider mounts and loadUser is next.
FreshTab(signedOut, revoked) ==
    [loading |-> TRUE, user |-> FALSE, modal |-> "no", revoking |-> FALSE,
     signingOut |-> FALSE, leaving |-> FALSE, entered |-> FALSE, polling |-> FALSE,
     signedOut |-> signedOut, revoked |-> revoked]
FreshCallers == [k \in Callers |-> IF k = Loader THEN [Idle EXCEPT !.st = "start"]
                                                 ELSE Idle]

Init ==
    /\ live \in BOOLEAN
    /\ jarCurrent = live
    /\ stored \in IF live THEN Token ELSE {"none"}
    /\ tab = [t \in Tabs |-> FreshTab(FALSE, FALSE)]
    /\ caller = [t \in Tabs |-> FreshCallers]
    /\ flight = [t \in Tabs |-> [k \in Callers |-> NoFlight]]
    /\ late = FALSE

-----------------------------------------------------------------------------
(* refreshAccessToken. *)

InFlight(t) == {k \in Callers : flight[t][k].st # "none"}

\* doRefresh sends the refresh cookie the jar holds at the moment.
Cookie(t) ==
    IF jarCurrent THEN "current"
    ELSE IF \E k \in Callers : flight[t][k].st = "granted" THEN "self" ELSE "stale"
StartRefresh(t, k) == [flight EXCEPT ![t][k] = [NoFlight EXCEPT !.st = "sent",
                                                               !.cookie = Cookie(t)]]

MutAwaitOwnRefresh(t, k, first) ==
    /\ flight' = StartRefresh(t, k)
    /\ caller' = [caller EXCEPT ![t][k] = [st |-> "waiting", tok |-> "none",
                                           first |-> first, on |-> k]]

\* Join the refresh in flight in this tab, or start one: `inFlight` is a
\* variable of the module, hence one per tab.
AwaitRefresh(t, k, first) ==
    LET leader == IF InFlight(t) = {} THEN k ELSE CHOOSE j \in InFlight(t) : TRUE
    IN /\ flight' = IF InFlight(t) = {}
                    THEN StartRefresh(t, k)
                    ELSE flight
       /\ caller' = [caller EXCEPT ![t][k] = [st |-> "waiting", tok |-> "none",
                                              first |-> first, on |-> leader]]

\* The user-service answers POST /auth/token/refresh.  Granting one rotates
\* the cookie: every other copy of it, sent or stored, is no longer current.
RefreshAnswered(t, k) ==
    /\ flight[t][k].st = "sent"
    /\ IF live /\ flight[t][k].cookie = "current"
       THEN /\ flight' = [u \in Tabs |-> [j \in Callers |->
                             IF u = t /\ j = k
                             THEN [flight[u][j] EXCEPT !.st = "granted", !.tok = "valid"]
                             ELSE IF flight[u][j].cookie = "current"
                             THEN [flight[u][j] EXCEPT !.cookie = IF u = t THEN "self" ELSE "stale"]
                             ELSE flight[u][j]]]
            /\ jarCurrent' = FALSE
       ELSE /\ flight' = [flight EXCEPT ![t][k].st =
                             IF live THEN flight[t][k].cookie ELSE "revoked"]
            /\ UNCHANGED jarCurrent
    /\ UNCHANGED <<live, stored, tab, caller, late>>

\* The request or, with the new cookie it carries, the response is lost.
RefreshLost(t, k) ==
    /\ flight[t][k].st \in {"sent", "granted"}
    /\ flight' = [flight EXCEPT ![t][k] = [NoFlight EXCEPT !.st = "network"]]
    /\ UNCHANGED <<live, jarCurrent, stored, tab, caller, late>>

MutAwaiting(t, k) == {k}

\* The callers that hold the promise of flight k.
Awaiting(t, k) == {j \in Callers : caller[t][j].st = "waiting" /\ caller[t][j].on = k}

MutResumeWithOldToken(t, token) ==
    [j \in Callers |-> IF j = Loader /\ caller[t][j].first THEN Sent(token)
                                                           ELSE Resent(stored)]

\* What an awaiting caller sends once the refresh resolved to a token: the
\* loader its first request or its retry, an API call its retry, whose headers
\* are read from localStorage again.
Resumed(t, token) ==
    [j \in Callers |-> IF j = Loader /\ caller[t][j].first THEN Sent(token)
                                                           ELSE Resent(token)]

\* SESSION_EXPIRED_EVENT is heard only where there is a user.
Modal(t, why) == IF tab[t].user /\ tab[t].modal = "no" THEN why ELSE tab[t].modal

\* The response arrives: doRefresh stores the token, inFlight is cleared and
\* everyone who awaited the promise continues.  Without a token the loader
\* clears the auth state and an API call emits session-expired.
RefreshSettles(t, k) ==
    /\ flight[t][k].st \in Failure \cup {"granted"}
    /\ flight' = [flight EXCEPT ![t][k] = NoFlight]
    /\ IF flight[t][k].st = "granted"
       THEN /\ stored' = IF flight[t][k].tok = "valid" THEN "valid" ELSE "expired"
            /\ jarCurrent' = (jarCurrent \/ flight[t][k].cookie = "current")
            /\ late' = (late \/ \E u \in Tabs : tab[u].signedOut)
            /\ caller' = [caller EXCEPT ![t] = [j \in Callers |->
                             IF j \in Awaiting(t, k)
                             THEN Resumed(t, flight[t][k].tok)[j]
                             ELSE caller[t][j]]]
            /\ UNCHANGED tab
       ELSE /\ stored' = IF Loader \in Awaiting(t, k) THEN "none" ELSE stored
            /\ tab' = [tab EXCEPT
                 ![t].user = @ /\ Loader \notin Awaiting(t, k),
                 ![t].loading = @ /\ Loader \notin Awaiting(t, k),
                 ![t].modal = IF Awaiting(t, k) \cap Calls = {} THEN @
                              ELSE Modal(t, flight[t][k].st)]
            /\ caller' = [caller EXCEPT ![t] = [j \in Callers |->
                             IF j \in Awaiting(t, k) THEN Idle ELSE caller[t][j]]]
            /\ UNCHANGED <<jarCurrent, late>>
    /\ UNCHANGED <<live>>

-----------------------------------------------------------------------------
(* Callers: loadUser, and the fetchJson / fetchWithRefresh of the clients. *)

LoadUser(t) ==
    /\ caller[t][Loader].st = "start"
    /\ IF stored = "none"
       THEN AwaitRefresh(t, Loader, TRUE)
       ELSE /\ caller' = [caller EXCEPT ![t][Loader] = Sent(stored)]
            /\ UNCHANGED flight
    /\ UNCHANGED <<live, jarCurrent, stored, tab, late>>

\* Only signed-in pages call the API; the modal does not stop them.
SendCall(t, c) ==
    /\ tab[t].user /\ ~ tab[t].leaving
    /\ caller[t][c].st = "idle"
    /\ caller' = [caller EXCEPT ![t][c] = Sent(stored)]
    /\ UNCHANGED <<live, jarCurrent, stored, tab, flight, late>>

Accepted(t, k) ==
    /\ caller[t][k].st \in {"sent", "resent"}
    /\ caller[t][k].tok = "valid"
    /\ caller' = [caller EXCEPT ![t][k] = Idle]
    /\ tab' = IF k = Loader
              THEN [tab EXCEPT ![t].user = TRUE, ![t].loading = FALSE,
                               ![t].signedOut = FALSE, ![t].revoked = FALSE]
              ELSE tab
    /\ UNCHANGED <<live, jarCurrent, stored, flight, late>>

\* First 401: refresh and, if that works, retry.
Refused(t, k) ==
    /\ caller[t][k].st = "sent"
    /\ caller[t][k].tok # "valid"
    /\ AwaitRefresh(t, k, FALSE)
    /\ UNCHANGED <<live, jarCurrent, stored, tab, late>>

\* 401 on the retry: the loader settles for no user, a call gives up.
RefusedAgain(t, k) ==
    /\ caller[t][k].st = "resent"
    /\ caller[t][k].tok # "valid"
    /\ caller' = [caller EXCEPT ![t][k] = Idle]
    /\ tab' = IF k = Loader
              THEN [tab EXCEPT ![t].user = FALSE, ![t].loading = FALSE]
              ELSE [tab EXCEPT ![t].modal =
                      Modal(t, IF caller[t][k].tok = "outlived" THEN "expired"
                               ELSE "unexplained")]
    /\ UNCHANGED <<live, jarCurrent, stored, flight, late>>

\* fetch rejects.  An API call throws to its caller; loadUser has no handler
\* around its fetches, and `loading` stays true.
RequestLost(t, k) ==
    /\ caller[t][k].st \in {"sent", "resent"}
    /\ caller' = [caller EXCEPT ![t][k] =
                     IF k = Loader THEN [Idle EXCEPT !.st = "hung"] ELSE Idle]
    /\ UNCHANGED <<live, jarCurrent, stored, tab, flight, late>>

-----------------------------------------------------------------------------
(* refreshUser: CheckEmailPage calls it every 30 seconds while its user's    *)
(* address is unverified, ProfilePage after a new name was saved.            *)

\* Only a request whose token is accepted has any effect.  (Bound: a page waits
\* for one at a time.)
PollUser(t) ==
    /\ tab[t].user /\ stored = "valid" /\ ~ tab[t].polling
    /\ tab' = [tab EXCEPT ![t].polling = TRUE]
    /\ UNCHANGED <<live, jarCurrent, stored, caller, flight, late>>

\* The user is set, whatever has become of the page since: also one that has
\* signed out and is only waiting for the navigation.
PollAnswered(t) ==
    /\ tab[t].polling
    /\ tab' = [tab EXCEPT ![t].polling = FALSE, ![t].user = TRUE]
    /\ UNCHANGED <<live, jarCurrent, stored, caller, flight, late>>

\* Lost, or refused after all: "silently ignore".
PollFails(t) ==
    /\ tab[t].polling
    /\ tab' = [tab EXCEPT ![t].polling = FALSE]
    /\ UNCHANGED <<live, jarCurrent, stored, caller, flight, late>>

-----------------------------------------------------------------------------
(* Leaving: logout, signOut / signOutAll, dismissSessionExpired, reload. *)

MutClearAuth(t) == UNCHANGED stored

\* clearAuth's part outside React state.
ClearAuth(t) == stored' = "none"

\* logout: revoke in the background, clear and navigate at once.
Logout(t) ==
    /\ tab[t].user /\ ~ tab[t].leaving /\ ~ tab[t].signingOut
    /\ ClearAuth(t)
    /\ tab' = [tab EXCEPT ![t].user = FALSE, ![t].leaving = TRUE,
                          ![t].signedOut = TRUE, ![t].revoking = (stored = "valid")]
    /\ UNCHANGED <<live, jarCurrent, caller, flight, late>>

\* signOut and signOutAll: await the revocation first.
SignOut(t) ==
    /\ tab[t].user /\ ~ tab[t].leaving /\ ~ tab[t].signingOut
    /\ tab' = [tab EXCEPT ![t].signingOut = TRUE, ![t].revoking = (stored = "valid")]
    /\ UNCHANGED <<live, jarCurrent, stored, caller, flight, late>>

\* The revocation reaches the user-service, with a token it still accepts.
Revoked(t) ==
    /\ tab[t].revoking
    /\ live' = FALSE
    /\ jarCurrent' = FALSE
    /\ tab' = [tab EXCEPT ![t].revoking = FALSE, ![t].revoked = TRUE]
    /\ UNCHANGED <<stored, caller, flight, late>>

\* It fails: "best-effort".  With no token, or one expired by then, there is
\* nothing to wait for.
RevocationSkipped(t) ==
    /\ tab[t].revoking
    /\ tab' = [tab EXCEPT ![t].revoking = FALSE]
    /\ UNCHANGED <<live, jarCurrent, stored, caller, flight, late>>

SignOutContinues(t) ==
    /\ tab[t].signingOut /\ ~ tab[t].revoking /\ ~ tab[t].leaving
    /\ ClearAuth(t)
    /\ tab' = [tab EXCEPT ![t].user = FALSE, ![t].modal = "no",
                          ![t].leaving = TRUE, ![t].signedOut = TRUE]
    /\ UNCHANGED <<live, jarCurrent, caller, flight, late>>

DismissSessionExpired(t) ==
    /\ tab[t].modal # "no" /\ ~ tab[t].leaving
    /\ ClearAuth(t)
    /\ tab' = [tab EXCEPT ![t].user = FALSE, ![t].modal = "no", ![t].leaving = TRUE]
    /\ UNCHANGED <<live, jarCurrent, caller, flight, late>>

\* The page goes: its continuations never run.  A refresh the server had
\* already granted is lost with the rotated cookie its response carried.
LoadPage(t) ==
    /\ tab' = [tab EXCEPT ![t] = FreshTab(tab[t].signedOut, tab[t].signedOut /\ tab[t].revoked)]
    /\ caller' = [caller EXCEPT ![t] = FreshCallers]
    /\ flight' = [flight EXCEPT ![t] = [k \in Callers |-> NoFlight]]
    /\ UNCHANGED <<live, jarCurrent, stored, late>>

Unload(t) == tab[t].leaving /\ LoadPage(t)

Reload(t) == ~ tab[t].leaving /\ caller[t][Loader].st # "start" /\ LoadPage(t)

SignedIn(u) == [tab[u] EXCEPT !.signedOut = FALSE, !.revoked = FALSE]

\* OAuth sign-in: the user-service redirects to the callback page with a new
\* cookie and a token in the fragment, which AuthCallbackPage's effect stores
\* before AuthProvider's effect reads it.  (Bound: not while another tab's
\* refresh of the previous session is under way.)
SignIn(t) ==
    /\ ~ tab[t].loading /\ ~ tab[t].user /\ ~ tab[t].leaving
    /\ \A u \in Tabs : InFlight(u) = {}
    /\ live' = TRUE /\ jarCurrent' = TRUE /\ stored' = "valid" /\ late' = FALSE
    /\ tab' = [u \in Tabs |-> IF u = t THEN FreshTab(FALSE, FALSE) ELSE SignedIn(u)]
    /\ caller' = [caller EXCEPT ![t] = FreshCallers]
    /\ UNCHANGED flight

\* handleEmailLogin and handleRegister: the token is stored and the router
\* navigates within the page, whose AuthProvider is not told.  The fetch names
\* no credentials, so the response's cookie is kept only if the user-service
\* is of the page's origin.  (Bound: as for SignIn, and once per page.)
EmailLogin(t) ==
    /\ ~ tab[t].loading /\ ~ tab[t].user /\ ~ tab[t].leaving /\ ~ tab[t].entered
    /\ \A u \in Tabs : InFlight(u) = {}
    /\ live' = TRUE /\ jarCurrent' \in BOOLEAN /\ stored' = "valid" /\ late' = FALSE
    /\ tab' = [u \in Tabs |-> [SignedIn(u) EXCEPT !.entered = @ \/ u = t]]
    /\ UNCHANGED <<caller, flight>>

-----------------------------------------------------------------------------
Outlived(r) ==
    IF r.tok # "valid" THEN r
    ELSE [r EXCEPT !.tok = IF r.st = "sent" THEN "none" ELSE "outlived"]

\* Every access token minted so far reaches its end of life.
AccessTokensExpire ==
    /\ stored' = IF stored = "valid" THEN "expired" ELSE stored
    /\ tab' = [t \in Tabs |-> [tab[t] EXCEPT !.revoking = FALSE]]
    /\ caller' = [t \in Tabs |-> [k \in Callers |-> Outlived(caller[t][k])]]
    /\ flight' = [t \in Tabs |-> [k \in Callers |-> Outlived(flight[t][k])]]
    /\ UNCHANGED <<live, jarCurrent, late>>

\* An administrator, or the user elsewhere, revokes the session.
RevokedElsewhere ==
    /\ live' = FALSE /\ jarCurrent' = FALSE
    /\ UNCHANGED <<stored, tab, caller, flight, late>>

\* The steps nobody has to decide on: answers arrive or fail, pages unload.
TabProgress(t) ==
    \/ LoadUser(t)
    \/ \E k \in Callers :
          \/ RefreshAnswered(t, k) \/ RefreshLost(t, k) \/ RefreshSettles(t, k)
          \/ Accepted(t, k) \/ Refused(t, k) \/ RefusedAgain(t, k) \/ RequestLost(t, k)
    \/ PollAnswered(t) \/ PollFails(t)
    \/ Revoked(t) \/ RevocationSkipped(t) \/ SignOutContinues(t)
    \/ Unload(t)

Next ==
    \/ \E t \in Tabs :
          \/ TabProgress(t)
          \/ \E c \in CallsIn[t] : SendCall(t, c)
          \/ PollUser(t)
          \/ Logout(t) \/ SignOut(t) \/ DismissSessionExpired(t)
          \/ Reload(t) \/ SignIn(t) \/ EmailLogin(t)
    \/ AccessTokensExpire
    \/ RevokedElsewhere

Spec == Init /\ [][Next]_vars

\* A request is answered or fails, and the browser runs what an answer wakes.
CallerProgress(t, k) ==
    \/ RefreshAnswered(t, k) \/ RefreshSettles(t, k)
    \/ Accepted(t, k) \/ Refused(t, k) \/ RefusedAgain(t, k)
    \/ k = Loader /\ LoadUser(t)

FairSpec == Spec /\ \A t \in Tabs : \A k \in Callers : WF_vars(CallerProgress(t, k))

-----------------------------------------------------------------------------
(* Properties. *)

\* The session-expired modal has a cause outside the tab: the session was
\* revoked, a request lost, the cookie gone stale because another tab or page
\* had used it, or the new token expired before the retry was judged.
ModalHasCause == \A t \in Tabs : tab[t].modal # "unexplained"

\* A tab never invalidates its own refresh: whatever the number of calls that
\* fail together, the cookie it presents was not rotated by itself
\* (token-refresh.ts, "parallel refreshes would race").
NoSelfRace == \A t \in Tabs : \A k \in Callers : flight[t][k].st # "self"

\* Single flight: however the 401s of a tab's callers interleave, at most one
\* refresh is under way in the tab, and every caller that waits, waits for it.
SingleFlight ==
    \A t \in Tabs :
        /\ \A j, k \in InFlight(t) : j = k
        /\ \A k \in Callers : caller[t][k].st = "waiting" => caller[t][k].on \in InFlight(t)

SessionInv == TypeOK /\ SingleFlight /\ NoSelfRace

\* A tab whose sign-out revoked the session has its user again without a sign-in
\* only when a refresh granted before the revocation is answered after the
\* sign-out and stores its token then; or for a moment, on the page that is being
\* left, when a refreshUser is answered late: there is no token then, for that
\* page or the next one.
SignOutHolds ==
    [][\A t \in Tabs :
          tab[t].signedOut /\ tab[t].revoked /\ ~ tab[t].user /\ tab'[t].user =>
              late \/ (tab[t].leaving /\ stored = "none")]_vars

\* Every caller that waits for a refresh is woken, whoever started it.
EveryWaitEnds ==
    \A t \in Tabs : \A k \in Callers :
        caller[t][k].st = "waiting" ~> caller[t][k].st # "waiting"

\* "only a genuinely expired/revoked refresh cookie forces the session-expired
\* modal" (client.ts).
OnlyRevokedForcesModal == \A t \in Tabs : tab[t].modal \in {"no", "revoked"}

\* An email login that succeeds signs the page in.
EmailLoginSignsIn ==
    \A t \in Tabs : tab[t].entered ~> tab[t].user \/ ~ tab[t].entered
=============================================================================
