------------------------ MODULE BrowserSessionProofs ------------------------
(***************************************************************************)
(* Proofs about BrowserSession for any number of tabs and of calls in each:*)
(* one refresh at a time in a tab, which never rotates its own cookie away,*)
(* a session-expired modal that always has a cause, and a sign-out that    *)
(* only a late refresh undoes, or for a moment a late poll.  And about the routes of a tab (AppRoutes): *)
(* where redirects, links and sign-ins lead.                               *)
(* And about what several browsers do to one profile's preferences         *)
(* (Preferences), for any keys, values and number of requests.             *)
(***************************************************************************)
EXTENDS BrowserSession, AppRoutes, Preferences, Ranking

\* A flight that was sent carries a cookie its own tab has not rotated, and one
\* that was granted a token.
FlightIsClean(f) ==
    /\ f.st # "self"
    /\ f.st = "sent" => f.cookie # "self" /\ f.tok = "none"
    /\ f.st = "granted" => f.tok # "none"

\* A retry carries the token of a refresh.
RetryBears(r) == r.st = "resent" => r.tok # "none"

FlightsOK ==
    /\ flight \in [Tabs -> [Callers -> FlightState]]
    /\ \A t \in Tabs : \A k \in Callers : FlightIsClean(flight[t][k])
    /\ \A t \in Tabs : \A j, k \in InFlight(t) : j = k

CallersOK ==
    /\ caller \in [Tabs -> [Callers -> CallerState]]
    /\ \A t \in Tabs : \A k \in Callers :
          /\ RetryBears(caller[t][k])
          /\ caller[t][k].st = "waiting" => caller[t][k].on \in InFlight(t)

RestOK ==
    /\ live \in BOOLEAN /\ jarCurrent \in BOOLEAN /\ stored \in Token /\ late \in BOOLEAN
    /\ tab \in [Tabs -> TabState]
    /\ ModalHasCause

IInv == FlightsOK /\ CallersOK /\ RestOK

LEMMA InvImplies == IInv => SessionInv /\ ModalHasCause
BY DEF IInv, FlightsOK, CallersOK, RestOK, SessionInv, TypeOK, SingleFlight, NoSelfRace,
       FlightIsClean, ModalHasCause

LEMMA RecordsAre ==
    /\ NoFlight \in FlightState /\ NoFlight.st = "none" /\ FlightIsClean(NoFlight)
    /\ Idle \in CallerState /\ Idle.st = "idle" /\ Idle.on = Nobody /\ Idle.tok = "none"
    /\ [Idle EXCEPT !.st = "start"] \in CallerState
    /\ [Idle EXCEPT !.st = "hung"] \in CallerState
    /\ \A b \in BOOLEAN, c \in BOOLEAN : FreshTab(b, c) \in TabState
BY DEF NoFlight, FlightState, FlightIsClean, Idle, CallerState, FreshTab, TabState, Failure

LEMMA SentIs ==
    ASSUME NEW token \in Token \cup {"outlived"}
    PROVE  /\ Sent(token) \in CallerState /\ Sent(token).st = "sent"
           /\ Resent(token) \in CallerState /\ Resent(token).st = "resent"
           /\ token \in {"valid", "outlived"} => Resent(token).tok # "none"
BY DEF Sent, Resent, Idle, Bearing, CallerState, Token

\* The fresh callers of a page.
LEMMA FreshCallersAre ==
    /\ FreshCallers \in [Callers -> CallerState]
    /\ \A k \in Callers : FreshCallers[k].st \in {"start", "idle"}
BY RecordsAre DEF FreshCallers, CallerState

LEMMA InitIInv == Init => IInv
<1>. SUFFICES ASSUME Init PROVE IInv
  OBVIOUS
<1>1. FlightsOK
  <2>1. \A t \in Tabs : InFlight(t) = {}
    BY RecordsAre DEF Init, InFlight
  <2>. QED
    BY <2>1, RecordsAre DEF Init, FlightsOK
<1>2. CallersOK
  BY FreshCallersAre DEF Init, CallersOK, RetryBears
<1>3. RestOK
  <2>1. \A t \in Tabs : tab[t] = FreshTab(FALSE, FALSE)
    BY DEF Init
  <2>2. FreshTab(FALSE, FALSE).modal = "no"
    BY DEF FreshTab
  <2>3. live \in BOOLEAN /\ jarCurrent \in BOOLEAN /\ stored \in Token /\ late \in BOOLEAN
    BY DEF Init, Token
  <2>. QED
    BY <2>1, <2>2, <2>3, RecordsAre DEF Init, RestOK, ModalHasCause
<1>. QED
  BY <1>1, <1>2, <1>3 DEF IInv

-----------------------------------------------------------------------------
(* Steps, by what they change. *)

\* A step that leaves the flights alone and changes one caller, not into waiting.
LEMMA CallerStep ==
    ASSUME FlightsOK, CallersOK, UNCHANGED flight,
           NEW t \in Tabs, NEW k \in Callers, NEW r \in CallerState,
           r.st # "waiting", RetryBears(r), caller' = [caller EXCEPT ![t][k] = r]
    PROVE  FlightsOK' /\ CallersOK'
<1>1. \A u \in Tabs : InFlight(u)' = InFlight(u)
  BY DEF InFlight
<1>2. FlightsOK'
  BY <1>1 DEF FlightsOK
<1>3. caller' \in [Tabs -> [Callers -> CallerState]]
  BY DEF CallersOK
<1>4. caller'[t][k] = r
  BY DEF CallersOK
<1>5. \A u \in Tabs : \A j \in Callers : u # t \/ j # k => caller'[u][j] = caller[u][j]
  BY DEF CallersOK
<1>. QED
  BY <1>1, <1>2, <1>3, <1>4, <1>5 DEF CallersOK

LEMMA NothingSent ==
    ASSUME FlightsOK, CallersOK, UNCHANGED <<flight, caller>>
    PROVE  FlightsOK' /\ CallersOK'
BY DEF FlightsOK, CallersOK, InFlight

\* A step that changes at most one tab.
LEMMA TabStep ==
    ASSUME RestOK, NEW t \in Tabs, NEW r \in TabState, r.modal # "unexplained",
           tab' = [tab EXCEPT ![t] = r],
           live' \in BOOLEAN, jarCurrent' \in BOOLEAN, stored' \in Token, late' \in BOOLEAN
    PROVE  RestOK'
<1>1. tab' \in [Tabs -> TabState]
  BY DEF RestOK
<1>2. \A u \in Tabs : tab'[u].modal # "unexplained"
  BY DEF RestOK, ModalHasCause
<1>. QED
  BY <1>1, <1>2 DEF RestOK, ModalHasCause

LEMMA TabsKept ==
    ASSUME RestOK, UNCHANGED tab,
           live' \in BOOLEAN, jarCurrent' \in BOOLEAN, stored' \in Token, late' \in BOOLEAN
    PROVE  RestOK'
BY DEF RestOK, ModalHasCause

\* Joining or starting the tab's refresh: only a tab with none in flight starts
\* one, so the cookie is not one it has just rotated.
LEMMA AwaitStep ==
    ASSUME FlightsOK, CallersOK, NEW t \in Tabs, NEW k \in Callers, NEW first \in BOOLEAN,
           AwaitRefresh(t, k, first)
    PROVE  FlightsOK' /\ CallersOK'
<1>. DEFINE leader == IF InFlight(t) = {} THEN k ELSE CHOOSE j \in InFlight(t) : TRUE
            w == [st |-> "waiting", tok |-> "none", first |-> first, on |-> leader]
<1>1. leader \in Callers /\ (InFlight(t) # {} => leader \in InFlight(t))
  BY DEF InFlight
<1>2. w \in CallerState /\ w.st = "waiting" /\ w.on = leader
  BY <1>1 DEF CallerState
<1>3. caller' = [caller EXCEPT ![t][k] = w]
  BY DEF AwaitRefresh
<1>. HIDE DEF w, leader
<1>4. caller' \in [Tabs -> [Callers -> CallerState]]
  BY <1>2, <1>3 DEF CallersOK
<1>5. caller'[t][k] = w /\ \A u \in Tabs : \A j \in Callers :
         u # t \/ j # k => caller'[u][j] = caller[u][j]
  BY <1>3 DEF CallersOK
<1>6. CASE InFlight(t) # {}
  <2>1. flight' = flight
    BY <1>6 DEF AwaitRefresh
  <2>2. \A u \in Tabs : InFlight(u)' = InFlight(u)
    BY <2>1 DEF InFlight
  <2>3. FlightsOK'
    BY <2>1, <2>2 DEF FlightsOK
  <2>4. \A u \in Tabs : \A j \in Callers :
           RetryBears(caller'[u][j]) /\ (caller'[u][j].st = "waiting" => caller'[u][j].on \in InFlight(u)')
    BY <1>1, <1>2, <1>5, <1>6, <2>2 DEF CallersOK, RetryBears
  <2>. QED
    BY <1>4, <2>3, <2>4 DEF CallersOK
<1>7. CASE InFlight(t) = {}
  <2>. DEFINE f == [NoFlight EXCEPT !.st = "sent", !.cookie = Cookie(t)]
  <2>1. leader = k
    BY <1>7 DEF leader
  <2>2. flight' = [flight EXCEPT ![t][k] = f]
    BY <1>7 DEF AwaitRefresh, StartRefresh
  <2>3. Cookie(t) \in {"current", "stale"}
    BY <1>7 DEF Cookie, InFlight
  <2>4. f \in FlightState /\ FlightIsClean(f) /\ f.st = "sent"
    BY <2>3 DEF NoFlight, FlightState, FlightIsClean
  <2>. HIDE DEF f
  <2>5. flight' \in [Tabs -> [Callers -> FlightState]]
    BY <2>2, <2>4 DEF FlightsOK
  <2>6. flight'[t][k] = f /\ \A u \in Tabs : \A j \in Callers :
           u # t \/ j # k => flight'[u][j] = flight[u][j]
    BY <2>2 DEF FlightsOK
  <2>7. InFlight(t)' = {k}
    BY <1>7, <2>4, <2>6 DEF InFlight
  <2>8. \A u \in Tabs \ {t} : InFlight(u)' = InFlight(u)
    BY <2>6 DEF InFlight
  <2>9. FlightsOK'
    BY <2>4, <2>5, <2>6, <2>7, <2>8 DEF FlightsOK
  <2>10. \A j \in Callers \ {k} : caller[t][j].st # "waiting"
    BY <1>7 DEF CallersOK
  <2>11. \A u \in Tabs : \A j \in Callers :
           RetryBears(caller'[u][j]) /\ (caller'[u][j].st = "waiting" => caller'[u][j].on \in InFlight(u)')
    BY <1>2, <1>5, <2>1, <2>7, <2>8, <2>10 DEF CallersOK, RetryBears
  <2>. QED
    BY <1>4, <2>9, <2>11 DEF CallersOK
<1>. QED
  BY <1>6, <1>7

\* A step that leaves the callers alone and keeps what is in flight in flight.
LEMMA FlightStep ==
    ASSUME FlightsOK, CallersOK, UNCHANGED caller,
           flight' \in [Tabs -> [Callers -> FlightState]],
           \A u \in Tabs : \A j \in Callers :
              FlightIsClean(flight'[u][j]) /\ (flight'[u][j].st = "none" <=> flight[u][j].st = "none")
    PROVE  FlightsOK' /\ CallersOK'
<1>1. \A u \in Tabs : InFlight(u)' = InFlight(u)
  BY DEF InFlight
<1>. QED
  BY <1>1 DEF FlightsOK, CallersOK

-----------------------------------------------------------------------------
(* The refresh. *)

\* Granting a refresh makes every other flight with that cookie stale; none of
\* them is of the same tab.
LEMMA AnsweredKeeps ==
    ASSUME IInv, NEW t \in Tabs, NEW k \in Callers, RefreshAnswered(t, k)
    PROVE  IInv'
<1>. USE DEF IInv
<1>1. k \in InFlight(t) /\ flight[t][k] \in FlightState
  <2>1. flight[t][k].st = "sent"
    BY DEF RefreshAnswered
  <2>. QED
    BY <2>1 DEF InFlight, FlightsOK
<1>2. CASE live /\ flight[t][k].cookie = "current"
  <2>. DEFINE New(u, j) == IF u = t /\ j = k
                             THEN [flight[u][j] EXCEPT !.st = "granted", !.tok = "valid"]
                             ELSE IF flight[u][j].cookie = "current"
                             THEN [flight[u][j] EXCEPT !.cookie = IF u = t THEN "self" ELSE "stale"]
                             ELSE flight[u][j]
  <2>1. flight' = [u \in Tabs |-> [j \in Callers |-> New(u, j)]]
    BY <1>2 DEF RefreshAnswered
  <2>2. ASSUME NEW u \in Tabs, NEW j \in Callers
        PROVE  /\ New(u, j) \in FlightState /\ FlightIsClean(New(u, j))
               /\ New(u, j).st = "none" <=> flight[u][j].st = "none"
    <3>1. flight[u][j] \in FlightState /\ FlightIsClean(flight[u][j])
      BY DEF FlightsOK
    <3>2. CASE u = t /\ j = k
      BY <3>1, <3>2 DEF FlightState, FlightIsClean, RefreshAnswered
    <3>3. CASE u = t /\ j # k
      <4>1. flight[u][j].st = "none"
        BY <1>1, <3>3 DEF FlightsOK, InFlight
      <4>. QED
        BY <3>1, <3>3, <4>1 DEF FlightState, FlightIsClean
    <3>4. CASE u # t
      BY <3>1, <3>4 DEF FlightState, FlightIsClean
    <3>. QED
      BY <3>2, <3>3, <3>4
  <2>. HIDE DEF New
  <2>3. flight' \in [Tabs -> [Callers -> FlightState]]
    BY <2>1, <2>2
  <2>4. FlightsOK' /\ CallersOK'
    BY <2>1, <2>2, <2>3, FlightStep DEF RefreshAnswered
  <2>5. jarCurrent' \in BOOLEAN
    BY <1>2 DEF RefreshAnswered
  <2>6. RestOK'
    BY <2>5, TabsKept DEF RefreshAnswered, RestOK
  <2>. QED
    BY <2>4, <2>6
<1>3. CASE ~ (live /\ flight[t][k].cookie = "current")
  <2>. DEFINE why == IF live THEN flight[t][k].cookie ELSE "revoked"
              f == [flight[t][k] EXCEPT !.st = why]
  <2>1. flight' = [flight EXCEPT ![t][k].st = why] /\ UNCHANGED jarCurrent
    BY <1>3 DEF RefreshAnswered
  <2>2. FlightIsClean(flight[t][k]) /\ flight[t][k].st = "sent"
    BY DEF FlightsOK, RefreshAnswered
  <2>3. why \in {"stale", "revoked"}
    BY <1>1, <1>3, <2>2 DEF FlightState, FlightIsClean
  <2>4. f \in FlightState /\ FlightIsClean(f) /\ f.st # "none"
    BY <1>1, <2>3 DEF FlightState, FlightIsClean, Failure
  <2>5. flight' = [flight EXCEPT ![t][k] = f]
    BY <2>1 DEF FlightsOK
  <2>. HIDE DEF f
  <2>6. flight' \in [Tabs -> [Callers -> FlightState]]
    BY <2>4, <2>5 DEF FlightsOK
  <2>7. \A u \in Tabs : \A j \in Callers :
           FlightIsClean(flight'[u][j]) /\ (flight'[u][j].st = "none" <=> flight[u][j].st = "none")
    BY <2>2, <2>4, <2>5 DEF FlightsOK
  <2>8. FlightsOK' /\ CallersOK'
    BY <2>6, <2>7, FlightStep DEF RefreshAnswered
  <2>9. RestOK'
    BY <2>1, TabsKept DEF RefreshAnswered, RestOK
  <2>. QED
    BY <2>8, <2>9
<1>. QED
  BY <1>2, <1>3

LEMMA LostKeeps ==
    ASSUME IInv, NEW t \in Tabs, NEW k \in Callers, RefreshLost(t, k)
    PROVE  IInv'
<1>. USE DEF IInv
<1>. DEFINE f == [NoFlight EXCEPT !.st = "network"]
<1>1. f \in FlightState /\ FlightIsClean(f) /\ f.st # "none"
  BY DEF NoFlight, FlightState, FlightIsClean, Failure
<1>2. flight' = [flight EXCEPT ![t][k] = f] /\ flight[t][k].st # "none"
  BY DEF RefreshLost
<1>. HIDE DEF f
<1>3. flight' \in [Tabs -> [Callers -> FlightState]]
  BY <1>1, <1>2 DEF FlightsOK
<1>4. \A u \in Tabs : \A j \in Callers :
         FlightIsClean(flight'[u][j]) /\ (flight'[u][j].st = "none" <=> flight[u][j].st = "none")
  BY <1>1, <1>2 DEF FlightsOK
<1>5. FlightsOK' /\ CallersOK'
  BY <1>3, <1>4, FlightStep DEF RefreshLost
<1>6. RestOK'
  BY TabsKept DEF RefreshLost, RestOK
<1>. QED
  BY <1>5, <1>6

\* Whoever awaited the flight goes on; nobody else waits in the tab.
LEMMA SettledFlights ==
    ASSUME FlightsOK, CallersOK, NEW t \in Tabs, NEW k \in InFlight(t),
           NEW next, \A j \in Awaiting(t, k) :
              next[j] \in CallerState /\ next[j].st # "waiting" /\ RetryBears(next[j]),
           flight' = [flight EXCEPT ![t][k] = NoFlight],
           caller' = [caller EXCEPT ![t] = [j \in Callers |->
                         IF j \in Awaiting(t, k) THEN next[j] ELSE caller[t][j]]]
    PROVE  FlightsOK' /\ CallersOK'
<1>. USE DEF FlightsOK, CallersOK
<1>1. k \in Callers /\ InFlight(t) = {k}
  BY DEF InFlight
<1>2. flight' \in [Tabs -> [Callers -> FlightState]]
  BY <1>1, RecordsAre
<1>3. flight'[t][k] = NoFlight /\ \A u \in Tabs : \A j \in Callers :
         u # t \/ j # k => flight'[u][j] = flight[u][j]
  BY <1>1
<1>4. InFlight(t)' = {}
  BY <1>1, <1>3, RecordsAre DEF InFlight
<1>5. \A u \in Tabs \ {t} : InFlight(u)' = InFlight(u)
  BY <1>3 DEF InFlight
<1>6. FlightsOK'
  <2>1. \A u \in Tabs : \A j \in Callers : FlightIsClean(flight'[u][j])
    BY <1>3, RecordsAre
  <2>2. \A u \in Tabs : \A i, j \in InFlight(u)' : i = j
    BY <1>4, <1>5
  <2>. QED
    BY <1>2, <2>1, <2>2
<1>7. caller' \in [Tabs -> [Callers -> CallerState]]
  BY <1>1
<1>8. \A j \in Callers : caller'[t][j] = IF j \in Awaiting(t, k) THEN next[j] ELSE caller[t][j]
  BY <1>1
<1>9. \A j \in Callers : caller[t][j].st = "waiting" => j \in Awaiting(t, k)
  BY <1>1 DEF Awaiting
<1>10. \A j \in Callers : RetryBears(caller'[t][j]) /\ caller'[t][j].st # "waiting"
  BY <1>8, <1>9
<1>11. \A u \in Tabs \ {t} : caller'[u] = caller[u]
  BY <1>1
<1>. QED
  BY <1>5, <1>6, <1>7, <1>10, <1>11

LEMMA ModalIs ==
    ASSUME RestOK, NEW t \in Tabs, NEW why \in Failure \cup {"expired"}
    PROVE  Modal(t, why) \in Failure \cup {"no", "expired"}
BY DEF RestOK, Modal, TabState, ModalHasCause, Failure

LEMMA SettlesKeeps ==
    ASSUME IInv, NEW t \in Tabs, NEW k \in Callers, RefreshSettles(t, k)
    PROVE  IInv'
<1>. USE DEF IInv
<1>1. k \in InFlight(t) /\ FlightIsClean(flight[t][k]) /\ flight[t][k] \in FlightState
  BY DEF RefreshSettles, InFlight, FlightsOK, Failure
<1>2. flight' = [flight EXCEPT ![t][k] = NoFlight]
  BY DEF RefreshSettles
<1>3. CASE flight[t][k].st = "granted"
  <2>. DEFINE token == flight[t][k].tok
  <2>1. token \in {"valid", "outlived"}
    BY <1>1, <1>3 DEF FlightState, FlightIsClean
  <2>2. \A j \in Callers : /\ Resumed(t, token)[j] \in CallerState
                           /\ Resumed(t, token)[j].st # "waiting"
                           /\ RetryBears(Resumed(t, token)[j])
    <3>1. /\ Sent(token) \in CallerState /\ Sent(token).st = "sent"
          /\ Resent(token) \in CallerState /\ Resent(token).st = "resent"
          /\ Resent(token).tok # "none"
      BY <2>1, SentIs DEF Token
    <3>2. \A j \in Callers : Resumed(t, token)[j] \in {Sent(token), Resent(token)}
      BY DEF Resumed
    <3>. QED
      BY <3>1, <3>2 DEF RetryBears
  <2>3. Awaiting(t, k) \subseteq Callers
    BY DEF Awaiting
  <2>4. caller' = [caller EXCEPT ![t] = [j \in Callers |->
                     IF j \in Awaiting(t, k) THEN Resumed(t, token)[j] ELSE caller[t][j]]]
    BY <1>3 DEF RefreshSettles
  <2>5. FlightsOK' /\ CallersOK'
    BY <1>1, <1>2, <2>2, <2>3, <2>4, SettledFlights
  <2>6. UNCHANGED <<tab, live>> /\ stored' \in Token /\ jarCurrent' \in BOOLEAN /\ late' \in BOOLEAN
    BY <1>3 DEF RefreshSettles, Token, RestOK
  <2>7. RestOK'
    BY <2>6, TabsKept DEF RestOK
  <2>. QED
    BY <2>5, <2>7
<1>4. CASE flight[t][k].st # "granted"
  <2>1. \A j \in Callers : RetryBears(Idle)
    BY RecordsAre DEF RetryBears
  <2>. DEFINE next == [j \in Callers |-> Idle]
  <2>2. Awaiting(t, k) \subseteq Callers
    BY DEF Awaiting
  <2>3. caller' = [caller EXCEPT ![t] = [j \in Callers |->
                     IF j \in Awaiting(t, k) THEN next[j] ELSE caller[t][j]]]
    BY <1>4, <2>2 DEF RefreshSettles
  <2>4. \A j \in Awaiting(t, k) :
          next[j] \in CallerState /\ next[j].st # "waiting" /\ RetryBears(next[j])
    BY <2>1, <2>2, RecordsAre
  <2>. HIDE DEF next
  <2>5. FlightsOK' /\ CallersOK'
    BY <1>1, <1>2, <2>3, <2>4, SettledFlights
  <2>. DEFINE m == IF Awaiting(t, k) \cap Calls = {} THEN tab[t].modal
                   ELSE Modal(t, flight[t][k].st)
              u == tab[t].user /\ Loader \notin Awaiting(t, k)
              l == tab[t].loading /\ Loader \notin Awaiting(t, k)
              r == [tab[t] EXCEPT !.user = u, !.loading = l, !.modal = m]
  <2>6. flight[t][k].st \in Failure
    BY <1>4 DEF RefreshSettles
  <2>7. m \in Failure \cup {"no", "expired"}
    BY <2>6, ModalIs DEF RestOK, TabState, ModalHasCause, Failure
  <2>8. u \in BOOLEAN /\ l \in BOOLEAN
    OBVIOUS
  <2>9. tab' = [tab EXCEPT ![t] = r]
    BY <1>4 DEF RefreshSettles, RestOK
  <2>. HIDE DEF m, u, l
  <2>10. r \in TabState /\ r.modal # "unexplained"
    BY <2>7, <2>8 DEF RestOK, TabState, Failure
  <2>11. UNCHANGED <<live, jarCurrent, late>> /\ stored' \in Token
    BY <1>4 DEF RefreshSettles, Token, RestOK
  <2>. HIDE DEF r
  <2>12. RestOK'
    BY <2>9, <2>10, <2>11, TabStep DEF RestOK
  <2>. QED
    BY <2>5, <2>12
<1>. QED
  BY <1>3, <1>4

-----------------------------------------------------------------------------
(* The callers. *)

LEMMA CallerIsTyped ==
    ASSUME RestOK
    PROVE  live \in BOOLEAN /\ jarCurrent \in BOOLEAN /\ stored \in Token /\ late \in BOOLEAN
BY DEF RestOK

LEMMA SendingKeeps ==
    ASSUME IInv, NEW t \in Tabs, LoadUser(t) \/ \E c \in Calls : SendCall(t, c)
    PROVE  IInv'
<1>. USE DEF IInv
<1>1. Sent(stored) \in CallerState /\ Sent(stored).st = "sent" /\ RetryBears(Sent(stored))
  BY SentIs, CallerIsTyped DEF RetryBears
<1>2. RestOK'
  BY TabsKept, CallerIsTyped DEF LoadUser, SendCall
<1>3. CASE LoadUser(t) /\ stored = "none"
  BY <1>2, <1>3, AwaitStep DEF LoadUser, Callers
<1>4. CASE LoadUser(t) /\ stored # "none"
  <2>1. caller' = [caller EXCEPT ![t][Loader] = Sent(stored)] /\ UNCHANGED flight
    BY <1>4 DEF LoadUser
  <2>. QED
    BY <1>1, <1>2, <2>1, CallerStep DEF Callers
<1>5. ASSUME NEW c \in Calls, SendCall(t, c) PROVE IInv'
  BY <1>1, <1>2, <1>5, CallerStep DEF SendCall, Callers
<1>. QED
  BY <1>3, <1>4, <1>5

LEMMA RefusedKeeps ==
    ASSUME IInv, NEW t \in Tabs, NEW k \in Callers, Refused(t, k)
    PROVE  IInv'
<1>. USE DEF IInv
<1>1. FlightsOK' /\ CallersOK'
  BY AwaitStep DEF Refused
<1>2. RestOK'
  BY TabsKept, CallerIsTyped DEF Refused
<1>. QED
  BY <1>1, <1>2

\* An answer, or its loss, leaves the caller idle, or the loader hung.
LEMMA AnswerKeeps ==
    ASSUME IInv, NEW t \in Tabs, NEW k \in Callers,
           Accepted(t, k) \/ RefusedAgain(t, k) \/ RequestLost(t, k)
    PROVE  IInv'
<1>. USE DEF IInv
<1>1. tab[t] \in TabState /\ tab[t].modal # "unexplained"
  BY DEF RestOK, ModalHasCause
<1>2. PICK x \in {Idle, [Idle EXCEPT !.st = "hung"]} :
         caller' = [caller EXCEPT ![t][k] = x]
  BY DEF Accepted, RefusedAgain, RequestLost
<1>3. x \in CallerState /\ x.st # "waiting" /\ RetryBears(x)
  BY RecordsAre DEF RetryBears, Idle
<1>4. UNCHANGED <<live, jarCurrent, stored, flight, late>>
  BY DEF Accepted, RefusedAgain, RequestLost
<1>5. FlightsOK' /\ CallersOK'
  BY <1>2, <1>3, <1>4, CallerStep
<1>6. CASE RequestLost(t, k) \/ (Accepted(t, k) /\ k # Loader)
  <2>1. UNCHANGED tab
    BY <1>6 DEF RequestLost, Accepted
  <2>. QED
    BY <1>4, <1>5, <2>1, TabsKept, CallerIsTyped
<1>7. CASE Accepted(t, k) /\ k = Loader
  <2>. DEFINE n == [tab[t] EXCEPT !.user = TRUE, !.loading = FALSE,
                                  !.signedOut = FALSE, !.revoked = FALSE]
  <2>1. tab' = [tab EXCEPT ![t] = n]
    BY <1>7 DEF Accepted
  <2>2. n \in TabState /\ n.modal = tab[t].modal
    BY <1>1 DEF TabState
  <2>. HIDE DEF n
  <2>. QED
    BY <1>1, <1>4, <1>5, <2>1, <2>2, TabStep, CallerIsTyped
<1>8. CASE RefusedAgain(t, k) /\ k = Loader
  <2>. DEFINE n == [tab[t] EXCEPT !.user = FALSE, !.loading = FALSE]
  <2>1. tab' = [tab EXCEPT ![t] = n]
    BY <1>8 DEF RefusedAgain
  <2>2. n \in TabState /\ n.modal = tab[t].modal
    BY <1>1 DEF TabState
  <2>. HIDE DEF n
  <2>. QED
    BY <1>1, <1>4, <1>5, <2>1, <2>2, TabStep, CallerIsTyped
<1>9. CASE RefusedAgain(t, k) /\ k # Loader
  <2>1. caller[t][k].tok = "outlived"
    <3>1. caller[t][k] \in CallerState /\ RetryBears(caller[t][k])
      BY DEF CallersOK
    <3>. QED
      BY <1>9, <3>1 DEF RefusedAgain, RetryBears, CallerState
  <2>. DEFINE m == Modal(t, "expired")
              n == [tab[t] EXCEPT !.modal = m]
  <2>2. m \in Failure \cup {"no", "expired"}
    BY ModalIs
  <2>3. tab' = [tab EXCEPT ![t] = n]
    BY <1>9, <2>1 DEF RefusedAgain, RestOK
  <2>. HIDE DEF m
  <2>4. n \in TabState /\ n.modal # "unexplained"
    BY <2>2 DEF RestOK, TabState, Failure
  <2>. HIDE DEF n
  <2>. QED
    BY <1>4, <1>5, <2>3, <2>4, TabStep, CallerIsTyped
<1>. QED
  BY <1>6, <1>7, <1>8, <1>9

-----------------------------------------------------------------------------
(* Signing out and in, and the page. *)

LEMMA LeavingKeeps ==
    ASSUME IInv, NEW t \in Tabs,
           \/ Logout(t) \/ SignOut(t) \/ DismissSessionExpired(t)
           \/ Revoked(t) \/ RevocationSkipped(t) \/ SignOutContinues(t)
    PROVE  IInv'
<1>. USE DEF IInv
<1>. DEFINE Step(r) == tab' = [tab EXCEPT ![t] = r]
<1>1. UNCHANGED <<flight, caller, late>>
  BY DEF Logout, SignOut, DismissSessionExpired, Revoked, RevocationSkipped, SignOutContinues
<1>2. live' \in BOOLEAN /\ jarCurrent' \in BOOLEAN /\ stored' \in Token
  BY CallerIsTyped DEF Logout, SignOut, DismissSessionExpired, Revoked, RevocationSkipped,
     SignOutContinues, ClearAuth, Token
<1>3. FlightsOK' /\ CallersOK' /\ late' \in BOOLEAN
  BY <1>1, NothingSent, CallerIsTyped
<1>4. \E r \in TabState : r.modal # "unexplained" /\ Step(r)
  <2>. DEFINE a == [tab[t] EXCEPT !.user = FALSE, !.leaving = TRUE,
                                  !.signedOut = TRUE, !.revoking = (stored = "valid")]
              b == [tab[t] EXCEPT !.signingOut = TRUE, !.revoking = (stored = "valid")]
              c == [tab[t] EXCEPT !.user = FALSE, !.modal = "no", !.leaving = TRUE]
              d == [tab[t] EXCEPT !.revoking = FALSE, !.revoked = TRUE]
              e == [tab[t] EXCEPT !.revoking = FALSE]
              f == [tab[t] EXCEPT !.user = FALSE, !.modal = "no",
                                  !.leaving = TRUE, !.signedOut = TRUE]
  <2>1. tab[t] \in TabState /\ tab[t].modal # "unexplained"
    BY DEF RestOK, ModalHasCause
  <2>2. a \in TabState /\ a.modal = tab[t].modal /\ b \in TabState /\ b.modal = tab[t].modal
    BY <2>1 DEF TabState
  <2>3. c \in TabState /\ c.modal = "no" /\ f \in TabState /\ f.modal = "no"
    BY <2>1 DEF TabState
  <2>4. d \in TabState /\ d.modal = tab[t].modal /\ e \in TabState /\ e.modal = tab[t].modal
    BY <2>1 DEF TabState
  <2>5. \/ Step(a) \/ Step(b) \/ Step(c) \/ Step(d) \/ Step(e) \/ Step(f)
    BY DEF Logout, SignOut, DismissSessionExpired, Revoked, RevocationSkipped, SignOutContinues
  <2>. HIDE DEF a, b, c, d, e, f, Step
  <2>. QED
    BY <2>1, <2>2, <2>3, <2>4, <2>5
<1>5. RestOK'
  BY <1>2, <1>3, <1>4, TabStep
<1>. QED
  BY <1>3, <1>5

LEMMA PollKeeps ==
    ASSUME IInv, NEW t \in Tabs, PollUser(t) \/ PollAnswered(t) \/ PollFails(t)
    PROVE  IInv'
<1>. USE DEF IInv
<1>1. UNCHANGED <<live, jarCurrent, stored, caller, flight, late>>
  BY DEF PollUser, PollAnswered, PollFails
<1>2. tab[t] \in TabState /\ tab[t].modal # "unexplained"
  BY DEF RestOK, ModalHasCause
<1>. DEFINE a == [tab[t] EXCEPT !.polling = TRUE]
            b == [tab[t] EXCEPT !.polling = FALSE, !.user = TRUE]
            c == [tab[t] EXCEPT !.polling = FALSE]
<1>3. PICK r \in {a, b, c} : tab' = [tab EXCEPT ![t] = r]
  BY DEF PollUser, PollAnswered, PollFails
<1>4. r \in TabState /\ r.modal = tab[t].modal
  BY <1>2 DEF TabState
<1>5. RestOK'
  BY <1>1, <1>2, <1>3, <1>4, TabStep, CallerIsTyped
<1>. QED
  BY <1>1, <1>5, NothingSent

\* A page that goes takes its callers and its flights with it.
LEMMA LoadPageKeeps ==
    ASSUME IInv, NEW t \in Tabs, LoadPage(t)
    PROVE  IInv'
<1>. USE DEF IInv
<1>. DEFINE n == FreshTab(tab[t].signedOut, tab[t].signedOut /\ tab[t].revoked)
<1>1. n \in TabState /\ n.modal = "no"
  BY RecordsAre DEF RestOK, TabState, FreshTab
<1>2. RestOK'
  <2>1. tab' = [tab EXCEPT ![t] = n]
    BY DEF LoadPage
  <2>. HIDE DEF n
  <2>. QED
    BY <1>1, <2>1, TabStep, CallerIsTyped DEF LoadPage
<1>3. flight' = [flight EXCEPT ![t] = [k \in Callers |-> NoFlight]]
      /\ caller' = [caller EXCEPT ![t] = FreshCallers]
  BY DEF LoadPage
<1>4. flight' \in [Tabs -> [Callers -> FlightState]] /\ caller' \in [Tabs -> [Callers -> CallerState]]
  BY <1>3, RecordsAre, FreshCallersAre DEF FlightsOK, CallersOK
<1>5. \A u \in Tabs \ {t} : flight'[u] = flight[u] /\ caller'[u] = caller[u]
  BY <1>3 DEF FlightsOK, CallersOK
<1>6. \A k \in Callers : flight'[t][k] = NoFlight /\ caller'[t][k].st \in {"start", "idle"}
  BY <1>3, FreshCallersAre DEF FlightsOK, CallersOK
<1>7. InFlight(t)' = {} /\ \A u \in Tabs \ {t} : InFlight(u)' = InFlight(u)
  BY <1>5, <1>6, RecordsAre DEF InFlight
<1>8. FlightsOK'
  <2>1. \A u \in Tabs : \A j \in Callers : FlightIsClean(flight'[u][j])
    BY <1>5, <1>6, RecordsAre DEF FlightsOK
  <2>2. \A u \in Tabs : \A i, j \in InFlight(u)' : i = j
    BY <1>7 DEF FlightsOK
  <2>. QED
    BY <1>4, <2>1, <2>2 DEF FlightsOK
<1>9. CallersOK'
  <2>1. \A k \in Callers : RetryBears(caller'[t][k]) /\ caller'[t][k].st # "waiting"
    BY <1>6 DEF RetryBears
  <2>. QED
    BY <1>4, <1>5, <1>7, <2>1 DEF CallersOK
<1>. QED
  BY <1>2, <1>8, <1>9

LEMMA SignedInIs ==
    ASSUME RestOK, NEW u \in Tabs
    PROVE  SignedIn(u) \in TabState /\ SignedIn(u).modal # "unexplained"
BY DEF RestOK, SignedIn, TabState, ModalHasCause

LEMMA SignInKeeps ==
    ASSUME IInv, NEW t \in Tabs, SignIn(t) \/ EmailLogin(t)
    PROVE  IInv'
<1>. USE DEF IInv
<1>1. live' \in BOOLEAN /\ jarCurrent' \in BOOLEAN /\ stored' \in Token /\ late' \in BOOLEAN
  BY DEF SignIn, EmailLogin, Token
<1>2. UNCHANGED flight
  BY DEF SignIn, EmailLogin
<1>3. CASE SignIn(t)
  <2>1. FreshTab(FALSE, FALSE) \in TabState /\ FreshTab(FALSE, FALSE).modal = "no"
    BY RecordsAre DEF FreshTab
  <2>2. tab' \in [Tabs -> TabState] /\ \A u \in Tabs : tab'[u].modal # "unexplained"
    BY <1>3, <2>1, SignedInIs DEF SignIn
  <2>3. caller' = [caller EXCEPT ![t] = FreshCallers]
    BY <1>3 DEF SignIn
  <2>4. caller' \in [Tabs -> [Callers -> CallerState]]
    BY <2>3, FreshCallersAre DEF CallersOK
  <2>5. \A k \in Callers : caller'[t][k].st \in {"start", "idle"}
    BY <2>3, FreshCallersAre DEF CallersOK
  <2>6. \A u \in Tabs \ {t} : caller'[u] = caller[u]
    BY <2>3 DEF CallersOK
  <2>7. \A u \in Tabs : InFlight(u)' = InFlight(u)
    BY <1>2 DEF InFlight
  <2>8. FlightsOK'
    BY <1>2, <2>7 DEF FlightsOK
  <2>9. CallersOK'
    BY <2>4, <2>5, <2>6, <2>7 DEF CallersOK, RetryBears
  <2>. QED
    BY <1>1, <2>2, <2>8, <2>9 DEF RestOK, ModalHasCause
<1>4. CASE EmailLogin(t)
  <2>1. FlightsOK' /\ CallersOK'
    BY <1>4, NothingSent DEF EmailLogin
  <2>2. ASSUME NEW u \in Tabs
        PROVE  tab'[u] \in TabState /\ tab'[u].modal # "unexplained"
    <3>1. tab'[u] = [SignedIn(u) EXCEPT !.entered = @ \/ u = t]
      BY <1>4 DEF EmailLogin
    <3>. QED
      BY <3>1, SignedInIs DEF TabState
  <2>3. tab' \in [Tabs -> TabState]
    BY <1>4, <2>2 DEF EmailLogin
  <2>. QED
    BY <1>1, <2>1, <2>2, <2>3 DEF RestOK, ModalHasCause
<1>. QED
  BY <1>3, <1>4

\* A token that ends its life takes nothing from a retry but its being good.
LEMMA ExpiryKeeps == IInv /\ AccessTokensExpire => IInv'
<1>. SUFFICES ASSUME IInv, AccessTokensExpire PROVE IInv'
  OBVIOUS
<1>. USE DEF IInv
<1>1. ASSUME NEW t \in Tabs, NEW k \in Callers
      PROVE  /\ flight'[t][k] \in FlightState /\ FlightIsClean(flight'[t][k])
             /\ flight'[t][k].st = flight[t][k].st
             /\ caller'[t][k] \in CallerState /\ RetryBears(caller'[t][k])
             /\ caller'[t][k].st = caller[t][k].st /\ caller'[t][k].on = caller[t][k].on
  <2>1. flight[t][k] \in FlightState /\ FlightIsClean(flight[t][k])
        /\ caller[t][k] \in CallerState /\ RetryBears(caller[t][k])
    BY DEF FlightsOK, CallersOK
  <2>2. flight'[t][k] = Outlived(flight[t][k]) /\ caller'[t][k] = Outlived(caller[t][k])
    BY DEF AccessTokensExpire
  <2>3. /\ Outlived(flight[t][k]) \in FlightState /\ FlightIsClean(Outlived(flight[t][k]))
        /\ Outlived(flight[t][k]).st = flight[t][k].st
    BY <2>1 DEF Outlived, FlightState, FlightIsClean
  <2>4. /\ Outlived(caller[t][k]) \in CallerState /\ RetryBears(Outlived(caller[t][k]))
        /\ Outlived(caller[t][k]).st = caller[t][k].st
        /\ Outlived(caller[t][k]).on = caller[t][k].on
    BY <2>1 DEF Outlived, CallerState, RetryBears
  <2>. QED
    BY <2>2, <2>3, <2>4
<1>2. flight' \in [Tabs -> [Callers -> FlightState]] /\ caller' \in [Tabs -> [Callers -> CallerState]]
  BY <1>1 DEF AccessTokensExpire
<1>3. \A u \in Tabs : InFlight(u)' = InFlight(u)
  BY <1>1 DEF InFlight
<1>4. FlightsOK' /\ CallersOK'
  <2>1. FlightsOK'
    BY <1>1, <1>2, <1>3 DEF FlightsOK
  <2>2. \A t \in Tabs : \A k \in Callers :
           caller'[t][k].st = "waiting" => caller'[t][k].on \in InFlight(t)'
    BY <1>1, <1>3 DEF CallersOK
  <2>. QED
    BY <1>1, <1>2, <2>1, <2>2 DEF CallersOK
<1>5. \A t \in Tabs : tab'[t] = [tab[t] EXCEPT !.revoking = FALSE]
  BY DEF AccessTokensExpire
<1>6. \A t \in Tabs : tab'[t] \in TabState /\ tab'[t].modal # "unexplained"
  <2>1. ASSUME NEW t \in Tabs
        PROVE  tab'[t] \in TabState /\ tab'[t].modal # "unexplained"
    <3>1. tab[t] \in TabState /\ tab[t].modal # "unexplained"
      BY DEF RestOK, ModalHasCause
    <3>. DEFINE e == [tab[t] EXCEPT !.revoking = FALSE]
    <3>2. e \in TabState /\ e.modal = tab[t].modal
      BY <3>1 DEF TabState
    <3>3. tab'[t] = e
      BY <1>5
    <3>. HIDE DEF e
    <3>. QED
      BY <3>1, <3>2, <3>3
  <2>. QED
    BY <2>1
<1>7. tab' \in [Tabs -> TabState]
  BY <1>6 DEF AccessTokensExpire
<1>8. UNCHANGED <<live, jarCurrent, late>> /\ stored' \in Token
  BY CallerIsTyped DEF AccessTokensExpire, Token
<1>. QED
  BY <1>4, <1>6, <1>7, <1>8, CallerIsTyped DEF RestOK, ModalHasCause

LEMMA StepIInv == IInv /\ [Next]_vars => IInv'
<1>1. ASSUME IInv, UNCHANGED vars PROVE IInv'
  BY <1>1, NothingSent, TabsKept, CallerIsTyped DEF vars, IInv
<1>2. ASSUME IInv, RevokedElsewhere PROVE IInv'
  BY <1>2, NothingSent, TabsKept, CallerIsTyped DEF RevokedElsewhere, IInv
<1>3. ASSUME IInv, NEW t \in Tabs, TabProgress(t) PROVE IInv'
  BY <1>3, SendingKeeps, AnsweredKeeps, LostKeeps, SettlesKeeps, AnswerKeeps, RefusedKeeps,
     LeavingKeeps, LoadPageKeeps, PollKeeps DEF TabProgress, Unload
<1>4. ASSUME IInv, NEW t \in Tabs,
             \/ \E c \in CallsIn[t] : SendCall(t, c)
             \/ PollUser(t)
             \/ Logout(t) \/ SignOut(t) \/ DismissSessionExpired(t)
             \/ Reload(t) \/ SignIn(t) \/ EmailLogin(t)
      PROVE  IInv'
  <2>1. CallsIn[t] \subseteq Calls
    BY CallsInAssumption
  <2>. QED
    BY <1>4, <2>1, SendingKeeps, LeavingKeeps, LoadPageKeeps, SignInKeeps, PollKeeps DEF Reload
<1>. QED
  BY <1>1, <1>2, <1>3, <1>4, ExpiryKeeps DEF Next

-----------------------------------------------------------------------------
LEMMA AlwaysIInv == Spec => []IInv
BY InitIInv, StepIInv, PTL DEF Spec

\* However many tabs and calls there are: one refresh at a time in a tab, which
\* all of its callers wait for, and whose cookie the tab has not rotated away
\* itself (token-refresh.ts).
THEOREM SingleFlightHolds == Spec => []SessionInv
BY AlwaysIInv, InvImplies, PTL

\* The session-expired modal is always shown for a reason: a 401 after a retry
\* means that the refreshed token has expired under way (client.ts).
THEOREM ModalIsExplained == Spec => []ModalHasCause
BY AlwaysIInv, InvImplies, PTL

-----------------------------------------------------------------------------
(* After a sign-out. *)

\* What the page of a user, of one signing out or still being polled for, no
\* longer does: load a user.
UsersLoaded ==
    \A t \in Tabs : tab[t].user \/ tab[t].signingOut \/ tab[t].polling =>
                       caller[t][Loader] = Idle

\* A poll that outlives its user is one of a page that is being left.
PollsLeave == \A t \in Tabs : tab[t].polling => tab[t].user \/ tab[t].leaving

\* Until a refresh is answered after it, a sign-out leaves no token: none in
\* localStorage, and none under way with which a signed-out page loads a user.
NothingLeft ==
    ~ late => \A t \in Tabs :
        tab[t].signedOut => stored = "none" /\ caller[t][Loader].tok # "valid"

SignedOutInd == UsersLoaded /\ PollsLeave /\ NothingLeft

\* The loader goes on: it starts nothing by itself, and a good token it carries
\* is one it carried or found stored.
LoaderGoesOn(u) ==
    /\ caller[u][Loader] = Idle => caller'[u][Loader] = Idle
    /\ caller'[u][Loader].tok = "valid" => caller[u][Loader].tok = "valid" \/ stored = "valid"

\* A tab that is not signed in or out by the step, and has its page still.
TabGoesOn(u) ==
    /\ tab'[u].user \/ tab'[u].signingOut \/ tab'[u].polling =>
          tab[u].user \/ tab[u].signingOut \/ tab[u].polling
    /\ tab'[u].polling => tab'[u].user \/ tab'[u].leaving
    /\ tab'[u].signedOut => tab[u].signedOut

LEMMA GoingOnKeeps ==
    ASSUME SignedOutInd, UNCHANGED late, stored = "none" => stored' = "none",
           \A u \in Tabs : LoaderGoesOn(u) /\ TabGoesOn(u)
    PROVE  SignedOutInd'
<1>1. UsersLoaded'
  BY DEF SignedOutInd, UsersLoaded, LoaderGoesOn, TabGoesOn
<1>2. NothingLeft'
  BY DEF SignedOutInd, NothingLeft, LoaderGoesOn, TabGoesOn
<1>3. PollsLeave'
  BY DEF PollsLeave, TabGoesOn
<1>. QED
  BY <1>1, <1>2, <1>3 DEF SignedOutInd

LEMMA TabsGoOn == ASSUME SignedOutInd, UNCHANGED tab PROVE \A u \in Tabs : TabGoesOn(u)
BY DEF SignedOutInd, PollsLeave, TabGoesOn

LEMMA LoadersGoOn == ASSUME UNCHANGED caller PROVE \A u \in Tabs : LoaderGoesOn(u)
BY DEF LoaderGoesOn

\* One caller changes: another than the loader, or the loader at work.
LEMMA CallerGoesOn ==
    ASSUME CallersOK, NEW t \in Tabs, NEW k \in Callers, NEW r,
           caller' = [caller EXCEPT ![t][k] = r],
           k = Loader => caller[t][k] # Idle \/ r = Idle,
           k = Loader => r.tok # "valid" \/ stored = "valid"
    PROVE  \A u \in Tabs : LoaderGoesOn(u)
<1>1. Loader \in Callers
  BY DEF Callers
<1>2. \A u \in Tabs : caller'[u][Loader] = IF u = t /\ k = Loader THEN r ELSE caller[u][Loader]
  BY <1>1 DEF CallersOK
<1>. QED
  BY <1>2 DEF LoaderGoesOn

LEMMA SentBears ==
    ASSUME NEW token \in Token
    PROVE  Sent(token).tok = "valid" => token = "valid"
BY DEF Sent, Bearing, Idle, Token

LEMMA AwaitGoesOn ==
    ASSUME CallersOK, NEW t \in Tabs, NEW k \in Callers, NEW first \in BOOLEAN,
           AwaitRefresh(t, k, first), caller[t][k].st # "idle"
    PROVE  \A u \in Tabs : LoaderGoesOn(u)
<1>. DEFINE leader == IF InFlight(t) = {} THEN k ELSE CHOOSE j \in InFlight(t) : TRUE
            w == [st |-> "waiting", tok |-> "none", first |-> first, on |-> leader]
<1>1. caller' = [caller EXCEPT ![t][k] = w]
  BY DEF AwaitRefresh
<1>2. w.tok # "valid" /\ caller[t][k] # Idle
  BY RecordsAre
<1>. HIDE DEF w
<1>. QED
  BY <1>1, <1>2, CallerGoesOn

\* The steps of loadUser, of the calls and of the user-service that sign nobody
\* in: nothing is stored but where something was.
LEMMA WorkingKeeps ==
    ASSUME IInv, SignedOutInd, NEW t \in Tabs,
           \/ LoadUser(t)
           \/ \E k \in Callers : \/ RefreshAnswered(t, k) \/ RefreshLost(t, k)
                                 \/ Refused(t, k) \/ RequestLost(t, k)
           \/ \E c \in Calls : SendCall(t, c)
    PROVE  SignedOutInd'
<1>. USE DEF IInv
<1>1. UNCHANGED <<tab, stored, late>>
  BY DEF LoadUser, RefreshAnswered, RefreshLost, Refused, RequestLost, SendCall
<1>2. \A c \in Calls : c \in Callers /\ c # Loader
  BY CallersAssumption DEF Callers
<1>3. Loader \in Callers
  BY DEF Callers
<1>4. \A u \in Tabs : LoaderGoesOn(u)
  <2>1. CASE LoadUser(t) /\ stored = "none"
    BY <1>3, <2>1, AwaitGoesOn DEF LoadUser
  <2>2. CASE LoadUser(t) /\ stored # "none"
    <3>1. caller' = [caller EXCEPT ![t][Loader] = Sent(stored)]
          /\ caller[t][Loader].st = "start"
      BY <2>2 DEF LoadUser
    <3>2. caller[t][Loader] # Idle
      BY <3>1, RecordsAre
    <3>3. Sent(stored).tok # "valid" \/ stored = "valid"
      BY SentBears, CallerIsTyped
    <3>. QED
      BY <1>3, <3>1, <3>2, <3>3, CallerGoesOn
  <2>3. ASSUME NEW k \in Callers, RefreshAnswered(t, k) \/ RefreshLost(t, k)
        PROVE  \A u \in Tabs : LoaderGoesOn(u)
    BY <2>3, LoadersGoOn DEF RefreshAnswered, RefreshLost
  <2>4. ASSUME NEW k \in Callers, Refused(t, k)
        PROVE  \A u \in Tabs : LoaderGoesOn(u)
    BY <2>4, AwaitGoesOn DEF Refused
  <2>5. ASSUME NEW k \in Callers, RequestLost(t, k)
        PROVE  \A u \in Tabs : LoaderGoesOn(u)
    <3>. DEFINE r == IF k = Loader THEN [Idle EXCEPT !.st = "hung"] ELSE Idle
    <3>1. caller' = [caller EXCEPT ![t][k] = r] /\ caller[t][k] # Idle
      BY <2>5, RecordsAre DEF RequestLost
    <3>2. r.tok # "valid"
      BY DEF Idle
    <3>. HIDE DEF r
    <3>. QED
      BY <3>1, <3>2, CallerGoesOn
  <2>6. ASSUME NEW c \in Calls, SendCall(t, c)
        PROVE  \A u \in Tabs : LoaderGoesOn(u)
    <3>1. caller' = [caller EXCEPT ![t][c] = Sent(stored)]
      BY <2>6 DEF SendCall
    <3>. QED
      BY <1>2, <3>1, CallerGoesOn
  <2>. QED
    BY <2>1, <2>2, <2>3, <2>4, <2>5, <2>6
<1>. QED
  BY <1>1, <1>4, TabsGoOn, GoingOnKeeps

\* A refresh that settles: granted, it is late wherever someone has signed out.
LEMMA SettlingKeeps ==
    ASSUME IInv, SignedOutInd, NEW t \in Tabs, NEW k \in Callers, RefreshSettles(t, k)
    PROVE  SignedOutInd'
<1>. USE DEF IInv
<1>1. Loader \in Callers
  BY DEF Callers
<1>2. CASE flight[t][k].st = "granted"
  <2>1. UNCHANGED tab /\ late' = (late \/ \E u \in Tabs : tab[u].signedOut)
    BY <1>2 DEF RefreshSettles
  <2>2. NothingLeft'
    BY <2>1 DEF NothingLeft
  <2>3. \A u \in Tabs : caller[u][Loader] = Idle => caller'[u][Loader] = Idle
    <3>1. \A u \in Tabs \ {t} : caller'[u] = caller[u]
      BY <1>2 DEF RefreshSettles, CallersOK
    <3>2. Loader \notin Awaiting(t, k) => caller'[t][Loader] = caller[t][Loader]
      BY <1>1, <1>2 DEF RefreshSettles, CallersOK
    <3>3. Loader \in Awaiting(t, k) => caller[t][Loader] # Idle
      BY RecordsAre DEF Awaiting
    <3>. QED
      BY <3>1, <3>2, <3>3
  <2>4. UsersLoaded' /\ PollsLeave'
    BY <2>1, <2>3 DEF UsersLoaded, PollsLeave, SignedOutInd
  <2>. QED
    BY <2>2, <2>4 DEF SignedOutInd
<1>3. CASE flight[t][k].st # "granted"
  <2>1. UNCHANGED late /\ stored' \in {stored, "none"}
    BY <1>3 DEF RefreshSettles
  <2>2. \A u \in Tabs : caller'[u][Loader] \in {caller[u][Loader], Idle}
    BY <1>1, <1>3 DEF RefreshSettles, CallersOK
  <2>3. \A u \in Tabs : LoaderGoesOn(u)
    BY <2>2, RecordsAre DEF LoaderGoesOn
  <2>4. \A u \in Tabs : TabGoesOn(u)
    <3>1. \A u \in Tabs \ {t} : tab'[u] = tab[u]
      BY <1>3 DEF RefreshSettles, RestOK
    <3>2. /\ tab'[t].user = (tab[t].user /\ Loader \notin Awaiting(t, k))
          /\ \A f \in {"signingOut", "signedOut", "polling", "leaving"} : tab'[t][f] = tab[t][f]
      BY <1>3 DEF RefreshSettles, RestOK, TabState
    <3>3. Loader \in Awaiting(t, k) => ~ tab[t].polling
      BY RecordsAre DEF Awaiting, SignedOutInd, UsersLoaded
    <3>4. tab'[t].polling => tab'[t].user \/ tab'[t].leaving
      BY <3>2, <3>3 DEF SignedOutInd, PollsLeave
    <3>5. TabGoesOn(t)
      BY <3>2, <3>4 DEF TabGoesOn
    <3>. QED
      BY <3>1, <3>5 DEF TabGoesOn, SignedOutInd, PollsLeave
  <2>. QED
    BY <2>1, <2>3, <2>4, GoingOnKeeps
<1>. QED
  BY <1>2, <1>3

\* Answers: only the loader's signs in, and it is done then.
LEMMA AnsweringKeeps ==
    ASSUME IInv, SignedOutInd, NEW t \in Tabs, NEW k \in Callers,
           Accepted(t, k) \/ RefusedAgain(t, k)
    PROVE  SignedOutInd'
<1>. USE DEF IInv
<1>1. caller' = [caller EXCEPT ![t][k] = Idle] /\ UNCHANGED <<stored, late>>
  BY DEF Accepted, RefusedAgain
<1>2. \A u \in Tabs : LoaderGoesOn(u)
  BY <1>1, RecordsAre, CallerGoesOn
<1>3. CASE Accepted(t, k) /\ k = Loader
  <2>1. caller'[t][Loader] = Idle /\ \A u \in Tabs \ {t} : caller'[u] = caller[u]
    BY <1>1, <1>3 DEF CallersOK
  <2>2. /\ ~ tab'[t].signedOut /\ tab'[t].user
        /\ \A u \in Tabs \ {t} : tab'[u] = tab[u]
    BY <1>3 DEF Accepted, RestOK, TabState
  <2>3. UsersLoaded' /\ PollsLeave'
    BY <2>1, <2>2 DEF SignedOutInd, UsersLoaded, PollsLeave
  <2>4. NothingLeft'
    BY <1>1, <2>1, <2>2 DEF SignedOutInd, NothingLeft
  <2>. QED
    BY <2>3, <2>4 DEF SignedOutInd
<1>4. CASE ~ (Accepted(t, k) /\ k = Loader)
  <2>1. \A u \in Tabs : TabGoesOn(u)
    <3>1. \A u \in Tabs \ {t} : tab'[u] = tab[u]
      BY <1>4 DEF Accepted, RefusedAgain, RestOK
    <3>2. /\ tab'[t].user = (tab[t].user /\ k # Loader)
          /\ \A f \in {"signingOut", "signedOut", "polling", "leaving"} : tab'[t][f] = tab[t][f]
      BY <1>4 DEF Accepted, RefusedAgain, RestOK, TabState
    <3>3. k = Loader => ~ tab[t].polling
      BY <1>4, RecordsAre DEF Accepted, RefusedAgain, SignedOutInd, UsersLoaded
    <3>4. tab'[t].polling => tab'[t].user \/ tab'[t].leaving
      BY <3>2, <3>3 DEF SignedOutInd, PollsLeave
    <3>5. TabGoesOn(t)
      BY <3>2, <3>4 DEF TabGoesOn
    <3>. QED
      BY <3>1, <3>5 DEF TabGoesOn, SignedOutInd, PollsLeave
  <2>. QED
    BY <1>1, <1>2, <2>1, GoingOnKeeps
<1>. QED
  BY <1>3, <1>4

\* Leaving: whoever signs out has loaded its user, and the token is cleared.
LEMMA SigningOutKeeps ==
    ASSUME IInv, SignedOutInd, NEW t \in Tabs,
           \/ Logout(t) \/ SignOut(t) \/ DismissSessionExpired(t)
           \/ Revoked(t) \/ RevocationSkipped(t) \/ SignOutContinues(t)
    PROVE  SignedOutInd'
<1>. USE DEF IInv
<1>1. UNCHANGED <<caller, late>> /\ stored' \in {stored, "none"}
  BY DEF Logout, SignOut, DismissSessionExpired, Revoked, RevocationSkipped, SignOutContinues,
     ClearAuth
<1>2. \A u \in Tabs \ {t} : tab'[u] = tab[u]
  BY DEF Logout, SignOut, DismissSessionExpired, Revoked, RevocationSkipped, SignOutContinues,
     RestOK
<1>3. /\ tab'[t].polling = tab[t].polling
      /\ tab'[t].user => tab[t].user
      /\ tab'[t].signingOut => tab[t].signingOut \/ tab[t].user
      /\ tab[t].user \/ tab[t].leaving => tab'[t].user \/ tab'[t].leaving
  BY DEF Logout, SignOut, DismissSessionExpired, Revoked, RevocationSkipped, SignOutContinues,
     RestOK, TabState
<1>4. CASE SignOut(t) \/ DismissSessionExpired(t) \/ Revoked(t) \/ RevocationSkipped(t)
  <2>1. tab'[t].signedOut = tab[t].signedOut
    BY <1>4 DEF SignOut, DismissSessionExpired, Revoked, RevocationSkipped, RestOK, TabState
  <2>2. \A u \in Tabs : TabGoesOn(u)
    BY <1>2, <1>3, <2>1 DEF TabGoesOn, SignedOutInd, PollsLeave
  <2>. QED
    BY <1>1, <2>2, LoadersGoOn, GoingOnKeeps
<1>5. CASE Logout(t) \/ SignOutContinues(t)
  <2>1. stored' = "none"
    BY <1>5 DEF Logout, SignOutContinues, ClearAuth
  <2>2. caller[t][Loader] = Idle
    BY <1>5 DEF Logout, SignOutContinues, SignedOutInd, UsersLoaded
  <2>3. UsersLoaded' /\ PollsLeave'
    BY <1>1, <1>2, <1>3 DEF SignedOutInd, UsersLoaded, PollsLeave
  <2>4. NothingLeft'
    BY <1>1, <1>2, <2>1, <2>2, RecordsAre DEF SignedOutInd, NothingLeft
  <2>. QED
    BY <2>3, <2>4 DEF SignedOutInd
<1>. QED
  BY <1>4, <1>5

\* A new page has no user yet and no request under way.
LEMMA LoadingKeeps ==
    ASSUME IInv, SignedOutInd, NEW t \in Tabs, LoadPage(t)
    PROVE  SignedOutInd'
<1>. USE DEF IInv
<1>1. Loader \in Callers /\ FreshCallers[Loader].tok = "none"
  BY DEF Callers, FreshCallers, Idle
<1>2. caller'[t] = FreshCallers /\ \A u \in Tabs \ {t} : caller'[u] = caller[u]
  BY DEF LoadPage, CallersOK
<1>3. /\ ~ tab'[t].user /\ ~ tab'[t].signingOut /\ ~ tab'[t].polling
      /\ tab'[t].signedOut = tab[t].signedOut
      /\ \A u \in Tabs \ {t} : tab'[u] = tab[u]
  BY DEF LoadPage, FreshTab, RestOK
<1>4. UNCHANGED <<stored, late>>
  BY DEF LoadPage
<1>5. UsersLoaded' /\ PollsLeave'
  BY <1>2, <1>3 DEF SignedOutInd, UsersLoaded, PollsLeave
<1>6. NothingLeft'
  BY <1>1, <1>2, <1>3, <1>4 DEF SignedOutInd, NothingLeft
<1>. QED
  BY <1>5, <1>6 DEF SignedOutInd

\* A sign-in gives no page its user yet, and leaves nobody signed out.
LEMMA SignInTabs ==
    ASSUME RestOK, NEW t \in Tabs, SignIn(t) \/ EmailLogin(t), NEW u \in Tabs
    PROVE  /\ ~ tab'[u].signedOut
           /\ tab'[u].user => tab[u].user
           /\ tab'[u].signingOut => tab[u].signingOut
           /\ tab'[u].polling =>
                 tab[u].polling /\ tab'[u].user = tab[u].user /\ tab'[u].leaving = tab[u].leaving
<1>. DEFINE s == SignedIn(u)
<1>1. /\ s \in TabState /\ ~ s.signedOut
      /\ s.user = tab[u].user /\ s.signingOut = tab[u].signingOut
      /\ s.polling = tab[u].polling /\ s.leaving = tab[u].leaving
  BY DEF SignedIn, RestOK, TabState
<1>2. LET f == FreshTab(FALSE, FALSE) IN ~ f.signedOut /\ ~ f.user /\ ~ f.signingOut /\ ~ f.polling
  BY DEF FreshTab
<1>3. CASE SignIn(t)
  <2>1. tab'[u] = IF u = t THEN FreshTab(FALSE, FALSE) ELSE s
    BY <1>3 DEF SignIn
  <2>. HIDE DEF s
  <2>. QED
    BY <1>1, <1>2, <2>1
<1>4. CASE EmailLogin(t)
  <2>1. tab'[u] = [s EXCEPT !.entered = @ \/ u = t]
    BY <1>4 DEF EmailLogin
  <2>. HIDE DEF s
  <2>. QED
    BY <1>1, <2>1 DEF TabState
<1>. QED
  BY <1>3, <1>4

\* After a sign-in nobody is signed out.
LEMMA SigningInKeeps ==
    ASSUME IInv, SignedOutInd, NEW t \in Tabs, SignIn(t) \/ EmailLogin(t)
    PROVE  SignedOutInd'
<1>. USE DEF IInv
<1>1. \A u \in Tabs : ~ tab'[u].signedOut
  BY SignInTabs
<1>2. \A u \in Tabs : tab'[u].user \/ tab'[u].signingOut \/ tab'[u].polling =>
         /\ tab[u].user \/ tab[u].signingOut \/ tab[u].polling
         /\ caller'[u] = caller[u]
  <2>1. \A u \in Tabs : tab'[u].user \/ tab'[u].signingOut \/ tab'[u].polling =>
           tab[u].user \/ tab[u].signingOut \/ tab[u].polling
    BY SignInTabs
  <2>2. CASE SignIn(t)
    <3>1. ~ tab'[t].user /\ ~ tab'[t].signingOut /\ ~ tab'[t].polling
      BY <2>2 DEF SignIn, FreshTab
    <3>2. \A u \in Tabs \ {t} : caller'[u] = caller[u]
      BY <2>2 DEF SignIn, CallersOK
    <3>. QED
      BY <2>1, <3>1, <3>2
  <2>3. CASE EmailLogin(t)
    BY <2>1, <2>3 DEF EmailLogin
  <2>. QED
    BY <2>2, <2>3
<1>3. UsersLoaded'
  BY <1>2 DEF SignedOutInd, UsersLoaded
<1>4. NothingLeft'
  BY <1>1 DEF NothingLeft
<1>5. PollsLeave'
  BY SignInTabs DEF SignedOutInd, PollsLeave
<1>. QED
  BY <1>3, <1>4, <1>5 DEF SignedOutInd

\* A poll changes nothing but whether there is a user where there was one.
LEMMA PollingKeeps ==
    ASSUME IInv, SignedOutInd, NEW t \in Tabs, PollUser(t) \/ PollAnswered(t) \/ PollFails(t)
    PROVE  SignedOutInd'
<1>. USE DEF IInv
<1>1. UNCHANGED <<stored, caller, late>>
  BY DEF PollUser, PollAnswered, PollFails
<1>2. \A u \in Tabs \ {t} : tab'[u] = tab[u]
  BY DEF PollUser, PollAnswered, PollFails, RestOK
<1>3. /\ tab[t].user \/ tab[t].polling
      /\ tab'[t].polling => tab'[t].user \/ tab'[t].leaving
      /\ tab'[t].signedOut = tab[t].signedOut
  BY DEF PollUser, PollAnswered, PollFails, RestOK, TabState
<1>4. \A u \in Tabs : TabGoesOn(u)
  BY <1>2, <1>3 DEF TabGoesOn, SignedOutInd, PollsLeave
<1>. QED
  BY <1>1, <1>4, LoadersGoOn, GoingOnKeeps

LEMMA OutlivingKeeps ==
    ASSUME IInv, SignedOutInd, AccessTokensExpire
    PROVE  SignedOutInd'
<1>. USE DEF IInv
<1>1. Loader \in Callers
  BY DEF Callers
<1>2. \A u \in Tabs : caller'[u][Loader] = Outlived(caller[u][Loader])
  BY <1>1 DEF AccessTokensExpire
<1>3. Outlived(Idle) = Idle
  BY RecordsAre DEF Outlived
<1>4. \A r \in CallerState : Outlived(r).tok # "valid"
  BY DEF Outlived, CallerState
<1>5. \A u \in Tabs : LoaderGoesOn(u)
  BY <1>1, <1>2, <1>3, <1>4 DEF LoaderGoesOn, CallersOK
<1>6. \A u \in Tabs : TabGoesOn(u)
  BY DEF AccessTokensExpire, TabGoesOn, RestOK, TabState, SignedOutInd, PollsLeave
<1>. QED
  BY <1>5, <1>6, GoingOnKeeps DEF AccessTokensExpire

LEMMA InitSignedOut == Init => SignedOutInd
BY DEF Init, FreshTab, SignedOutInd, UsersLoaded, PollsLeave, NothingLeft

LEMMA StepSignedOut == IInv /\ SignedOutInd /\ [Next]_vars => SignedOutInd'
<1>. SUFFICES ASSUME IInv, SignedOutInd, [Next]_vars PROVE SignedOutInd'
  OBVIOUS
<1>1. CASE UNCHANGED vars
  BY <1>1, TabsGoOn, LoadersGoOn, GoingOnKeeps DEF vars
<1>2. CASE RevokedElsewhere
  BY <1>2, TabsGoOn, LoadersGoOn, GoingOnKeeps DEF RevokedElsewhere
<1>3. ASSUME NEW t \in Tabs, TabProgress(t) PROVE SignedOutInd'
  BY <1>3, WorkingKeeps, SettlingKeeps, AnsweringKeeps, SigningOutKeeps, LoadingKeeps,
     PollingKeeps DEF TabProgress, Unload
<1>4. ASSUME NEW t \in Tabs,
             \/ \E c \in CallsIn[t] : SendCall(t, c)
             \/ PollUser(t)
             \/ Logout(t) \/ SignOut(t) \/ DismissSessionExpired(t)
             \/ Reload(t) \/ SignIn(t) \/ EmailLogin(t)
      PROVE  SignedOutInd'
  <2>1. CallsIn[t] \subseteq Calls
    BY CallsInAssumption
  <2>. QED
    BY <1>4, <2>1, WorkingKeeps, SigningOutKeeps, LoadingKeeps, SigningInKeeps, PollingKeeps
       DEF Reload
<1>. QED
  BY <1>1, <1>2, <1>3, <1>4, OutlivingKeeps DEF Next

\* Only the loader's good answer gives a page its user, and a poll's.
LEMMA OnlyAcceptedSignsIn ==
    ASSUME IInv, [Next]_vars, NEW t \in Tabs, ~ tab[t].user, tab'[t].user
    PROVE  caller[t][Loader].tok = "valid" \/ tab[t].polling
<1>. USE DEF IInv
<1>1. ASSUME NEW u \in Tabs, NEW k \in Callers, Accepted(u, k)
      PROVE  caller[t][Loader].tok = "valid"
  <2>1. u = t /\ k = Loader
    BY <1>1 DEF Accepted, RestOK
  <2>. QED
    BY <1>1, <2>1 DEF Accepted
<1>2. ASSUME NEW u \in Tabs,
             \/ LoadUser(u)
             \/ \E k \in Callers : \/ RefreshAnswered(u, k) \/ RefreshLost(u, k)
                                   \/ Refused(u, k) \/ RequestLost(u, k)
             \/ \E c \in Calls : SendCall(u, c)
      PROVE  FALSE
  BY <1>2 DEF LoadUser, RefreshAnswered, RefreshLost, Refused, RequestLost, SendCall
<1>3. ASSUME NEW u \in Tabs, NEW k \in Callers, RefreshSettles(u, k) PROVE FALSE
  BY <1>3 DEF RefreshSettles, RestOK, TabState
<1>4. ASSUME NEW u \in Tabs, NEW k \in Callers, RefusedAgain(u, k) PROVE FALSE
  BY <1>4 DEF RefusedAgain, RestOK, TabState
<1>5. ASSUME NEW u \in Tabs,
             \/ Logout(u) \/ SignOut(u) \/ DismissSessionExpired(u)
             \/ Revoked(u) \/ RevocationSkipped(u) \/ SignOutContinues(u)
      PROVE  FALSE
  BY <1>5 DEF Logout, SignOut, DismissSessionExpired, Revoked, RevocationSkipped,
     SignOutContinues, RestOK, TabState
<1>6. ASSUME NEW u \in Tabs, LoadPage(u) PROVE FALSE
  BY <1>6 DEF LoadPage, FreshTab, RestOK
<1>7. ASSUME NEW u \in Tabs, SignIn(u) \/ EmailLogin(u) PROVE FALSE
  BY <1>7, SignInTabs
<1>8. ASSUME AccessTokensExpire \/ RevokedElsewhere \/ UNCHANGED vars PROVE FALSE
  BY <1>8 DEF AccessTokensExpire, RevokedElsewhere, vars, RestOK, TabState
<1>9. ASSUME NEW u \in Tabs, PollUser(u) \/ PollAnswered(u) \/ PollFails(u)
       PROVE  tab[t].polling
  BY <1>9 DEF PollUser, PollAnswered, PollFails, RestOK, TabState
<1>10. ASSUME NEW u \in Tabs, TabProgress(u)
      PROVE  caller[t][Loader].tok = "valid" \/ tab[t].polling
  BY <1>1, <1>2, <1>3, <1>4, <1>5, <1>6, <1>10, <1>9 DEF TabProgress, Unload
<1>11. ASSUME NEW u \in Tabs,
              \/ \E c \in CallsIn[u] : SendCall(u, c)
              \/ Logout(u) \/ SignOut(u) \/ DismissSessionExpired(u)
              \/ Reload(u) \/ SignIn(u) \/ EmailLogin(u)
       PROVE  FALSE
  <2>1. CallsIn[u] \subseteq Calls
    BY CallsInAssumption
  <2>. QED
    BY <1>2, <1>5, <1>6, <1>7, <1>11, <2>1 DEF Reload
<1>. QED
  BY <1>8, <1>10, <1>11, <1>9 DEF Next

\* In any number of tabs and with any calls: a tab whose sign-out revoked the
\* session has its user again without a sign-in only when a refresh was answered
\* after the sign-out and stored its token then, or on the page it is leaving, by a
\* refreshUser answered late, with no token left (useAuth.ts, logout, signOut and
\* refreshUser; token-refresh.ts, doRefresh).
THEOREM SignOutStays == Spec => SignOutHolds
<1>. DEFINE Step == \A t \in Tabs :
         tab[t].signedOut /\ tab[t].revoked /\ ~ tab[t].user /\ tab'[t].user =>
             late \/ (tab[t].leaving /\ stored = "none")
<1>1. IInv /\ SignedOutInd /\ [Next]_vars => [Step]_vars
  BY OnlyAcceptedSignsIn DEF SignedOutInd, PollsLeave, NothingLeft
<1>2. Spec => []SignedOutInd
  BY InitSignedOut, StepSignedOut, AlwaysIInv, PTL DEF Spec
<1>3. Spec => [][Step]_vars
  BY <1>1, <1>2, AlwaysIInv, PTL DEF Spec
<1>. QED
  BY <1>3 DEF SignOutHolds

-----------------------------------------------------------------------------
(* Application routes *)

\* Where what is shown may have been redirected to, and what the tab remembers.
HopsBounded(s) ==
    /\ s.hops <= 3
    /\ s.auth.st = "loading" => s.hops = 0
    /\ s.at = "check-email" => s.hops <= 1
    /\ s.at \in Protected /\ s.hops # 0 =>
          /\ s.auth.st = "in" /\ s.auth.verified
          /\ \/ s.at \in {"home", "narrators"} /\ s.hops <= 2
             \/ s.at = "dashboard" /\ "admin" \in s.auth.roles /\ s.hops = 1

WantedKept(s) ==
    /\ s.at \in Protected /\ s.auth.st # "in" => s.at = s.wanted
    /\ s.at = "login" => s.from = s.wanted
    /\ s.at = "provider" => s.returnUrl = s.wanted

ModalOver(s) ==
    s.modal => s.auth.st = "in" /\ s.at \in Protected \cup {"check-email", "trial-expired"}

Visitors == [session : {"none", "stale", "live"}, verified : BOOLEAN, roles : RoleSets,
             plan : Plans]
Auths == [st : {"loading", "out", "in"}, verified : BOOLEAN, roles : RoleSets \cup {{}}]
Places == Routes \cup Entered \cup Followed \cup {"provider"}
Urls == Routes \cup {NoUrl}
Shells == [at : Places, from : Protected, auth : Auths, plan : Plans \cup {"unknown"},
           modal : BOOLEAN, returnUrl : Urls,
           code : {"partial", "complete", "sent", "done"}, hops : Nat, wanted : Protected]

ShellInd ==
    /\ visitor \in Visitors /\ shell \in Shells
    /\ HopsBounded(shell) /\ WantedKept(shell) /\ ModalOver(shell)

LEMMA RouteSets ==
    /\ "home" \in LayoutPages /\ "narrators" \in LayoutPages /\ "profile" \in LayoutPages
    /\ "dashboard" \in AdminPages /\ "dashboard" \notin LayoutPages
    /\ "admin" \notin LayoutPages /\ "admin" \notin AdminPages
    /\ "login" \notin Protected /\ "callback" \notin Protected /\ "check-email" \notin Protected
    /\ "trial-expired" \notin Protected /\ "verify" \notin Protected
    /\ "provider" \notin Protected
    /\ "pricing" \notin Protected /\ "checkout" \notin Protected
<1>1. /\ "home" \in LayoutPages /\ "narrators" \in LayoutPages /\ "profile" \in LayoutPages
      /\ "dashboard" \notin LayoutPages /\ "admin" \notin LayoutPages
  BY DEF LayoutPages, ReadingPages
<1>2. "dashboard" \in AdminPages /\ "admin" \notin AdminPages
  BY DEF AdminPages
<1>3. \A p \in {"login", "callback", "check-email", "trial-expired", "verify", "provider",
                "pricing", "checkout"} : p \notin LayoutPages
  BY DEF LayoutPages, ReadingPages
<1>4. \A p \in {"login", "callback", "check-email", "trial-expired", "verify", "provider",
                "pricing", "checkout"} : p \notin AdminPages
  BY DEF AdminPages
<1>. QED
  BY <1>1, <1>2, <1>3, <1>4 DEF Protected

LEMMA PlacesAre ==
    /\ Protected \subseteq Routes
    /\ "login" \in Routes /\ "callback" \in Routes /\ "check-email" \in Routes
    /\ "trial-expired" \in Routes /\ "verify" \in Routes /\ "provider" \notin Routes
    /\ "pricing" \in Routes /\ "checkout" \in Routes
    /\ Routes \subseteq Places /\ Routes \subseteq Urls
    /\ Entered \subseteq Places /\ Followed \subseteq Places /\ "provider" \in Places
    /\ NoUrl \in Urls
<1>1. /\ "login" \in PublicPages /\ "callback" \in PublicPages /\ "check-email" \in PublicPages
      /\ "trial-expired" \in PublicPages /\ "verify" \in PublicPages
      /\ "pricing" \in PublicPages /\ "checkout" \in PublicPages /\ "provider" \notin PublicPages
  BY DEF PublicPages
<1>2. "provider" \notin Protected
  BY RouteSets
<1>. QED
  BY <1>1, <1>2 DEF Routes, Places, Urls

\* The rank of the highest role is an administrator's just when the role is held.
LEMMA AdminByRank == HasRole("admin") <=> IsAdmin
<1>. DEFINE held == shell.auth.roles \cap DOMAIN ROLE_HIERARCHY
            ranks == {0} \cup {ROLE_HIERARCHY[r] : r \in held}
<1>1. /\ DOMAIN ROLE_HIERARCHY = {"trial", "reader", "researcher", "admin"}
      /\ ROLE_HIERARCHY["trial"] = 0 /\ ROLE_HIERARCHY["reader"] = 1
      /\ ROLE_HIERARCHY["researcher"] = 2 /\ ROLE_HIERARCHY["admin"] = 3
  BY DEF ROLE_HIERARCHY
<1>2. ranks \subseteq 0..3
  BY <1>1
<1>3. IsFiniteSet(0..3)
  <2>1. \A a, b \in Int : IsFiniteSet(a..b)
    BY FS_Interval
  <2>2. 0 \in Int /\ 3 \in Int
    OBVIOUS
  <2>. QED
    BY <2>1, <2>2, Zenon
<1>4. IsFiniteSet(ranks) /\ ranks \subseteq Int /\ ranks # {}
  BY <1>2, <1>3, FS_Subset
<1>5. Max(ranks) \in ranks /\ \A y \in ranks : y <= Max(ranks)
  <2>. HIDE DEF ranks
  <2>. QED
    BY <1>4, MaxIs
<1>6. HasRole("admin") <=> Max(ranks) >= 3
  BY <1>1 DEF HasRole, HighestRank
<1>7. IsAdmin => 3 \in ranks
  BY <1>1 DEF IsAdmin
<1>8. ASSUME 3 \in ranks PROVE IsAdmin
  BY <1>1, <1>8 DEF IsAdmin
<1>9. IsAdmin <=> 3 \in ranks
  BY <1>7, <1>8
<1>. HIDE DEF ranks
<1>10. Max(ranks) \in 0..3 /\ (3 \in ranks => 3 <= Max(ranks))
  BY <1>2, <1>5
<1>11. Max(ranks) >= 3 <=> 3 \in ranks
  BY <1>5, <1>10
<1>. QED
  BY <1>6, <1>9, <1>11

\* Where a page sends the tab on.
LEMMA OnwardIs ==
    ASSUME NEW p, shell.auth.st \in {"loading", "out", "in"}, shell.auth.verified \in BOOLEAN
    PROVE  /\ p \notin Protected /\ p # "check-email" => Onward(p) = p
           /\ p = "check-email" =>
                 Onward(p) = IF shell.auth.st = "in" /\ shell.auth.verified THEN "home" ELSE p
           /\ p \in Protected /\ shell.auth.st = "loading" => Onward(p) = p
           /\ p \in Protected /\ shell.auth.st = "out" => Onward(p) = "login"
           /\ p \in Protected /\ shell.auth.st = "in" /\ shell.plan = "expired" =>
                 Onward(p) = "trial-expired"
           /\ p \in Protected /\ shell.auth.st = "in" /\ shell.plan # "expired"
              /\ ~shell.auth.verified => Onward(p) = "check-email"
           /\ p \in Protected /\ shell.auth.st = "in" /\ shell.plan # "expired"
              /\ shell.auth.verified =>
                 Onward(p) = IF p \in LayoutPages THEN p ELSE IF ~IsAdmin THEN "home"
                             ELSE IF p = "admin" THEN "dashboard" ELSE p
<1>1. "check-email" \notin Protected
  BY RouteSets, Zenon
<1>2. p \notin Protected => Onward(p) = IF p = "check-email" THEN CheckEmailPage(p) ELSE p
  BY DEF Onward
<1>3. p \in Protected => Onward(p) = ProtectedRoute(p)
  BY DEF Onward
<1>4. AdminRoute(p) = IF ~IsAdmin THEN "home" ELSE IF p = "admin" THEN "dashboard" ELSE p
  BY AdminByRank DEF AdminRoute, AdminLayout
<1>5. /\ shell.auth.st = "loading" => ProtectedRoute(p) = p
      /\ shell.auth.st = "out" => ProtectedRoute(p) = "login"
      /\ shell.auth.st = "in" /\ shell.plan = "expired" => ProtectedRoute(p) = "trial-expired"
      /\ shell.auth.st = "in" /\ shell.plan # "expired" /\ ~shell.auth.verified =>
            ProtectedRoute(p) = "check-email"
      /\ shell.auth.st = "in" /\ shell.plan # "expired" /\ shell.auth.verified =>
            ProtectedRoute(p) = IF p \in LayoutPages THEN p ELSE AdminRoute(p)
  BY DEF ProtectedRoute
<1>. QED
  BY <1>1, <1>2, <1>3, <1>4, <1>5 DEF CheckEmailPage

\* Every link that a page shows leads where it says.
LEMMA LinksLead ==
    ASSUME shell \in Shells
    PROVE  LinksOpen
<1>. SUFFICES ASSUME Shown, shell.at \in Protected, NEW p \in Links(shell.at)
              PROVE  p \in Routes /\ Onward(p) = IF p = "admin" THEN "dashboard" ELSE p
  BY DEF LinksOpen
<1>. DEFINE leads(q) == q \in Routes /\ Onward(q) = IF q = "admin" THEN "dashboard" ELSE q
<1>1. /\ shell.auth.st = "in" /\ Onward(shell.at) = shell.at
      /\ shell.auth.verified \in BOOLEAN
  BY DEF Shown, Shells, Auths
<1>2. /\ shell.plan # "expired" /\ shell.auth.verified
      /\ shell.at \in LayoutPages \/ (IsAdmin /\ shell.at \in AdminPages)
  <2>1. shell.plan # "expired"
    BY <1>1, OnwardIs, RouteSets
  <2>2. shell.auth.verified
    BY <1>1, <2>1, OnwardIs, RouteSets
  <2>3. shell.at \notin LayoutPages => IsAdmin /\ shell.at # "admin"
    BY <1>1, <2>1, <2>2, OnwardIs, RouteSets
  <2>. QED
    BY <2>1, <2>2, <2>3 DEF Protected
<1>3. ASSUME NEW q \in LayoutPages PROVE leads(q)
  BY <1>1, <1>2, <1>3, OnwardIs, PlacesAre, RouteSets DEF Protected
<1>4. ASSUME NEW q \in AdminPages \cup {"admin"}, IsAdmin PROVE leads(q)
  <2>1. q \in Protected /\ q \in Routes
    BY PlacesAre DEF Protected
  <2>2. q \in LayoutPages \/ leads(q)
    BY <1>1, <1>2, <1>4, <2>1, OnwardIs
  <2>. QED
    BY <1>3, <2>2
<1>5. leads("pricing") /\ leads("checkout")
  BY <1>1, OnwardIs, PlacesAre, RouteSets
<1>. HIDE DEF leads
<1>6. ASSUME shell.at \in LayoutPages PROVE leads(p)
  <2>1. Links(shell.at) \subseteq LayoutLinks \cup HomeLinks
    <3>1. shell.at \notin AdminPages
      BY <1>6 DEF LayoutPages, ReadingPages, AdminPages
    <3>2. shell.at \in Routes /\ "home" \notin ReadingPages
      BY PlacesAre DEF ReadingPages
    <3>3. /\ shell.at # "pricing" /\ shell.at # "checkout" /\ shell.at # "trial-expired"
          /\ shell.at = "home" \/ shell.at \in ReadingPages
      BY <1>6, RouteSets DEF LayoutPages
    <3>. QED
      BY <3>1, <3>2, <3>3 DEF Links
  <2>2. HomeLinks \subseteq LayoutPages
    BY DEF HomeLinks, LayoutPages, ReadingPages
  <2>3. LayoutLinks \subseteq LayoutPages \cup {"pricing"} \cup (IF IsAdmin THEN {"admin"} ELSE {})
    BY DEF LayoutLinks, SidebarLinks, MenuLinks, BannerLinks, LayoutPages, ReadingPages
  <2>. QED
    BY <1>3, <1>4, <1>5, <2>1, <2>2, <2>3
<1>7. ASSUME shell.at \notin LayoutPages PROVE leads(p)
  <2>1. IsAdmin /\ shell.at \in AdminPages
    BY <1>2, <1>7
  <2>2. Links(shell.at) = AdminLinks
    <3>1. shell.at \notin ReadingPages /\ shell.at # "home" /\ shell.at \in Routes
      BY <1>7, PlacesAre DEF LayoutPages
    <3>2. shell.at # "pricing" /\ shell.at # "checkout" /\ shell.at # "trial-expired"
      BY RouteSets
    <3>. QED
      BY <2>1, <3>1, <3>2 DEF Links
  <2>3. AdminLinks \subseteq AdminPages \cup LayoutPages
    BY DEF AdminLinks, AdminPages, LayoutPages
  <2>. QED
    BY <1>3, <1>4, <2>1, <2>2, <2>3
<1>. QED
  BY <1>6, <1>7 DEF leads

-----------------------------------------------------------------------------
(* The steps. *)

LEMMA AuthsAre ==
    ASSUME visitor \in Visitors
    PROVE  /\ AuthLoading \in Auths /\ AuthOut \in Auths /\ Known \in Auths
           /\ AuthLoading.st = "loading" /\ AuthOut.st = "out" /\ Known.st = "in"
BY DEF AuthLoading, AuthOut, Known, Auths, Visitors

\* A page that is loaded has nothing to remember but what it was asked for.
LEMMA LoadedInv ==
    ASSUME visitor \in Visitors, shell \in Shells, NEW p \in Places
    PROVE  /\ Loaded(p) \in Shells /\ Loaded(p).at = p /\ Loaded(p).returnUrl = shell.returnUrl
           /\ Loaded(p).wanted = (IF p \in Protected THEN p ELSE "home")
           /\ Loaded(p).from = "home" /\ Loaded(p).auth.st = "loading"
           /\ ~Loaded(p).modal /\ Loaded(p).hops = 0
<1>. DEFINE w == IF p \in Protected THEN p ELSE "home"
            m == [shell EXCEPT !.at = p, !.code = "partial", !.hops = 0]
            t == [m EXCEPT !.from = "home", !.auth = AuthLoading, !.plan = "unknown",
                           !.modal = FALSE, !.wanted = w]
<1>1. Loaded(p) = t
  BY DEF Loaded, Mount
<1>2. "home" \in Protected /\ w \in Protected /\ AuthLoading \in Auths /\ AuthLoading.st = "loading"
  BY RouteSets, AuthsAre DEF Protected
<1>3. m \in Shells /\ m.at = p /\ m.returnUrl = shell.returnUrl /\ m.hops = 0
  BY DEF Shells
<1>. HIDE DEF m
<1>4. /\ t \in Shells /\ t.at = m.at /\ t.returnUrl = m.returnUrl /\ t.wanted = w
      /\ t.from = "home" /\ t.auth = AuthLoading /\ ~t.modal /\ t.hops = m.hops
  BY <1>2, <1>3 DEF Shells
<1>. HIDE DEF t
<1>. QED
  BY <1>1, <1>2, <1>3, <1>4

\* A page that is loaded, or a state like it.
LEMMA FreshInv ==
    ASSUME visitor' \in Visitors, shell' \in Shells, shell'.hops = 0, ~shell'.modal,
           shell'.auth.st = "loading", shell'.at # "provider",
           shell'.at \in Protected => shell'.wanted = shell'.at,
           shell'.at = "login" => shell'.from = shell'.wanted
    PROVE  ShellInd'
BY DEF ShellInd, HopsBounded, WantedKept, ModalOver

LEMMA MountIs ==
    ASSUME shell \in Shells, NEW p \in Places
    PROVE  /\ Mount(p) \in Shells /\ Mount(p).at = p /\ Mount(p).hops = 0
           /\ Mount(p).from = shell.from /\ Mount(p).wanted = shell.wanted
           /\ Mount(p).auth = shell.auth /\ Mount(p).modal = shell.modal
           /\ Mount(p).plan = shell.plan /\ Mount(p).returnUrl = shell.returnUrl
BY DEF Mount, Shells

LEMMA OpenAppInv ==
    ASSUME ShellInd, NEW p \in Places \ {"provider"}, shell' = Loaded(p), visitor' \in Visitors
    PROVE  ShellInd'
<1>1. visitor \in Visitors /\ shell \in Shells
  BY DEF ShellInd
<1>. QED
  BY <1>1, LoadedInv, FreshInv, RouteSets

LEMMA ReloadPageInv ==
    ASSUME ShellInd, ReloadPage
    PROVE  ShellInd'
<1>. DEFINE s == Loaded(shell.at)
            w == IF shell.at \in Protected THEN s.wanted ELSE shell.wanted
            t == [s EXCEPT !.from = shell.from, !.wanted = w]
<1>1. visitor \in Visitors /\ shell \in Shells /\ shell.at \in Places /\ shell.at # "provider"
  BY DEF ShellInd, Shells, ReloadPage, Usable, Shown
<1>2. shell' = t /\ visitor' = visitor
  BY DEF ReloadPage
<1>3. /\ s \in Shells /\ s.at = shell.at /\ s.auth.st = "loading" /\ ~s.modal /\ s.hops = 0
      /\ shell.at \in Protected => s.wanted = shell.at
  BY <1>1, LoadedInv
<1>. HIDE DEF s
<1>4. /\ t \in Shells /\ t.at = s.at /\ t.auth = s.auth /\ t.modal = s.modal /\ t.hops = s.hops
      /\ t.from = shell.from /\ t.wanted = w
  BY <1>1, <1>3 DEF Shells
<1>5. shell.at = "login" => shell.from = shell.wanted /\ shell.at \notin Protected
  BY RouteSets DEF ShellInd, WantedKept
<1>. HIDE DEF t
<1>. QED
  BY <1>1, <1>2, <1>3, <1>4, <1>5, FreshInv

\* What the tab learns of the account.
LEMMA LearnInv ==
    ASSUME ShellInd, UserLoads \/ PlanArrives \/ PollVerification \/ ProfileSaved
    PROVE  ShellInd'
<1>0. visitor \in Visitors /\ shell \in Shells
  BY DEF ShellInd
<1>1. visitor' \in Visitors
  BY <1>0 DEF UserLoads, PlanArrives, PollVerification, ProfileSaved, Visitors
<1>2. CASE \E a \in Auths : /\ shell' = [shell EXCEPT !.auth = a]
                            /\ a.st = "in" \/ ~shell.modal
                            /\ shell.hops = 0 \/ (shell.at = "check-email" /\ a.st = "in")
                            /\ shell.auth.st = "in" => a.st = "in"
  <2>1. PICK a \in Auths : /\ shell' = [shell EXCEPT !.auth = a]
                           /\ a.st = "in" \/ ~shell.modal
                           /\ shell.hops = 0 \/ (shell.at = "check-email" /\ a.st = "in")
                           /\ shell.auth.st = "in" => a.st = "in"
    BY <1>2
  <2>2. /\ shell' \in Shells /\ shell'.at = shell.at /\ shell'.auth = a
        /\ shell'.hops = shell.hops /\ shell'.modal = shell.modal /\ shell'.from = shell.from
        /\ shell'.wanted = shell.wanted /\ shell'.returnUrl = shell.returnUrl
    BY <1>0, <2>1 DEF Shells
  <2>3. HopsBounded(shell')
    <3>1. a.st = "loading" => shell.hops = 0
      BY <2>1 DEF ShellInd, HopsBounded
    <3>. QED
      BY <2>1, <2>2, <3>1, RouteSets DEF ShellInd, HopsBounded
  <2>4. WantedKept(shell')
    BY <2>1, <2>2 DEF ShellInd, WantedKept
  <2>5. ModalOver(shell')
    BY <2>1, <2>2 DEF ShellInd, ModalOver
  <2>. QED
    BY <1>1, <2>2, <2>3, <2>4, <2>5 DEF ShellInd
<1>3. CASE \E plan \in Plans : shell' = [shell EXCEPT !.plan = plan]
  <2>1. PICK plan \in Plans : shell' = [shell EXCEPT !.plan = plan]
    BY <1>3
  <2>2. /\ shell' \in Shells /\ shell'.at = shell.at /\ shell'.auth = shell.auth
        /\ shell'.hops = shell.hops /\ shell'.modal = shell.modal /\ shell'.from = shell.from
        /\ shell'.wanted = shell.wanted /\ shell'.returnUrl = shell.returnUrl
    BY <1>0, <2>1 DEF Shells
  <2>. QED
    BY <1>1, <2>2 DEF ShellInd, HopsBounded, WantedKept, ModalOver
<1>4. CASE UserLoads
  <2>1. shell.auth.st = "loading" /\ shell.hops = 0 /\ ~shell.modal
    BY <1>4 DEF UserLoads, ShellInd, HopsBounded, ModalOver
  <2>2. PICK a \in {Known, AuthOut} : shell' = [shell EXCEPT !.auth = a]
    BY <1>4 DEF UserLoads
  <2>. QED
    BY <1>0, <1>2, <2>1, <2>2, AuthsAre
<1>5. CASE PollVerification
  BY <1>0, <1>2, <1>5, AuthsAre DEF PollVerification
<1>6. CASE ProfileSaved
  <2>1. shell.at = "profile" /\ shell.at \in Protected
    BY <1>6, RouteSets DEF ProfileSaved, Protected
  <2>2. shell.hops = 0
    BY <2>1 DEF ShellInd, HopsBounded
  <2>. QED
    BY <1>0, <1>2, <1>6, <2>2, AuthsAre DEF ProfileSaved
<1>7. CASE PlanArrives
  <2>1. visitor.plan \in Plans /\ "none" \in Plans
    BY <1>0 DEF Visitors, Plans
  <2>2. PICK plan \in {visitor.plan, "none"} : shell' = [shell EXCEPT !.plan = plan]
    BY <1>7 DEF PlanArrives
  <2>. QED
    BY <1>3, <2>1, <2>2
<1>. QED
  BY <1>4, <1>5, <1>6, <1>7

LEMMA RedirectInv ==
    ASSUME ShellInd, Redirect
    PROVE  ShellInd'
<1>. DEFINE q == Onward(shell.at)
            m == Mount(q)
            from == IF q = "login" THEN shell.at ELSE "home"
            t == [m EXCEPT !.hops = shell.hops + 1, !.from = from]
<1>0. visitor \in Visitors /\ shell \in Shells /\ q # shell.at
  BY DEF ShellInd, Redirect
<1>1. shell.auth.st \in {"loading", "out", "in"} /\ shell.auth.verified \in BOOLEAN
  BY <1>0 DEF Shells, Auths
<1>2. \/ /\ shell.at = "check-email" /\ q = "home"
         /\ shell.auth.st = "in" /\ shell.auth.verified
      \/ /\ shell.at \in Protected
         /\ \/ shell.auth.st = "out" /\ q = "login"
            \/ shell.auth.st = "in" /\ q = "trial-expired"
            \/ shell.auth.st = "in" /\ ~shell.auth.verified /\ q = "check-email"
            \/ /\ shell.auth.st = "in" /\ shell.auth.verified /\ shell.at \notin LayoutPages
               /\ \/ ~IsAdmin /\ q = "home"
                  \/ IsAdmin /\ shell.at = "admin" /\ q = "dashboard"
  <2>. HIDE DEF q
  <2>1. shell.at \in Protected \/ shell.at = "check-email"
    BY <1>0, <1>1, OnwardIs DEF q
  <2>2. CASE shell.at = "check-email"
    BY <1>0, <1>1, <2>2, OnwardIs DEF q
  <2>3. CASE shell.at \in Protected /\ shell.auth.st # "in"
    BY <1>0, <1>1, <2>3, OnwardIs DEF q
  <2>4. CASE shell.at \in Protected /\ shell.auth.st = "in" /\ shell.plan = "expired"
    BY <1>1, <2>4, OnwardIs DEF q
  <2>5. CASE /\ shell.at \in Protected /\ shell.auth.st = "in" /\ shell.plan # "expired"
             /\ ~shell.auth.verified
    BY <1>1, <2>5, OnwardIs DEF q
  <2>6. CASE /\ shell.at \in Protected /\ shell.auth.st = "in" /\ shell.plan # "expired"
             /\ shell.auth.verified
    <3>1. q = IF shell.at \in LayoutPages THEN shell.at ELSE IF ~IsAdmin THEN "home"
              ELSE IF shell.at = "admin" THEN "dashboard" ELSE shell.at
      BY <1>1, <2>6, OnwardIs DEF q
    <3>. QED
      BY <1>0, <2>6, <3>1
  <2>. QED
    BY <1>1, <2>1, <2>2, <2>3, <2>4, <2>5, <2>6
<1>3. q \in {"login", "trial-expired", "check-email", "home", "dashboard"}
  BY <1>2
<1>. HIDE DEF q
<1>4. "home" \in Protected /\ "dashboard" \in Protected
  BY RouteSets DEF Protected
<1>5. q \in Places /\ q # "provider"
  BY <1>3, <1>4, PlacesAre
<1>6. q = "login" => shell.at \in Protected /\ shell.at = shell.wanted
  BY <1>2 DEF ShellInd, WantedKept
<1>7. from \in Protected
  BY <1>4, <1>6
<1>8. /\ m \in Shells /\ m.at = q /\ m.wanted = shell.wanted /\ m.auth = shell.auth
      /\ m.modal = shell.modal /\ m.returnUrl = shell.returnUrl
  BY <1>0, <1>5, MountIs
<1>. HIDE DEF m, from
<1>9. shell.hops \in Nat /\ shell.hops + 1 \in Nat
  BY <1>0 DEF Shells
<1>10. /\ t \in Shells /\ t.at = m.at /\ t.wanted = m.wanted /\ t.auth = m.auth
       /\ t.modal = m.modal /\ t.returnUrl = m.returnUrl /\ t.hops = shell.hops + 1
       /\ t.from = from
  BY <1>7, <1>8, <1>9 DEF Shells
<1>11. shell' = t /\ visitor' = visitor
  BY DEF Redirect, m, q, from
<1>. HIDE DEF t
<1>12. HopsBounded(t)
  <2>1. shell.auth.st # "loading"
    BY <1>2
  <2>2. CASE shell.at = "check-email"
    BY <1>2, <1>4, <1>8, <1>9, <1>10, <2>2, RouteSets DEF ShellInd, HopsBounded
  <2>3. CASE shell.at \in Protected /\ q \in {"login", "trial-expired", "check-email"}
    <3>1. shell.hops = 0 \/ (shell.hops <= 2 /\ shell.auth.verified /\ shell.auth.st = "in")
      BY <1>9, <2>3 DEF ShellInd, HopsBounded
    <3>2. q = "check-email" => shell.hops = 0
      BY <1>2, <2>3, <3>1, RouteSets
    <3>3. q \notin Protected
      BY <2>3, RouteSets
    <3>. QED
      BY <1>8, <1>9, <1>10, <2>1, <3>1, <3>2, <3>3 DEF HopsBounded
  <2>4. CASE shell.at \in Protected /\ q \in {"home", "dashboard"}
    <3>1. /\ shell.auth.st = "in" /\ shell.auth.verified /\ shell.at \notin LayoutPages
          /\ (q = "home" /\ ~IsAdmin) \/ (q = "dashboard" /\ IsAdmin /\ shell.at = "admin")
      BY <1>2, <2>4, RouteSets
    <3>2. shell.hops # 0 => shell.at = "dashboard" /\ "admin" \in shell.auth.roles
      BY <2>4, <3>1, RouteSets DEF ShellInd, HopsBounded
    <3>3. shell.hops = 0
      BY <3>1, <3>2 DEF IsAdmin
    <3>4. q # "check-email"
      BY <2>4
    <3>. QED
      BY <1>8, <1>9, <1>10, <2>4, <3>1, <3>3, <3>4 DEF HopsBounded, IsAdmin
  <2>. QED
    BY <1>2, <1>3, <2>2, <2>3, <2>4
<1>13. WantedKept(t)
  BY <1>2, <1>5, <1>6, <1>8, <1>10, RouteSets DEF WantedKept, from
<1>14. ModalOver(t)
  <2>1. shell.modal => shell.auth.st = "in" /\ q # "login"
    BY <1>2, RouteSets DEF ShellInd, ModalOver
  <2>. QED
    BY <1>3, <1>4, <1>8, <1>10, <2>1 DEF ModalOver
<1>. QED
  BY <1>0, <1>10, <1>11, <1>12, <1>13, <1>14 DEF ShellInd

\* A page that the tab goes over to, and what was asked for is what is shown.
LEMMA EnterInv ==
    ASSUME visitor' \in Visitors, shell' \in Shells, shell'.hops = 0, ~shell'.modal,
           shell'.at \in Protected => shell'.wanted = shell'.at,
           shell'.at = "login" => shell'.from = shell'.wanted,
           shell'.at = "provider" => shell'.returnUrl = shell'.wanted
    PROVE  ShellInd'
BY DEF ShellInd, HopsBounded, WantedKept, ModalOver

LEMMA FollowInv ==
    ASSUME ShellInd, NEW p \in Followed, Follow(p)
    PROVE  ShellInd'
<1>. DEFINE m == Mount(p)
            w == IF p \in Protected THEN p ELSE "home"
            t == [m EXCEPT !.from = "home", !.wanted = w]
<1>0. visitor \in Visitors /\ shell \in Shells /\ ~shell.modal
  BY DEF ShellInd, Follow, Usable
<1>1. p \in Places /\ p # "provider"
  BY PlacesAre, RoutesAssumption
<1>2. "home" \in Protected /\ w \in Protected /\ "login" \notin Protected
  BY RouteSets DEF Protected
<1>3. m \in Shells /\ m.at = p /\ m.hops = 0 /\ m.modal = shell.modal
  BY <1>0, <1>1, MountIs
<1>4. shell' = t /\ visitor' = visitor
  BY DEF Follow
<1>. HIDE DEF m
<1>5. /\ t \in Shells /\ t.at = m.at /\ t.hops = m.hops /\ t.modal = m.modal
      /\ t.from = "home" /\ t.wanted = w
  BY <1>2, <1>3 DEF Shells
<1>. HIDE DEF t
<1>. QED
  BY <1>0, <1>1, <1>2, <1>3, <1>4, <1>5, EnterInv

LEMMA HandleOAuthInv ==
    ASSUME ShellInd, HandleOAuth
    PROVE  ShellInd'
<1>. DEFINE t == [shell EXCEPT !.at = "provider", !.returnUrl = shell.from]
<1>0. visitor \in Visitors /\ shell \in Shells /\ shell.at = "login"
  BY DEF ShellInd, HandleOAuth
<1>1. shell.from \in Urls /\ shell.from = shell.wanted /\ "provider" \in Places
  BY <1>0, PlacesAre DEF ShellInd, WantedKept, Shells
<1>2. shell' = t /\ visitor' = visitor
  BY DEF HandleOAuth
<1>3. /\ t \in Shells /\ t.at = "provider" /\ t.returnUrl = shell.from /\ t.wanted = shell.wanted
      /\ t.auth = shell.auth /\ t.hops = shell.hops /\ t.modal = shell.modal
  BY <1>0, <1>1 DEF Shells
<1>. HIDE DEF t
<1>4. ~shell.modal
  BY <1>0, RouteSets DEF ShellInd, ModalOver
<1>5. HopsBounded(t)
  BY <1>3, RouteSets DEF ShellInd, HopsBounded
<1>6. WantedKept(t) /\ ModalOver(t)
  BY <1>1, <1>3, <1>4, RouteSets DEF WantedKept, ModalOver
<1>. QED
  BY <1>0, <1>2, <1>3, <1>5, <1>6 DEF ShellInd

LEMMA AuthCallbackInv ==
    ASSUME ShellInd, AuthCallback
    PROVE  ShellInd'
<1>0. visitor \in Visitors /\ shell \in Shells
  BY DEF ShellInd
<1>1. visitor' \in Visitors
  BY <1>0 DEF AuthCallback, Visitors
<1>2. CASE shell' = Loaded("callback")
  BY <1>1, <1>2, PlacesAre, OpenAppInv
<1>3. CASE shell' # Loaded("callback")
  <2>. DEFINE p == IF ~visitor.verified THEN "check-email"
                   ELSE IF shell.returnUrl = NoUrl THEN "home" ELSE shell.returnUrl
              s == Loaded(p)
              t == [s EXCEPT !.returnUrl = NoUrl]
  <2>1. shell' = t
    BY <1>3 DEF AuthCallback
  <2>2. p \in Routes /\ p # "provider" /\ p \in Places
    <3>1. "home" \in Routes /\ "check-email" \in Routes
      BY RouteSets, PlacesAre DEF Protected
    <3>2. shell.returnUrl \in Routes \cup {NoUrl}
      BY <1>0 DEF Shells, Urls
    <3>. QED
      BY <3>1, <3>2, PlacesAre
  <2>. HIDE DEF p
  <2>3. /\ s \in Shells /\ s.at = p /\ s.auth.st = "loading" /\ ~s.modal /\ s.hops = 0
        /\ s.wanted = (IF p \in Protected THEN p ELSE "home") /\ s.from = "home"
    BY <1>0, <2>2, LoadedInv
  <2>. HIDE DEF s
  <2>4. /\ t \in Shells /\ t.at = s.at /\ t.auth = s.auth /\ t.modal = s.modal
        /\ t.hops = s.hops /\ t.wanted = s.wanted /\ t.from = s.from
    BY <2>3, PlacesAre DEF Shells
  <2>. HIDE DEF t
  <2>. QED
    BY <1>1, <2>1, <2>2, <2>3, <2>4, RouteSets, FreshInv
<1>. QED
  BY <1>2, <1>3

LEMMA SignInInv ==
    ASSUME ShellInd, SignInByEmail \/ HandleRegister
    PROVE  ShellInd'
<1>. DEFINE m == Mount(shell.from)
            t == [m EXCEPT !.from = "home"]
<1>0. visitor \in Visitors /\ shell \in Shells /\ shell.at = "login"
  BY DEF ShellInd, SignInByEmail, HandleRegister
<1>1. visitor' \in Visitors
  <2>1. CASE SignInByEmail
    BY <1>0, <2>1 DEF SignInByEmail, Visitors
  <2>2. CASE HandleRegister
    <3>1. PICK roles \in RoleSets :
             visitor' = [session |-> "live", verified |-> FALSE, roles |-> roles, plan |-> "trial"]
      BY <2>2 DEF HandleRegister
    <3>. QED
      BY <3>1 DEF Visitors, Plans
  <2>. QED
    BY <2>1, <2>2
<1>2. /\ shell.from \in Protected /\ shell.from = shell.wanted /\ "home" \in Protected
      /\ shell.from \in Places /\ shell.from # "provider" /\ shell.from # "login"
  BY <1>0, RouteSets, PlacesAre DEF ShellInd, WantedKept, Shells, Protected
<1>3. ~shell.modal
  BY <1>0, RouteSets DEF ShellInd, ModalOver
<1>4. /\ m \in Shells /\ m.at = shell.from /\ m.hops = 0 /\ m.modal = shell.modal
      /\ m.wanted = shell.wanted
  BY <1>0, <1>2, MountIs
<1>5. shell' = t
  BY DEF SignInByEmail, HandleRegister
<1>. HIDE DEF m
<1>6. /\ t \in Shells /\ t.at = m.at /\ t.hops = m.hops /\ t.modal = m.modal
      /\ t.wanted = m.wanted
  BY <1>2, <1>4 DEF Shells
<1>. HIDE DEF t
<1>. QED
  BY <1>1, <1>2, <1>3, <1>4, <1>5, <1>6, EnterInv

LEMMA CodeInv ==
    ASSUME ShellInd, EnterCode \/ HandleSubmit
    PROVE  ShellInd'
<1>0. visitor \in Visitors /\ shell \in Shells /\ shell.at = "verify"
  BY DEF ShellInd, EnterCode, HandleSubmit
<1>1. visitor' \in Visitors
  BY <1>0 DEF EnterCode, HandleSubmit, Visitors
<1>2. ~shell.modal
  BY <1>0, RouteSets DEF ShellInd, ModalOver
<1>3. CASE \E c \in {"partial", "complete", "sent", "done"} : shell' = [shell EXCEPT !.code = c]
  <2>1. /\ shell' \in Shells /\ shell'.at = shell.at /\ shell'.auth = shell.auth
        /\ shell'.hops = shell.hops /\ shell'.modal = shell.modal /\ shell'.from = shell.from
        /\ shell'.wanted = shell.wanted /\ shell'.returnUrl = shell.returnUrl
    BY <1>0, <1>3 DEF Shells
  <2>. QED
    BY <1>1, <2>1 DEF ShellInd, HopsBounded, WantedKept, ModalOver
<1>4. CASE shell' = [Mount("home") EXCEPT !.from = "home", !.wanted = "home"]
  <2>. DEFINE m == Mount("home")
              t == [m EXCEPT !.from = "home", !.wanted = "home"]
  <2>1. "home" \in Protected /\ "home" \in Places
    BY RouteSets, PlacesAre DEF Protected
  <2>2. m \in Shells /\ m.at = "home" /\ m.hops = 0 /\ m.modal = shell.modal
    BY <1>0, <2>1, MountIs
  <2>. HIDE DEF m
  <2>3. /\ t \in Shells /\ t.at = "home" /\ t.hops = m.hops /\ t.modal = m.modal
        /\ t.wanted = "home"
    BY <2>1, <2>2 DEF Shells
  <2>4. shell' = t
    BY <1>4 DEF m
  <2>. HIDE DEF t
  <2>. QED
    BY <1>1, <1>2, <2>2, <2>3, <2>4, EnterInv
<1>5. CASE EnterCode
  <2>1. {"partial", "complete"} \subseteq {"partial", "complete", "sent", "done"}
    OBVIOUS
  <2>. QED
    BY <1>3, <1>5, <2>1 DEF EnterCode
<1>6. CASE HandleSubmit
  BY <1>3, <1>4, <1>6 DEF HandleSubmit
<1>. QED
  BY <1>5, <1>6

LEMMA LeavingInv ==
    ASSUME ShellInd, LeaveApp \/ ModalOpens \/ DismissModal
    PROVE  ShellInd'
<1>0. visitor \in Visitors /\ shell \in Shells
  BY DEF ShellInd
<1>1. visitor' \in Visitors
  BY <1>0 DEF LeaveApp, ModalOpens, DismissModal, Forgotten, Visitors
<1>2. CASE LeaveApp
  <2>1. "login" \in Places \ {"provider"}
    BY PlacesAre
  <2>. QED
    BY <1>1, <1>2, <2>1, OpenAppInv DEF LeaveApp
<1>3. CASE ModalOpens
  <2>1. shell.auth.st = "in" /\ shell.at \in Protected /\ shell' = [shell EXCEPT !.modal = TRUE]
    BY <1>3 DEF ModalOpens, Shown
  <2>2. /\ shell' \in Shells /\ shell'.at = shell.at /\ shell'.auth = shell.auth
        /\ shell'.hops = shell.hops /\ shell'.from = shell.from
        /\ shell'.wanted = shell.wanted /\ shell'.returnUrl = shell.returnUrl
    BY <1>0, <2>1 DEF Shells
  <2>. QED
    BY <1>1, <2>1, <2>2 DEF ShellInd, HopsBounded, WantedKept, ModalOver
<1>4. CASE DismissModal
  <2>. DEFINE s == Loaded("login")
              t == [s EXCEPT !.returnUrl = shell.at]
  <2>1. shell' = t /\ shell.modal
    BY <1>4 DEF DismissModal
  <2>2. shell.at \in Urls /\ "login" \in Places /\ "login" \notin Protected
    BY <2>1, PlacesAre, RouteSets DEF ShellInd, ModalOver
  <2>3. /\ s \in Shells /\ s.at = "login" /\ s.auth.st = "loading" /\ ~s.modal /\ s.hops = 0
        /\ s.wanted = "home" /\ s.from = "home"
    BY <1>0, <2>2, LoadedInv
  <2>. HIDE DEF s
  <2>4. /\ t \in Shells /\ t.at = s.at /\ t.auth = s.auth /\ t.modal = s.modal
        /\ t.hops = s.hops /\ t.wanted = s.wanted /\ t.from = s.from
    BY <2>2, <2>3 DEF Shells
  <2>. HIDE DEF t
  <2>. QED
    BY <1>1, <2>1, <2>2, <2>3, <2>4, FreshInv
<1>. QED
  BY <1>2, <1>3, <1>4

LEMMA AccountInv ==
    ASSUME ShellInd, AccountChanges
    PROVE  ShellInd'
<1>1. visitor' \in Visitors /\ shell' = shell
  BY DEF ShellInd, AccountChanges, Forgotten, Visitors, Plans
<1>. QED
  BY <1>1 DEF ShellInd, HopsBounded, WantedKept, ModalOver

LEMMA ShellInitInv == ShellInit => ShellInd
<1>. SUFFICES ASSUME ShellInit PROVE ShellInd
  OBVIOUS
<1>1. visitor \in Visitors
  BY DEF ShellInit, Visitors, Plans
<1>2. PICK p \in Entered :
          shell = [at |-> p, from |-> "home", auth |-> AuthLoading, plan |-> "unknown",
                   modal |-> FALSE, returnUrl |-> NoUrl, code |-> "partial", hops |-> 0,
                   wanted |-> IF p \in Protected THEN p ELSE "home"]
  BY DEF ShellInit
<1>3. /\ p \in Places /\ p # "provider" /\ "home" \in Protected /\ "login" \notin Protected
      /\ AuthLoading \in Auths /\ AuthLoading.st = "loading"
  BY <1>1, PlacesAre, RouteSets, AuthsAre, RoutesAssumption DEF Protected
<1>4. shell \in Shells
  BY <1>2, <1>3, PlacesAre DEF Shells
<1>. QED
  BY <1>1, <1>2, <1>3, <1>4 DEF ShellInd, HopsBounded, WantedKept, ModalOver

LEMMA ShellStepInv == ShellInd /\ [ShellNext]_shellVars => ShellInd'
<1>. SUFFICES ASSUME ShellInd, [ShellNext]_shellVars
              PROVE  ShellInd'
  OBVIOUS
<1>0. visitor \in Visitors
  BY DEF ShellInd
<1>1. CASE \E p \in Entered : OpenApp(p)
  <2>1. PICK p \in Entered : OpenApp(p)
    BY <1>1
  <2>2. p \in Places \ {"provider"}
    BY PlacesAre, RoutesAssumption
  <2>. QED
    BY <1>0, <2>1, <2>2, OpenAppInv DEF OpenApp
<1>2. CASE \E p \in Followed : Follow(p)
  BY <1>2, FollowInv
<1>3. CASE ReloadPage
  BY <1>3, ReloadPageInv
<1>4. CASE UserLoads \/ PlanArrives \/ PollVerification \/ ProfileSaved
  BY <1>4, LearnInv
<1>5. CASE Redirect
  BY <1>5, RedirectInv
<1>6. CASE HandleOAuth
  BY <1>6, HandleOAuthInv
<1>7. CASE AuthCallback
  BY <1>7, AuthCallbackInv
<1>8. CASE BackToSignIn
  <2>1. "login" \in Places \ {"provider"}
    BY PlacesAre
  <2>. QED
    BY <1>0, <1>8, <2>1, OpenAppInv DEF BackToSignIn, OpenApp
<1>9. CASE SignInByEmail \/ HandleRegister
  BY <1>9, SignInInv
<1>10. CASE EnterCode \/ HandleSubmit
  BY <1>10, CodeInv
<1>11. CASE LeaveApp \/ ModalOpens \/ DismissModal
  BY <1>11, LeavingInv
<1>12. CASE AccountChanges
  BY <1>12, AccountInv
<1>13. CASE UNCHANGED shellVars
  BY <1>13 DEF shellVars, ShellInd, HopsBounded, WantedKept, ModalOver
<1>. QED
  BY <1>1, <1>2, <1>3, <1>4, <1>5, <1>6, <1>7, <1>8, <1>9, <1>10, <1>11, <1>12, <1>13
  DEF ShellNext

\* In every reachable state, whatever becomes of the account meanwhile, three redirects
\* settle where a tab is, every link that a page offers opens, and a sign-in leads to
\* the page that was asked for.
THEOREM ShellInvariant == ShellSpec => []ShellInv
<1>1. ShellInd => ShellInv
  <2>. SUFFICES ASSUME ShellInd PROVE ShellInv
    OBVIOUS
  <2>1. ShellTypeOK
    BY DEF ShellInd, ShellTypeOK, Visitors, Shells, Places, Auths, Urls
  <2>2. LinksOpen
    BY LinksLead DEF ShellInd
  <2>3. RedirectsSettle /\ DeepLinkKept
    BY DEF ShellInd, HopsBounded, WantedKept, RedirectsSettle, DeepLinkKept
  <2>. QED
    BY <2>1, <2>2, <2>3 DEF ShellInv
<1>. QED
  BY <1>1, ShellInitInv, ShellStepInv, PTL DEF ShellSpec

-----------------------------------------------------------------------------
(* Preferences: every step is a change of the page, of one request, or of a *)
(* stored blob.                                                             *)

LEMMA ValueIsAny ==
    ASSUME NEW k \in Keys, NEW v \in Values[k]
    PROVE  v \in AnyValue
BY PreferencesAssumption DEF AnyValue, Range, Keys

LEMMA PrefInitInv == PrefInit => PrefInv
<1>. SUFFICES ASSUME PrefInit PROVE PrefInv
  OBVIOUS
<1>1. PICK shown \in [Live -> AnyValue] :
          page = [user |-> signedIn, live |-> shown, cached |-> Unread, read |-> Unread,
                  hydrated |-> Unread, true |-> FALSE]
  BY DEF PrefInit
<1>2. PrefTypeOK
  BY <1>1 DEF PrefInit, PrefTypeOK, Page
<1>. QED
  BY <1>1, <1>2 DEF PrefInit, PrefInv, TrueWritesOneKey, CachedIsTrue

\* A delivered blob is shown as far as it says something about a live key.
LEMMA DeliverIs ==
    ASSUME NEW p \in Page, NEW data \in Blobs, NEW b \in BOOLEAN
    PROVE  /\ Deliver(p, data, b) \in Page
           /\ Deliver(p, data, b).cached = data /\ Deliver(p, data, b).true = b
           /\ Deliver(p, data, b).hydrated = p.user /\ Deliver(p, data, b).user = p.user
           /\ p.hydrated = p.user => Deliver(p, data, b).live = p.live
<1>. DEFINE alive == [k \in Live |-> IF p.hydrated # p.user /\ data[k] # Unset
                                     THEN data[k] ELSE p.live[k]]
<1>1. alive \in [Live -> AnyValue]
  BY DEF Page, Blobs, Keys
<1>2. p.hydrated = p.user => alive = p.live
  BY DEF Page
<1>3. Deliver(p, data, b) = [p EXCEPT !.cached = data, !.true = b, !.hydrated = p.user, !.live = alive]
  BY DEF Deliver
<1>. HIDE DEF alive
<1>. QED
  BY <1>1, <1>2, <1>3 DEF Page

\* A step that leaves every blob, the requests and the account alone.
LEMMA PageStep ==
    ASSUME PrefInv, UNCHANGED <<blob, signedIn>>, page' \in Page, puts' \subseteq puts,
           page'.true => page'.cached = blob[signedIn]
    PROVE  PrefInv'
BY DEF PrefInv, PrefTypeOK, TrueWritesOneKey, CachedIsTrue

LEMMA ReadingKeeps ==
    ASSUME PrefInv, ReadProfile \/ ProfileArrives \/ ReadLost
    PROVE  PrefInv'
<1>1. page \in Page /\ blob[signedIn] \in Blobs /\ (page.true => page.cached = blob[signedIn])
  BY DEF PrefInv, PrefTypeOK, CachedIsTrue
<1>2. CASE ReadProfile
  BY <1>1, <1>2, PageStep DEF ReadProfile, Page
<1>3. CASE ReadLost
  BY <1>1, <1>3, PageStep DEF ReadLost, Page
<1>4. CASE ProfileArrives
  <2>. DEFINE d == Deliver(page, page.read, page.read = blob[signedIn])
  <2>1. page.read \in Blobs
    BY <1>1, <1>4 DEF ProfileArrives, Page
  <2>2. d \in Page /\ d.cached = page.read /\ (d.true <=> page.read = blob[signedIn])
    BY <1>1, <2>1, DeliverIs
  <2>3. page' = [d EXCEPT !.read = Unread]
    BY <1>4 DEF ProfileArrives
  <2>. HIDE DEF d
  <2>4. page' \in Page /\ page'.cached = d.cached /\ page'.true = d.true
    BY <2>2, <2>3 DEF Page
  <2>. QED
    BY <1>4, <2>2, <2>4, PageStep DEF ProfileArrives
<1>. QED
  BY <1>2, <1>3, <1>4

LEMMA ChooseKeeps ==
    ASSUME PrefInv, NEW k \in Keys, NEW v \in Values[k], Choose(k, v)
    PROVE  PrefInv'
<1>. DEFINE body == Persist(page, k, v)
            at == CHOOSE i \in 1..MaxPuts : \A p \in puts : p.at # i
            true == page.cached # Unread /\ page.true
            put == [account |-> signedIn, body |-> body, key |-> k, at |-> at, st |-> "sent", true |-> true]
<1>1. page \in Page /\ puts \subseteq Put /\ blob[signedIn] \in Blobs /\ v \in AnyValue /\ signedIn \in Accounts
  BY ValueIsAny DEF PrefInv, PrefTypeOK
<1>2. body \in Blobs
  BY <1>1 DEF Persist, Page, Blobs, NoPrefs
<1>3. at \in 1..MaxPuts
  BY DEF Choose
<1>4. ASSUME true, NEW j \in Keys \ {k} PROVE body[j] = blob[signedIn][j]
  BY <1>1, <1>4 DEF PrefInv, CachedIsTrue, Persist, Page, Blobs
<1>5. true \in BOOLEAN
  OBVIOUS
<1>6. puts' = puts \cup {put} /\ UNCHANGED <<blob, signedIn>>
  BY DEF Choose
<1>7. page' \in Page /\ page'.cached = page.cached /\ page'.true = page.true
  <2>1. CASE k \in Live
    <3>. DEFINE alive == [page.live EXCEPT ![k] = v]
    <3>1. alive \in [Live -> AnyValue]
      BY <1>1 DEF Page
    <3>2. page' = [page EXCEPT !.live = alive]
      BY <2>1 DEF Choose
    <3>. HIDE DEF alive
    <3>. QED
      BY <1>1, <3>1, <3>2 DEF Page
  <2>. QED
    BY <1>1, <2>1 DEF Choose
<1>. HIDE DEF body, at, true
<1>8. put \in Put /\ put.account = signedIn /\ put.body = body /\ put.key = k /\ put.true = true
  BY <1>1, <1>2, <1>3, <1>5 DEF Put
<1>. HIDE DEF put
<1>. QED
  BY <1>1, <1>4, <1>6, <1>7, <1>8 DEF PrefInv, PrefTypeOK, TrueWritesOneKey, CachedIsTrue

LEMMA LivePageKeeps ==
    ASSUME PrefInv, \/ \E k \in Live : \E v \in Values[k] : Toggle(k, v)
                    \/ ReopenApp
    PROVE  PrefInv'
<1>1. page \in Page /\ (page.true => page.cached = blob[signedIn]) /\ signedIn \in Accounts
  BY DEF PrefInv, PrefTypeOK, CachedIsTrue
<1>2. ASSUME NEW k \in Live, NEW v \in Values[k], Toggle(k, v) PROVE PrefInv'
  <2>. DEFINE alive == [page.live EXCEPT ![k] = v]
  <2>1. alive \in [Live -> AnyValue]
    BY <1>1, ValueIsAny DEF Page, Keys
  <2>2. page' = [page EXCEPT !.live = alive] /\ UNCHANGED <<blob, signedIn, puts>>
    BY <1>2 DEF Toggle
  <2>. HIDE DEF alive
  <2>3. page' \in Page /\ page'.cached = page.cached /\ page'.true = page.true
    BY <1>1, <2>1, <2>2 DEF Page
  <2>. QED
    BY <1>1, <2>2, <2>3, PageStep
<1>3. CASE ReopenApp
  <2>1. page' \in Page /\ ~ page'.true
    BY <1>1, <1>3 DEF ReopenApp, Page
  <2>. QED
    BY <1>3, <2>1, PageStep DEF ReopenApp
<1>. QED
  BY <1>2, <1>3

LEMMA RefreshUserKeeps ==
    ASSUME PrefInv, RefreshUser
    PROVE  PrefInv'
<1>. DEFINE p == [page EXCEPT !.user = signedIn]
<1>1. page \in Page /\ (page.true => page.cached = blob[signedIn]) /\ signedIn \in Accounts
  BY DEF PrefInv, PrefTypeOK, CachedIsTrue
<1>2. p \in Page /\ p.cached = page.cached /\ p.true = page.true
  BY <1>1 DEF Page
<1>3. page' = IF page.user # signedIn /\ page.cached # Unread THEN Deliver(p, page.cached, page.true) ELSE p
  BY DEF RefreshUser
<1>. HIDE DEF p
<1>4. page.cached # Unread => page.cached \in Blobs
  BY <1>1 DEF Page
<1>5. page.true \in BOOLEAN
  BY <1>1 DEF Page
<1>6. page' \in Page /\ page'.cached = page.cached /\ page'.true = page.true
  BY <1>2, <1>3, <1>4, <1>5, DeliverIs
<1>. QED
  BY <1>1, <1>6, PageStep DEF RefreshUser

\* Where a blob changes, nothing that spoke for its account is true any more.
LEMMA StoreKeeps ==
    ASSUME PrefInv, NEW a \in Accounts, NEW b \in Blobs, NEW S \in SUBSET Put,
           S \subseteq puts, Store(a, b), UNCHANGED signedIn,
           NEW extra \in SUBSET Put, \A p \in extra : p.st = "stored",
           puts' = Outdate(S, a, b) \cup extra
    PROVE  PrefInv'
<1>1. page \in Page /\ blob \in [Accounts -> Blobs] /\ signedIn \in Accounts
      /\ (page.true => page.cached = blob[signedIn])
  BY DEF PrefInv, PrefTypeOK, CachedIsTrue
<1>2. blob' = [blob EXCEPT ![a] = b]
  BY DEF Store
<1>3. blob' \in [Accounts -> Blobs] /\ blob'[a] = b /\ \A c \in Accounts \ {a} : blob'[c] = blob[c]
  BY <1>1, <1>2
<1>4. page' \in Page /\ page'.cached = page.cached
      /\ page'.true = (page.true /\ (a = signedIn => b = blob[a]))
  <2>. DEFINE t == page.true /\ (a = signedIn => b = blob[a])
  <2>1. t \in BOOLEAN
    OBVIOUS
  <2>2. page' = [page EXCEPT !.true = t]
    BY DEF Store
  <2>. HIDE DEF t
  <2>3. page' \in Page /\ page'.cached = page.cached /\ page'.true = t
    BY <1>1, <2>1, <2>2 DEF Page
  <2>. QED
    BY <2>3 DEF t
<1>5. ASSUME NEW q \in Outdate(S, a, b)
      PROVE  /\ q \in Put
             /\ q.true /\ q.st = "sent" => \A k \in Keys \ {q.key} : q.body[k] = blob'[q.account][k]
  <2>1. PICK p \in S : q = [p EXCEPT !.true = @ /\ (p.account = a /\ p.st = "sent" => b = blob[a])]
    BY DEF Outdate
  <2>. DEFINE t == p.true /\ (p.account = a /\ p.st = "sent" => b = blob[a])
  <2>2. t \in BOOLEAN /\ q = [p EXCEPT !.true = t] /\ p \in Put
    BY <2>1
  <2>. HIDE DEF t
  <2>3. q \in Put /\ q.true = t /\ q.st = p.st /\ q.key = p.key /\ q.body = p.body /\ q.account = p.account
    BY <2>2 DEF Put
  <2>4. p.true /\ p.st = "sent" => \A k \in Keys \ {p.key} : p.body[k] = blob[p.account][k]
    BY DEF PrefInv, TrueWritesOneKey
  <2>5. p.account \in Accounts
    BY <2>2 DEF Put
  <2>6. t /\ p.st = "sent" => p.true /\ blob'[p.account] = blob[p.account]
    BY <1>3, <2>5 DEF t
  <2>. QED
    BY <2>3, <2>4, <2>6
<1>6. PrefTypeOK'
  BY <1>1, <1>3, <1>4, <1>5 DEF PrefTypeOK
<1>7. CachedIsTrue'
  BY <1>1, <1>3, <1>4 DEF CachedIsTrue
<1>8. TrueWritesOneKey'
  BY <1>5 DEF TrueWritesOneKey
<1>. QED
  BY <1>6, <1>7, <1>8 DEF PrefInv

LEMMA RequestsKeep ==
    ASSUME PrefInv, NEW p \in puts, PutStored(p) \/ PutAnswered(p) \/ PutLost(p)
    PROVE  PrefInv'
<1>1. page \in Page /\ puts \subseteq Put /\ signedIn \in Accounts
      /\ (page.true => page.cached = blob[signedIn])
  BY DEF PrefInv, PrefTypeOK, CachedIsTrue
<1>2. p \in Put /\ p.account \in Accounts /\ p.body \in Blobs
  BY <1>1 DEF Put
<1>3. CASE PutStored(p)
  <2>. DEFINE q == [p EXCEPT !.st = "stored"]
  <2>1. q \in Put /\ q.st = "stored"
    BY <1>2 DEF Put
  <2>2. /\ Store(p.account, p.body) /\ UNCHANGED signedIn
        /\ puts' = Outdate(puts \ {p}, p.account, p.body) \cup {q}
    BY <1>3 DEF PutStored
  <2>. HIDE DEF q
  <2>3. /\ puts \ {p} \in SUBSET Put /\ puts \ {p} \subseteq puts
        /\ {q} \in SUBSET Put /\ \A r \in {q} : r.st = "stored"
    BY <1>1, <2>1
  <2>. DEFINE S == puts \ {p}
              extra == {q}
  <2>. HIDE DEF S, extra
  <2>4. /\ S \in SUBSET Put /\ S \subseteq puts
        /\ extra \in SUBSET Put /\ \A r \in extra : r.st = "stored"
        /\ puts' = Outdate(S, p.account, p.body) \cup extra
    BY <2>2, <2>3 DEF S, extra
  <2>. QED
    BY <1>2, <2>2, <2>4, StoreKeeps
<1>4. CASE PutAnswered(p)
  <2>. DEFINE d == Deliver(page, p.body, p.body = blob[signedIn])
  <2>1. d \in Page /\ d.cached = p.body /\ (d.true <=> p.body = blob[signedIn])
    BY <1>1, <1>2, DeliverIs
  <2>2. page' = d /\ puts' = puts \ {p} /\ UNCHANGED <<blob, signedIn>>
    BY <1>4 DEF PutAnswered
  <2>. HIDE DEF d
  <2>. QED
    BY <2>1, <2>2, PageStep
<1>5. CASE PutLost(p)
  BY <1>1, <1>5, PageStep DEF PutLost
<1>. QED
  BY <1>3, <1>4, <1>5

LEMMA ElsewhereKeeps ==
    ASSUME PrefInv, NEW a \in Accounts,
           \/ SignInElsewhere(a)
           \/ \E k \in Keys : \E v \in Values[k] : ChosenElsewhere(a, k, v)
    PROVE  PrefInv'
<1>1. page \in Page /\ puts \subseteq Put /\ blob \in [Accounts -> Blobs] /\ blob[a] \in Blobs
  BY DEF PrefInv, PrefTypeOK
<1>2. CASE SignInElsewhere(a)
  <2>. DEFINE t == page.cached = blob[a]
  <2>1. t \in BOOLEAN /\ page' = [page EXCEPT !.true = t]
    BY <1>2 DEF SignInElsewhere
  <2>2. signedIn' = a /\ UNCHANGED <<blob, puts>>
    BY <1>2 DEF SignInElsewhere
  <2>3. t => page.cached = blob[a]
    OBVIOUS
  <2>. HIDE DEF t
  <2>4. page' \in Page /\ page'.cached = page.cached /\ page'.true = t
    BY <1>1, <2>1 DEF Page
  <2>. QED
    BY <2>2, <2>3, <2>4 DEF PrefInv, PrefTypeOK, TrueWritesOneKey, CachedIsTrue
<1>3. ASSUME NEW k \in Keys, NEW v \in Values[k], ChosenElsewhere(a, k, v) PROVE PrefInv'
  <2>. DEFINE b == [blob[a] EXCEPT ![k] = v]
  <2>1. b \in Blobs
    BY <1>1, ValueIsAny DEF Blobs
  <2>2. Store(a, b) /\ puts' = Outdate(puts, a, b) /\ UNCHANGED signedIn
    BY <1>3 DEF ChosenElsewhere
  <2>. HIDE DEF b
  <2>. DEFINE none == {}
  <2>3. none \in SUBSET Put /\ (\A p \in none : p.st = "stored") /\ puts' = Outdate(puts, a, b) \cup none
    BY <2>2
  <2>. HIDE DEF none
  <2>4. puts \in SUBSET Put /\ puts \subseteq puts
    BY <1>1
  <2>. QED
    BY <2>1, <2>2, <2>3, <2>4, StoreKeeps
<1>. QED
  BY <1>2, <1>3

\* The preferences' invariant holds for every set of accounts, keys and values.
THEOREM PreferencesHold == PrefSpec => []PrefInv
<1>1. PrefInit => PrefInv
  BY PrefInitInv
<1>2. PrefInv /\ [PrefNext]_prefVars => PrefInv'
  <2>. SUFFICES ASSUME PrefInv, [PrefNext]_prefVars PROVE PrefInv'
    OBVIOUS
  <2>1. CASE UNCHANGED prefVars
    BY <2>1 DEF prefVars, PrefInv, PrefTypeOK, TrueWritesOneKey, CachedIsTrue
  <2>2. CASE PrefNext
    BY <2>2, ReadingKeeps, ChooseKeeps, LivePageKeeps, RefreshUserKeeps, RequestsKeep, ElsewhereKeeps
       DEF PrefNext
  <2>. QED
    BY <2>1, <2>2
<1>. QED
  BY <1>1, <1>2, PTL DEF PrefSpec

\* What the app shows changes under the reader's hand: by a choice or the toggle.
LEMMA HandChanges ==
    ASSUME PrefInv, PrefNext, NEW k \in Live,
           page'.live[k] # page.live[k], page.hydrated = page'.user
    PROVE  \/ \E p \in puts' \ puts : p.key = k
           \/ UNCHANGED <<blob, signedIn, puts>> /\ page' = [page EXCEPT !.live[k] = page'.live[k]]
<1>1. page \in Page /\ puts \subseteq Put /\ blob \in [Accounts -> Blobs] /\ signedIn \in Accounts
      /\ blob[signedIn] \in Blobs
  BY DEF PrefInv, PrefTypeOK
<1>2. ASSUME page'.live = page.live PROVE FALSE
  BY <1>2
<1>3. ASSUME NEW data \in Blobs, NEW b \in BOOLEAN, NEW p \in Page,
             p.hydrated = page.hydrated, p.live = page.live, p.user = page'.user
      PROVE  Deliver(p, data, b).live = page.live
  BY <1>3, DeliverIs
<1>4. ASSUME NEW j \in Keys, NEW v \in Values[j], Choose(j, v) PROVE \E p \in puts' \ puts : p.key = k
  <2>1. j = k
    <3>1. ASSUME j \in Live, j # k PROVE FALSE
      <4>. DEFINE alive == [page.live EXCEPT ![j] = v]
      <4>1. page' = [page EXCEPT !.live = alive]
        BY <1>4, <3>1 DEF Choose
      <4>2. alive[k] = page.live[k]
        BY <1>1, <3>1 DEF Page
      <4>. HIDE DEF alive
      <4>3. page'.live = alive
        BY <1>1, <4>1 DEF Page
      <4>. QED
        BY <4>2, <4>3
    <3>. QED
      BY <1>2, <1>4, <3>1 DEF Choose
  <2>. DEFINE at == CHOOSE i \in 1..MaxPuts : \A p \in puts : p.at # i
              put == [account |-> signedIn, body |-> Persist(page, j, v), key |-> j, at |-> at,
                      st |-> "sent", true |-> page.cached # Unread /\ page.true]
  <2>2. \A p \in puts : p.at # at
    BY <1>4 DEF Choose
  <2>3. puts' = puts \cup {put}
    BY <1>4 DEF Choose
  <2>4. put.at = at /\ put.key = j
    OBVIOUS
  <2>. HIDE DEF put, at
  <2>. QED
    BY <2>1, <2>2, <2>3, <2>4
<1>5. ASSUME NEW j \in Live, NEW v \in Values[j], Toggle(j, v)
      PROVE  UNCHANGED <<blob, signedIn, puts>> /\ page' = [page EXCEPT !.live[k] = page'.live[k]]
  <2>. DEFINE alive == [page.live EXCEPT ![j] = v]
  <2>1. page' = [page EXCEPT !.live = alive] /\ UNCHANGED <<blob, signedIn, puts>>
    BY <1>5 DEF Toggle
  <2>2. page.live \in [Live -> AnyValue]
    BY <1>1 DEF Page
  <2>3. page'.live = alive
    <3>. HIDE DEF alive
    <3>. QED
      BY <1>1, <2>1 DEF Page
  <2>4. j = k
    BY <2>2, <2>3
  <2>5. page'.live[k] = v
    BY <2>2, <2>3, <2>4
  <2>. QED
    BY <2>1, <2>4, <2>5
<1>6. ASSUME ReadProfile \/ ReadLost \/ ReopenApp \/ \E a \in Accounts : SignInElsewhere(a) PROVE FALSE
  BY <1>1, <1>2, <1>6 DEF ReadProfile, ReadLost, ReopenApp, SignInElsewhere, Page
<1>7. ASSUME ProfileArrives PROVE FALSE
  <2>. DEFINE b == page.read = blob[signedIn]
              d == Deliver(page, page.read, b)
  <2>1. page.read \in Blobs /\ b \in BOOLEAN
    BY <1>1, <1>7 DEF ProfileArrives, Page
  <2>2. d \in Page /\ d.user = page.user
    BY <1>1, <2>1, DeliverIs
  <2>3. page.user = page'.user => d.live = page.live
    BY <1>1, <1>3, <2>1
  <2>4. page' = [d EXCEPT !.read = Unread]
    BY <1>7 DEF ProfileArrives
  <2>. HIDE DEF d, b
  <2>5. page'.live = d.live /\ page'.user = d.user
    BY <2>2, <2>4 DEF Page
  <2>. QED
    BY <1>2, <2>2, <2>3, <2>5
<1>8. ASSUME NEW p \in puts, PutAnswered(p) PROVE FALSE
  <2>. DEFINE b == p.body = blob[signedIn]
  <2>1. p.body \in Blobs /\ b \in BOOLEAN
    BY <1>1 DEF Put
  <2>2. page' = Deliver(page, p.body, b)
    BY <1>8 DEF PutAnswered
  <2>. HIDE DEF b
  <2>3. page'.user = page.user
    BY <1>1, <2>1, <2>2, DeliverIs
  <2>. QED
    BY <1>1, <1>2, <1>3, <2>1, <2>2, <2>3
<1>9. ASSUME RefreshUser PROVE FALSE
  <2>. DEFINE p == [page EXCEPT !.user = signedIn]
  <2>1. p \in Page /\ p.live = page.live /\ p.user = signedIn /\ p.hydrated = page.hydrated
    BY <1>1 DEF Page
  <2>2. page' = IF page.user # signedIn /\ page.cached # Unread THEN Deliver(p, page.cached, page.true) ELSE p
    BY <1>9 DEF RefreshUser
  <2>. HIDE DEF p
  <2>3. page.true \in BOOLEAN /\ (page.cached # Unread => page.cached \in Blobs)
    BY <1>1 DEF Page
  <2>4. page'.user = signedIn
    BY <2>1, <2>2, <2>3, DeliverIs
  <2>. QED
    BY <1>2, <1>3, <2>1, <2>2, <2>3, <2>4
<1>10. ASSUME NEW a, NEW b, Store(a, b) PROVE FALSE
  <2>. DEFINE t == page.true /\ (a = signedIn => b = blob[a])
  <2>1. page' = [page EXCEPT !.true = t]
    BY <1>10 DEF Store
  <2>. HIDE DEF t
  <2>. QED
    BY <1>1, <1>2, <2>1 DEF Page
<1>11. ASSUME NEW p \in puts, PutStored(p) \/ PutLost(p) PROVE FALSE
  BY <1>2, <1>10, <1>11 DEF PutStored, PutLost
<1>12. ASSUME NEW a \in Accounts, NEW j \in Keys, NEW v \in Values[j], ChosenElsewhere(a, j, v) PROVE FALSE
  BY <1>10, <1>12 DEF ChosenElsewhere
<1>. QED
  BY <1>4, <1>5, <1>6, <1>7, <1>8, <1>9, <1>11, <1>12 DEF PrefNext

\* Once a page is hydrated, no answer takes back what the reader chose.
THEOREM ChoicesAreKept == PrefSpec => NeverClobbered
<1>. DEFINE Good == \A k \in Live : page'.live[k] # page.live[k] /\ page.hydrated = page'.user =>
          \/ \E p \in puts' \ puts : p.key = k
          \/ UNCHANGED <<blob, signedIn, puts>> /\ page' = [page EXCEPT !.live[k] = page'.live[k]]
<1>1. PrefInv /\ [PrefNext]_prefVars => [Good]_prefVars
  BY HandChanges
<1>. HIDE DEF Good
<1>2. PrefSpec => [][Good]_prefVars
  BY <1>1, PreferencesHold, PTL DEF PrefSpec
<1>. QED
  BY <1>2 DEF Good, NeverClobbered
=============================================================================
