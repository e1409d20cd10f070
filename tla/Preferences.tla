----------------------------- MODULE Preferences -----------------------------
(***************************************************************************)
(* The reader's preferences: the live theme and locale of a page           *)
(* (useTheme, i18next), their hydration from the account's stored blob     *)
(* (useProfilePreferenceSync) and the profile page's read-modify-write of  *)
(* that blob (ProfilePage.tsx, profile-client.ts).  The user-service keeps *)
(* one blob per account and replaces it whole.  A request speaks for the   *)
(* account whose token localStorage holds, which a sign-in in another tab  *)
(* changes; the page's account is the one its AuthProvider last asked for. *)
(***************************************************************************)
EXTENDS Integers, Functions

CONSTANTS Accounts,
          Live,          \* theme and language, which drive the app
          Kept,          \* the keys that only the blob knows
          Values,        \* of each key
          Unset,         \* the blob does not have the key
          Unread,       \* no blob has been read
          MaxPuts        \* writes under way at a time (a bound)

ASSUME PreferencesAssumption ==
    MaxPuts \in Nat /\ Live \cap Kept = {} /\ DOMAIN Values = Live \cup Kept

VARIABLES blob,    \* the user-service's preferences of each account
          signedIn,   \* the account of localStorage's access token
          page,    \* the tab
          puts     \* its writes under way

prefVars == <<blob, signedIn, page, puts>>

Keys == Live \cup Kept
AnyValue == UNION Range(Values)
Blobs == [Keys -> AnyValue \cup {Unset}]

Page == [user : Accounts,                     \* useAuth's user
         live : [Live -> AnyValue],           \* what the app shows
         cached : Blobs \cup {Unread},       \* the query ["profile"]
         read : Blobs \cup {Unread},         \* a GET answered but not delivered
         hydrated : Accounts \cup {Unread},  \* hydratedFor
         true : BOOLEAN]  \* cached is what the token's account has (history)

Put == [account : Accounts, body : Blobs, key : Keys, at : 1..MaxPuts,
        st : {"sent", "stored"},
        true : BOOLEAN]   \* the body still differs in the key alone (history)

PrefTypeOK ==
    /\ blob \in [Accounts -> Blobs] /\ signedIn \in Accounts
    /\ page \in Page /\ puts \subseteq Put

NoPrefs == [k \in Keys |-> Unset]

PrefInit ==
    /\ blob \in [Accounts -> {b \in Blobs : \A k \in Keys : b[k] \in Values[k] \cup {Unset}}]
    /\ signedIn \in Accounts
    /\ \E shown \in {s \in [Live -> AnyValue] : \A k \in Live : s[k] \in Values[k]} :
          \* localStorage's
          page = [user |-> signedIn, live |-> shown, cached |-> Unread, read |-> Unread,
                  hydrated |-> Unread, true |-> FALSE]
    /\ puts = {}

MutDeliver(p, data, isTrue) ==
    [p EXCEPT !.cached = data, !.true = isTrue, !.hydrated = p.user,
              !.live = [k \in Live |-> IF data[k] # Unset THEN data[k] ELSE p.live[k]]]

\* A new value for the query: the page and, once per account, the app take it on.
Deliver(p, data, isTrue) ==
    LET wake == p.hydrated # p.user
        Known(k) == IF wake /\ data[k] # Unset THEN data[k] ELSE p.live[k]
    IN [p EXCEPT !.cached = data, !.true = isTrue, !.hydrated = p.user,
                 !.live = [k \in Live |-> Known(k)]]

\* Account a's blob is now b: what was known of it may be out of date.
Store(a, b) ==
    /\ blob' = [blob EXCEPT ![a] = b]
    /\ page' = [page EXCEPT !.true = @ /\ (a = signedIn => b = blob[a])]

Outdate(set, a, b) ==
    {[p EXCEPT !.true = @ /\ (p.account = a /\ p.st = "sent" => b = blob[a])] : p \in set}

-----------------------------------------------------------------------------
\* The query is fetched: at first, and again on focus or after its stale time.
ReadProfile ==
    /\ page.read = Unread
    /\ page' = [page EXCEPT !.read = blob[signedIn]]
    /\ UNCHANGED <<blob, signedIn, puts>>

ProfileArrives ==
    /\ page.read # Unread
    /\ page' = [Deliver(page, page.read, page.read = blob[signedIn]) EXCEPT !.read = Unread]
    /\ UNCHANGED <<blob, signedIn, puts>>

ReadLost ==
    /\ page.read # Unread
    /\ page' = [page EXCEPT !.read = Unread]
    /\ UNCHANGED <<blob, signedIn, puts>>

MutPersist(p, k, v) == [NoPrefs EXCEPT ![k] = v]

\* persistPrefs: { ...prefs, ...patch }, prefs being {} before any profile.
Persist(p, k, v) == [(IF p.cached = Unread THEN NoPrefs ELSE p.cached) EXCEPT ![k] = v]

\* One of the page's selects, drawn whether the profile is there or not.
Choose(k, v) ==
    /\ \E i \in 1..MaxPuts : \A p \in puts : p.at # i
    /\ v # (IF k \in Live THEN page.live[k] ELSE IF page.cached = Unread THEN Unset ELSE page.cached[k])
    /\ puts' = puts \cup
           {[account |-> signedIn, body |-> Persist(page, k, v), key |-> k,
             at |-> CHOOSE i \in 1..MaxPuts : \A p \in puts : p.at # i, st |-> "sent",
             true |-> page.cached # Unread /\ page.true]}
    /\ page' = IF k \in Live THEN [page EXCEPT !.live[k] = v] ELSE page
    /\ UNCHANGED <<blob, signedIn>>

\* The header's toggle and the language menu change the page alone.
Toggle(k, v) ==
    /\ v # page.live[k]
    /\ page' = [page EXCEPT !.live[k] = v]
    /\ UNCHANGED <<blob, signedIn, puts>>

\* The user-service replaces the blob; requests may overtake each other.
PutStored(p) ==
    /\ p.st = "sent"
    /\ Store(p.account, p.body)
    /\ puts' = Outdate(puts \ {p}, p.account, p.body) \cup {[p EXCEPT !.st = "stored"]}
    /\ UNCHANGED signedIn

\* onSuccess puts the response into the query's cache.
PutAnswered(p) ==
    /\ p.st = "stored"
    /\ page' = Deliver(page, p.body, p.body = blob[signedIn])
    /\ puts' = puts \ {p}
    /\ UNCHANGED <<blob, signedIn>>

\* The request or the answer is lost; the live value stays.
PutLost(p) ==
    /\ puts' = puts \ {p}
    /\ UNCHANGED <<blob, signedIn, page>>

\* Another tab signs in to another account.
SignInElsewhere(a) ==
    /\ a # signedIn
    /\ signedIn' = a
    /\ page' = [page EXCEPT !.true = page.cached = blob[a]]
    /\ UNCHANGED <<blob, puts>>

\* refreshUser, after a new display name was saved: the token's account.
RefreshUser ==
    /\ page' = IF page.user # signedIn /\ page.cached # Unread
               THEN Deliver([page EXCEPT !.user = signedIn], page.cached, page.true)
               ELSE [page EXCEPT !.user = signedIn]
    /\ UNCHANGED <<blob, signedIn, puts>>

\* The reader changes a preference on another device.
ChosenElsewhere(a, k, v) ==
    LET b == [blob[a] EXCEPT ![k] = v] IN
    /\ Store(a, b)
    /\ puts' = Outdate(puts, a, b)
    /\ UNCHANGED signedIn

\* The page is loaded again, with the account its token is for.
ReopenApp ==
    /\ page' = [page EXCEPT !.user = signedIn, !.cached = Unread, !.read = Unread,
                            !.hydrated = Unread, !.true = FALSE]
    /\ puts' = {}
    /\ UNCHANGED <<blob, signedIn>>

PrefNext ==
    \/ ReadProfile \/ ProfileArrives \/ ReadLost
    \/ \E k \in Keys : \E v \in Values[k] : Choose(k, v)
    \/ \E k \in Live : \E v \in Values[k] : Toggle(k, v)
    \/ \E p \in puts : PutStored(p) \/ PutAnswered(p) \/ PutLost(p)
    \/ \E a \in Accounts : SignInElsewhere(a)
    \/ \E a \in Accounts, k \in Keys : \E v \in Values[k] : ChosenElsewhere(a, k, v)
    \/ RefreshUser \/ ReopenApp

PrefSpec == PrefInit /\ [][PrefNext]_prefVars

-----------------------------------------------------------------------------
\* A change made on the page costs another preference only if the page's copy of
\* the blob was not the account's at the time of the change, or the account's has
\* changed since: while it is, each write changes its own key.
TrueWritesOneKey ==
    \A p \in puts : p.true /\ p.st = "sent" =>
        \A k \in Keys \ {p.key} : p.body[k] = blob[p.account][k]

CachedIsTrue == page.true => page.cached = blob[signedIn]

PrefInv == PrefTypeOK /\ TrueWritesOneKey /\ CachedIsTrue

\* useProfilePreferenceSync: once the page is hydrated for its account, what the
\* app shows changes by the reader's hand only, whatever arrives in whatever order.
NeverClobbered ==
    [][\A k \in Live : page'.live[k] # page.live[k] /\ page.hydrated = page'.user =>
          \/ \E p \in puts' \ puts : p.key = k
          \/ UNCHANGED <<blob, signedIn, puts>> /\ page' = [page EXCEPT !.live[k] = page'.live[k]]]_prefVars

\* ProfilePage.tsx: "spread the current prefs and overlay the changed key(s) to
\* avoid dropping the others".
OthersNotDropped ==
    [][\A p \in puts : p \notin puts' /\ [p EXCEPT !.st = "stored"] \in puts' /\ blob' # blob =>
          \A k \in Keys \ {p.key} : blob'[p.account][k] # Unset \/ blob[p.account][k] = Unset]_prefVars
=============================================================================
