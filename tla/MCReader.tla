------------------------------ MODULE MCReader ------------------------------
(***************************************************************************)
(* What the browser keeps for a reader: the session of its tabs, and the   *)
(* preferences.  A behaviour is that of one of the two, chosen at the      *)
(* start; the other stays as it began.                                     *)
(***************************************************************************)
EXTENDS MCBrowserSession, Preferences, FiniteSets, TLC

CONSTANTS Scenes, theme, perPage

VARIABLE scene

\* A preference that drives the app, and one that only the blob knows.
MCValues == theme :> {1, 2} @@ perPage :> {1}

\* The tabs' polls are followed beside one call at a time, two calls without polls.
\* The calls of a tab are alike.
CallSymmetry == Permutations(MCCalls)

NoPolls == \A t \in Tabs : ~ tab[t].polling
OneCall == Cardinality({k \in Tabs \X Calls : caller[k[1]][k[2]].st # "idle"}) <= 1

\* The preferences are followed for two accounts with a write at a time, and for
\* one account with two.
ReaderInit ==
    /\ scene \in Scenes
    /\ Init /\ PrefInit
    /\ scene \notin {"session", "polls"} => ~ live
    /\ scene # "accounts" =>
          /\ signedIn = CHOOSE a \in Accounts : TRUE
          /\ \A a \in Accounts \ {signedIn} : blob[a] = NoPrefs
    /\ scene \in {"session", "polls"} => page.live[theme] = 1 /\ blob[signedIn] = NoPrefs

ReaderNext ==
    /\ \/ scene = "session" /\ Next /\ NoPolls' /\ UNCHANGED prefVars
       \/ scene = "polls" /\ Next /\ OneCall' /\ UNCHANGED prefVars
       \/ scene = "accounts" /\ PrefNext /\ Cardinality(puts') <= 1 /\ UNCHANGED vars
       \/ /\ scene = "writes" /\ PrefNext /\ UNCHANGED <<vars, signedIn>>
          /\ \A a \in Accounts \ {signedIn} : blob'[a] = blob[a]
    /\ UNCHANGED scene

ReaderSpec == ReaderInit /\ [][ReaderNext]_<<scene, vars, prefVars>>
=============================================================================
