---------------------------- MODULE ResetConsole ----------------------------
(***************************************************************************)
(* The pipeline reset page (pages/admin/ResetPage.tsx) and its requests    *)
(* (api/admin-client.ts) to the ingest platform, another service: a modal  *)
(* for one target runs a dry run, shows it, and then runs the reset.  The  *)
(* modal may be closed while a request is under way; the request goes on.  *)
(***************************************************************************)
EXTENDS Integers, FiniteSets

CONSTANTS Targets,   \* a stage, a source, or Full
          Full,
          Posts,     \* identities of requests
          Shut       \* no modal

ASSUME ResetAssumption == Full \in Targets /\ Shut \notin Posts

VARIABLES modal,  \* the modal that is open
          posts,  \* the requests
          wiped   \* real runs of each target, up to two (history)

resetVars == <<modal, posts, wiped>>

Outcomes == {"done", "refused", "lost"}

Modal ==
    [target : Targets, preview : Targets \cup {Shut}, executed : Targets \cup {Shut},
     typed : BOOLEAN,    \* OBLITERATE is in the input
     waits : Posts \cup {Shut}, error : BOOLEAN,
     ran : 0..2,         \* real runs since the modal was opened (history)
     clicks : 0..2]      \* and the clicks that asked for them (history)

\* again: sent a second time, after a 401 and a refresh.  seen: when the admin
\* clicked, the target's preview was shown and, for Full, the word typed (history).
Post ==
    [st : {"idle", "sent", "expired"} \cup Outcomes, target : Targets, dry : BOOLEAN,
     again : BOOLEAN, seen : BOOLEAN, ran : 0..2]

NoPost == [st |-> "idle", target |-> Full, dry |-> TRUE, again |-> FALSE, seen |-> FALSE, ran |-> 0]

More(n) == IF n < 2 THEN n + 1 ELSE n

ResetInit ==
    /\ modal = Shut /\ posts = [p \in Posts |-> NoPost] /\ wiped = [t \in Targets |-> 0]

-----------------------------------------------------------------------------
(* The page and its modal *)

\* One of the three buttons, behind the overlay while a modal is open.
OpenReset(t) ==
    /\ modal = Shut
    /\ modal' = [target |-> t, preview |-> Shut, executed |-> Shut, typed |-> FALSE,
                 waits |-> Shut, error |-> FALSE, ran |-> 0, clicks |-> 0]
    /\ UNCHANGED <<posts, wiped>>

\* Cancel, Close or Escape, at any time.
CloseReset == modal # Shut /\ modal' = Shut /\ UNCHANGED <<posts, wiped>>

TypeToken ==
    /\ modal # Shut /\ modal.executed = Shut /\ modal.preview # Shut /\ modal.target = Full
    /\ modal' = [modal EXCEPT !.typed = ~@]
    /\ UNCHANGED <<posts, wiped>>

\* runDryRun and runConfirm
Send(p, dry, seen) ==
    /\ modal.waits = Shut /\ posts[p].st = "idle"
    /\ posts' = [posts EXCEPT ![p] = [st |-> "sent", target |-> modal.target, dry |-> dry,
                                      again |-> FALSE, seen |-> seen, ran |-> 0]]
    /\ modal' = [modal EXCEPT !.waits = p, !.error = FALSE,
                              !.clicks = IF dry THEN @ ELSE More(@)]
    /\ UNCHANGED wiped

RunDryRun(p) == modal # Shut /\ modal.executed = Shut /\ Send(p, TRUE, FALSE)

RunConfirm(p) ==
    /\ modal # Shut /\ modal.executed = Shut /\ modal.preview # Shut
    /\ modal.target = Full => modal.typed
    /\ Send(p, FALSE, modal.preview = modal.target /\ (modal.target = Full => modal.typed))

-----------------------------------------------------------------------------
(* The requests *)

\* The ingest platform runs what is asked (a dry run changes nothing) and answers,
\* refuses, or finds the access token expired.  The answer may be lost.
PlatformRuns(p) ==
    /\ posts[p].st = "sent"
    /\ LET n == IF posts[p].dry THEN 0 ELSE 1
       IN /\ posts' = [posts EXCEPT ![p].st = "done", ![p].ran = @ + n]
          /\ wiped' = [wiped EXCEPT ![posts[p].target] = IF n = 1 THEN More(@) ELSE @]
          /\ modal' = IF modal # Shut /\ modal.waits = p /\ n = 1
                      THEN [modal EXCEPT !.ran = More(@)] ELSE modal

PlatformRefuses(p) ==
    /\ posts[p].st = "sent"
    /\ posts' = [posts EXCEPT ![p].st = IF posts[p].again THEN "refused" ELSE "expired"]
    /\ UNCHANGED <<modal, wiped>>

\* A refusal that is no 401.
PlatformRejects(p) ==
    /\ posts[p].st = "sent" /\ posts' = [posts EXCEPT ![p].st = "refused"]
    /\ UNCHANGED <<modal, wiped>>

\* fetchWithRefresh: one refresh, one retry.
Retry(p) ==
    /\ posts[p].st = "expired"
    /\ \/ posts' = [posts EXCEPT ![p].st = "sent", ![p].again = TRUE]
       \/ posts' = [posts EXCEPT ![p].st = "refused"]
    /\ UNCHANGED <<modal, wiped>>

Lost(p) ==
    /\ posts[p].st \in {"sent", "done", "refused"} /\ posts' = [posts EXCEPT ![p].st = "lost"]
    /\ UNCHANGED <<modal, wiped>>

MutAnswered(p) ==
    /\ posts[p].st \in Outcomes
    /\ posts' = [posts EXCEPT ![p] = NoPost]
    /\ modal' = IF modal = Shut THEN modal
                ELSE IF posts[p].st # "done" THEN [modal EXCEPT !.waits = Shut, !.error = TRUE]
                ELSE IF posts[p].dry THEN [modal EXCEPT !.waits = Shut, !.preview = posts[p].target]
                ELSE [modal EXCEPT !.waits = Shut, !.executed = posts[p].target]
    /\ UNCHANGED wiped

\* The answer reaches the modal that asked, if it is still there.
Answered(p) ==
    /\ posts[p].st \in Outcomes
    /\ posts' = [posts EXCEPT ![p] = NoPost]
    /\ modal' = IF modal = Shut \/ modal.waits # p THEN modal
                ELSE IF posts[p].st # "done" THEN [modal EXCEPT !.waits = Shut, !.error = TRUE]
                ELSE IF posts[p].dry THEN [modal EXCEPT !.waits = Shut, !.preview = posts[p].target]
                ELSE [modal EXCEPT !.waits = Shut, !.executed = posts[p].target]
    /\ UNCHANGED wiped

ResetNext ==
    \/ \E t \in Targets : OpenReset(t)
    \/ CloseReset \/ TypeToken
    \/ \E p \in Posts :
          \/ RunDryRun(p) \/ RunConfirm(p)
          \/ PlatformRuns(p) \/ PlatformRefuses(p) \/ PlatformRejects(p)
          \/ Retry(p) \/ Lost(p) \/ Answered(p)

ResetSpec == ResetInit /\ [][ResetNext]_resetVars

-----------------------------------------------------------------------------
ResetTypeOK ==
    /\ modal \in Modal \cup {Shut} /\ posts \in [Posts -> Post] /\ wiped \in [Targets -> 0..2]

\* Nothing is wiped without a preview of that target, shown in the modal that the
\* reset was confirmed in, and OBLITERATE typed there for a full reset.
WipeWasPreviewed == \A p \in Posts : ~posts[p].dry => posts[p].seen

\* A click runs a reset once, however often the request is sent: the retry after a
\* 401 follows a request that ran nothing.
OncePerClick ==
    /\ \A p \in Posts : posts[p].ran <= 1
    /\ modal # Shut /\ modal.clicks < 2 => modal.ran <= modal.clicks

\* What a modal says was executed has been, and its preview and its result are those
\* of its own target: no answer for a modal that was closed reaches the next one.
ResultIsOwn ==
    modal # Shut =>
        /\ modal.preview \in {modal.target, Shut} /\ modal.executed \in {modal.target, Shut}
        /\ modal.executed # Shut => modal.ran > 0 /\ wiped[modal.target] > 0
        /\ modal.waits # Shut => posts[modal.waits].target = modal.target

ResetInv == ResetTypeOK /\ WipeWasPreviewed /\ OncePerClick /\ ResultIsOwn
=============================================================================
