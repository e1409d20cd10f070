----------------------------- MODULE MCEndings ------------------------------
(***************************************************************************)
(* What must end, under the fairness of each: the waits of a page's calls  *)
(* for a refresh, the runs of the index swap, the purges and a visitor's   *)
(* stay at the page that asks to verify an address.  The four share no     *)
(* state, so a behaviour is that of one of them, chosen at the start; the  *)
(* others stay as they began.                                              *)
(***************************************************************************)
EXTENDS MCBrowserSession, EmbeddingIndex, SourcePurge, AppRoutes

CONSTANTS corpus, other, padded

VARIABLE scene

\* Two corpora, and the first one's name with blanks around it; one takes two
\* batches, the other less than one.
MCStrip == [n \in {corpus, other, padded} |-> IF n = padded THEN corpus ELSE n]
MCSize == [n \in {corpus, other, padded} |->
              IF n = corpus THEN 3 ELSE IF n = other THEN 1 ELSE 0]
MCApiCalls == {<<padded, corpus>>, <<other, corpus>>, <<other, other>>}

\* Of an admin's roles only that one matters; a researcher is one rank below, and
\* has a role the frontend does not know.
MCRoleSets == {{"researcher", "beta"}, {"admin"}}

\* A refreshUser waits for nothing but its answer.
NoPolls == \A t \in Tabs : ~ tab[t].polling

MCInit ==
    /\ scene \in {"tab", "index", "purge", "routes"}
    /\ Init /\ IndexInit /\ PurgeInit /\ ShellInit
    /\ scene # "tab" => ~ live
    /\ scene # "routes" => /\ shell.at = "verify"
                          /\ visitor.session = "none" /\ ~ visitor.verified
                          /\ "admin" \in visitor.roles

MCNext ==
    /\ \/ scene = "tab" /\ Next /\ NoPolls' /\ UNCHANGED <<indexVars, purgeVars, shellVars>>
       \/ scene = "index" /\ IndexNext /\ UNCHANGED <<vars, purgeVars, shellVars>>
       \/ scene = "purge" /\ PurgeNext /\ UNCHANGED <<vars, indexVars, shellVars>>
       \/ scene = "routes" /\ ShellNext /\ UNCHANGED <<vars, indexVars, purgeVars>>
    /\ UNCHANGED scene

\* The fair steps of the index job, of the purges and of the shell are disabled
\* where these stay as they began.
EndingsSpec ==
    /\ MCInit /\ [][MCNext]_<<scene, vars, indexVars, purgeVars, shellVars>>
    /\ IndexFairness
    /\ PurgeFairness
    /\ ShellFairness
    /\ \A t \in Tabs : \A k \in Callers : WF_vars(scene = "tab" /\ CallerProgress(t, k))
=============================================================================
