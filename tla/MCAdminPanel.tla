---------------------------- MODULE MCAdminPanel ----------------------------
(***************************************************************************)
(* The pages of the admin panel with the handlers behind them: users and   *)
(* their roles, settings, moderation, data management and the reset        *)
(* console.  They share no state, so a behaviour is that of one of them,   *)
(* chosen at the start; the others stay as they began.                     *)
(***************************************************************************)
EXTENDS RoleSwitch, AdminConfig, SourcePurge, Moderation, ResetConsole, TLC

CONSTANTS Scenes,
          reader, admin,                      \* RoleSwitch's roles
          quota, retention, short, long,      \* AdminConfig's keys and values
          corpus, other, padded               \* SourcePurge's names

VARIABLE scene

\* The catalog also has a role that the panel's own hierarchy does not know.
MCHierarchy == <<reader, admin>>

\* The retention is the last field; one of its values takes one digit more.
\* Requests set the quota to the longer value only.
MCRank == quota :> 1 @@ retention :> 2
MCWidth == short :> 1 @@ long :> 2

\* Two corpora, and the first one's name with blanks around it; one takes two
\* batches, the other less than one.  Beside the panel, one call that the gate
\* lets through and one that it does not.
MCStrip == [n \in {corpus, other, padded} |-> IF n = padded THEN corpus ELSE n]
MCSize == corpus :> 3 @@ other :> 1 @@ padded :> 0
MCApiCalls == {<<padded, corpus>>, <<other, corpus>>}

\* Handlers, moderators and requests are told apart by nothing but their names.
PanelSymmetry == Permutations(Requests) \cup Permutations(PurgeRequests)
                 \cup Permutations(Moderators) \cup Permutations(Posts)

MCInit ==
    /\ scene \in Scenes
    /\ RoleInit /\ Init /\ PurgeInit /\ ModerationInit /\ ResetInit
    /\ scene # "roles" => \A u \in Users : roles[u] = {Admin}
    /\ scene # "settings" => \A k \in Keys : config[k] = short
    /\ scene # "settings" => file.value = Keyless

MCNext ==
    /\ \/ /\ scene = "roles" /\ RoleNext
          /\ UNCHANGED <<vars, purgeVars, moderationVars, resetVars>>
       \/ /\ scene = "settings" /\ Next
          /\ \A q \in Requests : req'[q].updates[quota] # short   \* a bound
          /\ UNCHANGED <<roleVars, purgeVars, moderationVars, resetVars>>
       \/ /\ scene = "purge" /\ PurgeNext
          /\ UNCHANGED <<roleVars, vars, moderationVars, resetVars>>
       \/ /\ scene = "moderation" /\ ModerationNext
          /\ \A m \in Moderators : desk'[m].status \in {AnyStatus, "pending"}   \* a bound
          /\ UNCHANGED <<roleVars, vars, purgeVars, resetVars>>
       \/ /\ scene = "reset" /\ ResetNext
          /\ UNCHANGED <<roleVars, vars, purgeVars, moderationVars>>
    /\ UNCHANGED scene

PanelSpec ==
    MCInit /\ [][MCNext]_<<scene, roleVars, vars, purgeVars, moderationVars, resetVars>>
=============================================================================
