---------------------------- MODULE ServedIndex ----------------------------
(***************************************************************************)
(* What `isnad reindex-embeddings` promises the queries, whatever it does  *)
(* to keep the promise: from the first schema on there is an index to use; *)
(* it is only ever replaced, in one step, by one that a run has built; and *)
(* that one is complete if the run was not disturbed.                      *)
(***************************************************************************)
CONSTANTS Runs, Schema, Absent

VARIABLES served,  \* the index that queries use
          sure     \* it was put there by a run that nothing disturbed

servedVars == <<served, sure>>

ServedInit == served = Absent /\ sure = TRUE

Provide ==
    /\ served = Absent
    /\ served' = [by |-> Schema, valid |-> TRUE]
    /\ UNCHANGED sure

Replace ==
    /\ served # Absent
    /\ \E r \in Runs, complete, undisturbed \in BOOLEAN :
          /\ undisturbed => complete
          /\ served' = [by |-> r, valid |-> complete]
          /\ sure' = undisturbed

ServedSpec == ServedInit /\ [][Provide \/ Replace]_servedVars
=============================================================================
