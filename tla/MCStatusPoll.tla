--------------------------- MODULE MCStatusPoll ---------------------------
(* The polls are alike, and so are the endpoints: any exchange of them is  *)
(* a symmetry of the model.                                                *)
EXTENDS StatusPoll, TLC

Alike == Permutations(Polls) \cup Permutations(Agents)
=============================================================================
