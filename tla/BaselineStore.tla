--------------------------- MODULE BaselineStore ---------------------------
(***************************************************************************)
(* What lab-dashboard-baseline promises its callers: handed observations   *)
(* of windows, it adds, at once, each agent's windows that are newer than  *)
(* the newest it has folded for that agent, and counts them; no window is  *)
(* counted twice and none is taken back, but by a call that could not read *)
(* the file: that begins anew with what it was handed.                     *)
(***************************************************************************)
EXTENDS Integers, FiniteSets

CONSTANTS Agents, Epochs      \* the endpoints' names, the windows' epochs

VARIABLES
  store,     \* what is known of each agent
  unread     \* whether a call is in progress that could not read the store

Observations == Agents \X Epochs
Entries == [windows: Nat, last: Nat]
Empty == [a \in Agents |-> [windows |-> 0, last |-> 0]]

\* The windows of agent a in obs that are newer than the window n.
Newer(n, a, obs) == {e \in Epochs : <<a, e>> \in obs /\ e > n}

Newest(n, new) == IF new = {} THEN n ELSE CHOOSE e \in new : \A f \in new : f <= e

Folded(s, obs) ==
  [a \in Agents |-> LET new == Newer(s[a].last, a, obs)
                    IN  [windows |-> s[a].windows + Cardinality(new),
                         last |-> Newest(s[a].last, new)]]

Init == store = Empty /\ unread = FALSE

\* A call begins, or ends without having folded anything.
Reads == unread' \in BOOLEAN /\ UNCHANGED store

Fold(obs) == store' = Folded(store, obs) /\ ~unread /\ UNCHANGED unread

StartsOver(obs) ==
  /\ unread /\ obs # {}
  /\ store' = Folded(Empty, obs)
  /\ unread' = FALSE

Next == Reads \/ \E obs \in SUBSET Observations : Fold(obs) \/ StartsOver(obs)

Spec == Init /\ [][Next]_<<store, unread>>
=============================================================================
