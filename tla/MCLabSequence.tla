--------------------------- MODULE MCLabSequence ---------------------------
(* Instances of LabSequence for TLC.  A tick stands for about ten seconds:  *)
(* the grace of 15 s, the health interval of 10 s and the SSH timeout of    *)
(* 22 s become 1 or 2 and the phase timeouts 1 or 2, so that a gap, a cache *)
(* and a deadline each can be met and missed by one tick.                   *)
EXTENDS LabSequence

ShortTimeout == [p \in Phases |-> 2]
BriefTimeout == [p \in Phases |-> 1]
=============================================================================
