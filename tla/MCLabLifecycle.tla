--------------------------- MODULE MCLabLifecycle ---------------------------
(* The lab of lab.config.json: the full profile's three VMs in their order. *)
EXTENDS LabLifecycle

CONSTANTS manager, win, linux

FullOrder == <<manager, win, linux>>
=============================================================================
