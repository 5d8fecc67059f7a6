--------------------------- MODULE MCHostSession ----------------------------
(* Values of the constants of HostSession for TLC. *)
EXTENDS HostSession

MCTags == (0..MaxSessions) \X (0..3)
MCNoTag == <<0, 0>>
=============================================================================
