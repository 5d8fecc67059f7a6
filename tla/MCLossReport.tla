---------------------------- MODULE MCLossReport -----------------------------
(* Values for the constants of LossReport. *)
EXTENDS LossReport

MCTags == (0..MaxSessions) \X (0..3)
MCNoTag == <<0, 0>>
=============================================================================
