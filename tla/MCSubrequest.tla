---------------------------- MODULE MCSubrequest ----------------------------
(* The instances of Subrequest that TLC checks.                             *)
EXTENDS Subrequest

MCAllTroubles == SUBSET Troubles
MCTimeslice == {{"timeslice"}}
=============================================================================
