------------------------------- MODULE MCFollowUp -------------------------------
(* Instances of FollowUp for TLC.                                          *)
EXTENDS FollowUp
=============================================================================
