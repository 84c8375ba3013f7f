-------------------------- MODULE MCRequestGroups --------------------------
(***************************************************************************)
(* Instances of RequestGroups for TLC.                                     *)
(***************************************************************************)
EXTENDS RequestGroups

CONSTANTS g1, g2

\* One download is given at start-up; the others are added by clients.
StartupOne == <<g1>>
=============================================================================
