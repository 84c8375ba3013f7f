----------------------------- MODULE MCTransfer -----------------------------
(***************************************************************************)
(* Instances of Transfer for TLC: two mirrors, of which a run of the       *)
(* download uses one or both.                                              *)
(***************************************************************************)
EXTENDS Transfer, TLC

CONSTANTS w1, w2

EitherOrBoth == {{w1}, {w1, w2}}
OnlyOne == {{w1}}
OnlyBoth == {{w1, w2}}
=============================================================================
