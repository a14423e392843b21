------------------------------- MODULE MCGroup -------------------------------
(* Instances for TLC. *)
EXTENDS HsmGroupProps, TLC

CONSTANTS a, b, g1, g2

PairMembers == <<a, b>>
PairClient  == GroupCall \X DOMAIN PairMembers
CallSymmetry == Permutations(GroupCall)
=============================================================================
