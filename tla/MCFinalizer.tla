----------------------------- MODULE MCFinalizer -----------------------------
(* HsmFinalizerCheck on the charts of four vertices below the root. *)
EXTENDS HsmFinalizerCheck
FourNames == <<"a", "b", "c", "d">>
=============================================================================
