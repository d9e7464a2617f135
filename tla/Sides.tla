-------------------------------- MODULE Sides --------------------------------
(***************************************************************************)
(* The two providers of one synchronisation.  sync_trees calls them        *)
(* provider_a and provider_b; every per-side quantity of the other modules *)
(* is a function of the side.                                              *)
(***************************************************************************)

Sides == {"a", "b"}

Other(s) == IF s = "a" THEN "b" ELSE "a"
==============================================================================
