------------------------------ MODULE MCPackage ------------------------------
(* Two versions of a package that share one data file and own one each.    *)
EXTENDS Package, TLC

CONSTANTS a, b, c

MCData == 1 :> {a, b} @@ 2 :> {b, c}
=============================================================================
