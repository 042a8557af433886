---------------------------- MODULE MCStatistics ----------------------------
(* Constant values for the runs of Statistics. *)
EXTENDS Statistics

ErrorOne  == {-1, 0, 1}
NoneOrSix == {0, 6}
=============================================================================
