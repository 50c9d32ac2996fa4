---------------------------- MODULE MCWalkForward ----------------------------
(***************************************************************************)
(* WalkForward with folds that overlap, touch or leave gaps, a warm-up     *)
(* within the train window or as long as it, and folds without trades.     *)
(***************************************************************************)
EXTENDS WalkForward

SmallConfigs ==
  [train : {2}, test : {2}, step : {1, 2, 3}, warmup : {1, 2}, trades : {1}, hold : {2}]
    \cup {[train |-> 3, test |-> 3, step |-> 3, warmup |-> 5, trades |-> 1, hold |-> 2]}
=============================================================================
