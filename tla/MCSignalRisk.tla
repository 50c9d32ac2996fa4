---------------------------- MODULE MCSignalRisk ----------------------------
(***************************************************************************)
(* SignalRisk on small sets.  Symbols are interchangeable in it: no        *)
(* operator chooses one of them, so they are a symmetry set.               *)
(***************************************************************************)
EXTENDS SignalRisk, TLC

CONSTANTS long, range

\* One position of a neutral market; one for each symbol of a directional one.
SmallDeployments ==
  {[maxPositions |-> 1, setups |-> {range}], [maxPositions |-> 2, setups |-> {long}]}

SymbolPermutations == Permutations(Symbols)
=============================================================================
