---------------------------- MODULE MCGridCampaign ----------------------------
(***************************************************************************)
(* GridCampaign for TLC.  The levels of a plan are model values: b1 is     *)
(* what a neutral plan buys, s1 what it sells; a directional plan uses     *)
(* both on its own side.                                                   *)
(***************************************************************************)
EXTENDS GridCampaign

CONSTANTS b1, s1

\* Every failure but exits that end by themselves and events that come after
\* the cleanup's grace.
MostAdversary == AdversaryMoves \ {"expire", "late"}
=============================================================================
