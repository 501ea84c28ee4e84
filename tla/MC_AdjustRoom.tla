---------------------------- MODULE MC_AdjustRoom ----------------------------
(***************************************************************************)
(* Model-checking instance of AdjustRoom over the frames and flow records  *)
(* of MC_Egress.                                                           *)
(***************************************************************************)
EXTENDS MC_Egress, AdjustRoom

\* Datagrams with payload to move, with and without an IPv4 option word,
\* plus the frames the shared classification steps pass or drop.
InputsRoom ==
    Datagrams({5, 6}, {0, 2}, {"NONE", "PARTIAL"}, FALSE) \cup Unclassified

=============================================================================
