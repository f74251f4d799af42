--------------------------- MODULE MCRailwayLink ---------------------------
(* The Local of one crossing that sends, and one of another crossing whose  *)
(* link competes for the same connection ids.                               *)
EXTENDS RailwayLink

MCCrossing == {1, 2}
MCLocalsOf == << << 1 >>, << 3 >> >>
MCMaxEvents == << 2, 0 >>
=============================================================================
