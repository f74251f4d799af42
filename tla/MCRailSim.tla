----------------------------- MODULE MCRailSim -----------------------------
EXTENDS RailSim
OneCrossing == << >>
DefaultLine == <<15, 15>>
ShortLine == <<2, 3>>
=============================================================================
