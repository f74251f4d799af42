CONSTANT GEN_MOD = 2
SPECIFICATION FairSpec
INVARIANTS TypeOK GateDownForTrain RoadWarned LocalsHeld Supervised ClearedWaits
PROPERTIES FaultGenuine GateComesDown
