SPECIFICATION FairSpec
CONSTANT MaxFaults = 4
INVARIANTS TypeOK GateShutFor2FA
PROPERTIES ResumesConnected DeadSessionHalts Reconnects
