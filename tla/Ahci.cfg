CONSTANTS
  Machines <- MCMachines
  PortSlots = 3
  MaxSpin = 2
SPECIFICATION Spec
INVARIANTS VerdictsAreTrue DmaStaysInBuffers
PROPERTY DriverEnds
CHECK_DEADLOCK FALSE
