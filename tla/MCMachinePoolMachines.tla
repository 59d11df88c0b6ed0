----------------------- MODULE MCMachinePoolMachines -----------------------
EXTENDS MachinePoolMachines

CONSTANTS a, b
=============================================================================
