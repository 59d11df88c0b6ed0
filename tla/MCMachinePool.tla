--------------------------- MODULE MCMachinePool ---------------------------
EXTENDS MachinePool

CONSTANTS np, np2, small, large

NoPrefix == {}
NamePrefix == {<<np, np2>>}
=============================================================================
