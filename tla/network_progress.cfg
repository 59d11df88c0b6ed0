SPECIFICATION FairSpec
CONSTANTS
  Nsgs <- MCNsgs
  Subnets <- MCSubnets
  Lists = {"worker-list"}
  Specs <- MCNoList
  ServiceListed = TRUE
  Removable = {}
  Budget = 2
PROPERTIES BecomesReady DeletionCompletes
CHECK_DEADLOCK FALSE
