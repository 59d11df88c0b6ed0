SPECIFICATION FairSpec
CONSTANTS
  Nsgs <- MCNsgs
  Subnets <- MCSubnets
  Lists = {"worker-list"}
  Specs <- MCWithList
  ServiceListed = TRUE
  Removable = {}
  Budget = 1
PROPERTIES DeletionCompletes
CHECK_DEADLOCK FALSE
