SPECIFICATION Spec
CONSTANTS
  Nsgs <- MCNsgs
  Subnets <- MCSubnets
  Lists = {"worker-list"}
  Specs <- MCAll
  ServiceListed = TRUE
  Removable = {"worker-list", "worker-nsg"}
  Budget = 3
INVARIANTS TypeOK NoDuplicates NoOrphans ReadyMeansBuilt Settled
PROPERTIES IdsSticky
CHECK_DEADLOCK FALSE
