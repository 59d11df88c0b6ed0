SPECIFICATION FairSpec
CONSTANTS
  AllDomains <- MCDomains
  Settings <- MCSettings
  Budget = 6
CHECK_DEADLOCK FALSE
INVARIANTS AtMostOneLaunch AllDomainsTried NoDomainTwice
PROPERTIES OwnDomainFirst LaunchesIfRoom
