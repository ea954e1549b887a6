CONSTANTS
  Block <- MCBlock
  Entry = 1
  NoBlock = NoBlock
  Cfgs <- MCCfgs
SPECIFICATION FairSpec
INVARIANTS
  TypeOK
  ReachableExact
  NoDominatorLost
  DominatorsExact
  DominatorTreeExact
  FrontierExact
PROPERTIES
  DominatorsShrink
  Terminates
