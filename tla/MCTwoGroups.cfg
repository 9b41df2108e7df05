SPECIFICATION FairSpec
CONSTANT
  Texts <- MCTwoGroups
INVARIANT
  OneTreeAtRoot
