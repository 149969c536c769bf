SPECIFICATION FairSpec
CONSTANTS
  Components <- MCChain
  Decl <- MCChainDecl
  MaxFaults = 2
INVARIANTS TypeOK DependenciesFirst KeystoneFirst GoesOn NoImpossibleCondition
PROPERTIES UpSucceeds
