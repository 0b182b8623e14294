SPECIFICATION FairSpec
CONSTANTS
  Template <- MCTemplate
  Declared <- MCDeclared
  Kind <- MCKind
  Programs <- MCPrograms
  MaxDepth = 3
  MaxTotal = 6
INVARIANTS OneClone CallsLeadToClones ParentsCall RefusalIsEarned
PROPERTIES DrainsEnd ImplementsInstances
CHECK_DEADLOCK FALSE
