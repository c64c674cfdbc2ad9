SPECIFICATION FairSpec
CONSTANTS
  i1 = i1
  i2 = i2
  Ingresses = {i1}
  Pseudo = Pseudo
  Revisions <- MoreRevisions
  InitRevisions <- MCInit
  DefaultDedicated = FALSE
  MaxUpsets = 2
CHECK_DEADLOCK FALSE
PROPERTIES ConfigSettles SharedStatusSettles
