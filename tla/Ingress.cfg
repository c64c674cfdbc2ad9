SPECIFICATION Spec
CONSTANTS
  i1 = i1
  i2 = i2
  Ingresses = {i1, i2}
  Pseudo = Pseudo
  Revisions <- MCRevisions
  InitRevisions <- MCInit
  DefaultDedicated = FALSE
  MaxUpsets = 2
SYMMETRY Symmetric
CHECK_DEADLOCK FALSE
INVARIANTS NoForgottenGap QuiescentCurrent
PROPERTIES ImplementsPublication
