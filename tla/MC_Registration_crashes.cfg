SPECIFICATION Spec
CONSTANTS
  c1 = c1
  c2 = c2
  Children <- TwoChildren
  MaxErrors = 3
  MaxCrashes = 3
PROPERTIES ImplementsAtomicRegistration LockIsLetGo
