SPECIFICATION Spec
CONSTANTS
  driver = driver
  otherDriver = otherDriver
  finalizer = finalizer
  otherFinalizer = otherFinalizer
  Builders <- MCBuilders
  Finalizers <- MCFinalizers
  NoOne = NoOne
  Missing = Missing
  Unreadable = Unreadable
INVARIANTS
  HeldFromInside
PROPERTIES
  OwnersAreExclusive
