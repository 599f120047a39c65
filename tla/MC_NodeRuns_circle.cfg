SPECIFICATION Spec
CONSTANTS
  p1 = p1
  p2 = p2
  p3 = p3
  p4 = p4
  p5 = p5
  p6 = p6
  o1 = o1
  o2 = o2
  o3 = o3
  o4 = o4
  a = a
  b = b
  c = c
  None = None
  Procs <- SixProcs
  Ids <- FourIds
  Specs <- ThreeSpecs
  Scenarios <- LossyResumes
  SignalPoints <- EveryPoint
INVARIANT NoCircularWait
