SPECIFICATION Spec
CONSTANTS
  c1 = c1
  c2 = c2
  NPAGES = 4
  CPUs <- TwoCpus
INVARIANT
  ListSound
PROPERTY
  ImplementsFreePages
