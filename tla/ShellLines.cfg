SPECIFICATION FairSpec
CONSTANTS
  Lines <- AllLines
  Fallible <- ShortLines
  NITEMS = 2
  OldFiles <- Held
  PIPESIZE = 1
INVARIANTS
  Wired
  PromptAlone
  LineComputes
PROPERTY
  PromptReturns
