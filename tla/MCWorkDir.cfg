SPECIFICATION Spec
CONSTANTS
  NDirs = 3
  NameLen <- Lengths
  PathMax = 7
  Args <- Paths
CONSTRAINT Goes
INVARIANT CwdIsKept
PROPERTIES PreviousFollows
