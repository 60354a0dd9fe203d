CONSTANTS
  here = here
  NoDir = NoDir
  Names <- MCNames
  Indices <- MCIndices
  Texts <- MCTexts
  Numbers <- MCNumbers
  Lists <- MCLists
  Files <- MCFiles
  Dirs <- MCDirs
  MaxParam = 2
  MaxNamLen = 3
  MaxLine = 10

SPECIFICATION Spec

INVARIANTS
  WhatIsSetIsRead
  OthersUntouched
  PathIsCurrent
  AllOrNothing

CHECK_DEADLOCK FALSE
