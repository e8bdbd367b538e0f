\* From nothing, through bench init and two edits, to bench validate and bench run.
SPECIFICATION Spec
CONSTANTS
  Contents <- MCContents
  MaxEdits = 2
INVARIANT TypeOK  HidesNothing ScaffoldJudged
