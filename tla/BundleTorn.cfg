\* A bundle without the end of its gzip stream is read with a raw EOFError.
SPECIFICATION BundleSpec
CONSTANTS
  Cells = 1
  Commits = {c1}
  MaxRounds = 1
  MaxPackages = 1
INVARIANT ReaderNeverRaw
