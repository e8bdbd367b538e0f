\* Two rounds of bench run under two packagings and any number of reads.
SPECIFICATION BundleSpec
CONSTANTS
  Cells = 2
  Commits = {c1}
  MaxRounds = 2
  MaxPackages = 2
INVARIANT TypeOK ClaimIsOneRound MetaNamesACommit
