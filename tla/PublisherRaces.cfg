\* Two publishers that overlap, people who push meanwhile, and any one mishap.
CONSTANTS
  p1 = p1
  p2 = p2
  c1 = c1
  c2 = c2
  t1 = t1
  t2 = t2
  Publisher = {p1, p2}
  Content = {c1, c2}
  Toolchain = {t1, t2}
  BasisOf <- Basis
  Requested <- AlphaAndPatch
  MaxPushes = 1
  MaxByHand = 1
  MaxMishaps = 1
SYMMETRY Names
SPECIFICATION Spec
INVARIANTS TypeOK ReleasesMoveForward PublicationsAreWhole UnpublishedIsNoticed
PROPERTIES NothingIsOverwritten LandsOnItsSnapshots UnchangedRerunCreatesNoCommits
  HighRequestIsHonoured
\* Every run started and every push made.
CHECK_DEADLOCK FALSE
