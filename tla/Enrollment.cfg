\* A start, an enroll command and a collector overlap, with any one mishap, against
\* a service that hands out a credential once.
CONSTANTS
  e1 = e1
  e2 = e2
  n = n
  c = c
  Process = {e1, n, c}
  NoProcess = NoProcess
  KindOf <- Kinds
  EnrolledBefore = FALSE
  PollConsumes = TRUE
  Mishap = {"death", "no browser", "expiry", "revocation", "reset"}
  MaxMishaps = 1
  MaxBrowsers = 5
SPECIFICATION FairSpec
INVARIANTS TypeOK LeaderRecordsItsOwnSession RunAsksTwiceAtMost
PROPERTY EventuallyEnrolled
