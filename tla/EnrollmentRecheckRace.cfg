\* Two overlapping starts of a host that is not enrolled; nothing goes wrong.
CONSTANTS
  e1 = e1
  e2 = e2
  n = n
  c = c
  Process = {e1, e2}
  NoProcess = NoProcess
  KindOf <- Kinds
  EnrolledBefore = FALSE
  PollConsumes = FALSE
  Mishap = {}
  MaxMishaps = 0
  MaxBrowsers = 3
SPECIFICATION Spec
INVARIANTS OneBrowserApproval
