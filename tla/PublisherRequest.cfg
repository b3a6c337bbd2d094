\* One publisher; hub.yaml first at 1.0.0-alpha, then at 1.0.0.
CONSTANTS
  p1 = p1
  p2 = p2
  c1 = c1
  c2 = c2
  t1 = t1
  t2 = t2
  Publisher = {p1}
  Content = {c1, c2}
  Toolchain = {t1}
  BasisOf <- Basis
  Requested <- AlphaAndFinal
  MaxPushes = 1
  MaxByHand = 0
  MaxMishaps = 0
SPECIFICATION Spec
PROPERTY RequestIsHonoured
CHECK_DEADLOCK FALSE
