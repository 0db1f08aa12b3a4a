\* A send in two parts whose room changes between them.
CONSTANTS
  c1 = c1  c2 = c2  t1 = t1  m1 = m1  s1 = s1
  Convs = {c1}
  Texts = {}
  Messages = {}
  Sends = {s1}
  ConvOf <- Together
  Parts = 2
  MaxFaults = 3
SPECIFICATION Spec
PROPERTY BlockedSendsStay
