\* A chain with a payment.
CONSTANTS
  b1 = b1  b2 = b2  b3 = b3  b4 = b4  c1 = c1  c2 = c2  c3 = c3  c4 = c4
  x = x  y = y  p = p
  NumInputs = 3
  Key = {c1, c2, c3, c4, x, y, p}
  MapsTo <- MCMapsTo  Body <- MCBody  Fund = c1
SPECIFICATION RingSpec
PROPERTY
  SignEnds
