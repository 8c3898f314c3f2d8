SPECIFICATION FairSpec
CONSTANTS
  own = own
  other = other
  d = d
  r1 = r1
  r2 = r2
  q1 = q1
  w = w
  c1 = c1
  v1 = v1
  v2 = v2
CHECK_DEADLOCK FALSE
PROPERTIES DeviceSettles ServerSettles
