SPECIFICATION Spec
CONSTANTS
  Sessions = {s1}
  RailMax = 1
  MaxPresses = 1
PROPERTIES NoForkingLink
