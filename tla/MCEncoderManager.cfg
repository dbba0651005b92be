CONSTANTS
  Knobs = {left, right}
  MaxCoord = 2
  MaxShaft = 4
SPECIFICATION Spec
PROPERTIES FollowsShaft CatchesUp
