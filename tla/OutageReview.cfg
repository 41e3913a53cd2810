\* As documented, persistent failures get a review: a second outage gets none.
SPECIFICATION Spec
CONSTANTS
  ServiceCount = 1
  Loop = {l1}
  Request = {}
  Threshold = {2}
  CountMax = 2
  FaultMax = 0
PROPERTIES
  EveryOutageIsReviewed
