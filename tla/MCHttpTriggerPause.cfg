\* Is a pause for user input visible in the final task?
CONSTANTS
  Requests = {r1}
  NoId = noId
SPECIFICATION Spec
INVARIANTS
  PauseIsVisible
CHECK_DEADLOCK FALSE
