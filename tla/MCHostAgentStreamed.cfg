\* Does a delegation to an agent that streams bring back its task?
CONSTANTS
  Agents = {a1}
  NoAgent = none
  MaxCalls = 1
SPECIFICATION Spec
PROPERTIES
  StreamedTaskComesBack
