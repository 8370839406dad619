\* Two agents, known from the start or registered later, in turns of up to
\* two answers with up to two tool calls each.
CONSTANTS
  Agents = {a1, a2}
  NoAgent = none
  MaxCalls = 2
SPECIFICATION Spec
SYMMETRY Symmetry
INVARIANTS
  PauseReturnsToUser
  PausedAgentIsCurrent
  HostInv
PROPERTIES
  ResultIsTheRemotes
