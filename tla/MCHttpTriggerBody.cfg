\* Is every reply a JSON-RPC response, or a stream of them, with the request's id?
CONSTANTS
  Requests = {r1}
  NoId = noId
SPECIFICATION Spec
INVARIANTS
  RepliesAreJsonRpc
CHECK_DEADLOCK FALSE
