----------------------------- MODULE Deployment -----------------------------
(***************************************************************************)
(* The identities every component of the session plane shares: wrappers    *)
(* (daemons on the users' machines), sessions (ULIDs the server mints, one *)
(* per POST /api/sessions) and the WebSocket connections between a wrapper *)
(* and the server.                                                         *)
(***************************************************************************)
CONSTANTS
  Wrappers,   \* wrapper ids, server side (the token's wrapper_id)
  Sessions,   \* session ids; a ULID is created once and never reused
  Owner,      \* Owner[s]: the wrapper that the request creating s names
  Conns,      \* connection identities; recycled once both ends are done
  NoWrapper,  \* "no entry" in the hub's sessionWrap
  NoConn      \* "no entry" in the hub's wrappers, and "not connected"

ASSUME DeploymentAssumption ==
  /\ Owner \in [Sessions -> Wrappers]
  /\ NoWrapper \notin Wrappers
  /\ NoConn \notin Conns
=============================================================================
