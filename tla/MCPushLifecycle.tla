--------------------------- MODULE MCPushLifecycle ---------------------------
(* The request slots of PushLifecycle for TLC, and its symmetries.          *)
EXTENDS PushLifecycle, TLC

TabRequests == Tab \X {"resync", "enable"}

Symmetries == Permutations(Tab) \cup Permutations(User) \cup Permutations(Endpoint)
=============================================================================
