--------------------------- MODULE MCPauseLifecycle ---------------------------
(* One service with overlapping calls for the backstop; two services whose    *)
(* calls never overlap for what Close wakes.                                  *)
EXTENDS PauseLifecycle
==============================================================================
