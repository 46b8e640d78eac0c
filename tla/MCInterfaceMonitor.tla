------------------------ MODULE MCInterfaceMonitor ------------------------
(* The monitor on one physical path that comes and goes, and one resolver    *)
(* list.                                                                     *)
EXTENDS InterfaceMonitor

MCPaths == {1}
===========================================================================
