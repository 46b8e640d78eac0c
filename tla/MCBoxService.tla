----------------------------- MODULE MCBoxService -----------------------------
(* The names of two tun descriptors: the next OpenTun may start before the    *)
(* reaper has closed what the last one gave.                                  *)
EXTENDS BoxService
MCOpens == {1, 2}
==============================================================================
