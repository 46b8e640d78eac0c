------------------------------ MODULE PathState ------------------------------
(* The process-wide facts about the default path that bind/hako keeps in      *)
(* atomics: the interface index sockets bind to, the index whose binding the  *)
(* bearer witness has suspended, and the network half of the pause manager.   *)
(* The monitor writes all three, the witness reads them and writes the        *)
(* suspension, and the socket hook reads them on every dial.                  *)
EXTENDS Integers

CONSTANT Paths           \* the interface indices the platform can report

NoPath == 0

ASSUME PathsArePositive == Paths \subseteq Nat \ {NoPath}

VARIABLES
  publishedIndex,        \* publishedInterfaceIndex
  suspendedFor,          \* bindingSuspendedForIndex
  networkPaused,         \* the pause manager's network flag
  moves,                 \* history: identity changes of the path so far
  measuredAt             \* history: value of moves when the run that last
                         \* suspended the binding read the index

pathVars == <<publishedIndex, suspendedFor, networkPaused, moves, measuredAt>>

PathTypeOK ==
  /\ publishedIndex \in Paths \cup {NoPath}
  /\ suspendedFor \in Paths \cup {NoPath}
  /\ networkPaused \in BOOLEAN
  /\ moves \in Nat
  /\ measuredAt \in Nat

PathInit ==
  /\ publishedIndex = NoPath
  /\ suspendedFor = NoPath
  /\ networkPaused = FALSE
  /\ moves = 0
  /\ measuredAt = 0

suspendBinding(index, at) ==
  /\ suspendedFor' = index
  /\ measuredAt' = at

clearBindingSuspension ==
  /\ suspendedFor' = NoPath
  /\ measuredAt' = 0

bindingSuspended(index) == suspendedFor # NoPath /\ suspendedFor = index

(* What an applied path update makes visible to every dial before it owes     *)
(* anything: the index, the end of the suspension, the network pause.         *)
publishPath(index, identityChanged) ==
  /\ publishedIndex' = index
  /\ clearBindingSuspension
  /\ networkPaused' = (index = NoPath)
  /\ moves' = IF identityChanged THEN moves + 1 ELSE moves
==============================================================================
