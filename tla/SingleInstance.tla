--------------------------- MODULE SingleInstance ---------------------------
(***************************************************************************)
(* What the named mutex of src/src/monitor.rs (the watcher) promises to    *)
(* its users: the role is held by nobody or by one process, it is taken    *)
(* only when it is free, and it passes from one process to another only by *)
(* way of being free.  README.md, "Low-memory real-time monitoring": "It   *)
(* prevents duplicate watcher processes with a named mutex."               *)
(***************************************************************************)
CONSTANTS Processes,    \* the processes that may have the role
          Nobody        \* the value of holder when none has it

VARIABLE holder         \* the process that has the role

Init == holder = Nobody

Take(p) ==
  /\ holder = Nobody
  /\ holder' = p

Release ==
  /\ holder # Nobody
  /\ holder' = Nobody

Next == Release \/ \E p \in Processes : Take(p)

Spec == Init /\ [][Next]_holder
=============================================================================
