------------------------------ MODULE MCOnExit ------------------------------
(* Instances of OnExit and Commands for TLC: three actions, two of them with *)
(* the same priority; two commands, and a number for each of two processes   *)
(* and one more.                                                             *)
EXTENDS Commands

CONSTANTS unlink_tmp, rm_rf_dir, kill_nbd

MCActions == {unlink_tmp, rm_rf_dir, kill_nbd}
MCPrio == [a \in MCActions |-> IF a = kill_nbd THEN 100 ELSE 5000]
MCSignals == {"SIGINT", "SIGTERM", "SIGHUP"}
=============================================================================
