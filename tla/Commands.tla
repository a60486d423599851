------------------------------ MODULE Commands ------------------------------
(***************************************************************************)
(* run_commands of mltools/tools_utils.ml, in a tool that has exit actions *)
(* (OnExit), one of which kills a helper process, such as nbdkit, that the *)
(* tool has started.  The commands run at the same time; one wait for any  *)
(* child collects them, and would collect the helper too.  The kernel may  *)
(* give the number of a process that has been waited for to another one.   *)
(***************************************************************************)
EXTENDS OnExit

CONSTANTS
  Kill,        (* the exit action of On_exit.kill                            *)
  Cmds,        (* how many commands are run                                  *)
  Codes,       (* exit codes of commands                                     *)
  Pids         (* process numbers                                            *)

VARIABLES
  phase,       (* of run_commands: "idle", "run", "wait", "returned"; "left" *)
               (* when the program has gone over to its exit actions         *)
  res,         (* the array of exit codes                                    *)
  pids,        (* <<index, pid>> of the commands that have not been reaped   *)
  procs,       (* the process with each number                               *)
  helper,      (* the pid that is registered to be killed, or NoPid          *)
  outcome,     (* history: how each command really ended                     *)
  reaped,      (* history: the helper has been waited for                    *)
  hit          (* history: the kill has reached somebody else's process      *)

commandVars == <<phase, res, pids, procs, helper, outcome, reaped, hit>>

NoPid == "nopid"
Free  == [who |-> "nobody", idx |-> 0, code |-> "none"]
Running(who, i) == [who |-> who, idx |-> i, code |-> "running"]

CommandsInit ==
  /\ Init
  /\ phase = "idle" /\ res = <<>> /\ pids = {}
  /\ procs = [p \in Pids |-> Free]
  /\ helper = NoPid
  /\ outcome = <<>> /\ reaped = FALSE /\ hit = FALSE

(* The program goes over to its exit actions, and never comes back: of its   *)
(* memory and its processes only the helper matters from here on.  Commands  *)
(* that run are left running.                                                *)
Leave ==
  /\ phase' = "left"
  /\ res' = <<>> /\ outcome' = <<>> /\ pids' = {}
  /\ procs' = [p \in Pids |-> IF p = helper THEN procs[p] ELSE Free]
  /\ UNCHANGED <<helper, reaped, hit>>

-----------------------------------------------------------------------------
(* The rest of the tool                                                     *)

StartHelper(p) ==
  /\ running = "main" /\ helper = NoPid /\ procs[p] = Free
  /\ helper' = p
  /\ procs' = [procs EXCEPT ![p] = Running("helper", 0)]
  /\ UNCHANGED <<vars, phase, res, pids, outcome, reaped, hit>>

(* The kill is registered once there is something to kill.                   *)
RegisterAction(a) ==
  /\ Push(a)
  /\ a = Kill => helper # NoPid
  /\ UNCHANGED commandVars

-----------------------------------------------------------------------------
(* run_commands                                                             *)

(* List.mapi over the commands; do_run finds the executable and starts it.   *)
StartCommand(p) ==
  /\ running = "main" /\ phase \in {"idle", "run"} /\ Len(res) < Cmds
  /\ procs[p] = Free
  /\ LET i == Len(res) + 1
     IN  /\ procs' = [procs EXCEPT ![p] = Running("command", i)]
         /\ pids' = pids \cup {<<i, p>>}
  /\ res' = Append(res, "exit0") /\ outcome' = Append(outcome, "running")
  /\ phase' = "run"
  /\ UNCHANGED <<vars, helper, reaped, hit>>

(* Executable_not_found, or ENOENT: 127 stands for the command's exit code.  *)
NotFound ==
  /\ running = "main" /\ phase \in {"idle", "run"} /\ Len(res) < Cmds
  /\ res' = Append(res, "exit127") /\ outcome' = Append(outcome, "exit127")
  /\ phase' = "run"
  /\ UNCHANGED <<vars, pids, procs, helper, reaped, hit>>

(* Any other error of fork or exec is an exception that nothing catches.     *)
StartFails ==
  /\ phase \in {"idle", "run"} /\ Len(res) < Cmds
  /\ Exit /\ Leave

Started ==
  /\ running = "main" /\ phase = "run" /\ Len(res) = Cmds
  /\ phase' = "wait"
  /\ UNCHANGED <<vars, res, pids, procs, helper, outcome, reaped, hit>>

Waited(p) ==
  /\ running = "main" /\ phase = "wait" /\ pids # {}
  /\ procs[p].code \notin {"none", "running"}
  /\ procs' = [procs EXCEPT ![p] = Free]
  /\ reaped' = (reaped \/ procs[p].who = "helper")

(* Mutated: the codes are stored in the order in which the commands end.     *)
ReapFirst(p) ==
  /\ Waited(p)
  /\ procs[p].code # "signal"
  /\ LET ended == {c \in pids : c[2] = p}
     IN  /\ pids' = pids \ ended
         /\ res' = [i \in DOMAIN res |->
              IF ended # {} /\ i = Cmds + 1 - Cardinality(pids) THEN procs[p].code ELSE res[i]]
  /\ UNCHANGED <<vars, phase, helper, outcome, hit>>

(* waitpid [] 0, and do_teardown of the command with this pid; a child that  *)
(* is not one of the commands is forgotten.                                  *)
Reap(p) ==
  /\ Waited(p)
  /\ LET ended == {c \in pids : c[2] = p}
     IN  /\ procs[p].code = "signal" => ended = {}
         /\ pids' = pids \ ended
         /\ res' = [i \in DOMAIN res |-> IF <<i, p>> \in ended THEN procs[p].code ELSE res[i]]
  /\ UNCHANGED <<vars, phase, helper, outcome, hit>>

(* A command that was killed by a signal is an error, which exits.           *)
ReapKilled(p) ==
  /\ phase = "wait" /\ procs[p].code = "signal" /\ \E c \in pids : c[2] = p
  /\ Exit /\ Leave

Return ==
  /\ running = "main" /\ phase = "wait" /\ pids = {}
  /\ phase' = "returned"
  /\ UNCHANGED <<vars, res, pids, procs, helper, outcome, reaped, hit>>

-----------------------------------------------------------------------------
(* Other processes                                                          *)

(* Only before the tool exits: what ends later is not waited for.            *)
ChildEnds(p) ==
  /\ running = "main"
  /\ procs[p].code = "running" /\ procs[p].who # "stranger"
  /\ \E code \in Codes \cup {"signal"} :
       /\ procs' = [procs EXCEPT ![p].code = code]
       /\ outcome' = IF procs[p].who = "helper" THEN outcome
                     ELSE [outcome EXCEPT ![procs[p].idx] = code]
  /\ UNCHANGED <<vars, phase, res, pids, helper, reaped, hit>>

(* Other processes with other numbers make no difference.                    *)
StrangerStarts(p) ==
  /\ running # "dead"
  /\ p = helper /\ procs[p] = Free
  /\ procs' = [procs EXCEPT ![p] = Running("stranger", 0)]
  /\ UNCHANGED <<vars, phase, res, pids, helper, outcome, reaped, hit>>

(* do_action of Kill: the process that has this number now gets the signal.  *)
PerformAction(i) ==
  /\ Perform(i)
  /\ hit' = (hit \/ (actions[i] = Kill /\ procs[helper].who # "helper" /\ procs[helper] # Free))
  /\ UNCHANGED <<phase, res, pids, procs, helper, outcome, reaped>>

Pass == \/ (StartPass \/ EndPass \/ Die) /\ UNCHANGED commandVars
        \/ \E i \in todo : PerformAction(i)

ToolNext ==
  \/ Register /\ UNCHANGED commandVars
  \/ (Exit \/ DefaultSignal \/ \E s \in Signals : Signal(s)) /\ Leave
  \/ \E a \in Actions : RegisterAction(a)
  \/ Pass
  \/ NotFound \/ StartFails \/ Started \/ Return
  \/ \E p \in Pids :
       \/ StartHelper(p) \/ StartCommand(p) \/ Reap(p) \/ ReapKilled(p)
       \/ ChildEnds(p) \/ StrangerStarts(p)

ToolSpec == CommandsInit /\ [][ToolNext]_<<vars, commandVars>>

(* A pass of do_actions that has begun keeps running; nothing obliges the    *)
(* program to exit, a command to end or a signal to arrive.                  *)
FairToolSpec == ToolSpec /\ WF_<<vars, commandVars>>(Pass)

-----------------------------------------------------------------------------
(* Properties                                                               *)

(* Whatever ends first, run_commands returns for each command in its place   *)
(* how it ended, it waits for nothing that is not there any more, and when   *)
(* it returns no command is left.  The exit action that kills the helper     *)
(* reaches nobody else, except where run_commands itself has waited for the  *)
(* helper and so given its number away.                                      *)
ProcessesAccountedFor ==
  /\ \A c \in pids : procs[c[2]].who = "command" /\ procs[c[2]].idx = c[1]
  /\ phase = "returned" => res = outcome /\ \A p \in Pids : procs[p].who # "command"
  /\ hit => reaped
=============================================================================
