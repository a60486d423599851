------------------------------- MODULE OnExit -------------------------------
(***************************************************************************)
(* The exit actions of mltools/on_exit.ml.  A program registers actions    *)
(* with a priority; do_actions performs them when the program calls exit   *)
(* or one of four signals arrives.  A signal handler runs on top of        *)
(* whatever the program is doing, do_actions included, and ends the        *)
(* process with _exit.  The OCaml runtime blocks a signal while its own    *)
(* handler runs, and no other.                                             *)
(*                                                                         *)
(* What an action does (unlink, rm -rf, kill, a function) is abstracted to *)
(* the fact that it is attempted: do_action ignores every exception.       *)
(***************************************************************************)
EXTENDS Naturals, Sequences, FiniteSets

CONSTANTS
  Actions,   (* the actions the program may register                         *)
  Prio,      (* the priority of each                                         *)
  Signals    (* SIGINT, SIGQUIT, SIGTERM, SIGHUP                             *)

OnExitAssumption ==
  /\ IsFiniteSet(Actions)
  /\ Prio \in [Actions -> Nat]
  /\ IsFiniteSet(Signals)
  /\ Signals \cap {"main", "at_exit", "dead"} = {}

ASSUME OnExitAssumption

VARIABLES
  actions,        (* the list, the last registered action first              *)
  done_actions,
  registered,     (* the handlers are installed                              *)
  running,        (* "main", "at_exit", the signal being handled, or "dead"  *)
  pass,           (* "none", "ready", "busy" or "over": where do_actions is  *)
  todo,           (* indices of actions the current pass has yet to perform  *)
  blocked,        (* signals whose handler is on the stack                   *)
  attempts,       (* how often each action has been attempted                *)
  last,           (* priority of the last action performed by the pass       *)
  interrupts      (* passes cut short by a signal                            *)

vars == <<actions, done_actions, registered, running, pass, todo, blocked,
          attempts, last, interrupts>>

Init ==
  /\ actions = <<>>
  /\ done_actions = FALSE
  /\ registered = FALSE
  /\ running = "main"
  /\ pass = "none"
  /\ todo = {}
  /\ blocked = {}
  /\ attempts = [a \in Actions |-> 0]
  /\ last = 0
  /\ interrupts = 0

Listed == {actions[i] : i \in DOMAIN actions}

-----------------------------------------------------------------------------
(* The program                                                              *)

(* register (): install the four handlers and the at_exit function.         *)
Register ==
  /\ running = "main" /\ ~registered
  /\ registered' = TRUE
  /\ UNCHANGED <<actions, done_actions, running, pass, todo, blocked, attempts,
                 last, interrupts>>

(* Mutated: the action is pushed without a call of register ().             *)
PushUnregistered(a) ==
  /\ running = "main"
  /\ a \notin Listed
  /\ actions' = <<a>> \o actions
  /\ UNCHANGED <<done_actions, registered, running, pass, todo, blocked,
                 attempts, last, interrupts>>

(* f, unlink, rm_rf or kill: after register (), push_front the action.      *)
Push(a) ==
  /\ running = "main" /\ registered
  /\ a \notin Listed
  /\ actions' = <<a>> \o actions
  /\ UNCHANGED <<done_actions, registered, running, pass, todo, blocked,
                 attempts, last, interrupts>>

(* The program calls exit: the at_exit function is do_actions.              *)
Exit ==
  /\ running = "main"
  /\ IF registered THEN running' = "at_exit" /\ pass' = "ready"
                   ELSE running' = "dead" /\ UNCHANGED pass
  /\ UNCHANGED <<actions, done_actions, registered, todo, blocked, attempts,
                 last, interrupts>>

-----------------------------------------------------------------------------
(* Signals                                                                  *)

(* Without a handler the signal kills the process.                          *)
DefaultSignal ==
  /\ running = "main" /\ ~registered
  /\ running' = "dead"
  /\ UNCHANGED <<actions, done_actions, registered, pass, todo, blocked,
                 attempts, last, interrupts>>

(* The handler starts on top of the program, of at_exit or of the handler   *)
(* of another signal, none of which ever resumes.                           *)
Signal(s) ==
  /\ running # "dead" /\ registered
  /\ s \notin blocked
  /\ running' = s
  /\ blocked' = blocked \cup {s}
  /\ pass' = "ready"
  /\ todo' = {}
  /\ interrupts' = IF pass = "busy" THEN interrupts + 1 ELSE interrupts
  /\ UNCHANGED <<actions, done_actions, registered, attempts, last>>

-----------------------------------------------------------------------------
(* do_actions                                                               *)

(* Mutated: done_actions is set before the actions are performed.           *)
StartPassDone ==
  /\ pass = "ready" /\ running # "dead"
  /\ IF done_actions THEN pass' = "over" /\ UNCHANGED todo
                     ELSE pass' = "busy" /\ todo' = DOMAIN actions
  /\ done_actions' = TRUE
  /\ last' = 0
  /\ UNCHANGED <<actions, registered, running, blocked, attempts, interrupts>>

(* Unless done_actions, take the list as it is now.                         *)
StartPass ==
  /\ pass = "ready" /\ running # "dead"
  /\ IF done_actions THEN pass' = "over" /\ UNCHANGED todo
                     ELSE pass' = "busy" /\ todo' = DOMAIN actions
  /\ last' = 0
  /\ UNCHANGED <<actions, done_actions, registered, running, blocked, attempts,
                 interrupts>>

(* Mutated: the list is not sorted.                                         *)
ComesFirstUnsorted(i) == \A j \in todo : i <= j

(* List.sort by priority: the lowest first, in the order of the list when   *)
(* the priorities are equal.                                                *)
ComesFirst(i) ==
  \A j \in todo :
    \/ Prio[actions[i]] < Prio[actions[j]]
    \/ Prio[actions[i]] = Prio[actions[j]] /\ i <= j

(* do_action of the next action; an exception is printed and ignored.       *)
Perform(i) ==
  /\ pass = "busy" /\ running # "dead"
  /\ ComesFirst(i)
  /\ todo' = todo \ {i}
  /\ attempts' = [attempts EXCEPT ![actions[i]] = @ + 1]
  /\ last' = Prio[actions[i]]
  /\ UNCHANGED <<actions, done_actions, registered, running, pass, blocked,
                 interrupts>>

(* Mutated: done_actions is never set.                                      *)
EndPassNotDone ==
  /\ pass = "busy" /\ running # "dead"
  /\ todo = {}
  /\ pass' = "over"
  /\ UNCHANGED <<actions, done_actions, registered, running, todo, blocked,
                 attempts, last, interrupts>>

EndPass ==
  /\ pass = "busy" /\ running # "dead"
  /\ todo = {}
  /\ done_actions' = TRUE
  /\ pass' = "over"
  /\ UNCHANGED <<actions, registered, running, todo, blocked, attempts, last,
                 interrupts>>

(* Mutated: the handler returns to the program instead of calling _exit.    *)
DieResumes ==
  /\ pass = "over" /\ running # "dead"
  /\ running' = IF running \in Signals THEN "main" ELSE "dead"
  /\ pass' = "none"
  /\ blocked' = blocked \ {running}
  /\ UNCHANGED <<actions, done_actions, registered, todo, attempts, last,
                 interrupts>>

(* The handler calls _exit; the at_exit function returns and exit goes on.  *)
Die ==
  /\ pass = "over" /\ running # "dead"
  /\ running' = "dead"
  /\ pass' = "none"
  /\ UNCHANGED <<actions, done_actions, registered, todo, blocked, attempts,
                 last, interrupts>>

DoActions == StartPass \/ (\E i \in todo : Perform(i)) \/ EndPass \/ Die

Next ==
  \/ Register
  \/ \E a \in Actions : Push(a)
  \/ Exit
  \/ DefaultSignal
  \/ \E s \in Signals : Signal(s)
  \/ DoActions

Spec == Init /\ [][Next]_vars

-----------------------------------------------------------------------------
(* Properties                                                               *)

(* Types, and no action is pushed before the handlers are installed.         *)
TypeOK ==
  /\ actions \in Seq(Actions)
  /\ done_actions \in BOOLEAN
  /\ registered \in BOOLEAN
  /\ actions # <<>> => registered
  /\ running \in {"main", "at_exit", "dead"} \cup Signals
  /\ pass \in {"none", "ready", "busy", "over"}
  /\ todo \subseteq DOMAIN actions
  /\ blocked \subseteq Signals
  /\ attempts \in [Actions -> Nat]
  /\ last \in Nat
  /\ interrupts \in Nat

(* "cleanup ... actions ... are mostly guaranteed to happen when the process *)
(* exits, even if it exits with a signal" (on_exit.mli): however many        *)
(* signals arrive while do_actions is at work, no registered action is left  *)
(* unattempted by the time the process is gone.                              *)
AllAttempted ==
  running = "dead" => \A i \in DOMAIN actions : attempts[actions[i]] > 0

(* An action is attempted once, plus at most once for each time a signal     *)
(* cut a pass short: done_actions, which is set only when a pass is over,    *)
(* prevents every other repetition.                                         *)
OnceUnlessInterrupted == \A a \in Actions : attempts[a] <= 1 + interrupts

(* "Lower numbered actions run first" (on_exit.mli): a pass never goes back  *)
(* to a lower priority.                                                      *)
PriorityOrder == \A i \in todo : pass = "busy" => last <= Prio[actions[i]]

(* What on_exit promises of an action that has been registered.              *)
AttemptsAccountedFor == AllAttempted /\ OnceUnlessInterrupted

(* "Make sure the actions are performed only once" (on_exit.ml:50), also     *)
(* when a signal arrives while they are being performed.                    *)
PerformedOnce == \A a \in Actions : attempts[a] <= 1

(* Whatever starts do_actions, the process ends: signals cannot keep         *)
(* restarting the cleanup for ever, since each is blocked in its handler.    *)
CleanupEnds == (running # "main") ~> (running = "dead")
=============================================================================
