---------------------------- MODULE OnExit_proofs ----------------------------
(***************************************************************************)
(* Theorems about on_exit.ml, for any set of actions, any priorities and   *)
(* any set of signals, and about run_commands of tools_utils.ml in a tool  *)
(* that has exit actions, for any number of commands, any exit codes and   *)
(* any process numbers.  The tool implements OnExit, so that what holds of *)
(* the exit actions by themselves holds in the tool too.                   *)
(***************************************************************************)
EXTENDS Commands, TLAPS


(* Each action is in the list once.                                          *)
DistinctInv == \A i, j \in DOMAIN actions : actions[i] = actions[j] => i = j

(* Where do_actions is, and what done_actions says about it.                 *)
PassInv ==
  /\ running = "main" => pass = "none" /\ ~done_actions
  /\ pass = "none" <=> running \in {"main", "dead"}
  /\ pass = "busy" => ~done_actions
  /\ pass = "over" => done_actions
  /\ running = "dead" => pass = "none" /\ (done_actions \/ ~registered)

(* What has been attempted: nothing is missing once done_actions is set.     *)
AttemptedInv ==
  /\ done_actions => \A i \in DOMAIN actions : attempts[actions[i]] > 0
  /\ pass = "busy" => \A i \in DOMAIN actions : i \in todo \/ attempts[actions[i]] > 0

(* How often: a pass begins with at most one attempt for each interruption.  *)
CountInv ==
  /\ \A a \in Actions : attempts[a] <= 1 + interrupts
  /\ \A a \in Actions : a \notin Listed => attempts[a] = 0
  /\ running = "main" => \A a \in Actions : attempts[a] = 0
  /\ pass = "ready" /\ ~done_actions => \A a \in Actions : attempts[a] <= interrupts
  /\ pass = "busy" => \A i \in todo : attempts[actions[i]] <= interrupts

IInv ==
  /\ TypeOK
  /\ DistinctInv
  /\ PassInv
  /\ AttemptedInv
  /\ CountInv
  /\ PriorityOrder

(* What push_front does to the list.                                         *)
LEMMA PushFront ==
  ASSUME NEW S, NEW s \in Seq(S), NEW a \in S
  PROVE  /\ <<a>> \o s \in Seq(S)
         /\ Len(<<a>> \o s) = Len(s) + 1
         /\ (<<a>> \o s)[1] = a
         /\ \A i \in 1 .. Len(s) : (<<a>> \o s)[i + 1] = s[i]
         /\ \A i \in 2 .. Len(s) + 1 : (<<a>> \o s)[i] = s[i - 1] /\ i - 1 \in 1 .. Len(s)
OBVIOUS

(* The action that comes first has the lowest priority of those left.        *)
LEMMA FirstIsLowest ==
  ASSUME TypeOK, NEW i \in todo, ComesFirst(i)
  PROVE  \A j \in todo : Prio[actions[i]] <= Prio[actions[j]]
<1>1. \A j \in todo : actions[j] \in Actions
  BY DEF TypeOK
<1>2. \A j \in todo : Prio[actions[j]] \in Nat
  BY <1>1, OnExitAssumption DEF OnExitAssumption
<1>3. QED
  BY <1>2 DEF ComesFirst

LEMMA InitIInv == Init => IInv
<1> SUFFICES ASSUME Init PROVE IInv
  OBVIOUS
<1> USE OnExitAssumption DEF OnExitAssumption, Init
<1>1. actions \in Seq(Actions) /\ DOMAIN actions = {}
  OBVIOUS
<1>2. attempts \in [Actions -> Nat]
  OBVIOUS
<1>3. TypeOK
  BY <1>1, <1>2 DEF TypeOK
<1>4. DistinctInv /\ PassInv /\ AttemptedInv /\ PriorityOrder
  BY <1>1 DEF DistinctInv, PassInv, AttemptedInv, PriorityOrder
<1>5. CountInv
  BY <1>2 DEF CountInv
<1>6. QED
  BY <1>3, <1>4, <1>5 DEF IInv

LEMMA TypeStep == IInv /\ [Next]_vars => TypeOK'
<1> SUFFICES ASSUME IInv, [Next]_vars PROVE TypeOK'
  OBVIOUS
<1> USE OnExitAssumption DEF OnExitAssumption, IInv, TypeOK
<1>1. CASE Register
  BY <1>1 DEF Register
<1>2. ASSUME NEW a \in Actions, Push(a) PROVE TypeOK'
  <2>1. actions' \in Seq(Actions) /\ Len(actions') = Len(actions) + 1
    BY <1>2, PushFront DEF Push
  <2>2. DOMAIN actions = 1 .. Len(actions) /\ DOMAIN actions' = 1 .. Len(actions')
    BY <2>1
  <2>3. todo' \subseteq DOMAIN actions'
    BY <1>2, <2>1, <2>2 DEF Push
  <2>4. QED
    BY <1>2, <2>1, <2>3 DEF Push
<1>3. CASE Exit
  BY <1>3 DEF Exit
<1>4. CASE DefaultSignal
  BY <1>4 DEF DefaultSignal
<1>5. ASSUME NEW s \in Signals, Signal(s) PROVE TypeOK'
  BY <1>5 DEF Signal
<1>6. CASE StartPass
  BY <1>6 DEF StartPass
<1>7. ASSUME NEW i \in todo, Perform(i) PROVE TypeOK'
  <2>1. actions[i] \in Actions
    BY <1>7
  <2>2. QED
    BY <1>7, <2>1 DEF Perform
<1>8. CASE EndPass
  BY <1>8 DEF EndPass
<1>9. CASE Die
  BY <1>9 DEF Die
<1>10. CASE UNCHANGED vars
  BY <1>10 DEF vars
<1>11. QED
  BY <1>1, <1>2, <1>3, <1>4, <1>5, <1>6, <1>7, <1>8, <1>9, <1>10 DEF Next, DoActions

LEMMA ListStep == IInv /\ [Next]_vars => DistinctInv' /\ PassInv'
<1> SUFFICES ASSUME IInv, [Next]_vars PROVE DistinctInv' /\ PassInv'
  OBVIOUS
<1> USE OnExitAssumption DEF OnExitAssumption, IInv, TypeOK, DistinctInv, PassInv
<1>1. CASE Register
  BY <1>1 DEF Register
<1>2. ASSUME NEW a \in Actions, Push(a) PROVE DistinctInv' /\ PassInv'
  <2>1. /\ DOMAIN actions' = 1 .. Len(actions) + 1
        /\ actions'[1] = a
        /\ \A i \in 2 .. Len(actions) + 1 : actions'[i] = actions[i - 1] /\ i - 1 \in DOMAIN actions
    BY <1>2, PushFront DEF Push
  <2>2. \A i \in DOMAIN actions : actions[i] # a
    BY <1>2 DEF Push, Listed
  <2>3. DistinctInv'
    BY <2>1, <2>2
  <2>4. QED
    BY <1>2, <2>3 DEF Push
<1>3. CASE Exit
  BY <1>3 DEF Exit
<1>4. CASE DefaultSignal
  BY <1>4 DEF DefaultSignal
<1>5. ASSUME NEW s \in Signals, Signal(s) PROVE DistinctInv' /\ PassInv'
  BY <1>5 DEF Signal
<1>6. CASE StartPass
  BY <1>6 DEF StartPass
<1>7. ASSUME NEW i \in todo, Perform(i) PROVE DistinctInv' /\ PassInv'
  BY <1>7 DEF Perform
<1>8. CASE EndPass
  BY <1>8 DEF EndPass
<1>9. CASE Die
  BY <1>9 DEF Die
<1>10. CASE UNCHANGED vars
  BY <1>10 DEF vars
<1>11. QED
  BY <1>1, <1>2, <1>3, <1>4, <1>5, <1>6, <1>7, <1>8, <1>9, <1>10 DEF Next, DoActions

LEMMA AttemptStep == IInv /\ [Next]_vars => AttemptedInv' /\ CountInv' /\ PriorityOrder'
<1> DEFINE Goal == AttemptedInv /\ CountInv /\ PriorityOrder
<1> SUFFICES ASSUME IInv, [Next]_vars PROVE Goal'
  OBVIOUS
<1> USE OnExitAssumption
    DEF OnExitAssumption, IInv, TypeOK, DistinctInv, PassInv, AttemptedInv, CountInv,
        PriorityOrder, Listed
<1>1. CASE Register
  BY <1>1 DEF Register
<1>2. ASSUME NEW a \in Actions, Push(a) PROVE Goal'
  <2>1. /\ DOMAIN actions' = 1 .. Len(actions) + 1
        /\ actions'[1] = a
        /\ \A i \in 1 .. Len(actions) : actions'[i + 1] = actions[i]
    BY <1>2, PushFront DEF Push
  <2>2. \A b \in Actions : attempts'[b] = 0
    BY <1>2 DEF Push
  <2>3. QED
    BY <1>2, <2>2 DEF Push
<1>3. CASE Exit
  BY <1>3 DEF Exit
<1>4. CASE DefaultSignal
  BY <1>4 DEF DefaultSignal
<1>5. ASSUME NEW s \in Signals, Signal(s) PROVE Goal'
  <2>1. /\ \A a \in Actions : a \notin Listed => attempts[a] <= interrupts
        /\ pass = "busy" => interrupts' = interrupts + 1
        /\ pass # "busy" => interrupts' = interrupts
        /\ pass' = "ready" /\ running' = s /\ todo' = {}
        /\ s # "main"
    BY <1>5 DEF Signal
  <2>2. ~done_actions => \A a \in Actions : attempts[a] <= interrupts'
    BY <2>1
  <2>3. QED
    BY <1>5, <2>1, <2>2 DEF Signal
<1>6. CASE StartPass
  BY <1>6 DEF StartPass
<1>7. ASSUME NEW i \in todo, Perform(i) PROVE Goal'
  <2>1. i \in DOMAIN actions /\ actions[i] \in Actions
    BY <1>7
  <2>2. AttemptedInv'
    BY <1>7, <2>1 DEF Perform
  <2>3. CountInv'
    BY <1>7, <2>1 DEF Perform
  <2>4. PriorityOrder'
    <3>1. \A j \in todo : Prio[actions[i]] <= Prio[actions[j]]
      BY <1>7, FirstIsLowest DEF Perform
    <3>2. QED
      BY <1>7, <3>1 DEF Perform
  <2>5. QED
    BY <2>2, <2>3, <2>4
<1>8. CASE EndPass
  BY <1>8 DEF EndPass
<1>9. CASE Die
  BY <1>9 DEF Die
<1>10. CASE UNCHANGED vars
  BY <1>10 DEF vars
<1>11. QED
  BY <1>1, <1>2, <1>3, <1>4, <1>5, <1>6, <1>7, <1>8, <1>9, <1>10 DEF Next, DoActions

(* The conjunction of the parts is inductive.                                *)
THEOREM Invariance == Spec => []IInv
<1>1. IInv /\ [Next]_vars => IInv'
  BY TypeStep, ListStep, AttemptStep DEF IInv
<1>2. QED
  BY InitIInv, <1>1, PTL DEF Spec

(* The variables of on_exit.ml keep their types.                             *)
THEOREM TypeCorrect == Spec => []TypeOK
<1>1. IInv => TypeOK
  BY DEF IInv
<1>2. QED
  BY <1>1, Invariance, PTL

(* do_actions leaves no registered action unattempted, whatever signals      *)
(* interrupt it, and only a signal that cuts a pass short makes it repeat    *)
(* one.                                                                      *)
THEOREM AttemptsCorrect == Spec => []AttemptsAccountedFor
<1>1. IInv => AllAttempted
  BY DEF IInv, PassInv, AttemptedInv, AllAttempted, TypeOK
<1>2. IInv => OnceUnlessInterrupted
  BY DEF IInv, CountInv, OnceUnlessInterrupted
<1>3. QED
  BY <1>1, <1>2, Invariance, PTL DEF AttemptsAccountedFor

(* The actions of a pass run in the order of their priorities.               *)
THEOREM PriorityCorrect == Spec => []PriorityOrder
<1>1. IInv => PriorityOrder
  BY DEF IInv
<1>2. QED
  BY <1>1, Invariance, PTL

-----------------------------------------------------------------------------
(* A tool that runs commands                                                *)

toolVars == <<vars, commandVars>>

Ends == Codes \cup {"running", "signal"}

Process == [who : {"nobody", "helper", "command", "stranger"}, idx : Nat,
            code : Ends \cup {"none"}]

CommandsTypeOK ==
  /\ phase \in {"idle", "run", "wait", "returned", "left"}
  /\ res \in Seq(Ends \cup {"exit0", "exit127"})
  /\ outcome \in Seq(Ends \cup {"exit0", "exit127"})
  /\ Len(outcome) = Len(res)
  /\ pids \subseteq (1 .. Len(res)) \X Pids
  /\ procs \in [Pids -> Process]
  /\ helper \in Pids \cup {NoPid}
  /\ reaped \in BOOLEAN /\ hit \in BOOLEAN

(* pids and the processes that run commands are two views of one thing, as   *)
(* long as the program has not gone over to its exit actions.                *)
PidsInv ==
  /\ phase = "left" => running # "main" /\ pids = {}
  /\ \A c \in pids : procs[c[2]].who = "command" /\ procs[c[2]].idx = c[1]
  /\ \A c, d \in pids : c[1] = d[1] => c = d
  /\ phase # "left" => \A p \in Pids : procs[p].who = "command" => <<procs[p].idx, p>> \in pids
  /\ phase = "returned" => pids = {}
  /\ \A p \in Pids : procs[p].who = "nobody" => procs[p].code = "none"

(* A command that is still in pids has ended as its process has, and one     *)
(* that is not has its code in the array.                                    *)
OutcomeInv ==
  /\ \A c \in pids : outcome[c[1]] = procs[c[2]].code
  /\ \A i \in 1 .. Len(res) : (\A c \in pids : c[1] # i) => res[i] = outcome[i]

(* Until it has been waited for, the helper keeps its number.                *)
HelperInv ==
  /\ ~reaped /\ helper # NoPid => helper \in Pids /\ procs[helper].who = "helper"
  /\ Kill \in Listed => helper # NoPid
  /\ hit => reaped

CommandsIInv == IInv /\ CommandsTypeOK /\ PidsInv /\ OutcomeInv /\ HelperInv

-----------------------------------------------------------------------------
(* The exit actions of the tool                                             *)

(* A step of the tool is a step of on_exit.ml, or changes nothing there.     *)
LEMMA ToolStep == [ToolNext]_toolVars => [Next]_vars
BY DEF ToolNext, toolVars, vars, Next, DoActions, StartHelper, RegisterAction, StartCommand,
       NotFound, StartFails, Started, Reap, ReapKilled, Return, ChildEnds, StrangerStarts,
       PerformAction, Pass

(* The tool, its helper and its commands leave what on_exit.ml promises as   *)
(* it is.                                                                    *)
THEOREM ToolImplementsOnExit == ToolSpec => Spec
<1>1. CommandsInit => Init
  BY DEF CommandsInit
<1>2. QED
  BY <1>1, ToolStep, PTL DEF ToolSpec, Spec, toolVars

-----------------------------------------------------------------------------
(* The commands                                                             *)

CommandsInv == CommandsTypeOK /\ PidsInv /\ OutcomeInv /\ HelperInv

LEMMA InitCommands == CommandsInit => CommandsInv
<1> SUFFICES ASSUME CommandsInit PROVE CommandsInv
  OBVIOUS
<1>1. res = <<>> /\ outcome = <<>> /\ Len(res) = 0 /\ pids = {} /\ Listed = {}
  BY DEF CommandsInit, Init, Listed
<1>2. procs \in [Pids -> Process]
  BY DEF CommandsInit, Free, Process
<1>3. CommandsTypeOK
  <2>1. res \in Seq(Ends \cup {"exit0", "exit127"}) /\ Len(outcome) = Len(res)
    BY <1>1
  <2>2. QED
    BY <1>1, <1>2, <2>1 DEF CommandsInit, CommandsTypeOK
<1>4. \A p \in Pids : procs[p].who = "nobody" /\ procs[p].code = "none"
  BY DEF CommandsInit, Free
<1>5. PidsInv /\ OutcomeInv
  BY <1>1, <1>4 DEF CommandsInit, PidsInv, OutcomeInv
<1>6. HelperInv
  BY <1>1 DEF CommandsInit, HelperInv
<1>7. QED
  BY <1>3, <1>5, <1>6 DEF CommandsInv

(* Going over to the exit actions forgets the commands.                      *)
LEMMA LeaveStep == CommandsInv /\ Leave /\ running' # "main" /\ Listed' = Listed => CommandsInv'
<1> SUFFICES ASSUME CommandsInv, Leave, running' # "main", Listed' = Listed
             PROVE  CommandsInv'
  OBVIOUS
<1>1. res' = <<>> /\ outcome' = <<>> /\ Len(res') = 0 /\ pids' = {} /\ phase' = "left"
  BY DEF Leave
<1>2. procs' \in [Pids -> Process]
  BY DEF Leave, CommandsInv, CommandsTypeOK, Free, Process
<1>3. CommandsTypeOK'
  BY <1>1, <1>2 DEF Leave, CommandsInv, CommandsTypeOK
<1>4. PidsInv' /\ OutcomeInv'
  BY <1>1 DEF Leave, Free, CommandsInv, PidsInv, OutcomeInv
<1>5. HelperInv'
  BY DEF Leave, CommandsInv, HelperInv
<1>6. QED
  BY <1>3, <1>4, <1>5 DEF CommandsInv

(* So does everything that leaves the commands, the list of exit actions and *)
(* the running program alone.                                                *)
LEMMA ElsewhereStep ==
  CommandsInv /\ UNCHANGED commandVars /\ Listed' = Listed /\ (running # "main" => running' # "main")
    => CommandsInv'
BY DEF commandVars, CommandsInv, CommandsTypeOK, PidsInv, OutcomeInv, HelperInv

(* A process is started under a number that nobody has.                      *)
LEMMA FreshProcess ==
  ASSUME CommandsInv, NEW p \in Pids, procs[p] = Free, NEW who \in {"helper", "command", "stranger"},
         NEW i \in Nat, procs' = [procs EXCEPT ![p] = Running(who, i)]
  PROVE  /\ procs' \in [Pids -> Process]
         /\ procs'[p].who = who /\ procs'[p].idx = i /\ procs'[p].code = "running"
         /\ who # "nobody"
         /\ \A q \in Pids \ {p} : procs'[q] = procs[q]
         /\ procs[p].who = "nobody"
         /\ \A c \in pids : c[2] # p
<1>1. Running(who, i) \in Process
  BY DEF Running, Process, Ends
<1>2. procs[p].who = "nobody"
  BY DEF Free
<1>3. \A c \in pids : c[2] # p
  BY <1>2 DEF CommandsInv, PidsInv
<1>4. QED
  BY <1>1, <1>2, <1>3 DEF CommandsInv, CommandsTypeOK, Running

LEMMA StartHelperStep ==
  ASSUME CommandsInv, NEW p \in Pids, StartHelper(p)
  PROVE  CommandsInv'
<1>1. /\ procs' \in [Pids -> Process]
      /\ procs'[p].who = "helper"
      /\ \A q \in Pids \ {p} : procs'[q] = procs[q]
      /\ procs[p].who = "nobody"
      /\ \A c \in pids : c[2] # p
  BY FreshProcess DEF StartHelper
<1>2. CommandsTypeOK'
  BY <1>1 DEF StartHelper, CommandsInv, CommandsTypeOK
<1>3. \A c \in pids : c[2] \in Pids \ {p}
  BY <1>1 DEF CommandsInv, CommandsTypeOK
<1>4. PidsInv' /\ OutcomeInv'
  BY <1>1, <1>3 DEF StartHelper, vars, CommandsInv, PidsInv, OutcomeInv
<1>5. HelperInv'
  BY <1>1 DEF StartHelper, vars, Listed, CommandsInv, HelperInv
<1>6. QED
  BY <1>2, <1>4, <1>5 DEF CommandsInv

LEMMA RegisterActionStep ==
  ASSUME TypeOK, CommandsInv, NEW a \in Actions, RegisterAction(a)
  PROVE  CommandsInv'
<1>1. actions' = <<a>> \o actions /\ running' = running
  BY DEF RegisterAction, Push
<1>2. Listed' \subseteq Listed \cup {a}
  <2>1. /\ DOMAIN actions' = 1 .. Len(actions) + 1
        /\ actions'[1] = a
        /\ \A i \in 2 .. Len(actions) + 1 : actions'[i] = actions[i - 1] /\ i - 1 \in DOMAIN actions
    BY <1>1, PushFront DEF TypeOK
  <2>2. \A i \in DOMAIN actions' : actions'[i] \in Listed \cup {a}
    BY <2>1 DEF Listed
  <2>3. QED
    BY <2>2 DEF Listed
<1>3. HelperInv'
  BY <1>2 DEF RegisterAction, commandVars, CommandsInv, HelperInv
<1>4. CommandsTypeOK' /\ PidsInv' /\ OutcomeInv'
  BY <1>1 DEF RegisterAction, commandVars, CommandsInv, CommandsTypeOK, PidsInv, OutcomeInv
<1>5. QED
  BY <1>3, <1>4 DEF CommandsInv

LEMMA StartCommandStep ==
  ASSUME CommandsInv, NEW p \in Pids, StartCommand(p)
  PROVE  CommandsInv'
<1> DEFINE i == Len(res) + 1
<1>1. i \in Nat /\ i \notin 1 .. Len(res) /\ 1 .. i = (1 .. Len(res)) \cup {i}
  BY DEF CommandsInv, CommandsTypeOK
<1>2. /\ procs[p] = Free /\ procs' = [procs EXCEPT ![p] = Running("command", i)]
      /\ pids' = pids \cup {<<i, p>>}
      /\ phase' = "run" /\ running' = running /\ running = "main"
      /\ UNCHANGED <<vars, helper, reaped, hit>>
  BY DEF StartCommand, vars
<1>3. /\ procs' \in [Pids -> Process]
      /\ procs'[p].who = "command" /\ procs'[p].idx = i /\ procs'[p].code = "running"
      /\ \A q \in Pids \ {p} : procs'[q] = procs[q]
      /\ procs[p].who = "nobody"
      /\ \A c \in pids : c[2] # p
  BY <1>1, <1>2, FreshProcess
<1>4. /\ res' \in Seq(Ends \cup {"exit0", "exit127"})
      /\ outcome' \in Seq(Ends \cup {"exit0", "exit127"})
      /\ Len(res') = i /\ Len(outcome') = i
      /\ outcome'[i] = "running"
      /\ \A j \in 1 .. Len(res) : res'[j] = res[j] /\ outcome'[j] = outcome[j]
  BY DEF StartCommand, CommandsInv, CommandsTypeOK, Ends
<1>5. pids' \subseteq (1 .. i) \X Pids
  BY <1>1, <1>2 DEF CommandsInv, CommandsTypeOK
<1>6. CommandsTypeOK'
  BY <1>2, <1>3, <1>4, <1>5 DEF CommandsInv, CommandsTypeOK
<1>7. \A c \in pids : c[1] \in 1 .. Len(res) /\ c[1] # i /\ c[2] \in Pids \ {p}
  BY <1>1, <1>3 DEF CommandsInv, CommandsTypeOK
<1>8. PidsInv'
  <2>1. \A c \in pids' : c = <<i, p>> \/ c \in pids
    BY <1>2
  <2>2. \A c \in pids' : procs'[c[2]].who = "command" /\ procs'[c[2]].idx = c[1]
    BY <2>1, <1>3, <1>7 DEF CommandsInv, PidsInv
  <2>3. \A c, d \in pids' : c[1] = d[1] => c = d
    BY <2>1, <1>7 DEF CommandsInv, PidsInv
  <2>4. phase # "left"
    BY DEF StartCommand
  <2>5. \A q \in Pids : procs'[q].who = "command" => <<procs'[q].idx, q>> \in pids'
    BY <1>2, <1>3, <2>4 DEF CommandsInv, PidsInv
  <2>6. \A q \in Pids : procs'[q].who = "nobody" => procs'[q].code = "none"
    BY <1>3 DEF CommandsInv, PidsInv
  <2>7. QED
    BY <1>2, <2>2, <2>3, <2>5, <2>6 DEF PidsInv
<1>9. OutcomeInv'
  <2>1. \A c \in pids' : c = <<i, p>> \/ c \in pids
    BY <1>2
  <2>2. \A c \in pids' : outcome'[c[1]] = procs'[c[2]].code
    BY <2>1, <1>3, <1>4, <1>7 DEF CommandsInv, OutcomeInv
  <2>3. ASSUME NEW j \in 1 .. i, \A c \in pids' : c[1] # j
        PROVE  res'[j] = outcome'[j]
    <3>1. <<i, p>> \in pids' /\ pids \subseteq pids'
      BY <1>2
    <3>2. j \in 1 .. Len(res) /\ \A c \in pids : c[1] # j
      BY <1>1, <2>3, <3>1
    <3>3. QED
      BY <1>4, <3>2 DEF CommandsInv, OutcomeInv
  <2>4. QED
    BY <2>2, <2>3, <1>4 DEF OutcomeInv
<1>10. HelperInv'
  BY <1>2, <1>3 DEF vars, Listed, CommandsInv, HelperInv
<1>11. QED
  BY <1>6, <1>8, <1>9, <1>10 DEF CommandsInv

LEMMA NotFoundStep == CommandsInv /\ NotFound => CommandsInv'
<1> SUFFICES ASSUME CommandsInv, NotFound PROVE CommandsInv'
  OBVIOUS
<1> DEFINE i == Len(res) + 1
<1>1. i \notin 1 .. Len(res) /\ 1 .. i = (1 .. Len(res)) \cup {i}
  BY DEF CommandsInv, CommandsTypeOK
<1>2. /\ res' \in Seq(Ends \cup {"exit0", "exit127"})
      /\ outcome' \in Seq(Ends \cup {"exit0", "exit127"})
      /\ Len(res') = i /\ Len(outcome') = i
      /\ res'[i] = outcome'[i]
      /\ \A j \in 1 .. Len(res) : res'[j] = res[j] /\ outcome'[j] = outcome[j]
  BY DEF NotFound, CommandsInv, CommandsTypeOK, Ends
<1>3. /\ phase' = "run" /\ phase # "left"
      /\ UNCHANGED <<vars, pids, procs, helper, reaped, hit>>
  BY DEF NotFound
<1>4. \A c \in pids : c[1] \in 1 .. Len(res)
  BY DEF CommandsInv, CommandsTypeOK
<1>5. CommandsTypeOK'
  BY <1>1, <1>2, <1>3 DEF CommandsInv, CommandsTypeOK
<1>6. PidsInv'
  BY <1>3 DEF CommandsInv, PidsInv
<1>7. OutcomeInv'
  BY <1>1, <1>2, <1>3, <1>4 DEF CommandsInv, OutcomeInv
<1>8. HelperInv'
  BY <1>3 DEF vars, Listed, CommandsInv, HelperInv
<1>9. QED
  BY <1>5, <1>6, <1>7, <1>8 DEF CommandsInv

(* waitpid: if the child is a command, it has one place in the array.        *)
LEMMA ReapStep ==
  ASSUME CommandsInv, NEW p \in Pids, Reap(p)
  PROVE  CommandsInv'
<1> DEFINE ended == {c \in pids : c[2] = p}
<1>1. /\ phase = "wait" /\ running = "main"
      /\ procs[p].code \notin {"none", "running"}
      /\ procs' = [procs EXCEPT ![p] = Free]
      /\ reaped' = (reaped \/ procs[p].who = "helper")
      /\ procs[p].code = "signal" => ended = {}
      /\ pids' = pids \ ended
      /\ res' = [i \in DOMAIN res |-> IF <<i, p>> \in ended THEN procs[p].code ELSE res[i]]
      /\ UNCHANGED <<vars, phase, helper, outcome, hit>>
  BY DEF Reap, Waited
<1>2. /\ procs' \in [Pids -> Process]
      /\ procs'[p].who = "nobody" /\ procs'[p].code = "none"
      /\ \A q \in Pids \ {p} : procs'[q] = procs[q]
  <2>1. Free \in Process /\ Free.who = "nobody" /\ Free.code = "none"
    BY DEF Free, Process
  <2>2. QED
    BY <1>1, <2>1 DEF CommandsInv, CommandsTypeOK
<1>3. \A c \in pids : c = <<c[1], c[2]>> /\ c[1] \in 1 .. Len(res) /\ c[2] \in Pids
  BY DEF CommandsInv, CommandsTypeOK
<1>4. /\ res' \in Seq(Ends \cup {"exit0", "exit127"}) /\ Len(res') = Len(res)
      /\ \A i \in 1 .. Len(res) : res'[i] = IF <<i, p>> \in ended THEN procs[p].code ELSE res[i]
  <2>1. DOMAIN res = 1 .. Len(res) /\ Len(res) \in Nat
    BY DEF CommandsInv, CommandsTypeOK
  <2>2. procs[p] \in Process
    BY DEF CommandsInv, CommandsTypeOK
  <2>3. procs[p].code \in Ends
    BY <1>1, <2>2 DEF Process
  <2>4. \A i \in 1 .. Len(res) : res[i] \in Ends \cup {"exit0", "exit127"}
    BY DEF CommandsInv, CommandsTypeOK
  <2>5. res' \in [1 .. Len(res) -> Ends \cup {"exit0", "exit127"}]
    BY <1>1, <2>1, <2>3, <2>4
  <2>6. QED
    BY <1>1, <2>1, <2>5
<1>5. CommandsTypeOK'
  BY <1>1, <1>2, <1>4 DEF CommandsInv, CommandsTypeOK
<1>6. \A c \in pids' : c \in pids /\ c[2] \in Pids \ {p}
  BY <1>1, <1>3
<1>7. PidsInv'
  <2>1. \A q \in Pids : procs'[q].who = "command" => <<procs'[q].idx, q>> \in pids'
    BY <1>1, <1>2 DEF CommandsInv, PidsInv
  <2>2. QED
    BY <1>1, <1>2, <1>6, <2>1 DEF CommandsInv, PidsInv
<1>8. OutcomeInv'
  <2>1. \A c \in pids' : outcome'[c[1]] = procs'[c[2]].code
    BY <1>1, <1>2, <1>6 DEF CommandsInv, OutcomeInv
  <2>2. ASSUME NEW i \in 1 .. Len(res), \A c \in pids' : c[1] # i
        PROVE  res'[i] = outcome'[i]
    <3>1. CASE <<i, p>> \in pids
      BY <1>1, <1>4, <3>1 DEF CommandsInv, OutcomeInv
    <3>2. CASE <<i, p>> \notin pids
      <4>1. \A c \in pids : c[1] # i
        BY <1>1, <1>3, <2>2, <3>2
      <4>2. QED
        BY <1>1, <1>4, <4>1 DEF CommandsInv, OutcomeInv
    <3>3. QED
      BY <3>1, <3>2
  <2>3. QED
    BY <2>1, <2>2, <1>4 DEF OutcomeInv
<1>9. HelperInv'
  BY <1>1, <1>2 DEF vars, Listed, CommandsInv, HelperInv
<1>10. QED
  BY <1>5, <1>7, <1>8, <1>9 DEF CommandsInv

LEMMA ChildEndsStep ==
  ASSUME CommandsInv, NEW p \in Pids, ChildEnds(p)
  PROVE  CommandsInv'
<1>1. PICK code \in Codes \cup {"signal"} :
        /\ procs' = [procs EXCEPT ![p].code = code]
        /\ outcome' = IF procs[p].who = "helper" THEN outcome
                      ELSE [outcome EXCEPT ![procs[p].idx] = code]
  BY DEF ChildEnds
<1>2. /\ running = "main" /\ procs[p].code = "running" /\ procs[p].who # "stranger"
      /\ UNCHANGED <<vars, phase, res, pids, helper, reaped, hit>>
  BY DEF ChildEnds
<1>3. procs \in [Pids -> Process] /\ procs[p] \in Process /\ code \in Ends
  BY DEF CommandsInv, CommandsTypeOK, Ends
<1>4. /\ procs' \in [Pids -> Process]
      /\ procs'[p].who = procs[p].who /\ procs'[p].idx = procs[p].idx /\ procs'[p].code = code
      /\ \A q \in Pids \ {p} : procs'[q] = procs[q]
  BY <1>1, <1>3 DEF Process
<1>5. \A c \in pids : c = <<c[1], c[2]>> /\ c[1] \in 1 .. Len(res) /\ c[2] \in Pids
  BY DEF CommandsInv, CommandsTypeOK
<1>6. PidsInv'
  BY <1>2, <1>4, <1>5 DEF vars, CommandsInv, PidsInv
<1>7. HelperInv'
  BY <1>2, <1>4 DEF vars, Listed, CommandsInv, HelperInv
<1>8. CASE procs[p].who = "command"
  <2>1. <<procs[p].idx, p>> \in pids
    BY <1>2, <1>8 DEF CommandsInv, PidsInv
  <2>2. procs[p].idx \in 1 .. Len(res) /\ 1 .. Len(res) = DOMAIN outcome
    BY <1>5, <2>1 DEF CommandsInv, CommandsTypeOK
  <2>3. /\ outcome' \in Seq(Ends \cup {"exit0", "exit127"}) /\ Len(outcome') = Len(outcome)
        /\ outcome'[procs[p].idx] = code
        /\ \A i \in 1 .. Len(res) : i # procs[p].idx => outcome'[i] = outcome[i]
    BY <1>1, <1>3, <1>8, <2>2 DEF CommandsInv, CommandsTypeOK
  <2>4. CommandsTypeOK'
    BY <1>2, <1>4, <2>3 DEF CommandsInv, CommandsTypeOK
  <2>5. \A c \in pids : c[1] = procs[p].idx => c[2] = p
    BY <2>1 DEF CommandsInv, PidsInv
  <2>6. \A c \in pids : c[2] = p => c[1] = procs[p].idx
    BY DEF CommandsInv, PidsInv
  <2>7. \A c \in pids : outcome'[c[1]] = procs'[c[2]].code
    BY <1>4, <1>5, <2>3, <2>5, <2>6 DEF CommandsInv, OutcomeInv
  <2>8. OutcomeInv'
    BY <1>2, <2>1, <2>3, <2>7 DEF CommandsInv, OutcomeInv
  <2>9. QED
    BY <1>6, <1>7, <2>4, <2>8 DEF CommandsInv
<1>9. CASE procs[p].who # "command"
  <2>1. outcome' = outcome
    <3>1. procs[p].who # "nobody"
      BY <1>2 DEF CommandsInv, PidsInv
    <3>2. procs[p].who = "helper"
      BY <1>2, <1>3, <1>9, <3>1 DEF Process
    <3>3. QED
      BY <1>1, <3>2
  <2>2. \A c \in pids : c[2] # p
    BY <1>9 DEF CommandsInv, PidsInv
  <2>3. CommandsTypeOK'
    BY <1>2, <1>4, <2>1 DEF CommandsInv, CommandsTypeOK
  <2>4. OutcomeInv'
    BY <1>2, <1>4, <1>5, <2>1, <2>2 DEF CommandsInv, OutcomeInv
  <2>5. QED
    BY <1>6, <1>7, <2>3, <2>4 DEF CommandsInv
<1>10. QED
  BY <1>8, <1>9

(* Nobody's processes are of no concern to run_commands.                     *)
LEMMA StrangerStartsStep ==
  ASSUME CommandsInv, NEW p \in Pids, StrangerStarts(p)
  PROVE  CommandsInv'
<1>1. /\ p = helper /\ procs[p] = Free
      /\ UNCHANGED <<vars, phase, res, pids, helper, outcome, reaped, hit>>
  BY DEF StrangerStarts
<1>2. /\ procs' \in [Pids -> Process]
      /\ procs'[p].who = "stranger"
      /\ \A q \in Pids \ {p} : procs'[q] = procs[q]
      /\ procs[p].who = "nobody"
      /\ \A c \in pids : c[2] # p
  BY FreshProcess DEF StrangerStarts
<1>3. \A c \in pids : c[2] \in Pids \ {p}
  BY <1>2 DEF CommandsInv, CommandsTypeOK
<1>4. CommandsTypeOK'
  BY <1>1, <1>2 DEF CommandsInv, CommandsTypeOK
<1>5. PidsInv' /\ OutcomeInv'
  BY <1>1, <1>2, <1>3 DEF vars, CommandsInv, PidsInv, OutcomeInv
<1>6. HelperInv'
  BY <1>1, <1>2 DEF vars, Listed, CommandsInv, HelperInv
<1>7. QED
  BY <1>4, <1>5, <1>6 DEF CommandsInv

(* The kill is only in the list once there is a helper, and that has its     *)
(* number until somebody waits for it.                                       *)
LEMMA PerformActionStep ==
  ASSUME TypeOK, CommandsInv, NEW i \in todo, PerformAction(i)
  PROVE  CommandsInv'
<1>1. /\ hit' = (hit \/ (actions[i] = Kill /\ procs[helper].who # "helper" /\ procs[helper] # Free))
      /\ UNCHANGED <<actions, running, phase, res, pids, procs, helper, outcome, reaped>>
  BY DEF PerformAction, Perform
<1>2. actions[i] \in Listed
  BY DEF TypeOK, Listed
<1>3. HelperInv'
  BY <1>1, <1>2 DEF Listed, CommandsInv, HelperInv
<1>4. hit' \in BOOLEAN
  BY <1>1
<1>5. CommandsTypeOK'
  BY <1>1, <1>4 DEF CommandsInv, CommandsTypeOK
<1>6. PidsInv' /\ OutcomeInv'
  BY <1>1 DEF CommandsInv, PidsInv, OutcomeInv
<1>7. QED
  BY <1>3, <1>5, <1>6 DEF CommandsInv

LEMMA CommandsStep == IInv /\ CommandsInv /\ [ToolNext]_toolVars => CommandsInv'
<1> SUFFICES ASSUME IInv, CommandsInv, [ToolNext]_toolVars PROVE CommandsInv'
  OBVIOUS
<1> USE OnExitAssumption
<1>1. TypeOK
  BY DEF IInv
<1>2. CASE Register /\ UNCHANGED commandVars
  BY <1>2, ElsewhereStep DEF Register, Listed
<1>3. CASE Exit /\ Leave
  BY <1>3, LeaveStep DEF Exit, Listed
<1>4. CASE DefaultSignal /\ Leave
  BY <1>4, LeaveStep DEF DefaultSignal, Listed
<1>5. ASSUME NEW s \in Signals, Signal(s), Leave PROVE CommandsInv'
  <2>1. running' # "main" /\ Listed' = Listed
    BY <1>5 DEF Signal, Listed, OnExitAssumption
  <2>2. QED
    BY <1>5, <2>1, LeaveStep
<1>6. CASE \E a \in Actions : RegisterAction(a)
  BY <1>1, <1>6, RegisterActionStep
<1>7. CASE Pass
  <2>1. CASE (StartPass \/ EndPass \/ Die) /\ UNCHANGED commandVars
    BY <2>1, ElsewhereStep DEF StartPass, EndPass, Die, Listed
  <2>2. CASE \E i \in todo : PerformAction(i)
    BY <1>1, <2>2, PerformActionStep
  <2>3. QED
    BY <1>7, <2>1, <2>2 DEF Pass
<1>8. CASE NotFound
  BY <1>8, NotFoundStep
<1>9. CASE StartFails
  BY <1>9, <1>3 DEF StartFails
<1>10. CASE Started
  BY <1>10 DEF Started, vars, Listed, CommandsInv, CommandsTypeOK, PidsInv, OutcomeInv, HelperInv
<1>11. CASE Return
  BY <1>11 DEF Return, vars, Listed, CommandsInv, CommandsTypeOK, PidsInv, OutcomeInv, HelperInv
<1>12. ASSUME NEW p \in Pids,
              \/ StartHelper(p) \/ StartCommand(p) \/ Reap(p) \/ ReapKilled(p)
              \/ ChildEnds(p) \/ StrangerStarts(p)
       PROVE  CommandsInv'
  <2>1. CASE ReapKilled(p)
    BY <2>1, <1>3 DEF ReapKilled
  <2>2. QED
    BY <1>12, <2>1, StartHelperStep, StartCommandStep, ReapStep, ChildEndsStep, StrangerStartsStep
<1>13. CASE UNCHANGED toolVars
  BY <1>13, ElsewhereStep DEF toolVars, vars, Listed
<1>14. QED
  BY <1>2, <1>3, <1>4, <1>5, <1>6, <1>7, <1>8, <1>9, <1>10, <1>11, <1>12, <1>13 DEF ToolNext

(* What holds of the exit actions by themselves is invariant in the tool.    *)
LEMMA ToolInvariance == ToolSpec => []CommandsIInv
<1>1. CommandsInit => CommandsIInv
  BY InitIInv, InitCommands DEF CommandsInit, CommandsIInv, CommandsInv
<1>2. CommandsIInv /\ [ToolNext]_toolVars => CommandsIInv'
  <2>1. IInv /\ [ToolNext]_toolVars => IInv'
    BY ToolStep, TypeStep, ListStep, AttemptStep DEF IInv
  <2>2. QED
    BY <2>1, CommandsStep DEF CommandsIInv, CommandsInv
<1>3. QED
  BY <1>1, <1>2, PTL DEF ToolSpec, toolVars

(* run_commands returns for each command, in its place, how it ended, waits  *)
(* for nothing that has gone and leaves no command behind; the exit action   *)
(* that kills the helper reaches nobody else unless run_commands itself has  *)
(* waited for the helper.                                                    *)
THEOREM ProcessesCorrect == ToolSpec => []ProcessesAccountedFor
<1>1. ASSUME CommandsIInv PROVE ProcessesAccountedFor
  <2>1. ASSUME phase = "returned"
        PROVE  res = outcome /\ \A p \in Pids : procs[p].who # "command"
    <3>1. pids = {} /\ \A p \in Pids : procs[p].who # "command"
      BY <1>1, <2>1 DEF CommandsIInv, PidsInv
    <3>2. \A i \in 1 .. Len(res) : res[i] = outcome[i]
      BY <1>1, <3>1 DEF CommandsIInv, OutcomeInv
    <3>3. DOMAIN res = 1 .. Len(res) /\ DOMAIN outcome = 1 .. Len(res)
      BY <1>1 DEF CommandsIInv, CommandsTypeOK
    <3>4. res = outcome
      BY <1>1, <3>2, <3>3 DEF CommandsIInv, CommandsTypeOK
    <3>5. QED
      BY <3>1, <3>4
  <2>2. QED
    BY <1>1, <2>1 DEF CommandsIInv, PidsInv, HelperInv, ProcessesAccountedFor
<1>2. QED
  BY <1>1, ToolInvariance, PTL

(* However many signals arrive, the tool attempts every exit action that it  *)
(* has registered, whatever its commands and its helper are doing, and       *)
(* repeats one only when a signal has cut a pass short.                      *)
THEOREM ToolAttemptsCorrect == ToolSpec => []AttemptsAccountedFor
BY ToolImplementsOnExit, AttemptsCorrect, PTL
=============================================================================
