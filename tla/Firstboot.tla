------------------------------ MODULE Firstboot ------------------------------
(***************************************************************************)
(* mlcustomize/firstboot.ml: a program on the host writes numbered scripts *)
(* into a guest that is switched off, and installs a service in it; the    *)
(* service, a shell script on Linux and a batch file on Windows, runs them *)
(* when the guest boots.  The guest may lose power at any moment, a        *)
(* Windows script may ask to be run again, and another program may         *)
(* customize the same guest later.                                         *)
(*                                                                         *)
(* What a script does is abstracted to the number of the call that added   *)
(* it and, on Windows, to its exit code.                                   *)
(***************************************************************************)
EXTENDS Naturals, FiniteSets

CONSTANTS
  Names,           (* script names, as numbers in their alphabetical order   *)
  Prios,           (* priorities that the callers use                        *)
  MaxScripts,      (* bound: scripts added                                   *)
  MaxPrograms,     (* bound: programs that customize the guest               *)
  MaxCrashes,      (* bound: power failures                                  *)
  MaxRetries,      (* bound: exit codes 249, "will retry on next boot"       *)
  MaxMoveFailures  (* bound: failures of the batch file's move command       *)

(* add_firstboot_script asserts the range of the priorities.  A number of    *)
(* five digits would not sort after one of four, so no more are added.       *)
FirstbootAssumption ==
  /\ Names \subseteq Nat /\ Prios \subseteq 0 .. 9999
  /\ MaxScripts \in 0 .. 9999 /\ MaxPrograms \in Nat
  /\ MaxCrashes \in Nat /\ MaxRetries \in Nat /\ MaxMoveFailures \in Nat

ASSUME FirstbootAssumption

Ids == 1 .. MaxScripts

VARIABLES
  os,            (* inspect_get_type root                                    *)
  script_count,  (* the counter of the program that is customizing           *)
  program,       (* the number of that program                               *)
  added,         (* calls of add_firstboot_script so far                     *)
  adding,        (* the script that is being added: at most one              *)
  abandoned,     (* calls that failed, or whose program was killed           *)
  scripts,       (* the scripts directory: the files in it that can be run   *)
  scripts_done,  (* the scripts-done directory                               *)
  ps1,           (* the Temp directory: the call that wrote each .ps1 file   *)
  service,       (* the service is installed and enabled                     *)
  complete,      (* the sentinel file                                        *)
  pc,            (* where the guest is, "off" when it is not running, or how *)
                 (* far the program is that adds a script to it              *)
  todo,          (* scripts the loop has yet to visit                        *)
  cur,           (* scripts taken by the loop and not finished: at most one  *)
  elvl,          (* exit code of the last batch script                       *)
  runs,          (* how often each script has been run                       *)
  ran,           (* <<script, the script whose code it ran>>                 *)
  asked_again,   (* scripts whose last exit code was 249                     *)
  overwritten,   (* scripts whose file another program has replaced          *)
  crashes, retries, move_failures

host  == <<os, script_count, program, added, adding, abandoned, ps1>>
guest == <<pc, todo, cur, elvl, runs, ran, asked_again>>
luck  == <<crashes, retries, move_failures>>
vars  == <<host, scripts, scripts_done, service, complete, guest, overwritten, luck>>

Init ==
  /\ os \in {"linux", "windows"}
  /\ script_count = 0 /\ program = 1 /\ added = 0 /\ adding = {} /\ abandoned = {}
  /\ scripts = {} /\ scripts_done = {}
  /\ ps1 = [n \in Names |-> 0]
  /\ service = FALSE
  /\ complete = FALSE
  /\ pc = "off" /\ todo = {} /\ cur = {} /\ elvl = 0
  /\ runs = [id \in Ids |-> 0]
  /\ ran = {} /\ asked_again = {} /\ overwritten = {}
  /\ crashes = 0 /\ retries = 0 /\ move_failures = 0

(* "%04d-%04d-%s": the files sort by priority, then number, then name.       *)
SameFile(e, f) == e.prio = f.prio /\ e.num = f.num /\ e.name = f.name

Before(e, f) ==
  \/ e.prio < f.prio
  \/ e.prio = f.prio /\ e.num < f.num
  \/ e.prio = f.prio /\ e.num = f.num /\ e.name < f.name

-----------------------------------------------------------------------------
(* The host                                                                 *)

(* The steps of add_firstboot_script that change the guest.                  *)
AddSteps == {"sentinel", "service", "write", "chmod"}

(* Where install_service begins: only Windows has a sentinel.                *)
FirstStep == IF os = "windows" THEN "sentinel" ELSE "service"

(* Number the script num; the code of a Powershell script has gone before to *)
(* a file named after it alone.                                              *)
Begin(num, prio, name, powershell) ==
  /\ pc = "off" /\ added < MaxScripts /\ program <= MaxPrograms
  /\ powershell => os = "windows"
  /\ added' = added + 1
  /\ script_count' = script_count + 1
  /\ adding' = {[prio |-> prio, num |-> num, name |-> name, id |-> added + 1,
                 program |-> program, powershell |-> powershell]}
  /\ ps1' = IF powershell THEN [ps1 EXCEPT ![name] = added + 1] ELSE ps1
  /\ pc' = FirstStep
  /\ UNCHANGED <<os, program, abandoned, scripts, scripts_done, service, complete,
                 todo, cur, elvl, runs, ran, asked_again, overwritten, luck>>

(* Mutated: the counter is not part of the file name.                        *)
AddUnnumbered(prio, name, powershell) == Begin(0, prio, name, powershell)

(* add_firstboot_script and add_firstboot_powershell.                        *)
Add(prio, name, powershell) == Begin(script_count + 1, prio, name, powershell)

(* Mutated: install_service does not remove the sentinel.                    *)
KeepSentinel ==
  /\ pc = "sentinel"
  /\ pc' = "service"
  /\ UNCHANGED <<host, scripts, scripts_done, service, complete, todo, cur, elvl,
                 runs, ran, asked_again, overwritten, luck>>

(* "Remove the sentinel file if it exists from a previous run."              *)
RemoveSentinel ==
  /\ pc = "sentinel"
  /\ complete' = FALSE
  /\ pc' = "service"
  /\ UNCHANGED <<host, scripts, scripts_done, service, todo, cur, elvl, runs, ran,
                 asked_again, overwritten, luck>>

(* The service is there with the commit of the hive, or with the first link  *)
(* to it; the files written before do nothing without.                       *)
InstallService ==
  /\ pc = "service"
  /\ service' = TRUE
  /\ pc' = "write"
  /\ UNCHANGED <<host, scripts, scripts_done, complete, todo, cur, elvl, runs, ran,
                 asked_again, overwritten, luck>>

Replaced(new) == {e \in scripts : SameFile(e, new)}

Put(new) ==
  /\ scripts' = (scripts \ Replaced(new)) \cup {new}
  /\ overwritten' = overwritten \cup {e.id : e \in {f \in Replaced(new) : f.program # program}}

(* The call returns.                                                         *)
Return ==
  /\ pc' = "off"
  /\ adding' = {}

(* The last call for a Windows guest.  On Linux the file cannot be run yet,  *)
(* unless it takes the place, and so the mode, of one that can.              *)
WriteScript(new) ==
  /\ pc = "write" /\ new \in adding
  /\ IF os = "windows" \/ Replaced(new) # {} THEN Put(new) ELSE UNCHANGED <<scripts, overwritten>>
  /\ IF os = "windows" THEN Return ELSE pc' = "chmod" /\ UNCHANGED adding
  /\ UNCHANGED <<os, script_count, program, added, abandoned, ps1, scripts_done, service,
                 complete, todo, cur, elvl, runs, ran, asked_again, luck>>

Chmod(new) ==
  /\ pc = "chmod" /\ new \in adding
  /\ Put(new)
  /\ Return
  /\ UNCHANGED <<os, script_count, program, added, abandoned, ps1, scripts_done, service,
                 complete, todo, cur, elvl, runs, ran, asked_again, luck>>

(* The next call fails or the program is killed: it leaves the guest as it   *)
(* is, and another program may customize it.                                 *)
Abandon ==
  /\ pc \in AddSteps
  /\ abandoned' = abandoned \cup {e.id : e \in adding}
  /\ program' = program + 1
  /\ script_count' = 0
  /\ Return
  /\ UNCHANGED <<os, added, ps1, scripts, scripts_done, service, complete, todo, cur,
                 elvl, runs, ran, asked_again, overwritten, luck>>

(* Another program, or the same one started again, opens the guest: its      *)
(* script_count starts from 0.                                               *)
NewProgram ==
  /\ pc = "off" /\ program < MaxPrograms
  /\ program' = program + 1
  /\ script_count' = 0
  /\ UNCHANGED <<os, added, adding, abandoned, ps1, scripts, scripts_done, service,
                 complete, guest, overwritten, luck>>

-----------------------------------------------------------------------------
(* The guest                                                                *)

(* Mutated: the boot script lists the directory in no particular order.      *)
VisitedFirstAnyOrder(e) == e \in todo

(* The shell expands $d/* , and the directory of Windows is read, in the     *)
(* order of the names.                                                       *)
VisitedFirst(e) == e \in todo /\ \A f \in todo \ {e} : Before(e, f)

(* The init system starts the service.                                       *)
Boot ==
  /\ pc = "off" /\ service
  /\ pc' = "loop"
  /\ todo' = scripts
  /\ UNCHANGED <<host, scripts, scripts_done, service, complete, cur, elvl, runs,
                 ran, asked_again, overwritten, luck>>

(* The code that a script runs: a Powershell script runs its .ps1 file.      *)
Code(e) == IF e.powershell THEN ps1[e.name] ELSE e.id

Execute(e) ==
  /\ runs' = [runs EXCEPT ![e.id] = @ + 1]
  /\ ran' = ran \cup {<<e.id, Code(e)>>}

(* Mutated: the script is run where it is, and moved afterwards.             *)
MoveFirstLater(e) ==
  /\ os = "linux" /\ pc = "loop"
  /\ VisitedFirst(e)
  /\ cur' = {e}
  /\ todo' = todo \ {e}
  /\ pc' = "run"
  /\ UNCHANGED <<host, scripts, scripts_done, service, complete, elvl, runs, ran,
                 asked_again, overwritten, luck>>

(* firstboot.sh: mv $f $d_done ...                                           *)
MoveFirst(e) ==
  /\ os = "linux" /\ pc = "loop"
  /\ VisitedFirst(e)
  /\ cur' = {e}
  /\ todo' = todo \ {e}
  /\ scripts' = scripts \ {e}
  /\ scripts_done' = {f \in scripts_done : ~SameFile(e, f)} \cup {e}
  /\ pc' = "run"
  /\ UNCHANGED <<host, service, complete, elvl, runs, ran, asked_again, overwritten, luck>>

(* ... then run it from there, whatever it returns.                          *)
RunMoved(e) ==
  /\ pc = "run" /\ e \in cur
  /\ Execute(e)
  /\ cur' = {}
  /\ pc' = "loop"
  /\ UNCHANGED <<host, scripts, scripts_done, service, complete, todo, elvl,
                 asked_again, overwritten, luck>>

(* rm -f $d_done/* : the service stays and finds nothing at the next boot.   *)
FinishLinux ==
  /\ os = "linux" /\ pc = "loop" /\ todo = {}
  /\ scripts_done' = {}
  /\ pc' = "up"
  /\ UNCHANGED <<host, scripts, service, complete, todo, cur, elvl, runs, ran,
                 asked_again, overwritten, luck>>

(* firstboot.bat: call the script.  249 asks for another try, 250 for no     *)
(* reboot, 0 stands for every other code.                                    *)
Call(e) ==
  /\ os = "windows" /\ pc = "loop"
  /\ VisitedFirst(e)
  /\ Execute(e)
  /\ cur' = {e}
  /\ todo' = todo \ {e}
  /\ \/ elvl' \in {0, 250} /\ UNCHANGED retries
     \/ elvl' = 249 /\ retries < MaxRetries /\ retries' = retries + 1
  /\ pc' = "move"
  /\ asked_again' = IF elvl' = 249 THEN asked_again \cup {e.id} ELSE asked_again \ {e.id}
  /\ UNCHANGED <<host, scripts, scripts_done, service, complete, overwritten,
                 crashes, move_failures>>

AfterMove == pc' = IF elvl # 250 THEN "shutdown" ELSE "loop"

(* Mutated: the script is moved whatever its exit code.                      *)
MoveAlways(e) ==
  /\ pc = "move" /\ e \in cur
  /\ scripts' = scripts \ {e}
  /\ scripts_done' = {f \in scripts_done : ~SameFile(e, f)} \cup {e}
  /\ cur' = {}
  /\ AfterMove
  /\ UNCHANGED <<host, service, complete, todo, elvl, runs, ran, asked_again, overwritten, luck>>

(* Mutated: the script is left where it is.                                  *)
MoveNever(e) ==
  /\ pc = "move" /\ e \in cur
  /\ cur' = {}
  /\ AfterMove
  /\ UNCHANGED <<host, scripts, scripts_done, service, complete, todo, elvl, runs,
                 ran, asked_again, overwritten, luck>>

(* Move it to scripts-done unless it wants to be retried.                    *)
Move(e) ==
  /\ pc = "move" /\ e \in cur
  /\ IF elvl = 249
     THEN UNCHANGED <<scripts, scripts_done>>
     ELSE /\ scripts' = scripts \ {e}
          /\ scripts_done' = {f \in scripts_done : ~SameFile(e, f)} \cup {e}
  /\ cur' = {}
  /\ AfterMove
  /\ UNCHANGED <<host, service, complete, todo, elvl, runs, ran, asked_again, overwritten, luck>>

(* The move command fails; the batch file does not look.                     *)
MoveFails ==
  /\ pc = "move" /\ elvl # 249
  /\ move_failures < MaxMoveFailures
  /\ move_failures' = move_failures + 1
  /\ cur' = {}
  /\ AfterMove
  /\ UNCHANGED <<host, scripts, scripts_done, service, complete, todo, elvl, runs,
                 ran, asked_again, overwritten, crashes, retries>>

(* Mutated: no exit after shutdown, "in case shutdown returns before         *)
(* rebooting": the loop goes on.                                             *)
ShutdownReturns ==
  /\ pc = "shutdown"
  /\ pc' = "loop"
  /\ UNCHANGED <<host, scripts, scripts_done, service, complete, todo, cur, elvl,
                 runs, ran, asked_again, overwritten, luck>>

(* shutdown /r and exit: the service is called again at the next boot.       *)
Shutdown ==
  /\ pc = "shutdown"
  /\ pc' = "off"
  /\ todo' = {}
  /\ UNCHANGED <<host, scripts, scripts_done, service, complete, cur, elvl, runs,
                 ran, asked_again, overwritten, luck>>

(* "Fallthrough here if there are no scripts": touch the sentinel ...        *)
Complete ==
  /\ os = "windows" /\ pc = "loop" /\ todo = {}
  /\ complete' = TRUE
  /\ pc' = "uninstall"
  /\ UNCHANGED <<host, scripts, scripts_done, service, todo, cur, elvl, runs, ran,
                 asked_again, overwritten, luck>>

(* ... and uninstall the service.                                            *)
Uninstall ==
  /\ pc = "uninstall"
  /\ service' = FALSE
  /\ pc' = "up"
  /\ UNCHANGED <<host, scripts, scripts_done, complete, todo, cur, elvl, runs, ran,
                 asked_again, overwritten, luck>>

(* The guest is shut down in good order.                                     *)
PowerOff ==
  /\ pc = "up"
  /\ pc' = "off"
  /\ UNCHANGED <<host, scripts, scripts_done, service, complete, todo, cur, elvl,
                 runs, ran, asked_again, overwritten, luck>>

Running == {"loop", "run", "move", "shutdown", "uninstall", "up"}

(* The guest loses power.                                                    *)
Crash ==
  /\ pc \in Running /\ crashes < MaxCrashes
  /\ crashes' = crashes + 1
  /\ pc' = "off"
  /\ todo' = {} /\ cur' = {}
  /\ UNCHANGED <<host, scripts, scripts_done, service, complete, elvl, runs, ran,
                 asked_again, overwritten, retries, move_failures>>

Host == NewProgram \/ \E p \in Prios, n \in Names, ps \in BOOLEAN : Add(p, n, ps)

(* The rest of a call that has begun.                                        *)
Adding ==
  \/ RemoveSentinel \/ InstallService \/ Abandon
  \/ \E new \in adding : WriteScript(new) \/ Chmod(new)

Service ==
  \/ \E e \in todo : MoveFirst(e) \/ Call(e)
  \/ \E e \in cur : RunMoved(e) \/ Move(e)
  \/ FinishLinux \/ MoveFails \/ Shutdown \/ Complete \/ Uninstall

Next == Host \/ Adding \/ Boot \/ Service \/ PowerOff \/ Crash

Spec == Init /\ [][Next]_vars

(* A running guest goes on running and an installed service gets booted; a   *)
(* guest that is up is shut down some day, and the host adds scripts, or     *)
(* does not, as it likes; but a call that it has begun ends.                 *)
FairSpec ==
  Spec /\ WF_vars(Boot) /\ WF_vars(Service) /\ WF_vars(PowerOff) /\ WF_vars(Adding)

-----------------------------------------------------------------------------
(* Properties                                                               *)

Scripts == [prio : Prios, num : Nat, name : Names, id : Ids,
            program : Nat, powershell : BOOLEAN]

(* Types; every file has a name of its own in its directory, and the script  *)
(* that firstboot.sh runs as $d_done/$(basename $f) is there.                *)
TypeOK ==
  /\ os \in {"linux", "windows"}
  /\ script_count \in Nat /\ program \in Nat /\ added \in 0 .. MaxScripts
  /\ adding \subseteq Scripts /\ abandoned \subseteq Ids
  /\ scripts \subseteq Scripts /\ scripts_done \subseteq Scripts
  /\ todo \subseteq Scripts /\ cur \subseteq Scripts
  /\ ps1 \in [Names -> {0} \cup Ids]
  /\ service \in BOOLEAN /\ complete \in BOOLEAN
  /\ pc \in {"off"} \cup AddSteps \cup Running
  /\ elvl \in {0, 249, 250}
  /\ runs \in [Ids -> Nat]
  /\ ran \subseteq Ids \X ({0} \cup Ids)
  /\ asked_again \subseteq Ids
  /\ overwritten \subseteq Ids
  /\ crashes \in Nat /\ retries \in Nat /\ move_failures \in Nat
  /\ \A e, f \in scripts : SameFile(e, f) => e = f
  /\ pc = "run" => cur \subseteq scripts_done

(* "move the script to the 'scripts-done' directory, so it is not executed   *)
(* again at the next boot" (firstboot.ml:68), "no danger of a firstboot      *)
(* script running twice" (108): on Linux a script runs at most once, even if *)
(* the guest loses power between any two commands.                           *)
AtMostOnceOnLinux == os = "linux" => \A id \in Ids : runs[id] <= 1

(* Otherwise a script runs again only after it asked for it, after a power   *)
(* failure, or when its file could not be moved.                             *)
RepeatsExplained ==
  /\ AtMostOnceOnLinux
  /\ \A id \in Ids : runs[id] <= 1 + crashes + retries + move_failures

Finished(id) == runs[id] > 0 /\ id \notin asked_again

(* The scripts whose call has returned.                                      *)
Registered == {id \in 1 .. added : id \notin abandoned /\ \A e \in adding : e.id # id}

(* Windows gives no script up: one that has been added and not run, or that  *)
(* asked to be retried, is in the directory, with the service installed,     *)
(* unless another program replaced it.  On Linux this needs a guest that     *)
(* does not lose power.                                                      *)
NoScriptLost ==
  os = "windows" \/ crashes = 0 =>
    \A id \in Registered :
      \/ Finished(id) \/ id \in overwritten
      \/ service /\ \E e \in scripts \cup cur : e.id = id

(* "Touch a sentinel file to say we have finished" (firstboot.ml:339): then  *)
(* every script has finished.  A script that could not be moved may be       *)
(* started again after the sentinel, by a guest that lost power before the   *)
(* service was uninstalled.                                                  *)
SentinelMeansFinished ==
  complete /\ move_failures = 0 =>
    \A id \in Registered : Finished(id) \/ id \in overwritten

(* The order in which two scripts were asked to run.                         *)
AskedBefore(e, f) == e.prio < f.prio \/ (e.prio = f.prio /\ e.id < f.id)

Waiting(e) == e \in scripts /\ ~Finished(e.id)

(* "Within a given priority, the scripts are run in the order they are       *)
(* registered" (firstboot.mli): when a script starts, none that the same     *)
(* program wanted to run earlier still waits for its first run or its retry. *)
RunsInOrder ==
  [][\A e \in todo \cup cur : runs'[e.id] # runs[e.id] =>
       \A f \in scripts : Waiting(f) /\ f.program = e.program => ~AskedBefore(f, e)]_vars

(* "adds a firstboot script called [name] containing [content]"              *)
(* (firstboot.mli): a script runs the code that it was added with.           *)
RunsItsOwnCode == \A p \in ran : p[1] = p[2]

(* If the guest keeps being booted, every script is run, and retried if it   *)
(* asks for it, or another program replaced it, or on Linux the power failed. *)
EveryScriptRuns ==
  \A id \in Ids :
    (id \in Registered) ~>
      (Finished(id) \/ id \in overwritten \/ (os = "linux" /\ crashes > 0))
=============================================================================
