--------------------------- MODULE Firstboot_proofs ---------------------------
(***************************************************************************)
(* Proofs about Firstboot, for any names and priorities and any number of  *)
(* scripts, programs, power failures, retries and failing moves.           *)
(***************************************************************************)
EXTENDS Firstboot, TLAPS

Mishaps == crashes + retries + move_failures

(* The scripts that have not been disposed of.                               *)
Kept == scripts \cup cur

(* A file's number grows with the call that wrote it, within a program.      *)
FileInv ==
  /\ \A e \in Kept : /\ e.id <= added /\ e.program <= program
                     /\ e.program = program => e.num <= script_count
  /\ \A e, f \in Kept : e.id = f.id => e = f
  /\ \A e, f \in Kept : e.program = f.program /\ e.id < f.id => e.num < f.num

(* The script that is being added is the newest, and has a number of its own. *)
AddingInv ==
  /\ pc \notin AddSteps => adding = {}
  /\ \A e, f \in adding : e = f
  /\ \A e \in adding : /\ e.id = added /\ e.program = program /\ e.num = script_count
                        /\ runs[e.id] = 0
                        /\ \A f \in Kept : \/ f = e
                                           \/ /\ f.id < e.id
                                              /\ f.program = program => f.num < e.num
  /\ pc \in {"write", "chmod"} => service
  /\ pc \in {"service", "write", "chmod"} => ~complete
  /\ pc = "chmod" => os = "linux"

(* Where the guest is, and what it has in hand there.                        *)
PhaseInv ==
  /\ todo \subseteq scripts
  /\ pc \in Running \ {"up"} => service
  /\ pc \in {"off", "up", "uninstall"} \cup AddSteps => todo = {}
  /\ pc \notin {"run", "move"} => cur = {}
  /\ \A e, f \in cur : e = f
  /\ pc = "run" => os = "linux" /\ cur \cap scripts = {}
  /\ pc \in {"move", "shutdown", "uninstall"} => os = "windows"
  /\ pc = "move" => cur \subseteq scripts \ todo
  /\ pc = "run" => \A e \in cur, f \in todo : Before(e, f)

LinuxInv ==
  os = "linux" =>
    /\ ~complete /\ asked_again = {}
    /\ pc \in {"loop", "run"} => todo = scripts

(* A script that is still in its directory has been run only as often as     *)
(* something went wrong.                                                     *)
RunsInv ==
  /\ os = "linux" => /\ \A id \in Ids : runs[id] <= 1
                     /\ \A e \in Kept : runs[e.id] = 0
  /\ \A id \in Ids : id > added => runs[id] = 0
  /\ \A id \in Ids : runs[id] <= 1 + Mishaps
  /\ \A e \in scripts : e \notin cur \/ elvl = 249 => runs[e.id] <= Mishaps
  /\ pc = "move" => \A e \in cur : runs[e.id] > 0 /\ (elvl = 249 <=> e.id \in asked_again)

(* What the loop of the batch file has left behind has finished, and could   *)
(* not be moved.                                                             *)
LeftInv ==
  /\ os = "windows" /\ pc \in {"loop", "move"} =>
       \A e \in scripts \ (todo \cup cur) : Finished(e.id) /\ move_failures > 0
  /\ pc = "uninstall" => \A e \in scripts : Finished(e.id)
  /\ complete /\ move_failures = 0 => scripts = {}

IInv == /\ TypeOK /\ FileInv /\ AddingInv /\ PhaseInv /\ LinuxInv /\ RunsInv
        /\ LeftInv /\ NoScriptLost /\ SentinelMeansFinished

-----------------------------------------------------------------------------
(* Types                                                                    *)

LEMMA Bounded == MaxScripts \in Nat
BY FirstbootAssumption DEF FirstbootAssumption

LEMMA TypeInit == Init => TypeOK
<1> SUFFICES ASSUME Init PROVE TypeOK
  OBVIOUS
<1>1. added \in 0 .. MaxScripts
  BY Bounded DEF Init
<1>2. runs \in [Ids -> Nat] /\ ps1 \in [Names -> {0} \cup Ids]
  BY DEF Init
<1>3. QED
  BY <1>1, <1>2 DEF Init, TypeOK

(* What a call that adds a script begins with.                               *)
LEMMA BeginAdd ==
  ASSUME TypeOK, NEW prio \in Prios, NEW name \in Names, NEW ps \in BOOLEAN, Add(prio, name, ps)
  PROVE  \E new \in Scripts :
           /\ new.num = script_count + 1 /\ new.id = added + 1 /\ new.program = program
           /\ adding' = {new} /\ added' = added + 1 /\ script_count' = script_count + 1
           /\ pc = "off" /\ pc' \in {"sentinel", "service"} /\ (os = "windows" => pc' = "sentinel")
           /\ added \in Nat /\ script_count \in Nat /\ program \in Nat /\ added + 1 \in Ids
<1> DEFINE new == [prio |-> prio, num |-> script_count + 1, name |-> name, id |-> added + 1,
                  program |-> program, powershell |-> ps]
<1>1. /\ added + 1 \in Ids /\ script_count + 1 \in Nat /\ program \in Nat /\ added \in Nat
      /\ script_count \in Nat
  BY Bounded DEF Add, Begin, TypeOK, Ids
<1>2. new \in Scripts
  BY <1>1 DEF Scripts
<1>3. QED
  BY <1>1, <1>2 DEF Add, Begin, FirstStep

(* What the call does to the directory.                                      *)
LEMMA PutTypes ==
  ASSUME TypeOK, NEW new \in adding, Put(new)
  PROVE  /\ scripts' \subseteq Scripts /\ overwritten' \subseteq Ids
         /\ \A e, f \in scripts' : SameFile(e, f) => e = f
<1>1. new \in Scripts
  BY DEF TypeOK
<1>2. scripts' \subseteq Scripts /\ \A e, f \in scripts' : SameFile(e, f) => e = f
  BY <1>1 DEF Put, Replaced, TypeOK, SameFile, Scripts
<1>3. overwritten' \subseteq Ids
  BY DEF Put, Replaced, TypeOK, Scripts
<1>4. QED
  BY <1>2, <1>3

LEMMA TypeStep == TypeOK /\ [Next]_vars => TypeOK'
<1> SUFFICES ASSUME TypeOK, [Next]_vars PROVE TypeOK'
  OBVIOUS
<1>1. ASSUME NEW p \in Prios, NEW n \in Names, NEW ps \in BOOLEAN, Add(p, n, ps)
      PROVE  TypeOK'
  <2>1. /\ adding' \subseteq Scripts /\ added' \in 0 .. MaxScripts /\ added + 1 \in Ids
        /\ script_count' \in Nat /\ pc' \in AddSteps
    BY <1>1, BeginAdd, Bounded DEF AddSteps, Ids
  <2>2. ps1' \in [Names -> {0} \cup Ids]
    BY <1>1, <2>1 DEF Add, Begin, TypeOK
  <2>3. /\ UNCHANGED <<os, program, abandoned, scripts, scripts_done, service, complete>>
        /\ UNCHANGED <<todo, cur, elvl, runs, ran, asked_again, overwritten, luck>>
    BY <1>1 DEF Add, Begin
  <2>4. QED
    BY <2>1, <2>2, <2>3 DEF TypeOK, luck, AddSteps, Running
<1>12. CASE Adding
  <2>1. CASE RemoveSentinel \/ InstallService
    <3>1. /\ service' \in BOOLEAN /\ complete' \in BOOLEAN /\ pc' \in AddSteps
          /\ UNCHANGED <<host, scripts, scripts_done, todo, cur, elvl, runs, ran, asked_again>>
          /\ UNCHANGED <<overwritten, luck>>
      BY <2>1 DEF RemoveSentinel, InstallService, TypeOK, AddSteps
    <3>2. QED
      BY <3>1 DEF TypeOK, host, luck, AddSteps
  <2>2. CASE Abandon
    <3>1. abandoned' \subseteq Ids
      BY <2>2 DEF Abandon, TypeOK, Scripts
    <3>2. QED
      BY <2>2, <3>1 DEF Abandon, Return, TypeOK, luck, AddSteps, Running
  <2>3. ASSUME NEW new \in adding, WriteScript(new) \/ Chmod(new) PROVE TypeOK'
    <3>1. /\ scripts' \subseteq Scripts /\ overwritten' \subseteq Ids
          /\ \A e, f \in scripts' : SameFile(e, f) => e = f
      BY <2>3, PutTypes DEF WriteScript, Chmod, TypeOK
    <3>2. pc' \in {"off", "chmod"} /\ adding' \subseteq adding
      BY <2>3 DEF WriteScript, Chmod, Return
    <3>3. /\ UNCHANGED <<os, script_count, program, added, abandoned, ps1, scripts_done, service>>
          /\ UNCHANGED <<complete, todo, cur, elvl, runs, ran, asked_again, luck>>
      BY <2>3 DEF WriteScript, Chmod
    <3>4. QED
      BY <3>1, <3>2, <3>3 DEF TypeOK, luck, AddSteps, Running
  <2>4. QED
    BY <1>12, <2>1, <2>2, <2>3 DEF Adding
<1>2. CASE NewProgram
  BY <1>2 DEF NewProgram, TypeOK, guest, luck
<1>3. CASE Boot
  BY <1>3 DEF Boot, TypeOK, host, luck, AddSteps, Running
<1>4. ASSUME NEW e \in todo, MoveFirst(e) PROVE TypeOK'
  <2>1. e \in Scripts
    BY DEF TypeOK
  <2>2. QED
    BY <1>4, <2>1 DEF MoveFirst, TypeOK, host, luck, AddSteps, Running
<1>5. ASSUME NEW e \in todo, Call(e) PROVE TypeOK'
  <2>1. e \in Scripts /\ e.id \in Ids /\ Code(e) \in {0} \cup Ids
    BY DEF TypeOK, Code, Scripts
  <2>2. runs' \in [Ids -> Nat] /\ ran' \subseteq Ids \X ({0} \cup Ids) /\ asked_again' \subseteq Ids
    BY <1>5, <2>1 DEF Call, Execute, TypeOK
  <2>3. elvl' \in {0, 249, 250} /\ retries' \in Nat
    BY <1>5 DEF Call, TypeOK
  <2>4. QED
    BY <1>5, <2>1, <2>2, <2>3 DEF Call, TypeOK, host, AddSteps, Running
<1>6. ASSUME NEW e \in cur, RunMoved(e) PROVE TypeOK'
  <2>1. e \in Scripts /\ e.id \in Ids /\ Code(e) \in {0} \cup Ids
    BY DEF TypeOK, Code, Scripts
  <2>2. runs' \in [Ids -> Nat] /\ ran' \subseteq Ids \X ({0} \cup Ids)
    BY <1>6, <2>1 DEF RunMoved, Execute, TypeOK
  <2>3. QED
    BY <1>6, <2>1, <2>2 DEF RunMoved, TypeOK, host, luck, AddSteps, Running
<1>7. ASSUME NEW e \in cur, Move(e) PROVE TypeOK'
  BY <1>7 DEF Move, AfterMove, TypeOK, host, luck, AddSteps, Running
<1>8. CASE FinishLinux \/ MoveFails \/ Shutdown \/ Complete \/ Uninstall
  <2>1. CASE FinishLinux
    BY <2>1 DEF FinishLinux, TypeOK, host, luck, AddSteps, Running
  <2>2. CASE MoveFails
    BY <2>2 DEF MoveFails, AfterMove, TypeOK, host, AddSteps, Running
  <2>3. CASE Shutdown
    BY <2>3 DEF Shutdown, TypeOK, host, luck, AddSteps, Running
  <2>4. CASE Complete
    BY <2>4 DEF Complete, TypeOK, host, luck, AddSteps, Running
  <2>5. CASE Uninstall
    BY <2>5 DEF Uninstall, TypeOK, host, luck, AddSteps, Running
  <2>6. QED
    BY <1>8, <2>1, <2>2, <2>3, <2>4, <2>5
<1>9. CASE PowerOff \/ Crash
  BY <1>9 DEF PowerOff, Crash, TypeOK, host, luck, AddSteps, Running
<1>10. CASE UNCHANGED vars
  BY <1>10 DEF vars, host, guest, luck, TypeOK
<1>11. QED
  BY <1>1, <1>2, <1>3, <1>4, <1>5, <1>6, <1>7, <1>8, <1>9, <1>10, <1>12 DEF Next, Host, Service

(* The variables keep their types, for any names, priorities and bounds.     *)
THEOREM TypeCorrect == Spec => []TypeOK
BY TypeInit, TypeStep, PTL DEF Spec

-----------------------------------------------------------------------------
(* The steps that change which scripts there are, one lemma each            *)

LEMMA PutScript ==
  ASSUME TypeOK, AddingInv, PhaseInv, NEW new \in adding, WriteScript(new) \/ Chmod(new)
  PROVE  /\ new \in Scripts /\ adding = {new} /\ cur = {} /\ todo = {} /\ service /\ ~complete
         /\ pc \in {"write", "chmod"}
         /\ UNCHANGED <<os, script_count, program, added, abandoned, service, complete, todo,
                        cur, elvl, runs, asked_again, crashes, retries, move_failures>>
         /\ scripts' \subseteq scripts \cup {new} /\ overwritten \subseteq overwritten'
         /\ \A e \in scripts : e \in scripts' \/ e.id \in overwritten'
         /\ \/ pc' = "off" /\ adding' = {} /\ new \in scripts'
            \/ pc' = "chmod" /\ adding' = adding /\ os = "linux"
<1>1. new \in Scripts /\ adding = {new} /\ pc \in {"write", "chmod"}
  BY DEF TypeOK, AddingInv, WriteScript, Chmod
<1>2. cur = {} /\ todo = {} /\ service /\ ~complete
  BY <1>1 DEF AddingInv, PhaseInv, AddSteps
<1>3. UNCHANGED <<os, script_count, program, added, abandoned, service, complete, todo,
                  cur, elvl, runs, asked_again, crashes, retries, move_failures>>
  BY DEF WriteScript, Chmod, luck
<1>4. \/ pc' = "off" /\ adding' = {} /\ Put(new)
      \/ /\ pc' = "chmod" /\ adding' = adding /\ os = "linux"
         /\ Put(new) \/ UNCHANGED <<scripts, overwritten>>
  BY DEF WriteScript, Chmod, Return, TypeOK
<1>5. ASSUME Put(new)
      PROVE  /\ scripts' \subseteq scripts \cup {new} /\ overwritten \subseteq overwritten'
             /\ new \in scripts'
             /\ \A e \in scripts : e \in scripts' \/ e.id \in overwritten'
  <2>1. /\ scripts' = (scripts \ Replaced(new)) \cup {new}
        /\ overwritten' = overwritten \cup {e.id : e \in {f \in Replaced(new) : f.program # program}}
    BY <1>5 DEF Put
  <2>2. ASSUME NEW e \in scripts, e \notin scripts' PROVE e.id \in overwritten'
    <3>1. e \in Replaced(new) /\ e # new
      BY <2>1, <2>2
    <3>2. e.num = new.num /\ new.num \in Nat /\ e.num \in Nat
      BY <1>1, <3>1 DEF Replaced, SameFile, TypeOK, Scripts
    <3>3. e.program # program
      BY <3>1, <3>2 DEF AddingInv, Kept
    <3>4. QED
      BY <2>1, <3>1, <3>3
  <2>3. QED
    BY <2>1, <2>2
<1>6. QED
  BY <1>1, <1>2, <1>3, <1>4, <1>5

LEMMA KeptShrinks ==
  ASSUME FileInv, Kept' \subseteq Kept, UNCHANGED <<added, program, script_count>>
  PROVE  FileInv'
BY DEF FileInv

LEMMA FileStep ==
  ASSUME TypeOK, FileInv, AddingInv, PhaseInv, [Next]_vars
  PROVE  FileInv'
<1>1. ASSUME NEW p \in Prios, NEW n \in Names, NEW ps \in BOOLEAN, Add(p, n, ps)
      PROVE  FileInv'
  <2>1. /\ added' = added + 1 /\ script_count' = script_count + 1 /\ program' = program
        /\ Kept' = Kept /\ added \in Nat /\ script_count \in Nat
    BY <1>1 DEF Add, Begin, Kept, TypeOK
  <2>2. \A e \in Kept : e.id \in Nat /\ e.num \in Nat
    BY DEF Kept, TypeOK, Scripts, Ids
  <2>3. QED
    BY <2>1, <2>2 DEF FileInv
<1>7. CASE RemoveSentinel \/ InstallService
  <2>1. Kept' \subseteq Kept /\ UNCHANGED <<added, program, script_count>>
    BY <1>7 DEF RemoveSentinel, InstallService, Kept, host
  <2>2. QED
    BY <2>1, KeptShrinks
<1>8. ASSUME NEW new \in adding, WriteScript(new) \/ Chmod(new) PROVE FileInv'
  <2>1. /\ Kept' \subseteq Kept \cup {new} /\ UNCHANGED <<added, program, script_count>>
        /\ new \in Scripts /\ program \in Nat /\ script_count \in Nat
    BY <1>8, PutScript DEF Kept, TypeOK
  <2>2. \A e \in Kept \cup {new} : e.id \in Nat /\ e.program \in Nat /\ e.num \in Nat
    BY <2>1 DEF Kept, TypeOK, Scripts, Ids
  <2>3. /\ new.id = added /\ new.program = program /\ new.num = script_count
        /\ \A f \in Kept : f = new \/ (f.id < new.id /\ (f.program = program => f.num < new.num))
    BY DEF AddingInv
  <2>4. QED
    BY <2>1, <2>2, <2>3 DEF FileInv
<1>2. CASE NewProgram \/ Abandon
  <2>1. /\ program' = program + 1 /\ program \in Nat /\ UNCHANGED <<added, scripts, cur>>
    BY <1>2 DEF NewProgram, Abandon, guest, TypeOK
  <2>2. Kept' = Kept /\ \A e \in Kept : e.program \in Nat /\ e.program <= program
    BY <2>1 DEF Kept, TypeOK, Scripts, FileInv
  <2>3. QED
    BY <2>1, <2>2 DEF FileInv
<1>3. ASSUME NEW e \in todo, MoveFirst(e) \/ Call(e) PROVE FileInv'
  <2>1. Kept' \subseteq Kept /\ UNCHANGED <<added, program, script_count>>
    BY <1>3 DEF MoveFirst, Call, Kept, PhaseInv, host
  <2>2. QED
    BY <2>1, KeptShrinks
<1>4. ASSUME NEW e \in cur, RunMoved(e) \/ Move(e) PROVE FileInv'
  <2>1. Kept' \subseteq Kept /\ UNCHANGED <<added, program, script_count>>
    BY <1>4 DEF RunMoved, Move, Kept, host
  <2>2. QED
    BY <2>1, KeptShrinks
<1>5. CASE Boot \/ FinishLinux \/ MoveFails \/ Shutdown \/ Complete \/ Uninstall \/ PowerOff \/ Crash
  <2>1. Kept' \subseteq Kept /\ UNCHANGED <<added, program, script_count>>
    BY <1>5 DEF Boot, FinishLinux, MoveFails, Shutdown, Complete, Uninstall, PowerOff, Crash, Kept, host
  <2>2. QED
    BY <2>1, KeptShrinks
<1>6. CASE UNCHANGED vars
  BY <1>6 DEF vars, host, guest, FileInv, Kept
<1>9. QED
  BY <1>1, <1>2, <1>3, <1>4, <1>5, <1>6, <1>7, <1>8 DEF Next, Host, Adding, Service

LEMMA AddingStep ==
  ASSUME TypeOK, FileInv, AddingInv, PhaseInv, LinuxInv, RunsInv, [Next]_vars
  PROVE  AddingInv'
<1>1. ASSUME NEW p \in Prios, NEW n \in Names, NEW ps \in BOOLEAN, Add(p, n, ps)
      PROVE  AddingInv'
  <2>1. PICK new \in Scripts :
           /\ new.num = script_count + 1 /\ new.id = added + 1 /\ new.program = program
           /\ adding' = {new} /\ added' = added + 1 /\ script_count' = script_count + 1
           /\ pc = "off" /\ pc' \in {"sentinel", "service"} /\ (os = "windows" => pc' = "sentinel")
           /\ added \in Nat /\ script_count \in Nat /\ program \in Nat /\ added + 1 \in Ids
    BY <1>1, BeginAdd
  <2>2. Kept' = Kept /\ UNCHANGED <<os, program, complete, runs>>
    BY <1>1 DEF Add, Begin, Kept
  <2>3. \A f \in Kept : f.id \in Nat /\ f.num \in Nat
    BY DEF Kept, TypeOK, Scripts, Ids
  <2>4. \A f \in Kept : f.id < new.id /\ (f.program = program => f.num < new.num)
    BY <2>1, <2>3 DEF FileInv
  <2>5. runs[new.id] = 0
    BY <2>1 DEF RunsInv
  <2>6. pc' = "service" => ~complete
    BY <2>1 DEF LinuxInv, TypeOK
  <2>7. QED
    BY <2>1, <2>2, <2>4, <2>5, <2>6 DEF AddingInv, AddSteps
<1>2. CASE RemoveSentinel
  BY <1>2 DEF RemoveSentinel, AddingInv, AddSteps, Kept, host
<1>3. CASE InstallService
  BY <1>3 DEF InstallService, AddingInv, AddSteps, Kept, host
<1>4. CASE Abandon
  BY <1>4 DEF Abandon, Return, AddingInv, AddSteps
<1>5. ASSUME NEW new \in adding, WriteScript(new) \/ Chmod(new) PROVE AddingInv'
  <2>1. CASE pc' = "off" /\ adding' = {}
    BY <2>1 DEF AddingInv, AddSteps
  <2>2. CASE pc' = "chmod" /\ adding' = adding /\ os = "linux"
    <3>1. /\ adding = {new} /\ Kept' \subseteq Kept \cup {new} /\ service /\ ~complete
          /\ UNCHANGED <<os, script_count, program, added, service, complete, runs>>
      BY <1>5, PutScript DEF Kept
    <3>2. QED
      BY <2>2, <3>1 DEF AddingInv, AddSteps
  <2>3. QED
    BY <1>5, <2>1, <2>2, PutScript
<1>6. CASE NewProgram \/ Boot \/ Service \/ PowerOff \/ Crash
  <2>1. pc \notin AddSteps /\ pc' \notin AddSteps /\ adding' = adding
    <3>1. CASE NewProgram \/ Boot \/ PowerOff \/ Crash
      BY <3>1 DEF NewProgram, Boot, PowerOff, Crash, Running, AddSteps, host, guest
    <3>2. ASSUME NEW e \in todo, MoveFirst(e) \/ Call(e)
          PROVE  pc \notin AddSteps /\ pc' \notin AddSteps /\ adding' = adding
      BY <3>2 DEF MoveFirst, Call, AddSteps, host
    <3>3. ASSUME NEW e \in cur, RunMoved(e) \/ Move(e)
          PROVE  pc \notin AddSteps /\ pc' \notin AddSteps /\ adding' = adding
      BY <3>3 DEF RunMoved, Move, AfterMove, AddSteps, host
    <3>4. CASE FinishLinux \/ MoveFails \/ Shutdown \/ Complete \/ Uninstall
      BY <3>4 DEF FinishLinux, MoveFails, AfterMove, Shutdown, Complete, Uninstall, AddSteps, host
    <3>5. QED
      BY <1>6, <3>1, <3>2, <3>3, <3>4 DEF Service
  <2>2. QED
    BY <2>1 DEF AddingInv, AddSteps
<1>7. CASE UNCHANGED vars
  BY <1>7 DEF vars, host, guest, AddingInv, Kept
<1>8. QED
  BY <1>1, <1>2, <1>3, <1>4, <1>5, <1>6, <1>7 DEF Next, Host, Adding

LEMMA PhaseStep ==
  ASSUME TypeOK, FileInv, AddingInv, PhaseInv, LinuxInv, [Next]_vars
  PROVE  PhaseInv' /\ LinuxInv'
<1>1. ASSUME NEW p \in Prios, NEW n \in Names, NEW ps \in BOOLEAN, Add(p, n, ps)
      PROVE  PhaseInv' /\ LinuxInv'
  <2>1. /\ pc = "off" /\ todo = {} /\ cur = {} /\ pc' \in AddSteps
        /\ UNCHANGED <<os, scripts, service, complete, todo, cur, asked_again>>
    BY <1>1 DEF Add, Begin, FirstStep, PhaseInv, AddSteps
  <2>2. QED
    BY <2>1 DEF PhaseInv, LinuxInv, AddSteps, Running
<1>13. CASE RemoveSentinel \/ InstallService \/ Abandon
  <2>1. /\ pc \in AddSteps /\ pc' \in AddSteps \cup {"off"} /\ (complete' => complete)
        /\ UNCHANGED <<os, scripts, todo, cur, asked_again>>
    BY <1>13 DEF RemoveSentinel, InstallService, Abandon, Return, host, AddSteps
  <2>2. QED
    BY <2>1 DEF PhaseInv, LinuxInv, AddSteps, Running
<1>14. ASSUME NEW new \in adding, WriteScript(new) \/ Chmod(new) PROVE PhaseInv' /\ LinuxInv'
  <2>1. /\ todo = {} /\ cur = {} /\ pc' \in {"off", "chmod"}
        /\ UNCHANGED <<os, complete, todo, cur, asked_again>>
    BY <1>14, PutScript
  <2>2. QED
    BY <2>1 DEF PhaseInv, LinuxInv, AddSteps, Running
<1>2. CASE NewProgram
  BY <1>2 DEF NewProgram, guest, PhaseInv, LinuxInv, AddSteps, Running
<1>3. CASE Boot
  BY <1>3 DEF Boot, host, PhaseInv, LinuxInv, AddSteps, Running
<1>4. ASSUME NEW e \in todo, MoveFirst(e) PROVE PhaseInv' /\ LinuxInv'
  <2>1. /\ os = "linux" /\ pc = "loop" /\ pc' = "run" /\ todo = scripts /\ todo' = todo \ {e}
        /\ cur' = {e} /\ scripts' = scripts \ {e} /\ \A f \in todo \ {e} : Before(e, f)
    BY <1>4 DEF MoveFirst, VisitedFirst, LinuxInv
  <2>2. UNCHANGED <<os, complete, asked_again, added, service>>
    BY <1>4 DEF MoveFirst, host
  <2>3. PhaseInv'
    BY <2>1, <2>2 DEF PhaseInv, AddSteps, Running, Before
  <2>4. QED
    BY <2>1, <2>2, <2>3 DEF LinuxInv
<1>5. ASSUME NEW e \in todo, Call(e) PROVE PhaseInv' /\ LinuxInv'
  BY <1>5 DEF Call, host, PhaseInv, LinuxInv, AddSteps, Running
<1>6. ASSUME NEW e \in cur, RunMoved(e) PROVE PhaseInv' /\ LinuxInv'
  BY <1>6 DEF RunMoved, host, PhaseInv, LinuxInv, AddSteps, Running
<1>7. ASSUME NEW e \in cur, Move(e) PROVE PhaseInv' /\ LinuxInv'
  <2>1. /\ pc = "move" /\ os = "windows" /\ os' = os /\ todo' = todo /\ cur = {e} /\ cur' = {}
        /\ pc' \in {"shutdown", "loop"} /\ e \in scripts \ todo /\ scripts \ {e} \subseteq scripts'
        /\ service /\ service' = service
    BY <1>7 DEF Move, AfterMove, host, PhaseInv, Running
  <2>2. QED
    BY <2>1 DEF PhaseInv, LinuxInv, AddSteps, Running
<1>8. CASE MoveFails
  BY <1>8 DEF MoveFails, AfterMove, host, PhaseInv, LinuxInv, AddSteps, Running
<1>9. CASE FinishLinux \/ Shutdown \/ Complete \/ Uninstall \/ PowerOff
  BY <1>9 DEF FinishLinux, Shutdown, Complete, Uninstall, PowerOff, host, PhaseInv, LinuxInv, AddSteps, Running
<1>10. CASE Crash
  BY <1>10 DEF Crash, host, PhaseInv, LinuxInv, AddSteps, Running
<1>11. CASE UNCHANGED vars
  BY <1>11 DEF vars, host, guest, PhaseInv, LinuxInv, AddSteps, Running, Before
<1>12. QED
  BY <1>1, <1>2, <1>3, <1>4, <1>5, <1>6, <1>7, <1>8, <1>9, <1>10, <1>11, <1>13, <1>14
     DEF Next, Host, Adding, Service

LEMMA RunsStep ==
  ASSUME TypeOK, FileInv, AddingInv, PhaseInv, LinuxInv, RunsInv, [Next]_vars
  PROVE  RunsInv'
<1> USE DEF Mishaps
<1>1. ASSUME NEW p \in Prios, NEW n \in Names, NEW ps \in BOOLEAN, Add(p, n, ps)
      PROVE  RunsInv'
  <2>1. /\ added' = added + 1 /\ added \in Nat /\ Kept' = Kept /\ pc' \in AddSteps
        /\ UNCHANGED <<os, scripts, cur, elvl, runs, crashes, retries, move_failures>>
    BY <1>1 DEF Add, Begin, FirstStep, AddSteps, luck, Kept, TypeOK
  <2>2. \A id \in Ids : id > added' => runs[id] = 0
    BY <2>1 DEF RunsInv, Ids
  <2>3. QED
    BY <2>1, <2>2 DEF RunsInv, AddSteps
<1>13. CASE RemoveSentinel \/ InstallService \/ Abandon
  <2>1. /\ pc' \in AddSteps \cup {"off"} /\ Kept' = Kept
        /\ UNCHANGED <<os, added, scripts, cur, elvl, runs, crashes, retries, move_failures>>
    BY <1>13 DEF RemoveSentinel, InstallService, Abandon, Return, host, luck, Kept, AddSteps
  <2>2. QED
    BY <2>1 DEF RunsInv, AddSteps
<1>14. ASSUME NEW new \in adding, WriteScript(new) \/ Chmod(new) PROVE RunsInv'
  <2>1. /\ UNCHANGED <<os, added, cur, elvl, runs, crashes, retries, move_failures>>
        /\ Kept' \subseteq Kept \cup {new} /\ scripts' \subseteq scripts \cup {new}
        /\ pc' \in {"off", "chmod"} /\ new \in Scripts
    BY <1>14, PutScript DEF Kept
  <2>2. runs[new.id] = 0 /\ 0 <= Mishaps
    BY DEF AddingInv, TypeOK
  <2>3. QED
    BY <2>1, <2>2 DEF RunsInv
<1>2. CASE NewProgram
  BY <1>2 DEF NewProgram, guest, luck, RunsInv, Kept
<1>3. CASE Boot
  BY <1>3 DEF Boot, host, luck, PhaseInv, RunsInv, Kept
<1>4. ASSUME NEW e \in todo, MoveFirst(e) PROVE RunsInv'
  BY <1>4 DEF MoveFirst, host, luck, PhaseInv, RunsInv, Kept
<1>5. ASSUME NEW e \in todo, Call(e) PROVE RunsInv'
  <2>1. e \in scripts /\ cur = {} /\ cur' = {e} /\ e.id \in Ids /\ runs[e.id] \in Nat /\ runs[e.id] <= Mishaps
    BY <1>5 DEF Call, PhaseInv, RunsInv, TypeOK, Scripts
  <2>2. /\ runs' = [runs EXCEPT ![e.id] = @ + 1]
        /\ UNCHANGED <<os, added, scripts, crashes, move_failures>>
        /\ os = "windows" /\ pc' = "move"
    BY <1>5 DEF Call, Execute, host
  <2>3. /\ retries <= retries' /\ Mishaps <= Mishaps' /\ Mishaps \in Nat /\ Mishaps' \in Nat
        /\ elvl' = 249 => Mishaps' = Mishaps + 1
    BY <1>5, <2>2 DEF Call, TypeOK
  <2>4. asked_again' = IF elvl' = 249 THEN asked_again \cup {e.id} ELSE asked_again \ {e.id}
    BY <1>5 DEF Call
  <2>5. runs'[e.id] = runs[e.id] + 1 /\ \A id \in Ids \ {e.id} : runs'[id] = runs[id]
    BY <2>1, <2>2 DEF TypeOK
  <2>6. e.id <= added /\ \A f \in scripts \ {e} : f.id # e.id /\ f.id \in Ids
    BY <2>1 DEF FileInv, Kept, TypeOK, Scripts
  <2>7. ASSUME NEW id \in Ids
        PROVE  (id > added => runs'[id] = 0) /\ runs'[id] <= 1 + Mishaps'
    <3> HIDE DEF Mishaps
    <3>1. (id > added => runs[id] = 0) /\ runs[id] <= 1 + Mishaps /\ runs[id] \in Nat
      BY DEF RunsInv, TypeOK
    <3>2. Mishaps' \in Nat /\ added \in Nat /\ id \in Nat
      BY <2>3 DEF TypeOK, Ids
    <3>3. CASE id = e.id
      BY <2>1, <2>3, <2>5, <2>6, <3>2, <3>3
    <3>4. CASE id # e.id
      BY <2>3, <2>5, <3>1, <3>2, <3>4
    <3>5. QED
      BY <3>3, <3>4
  <2>8. ASSUME NEW f \in scripts, f # e \/ elvl' = 249
        PROVE  runs'[f.id] <= Mishaps'
    <3> HIDE DEF Mishaps
    <3>1. Mishaps' \in Nat
      BY <2>3
    <3>2. CASE f = e
      BY <2>1, <2>3, <2>5, <2>8, <3>1, <3>2
    <3>3. CASE f # e
      <4>1. runs'[f.id] = runs[f.id] /\ runs[f.id] \in Nat /\ runs[f.id] <= Mishaps
        BY <2>1, <2>5, <2>6, <3>3 DEF RunsInv, TypeOK
      <4>2. QED
        BY <2>3, <3>1, <4>1
    <3>4. QED
      BY <3>2, <3>3
  <2>9. runs'[e.id] > 0 /\ (elvl' = 249 <=> e.id \in asked_again')
    BY <2>1, <2>4, <2>5
  <2>10. QED
    BY <2>1, <2>2, <2>7, <2>8, <2>9 DEF RunsInv
<1>6. ASSUME NEW e \in cur, RunMoved(e) PROVE RunsInv'
  <2>1. /\ os = "linux" /\ e.id \in Ids /\ runs[e.id] = 0 /\ cur' = {} /\ pc' = "loop" /\ e.id <= added
        /\ \A f \in scripts : f.id # e.id /\ f.id \in Ids
    BY <1>6 DEF RunMoved, PhaseInv, RunsInv, Kept, TypeOK, Scripts, FileInv
  <2>2. /\ runs' = [runs EXCEPT ![e.id] = @ + 1]
        /\ UNCHANGED <<os, added, scripts, elvl, crashes, retries, move_failures>>
    BY <1>6 DEF RunMoved, Execute, host, luck
  <2>3. runs'[e.id] = 1 /\ \A id \in Ids \ {e.id} : runs'[id] = runs[id]
    BY <2>1, <2>2 DEF TypeOK
  <2>4. Mishaps' = Mishaps /\ Mishaps \in Nat
    BY <2>2 DEF TypeOK
  <2>5. \A id \in Ids : /\ id > added => runs'[id] = 0
                        /\ runs'[id] <= 1 + Mishaps'
                        /\ runs'[id] <= 1
    BY <2>1, <2>3, <2>4 DEF RunsInv, Ids, TypeOK
  <2>6. \A f \in scripts : runs'[f.id] = 0
    BY <2>1, <2>3 DEF RunsInv, Kept
  <2>7. QED
    BY <2>1, <2>2, <2>4, <2>5, <2>6 DEF RunsInv, Kept
<1>7. ASSUME NEW e \in cur, Move(e) PROVE RunsInv'
  <2>1. /\ pc = "move" /\ os = "windows" /\ cur = {e} /\ cur' = {} /\ pc' \in {"shutdown", "loop"}
        /\ scripts' \subseteq scripts /\ (elvl = 249 \/ scripts' = scripts \ {e})
    BY <1>7 DEF Move, AfterMove, PhaseInv
  <2>2. UNCHANGED <<os, added, elvl, runs, crashes, retries, move_failures>>
    BY <1>7 DEF Move, host, luck
  <2>3. QED
    BY <2>1, <2>2 DEF RunsInv
<1>8. CASE MoveFails
  <2>1. /\ os = "windows" /\ cur' = {} /\ pc' \in {"shutdown", "loop"} /\ Mishaps' = Mishaps + 1
        /\ Mishaps \in Nat /\ UNCHANGED <<os, added, scripts, runs>>
    BY <1>8 DEF MoveFails, AfterMove, PhaseInv, host, TypeOK
  <2>2. \A id \in Ids : runs[id] <= Mishaps' /\ runs[id] \in Nat
    BY <2>1 DEF RunsInv, TypeOK
  <2>3. \A e \in scripts : e.id \in Ids
    BY DEF TypeOK, Scripts
  <2>4. QED
    BY <2>1, <2>2, <2>3 DEF RunsInv
<1>9. CASE FinishLinux \/ Shutdown \/ Complete \/ Uninstall \/ PowerOff
  BY <1>9 DEF FinishLinux, Shutdown, Complete, Uninstall, PowerOff, host, luck, PhaseInv, RunsInv, Kept
<1>10. CASE Crash
  <2>1. /\ cur' = {} /\ pc' = "off" /\ Mishaps' = Mishaps + 1 /\ Mishaps \in Nat
        /\ UNCHANGED <<os, added, scripts, runs>>
    BY <1>10 DEF Crash, host, TypeOK
  <2>2. \A id \in Ids : runs[id] <= Mishaps' /\ runs[id] \in Nat
    BY <2>1 DEF RunsInv, TypeOK
  <2>3. \A e \in scripts : e.id \in Ids
    BY DEF TypeOK, Scripts
  <2>4. QED
    BY <2>1, <2>2, <2>3 DEF RunsInv, Kept
<1>11. CASE UNCHANGED vars
  BY <1>11 DEF vars, host, guest, luck, RunsInv, Kept
<1>12. QED
  BY <1>1, <1>2, <1>3, <1>4, <1>5, <1>6, <1>7, <1>8, <1>9, <1>10, <1>11, <1>13, <1>14
     DEF Next, Host, Adding, Service

(* A step that keeps what has been asked for and how far it has got.         *)
LEMMA NoneLost ==
  ASSUME NoScriptLost, UNCHANGED <<os, runs, asked_again>>, Registered' \subseteq Registered,
         service => service', crashes' = 0 => crashes = 0,
         overwritten \subseteq overwritten',
         \A e \in Kept : e \in Kept' \/ Finished(e.id) \/ (os = "linux" /\ crashes' # 0)
  PROVE  NoScriptLost'
<1> SUFFICES ASSUME os = "windows" \/ crashes' = 0, NEW id \in Registered'
             PROVE  \/ Finished(id) \/ id \in overwritten'
                    \/ service' /\ \E e \in Kept' : e.id = id
  BY DEF NoScriptLost, Finished, Kept
<1>1. Finished(id) \/ id \in overwritten \/ (service /\ \E e \in Kept : e.id = id)
  BY DEF NoScriptLost, Kept
<1>2. CASE service /\ \E e \in Kept : e.id = id
  BY <1>2
<1>3. QED
  BY <1>1, <1>2

LEMMA LostStep ==
  ASSUME TypeOK, FileInv, AddingInv, PhaseInv, LinuxInv, RunsInv, LeftInv, NoScriptLost, [Next]_vars
  PROVE  NoScriptLost'
<1>1. ASSUME NEW p \in Prios, NEW n \in Names, NEW ps \in BOOLEAN, Add(p, n, ps)
      PROVE  NoScriptLost'
  <2>1. PICK new \in Scripts :
           new.id = added + 1 /\ adding' = {new} /\ added' = added + 1 /\ pc = "off" /\ added \in Nat
    BY <1>1, BeginAdd
  <2>2. /\ UNCHANGED <<os, abandoned, scripts, cur, runs, asked_again, service, overwritten, crashes>>
        /\ adding = {}
    BY <1>1, <2>1 DEF Add, Begin, luck, AddingInv, AddSteps
  <2>3. Registered' \subseteq Registered
    BY <2>1, <2>2 DEF Registered
  <2>4. QED
    BY <2>2, <2>3, NoneLost DEF Kept
<1>13. CASE RemoveSentinel \/ InstallService \/ Abandon
  <2>1. /\ UNCHANGED <<os, scripts, cur, runs, asked_again, overwritten, crashes>>
        /\ service => service'
    BY <1>13 DEF RemoveSentinel, InstallService, Abandon, host, luck
  <2>2. Registered' \subseteq Registered
    <3>1. CASE RemoveSentinel \/ InstallService
      BY <3>1 DEF RemoveSentinel, InstallService, host, Registered
    <3>2. CASE Abandon
      BY <3>2 DEF Abandon, Registered
    <3>3. QED
      BY <1>13, <3>1, <3>2
  <2>3. QED
    BY <2>1, <2>2, NoneLost DEF Kept
<1>14. ASSUME NEW new \in adding, WriteScript(new) \/ Chmod(new) PROVE NoScriptLost'
  <2>1. /\ adding = {new} /\ service' /\ UNCHANGED <<os, added, abandoned, cur, runs, asked_again, crashes>>
        /\ overwritten \subseteq overwritten'
        /\ \A e \in scripts : e \in scripts' \/ e.id \in overwritten'
        /\ new \in scripts' \/ adding' = adding
    BY <1>14, PutScript
  <2>2. ASSUME os = "windows" \/ crashes = 0, NEW id \in Registered'
        PROVE  Finished(id) \/ id \in overwritten' \/ \E e \in scripts' \cup cur' : e.id = id
    <3>1. CASE id \in Registered
      BY <2>1, <2>2, <3>1 DEF NoScriptLost
    <3>2. CASE id \notin Registered
      <4>1. id = new.id /\ new \in scripts'
        BY <2>1, <3>2 DEF Registered
      <4>2. QED
        BY <4>1
    <3>3. QED
      BY <3>1, <3>2
  <2>3. QED
    BY <2>1, <2>2 DEF NoScriptLost, Finished
<1>2. CASE NewProgram
  BY <1>2 DEF NewProgram, guest, luck, NoScriptLost, Finished, Registered
<1>3. CASE Boot
  BY <1>3, NoneLost DEF Boot, host, luck, Kept, Registered
<1>4. ASSUME NEW e \in todo, MoveFirst(e) PROVE NoScriptLost'
  <2>1. Kept' = Kept
    BY <1>4 DEF MoveFirst, PhaseInv, Kept
  <2>2. QED
    BY <1>4, <2>1, NoneLost DEF MoveFirst, host, luck, Registered
<1>5. ASSUME NEW e \in todo, Call(e) PROVE NoScriptLost'
  <2>1. /\ os = "windows" /\ e \in scripts /\ e.id \in Ids /\ service /\ service' = service
        /\ UNCHANGED <<scripts, overwritten>> /\ Registered' = Registered /\ scripts \cup cur \subseteq scripts' \cup cur'
    BY <1>5 DEF Call, PhaseInv, host, Registered, TypeOK, Scripts
  <2>2. \A id \in Ids \ {e.id} : runs'[id] = runs[id] /\ (id \in asked_again' <=> id \in asked_again)
    BY <1>5 DEF Call, Execute, TypeOK
  <2>3. ASSUME NEW id \in Registered, id # e.id
        PROVE  \/ Finished(id)' \/ id \in overwritten' \/ \E f \in scripts' \cup cur' : f.id = id
    <3>1. id \in Ids
      BY Bounded DEF TypeOK, Ids, Registered
    <3>2. QED
      BY <2>1, <2>2, <2>3, <3>1 DEF NoScriptLost, Finished
  <2>4. \E f \in scripts' \cup cur' : f.id = e.id
    BY <2>1
  <2>5. QED
    BY <2>1, <2>3, <2>4 DEF NoScriptLost
<1>6. ASSUME NEW e \in cur, RunMoved(e) PROVE NoScriptLost'
  <2>1. os = "linux" /\ asked_again' = {} /\ asked_again = {} /\ e.id \in Ids /\ cur = {e} /\ cur' = {}
    BY <1>6 DEF RunMoved, PhaseInv, LinuxInv, TypeOK, Scripts
  <2>2. UNCHANGED <<os, scripts, service, overwritten, crashes>> /\ Registered' = Registered
    BY <1>6 DEF RunMoved, host, luck, Registered
  <2>3. runs' = [runs EXCEPT ![e.id] = runs[e.id] + 1]
    BY <1>6 DEF RunMoved, Execute
  <2>4. ASSUME crashes = 0, NEW id \in Registered
        PROVE  \/ Finished(id)' \/ id \in overwritten' \/ (service' /\ \E f \in scripts' \cup cur' : f.id = id)
    <3>1. id \in Ids /\ runs[id] \in Nat
      BY Bounded DEF TypeOK, Ids, Registered
    <3>2. CASE id = e.id
      BY <2>1, <2>3, <3>1, <3>2 DEF Finished, TypeOK
    <3>3. CASE id # e.id
      <4>1. runs'[id] = runs[id]
        BY <2>1, <2>3, <3>1, <3>3 DEF TypeOK
      <4>2. Finished(id) \/ id \in overwritten \/ (service /\ \E f \in scripts \cup cur : f.id = id)
        BY <2>4 DEF NoScriptLost
      <4>3. QED
        BY <2>1, <2>2, <3>3, <4>1, <4>2 DEF Finished
    <3>4. QED
      BY <3>2, <3>3
  <2>5. QED
    BY <2>1, <2>2, <2>4 DEF NoScriptLost
<1>7. ASSUME NEW e \in cur, Move(e) PROVE NoScriptLost'
  <2>1. /\ pc = "move" /\ cur = {e} /\ cur' = {} /\ e \in scripts
        /\ scripts' = scripts \/ (elvl # 249 /\ scripts' = scripts \ {e})
    BY <1>7 DEF Move, PhaseInv
  <2>2. elvl # 249 => Finished(e.id)
    BY <2>1 DEF RunsInv, Finished
  <2>3. \A f \in Kept : f \in Kept' \/ Finished(f.id)
    BY <2>1, <2>2 DEF Kept
  <2>4. QED
    BY <1>7, <2>3, NoneLost DEF Move, host, luck, Registered
<1>8. CASE MoveFails
  <2>1. Kept' = Kept
    BY <1>8 DEF MoveFails, PhaseInv, Kept
  <2>2. QED
    BY <1>8, <2>1, NoneLost DEF MoveFails, host, Registered
<1>9. CASE FinishLinux \/ Shutdown \/ Complete \/ PowerOff
  BY <1>9, NoneLost DEF FinishLinux, Shutdown, Complete, PowerOff, host, luck, Kept, Registered
<1>10. CASE Uninstall
  <2>1. /\ pc = "uninstall" /\ cur = {} /\ Registered' = Registered
        /\ UNCHANGED <<os, scripts, cur, runs, asked_again, overwritten, crashes>>
    BY <1>10 DEF Uninstall, host, luck, Registered, PhaseInv
  <2>2. \A e \in scripts \cup cur : Finished(e.id)
    BY <2>1 DEF LeftInv
  <2>3. QED
    BY <2>1, <2>2 DEF NoScriptLost, Finished
<1>11. CASE Crash
  <2>1. /\ crashes' # 0 /\ Registered' = Registered
        /\ UNCHANGED <<os, scripts, runs, asked_again, service, overwritten>>
    BY <1>11 DEF Crash, host, Registered, TypeOK
  <2>2. \A e \in Kept : e \in Kept' \/ os = "linux"
    BY <1>11 DEF Crash, PhaseInv, Kept, TypeOK
  <2>3. QED
    BY <2>1, <2>2, NoneLost
<1>12. CASE UNCHANGED vars
  BY <1>12 DEF vars, host, guest, luck, NoScriptLost, Finished, Registered
<1>15. QED
  BY <1>1, <1>2, <1>3, <1>4, <1>5, <1>6, <1>7, <1>8, <1>9, <1>10, <1>11, <1>12, <1>13, <1>14
     DEF Next, Host, Adding, Service

LEMMA LeftStep ==
  ASSUME TypeOK, FileInv, AddingInv, PhaseInv, LinuxInv, RunsInv, LeftInv, [Next]_vars
  PROVE  LeftInv'
<1>1. ASSUME NEW p \in Prios, NEW n \in Names, NEW ps \in BOOLEAN, Add(p, n, ps)
      PROVE  LeftInv'
  BY <1>1 DEF Add, Begin, FirstStep, luck, LeftInv, Finished
<1>13. CASE RemoveSentinel \/ InstallService \/ Abandon
  BY <1>13 DEF RemoveSentinel, InstallService, Abandon, Return, host, luck, LeftInv, Finished
<1>14. ASSUME NEW new \in adding, WriteScript(new) \/ Chmod(new) PROVE LeftInv'
  <2>1. ~complete' /\ pc' \in {"off", "chmod"}
    BY <1>14, PutScript
  <2>2. QED
    BY <2>1 DEF LeftInv
<1>2. CASE NewProgram
  BY <1>2 DEF NewProgram, guest, luck, LeftInv, Finished
<1>3. CASE Boot
  BY <1>3 DEF Boot, host, luck, LeftInv, Finished
<1>4. ASSUME NEW e \in todo, MoveFirst(e) PROVE LeftInv'
  BY <1>4 DEF MoveFirst, host, luck, LinuxInv, LeftInv
<1>5. ASSUME NEW e \in todo, Call(e) PROVE LeftInv'
  <2>1. /\ os = "windows" /\ pc = "loop" /\ pc' = "move" /\ e \in scripts /\ cur = {} /\ cur' = {e}
        /\ e.id \in Ids /\ todo' = todo \ {e} /\ UNCHANGED <<os, scripts, complete, move_failures>>
    BY <1>5 DEF Call, PhaseInv, host, TypeOK, Scripts
  <2>2. \A id \in Ids \ {e.id} : runs'[id] = runs[id] /\ (id \in asked_again' <=> id \in asked_again)
    BY <1>5, <2>1 DEF Call, Execute, TypeOK
  <2>3. \A f \in scripts \ {e} : f.id \in Ids \ {e.id}
    BY <2>1 DEF FileInv, Kept, TypeOK, Scripts
  <2>4. \A f \in scripts \ (todo' \cup cur') : Finished(f.id)' /\ move_failures > 0
    BY <2>1, <2>2, <2>3 DEF LeftInv, Finished
  <2>5. QED
    BY <2>1, <2>4 DEF LeftInv
<1>6. ASSUME NEW e \in cur, RunMoved(e) PROVE LeftInv'
  BY <1>6 DEF RunMoved, host, luck, PhaseInv, LinuxInv, LeftInv
<1>7. ASSUME NEW e \in cur, Move(e) PROVE LeftInv'
  <2>1. /\ pc = "move" /\ os = "windows" /\ cur = {e} /\ cur' = {} /\ e \in scripts /\ scripts # {}
        /\ scripts' \subseteq scripts
    BY <1>7 DEF Move, PhaseInv
  <2>2. pc' = "shutdown" \/ (pc' = "loop" /\ scripts' = scripts \ {e})
    BY <1>7 DEF Move, AfterMove
  <2>3. UNCHANGED <<os, complete, todo, runs, asked_again, move_failures>>
    BY <1>7 DEF Move, host, luck
  <2>4. QED
    BY <2>1, <2>2, <2>3 DEF LeftInv, Finished
<1>8. CASE MoveFails
  <2>1. /\ pc = "move" /\ elvl # 249 /\ cur' = {} /\ pc' \in {"shutdown", "loop"}
        /\ move_failures' = move_failures + 1 /\ move_failures \in Nat
        /\ UNCHANGED <<os, complete, scripts, todo, runs, asked_again>>
    BY <1>8 DEF MoveFails, AfterMove, host, TypeOK
  <2>2. \A e \in cur : Finished(e.id)
    BY <2>1 DEF RunsInv, Finished
  <2>3. os = "windows" => \A e \in scripts \ todo : Finished(e.id)'
    BY <2>1, <2>2 DEF LeftInv, Finished
  <2>4. move_failures' > 0 /\ ~(move_failures' = 0)
    BY <2>1
  <2>5. QED
    BY <2>1, <2>3, <2>4 DEF LeftInv
<1>9. CASE FinishLinux \/ Shutdown \/ Uninstall \/ PowerOff \/ Crash
  BY <1>9 DEF FinishLinux, Shutdown, Uninstall, PowerOff, Crash, Running, host, luck, LeftInv, PhaseInv
<1>10. CASE Complete
  <2>1. /\ os = "windows" /\ pc = "loop" /\ todo = {} /\ cur = {} /\ pc' = "uninstall"
        /\ UNCHANGED <<os, scripts, runs, asked_again, move_failures>>
    BY <1>10 DEF Complete, PhaseInv, host, luck
  <2>2. \A e \in scripts : Finished(e.id) /\ move_failures > 0
    BY <2>1 DEF LeftInv
  <2>3. move_failures = 0 => scripts = {}
    BY <2>2
  <2>4. QED
    BY <2>1, <2>2, <2>3 DEF LeftInv, Finished
<1>11. CASE UNCHANGED vars
  BY <1>11 DEF vars, host, guest, luck, LeftInv, Finished
<1>12. QED
  BY <1>1, <1>2, <1>3, <1>4, <1>5, <1>6, <1>7, <1>8, <1>9, <1>10, <1>11, <1>13, <1>14
     DEF Next, Host, Adding, Service

(* With nothing left in the directory, whatever is not lost has finished.    *)
LEMMA SentinelFollows ==
  TypeOK /\ PhaseInv /\ LinuxInv /\ LeftInv /\ NoScriptLost => SentinelMeansFinished
<1> SUFFICES ASSUME TypeOK, PhaseInv, LinuxInv, LeftInv, NoScriptLost, complete, move_failures = 0,
                    NEW id \in Registered
             PROVE  Finished(id) \/ id \in overwritten
  BY DEF SentinelMeansFinished
<1>1. os = "windows" /\ scripts = {}
  BY DEF TypeOK, LinuxInv, LeftInv
<1>2. cur = {}
  BY <1>1 DEF PhaseInv
<1>3. QED
  BY <1>1, <1>2 DEF NoScriptLost

LEMMA InvInit == Init => IInv
<1> SUFFICES ASSUME Init PROVE IInv
  OBVIOUS
<1>1. Kept = {} /\ Mishaps = 0
  BY DEF Init, Kept, Mishaps
<1>2. FileInv /\ AddingInv /\ PhaseInv /\ LinuxInv
  BY <1>1 DEF Init, FileInv, AddingInv, PhaseInv, LinuxInv, AddSteps, Running
<1>3. RunsInv /\ LeftInv
  BY <1>1 DEF Init, RunsInv, LeftInv
<1>4. NoScriptLost
  BY DEF Init, NoScriptLost, Registered
<1>5. QED
  BY <1>2, <1>3, <1>4, TypeInit, SentinelFollows DEF IInv

LEMMA InvStep == IInv /\ [Next]_vars => IInv'
<1> SUFFICES ASSUME IInv, [Next]_vars PROVE IInv'
  OBVIOUS
<1>1. TypeOK'
  BY TypeStep DEF IInv
<1>2. FileInv' /\ AddingInv' /\ PhaseInv' /\ LinuxInv' /\ RunsInv' /\ LeftInv' /\ NoScriptLost'
  BY <1>1, FileStep, AddingStep, PhaseStep, RunsStep, LeftStep, LostStep DEF IInv
<1>3. (TypeOK /\ PhaseInv /\ LinuxInv /\ LeftInv /\ NoScriptLost => SentinelMeansFinished)'
  BY SentinelFollows, PTL
<1>4. QED
  BY <1>1, <1>2, <1>3 DEF IInv

LEMMA Invariant == Spec => []IInv
BY InvInit, InvStep, PTL DEF Spec

-----------------------------------------------------------------------------
(* The properties                                                           *)

(* On Linux no script runs twice, wherever the power fails; on Windows only  *)
(* as often as it asked for it or something went wrong.                      *)
THEOREM RepeatsCorrect == Spec => []RepeatsExplained
<1>1. IInv => AtMostOnceOnLinux
  BY DEF IInv, RunsInv, AtMostOnceOnLinux
<1>2. IInv => \A id \in Ids : runs[id] <= 1 + crashes + retries + move_failures
  BY DEF IInv, RunsInv, Mishaps, TypeOK
<1>3. QED
  BY <1>1, <1>2, Invariant, PTL DEF RepeatsExplained

(* No script is given up, by any number of programs and power failures.      *)
THEOREM NothingLostCorrect == Spec => []NoScriptLost
BY Invariant, PTL DEF IInv

(* The sentinel says the truth, unless a move has failed.                    *)
THEOREM SentinelCorrect == Spec => []SentinelMeansFinished
BY Invariant, PTL DEF IInv

-----------------------------------------------------------------------------
(* The order                                                                *)

(* A script that is started comes before all that still wait in the loop.    *)
LEMMA StartedFirst ==
  ASSUME IInv, [Next]_vars, NEW e \in todo \cup cur, runs'[e.id] # runs[e.id]
  PROVE  /\ \A f \in todo : f = e \/ Before(e, f)
         /\ \A f \in scripts : Waiting(f) => f \in todo
<1> USE DEF IInv
<1>1. ASSUME NEW x \in todo, Call(x)
      PROVE  x = e /\ (\A f \in todo : f = e \/ Before(e, f)) /\ \A f \in scripts : Waiting(f) => f \in todo
  <2>1. /\ os = "windows" /\ pc = "loop" /\ cur = {} /\ \A f \in todo \ {x} : Before(x, f)
        /\ runs' = [runs EXCEPT ![x.id] = @ + 1]
    BY <1>1 DEF Call, Execute, VisitedFirst, PhaseInv
  <2>2. e.id \in Ids /\ x.id \in Ids /\ e \in Kept /\ x \in Kept
    BY <1>1, <2>1 DEF PhaseInv, Kept, TypeOK, Scripts
  <2>3. e.id = x.id
    BY <2>1, <2>2 DEF TypeOK
  <2>4. e = x
    BY <2>2, <2>3 DEF FileInv
  <2>5. QED
    BY <2>1, <2>4 DEF LeftInv, Waiting
<1>2. ASSUME NEW x \in cur, RunMoved(x)
      PROVE  x = e /\ (\A f \in todo : f = e \/ Before(e, f)) /\ \A f \in scripts : Waiting(f) => f \in todo
  <2>1. /\ os = "linux" /\ pc = "run" /\ todo = scripts /\ \A f \in todo : Before(x, f)
        /\ runs' = [runs EXCEPT ![x.id] = @ + 1]
    BY <1>2 DEF RunMoved, Execute, PhaseInv, LinuxInv
  <2>2. e.id \in Ids /\ x.id \in Ids /\ e \in Kept /\ x \in Kept
    BY <1>2, <2>1 DEF PhaseInv, Kept, TypeOK, Scripts
  <2>3. e.id = x.id
    BY <2>1, <2>2 DEF TypeOK
  <2>4. e = x
    BY <2>2, <2>3 DEF FileInv
  <2>5. QED
    BY <2>1, <2>4
<1>3. CASE UNCHANGED runs
  BY <1>3
<1>4. CASE Host \/ Adding \/ Boot \/ PowerOff \/ Crash \/ UNCHANGED vars
  BY <1>3, <1>4 DEF Host, NewProgram, Add, Begin, Adding, RemoveSentinel, InstallService,
     WriteScript, Chmod, Abandon, Boot, PowerOff, Crash, vars, guest
<1>5. CASE Service
  <2>1. CASE \E x \in todo : MoveFirst(x)
    BY <1>3, <2>1 DEF MoveFirst
  <2>2. CASE \E x \in cur : Move(x)
    BY <1>3, <2>2 DEF Move
  <2>3. CASE FinishLinux \/ MoveFails \/ Shutdown \/ Complete \/ Uninstall
    BY <1>3, <2>3 DEF FinishLinux, MoveFails, Shutdown, Complete, Uninstall
  <2>4. QED
    BY <1>1, <1>2, <1>5, <2>1, <2>2, <2>3 DEF Service
<1>6. QED
  BY <1>4, <1>5 DEF Next

(* Scripts of one program and priority start in the order in which they were *)
(* registered, and a script of higher priority before them.                  *)
THEOREM OrderCorrect == Spec => RunsInOrder
<1>1. ASSUME IInv, [Next]_vars, NEW e \in todo \cup cur, runs'[e.id] # runs[e.id],
             NEW f \in scripts, Waiting(f), f.program = e.program
      PROVE  ~AskedBefore(f, e)
  <2>1. f = e \/ Before(e, f)
    BY <1>1, StartedFirst
  <2>2. e \in Kept /\ f \in Kept
    BY <1>1 DEF IInv, PhaseInv, Kept
  <2>3. /\ e.prio \in Nat /\ f.prio \in Nat /\ e.num \in Nat /\ f.num \in Nat
        /\ e.id \in Nat /\ f.id \in Nat
    <3>1. cur \subseteq Scripts /\ scripts \subseteq Scripts /\ scripts_done \subseteq Scripts
      BY <1>1 DEF IInv, TypeOK
    <3>2. e \in Scripts /\ f \in Scripts
      BY <2>2, <3>1 DEF Kept
    <3>3. /\ e.prio \in Prios /\ f.prio \in Prios /\ e.num \in Nat /\ f.num \in Nat
          /\ e.id \in Ids /\ f.id \in Ids
      BY <3>2 DEF Scripts
    <3>4. Prios \subseteq Nat
      BY FirstbootAssumption DEF FirstbootAssumption
    <3>5. Ids \subseteq Nat
      BY DEF Ids
    <3>6. QED
      BY <3>3, <3>4, <3>5
  <2>4. f.id < e.id => f.num < e.num
    BY <1>1, <2>2 DEF IInv, FileInv
  <2>5. QED
    BY <2>1, <2>3, <2>4 DEF Before, AskedBefore
<1>2. IInv /\ [Next]_vars =>
        [\A e \in todo \cup cur : runs'[e.id] # runs[e.id] =>
           \A f \in scripts : Waiting(f) /\ f.program = e.program => ~AskedBefore(f, e)]_vars
  BY <1>1
<1>3. QED
  BY <1>2, Invariant, PTL DEF Spec, RunsInOrder
=============================================================================
