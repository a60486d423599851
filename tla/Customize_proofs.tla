-------------------------- MODULE Customize_proofs --------------------------
(***************************************************************************)
(* Proofs about Customize, for any guests, options and number of           *)
(* operations and programs.                                                *)
(***************************************************************************)
EXTENDS Customize, FiniteSetTheorems, SequenceTheorems, TLAPS

(* The steps between which each operation moves.                             *)
SeedSteps    == {"seed", "seed_truncate", "seed_append", "seed_write", "seed_chmod"}
HostSteps    == {"hostname", "HOSTNAME", "machine_info", "network", "hosts"}
SshSteps     == {"ssh_dir", "ssh_dir_chmod", "ssh_dir_chown", "ssh_keys", "ssh_keys_chmod",
                 "ssh_keys_chown", "ssh_append"}
VirtioSteps  == {"copy", "script", "block", "net", "fwcfg", "stubs", "devices", "commit"}
UploadSteps  == {"upload_chmod", "upload_chown"}
ShadowSteps  == {"passwords", "shadow_mktemp", "shadow_keep", "shadow_set", "shadow_save",
                 "shadow_restore", "shadow_rm"}
RelabelSteps == {"relabel", "touch_autorelabel", "spec_mv", "spec_write", "spec_attrs",
                 "setfiles", "rm_autorelabel"}

Moves(from, to) == step \in from /\ step' \in to

LEMMA Steps ==
  /\ SetSeed => Moves(SeedSteps, SeedSteps \cup {"machine_id"})
  /\ SetMachineId => Moves({"machine_id"}, {"ops"})
  /\ OpAppendLine => Moves({"ops"}, {"append_write", "failed"})
  /\ AppendText => Moves({"append_write"}, {"ops"})
  /\ OpFile \/ OpCommand \/ OpFirstboot \/ OpPassword => Moves({"ops"}, {"ops", "failed"})
  /\ OpHostname => Moves({"ops"}, HostSteps \cup {"ops"})
  /\ SetHostname => Moves(HostSteps, HostSteps \cup {"ops"})
  /\ OpSshInject => Moves({"ops"}, {"ops", "failed", "ssh_dir"})
  /\ InjectKey => Moves(SshSteps, SshSteps \cup {"ops"})
  /\ OpInject => Moves({"ops"}, {"ops", "copy"})
  /\ Inject => Moves(VirtioSteps, VirtioSteps \cup {"ops"})
  /\ OpUpload => Moves({"ops"}, {"upload_chmod"})
  /\ Upload => Moves(UploadSteps, UploadSteps \cup {"ops"})
  /\ EndOps => Moves({"ops"}, {"passwords"})
  /\ SetPasswords => Moves(ShadowSteps, ShadowSteps \cup {"relabel"})
  /\ Relabel => Moves(RelabelSteps, RelabelSteps \cup {"log"})
  /\ CleanLog => Moves({"log"}, {"done"})
<1> USE DEF Moves, Call
<1>1. SetSeed => Moves(SeedSteps, SeedSteps \cup {"machine_id"})
  BY DEF SetSeed, SeedNext, VisitSeed, TruncateSeed, AppendSeed, SeedFallback, WriteSeed,
         ProtectSeed, SeedSteps
<1>2. OpAppendLine => Moves({"ops"}, {"append_write", "failed"})
  BY DEF OpAppendLine, StartOp, append_line
<1>3. AppendText => Moves({"append_write"}, {"ops"})
  BY DEF AppendText, WriteLine
<1>4. OpFile \/ OpCommand \/ OpFirstboot \/ OpPassword => Moves({"ops"}, {"ops", "failed"})
  BY DEF OpFile, OpCommand, RunCommand, OpFirstboot, OpPassword, set_password, StartOp
<1>5. OpHostname => Moves({"ops"}, HostSteps \cup {"ops"})
  BY DEF OpHostname, StartOp, set_hostname, Method, HostSteps
<1>6. SetHostname => Moves(HostSteps, HostSteps \cup {"ops"})
  BY DEF SetHostname, HostnameNext, WriteHostname, ReplaceLine, ReplaceHosts, HostSteps
<1>7. OpSshInject => Moves({"ops"}, {"ops", "failed", "ssh_dir"})
  BY DEF OpSshInject, StartOp, do_ssh_inject_unix
<1>8. InjectKey => Moves(SshSteps, SshSteps \cup {"ops"})
  BY DEF InjectKey, SshNext, MakeSshDir, ChmodSshDir, ChownSshDir, MakeAuthKeys,
         ChmodAuthKeys, ChownAuthKeys, AppendKey, SshSteps
<1>9. OpInject => Moves({"ops"}, {"ops", "copy"})
  BY DEF OpInject, StartOp, inject
<1>10. Inject => Moves(VirtioSteps, VirtioSteps \cup {"ops"})
  BY DEF Inject, VirtioNext, CopyFile, EndCopy, InstallBlock, NoBlock, InstallNet, CheckStubs,
         RemoveStub, Devices, Commit, InstallScript, VirtioSteps
<1>11. /\ OpUpload => Moves({"ops"}, {"upload_chmod"})
       /\ Upload => Moves(UploadSteps, UploadSteps \cup {"ops"})
  BY DEF OpUpload, StartOp, Upload, UploadSteps
<1>12. SetPasswords => Moves(ShadowSteps, ShadowSteps \cup {"relabel"})
  BY DEF SetPasswords, PasswordNext, BeginPasswords, MakeTempfile, KeepAttributes, AugSet,
         AugSave, RestoreAttributes, RemoveTempfile, ShadowSteps
<1>13. Relabel => Moves(RelabelSteps, RelabelSteps \cup {"log"})
  BY DEF Relabel, relabel, SELinuxNext, TouchAutorelabel, MoveSpecfile, WriteSpecfile,
         CopyAttributes, Setfiles, RemoveAutorelabel, RelabelSteps
<1>14. /\ SetMachineId => Moves({"machine_id"}, {"ops"})
       /\ EndOps => Moves({"ops"}, {"passwords"})
       /\ CleanLog => Moves({"log"}, {"done"})
  BY DEF SetMachineId, EndOps, CleanLog
<1>15. QED
  BY <1>1, <1>2, <1>3, <1>4, <1>5, <1>6, <1>7, <1>8, <1>9, <1>10, <1>11, <1>12, <1>13, <1>14

(* What a program does before it dies or ends.                               *)
ProgramNext ==
  \/ SetSeed \/ SetMachineId
  \/ OpAppendLine \/ AppendText \/ OpFile \/ OpCommand \/ OpFirstboot
  \/ OpHostname \/ SetHostname \/ OpPassword \/ OpSshInject \/ InjectKey
  \/ OpInject \/ Inject \/ OpUpload \/ Upload
  \/ EndOps \/ SetPasswords \/ Relabel \/ CleanLog

(* What an operation is about no other operation changes.                    *)
Framed ==
  /\ UNCHANGED <<guest, cut>>
  /\ SetSeed \/ UNCHANGED seedVars
  /\ SetPasswords \/ UNCHANGED <<shadow, tempfile, aug>>
  /\ InjectKey \/ UNCHANGED <<ssh_dir, auth_keys>>
  /\ SetHostname \/ UNCHANGED <<hostname, hosts>>
  /\ OpHostname \/ SetHostname \/ UNCHANGED old_hostname
  /\ Relabel \/ UNCHANGED selinuxVars
  /\ OpInject \/ Inject \/ OpFirstboot \/ UNCHANGED virtioVars
  /\ OpUpload \/ Upload \/ UNCHANGED uploaded
  /\ SetMachineId \/ UNCHANGED machine_id
  /\ OpCommand \/ CleanLog \/ UNCHANGED logfile

LEMMA Frames == ASSUME ProgramNext PROVE Framed
<1> USE DEF Framed, seedVars, passwordVars, sshVars, hostnameVars, virtioVars, selinuxVars, opVars,
            historyVars
<1>1. CASE SetSeed \/ SetMachineId \/ EndOps \/ CleanLog
  BY <1>1 DEF SetSeed, SetMachineId, EndOps, CleanLog
<1>2. CASE OpAppendLine \/ AppendText \/ OpFile
  BY <1>2 DEF OpAppendLine, AppendText, OpFile
<1>3. CASE OpCommand \/ OpFirstboot
  BY <1>3 DEF OpCommand, RunCommand, OpFirstboot
<1>4. CASE OpHostname \/ SetHostname
  BY <1>4 DEF OpHostname, set_hostname, SetHostname
<1>5. CASE OpPassword \/ SetPasswords
  BY <1>5 DEF OpPassword, set_password, SetPasswords
<1>6. CASE OpSshInject \/ InjectKey
  BY <1>6 DEF OpSshInject, do_ssh_inject_unix, InjectKey
<1>7. CASE OpInject \/ Inject
  BY <1>7 DEF OpInject, Inject
<1>8. CASE OpUpload \/ Upload
  BY <1>8 DEF OpUpload, Upload
<1>9. CASE Relabel
  BY <1>9 DEF Relabel
<1>10. QED
  BY <1>1, <1>2, <1>3, <1>4, <1>5, <1>6, <1>7, <1>8, <1>9 DEF ProgramNext

-----------------------------------------------------------------------------
(* Labels                                                                   *)

(* The steps of relabelling and what comes after them.                       *)
Late == (RelabelSteps \ {"relabel"}) \cup {"log", "done"}

(* Labels are fresh from setfiles on; a program can only get past relabel    *)
(* with them, with the mark, or where neither is wanted.                     *)
LabelInv ==
  /\ step = "rm_autorelabel" => labels = "fresh"
  /\ step \in {"log", "done"} /\ flags.relabel /\ is_selinux_guest => labels = "fresh" \/ autorelabel

LEMMA LabelInit == Init => LabelInv
BY DEF Init, LabelInv

LEMMA LabelStep == LabelInv /\ [Next]_vars => LabelInv'
<1> SUFFICES ASSUME LabelInv, [Next]_vars PROVE LabelInv'
  OBVIOUS
<1>1. CASE ProgramNext /\ ~Relabel /\ ~CleanLog
  <2>1. step' \notin Late
    BY <1>1, Steps DEF ProgramNext, Moves, Late, SeedSteps, HostSteps, SshSteps, VirtioSteps,
       UploadSteps, ShadowSteps, RelabelSteps
  <2>2. QED
    BY <2>1 DEF LabelInv, Late, RelabelSteps
<1>2. CASE Relabel
  <2> USE DEF Relabel, LabelInv, Call
  <2>1. CASE relabel(flags.relabel)
    BY <1>2, <2>1 DEF relabel, is_selinux_guest, opVars
  <2>2. CASE TouchAutorelabel
    BY <1>2, <2>2 DEF TouchAutorelabel
  <2>3. CASE MoveSpecfile \/ WriteSpecfile \/ CopyAttributes
    BY <1>2, <2>3 DEF MoveSpecfile, WriteSpecfile, CopyAttributes
  <2>4. CASE Setfiles
    BY <1>2, <2>4 DEF Setfiles
  <2>5. CASE RemoveAutorelabel
    BY <1>2, <2>5 DEF RemoveAutorelabel
  <2>6. QED
    BY <1>2, <2>1, <2>2, <2>3, <2>4, <2>5 DEF SELinuxNext
<1>3. CASE CleanLog
  BY <1>3 DEF CleanLog, LabelInv, Call, is_selinux_guest, selinuxVars
<1>4. CASE Die \/ NewProgram
  BY <1>4 DEF Die, NewProgram, LabelInv
<1>5. CASE UNCHANGED vars
  BY <1>5 DEF vars, LabelInv, is_selinux_guest, selinuxVars, opVars
<1>6. QED
  BY <1>1, <1>2, <1>3, <1>4, <1>5 DEF Next, ProgramNext

(* When a program ends, the files of a guest that uses SELinux have their    *)
(* labels or the guest is marked for relabelling: for any guests and         *)
(* operations, and any number of programs that failed before.                *)
THEOREM LabelsCorrect == Spec => []LabelledOrMarked
<1>1. LabelInv => LabelledOrMarked
  BY DEF LabelInv, LabelledOrMarked
<1>2. QED
  BY <1>1, LabelInit, LabelStep, PTL DEF Spec

-----------------------------------------------------------------------------
(* Injection into a Windows guest                                           *)

FileNames == {f.name : f \in UNION Sources}

Scripts == [name : {"script", "install", "install-qemu-ga", "install-blnsvr"},
            files : SUBSET FileNames]

Services(i) == {<<block_driver_priority[i], "legacy">>, <<block_driver_priority[i], "modern">>}

(* The files that are still to be copied, and those that have been.          *)
CopyInv ==
  /\ to_copy \subseteq UNION Sources /\ copied \in Seq(FileNames)
  /\ step = "copy" => meth \in {"win", "ga", "blnsvr"}
  /\ step = "script" => meth \in {"ga", "blnsvr"} /\ copied # <<>>
  /\ meth # "ga" => \A f \in to_copy : MatchesGuestOs(f)
  /\ meth = "blnsvr" => \A f \in to_copy : f.name = "blnsvr.exe"
  /\ step \in {"copy", "script"} => \A i \in DOMAIN copied :
       /\ copied[i] \in IF meth = "ga" THEN DOMAIN tempdir ELSE DOMAIN driverdir
       /\ meth = "blnsvr" => copied[i] = "blnsvr.exe"

(* Drivers are of the right kind, and every service has its driver.          *)
DriverInv ==
  /\ \A n \in DOMAIN driverdir : MatchesGuestOs(driverdir[n])
  /\ \A n \in DOMAIN system32 : MatchesGuestOs(system32[n])
  /\ \A d \in registry \cup hive : d[1] \in DOMAIN system32

(* The services of an announced driver are in the hive until it is           *)
(* committed, and in the registry from then on.                              *)
BlockInv ==
  /\ step \notin {"net", "fwcfg", "stubs", "devices", "commit"} => hive = {}
  /\ installed.block # "IDE" =>
       \E i \in DOMAIN block_driver_priority : Services(i) \subseteq registry \cup hive

(* What a script runs is there and is nothing that RemoveStub removes.       *)
ScriptInv ==
  /\ firstboot \in Seq(Scripts)
  /\ \A i \in DOMAIN firstboot :
       firstboot[i].files \subseteq
         IF firstboot[i].name = "install-qemu-ga" THEN DOMAIN tempdir
         ELSE DOMAIN driverdir \ {"qemufwcfg.inf", "qemufwcfg.cat"}

(* Two drivers for one device are there only while they are being sorted     *)
(* out, or if that was interrupted.                                          *)
ConflictInv ==
  Conflict => \/ "driverdir" \in cut
              \/ meth = "win" /\ step = "copy" /\ copied # <<>>
              \/ step \in {"block", "net", "fwcfg", "stubs"}

VirtioInv == CopyInv /\ DriverInv /\ BlockInv /\ ScriptInv /\ ConflictInv

(* All other operations leave these files alone.                             *)
OtherThanVirtio == ProgramNext /\ ~OpInject /\ ~Inject /\ ~OpFirstboot

LEMMA VirtioFrame ==
  ASSUME OtherThanVirtio
  PROVE  UNCHANGED <<guest, virtioVars, cut>> /\ step' \notin VirtioSteps /\ step \notin VirtioSteps
<1>1. UNCHANGED <<guest, virtioVars, cut>>
  BY Frames DEF OtherThanVirtio, Framed
<1>2. step' \notin VirtioSteps /\ step \notin VirtioSteps
  BY Steps DEF OtherThanVirtio, ProgramNext, Moves, SeedSteps, HostSteps, SshSteps, VirtioSteps,
     UploadSteps, ShadowSteps, RelabelSteps
<1>3. QED
  BY <1>1, <1>2

LEMMA SameMatch ==
  ASSUME guest' = guest
  PROVE  \A f : MatchesGuestOs(f)' <=> MatchesGuestOs(f)
BY DEF MatchesGuestOs

(* The elements of a sequence with one more at its end, or in front.         *)
LEMMA AtEnd ==
  ASSUME NEW S, NEW s \in Seq(S), NEW e \in S
  PROVE  /\ Append(s, e) \in Seq(S)
         /\ \A i \in DOMAIN Append(s, e) :
              Append(s, e)[i] = e \/ (i \in DOMAIN s /\ Append(s, e)[i] = s[i])
OBVIOUS

LEMMA InFront ==
  ASSUME NEW S, NEW s \in Seq(S), NEW e \in S
  PROVE  /\ <<e>> \o s \in Seq(S)
         /\ <<e>> \o s # <<>>
         /\ \A i \in DOMAIN (<<e>> \o s) :
              (<<e>> \o s)[i] = e \/ \E j \in DOMAIN s : (<<e>> \o s)[i] = s[j]
<1>1. <<e>> \in Seq(S) /\ Len(<<e>>) = 1 /\ <<e>>[1] = e
  OBVIOUS
<1>2. <<e>> \o s \in Seq(S) /\ Len(<<e>> \o s) = Len(s) + 1
  BY <1>1
<1>3. \A i \in 1 .. Len(s) + 1 : (<<e>> \o s)[i] = IF i <= 1 THEN <<e>>[i] ELSE s[i - 1]
  BY <1>1
<1>4. ASSUME NEW i \in 1 .. Len(s) + 1
      PROVE  (<<e>> \o s)[i] = e \/ \E j \in DOMAIN s : (<<e>> \o s)[i] = s[j]
  <2>1. CASE i = 1
    BY <1>1, <1>3, <2>1
  <2>2. CASE i # 1
    <3>1. i - 1 \in DOMAIN s
      BY <2>2
    <3>2. QED
      BY <1>3, <2>2, <3>1
  <2>3. QED
    BY <2>1, <2>2
<1>5. QED
  BY <1>2, <1>4

LEMMA VirtioBegins == Init => VirtioInv
BY DEF Init, VirtioInit, VirtioInv, CopyInv, DriverInv, BlockInv, ScriptInv, ConflictInv, Conflict,
       NoFiles, NotInstalled

LEMMA OtherKeeps == ASSUME VirtioInv, OtherThanVirtio PROVE VirtioInv'
BY VirtioFrame DEF VirtioSteps, VirtioInv, CopyInv, DriverInv, BlockInv, ScriptInv, ConflictInv,
   Conflict, virtioVars, MatchesGuestOs

LEMMA OpInjectKeeps == ASSUME VirtioInv, OpInject PROVE VirtioInv'
<1>1. PICK what \in {"win", "ga", "blnsvr"}, source \in Sources : inject(what, source)
  BY DEF OpInject
<1>2. step = "ops" /\ guest' = guest /\ cut' = cut
  BY DEF OpInject, StartOp, historyVars
<1>3. CASE Windows
  <2>1. to_copy' = {f \in source : Fits(what, f)} /\ meth' = what /\ copied' = <<>>
        /\ step' = "copy" /\ hive' = {}
        /\ UNCHANGED <<driverdir, tempdir, system32, registry, firstboot, installed>>
    BY <1>1, <1>3 DEF inject
  <2>2. \A f \in to_copy' : f \in source /\ Fits(what, f)
    BY <2>1
  <2>3. \A f : what = "win" => (Fits(what, f) <=> MatchesGuestOs(f))
    BY DEF Fits
  <2>4. \A f : what = "blnsvr" => (Fits(what, f) <=> MatchesGuestOs(f) /\ f.name = "blnsvr.exe")
    BY DEF Fits, MatchesBlnsvr
  <2>5. copied' \in Seq(FileNames) /\ DOMAIN copied' = {}
    BY <2>1
  <2>6. CopyInv'
    BY <1>1, <1>2, <2>1, <2>2, <2>3, <2>4, <2>5, SameMatch DEF CopyInv
  <2>7. DriverInv' /\ ScriptInv' /\ BlockInv' /\ ConflictInv'
    BY <1>2, <2>1, SameMatch DEF VirtioInv, DriverInv, ScriptInv, BlockInv, ConflictInv, Conflict
  <2>8. QED
    BY <2>6, <2>7 DEF VirtioInv
<1>4. CASE ~Windows
  BY <1>1, <1>2, <1>4, SameMatch DEF inject, VirtioInv, CopyInv, DriverInv, BlockInv, ScriptInv,
     ConflictInv, Conflict
<1>5. QED
  BY <1>3, <1>4

LEMMA OpFirstbootKeeps == ASSUME VirtioInv, OpFirstboot PROVE VirtioInv'
<1>1. /\ step = "ops" /\ step' \in {"ops", "failed"}
      /\ UNCHANGED <<guest, cut, meth, to_copy, copied, driverdir, tempdir, system32, hive,
                     registry, installed>>
  BY DEF OpFirstboot, StartOp, historyVars
<1>2. \/ firstboot' = firstboot
      \/ \E command \in {"script", "install"} :
            firstboot' = Append(firstboot, [name |-> command, files |-> {}])
  BY DEF OpFirstboot, package_command
<1>3. ScriptInv'
  <2>1. CASE firstboot' = firstboot
    BY <1>1, <2>1 DEF VirtioInv, ScriptInv
  <2>2. ASSUME NEW command \in {"script", "install"},
               firstboot' = Append(firstboot, [name |-> command, files |-> {}])
        PROVE  ScriptInv'
    <3>1. [name |-> command, files |-> {}] \in Scripts
      BY DEF Scripts
    <3>2. QED
      BY <1>1, <2>2, <3>1, AtEnd DEF VirtioInv, ScriptInv
  <2>3. QED
    BY <1>2, <2>1, <2>2
<1>4. QED
  BY <1>1, <1>3, SameMatch DEF VirtioInv, CopyInv, DriverInv, BlockInv, ConflictInv, Conflict

LEMMA EndKeeps == ASSUME VirtioInv, Die \/ NewProgram PROVE VirtioInv'
<1>1. /\ UNCHANGED <<guest, driverdir, tempdir, system32, registry, firstboot>>
      /\ meth' = "none" /\ to_copy' = {} /\ copied' = <<>> /\ hive' = {}
      /\ installed' = NotInstalled
      /\ step' \in {"failed", "seed"}
  BY DEF Die, NewProgram, Forget
<1>2. ConflictInv'
  <2>1. CASE Die
    BY <1>1, <2>1 DEF Die, CutAt, VirtioInv, ConflictInv, Conflict
  <2>2. CASE NewProgram
    BY <1>1, <2>2 DEF NewProgram, VirtioInv, ConflictInv, Conflict
  <2>3. QED
    BY <2>1, <2>2
<1>3. QED
  BY <1>1, <1>2, SameMatch DEF VirtioInv, CopyInv, DriverInv, BlockInv, ScriptInv, NotInstalled

LEMMA CopyFileKeeps ==
  ASSUME VirtioInv, Inject, NEW f \in to_copy, CopyFile(f)
  PROVE  VirtioInv'
<1>1. guest' = guest /\ cut' = cut /\ step = "copy" /\ step' = "copy" /\ f.name \in FileNames
  BY DEF Inject, historyVars, CopyFile, VirtioInv, CopyInv, FileNames
<1>2. CopyInv'
  <2>1. copied' = <<f.name>> \o copied /\ copied \in Seq(FileNames)
    BY DEF CopyFile, VirtioInv, CopyInv
  <2>2. copied' \in Seq(FileNames) /\ copied' # <<>>
    BY <1>1, <2>1, InFront
  <2>3. \A i \in DOMAIN copied' : copied'[i] = f.name \/ \E j \in DOMAIN copied : copied'[i] = copied[j]
    BY <1>1, <2>1, InFront
  <2>4. IF meth = "ga" THEN DOMAIN tempdir' = DOMAIN tempdir \cup {f.name} /\ driverdir' = driverdir
                       ELSE DOMAIN driverdir' = DOMAIN driverdir \cup {f.name} /\ tempdir' = tempdir
    BY DEF CopyFile, Put
  <2>5. QED
    BY <1>1, <2>2, <2>3, <2>4, SameMatch DEF CopyFile, VirtioInv, CopyInv
<1>3. DriverInv'
  BY <1>1, SameMatch DEF CopyFile, VirtioInv, CopyInv, DriverInv, Put
<1>4. BlockInv' /\ ScriptInv'
  BY <1>1 DEF CopyFile, VirtioInv, BlockInv, ScriptInv, Put
<1>5. ConflictInv'
  <2>1. copied' # <<>>
    BY <1>1, InFront DEF CopyFile, VirtioInv, CopyInv
  <2>2. QED
    BY <1>1, <2>1 DEF CopyFile, VirtioInv, CopyInv, ConflictInv, Conflict, Put
<1>6. QED
  BY <1>2, <1>3, <1>4, <1>5 DEF VirtioInv

LEMMA InjectKeeps == ASSUME VirtioInv, Inject PROVE VirtioInv'
<1> USE SameMatch DEF VirtioInv, Call
<1>0. guest' = guest /\ cut' = cut
  BY DEF Inject, historyVars
<1>1. ASSUME NEW f \in to_copy, CopyFile(f) PROVE VirtioInv'
  BY <1>1, CopyFileKeeps
<1>2. CASE EndCopy
  BY <1>0, <1>2 DEF EndCopy, CopyInv, DriverInv, BlockInv, ScriptInv, ConflictInv, Conflict, NotInstalled
<1>3. CASE InstallBlock
  <2>1. PICK i \in DOMAIN block_driver_priority :
          /\ block_driver_priority[i] \in DOMAIN driverdir
          /\ system32' = Put(system32, block_driver_priority[i], driverdir[block_driver_priority[i]])
          /\ hive' = hive \cup Services(i)
    BY <1>3 DEF InstallBlock, Best, Available, Services
  <2>2. /\ step = "block" /\ step' = "net"
        /\ UNCHANGED <<meth, to_copy, copied, driverdir, tempdir, registry, firstboot>>
    BY <1>3 DEF InstallBlock
  <2>3. DriverInv'
    BY <1>0, <2>1, <2>2 DEF DriverInv, Put, Services
  <2>4. BlockInv'
    BY <2>1, <2>2 DEF BlockInv
  <2>5. QED
    BY <1>0, <2>2, <2>3, <2>4 DEF CopyInv, ScriptInv, ConflictInv, Conflict
<1>4. CASE NoBlock
  BY <1>0, <1>4 DEF NoBlock, virtioVars, CopyInv, DriverInv, BlockInv, ScriptInv, ConflictInv, Conflict
<1>5. CASE InstallNet
  BY <1>0, <1>5 DEF InstallNet, CopyInv, DriverInv, BlockInv, ScriptInv, ConflictInv, Conflict
<1>6. CASE CheckStubs \/ \E n \in Stubs : RemoveStub(n)
  <2>1. CASE CheckStubs
    BY <1>0, <2>1 DEF CheckStubs, virtioVars, CopyInv, DriverInv, BlockInv, ScriptInv, ConflictInv, Conflict
  <2>2. ASSUME NEW n \in Stubs, RemoveStub(n)
        PROVE  VirtioInv'
    <3>1. /\ step = "stubs" /\ step' = IF Stubs = {n} THEN "devices" ELSE "stubs"
          /\ driverdir' = [m \in DOMAIN driverdir \ {n} |-> driverdir[m]]
          /\ UNCHANGED <<meth, to_copy, copied, tempdir, system32, hive, registry, firstboot, installed>>
      BY <2>2 DEF RemoveStub
    <3>2. DOMAIN driverdir' = DOMAIN driverdir \ {n} /\ n \in {"qemufwcfg.inf", "qemufwcfg.cat"}
      BY <3>1 DEF Stubs
    <3>3. ConflictInv'
      <4>1. CASE Stubs = {n}
        BY <1>0, <2>2, <3>1, <3>2, <4>1 DEF RemoveStub, Stubs, ConflictInv, Conflict
      <4>2. CASE Stubs # {n}
        BY <3>1, <4>2 DEF ConflictInv
      <4>3. QED
        BY <4>1, <4>2
    <3>4. CopyInv' /\ DriverInv' /\ BlockInv' /\ ScriptInv'
      BY <1>0, <3>1, <3>2 DEF CopyInv, DriverInv, BlockInv, ScriptInv
    <3>5. QED
      BY <3>3, <3>4
  <2>3. QED
    BY <1>6, <2>1, <2>2
<1>7. CASE Devices
  BY <1>0, <1>7 DEF Devices, CopyInv, DriverInv, BlockInv, ScriptInv, ConflictInv, Conflict
<1>8. CASE Commit
  BY <1>0, <1>8 DEF Commit, CopyInv, DriverInv, BlockInv, ScriptInv, ConflictInv, Conflict
<1>9. CASE InstallScript
  <2>1. /\ step = "script" /\ step' = "ops"
        /\ UNCHANGED <<meth, to_copy, copied, driverdir, tempdir, system32, hive, registry, installed>>
    BY <1>9 DEF InstallScript
  <2>2. PICK script \in Scripts :
          /\ firstboot' = Append(firstboot, script)
          /\ script.files \subseteq IF script.name = "install-qemu-ga" THEN DOMAIN tempdir
                                    ELSE DOMAIN driverdir \ {"qemufwcfg.inf", "qemufwcfg.cat"}
    <3>1. CASE meth = "ga"
      <4> DEFINE script == [name |-> "install-qemu-ga", files |-> {copied[i] : i \in DOMAIN copied}]
      <4>1. script \in Scripts /\ script.files \subseteq DOMAIN tempdir
        BY <2>1, <3>1 DEF CopyInv, Scripts
      <4>2. QED
        BY <1>9, <3>1, <4>1 DEF InstallScript
    <3>2. CASE meth # "ga"
      <4> DEFINE script == [name |-> "install-blnsvr", files |-> {Head(copied)}]
      <4>1. 1 \in DOMAIN copied /\ Head(copied) = copied[1]
        BY <2>1 DEF CopyInv
      <4>2. Head(copied) = "blnsvr.exe" /\ Head(copied) \in DOMAIN driverdir \cap FileNames
        BY <2>1, <3>2, <4>1 DEF CopyInv
      <4>3. script \in Scripts
        BY <4>2 DEF Scripts
      <4>4. QED
        BY <1>9, <3>2, <4>2, <4>3 DEF InstallScript
    <3>3. QED
      BY <3>1, <3>2
  <2>3. ScriptInv'
    BY <2>1, <2>2, AtEnd DEF ScriptInv
  <2>4. QED
    BY <1>0, <2>1, <2>3 DEF CopyInv, DriverInv, BlockInv, ConflictInv, Conflict
<1>10. QED
  BY <1>1, <1>2, <1>3, <1>4, <1>5, <1>6, <1>7, <1>8, <1>9 DEF Inject, VirtioNext

(* What the next boot of a Windows guest needs is there after any operations *)
(* of any number of programs, whether they came to their end or not.         *)
THEOREM BootCorrect == Spec => []NextBootFindsFiles
<1>1. VirtioInv => NextBootFindsFiles
  BY DEF VirtioInv, DriverInv, BlockInv, ScriptInv, ConflictInv, NextBootFindsFiles, Services
<1>2. VirtioInv /\ [Next]_vars => VirtioInv'
  <2> SUFFICES ASSUME VirtioInv, [Next]_vars PROVE VirtioInv'
    OBVIOUS
  <2>1. CASE OtherThanVirtio
    BY <2>1, OtherKeeps
  <2>2. CASE OpInject \/ Inject
    BY <2>2, OpInjectKeeps, InjectKeeps
  <2>3. CASE OpFirstboot
    BY <2>3, OpFirstbootKeeps
  <2>4. CASE Die \/ NewProgram
    BY <2>4, EndKeeps
  <2>5. CASE UNCHANGED vars
    BY <2>5, SameMatch DEF vars, virtioVars, historyVars, VirtioInv, CopyInv, DriverInv, BlockInv,
       ScriptInv, ConflictInv, Conflict
  <2>6. QED
    BY <2>1, <2>2, <2>3, <2>4, <2>5 DEF Next, ProgramNext, OtherThanVirtio
<1>3. QED
  BY <1>1, <1>2, VirtioBegins, PTL DEF Spec

-----------------------------------------------------------------------------
(* Nothing is half done.  Each part of the invariant is about one operation *)
(* and holds for itself: while the operation is under way it says how far   *)
(* it has come, and otherwise that it is complete, or was cut short.        *)

(* ssh keys *)
SshDirInv ==
  CASE step = "ssh_dir_chmod" -> ssh_dir = ByRoot("0755")
    [] step = "ssh_dir_chown" -> ssh_dir = ByRoot("0700")
    [] OTHER -> ssh_dir = Missing \/ ssh_dir = OfUser("0700") \/ "ssh_dir" \in cut

AuthKeysInv ==
  /\ auth_keys = Missing \/ "file" \in DOMAIN auth_keys
  /\ step \in {"ssh_keys_chmod", "ssh_keys_chown", "ssh_append"} => auth_keys # Missing
  /\ CASE step = "ssh_keys_chmod" -> auth_keys.file = ByRoot("0644")
       [] step = "ssh_keys_chown" -> auth_keys.file = ByRoot("0600")
       [] OTHER -> auth_keys = Missing \/ auth_keys.file = OfUser("0600") \/ "auth_keys" \in cut

LEMMA SshKeeps == ASSUME SshDirInv, AuthKeysInv, [Next]_vars PROVE SshDirInv' /\ AuthKeysInv'
<1> USE DEF Missing, ByRoot, OfUser
<1>1. CASE InjectKey
  <2>1. cut' = cut
    BY <1>1, Frames DEF ProgramNext, Framed
  <2> USE DEF SshDirInv, AuthKeysInv, Call
  <2>2. CASE MakeSshDir
    BY <2>1, <2>2 DEF MakeSshDir
  <2>3. CASE ChmodSshDir
    BY <2>1, <2>3 DEF ChmodSshDir
  <2>4. CASE ChownSshDir
    BY <2>1, <2>4 DEF ChownSshDir
  <2>5. CASE MakeAuthKeys
    BY <2>1, <2>5 DEF MakeAuthKeys
  <2>6. CASE ChmodAuthKeys
    BY <2>1, <2>6 DEF ChmodAuthKeys
  <2>7. CASE ChownAuthKeys
    BY <2>1, <2>7 DEF ChownAuthKeys
  <2>8. CASE AppendKey
    BY <2>1, <2>8 DEF AppendKey
  <2>9. QED
    BY <1>1, <2>2, <2>3, <2>4, <2>5, <2>6, <2>7, <2>8 DEF InjectKey, SshNext
<1>2. CASE ProgramNext /\ ~InjectKey
  <2>1. /\ UNCHANGED <<ssh_dir, auth_keys, cut>>
        /\ step \notin SshSteps /\ step' \notin SshSteps \ {"ssh_dir"}
    BY <1>2, Frames, Steps DEF ProgramNext, Framed, Moves, SeedSteps, HostSteps, SshSteps,
       VirtioSteps, UploadSteps, ShadowSteps, RelabelSteps
  <2>2. QED
    BY <2>1 DEF SshDirInv, AuthKeysInv, SshSteps
<1>3. CASE Die
  BY <1>3 DEF Die, Forget, CutAt, SshDirInv, AuthKeysInv
<1>4. CASE NewProgram
  BY <1>4 DEF NewProgram, Forget, SshDirInv, AuthKeysInv
<1>5. CASE UNCHANGED vars
  BY <1>5 DEF vars, sshVars, historyVars, SshDirInv, AuthKeysInv
<1>6. QED
  BY <1>1, <1>2, <1>3, <1>4, <1>5 DEF Next, ProgramNext

(* /etc/shadow *)
ShadowInv ==
  /\ IF step = "shadow_restore" THEN "attrs" \in DOMAIN shadow
                                ELSE shadow.attrs = "original" \/ "shadow" \in cut
  /\ step = "shadow_keep" => tempfile = [kind |-> "file", attrs |-> "default"]
  /\ step \in {"shadow_set", "shadow_save", "shadow_restore"} =>
       tempfile.attrs = "original" \/ "shadow" \in cut
  /\ \/ step \in {"shadow_keep", "shadow_set", "shadow_save", "shadow_restore", "shadow_rm"}
     \/ tempfile = Missing \/ "tempfile" \in cut

LEMMA ShadowKeeps == ASSUME ShadowInv, [Next]_vars PROVE ShadowInv'
<1>1. CASE SetPasswords
  <2>1. cut' = cut
    BY <1>1, Frames DEF ProgramNext, Framed
  <2> USE DEF ShadowInv, Call
  <2>2. CASE BeginPasswords
    BY <2>1, <2>2 DEF BeginPasswords, passwordVars
  <2>3. CASE MakeTempfile
    BY <2>1, <2>3 DEF MakeTempfile
  <2>4. CASE KeepAttributes
    BY <2>1, <2>4 DEF KeepAttributes
  <2>5. CASE AugSet
    BY <2>1, <2>5 DEF AugSet
  <2>6. CASE AugSave
    BY <2>1, <2>6 DEF AugSave
  <2>7. CASE RestoreAttributes
    BY <2>1, <2>7 DEF RestoreAttributes
  <2>8. CASE RemoveTempfile
    BY <2>1, <2>8 DEF RemoveTempfile
  <2>9. QED
    BY <1>1, <2>2, <2>3, <2>4, <2>5, <2>6, <2>7, <2>8 DEF SetPasswords, PasswordNext
<1>2. CASE ProgramNext /\ ~SetPasswords
  <2>1. /\ UNCHANGED <<shadow, tempfile, cut>>
        /\ step \notin ShadowSteps /\ step' \notin ShadowSteps \ {"passwords"}
    BY <1>2, Frames, Steps DEF ProgramNext, Framed, Moves, SeedSteps, HostSteps, SshSteps,
       VirtioSteps, UploadSteps, ShadowSteps, RelabelSteps
  <2>2. QED
    BY <2>1 DEF ShadowInv, ShadowSteps
<1>3. CASE Die
  BY <1>3 DEF Die, Forget, CutAt, ShadowInv
<1>4. CASE NewProgram
  BY <1>4 DEF NewProgram, Forget, ShadowInv
<1>5. CASE UNCHANGED vars
  BY <1>5 DEF vars, passwordVars, historyVars, ShadowInv
<1>6. QED
  BY <1>1, <1>2, <1>3, <1>4, <1>5 DEF Next, ProgramNext

(* /etc/hosts: the old name, in forms that the new one does not have.        *)
OldNameGone ==
  \/ "hosts" \in cut
  \/ {guest.hostname, Short(guest.hostname)} \cap hosts \subseteq {NewHost, Short(NewHost)}

HostsInv ==
  Debian /\ guest.hostname # NewHost =>
    /\ step \notin {"machine_info", "network", "HOSTNAME"}
    /\ hostname \in {guest.hostname, NewHost}
    /\ step = "hostname" => old_hostname = hostname
    /\ IF step = "hosts" THEN old_hostname = guest.hostname \/ OldNameGone
                         ELSE hostname = NewHost => OldNameGone

LEMMA HostsKeep == ASSUME HostsInv, [Next]_vars PROVE HostsInv'
<1>1. CASE SetHostname
  <2>1. cut' = cut /\ guest' = guest
    BY <1>1, Frames DEF ProgramNext, Framed
  <2>2. CASE WriteHostname
    BY <2>1, <2>2 DEF WriteHostname, HostsInv, OldNameGone, Debian
  <2>3. CASE ReplaceLine
    BY <2>1, <2>3 DEF ReplaceLine, HostsInv, OldNameGone, Debian
  <2>4. CASE ReplaceHosts
    <3> SUFFICES ASSUME Debian, guest.hostname # NewHost
                 PROVE  /\ step' = "ops" /\ hostname' = hostname
                        /\ hostname \in {guest.hostname, NewHost} /\ OldNameGone'
      BY <2>1, <2>4 DEF HostsInv, Debian
    <3>1. step = "hosts" /\ step' = "ops" /\ hostname' = hostname /\ hosts' = {Renamed(h) : h \in hosts}
      BY <2>4 DEF ReplaceHosts, Call
    <3>2. \A h : Renamed(h) \in {NewHost, Short(NewHost), h}
      BY DEF Renamed
    <3>3. CASE old_hostname = guest.hostname
      <4>1. \A h \in {guest.hostname, Short(guest.hostname)} : Renamed(h) \in {NewHost, Short(NewHost)}
        BY <3>3 DEF Renamed
      <4>2. \A n \in {guest.hostname, Short(guest.hostname)} \cap hosts' : n \in {NewHost, Short(NewHost)}
        BY <3>1, <3>2, <4>1
      <4>3. QED
        BY <2>1, <3>1, <4>2 DEF HostsInv, OldNameGone
    <3>4. CASE OldNameGone
      BY <2>1, <3>1, <3>2, <3>4 DEF HostsInv, OldNameGone
    <3>5. QED
      BY <3>1, <3>3, <3>4 DEF HostsInv
  <2>5. QED
    BY <1>1, <2>2, <2>3, <2>4 DEF SetHostname, HostnameNext
<1>2. CASE OpHostname
  <2>1. UNCHANGED <<cut, guest, hostname, hosts>>
    BY <1>2, Steps, Frames DEF ProgramNext, Framed, Moves, OpHostname, set_hostname
  <2>2. step = "ops" /\ (Debian => old_hostname' = hostname /\ step' \in {"ops", "hostname"})
    BY <1>2 DEF OpHostname, StartOp, set_hostname, Debian, Method, EtcHostname
  <2>3. QED
    BY <2>1, <2>2 DEF HostsInv, OldNameGone, Debian
<1>3. CASE ProgramNext /\ ~SetHostname /\ ~OpHostname
  <2>1. /\ UNCHANGED <<guest, hostname, hosts, old_hostname, cut>>
        /\ step \notin HostSteps /\ step' \notin HostSteps
    BY <1>3, Frames, Steps DEF ProgramNext, Framed, Moves, SeedSteps, HostSteps, SshSteps,
       VirtioSteps, UploadSteps, ShadowSteps, RelabelSteps
  <2>2. QED
    BY <2>1 DEF HostsInv, OldNameGone, Debian, HostSteps
<1>4. CASE Die
  BY <1>4 DEF Die, Forget, CutAt, HostsInv, OldNameGone, Debian
<1>5. CASE NewProgram
  BY <1>5 DEF NewProgram, Forget, HostsInv, OldNameGone, Debian
<1>6. CASE UNCHANGED vars
  BY <1>6 DEF vars, hostnameVars, historyVars, HostsInv, OldNameGone, Debian
<1>7. QED
  BY <1>1, <1>2, <1>3, <1>4, <1>5, <1>6 DEF Next, ProgramNext

(* The specfile, the uploaded file, and the machine ID of a guest that has a *)
(* log of commands.                                                          *)
SpecInv == specfile \in {"missing", "bare"} =>
  guest.specfile = "missing" \/ "specfile" \in cut \/ step \in {"spec_write", "spec_attrs"}

UploadInv ==
  CASE step = "upload_chmod" -> uploaded = ByRoot("0644")
    [] step = "upload_chown" -> uploaded = ByRoot("local")
    [] OTHER -> uploaded = Missing \/ uploaded.mode = "local" \/ "uploaded" \in cut

MachineIdInv ==
  /\ logfile => machine_id # "empty"
  /\ step \notin SeedSteps \cup {"machine_id", "done", "failed"} => machine_id # "empty"

LEMMA SpecKeeps == ASSUME SpecInv, [Next]_vars PROVE SpecInv'
<1>1. CASE Relabel
  <2>1. cut' = cut /\ guest' = guest
    BY <1>1, Frames DEF ProgramNext, Framed
  <2>2. QED
    BY <1>1, <2>1 DEF Relabel, relabel, SELinuxNext, TouchAutorelabel, MoveSpecfile, WriteSpecfile,
       CopyAttributes, Setfiles, RemoveAutorelabel, Call, selinuxVars, SpecInv
<1>2. CASE ProgramNext /\ ~Relabel
  <2>1. UNCHANGED <<guest, specfile, cut>> /\ step \notin {"spec_write", "spec_attrs"}
    BY <1>2, Frames, Steps DEF ProgramNext, Framed, selinuxVars, Moves, SeedSteps, HostSteps,
       SshSteps, VirtioSteps, UploadSteps, ShadowSteps
  <2>2. QED
    BY <2>1 DEF SpecInv
<1>3. CASE Die \/ NewProgram
  BY <1>3 DEF Die, NewProgram, Forget, CutAt, selinuxVars, SpecInv
<1>4. CASE UNCHANGED vars
  BY <1>4 DEF vars, selinuxVars, historyVars, SpecInv
<1>5. QED
  BY <1>1, <1>2, <1>3, <1>4 DEF Next, ProgramNext

LEMMA UploadKeeps == ASSUME UploadInv, [Next]_vars PROVE UploadInv'
<1> USE DEF ByRoot, Missing
<1>1. CASE OpUpload \/ Upload
  <2>1. cut' = cut
    BY <1>1, Frames DEF ProgramNext, Framed
  <2>2. CASE OpUpload
    BY <2>2 DEF OpUpload, UploadInv
  <2>3. CASE Upload
    BY <2>1, <2>3 DEF Upload, Call, UploadInv
  <2>4. QED
    BY <1>1, <2>2, <2>3
<1>2. CASE ProgramNext /\ ~OpUpload /\ ~Upload
  <2>1. UNCHANGED <<uploaded, cut>> /\ step \notin UploadSteps /\ step' \notin UploadSteps
    BY <1>2, Frames, Steps DEF ProgramNext, Framed, Moves, SeedSteps, HostSteps, SshSteps,
       VirtioSteps, UploadSteps, ShadowSteps, RelabelSteps
  <2>2. QED
    BY <2>1 DEF UploadInv, UploadSteps
<1>3. CASE Die
  BY <1>3 DEF Die, Forget, CutAt, UploadInv
<1>4. CASE NewProgram
  BY <1>4 DEF NewProgram, Forget, UploadInv
<1>5. CASE UNCHANGED vars
  BY <1>5 DEF vars, opVars, historyVars, UploadInv
<1>6. QED
  BY <1>1, <1>2, <1>3, <1>4, <1>5 DEF Next, ProgramNext

LEMMA MachineIdKeeps == ASSUME MachineIdInv, [Next]_vars PROVE MachineIdInv'
<1>1. CASE SetMachineId
  BY <1>1, Frames DEF SetMachineId, ProgramNext, Framed, MachineIdInv, Call, SeedSteps
<1>2. CASE SetSeed
  <2>1. UNCHANGED <<logfile, machine_id>> /\ step' \in SeedSteps \cup {"machine_id"}
    BY <1>2, Steps DEF SetSeed, Moves, opVars
  <2>2. QED
    BY <2>1 DEF MachineIdInv
<1>3. CASE OpCommand \/ CleanLog
  BY <1>3, Frames, Steps DEF ProgramNext, Framed, MachineIdInv, Moves, OpCommand, RunCommand,
     CleanLog, SeedSteps
<1>4. CASE ProgramNext /\ ~SetMachineId /\ ~SetSeed /\ ~OpCommand /\ ~CleanLog
  <2>1. UNCHANGED <<logfile, machine_id>> /\ step \notin SeedSteps \cup {"machine_id", "done", "failed"}
    BY <1>4, Frames, Steps DEF ProgramNext, Framed, Moves, SeedSteps, HostSteps, SshSteps,
       VirtioSteps, UploadSteps, ShadowSteps, RelabelSteps
  <2>2. QED
    BY <2>1 DEF MachineIdInv
<1>5. CASE Die \/ NewProgram
  BY <1>5 DEF Die, NewProgram, Forget, MachineIdInv, SeedSteps
<1>6. CASE UNCHANGED vars
  BY <1>6 DEF vars, opVars, MachineIdInv
<1>7. QED
  BY <1>1, <1>2, <1>3, <1>4, <1>5, <1>6 DEF Next, ProgramNext

(* Random seeds: those that have been visited are done.                      *)
SeedModes    == {"0600", "0644"}
SeedContents == {"before", "nothing", "entropy"}

SeedRecord  == [kind : {"file"}, bytes : Nat, data : SeedContents, mode : SeedModes]
FreshRecord == [kind : {"file"}, bytes : SeedSizes, data : {"entropy"}, mode : SeedModes]

SeedDone(f) == seeds[f] = Missing \/ seeds[f] \in FreshRecord

Private(s) == s = Missing \/ s.mode = "0600"

SeedTypes ==
  /\ guest \in Guests /\ visited \in 0 .. 5
  /\ DOMAIN seeds = SeedNames
  /\ \A f \in SeedNames : seeds[f] = Missing \/ seeds[f] \in SeedRecord

SeedModeInv ==
  /\ step = "seed_chmod" => \A f \in SeedNames \cap fallback : seeds[f] # Missing
  /\ \A f \in SeedNames : \/ Private(seeds[f]) \/ "seed" \in cut
                          \/ step = "seed_chmod" /\ f \in fallback

SeedPending ==
  step \in {"seed_truncate", "seed_append"} =>
    /\ Linux /\ visited # 0 /\ seeds[seed_files[visited]] # Missing
    /\ entropy \in SeedSizes

SeedsDone ==
  /\ step = "seed" /\ Linux => \A i \in 1 .. visited : SeedDone(seed_files[i])
  /\ step \in {"seed_truncate", "seed_append"} => \A i \in 1 .. visited - 1 : SeedDone(seed_files[i])
  /\ step \notin {"seed", "seed_truncate", "seed_append", "failed"} /\ Linux =>
       \A f \in SeedNames : SeedDone(f)

SeedsInv == SeedTypes /\ SeedModeInv /\ SeedPending /\ SeedsDone

LEMMA SeedFiles ==
  /\ Len(seed_files) = 5 /\ DOMAIN seed_files = 1 .. 5
  /\ \A i, j \in 1 .. 5 : seed_files[i] = seed_files[j] => i = j
  /\ SeedNames = {seed_files[i] : i \in 1 .. 5}
BY DEF seed_files, SeedNames

LEMMA CappedBounds == \A n \in Nat : Capped(n) \in SeedSizes
BY DEF Capped, SeedSizes

LEMMA SizesAreNat == 512 \in SeedSizes /\ \A n \in SeedSizes : n \in Nat
BY DEF SeedSizes

LEMMA AnySeed ==
  ASSUME NEW n \in Nat, NEW data \in SeedContents, NEW mode \in SeedModes
  PROVE  Seed(n, data, mode) \in SeedRecord /\ Seed(n, data, mode).mode = mode
BY DEF Seed, SeedRecord

LEMMA FreshSeed ==
  ASSUME NEW n \in SeedSizes, NEW mode \in SeedModes
  PROVE  Seed(n, "entropy", mode) \in FreshRecord
BY DEF Seed, FreshRecord

LEMMA SeedFields ==
  ASSUME NEW s \in SeedRecord
  PROVE  s # Missing /\ s.mode \in SeedModes /\ s.bytes \in Nat /\ s.data \in SeedContents
BY DEF SeedRecord, Missing

LEMMA FreshFields ==
  ASSUME NEW s \in FreshRecord
  PROVE  s \in SeedRecord /\ s.bytes \in SeedSizes /\ s.data = "entropy"
BY SizesAreNat DEF FreshRecord, SeedRecord, SeedContents

LEMMA ChmodSeed ==
  /\ \A s \in SeedRecord : Seed(s.bytes, s.data, "0600") \in SeedRecord
  /\ \A s \in FreshRecord : Seed(s.bytes, s.data, "0600") \in FreshRecord
  /\ \A s \in SeedRecord : Private(Seed(s.bytes, s.data, "0600"))
BY DEF Seed, SeedRecord, FreshRecord, SeedModes, Private

LEMMA SeedsBegin == Init => SeedsInv
<1> SUFFICES ASSUME Init PROVE SeedsInv
  OBVIOUS
<1>1. /\ guest \in Guests /\ step = "seed" /\ visited = 0
      /\ seeds = [f \in SeedNames |-> IF f \in DOMAIN guest.seeds
                                     THEN Seed(guest.seeds[f], "before", "0600") ELSE Missing]
  BY DEF Init, SeedInit
<1>2. \A f \in DOMAIN guest.seeds : guest.seeds[f] \in Nat
  BY <1>1, SeedAssumption
<1>3. ASSUME NEW f \in SeedNames
      PROVE  (seeds[f] = Missing \/ seeds[f] \in SeedRecord) /\ Private(seeds[f])
  <2>1. CASE f \in DOMAIN guest.seeds
    <3>1. /\ seeds[f] = Seed(guest.seeds[f], "before", "0600") /\ guest.seeds[f] \in Nat
          /\ "before" \in SeedContents /\ "0600" \in SeedModes
      BY <1>1, <1>2, <2>1 DEF SeedContents, SeedModes
    <3>2. QED
      BY <3>1, AnySeed DEF Private
  <2>2. CASE f \notin DOMAIN guest.seeds
    <3>1. seeds[f] = Missing
      BY <1>1, <2>2
    <3>2. QED
      BY <3>1 DEF Private
  <2>3. QED
    BY <2>1, <2>2
<1>4. DOMAIN seeds = SeedNames
  BY <1>1
<1>5. SeedTypes
  BY <1>1, <1>3, <1>4 DEF SeedTypes
<1>6. SeedModeInv
  BY <1>1, <1>3 DEF SeedModeInv
<1>7. SeedPending /\ SeedsDone
  BY <1>1 DEF SeedPending, SeedsDone
<1>8. QED
  BY <1>5, <1>6, <1>7 DEF SeedsInv, SeedTypes, SeedModeInv, SeedPending, SeedsDone

LEMMA SeedsKeep == ASSUME SeedsInv, [Next]_vars PROVE SeedsInv'
<1>1. CASE SetSeed
  <2>1. UNCHANGED <<guest, cut>> /\ fallback' = fallback /\ Linux' = Linux
    BY <1>1, Frames DEF ProgramNext, Framed, fallback, Linux
  <2>2. CASE VisitSeed
    <3>1. step = "seed" /\ Linux /\ visited \in 0 .. 4 /\ visited' = visited + 1 /\ seeds' = seeds
      BY <2>2, SeedFiles DEF VisitSeed, SeedsInv, SeedTypes, SeedModeInv, SeedPending, SeedsDone
    <3> DEFINE f == seeds[seed_files[visited + 1]]
    <3>2. CASE f = Missing
      <4>1. step' = step
        BY <2>2, <3>2 DEF VisitSeed
      <4>2. \A i \in 1 .. visited' : i = visited + 1 \/ i \in 1 .. visited
        BY <3>1
      <4>3. \A i \in 1 .. visited' : SeedDone(seed_files[i])'
        BY <3>1, <3>2, <4>2 DEF SeedsInv, SeedTypes, SeedModeInv, SeedPending, SeedsDone, SeedDone, Missing
      <4>4. QED
        BY <2>1, <3>1, <4>1, <4>3 DEF SeedsInv, SeedTypes, SeedModeInv, SeedPending, SeedsDone, Missing
    <3>3. CASE f # Missing
      <4>1. step' = "seed_truncate" /\ entropy' = Capped(f.bytes) /\ f \in SeedRecord
        BY <2>2, <3>1, <3>3, SeedFiles DEF VisitSeed, SeedsInv, SeedTypes, SeedModeInv, SeedPending, SeedsDone
      <4>2. entropy' \in SeedSizes
        BY <4>1, CappedBounds, SeedFields
      <4>3. \A i \in 1 .. visited' - 1 : SeedDone(seed_files[i])'
        BY <3>1 DEF SeedsInv, SeedTypes, SeedModeInv, SeedPending, SeedsDone, SeedDone, Missing
      <4>4. QED
        BY <2>1, <3>1, <3>3, <4>1, <4>2, <4>3 DEF SeedsInv, SeedTypes, SeedModeInv, SeedPending, SeedsDone, Missing
    <3>4. QED
      BY <3>2, <3>3
  <2>3. CASE TruncateSeed \/ AppendSeed
    <3> DEFINE name == seed_files[visited]
    <3>1. /\ step \in {"seed_truncate", "seed_append"} /\ UNCHANGED <<visited, entropy>>
          /\ IF step = "seed_truncate"
             THEN step' = "seed_append" /\ seeds' = [seeds EXCEPT ![name] = Seed(0, "nothing", seeds[name].mode)]
             ELSE step' = "seed" /\ seeds' = [seeds EXCEPT ![name] = Seed(entropy, "entropy", seeds[name].mode)]
      BY <2>3 DEF TruncateSeed, AppendSeed, Call
    <3>2. visited \in 1 .. 5 /\ name \in SeedNames /\ seeds[name] \in SeedRecord /\ entropy \in SeedSizes
      BY <3>1, SeedFiles DEF SeedsInv, SeedTypes, SeedModeInv, SeedPending, SeedsDone
    <3>3. /\ DOMAIN seeds' = SeedNames /\ \A f \in SeedNames \ {name} : seeds'[f] = seeds[f]
          /\ seeds'[name] = IF step = "seed_truncate" THEN Seed(0, "nothing", seeds[name].mode)
                                                     ELSE Seed(entropy, "entropy", seeds[name].mode)
      BY <3>1, <3>2 DEF SeedsInv, SeedTypes, SeedModeInv, SeedPending, SeedsDone
    <3>4. /\ seeds'[name] \in SeedRecord /\ seeds'[name].mode = seeds[name].mode
          /\ seeds'[name] # Missing
          /\ Private(seeds[name]) => Private(seeds'[name])
          /\ step = "seed_append" => seeds'[name] \in FreshRecord
      <4>1. seeds[name].mode \in SeedModes /\ 0 \in Nat /\ entropy \in Nat
        BY <3>2, SeedFields, SizesAreNat
      <4>2. CASE step = "seed_truncate"
        BY <3>2, <3>3, <4>1, <4>2, AnySeed, SeedFields DEF SeedContents, Private
      <4>3. CASE step = "seed_append"
        BY <3>2, <3>3, <4>1, <4>3, AnySeed, FreshSeed, SeedFields DEF SeedContents, Private
      <4>4. QED
        BY <3>1, <4>2, <4>3
    <3>5. \A i \in 1 .. visited - 1 : seed_files[i] \in SeedNames \ {name}
      BY <3>2, SeedFiles
    <3>6. \A i \in 1 .. visited - 1 : SeedDone(seed_files[i])'
      BY <3>1, <3>3, <3>5 DEF SeedsInv, SeedTypes, SeedModeInv, SeedPending, SeedsDone, SeedDone, Missing
    <3>7. step = "seed_append" => \A i \in 1 .. visited : SeedDone(seed_files[i])'
      <4>1. \A i \in 1 .. visited : i = visited \/ i \in 1 .. visited - 1
        BY <3>2
      <4>2. QED
        BY <3>4, <3>6, <4>1 DEF SeedDone
    <3>8. \A f \in SeedNames : /\ seeds'[f] = Missing \/ seeds'[f] \in SeedRecord
                               /\ Private(seeds'[f]) \/ "seed" \in cut
      BY <3>1, <3>2, <3>3, <3>4 DEF SeedsInv, SeedTypes, SeedModeInv, SeedPending, SeedsDone
    <3>9. step' = "seed_append" => step = "seed_truncate" /\ seeds'[name] # Missing
      BY <3>1, <3>4
    <3>10. Missing' = Missing
      BY DEF Missing
    <3>11. step' \in {"seed_append", "seed"} /\ visited' = visited /\ entropy' = entropy /\ name' = name
      BY <3>1
    <3>12. Linux /\ visited # 0 /\ (step' = "seed" => step = "seed_append")
      BY <3>1 DEF SeedsInv, SeedTypes, SeedModeInv, SeedPending, SeedsDone
    <3>13. SeedTypes'
      BY <2>1, <3>3, <3>8, <3>10, <3>11 DEF SeedsInv, SeedTypes
    <3>14. SeedModeInv'
      BY <2>1, <3>8, <3>10, <3>11 DEF SeedModeInv
    <3>15. SeedPending'
      BY <2>1, <3>2, <3>9, <3>10, <3>11, <3>12 DEF SeedPending
    <3>16. SeedsDone'
      BY <3>6, <3>7, <3>11, <3>12 DEF SeedsDone
    <3>17. QED
      BY <3>13, <3>14, <3>15, <3>16 DEF SeedsInv, SeedTypes, SeedModeInv, SeedPending, SeedsDone
  <2>4. CASE SeedFallback
    <3>1. /\ step = "seed" /\ step' \in {"seed_write", "machine_id"} /\ UNCHANGED <<seeds, visited, entropy>>
          /\ Linux => visited = 5
      BY <2>4, SeedFiles DEF SeedFallback, seedVars
    <3>2. Linux => \A f \in SeedNames : SeedDone(f)'
      BY <3>1, SeedFiles DEF SeedsInv, SeedTypes, SeedModeInv, SeedPending, SeedsDone, SeedDone, Missing
    <3>3. QED
      BY <2>1, <3>1, <3>2 DEF SeedsInv, SeedTypes, SeedModeInv, SeedPending, SeedsDone, Missing
  <2>5. CASE WriteSeed
    <3>1. /\ step = "seed_write" /\ step' = "seed_chmod" /\ UNCHANGED <<visited, entropy>>
          /\ seeds' = [f \in SeedNames |-> IF f \in fallback THEN Seed(512, "entropy", "0644") ELSE seeds[f]]
      BY <2>5 DEF WriteSeed, Call
    <3>2. /\ Seed(512, "entropy", "0644") \in FreshRecord /\ Seed(512, "entropy", "0644") \in SeedRecord
          /\ Seed(512, "entropy", "0644") # Missing
      BY SizesAreNat, FreshSeed, FreshFields, SeedFields DEF SeedModes
    <3>3. Linux => \A f \in SeedNames : SeedDone(f)'
      BY <3>1, <3>2 DEF SeedsInv, SeedTypes, SeedModeInv, SeedPending, SeedsDone, SeedDone, Missing
    <3>4. QED
      BY <2>1, <3>1, <3>2, <3>3 DEF SeedsInv, SeedTypes, SeedModeInv, SeedPending, SeedsDone, Missing
  <2>6. CASE ProtectSeed
    <3>1. /\ step = "seed_chmod" /\ step' = "machine_id" /\ UNCHANGED <<visited, entropy>>
          /\ seeds' = [f \in SeedNames |-> IF f \in fallback THEN Seed(seeds[f].bytes, seeds[f].data, "0600")
                                         ELSE seeds[f]]
      BY <2>6 DEF ProtectSeed, Call
    <3>2. \A f \in SeedNames \cap fallback : seeds[f] \in SeedRecord /\ seeds[f] # Missing
      BY <3>1 DEF SeedsInv, SeedTypes, SeedModeInv, SeedPending, SeedsDone
    <3>3. \A f \in SeedNames : /\ seeds'[f] = Missing \/ seeds'[f] \in SeedRecord
                               /\ Private(seeds'[f]) \/ "seed" \in cut
      BY <3>1, <3>2, ChmodSeed, SeedFields DEF SeedsInv, SeedTypes, SeedModeInv, SeedPending, SeedsDone
    <3>4. Linux => \A f \in SeedNames : SeedDone(f)'
      BY <3>1, <3>2, ChmodSeed, SeedFields DEF SeedsInv, SeedTypes, SeedModeInv, SeedPending, SeedsDone, SeedDone, Missing
    <3>5. step = "seed_chmod" /\ step' = "machine_id" /\ visited' = visited /\ DOMAIN seeds' = SeedNames
      BY <3>1
    <3>6. SeedTypes'
      BY <2>1, <3>3, <3>5 DEF SeedsInv, SeedTypes, Missing
    <3>7. SeedModeInv' /\ SeedPending' /\ SeedsDone'
      BY <2>1, <3>3, <3>4, <3>5 DEF SeedModeInv, SeedPending, SeedsDone, Missing
    <3>8. QED
      BY <3>6, <3>7 DEF SeedsInv, SeedTypes, SeedModeInv, SeedPending, SeedsDone
  <2>7. QED
    BY <1>1, <2>2, <2>3, <2>4, <2>5, <2>6 DEF SetSeed, SeedNext
<1>2. CASE ProgramNext /\ ~SetSeed
  <2>1. UNCHANGED <<guest, cut, seeds, visited, entropy>> /\ step \notin SeedSteps \cup {"failed"} /\ step' \notin SeedSteps
    BY <1>2, Frames, Steps DEF ProgramNext, Framed, seedVars, Moves, SeedSteps, HostSteps, SshSteps,
       VirtioSteps, UploadSteps, ShadowSteps, RelabelSteps
  <2>2. QED
    BY <2>1 DEF SeedsInv, SeedTypes, SeedModeInv, SeedPending, SeedsDone, SeedDone, SeedSteps, fallback, Linux, Missing
<1>3. CASE Die
  BY <1>3 DEF Die, Forget, CutAt, SeedsInv, SeedTypes, SeedModeInv, SeedPending, SeedsDone, SeedDone, fallback, Linux, Missing
<1>4. CASE NewProgram
  BY <1>4 DEF NewProgram, Forget, SeedsInv, SeedTypes, SeedModeInv, SeedPending, SeedsDone, SeedDone, fallback, Linux, Missing
<1>5. CASE UNCHANGED vars
  BY <1>5 DEF vars, seedVars, historyVars, SeedsInv, SeedTypes, SeedModeInv, SeedPending, SeedsDone, SeedDone, fallback, Linux, Missing
<1>6. QED
  BY <1>1, <1>2, <1>3, <1>4, <1>5 DEF Next, ProgramNext

HalfInv == /\ SshDirInv /\ AuthKeysInv /\ ShadowInv /\ HostsInv
           /\ SpecInv /\ UploadInv /\ MachineIdInv /\ SeedsInv

LEMMA HalfBegins == Init => HalfInv
<1>1. Init => SshDirInv /\ AuthKeysInv
  BY DEF Init, SshInit, SshDirInv, AuthKeysInv, Missing, OfUser
<1>2. Init => ShadowInv /\ HostsInv
  BY DEF Init, PasswordInit, HostnameInit, ShadowInv, HostsInv, OldNameGone
<1>3. Init => SpecInv /\ UploadInv /\ MachineIdInv
  BY SpecfileAssumption DEF Init, SELinuxInit, SpecInv, UploadInv, MachineIdInv, SeedSteps
<1>4. QED
  BY <1>1, <1>2, <1>3, SeedsBegin DEF HalfInv

(* Whatever the options, the guest, and the failures before: nothing that    *)
(* takes several calls is half done when a program comes to its end, except  *)
(* for what a failure has cut short.                                         *)
THEOREM NothingHalfDoneCorrect == Spec => []NothingHalfDone
<1>1. HalfInv => NothingHalfDone
  <2> SUFFICES ASSUME HalfInv, step = "done" PROVE NothingHalfDone
    BY DEF NothingHalfDone
  <2>1. ASSUME Linux, NEW f \in SeedNames, seeds[f] # Missing
        PROVE  /\ seeds[f].data = "entropy" /\ seeds[f].bytes \in SeedSizes
               /\ seeds[f].mode = "0600" \/ "seed" \in cut
    BY <2>1, SeedFields, FreshFields DEF HalfInv, SeedsInv, SeedTypes, SeedModeInv, SeedsDone, SeedDone, Private
  <2>2. QED
    BY <2>1 DEF HalfInv, SshDirInv, AuthKeysInv, ShadowInv, HostsInv, OldNameGone, SpecInv, UploadInv,
       MachineIdInv, NothingHalfDone
<1>2. HalfInv /\ [Next]_vars => HalfInv'
  BY SshKeeps, ShadowKeeps, HostsKeep, SpecKeeps, UploadKeeps, MachineIdKeeps, SeedsKeep DEF HalfInv
<1>3. QED
  BY <1>1, <1>2, HalfBegins, PTL DEF Spec

-----------------------------------------------------------------------------
(* Passwords                                                                *)

(* From when on /etc/shadow is as the program leaves it.                     *)
PasswordsSet == {"shadow_restore", "shadow_rm", "log", "done"} \cup RelabelSteps

Asked(u, selector) == u \in DOMAIN passwords /\ passwords[u] = selector

AugAsAsked    == \A u \in Users : \A selector : Asked(u, selector) => aug[u] = PwField(selector)
ShadowAsAsked == \A u \in Users : \A selector : Asked(u, selector) => shadow.pw[u] = PwField(selector)

(* What has been asked for is in the table until it is in /etc/shadow.       *)
PasswordInv ==
  /\ DOMAIN shadow = {"pw", "attrs"}
  /\ step # "failed" => \A a \in asked : a[1] \in DOMAIN passwords /\ passwords[a[1]] = a[2]
  /\ step = "shadow_save" => AugAsAsked
  /\ step \in PasswordsSet /\ Linux => ShadowAsAsked

(* Only --password and --root-password change the table.                     *)
LEMMA TableFrame ==
  ASSUME ProgramNext, ~OpPassword
  PROVE  UNCHANGED <<passwords, asked>>
<1> USE DEF passwordVars, historyVars
<1>1. CASE SetSeed \/ SetMachineId \/ EndOps \/ CleanLog \/ Relabel
  BY <1>1 DEF SetSeed, SetMachineId, EndOps, CleanLog, Relabel
<1>2. CASE OpAppendLine \/ AppendText \/ OpFile \/ OpUpload \/ Upload
  BY <1>2 DEF OpAppendLine, AppendText, OpFile, OpUpload, Upload
<1>3. CASE OpCommand \/ OpFirstboot \/ OpInject \/ Inject
  BY <1>3 DEF OpCommand, RunCommand, OpFirstboot, OpInject, Inject
<1>4. CASE OpHostname \/ SetHostname \/ OpSshInject \/ InjectKey
  BY <1>4 DEF OpHostname, SetHostname, OpSshInject, InjectKey
<1>5. CASE SetPasswords
  BY <1>5 DEF SetPasswords, PasswordNext, BeginPasswords, MakeTempfile, KeepAttributes, AugSet,
     AugSave, RestoreAttributes, RemoveTempfile
<1>6. QED
  BY <1>1, <1>2, <1>3, <1>4, <1>5 DEF ProgramNext

(* How a password is written depends on the guest alone.                     *)
LEMMA SameField ==
  ASSUME guest' = guest
  PROVE  Linux' = Linux /\ \A selector : PwField(selector)' = PwField(selector)
BY DEF Linux, PwField, crypto, default_crypto

LEMMA PasswordBegins == Init => PasswordInv
BY DEF Init, PasswordInit, PasswordInv, PasswordsSet, RelabelSteps

LEMMA PasswordsKept == ASSUME PasswordInv, [Next]_vars PROVE PasswordInv'
<1>1. CASE OpPassword
  <2>1. PICK user \in Users \cup {"nobody"}, words \in Selectors :
          /\ set_password(user, parse_selector(words))
          /\ asked' = asked \cup {<<user, parse_selector(words)>>}
    BY <1>1 DEF OpPassword
  <2>2. /\ step = "ops" /\ step' \in {"ops", "failed"} /\ UNCHANGED <<shadow, aug>>
        /\ step' = "ops" => /\ user \notin DOMAIN passwords
                            /\ passwords' = [u \in DOMAIN passwords \cup {user} |->
                                 IF u = user THEN parse_selector(words) ELSE passwords[u]]
    BY <2>1 DEF set_password
  <2>3. ASSUME step' = "ops", NEW a \in asked'
        PROVE  a[1] \in DOMAIN passwords' /\ passwords'[a[1]] = a[2]
    <3>1. CASE a \in asked
      BY <2>2, <2>3, <3>1 DEF PasswordInv
    <3>2. CASE a = <<user, parse_selector(words)>>
      BY <2>2, <2>3, <3>2
    <3>3. QED
      BY <2>1, <2>3, <3>1, <3>2
  <2>4. QED
    BY <2>2, <2>3 DEF PasswordInv, PasswordsSet, RelabelSteps
<1>2. CASE SetPasswords
  <2>1. /\ UNCHANGED <<passwords, asked>> /\ guest' = guest
        /\ step # "failed"
    BY <1>2, Steps, Frames, TableFrame DEF ProgramNext, Framed, Moves, OpPassword, StartOp,
       ShadowSteps
  <2>2. Linux' = Linux /\ \A selector : PwField(selector)' = PwField(selector)
    BY <2>1, SameField
  <2>3. CASE BeginPasswords
    BY <2>1, <2>2, <2>3 DEF BeginPasswords, passwordVars, PasswordInv, PasswordsSet, RelabelSteps, Asked, AugAsAsked, ShadowAsAsked
  <2>4. CASE MakeTempfile \/ KeepAttributes
    BY <2>1, <2>4 DEF MakeTempfile, KeepAttributes, Call, PasswordInv, PasswordsSet, RelabelSteps
  <2>5. CASE AugSet
    <3>1. /\ step' = "shadow_save" /\ shadow' = shadow
          /\ aug' = [u \in Users |-> IF u \in DOMAIN passwords THEN PwField(passwords[u])
                                    ELSE shadow.pw[u]]
      BY <2>5 DEF AugSet, Call
    <3>2. AugAsAsked'
      BY <2>1, <2>2, <3>1 DEF Asked, AugAsAsked, ShadowAsAsked
    <3>3. QED
      BY <2>1, <3>1, <3>2 DEF PasswordInv, PasswordsSet, RelabelSteps
  <2>6. CASE AugSave
    <3>1. step = "shadow_save" /\ step' = "shadow_restore" /\ shadow' = [pw |-> aug, attrs |-> "default"]
      BY <2>6 DEF AugSave, Call
    <3>2. DOMAIN shadow' = {"pw", "attrs"} /\ shadow'.pw = aug /\ AugAsAsked
      BY <3>1 DEF PasswordInv
    <3>3. ShadowAsAsked'
      BY <2>1, <2>2, <3>2 DEF Asked, AugAsAsked, ShadowAsAsked
    <3>4. QED
      BY <2>1, <3>1, <3>2, <3>3 DEF PasswordInv
  <2>7. CASE RestoreAttributes \/ RemoveTempfile
    <3>1. /\ step \in PasswordsSet /\ step' \in {"shadow_rm", "relabel"}
          /\ DOMAIN shadow' = DOMAIN shadow /\ shadow'.pw = shadow.pw
      BY <2>7 DEF RestoreAttributes, RemoveTempfile, Call, PasswordInv, PasswordsSet
    <3>2. QED
      BY <2>1, <2>2, <3>1 DEF PasswordInv, Asked, AugAsAsked, ShadowAsAsked
  <2>8. QED
    BY <1>2, <2>3, <2>4, <2>5, <2>6, <2>7 DEF SetPasswords, PasswordNext
<1>3. CASE ProgramNext /\ ~OpPassword /\ ~SetPasswords
  <2>1. /\ UNCHANGED <<shadow, aug, passwords, asked, guest>>
        /\ step # "failed" /\ step' # "shadow_save"
        /\ step' \in PasswordsSet => step \in PasswordsSet
    BY <1>3, Frames, TableFrame, Steps DEF ProgramNext, Framed, Moves, PasswordsSet, SeedSteps, HostSteps,
       SshSteps, VirtioSteps, UploadSteps, RelabelSteps
  <2>2. QED
    BY <2>1, SameField DEF PasswordInv, Asked, AugAsAsked, ShadowAsAsked
<1>4. CASE Die \/ NewProgram
  BY <1>4 DEF Die, NewProgram, Forget, PasswordInv, PasswordsSet, RelabelSteps
<1>5. CASE UNCHANGED vars
  BY <1>5, SameField DEF vars, passwordVars, historyVars, PasswordInv, Asked, AugAsAsked, ShadowAsAsked
<1>6. QED
  BY <1>1, <1>2, <1>3, <1>4, <1>5 DEF Next, ProgramNext

(* A distribution that default_crypto knows gets what its release            *)
(* understands.                                                              *)
LEMMA StrongDefault ==
  ASSUME guest \in Guests, guest.sha512
  PROVE  \/ default_crypto \in {"SHA512", "YESCRYPT"}
         \/ guest.distro = "rocky" /\ guest.major < 9
         \/ guest.distro # "rocky" /\ \A r \in Sha512Releases : guest.distro \notin r[1]
<1>1. guest.major \in Nat /\ \A r \in Sha512Releases : guest.distro \in r[1] => guest.major >= r[2]
  BY CryptoAssumption
<1>2. CASE guest.distro = "rocky"
  BY <1>1, <1>2 DEF default_crypto
<1>3. CASE guest.distro \in {"rhel", "centos", "scientificlinux", "oraclelinux", "redhat-based"}
  BY <1>1, <1>3 DEF default_crypto, Sha512Releases
<1>4. CASE guest.distro \in {"fedora", "debian", "ubuntu"}
  BY <1>1, <1>4 DEF default_crypto, Sha512Releases
<1>5. CASE guest.distro \in {"opensuse", "sles"}
  BY <1>1, <1>5 DEF default_crypto, Sha512Releases
<1>6. CASE guest.distro \in {"archlinux", "kalilinux", "voidlinux", "openeuler", "kylin",
                             "neokylin", "anolis"}
  BY <1>6 DEF default_crypto
<1>7. QED
  BY <1>2, <1>3, <1>4, <1>5, <1>6 DEF Sha512Releases

(* Every password that a program was asked to set is there when it ends,     *)
(* encrypted as asked, for any users, command lines and guests of which the  *)
(* releases before glibc 2.7 do not understand SHA-512.                      *)
THEOREM PasswordsCorrect == Spec => []PasswordsAsAsked
<1>1. PasswordInv /\ guest \in Guests => PasswordsAsAsked
  <2> SUFFICES ASSUME PasswordInv, guest \in Guests, step = "done", Linux,
                      NEW a \in asked, a[1] \in Users
               PROVE  /\ shadow.pw[a[1]].locked = a[2].locked /\ shadow.pw[a[1]].pw = a[2].pw
                      /\ \/ a[2].pw = "disabled"
                         \/ shadow.pw[a[1]].crypto = crypto
    BY StrongDefault DEF PasswordsAsAsked, crypto
  <2>1. shadow.pw[a[1]] = PwField(a[2])
    BY DEF PasswordInv, PasswordsSet, Asked, AugAsAsked, ShadowAsAsked
  <2>2. QED
    BY <2>1 DEF PwField
<1>2. Init => PasswordInv /\ guest \in Guests
  BY PasswordBegins DEF Init
<1>3. guest \in Guests /\ [Next]_vars => guest' \in Guests
  BY Frames DEF Next, ProgramNext, Framed, Die, NewProgram, Forget, vars
<1>4. (PasswordInv /\ guest \in Guests) /\ [Next]_vars => (PasswordInv /\ guest \in Guests)'
  BY <1>3, PasswordsKept
<1>5. QED
  BY <1>1, <1>2, <1>4, PTL DEF Spec

-----------------------------------------------------------------------------
(* Types                                                                    *)

(* What any operation may do to the variables that several of them change.   *)
Effects ==
  /\ UNCHANGED <<flags, program>>
  /\ nr_ops' = nr_ops \/ (nr_ops < MaxOps /\ nr_ops' = nr_ops + 1)
  /\ labels' \in {labels, "fresh", "stale"}
  /\ machine_id' \in {machine_id, "set"}
  /\ logfile' = logfile \/ logfile' \in BOOLEAN
  /\ key' \in {key, NoKey} \/ step' = "ssh_dir"
  /\ text' \in {text, NoText} \/ step' \in {"append_write", "ops"}

LEMMA EffectsOfEach == ASSUME ProgramNext PROVE Effects
<1> USE DEF Effects, Created, opVars, historyVars
<1>1. CASE SetSeed
  BY <1>1 DEF SetSeed, SeedNext, VisitSeed, TruncateSeed, AppendSeed, SeedFallback, WriteSeed,
     ProtectSeed, sshVars
<1>2. CASE SetMachineId \/ EndOps \/ CleanLog
  BY <1>2 DEF SetMachineId, EndOps, CleanLog, sshVars
<1>3. CASE OpAppendLine \/ AppendText
  BY <1>3 DEF OpAppendLine, AppendText, StartOp, append_line, WriteLine, Call, sshVars
<1>4. CASE OpFile \/ OpCommand
  BY <1>4 DEF OpFile, OpCommand, RunCommand, StartOp, sshVars
<1>5. CASE OpFirstboot
  BY <1>5 DEF OpFirstboot, StartOp, sshVars
<1>6. CASE OpHostname \/ SetHostname
  BY <1>6 DEF OpHostname, SetHostname, StartOp, HostnameNext, WriteHostname, ReplaceLine,
     ReplaceHosts, sshVars
<1>7. CASE OpPassword
  BY <1>7 DEF OpPassword, StartOp, sshVars
<1>8. CASE SetPasswords
  BY <1>8 DEF SetPasswords, PasswordNext, BeginPasswords, MakeTempfile, KeepAttributes, AugSet,
     AugSave, RestoreAttributes, RemoveTempfile, sshVars
<1>9. CASE OpSshInject
  BY <1>9 DEF OpSshInject, StartOp, do_ssh_inject_unix, sshVars
<1>10. CASE InjectKey
  BY <1>10 DEF InjectKey, SshNext, MakeSshDir, ChmodSshDir, ChownSshDir, MakeAuthKeys,
     ChmodAuthKeys, ChownAuthKeys, AppendKey
<1>11. CASE OpInject \/ Inject
  BY <1>11 DEF OpInject, Inject, StartOp, VirtioNext, CopyFile, EndCopy, InstallBlock, NoBlock,
     InstallNet, CheckStubs, RemoveStub, Devices, Commit, InstallScript, sshVars
<1>12. CASE OpUpload \/ Upload
  BY <1>12 DEF OpUpload, Upload, StartOp, sshVars
<1>13. CASE Relabel
  BY <1>13 DEF Relabel, relabel, SELinuxNext, TouchAutorelabel, MoveSpecfile, WriteSpecfile,
     CopyAttributes, Setfiles, RemoveAutorelabel, sshVars
<1>14. QED
  BY <1>1, <1>2, <1>3, <1>4, <1>5, <1>6, <1>7, <1>8, <1>9, <1>10, <1>11, <1>12, <1>13 DEF ProgramNext

PlainTypes ==
  /\ guest \in Guests /\ flags \in Flags /\ labels \in {"fresh", "stale"}
  /\ nr_ops \in 0 .. MaxOps /\ program \in 1 .. MaxPrograms
  /\ machine_id \in {"none", "empty", "set"} /\ logfile \in BOOLEAN

(* What is in the memory of the program, and when.                           *)
MemoryTypes ==
  /\ entropy = 0 \/ entropy \in SeedSizes
  /\ created \in BOOLEAN
  /\ key # NoKey => step \in SshSteps
  /\ text # NoText => step \in {"append_write", "ops", "failed"}
  /\ DOMAIN passwords \subseteq Users \cup {"nobody"}

FileTypes ==
  /\ ssh_dir = Missing \/ ssh_dir \in FileOf({"0755", "0700"})
  /\ auth_keys = Missing \/ auth_keys.file \in FileOf({"0644", "0600"})
  /\ uploaded = Missing \/ uploaded \in FileOf({"0644", "local"})

LEMMA PlainKept == ASSUME PlainTypes, [Next]_vars PROVE PlainTypes'
<1>1. CASE ProgramNext
  <2>1. Effects /\ guest' = guest
    BY <1>1, EffectsOfEach, Frames DEF Framed
  <2>2. nr_ops' \in 0 .. MaxOps
    BY <2>1, BoundsAssumption DEF PlainTypes, Effects
  <2>3. QED
    BY <2>1, <2>2 DEF PlainTypes, Effects
<1>2. CASE Die \/ NewProgram
  BY <1>2, BoundsAssumption DEF Die, NewProgram, Forget, PlainTypes
<1>3. CASE UNCHANGED vars
  BY <1>3 DEF vars, opVars, historyVars, PlainTypes
<1>4. QED
  BY <1>1, <1>2, <1>3 DEF Next, ProgramNext

(* The types of seeds are those of SeedsInv.                                 *)
LEMMA MemoryKept == ASSUME MemoryTypes, SeedsInv, [Next]_vars PROVE MemoryTypes'
<1>1. CASE SetSeed
  <2>1. Effects /\ UNCHANGED <<key, text, passwords>> /\ step \in SeedSteps
    BY <1>1, EffectsOfEach, Steps DEF ProgramNext, SetSeed, sshVars, passwordVars, Moves
  <2>2. (entropy' = 0 \/ entropy' \in SeedSizes) /\ created' \in BOOLEAN
    <3>1. CASE VisitSeed
      <4>1. visited + 1 \in DOMAIN seed_files
        BY <3>1, SeedFiles DEF VisitSeed, SeedsInv, SeedTypes
      <4>2. \/ seeds[seed_files[visited + 1]] = Missing
            \/ seeds[seed_files[visited + 1]] \in SeedRecord
        BY <4>1, SeedFiles DEF SeedsInv, SeedTypes
      <4>3. QED
        BY <3>1, <4>2, CappedBounds, SeedFields DEF VisitSeed, MemoryTypes
    <3>2. CASE ~VisitSeed
      BY <1>1, <3>2 DEF SetSeed, SeedNext, TruncateSeed, AppendSeed, SeedFallback, WriteSeed,
         ProtectSeed, seedVars, MemoryTypes
    <3>3. QED
      BY <3>1, <3>2
  <2>3. QED
    BY <2>1, <2>2 DEF MemoryTypes, SeedSteps, SshSteps
<1>2. CASE OpPassword
  <2>1. DOMAIN passwords' \subseteq Users \cup {"nobody"}
    BY <1>2 DEF OpPassword, set_password, MemoryTypes
  <2>2. UNCHANGED <<entropy, created, key>> /\ text' = NoText /\ step = "ops"
    BY <1>2 DEF OpPassword, StartOp, seedVars, sshVars
  <2>3. QED
    BY <2>1, <2>2 DEF MemoryTypes, SshSteps
<1>3. CASE InjectKey
  <2>1. /\ UNCHANGED <<entropy, created, passwords, text>>
        /\ step \in SshSteps /\ step' \in SshSteps \cup {"ops"}
    BY <1>3, Steps DEF InjectKey, seedVars, passwordVars, Moves
  <2>2. step' = "ops" => key' = NoKey
    BY <1>3, <2>1 DEF InjectKey, SshNext, MakeSshDir, ChmodSshDir, ChownSshDir, MakeAuthKeys,
       ChmodAuthKeys, ChownAuthKeys, AppendKey, Call
  <2>3. QED
    BY <2>1, <2>2 DEF MemoryTypes, SshSteps
<1>4. CASE ProgramNext /\ ~SetSeed /\ ~OpPassword /\ ~InjectKey
  <2>1. /\ UNCHANGED <<entropy, created, passwords>> /\ Effects
        /\ step \notin SshSteps \cup {"failed"} /\ step' \notin SshSteps \ {"ssh_dir"}
    BY <1>4, Frames, TableFrame, EffectsOfEach, Steps DEF ProgramNext, Framed, seedVars, Moves, SeedSteps,
       HostSteps, SshSteps, VirtioSteps, UploadSteps, ShadowSteps, RelabelSteps
  <2>2. text' # NoText => step' \in {"append_write", "ops", "failed"}
    <3>1. CASE step = "ops"
      BY <1>4, <3>1, Steps DEF ProgramNext, OpAppendLine, StartOp, append_line, OpFile, OpCommand,
         RunCommand, OpFirstboot, OpHostname, OpSshInject, OpInject, OpUpload, EndOps, MemoryTypes,
         Moves, SeedSteps, HostSteps, SshSteps, VirtioSteps, UploadSteps, ShadowSteps, RelabelSteps
    <3>2. CASE step = "append_write"
      BY <1>4, <3>2, Steps DEF ProgramNext, Moves, SeedSteps, HostSteps, VirtioSteps, UploadSteps,
         ShadowSteps, RelabelSteps
    <3>3. CASE step \notin {"ops", "append_write"}
      BY <2>1, <3>3, <1>4, Steps DEF ProgramNext, MemoryTypes, Effects, Moves
    <3>4. QED
      BY <3>1, <3>2, <3>3
  <2>3. QED
    BY <2>1, <2>2 DEF MemoryTypes, Effects, SshSteps
<1>5. CASE Die \/ NewProgram
  BY <1>5 DEF Die, NewProgram, Forget, MemoryTypes, Empty
<1>6. CASE UNCHANGED vars
  BY <1>6 DEF vars, seedVars, sshVars, passwordVars, MemoryTypes
<1>7. QED
  BY <1>1, <1>2, <1>3, <1>4, <1>5, <1>6 DEF Next, ProgramNext

(* Between its calls a file is as the invariants about half-done operations  *)
(* say.                                                                      *)
LEMMA FilesKept ==
  ASSUME FileTypes, SshDirInv, AuthKeysInv, UploadInv, [Next]_vars
  PROVE  FileTypes'
<1> USE DEF Missing, ByRoot, FileOf
<1>1. CASE InjectKey
  <2>1. uploaded' = uploaded
    BY <1>1 DEF InjectKey, opVars
  <2> USE DEF FileTypes, SshDirInv, AuthKeysInv, Call
  <2>2. CASE MakeSshDir \/ ChmodSshDir \/ ChownSshDir
    BY <2>1, <2>2 DEF MakeSshDir, ChmodSshDir, ChownSshDir
  <2>3. CASE MakeAuthKeys
    BY <2>1, <2>3 DEF MakeAuthKeys
  <2>4. CASE ChmodAuthKeys \/ ChownAuthKeys
    BY <2>1, <2>4 DEF ChmodAuthKeys, ChownAuthKeys
  <2>5. CASE AppendKey
    BY <2>1, <2>5 DEF AppendKey
  <2>6. QED
    BY <1>1, <2>2, <2>3, <2>4, <2>5 DEF InjectKey, SshNext
<1>2. CASE OpUpload \/ Upload
  <2>1. UNCHANGED <<ssh_dir, auth_keys>>
    BY <1>2 DEF OpUpload, Upload, sshVars
  <2>2. uploaded' \in FileOf({"0644", "local"})
    BY <1>2 DEF OpUpload, Upload, Call, UploadInv
  <2>3. QED
    BY <2>1, <2>2 DEF FileTypes
<1>3. CASE ProgramNext /\ ~InjectKey /\ ~OpUpload /\ ~Upload
  BY <1>3, Frames DEF Framed, FileTypes
<1>4. CASE Die \/ NewProgram
  BY <1>4 DEF Die, NewProgram, Forget, FileTypes
<1>5. CASE UNCHANGED vars
  BY <1>5 DEF vars, sshVars, opVars, FileTypes
<1>6. QED
  BY <1>1, <1>2, <1>3, <1>4, <1>5 DEF Next, ProgramNext

(* The state has its type, for any number of operations and programs.        *)
THEOREM TypeCorrect == Spec => []TypeOK
<1> DEFINE TypeInv == PlainTypes /\ MemoryTypes /\ FileTypes /\ HalfInv
<1>1. TypeInv => TypeOK
  BY SeedFiles DEF PlainTypes, MemoryTypes, FileTypes, HalfInv, SeedsInv, SeedTypes, SshSteps, TypeOK
<1>2. Init => TypeInv
  <2> SUFFICES ASSUME Init PROVE PlainTypes /\ MemoryTypes /\ FileTypes
    BY HalfBegins
  <2>1. 0 \in 0 .. MaxOps /\ 1 \in 1 .. MaxPrograms
    BY BoundsAssumption
  <2>2. PlainTypes
    BY <2>1, MachineIdAssumption DEF Init, PlainTypes
  <2>3. MemoryTypes
    BY DEF Init, SeedInit, PasswordInit, SshInit, Empty, MemoryTypes
  <2>4. FileTypes
    BY DEF Init, SshInit, OfUser, FileOf, FileTypes
  <2>5. QED
    BY <2>2, <2>3, <2>4
<1>3. TypeInv /\ [Next]_vars => TypeInv'
  BY PlainKept, MemoryKept, FilesKept, SshKeeps, ShadowKeeps, HostsKeep, SpecKeeps, UploadKeeps,
     MachineIdKeeps, SeedsKeep DEF HalfInv
<1>4. QED
  BY <1>1, <1>2, <1>3, PTL DEF Spec

-----------------------------------------------------------------------------
(* Lines                                                                    *)

Symbols == {CR, LF, "x", "L"}

Chars(c) == c \in Seq(Symbols)

(* The line ends of a file, one kind at a time.                              *)
LEMMA KindsOfEnds ==
  ASSUME NEW c, Chars(c)
  PROVE  /\ LineEnds(c) \subseteq {"CRLF", "LF", "CR"}
         /\ "CRLF" \in LineEnds(c) <=> \E j \in 1 .. Len(c) - 1 : c[j] = CR /\ c[j + 1] = LF
         /\ "LF" \in LineEnds(c) <=>
              \E j \in 1 .. Len(c) : c[j] = LF /\ ~(j # 1 /\ c[j - 1] = CR)
         /\ "CR" \in LineEnds(c) <=>
              \E j \in 1 .. Len(c) : c[j] = CR /\ ~(j # Len(c) /\ c[j + 1] = LF)
<1> DEFINE Has(i, x) == i \in 1 .. Len(c) /\ c[i] = x
           Ends == {j \in 1 .. Len(c) : Has(j, LF) \/ (Has(j, CR) /\ ~Has(j + 1, LF))}
           Kind(i) == CASE Has(i, LF) /\ Has(i - 1, CR) -> "CRLF"
                        [] Has(i, LF) /\ ~Has(i - 1, CR) -> "LF"
                        [] OTHER -> "CR"
<1>1. LineEnds(c) = {Kind(i) : i \in Ends} /\ Len(c) \in Nat
  BY DEF LineEnds, Chars
<1>2. LineEnds(c) \subseteq {"CRLF", "LF", "CR"}
  BY <1>1
<1>3. ASSUME NEW j \in 1 .. Len(c) - 1, c[j] = CR, c[j + 1] = LF
      PROVE  "CRLF" \in LineEnds(c)
  <2>1. j + 1 \in 1 .. Len(c) /\ (j + 1) - 1 = j /\ j \in 1 .. Len(c)
    BY <1>1
  <2>2. j + 1 \in Ends /\ Kind(j + 1) = "CRLF"
    BY <1>3, <2>1
  <2>3. QED
    BY <1>1, <2>2
<1>4. ASSUME "CRLF" \in LineEnds(c)
      PROVE  \E j \in 1 .. Len(c) - 1 : c[j] = CR /\ c[j + 1] = LF
  <2>1. PICK i \in Ends : Kind(i) = "CRLF"
    BY <1>1, <1>4
  <2>2. Has(i, LF) /\ Has(i - 1, CR)
    BY <2>1
  <2>3. i - 1 \in 1 .. Len(c) - 1 /\ (i - 1) + 1 = i
    BY <1>1, <2>2
  <2>4. QED
    BY <2>2, <2>3
<1>5. ASSUME NEW j \in 1 .. Len(c), c[j] = LF, ~(j # 1 /\ c[j - 1] = CR)
      PROVE  "LF" \in LineEnds(c)
  <2>1. j \in Ends /\ ~Has(j - 1, CR)
    BY <1>1, <1>5
  <2>2. Kind(j) = "LF"
    BY <1>5, <2>1
  <2>3. QED
    BY <1>1, <2>1, <2>2
<1>6. ASSUME "LF" \in LineEnds(c)
      PROVE  \E j \in 1 .. Len(c) : c[j] = LF /\ ~(j # 1 /\ c[j - 1] = CR)
  <2>1. PICK i \in Ends : Kind(i) = "LF"
    BY <1>1, <1>6
  <2>2. Has(i, LF) /\ ~Has(i - 1, CR)
    BY <2>1
  <2>3. i # 1 => i - 1 \in 1 .. Len(c)
    BY <1>1, <2>2
  <2>4. QED
    BY <2>2, <2>3
<1>7. ASSUME NEW j \in 1 .. Len(c), c[j] = CR, ~(j # Len(c) /\ c[j + 1] = LF)
      PROVE  "CR" \in LineEnds(c)
  <2>1. j \in Ends /\ ~Has(j, LF)
    BY <1>1, <1>7 DEF CR, LF
  <2>2. Kind(j) = "CR"
    BY <2>1
  <2>3. QED
    BY <1>1, <2>1, <2>2
<1>8. ASSUME "CR" \in LineEnds(c)
      PROVE  \E j \in 1 .. Len(c) : c[j] = CR /\ ~(j # Len(c) /\ c[j + 1] = LF)
  <2>1. PICK i \in Ends : Kind(i) = "CR"
    BY <1>1, <1>8
  <2>2. Has(i, CR) /\ ~Has(i + 1, LF)
    BY <2>1
  <2>3. i # Len(c) => i + 1 \in 1 .. Len(c)
    BY <1>1, <2>2
  <2>4. QED
    BY <2>2, <2>3
<1>9. QED
  BY <1>2, <1>3, <1>4, <1>5, <1>6, <1>7, <1>8

(* Two kinds of line ends are more than one.                                 *)
LEMMA OneKind ==
  ASSUME NEW K, K \subseteq {"CRLF", "LF", "CR"}, Cardinality(K) <= 1, NEW a \in K, NEW b \in K
  PROVE  a = b
<1>1. IsFiniteSet({"CRLF", "LF", "CR"})
  <2>1. IsFiniteSet({"CRLF"})
    BY FS_Singleton
  <2>2. IsFiniteSet({"CRLF"} \cup {"LF"})
    BY <2>1, FS_AddElement
  <2>3. IsFiniteSet(({"CRLF"} \cup {"LF"}) \cup {"CR"})
    BY <2>2, FS_AddElement
  <2>4. ({"CRLF"} \cup {"LF"}) \cup {"CR"} = {"CRLF", "LF", "CR"}
    OBVIOUS
  <2>5. QED
    BY <2>3, <2>4
<1>2. IsFiniteSet(K)
  BY <1>1, FS_Subset
<1>3. Cardinality({a, b}) <= Cardinality(K)
  BY <1>2, FS_Subset
<1>4. IsFiniteSet({a}) /\ Cardinality({a}) = 1
  BY FS_Singleton
<1>5. a # b => Cardinality({a} \cup {b}) = 2
  BY <1>4, FS_AddElement
<1>6. {a} \cup {b} = {a, b} /\ Cardinality(K) \in Nat
  BY <1>2, FS_CardinalityType
<1>7. QED
  BY <1>3, <1>5, <1>6

Newlines == {<<CR>>, <<LF>>, <<CR, LF>>}

KindOf(nl) == CASE nl = <<CR>> -> "CR" [] nl = <<LF>> -> "LF" [] OTHER -> "CRLF"

LEMMA NewlineIsOne == \A c : newline(c) \in Newlines
BY DEF newline, default_newline, Newlines

LEMMA Short1 ==
  ASSUME NEW S, NEW x \in S
  PROVE  <<x>> \in Seq(S) /\ Len(<<x>>) = 1 /\ \A j \in 1 .. 1 : <<x>>[j] = x
<1>1. \A j \in 1 .. 1 : j = 1
  OBVIOUS
<1>2. QED
  BY <1>1

LEMMA Short2 ==
  ASSUME NEW S, NEW x \in S, NEW y \in S
  PROVE  /\ <<x, y>> \in Seq(S) /\ Len(<<x, y>>) = 2
         /\ \A j \in 1 .. 2 : <<x, y>>[j] = IF j = 1 THEN x ELSE y
<1>1. \A j \in 1 .. 2 : j = 1 \/ j = 2
  OBVIOUS
<1>2. QED
  BY <1>1

(* A short string is found where its characters are.                         *)
LEMMA FindsOne ==
  ASSUME NEW c, Chars(c), NEW x \in Symbols
  PROVE  Finds(c, <<x>>) <=> \E j \in 1 .. Len(c) : c[j] = x
<1>1. Len(<<x>>) = 1 /\ Len(c) \in Nat
  BY DEF Chars
<1>2. ASSUME NEW i \in 0 .. (Len(c) - 1)
      PROVE  SubSeq(c, i + 1, i + 1) = <<x>> <=> c[i + 1] = x
  <2>1. /\ SubSeq(c, i + 1, i + 1) \in Seq(Symbols) /\ Len(SubSeq(c, i + 1, i + 1)) = 1
        /\ SubSeq(c, i + 1, i + 1)[1] = c[i + 1]
    BY <1>1 DEF Chars
  <2>2. <<x>> \in Seq(Symbols) /\ <<x>>[1] = x /\ \A j \in 1 .. 1 : j = 1 /\ <<x>>[j] = x
    BY Short1
  <2>3. c[i + 1] = x => \A j \in 1 .. 1 : SubSeq(c, i + 1, i + 1)[j] = <<x>>[j]
    BY <2>1, <2>2
  <2>4. c[i + 1] = x => SubSeq(c, i + 1, i + 1) = <<x>>
    BY <1>1, <2>1, <2>2, <2>3, SeqEqual
  <2>5. SubSeq(c, i + 1, i + 1) = <<x>> => c[i + 1] = x
    BY <2>1, <2>2
  <2>6. QED
    BY <2>4, <2>5
<1>3. \A j \in 1 .. Len(c) : j - 1 \in 0 .. (Len(c) - 1) /\ (j - 1) + 1 = j
  BY <1>1
<1>4. \A i \in 0 .. (Len(c) - 1) : i + 1 \in 1 .. Len(c)
  BY <1>1
<1>5. QED
  BY <1>1, <1>2, <1>3, <1>4 DEF Finds

LEMMA FindsTwo ==
  ASSUME NEW c, Chars(c)
  PROVE  Finds(c, <<CR, LF>>) <=> \E j \in 1 .. Len(c) - 1 : c[j] = CR /\ c[j + 1] = LF
<1>1. Len(<<CR, LF>>) = 2 /\ Len(c) \in Nat
  BY DEF Chars
<1>2. ASSUME NEW i \in 0 .. (Len(c) - 2)
      PROVE  SubSeq(c, i + 1, i + 2) = <<CR, LF>> <=> c[i + 1] = CR /\ c[(i + 1) + 1] = LF
  <2>1. /\ SubSeq(c, i + 1, i + 2) \in Seq(Symbols) /\ Len(SubSeq(c, i + 1, i + 2)) = 2
        /\ SubSeq(c, i + 1, i + 2)[1] = c[i + 1] /\ SubSeq(c, i + 1, i + 2)[2] = c[(i + 1) + 1]
    BY <1>1 DEF Chars
  <2>2. /\ CR \in Symbols /\ LF \in Symbols
        /\ <<CR, LF>> \in Seq(Symbols) /\ <<CR, LF>>[1] = CR /\ <<CR, LF>>[2] = LF
        /\ \A j \in 1 .. 2 : j = 1 \/ j = 2
    <3>1. CR \in Symbols /\ LF \in Symbols
      BY DEF Symbols
    <3>2. QED
      BY <3>1, Short2
  <2>3. c[i + 1] = CR /\ c[(i + 1) + 1] = LF =>
          \A j \in 1 .. 2 : SubSeq(c, i + 1, i + 2)[j] = <<CR, LF>>[j]
    BY <2>1, <2>2
  <2>4. c[i + 1] = CR /\ c[(i + 1) + 1] = LF => SubSeq(c, i + 1, i + 2) = <<CR, LF>>
    BY <1>1, <2>1, <2>2, <2>3, SeqEqual
  <2>5. QED
    BY <2>1, <2>2, <2>4
<1>3. \A j \in 1 .. Len(c) - 1 : j - 1 \in 0 .. (Len(c) - 2) /\ (j - 1) + 1 = j
  BY <1>1
<1>4. \A i \in 0 .. (Len(c) - 2) : i + 1 \in 1 .. Len(c) - 1
  BY <1>1
<1>5. QED
  BY <1>1, <1>2, <1>3, <1>4 DEF Finds

LEMMA SampleIsText ==
  ASSUME NEW c, Chars(c)
  PROVE  Chars(Sample(c))
<1>1. PREAD_SIZE \in Nat /\ Len(c) \in Nat
  BY TextAssumption DEF Chars
<1>2. (IF Len(c) < PREAD_SIZE THEN Len(c) ELSE PREAD_SIZE) \in 0 .. Len(c)
  BY <1>1
<1>3. QED
  BY <1>2 DEF Sample, Chars

(* Where the sample shows the kind of a file with one kind of line ends,     *)
(* that kind is guessed.                                                     *)
LEMMA GuessesTheKind ==
  ASSUME NEW c, Chars(c), Cardinality(LineEnds(c)) <= 1, LineEnds(Sample(c)) = LineEnds(c)
  PROVE  LineEnds(c) \subseteq {KindOf(newline(c))}
<1> DEFINE s == Sample(c)
           K == LineEnds(c)
<1>1. Chars(s)
  BY SampleIsText
<1>2. newline(c) = IF Finds(s, <<CR, LF>>) THEN <<CR, LF>>
                   ELSE IF Finds(s, <<LF>>) THEN <<LF>>
                   ELSE IF Finds(s, <<CR>>) THEN <<CR>> ELSE default_newline
  BY DEF newline, Sample
<1>3. K \subseteq {"CRLF", "LF", "CR"} /\ \A a, b \in K : a = b
  BY KindsOfEnds, OneKind
<1> HIDE DEF s
<1>4. Finds(s, <<CR, LF>>) <=> "CRLF" \in K
  BY <1>1, FindsTwo, KindsOfEnds DEF s
<1>5. CR \in Symbols /\ LF \in Symbols /\ CR # LF /\ Len(s) \in Nat
  BY <1>1 DEF Symbols, CR, LF, Chars
<1>6. Finds(s, <<LF>>) => "LF" \in K \/ "CRLF" \in K
  <2>1. SUFFICES ASSUME NEW j \in 1 .. Len(s), s[j] = LF PROVE "LF" \in K \/ "CRLF" \in K
    BY <1>1, <1>5, FindsOne
  <2>2. CASE j # 1 /\ s[j - 1] = CR
    <3>1. j - 1 \in 1 .. Len(s) - 1 /\ (j - 1) + 1 = j
      BY <1>5, <2>2
    <3>2. QED
      BY <1>1, <2>1, <2>2, <3>1, KindsOfEnds DEF s
  <2>3. CASE ~(j # 1 /\ s[j - 1] = CR)
    BY <1>1, <2>1, <2>3, KindsOfEnds DEF s
  <2>4. QED
    BY <2>2, <2>3
<1>7. Finds(s, <<CR>>) => "CR" \in K \/ "CRLF" \in K
  <2>1. SUFFICES ASSUME NEW j \in 1 .. Len(s), s[j] = CR PROVE "CR" \in K \/ "CRLF" \in K
    BY <1>1, <1>5, FindsOne
  <2>2. CASE j # Len(s) /\ s[j + 1] = LF
    <3>1. j \in 1 .. Len(s) - 1
      BY <1>5, <2>2
    <3>2. QED
      BY <1>1, <2>1, <2>2, <3>1, KindsOfEnds DEF s
  <2>3. CASE ~(j # Len(s) /\ s[j + 1] = LF)
    BY <1>1, <2>1, <2>3, KindsOfEnds DEF s
  <2>4. QED
    BY <2>2, <2>3
<1>8. "LF" \in K => Finds(s, <<LF>>)
  <2>1. "LF" \in K => \E j \in 1 .. Len(s) : s[j] = LF
    BY <1>1, KindsOfEnds DEF s
  <2>2. QED
    BY <1>1, <1>5, <2>1, FindsOne
<1>9. "CR" \in K => Finds(s, <<CR>>)
  <2>1. "CR" \in K => \E j \in 1 .. Len(s) : s[j] = CR
    BY <1>1, KindsOfEnds DEF s
  <2>2. QED
    BY <1>1, <1>5, <2>1, FindsOne
<1>10. /\ KindOf(<<CR>>) = "CR" /\ KindOf(<<LF>>) = "LF" /\ KindOf(<<CR, LF>>) = "CRLF"
  <2>1. <<CR>> # <<LF>> /\ <<CR, LF>> # <<CR>> /\ <<CR, LF>> # <<LF>>
    BY <1>5
  <2>2. QED
    BY <2>1 DEF KindOf
<1>11. CASE "CRLF" \in K
  BY <1>2, <1>3, <1>4, <1>10, <1>11
<1>12. CASE "LF" \in K
  <2>1. "CRLF" \notin K
    BY <1>3, <1>12
  <2>2. newline(c) = <<LF>>
    BY <1>2, <1>4, <1>8, <1>12, <2>1
  <2>3. QED
    BY <1>3, <1>10, <1>12, <2>2
<1>13. CASE "CR" \in K
  <2>1. "CRLF" \notin K /\ "LF" \notin K
    BY <1>3, <1>13
  <2>2. newline(c) = <<CR>>
    BY <1>2, <1>4, <1>6, <1>9, <1>13, <2>1
  <2>3. QED
    BY <1>3, <1>10, <1>13, <2>2
<1>14. QED
  BY <1>3, <1>11, <1>12, <1>13

(* A file with the line at its end, character by character.                  *)
Laid(c, mid, nl, t) ==
  /\ Chars(t) /\ Len(t) = Len(c) + Len(mid) + 1 + Len(nl)
  /\ \A j \in 1 .. Len(c) : t[j] = c[j]
  /\ \A j \in 1 .. Len(mid) : t[Len(c) + j] = mid[j]
  /\ t[Len(c) + Len(mid) + 1] = "L"
  /\ \A j \in 1 .. Len(nl) : t[Len(c) + Len(mid) + 1 + j] = nl[j]

LEMMA Joined ==
  ASSUME NEW a, NEW b, Chars(a), Chars(b)
  PROVE  /\ Chars(a \o b) /\ Len(a \o b) = Len(a) + Len(b)
         /\ \A j \in 1 .. Len(a) : (a \o b)[j] = a[j]
         /\ \A j \in 1 .. Len(b) : (a \o b)[Len(a) + j] = b[j]
<1>1. Len(a) \in Nat /\ Len(b) \in Nat
  BY DEF Chars
<1>2. /\ a \o b \in Seq(Symbols) /\ Len(a \o b) = Len(a) + Len(b)
      /\ \A j \in 1 .. Len(a) + Len(b) : (a \o b)[j] = IF j <= Len(a) THEN a[j] ELSE b[j - Len(a)]
  BY DEF Chars
<1>3. \A j \in 1 .. Len(b) : /\ Len(a) + j \in 1 .. Len(a) + Len(b) /\ ~(Len(a) + j <= Len(a))
                             /\ (Len(a) + j) - Len(a) = j
  BY <1>1
<1>4. QED
  BY <1>1, <1>2, <1>3 DEF Chars

LEMMA LaidOut ==
  ASSUME NEW c, NEW mid, NEW nl, Chars(c), Chars(mid), Chars(nl)
  PROVE  Laid(c, mid, nl, c \o mid \o line \o nl)
<1> DEFINE a == c \o mid
           b == a \o line
           t == b \o nl
<1>1. Chars(line) /\ Len(line) = 1 /\ line[1] = "L"
  <2>1. "L" \in Symbols
    BY DEF Symbols
  <2>2. QED
    BY <2>1, Short1 DEF line, Chars
<1>2. Len(c) \in Nat /\ Len(mid) \in Nat /\ Len(nl) \in Nat
  BY DEF Chars
<1>3. /\ Chars(a) /\ Len(a) = Len(c) + Len(mid)
      /\ \A j \in 1 .. Len(c) : a[j] = c[j]
      /\ \A j \in 1 .. Len(mid) : a[Len(c) + j] = mid[j]
  BY Joined
<1> HIDE DEF a
<1>4. /\ Chars(b) /\ Len(b) = Len(a) + 1
      /\ \A j \in 1 .. Len(a) : b[j] = a[j]
      /\ b[Len(a) + 1] = "L"
  <2>1. /\ Chars(b) /\ Len(b) = Len(a) + Len(line)
        /\ \A j \in 1 .. Len(a) : b[j] = a[j]
        /\ \A j \in 1 .. Len(line) : b[Len(a) + j] = line[j]
    <3>1. Chars(a) /\ Chars(line)
      BY <1>1, <1>3
    <3>2. QED
      BY ONLY <3>1, Joined
  <2>2. 1 \in 1 .. Len(line)
    BY <1>1
  <2>3. b[Len(a) + 1] = line[1]
    BY <2>1, <2>2
  <2>4. QED
    BY <1>1, <2>1, <2>3
<1> HIDE DEF b
<1>5. /\ Chars(t) /\ Len(t) = Len(b) + Len(nl)
      /\ \A j \in 1 .. Len(b) : t[j] = b[j]
      /\ \A j \in 1 .. Len(nl) : t[Len(b) + j] = nl[j]
  BY <1>4, Joined
<1>6. t = c \o mid \o line \o nl
  BY DEF a, b
<1> HIDE DEF t
<1>7. /\ \A j \in 1 .. Len(c) : j \in 1 .. Len(a) /\ j \in 1 .. Len(b)
      /\ \A j \in 1 .. Len(mid) : Len(c) + j \in 1 .. Len(a) /\ Len(c) + j \in 1 .. Len(b)
      /\ Len(a) + 1 \in 1 .. Len(b)
  BY <1>2, <1>3, <1>4
<1>8. Laid(c, mid, nl, t)
  BY <1>2, <1>3, <1>4, <1>5, <1>7 DEF Laid
<1>9. QED
  BY <1>6, <1>8

(* What comes between the file and the line: nothing if the file is empty or *)
(* ends in a newline, and a newline otherwise.                               *)
Separates(c, mid, nl) ==
  \/ mid = nl
  \/ mid = <<>> /\ Len(c) = 0
  \/ mid = <<>> /\ Len(c) >= Len(nl) /\ \A j \in 1 .. Len(nl) : c[Len(c) - Len(nl) + j] = nl[j]

LEMMA NewlineShape ==
  ASSUME NEW nl \in Newlines
  PROVE  /\ Chars(nl) /\ Len(nl) \in {1, 2} /\ nl[1] \in {CR, LF} /\ nl[Len(nl)] \in {CR, LF}
         /\ KindOf(nl) = "CR" => Len(nl) = 1 /\ nl[1] = CR
         /\ KindOf(nl) = "LF" => Len(nl) = 1 /\ nl[1] = LF
         /\ KindOf(nl) = "CRLF" => Len(nl) = 2 /\ nl[1] = CR /\ nl[2] = LF
         /\ KindOf(nl) \in {"CR", "LF", "CRLF"}
<1>1. CR \in Symbols /\ LF \in Symbols /\ CR # LF
  BY DEF Symbols, CR, LF
<1>2. /\ Chars(<<CR>>) /\ Len(<<CR>>) = 1 /\ <<CR>>[1] = CR
      /\ Chars(<<LF>>) /\ Len(<<LF>>) = 1 /\ <<LF>>[1] = LF
  BY <1>1, Short1 DEF Chars
<1>3. Chars(<<CR, LF>>) /\ Len(<<CR, LF>>) = 2 /\ <<CR, LF>>[1] = CR /\ <<CR, LF>>[2] = LF
  BY <1>1, Short2 DEF Chars
<1>4. <<CR>> # <<LF>> /\ <<CR, LF>> # <<CR>> /\ <<CR, LF>> # <<LF>>
  BY <1>1
<1>5. CASE nl = <<CR>>
  BY <1>2, <1>5 DEF KindOf
<1>6. CASE nl = <<LF>>
  BY <1>2, <1>4, <1>6 DEF KindOf
<1>7. CASE nl = <<CR, LF>>
  BY <1>3, <1>4, <1>7 DEF KindOf
<1>8. QED
  BY <1>5, <1>6, <1>7 DEF Newlines

LEMMA AppendedShape ==
  ASSUME NEW c, Chars(c)
  PROVE  \E mid : /\ Chars(mid) /\ Separates(c, mid, newline(c))
                  /\ Appended(c) = c \o mid \o line \o newline(c)
<1> DEFINE nl == newline(c)
           last == IF Len(c) = 0 THEN nl
                   ELSE IF Len(c) >= Len(nl) THEN SubSeq(c, Len(c) - Len(nl) + 1, Len(c)) ELSE c
           mid == IF last = nl THEN <<>> ELSE nl
<1>1. Appended(c) = c \o mid \o line \o nl
  BY DEF Appended
<1>2. nl \in Newlines /\ Chars(nl) /\ Len(nl) \in {1, 2} /\ Len(c) \in Nat
  BY NewlineIsOne, NewlineShape DEF Chars
<1> HIDE DEF nl
<1>3. Chars(mid)
  BY <1>2 DEF Chars
<1>4. ASSUME last = nl, Len(c) # 0
      PROVE  Len(c) >= Len(nl) /\ \A j \in 1 .. Len(nl) : c[Len(c) - Len(nl) + j] = nl[j]
  <2>1. CASE Len(c) >= Len(nl)
    <3>1. SubSeq(c, Len(c) - Len(nl) + 1, Len(c)) = nl
      BY <1>4, <2>1
    <3>2. \A j \in 1 .. Len(nl) :
            SubSeq(c, Len(c) - Len(nl) + 1, Len(c))[j] = c[Len(c) - Len(nl) + j]
      BY <1>2, <2>1 DEF Chars
    <3>3. QED
      BY <2>1, <3>1, <3>2
  <2>2. CASE ~(Len(c) >= Len(nl))
    BY <1>2, <1>4, <2>2
  <2>3. QED
    BY <2>1, <2>2
<1>5. Separates(c, mid, nl)
  BY <1>4 DEF Separates
<1>6. QED
  BY <1>1, <1>3, <1>5 DEF nl

(* The line has a line of its own, whatever is in the file.                  *)
LEMMA OnItsOwn ==
  ASSUME NEW c, NEW mid, NEW nl \in Newlines, NEW t,
         Chars(c), Chars(mid), Separates(c, mid, nl), Laid(c, mid, nl, t)
  PROVE  \E i \in DOMAIN t : /\ <<t[i]>> = line
                             /\ i = 1 \/ t[i - 1] \in {CR, LF}
                             /\ t[i + 1] \in {CR, LF}
<1> DEFINE i == Len(c) + Len(mid) + 1
<1>1. /\ Len(nl) \in {1, 2} /\ nl[1] \in {CR, LF} /\ nl[Len(nl)] \in {CR, LF}
      /\ Len(c) \in Nat /\ Len(mid) \in Nat /\ Len(t) \in Nat /\ DOMAIN t = 1 .. Len(t)
  BY NewlineShape DEF Laid, Chars
<1>2. i \in DOMAIN t /\ t[i] = "L"
  BY <1>1 DEF Laid
<1>3. t[i + 1] \in {CR, LF}
  <2>1. 1 \in 1 .. Len(nl)
    BY <1>1
  <2>2. QED
    BY <1>1, <2>1 DEF Laid
<1>4. i = 1 \/ t[i - 1] \in {CR, LF}
  <2>1. CASE mid = nl
    <3>1. Len(nl) \in 1 .. Len(mid) /\ i - 1 = Len(c) + Len(nl)
      BY <1>1, <2>1
    <3>2. t[Len(c) + Len(nl)] = nl[Len(nl)]
      BY <2>1, <3>1 DEF Laid
    <3>3. QED
      BY <1>1, <3>1, <3>2
  <2>2. CASE mid = <<>> /\ Len(c) = 0
    BY <2>2
  <2>3. CASE mid = <<>> /\ Len(c) >= Len(nl) /\ \A j \in 1 .. Len(nl) : c[Len(c) - Len(nl) + j] = nl[j]
    <3>1. /\ i - 1 = Len(c) /\ Len(c) \in 1 .. Len(c) /\ Len(nl) \in 1 .. Len(nl)
          /\ Len(c) - Len(nl) + Len(nl) = Len(c)
      BY <1>1, <2>3
    <3>2. t[Len(c)] = c[Len(c)] /\ c[Len(c)] = nl[Len(nl)]
      BY <2>3, <3>1 DEF Laid
    <3>3. QED
      BY <1>1, <3>1, <3>2
  <2>4. QED
    BY <2>1, <2>2, <2>3 DEF Separates
<1>5. QED
  BY <1>2, <1>3, <1>4 DEF line

(* Every character of the result is one of the file, of the line, or of one  *)
(* of the newlines around it.                                                *)
LEMMA Whence ==
  ASSUME NEW c, NEW mid, NEW nl \in Newlines, NEW t,
         Chars(c), Separates(c, mid, nl), Laid(c, mid, nl, t), NEW j \in 1 .. Len(t)
  PROVE  \/ j \in 1 .. Len(c) /\ t[j] = c[j]
         \/ t[j] = "L"
         \/ \E at \in {Len(c), Len(t) - Len(nl)}, i \in 1 .. Len(nl) :
              j = at + i /\ \A h \in 1 .. Len(nl) : at + h \in 1 .. Len(t) /\ t[at + h] = nl[h]
<1>1. /\ Len(nl) \in {1, 2} /\ Len(c) \in Nat /\ Len(mid) \in Nat /\ Len(t) \in Nat
      /\ Len(t) = Len(c) + Len(mid) + 1 + Len(nl)
      /\ Len(mid) = 0 \/ mid = nl
  BY NewlineShape DEF Laid, Chars, Separates
<1>2. CASE j <= Len(c)
  BY <1>1, <1>2 DEF Laid
<1>3. CASE Len(c) < j /\ j <= Len(c) + Len(mid)
  <2>1. mid = nl /\ j - Len(c) \in 1 .. Len(nl) /\ j = Len(c) + (j - Len(c))
    BY <1>1, <1>3
  <2>2. \A h \in 1 .. Len(nl) : Len(c) + h \in 1 .. Len(t) /\ t[Len(c) + h] = nl[h]
    BY <1>1, <2>1 DEF Laid
  <2>3. QED
    BY <2>1, <2>2
<1>4. CASE j = Len(c) + Len(mid) + 1
  BY <1>4 DEF Laid
<1>5. CASE j > Len(c) + Len(mid) + 1
  <2> DEFINE at == Len(t) - Len(nl)
  <2>1. at = Len(c) + Len(mid) + 1 /\ j - at \in 1 .. Len(nl) /\ j = at + (j - at)
    BY <1>1, <1>5
  <2>2. \A h \in 1 .. Len(nl) : at + h \in 1 .. Len(t) /\ t[at + h] = nl[h]
    BY <1>1, <2>1 DEF Laid
  <2>3. QED
    BY <2>1, <2>2
<1>6. \/ j <= Len(c) \/ (Len(c) < j /\ j <= Len(c) + Len(mid))
      \/ j = Len(c) + Len(mid) + 1 \/ j > Len(c) + Len(mid) + 1
  BY <1>1
<1>7. QED
  BY ONLY <1>2, <1>3, <1>4, <1>5, <1>6

(* A file that has no line ends of another kind gets none.                   *)
LEMMA SameKind ==
  ASSUME NEW c, NEW mid, NEW nl \in Newlines, NEW t,
         Chars(c), Separates(c, mid, nl), Laid(c, mid, nl, t),
         LineEnds(c) \subseteq {KindOf(nl)}
  PROVE  LineEnds(t) = {KindOf(nl)}
<1>1. /\ Len(nl) \in {1, 2} /\ Len(c) \in Nat /\ Len(mid) \in Nat /\ Len(t) \in Nat
      /\ Len(t) = Len(c) + Len(mid) + 1 + Len(nl) /\ Chars(t)
      /\ KindOf(nl) \in {"CR", "LF", "CRLF"} /\ CR # LF /\ "L" \notin {CR, LF}
  BY NewlineShape DEF Laid, Chars, CR, LF
<1>2. \A h \in 1 .. Len(nl) : t[Len(t) - Len(nl) + h] = nl[h]
  <2>1. Len(t) - Len(nl) = Len(c) + Len(mid) + 1
    BY <1>1
  <2>2. QED
    BY <2>1 DEF Laid
<1>3. LineEnds(t) \subseteq {"CRLF", "LF", "CR"}
  BY <1>1, KindsOfEnds
<1>4. ASSUME NEW j \in 1 .. Len(c), c[j] = CR
      PROVE  "CR" \in LineEnds(c) \/ "CRLF" \in LineEnds(c)
  <2>1. CASE j # Len(c) /\ c[j + 1] = LF
    <3>1. j \in 1 .. Len(c) - 1
      BY <1>1, <2>1
    <3>2. QED
      BY <1>4, <2>1, <3>1, KindsOfEnds
  <2>2. CASE ~(j # Len(c) /\ c[j + 1] = LF)
    BY <1>4, <2>2, KindsOfEnds
  <2>3. QED
    BY <2>1, <2>2
<1>5. ASSUME NEW j \in 1 .. Len(c), c[j] = LF
      PROVE  "LF" \in LineEnds(c) \/ "CRLF" \in LineEnds(c)
  <2>1. CASE j # 1 /\ c[j - 1] = CR
    <3>1. j - 1 \in 1 .. Len(c) - 1 /\ (j - 1) + 1 = j
      BY <1>1, <2>1
    <3>2. QED
      BY <1>5, <2>1, <3>1, KindsOfEnds
  <2>2. CASE ~(j # 1 /\ c[j - 1] = CR)
    BY <1>5, <2>2, KindsOfEnds
  <2>3. QED
    BY <2>1, <2>2
<1>6. CASE KindOf(nl) = "LF"
  <2>1. Len(nl) = 1 /\ nl[1] = LF /\ \A i \in 1 .. Len(nl) : nl[i] = LF
    BY <1>6, NewlineShape
  <2>2. \A j \in 1 .. Len(c) : c[j] # CR
    BY <1>4, <1>6
  <2>3. ASSUME NEW j \in 1 .. Len(t)
        PROVE  t[j] # CR
    <3>1. \/ j \in 1 .. Len(c) /\ t[j] = c[j]
          \/ t[j] = "L"
          \/ \E i \in 1 .. Len(nl) : t[j] = nl[i]
      BY Whence
    <3>2. QED
      BY <1>1, <2>1, <2>2, <3>1
  <2>4. t[Len(t)] = LF /\ Len(t) \in 1 .. Len(t) /\ (Len(t) # 1 => Len(t) - 1 \in 1 .. Len(t))
    BY <1>1, <1>2, <2>1
  <2>5. "LF" \in LineEnds(t)
    BY <1>1, <2>3, <2>4, KindsOfEnds
  <2>6. "CRLF" \notin LineEnds(t) /\ "CR" \notin LineEnds(t)
    <3>1. \A j \in 1 .. Len(t) - 1 : j \in 1 .. Len(t)
      BY <1>1
    <3>2. QED
      BY <1>1, <2>3, <3>1, KindsOfEnds
  <2>7. QED
    BY <1>3, <1>6, <2>5, <2>6
<1>7. CASE KindOf(nl) = "CR"
  <2>1. Len(nl) = 1 /\ nl[1] = CR /\ \A i \in 1 .. Len(nl) : nl[i] = CR
    BY <1>7, NewlineShape
  <2>2. \A j \in 1 .. Len(c) : c[j] # LF
    BY <1>5, <1>7
  <2>3. ASSUME NEW j \in 1 .. Len(t)
        PROVE  t[j] # LF
    <3>1. \/ j \in 1 .. Len(c) /\ t[j] = c[j]
          \/ t[j] = "L"
          \/ \E i \in 1 .. Len(nl) : t[j] = nl[i]
      BY Whence
    <3>2. QED
      BY <1>1, <2>1, <2>2, <3>1
  <2>4. t[Len(t)] = CR /\ Len(t) \in 1 .. Len(t)
    BY <1>1, <1>2, <2>1
  <2>5. "CR" \in LineEnds(t)
    BY <1>1, <2>4, KindsOfEnds
  <2>6. "CRLF" \notin LineEnds(t) /\ "LF" \notin LineEnds(t)
    <3>1. \A j \in 1 .. Len(t) - 1 : j + 1 \in 1 .. Len(t)
      BY <1>1
    <3>2. QED
      BY <1>1, <2>3, <3>1, KindsOfEnds
  <2>7. QED
    BY <1>3, <1>7, <2>5, <2>6
<1>8. CASE KindOf(nl) = "CRLF"
  <2>1. Len(nl) = 2 /\ nl[1] = CR /\ nl[2] = LF
    BY <1>8, NewlineShape
  <2>2. t[Len(t) - 1] = CR /\ t[(Len(t) - 1) + 1] = LF /\ Len(t) - 1 \in 1 .. Len(t) - 1
    BY <1>1, <1>2, <2>1
  <2>3. "CRLF" \in LineEnds(t)
    BY <1>1, <2>2, KindsOfEnds
  <2>4. "LF" \notin LineEnds(t)
    <3>1. SUFFICES ASSUME NEW j \in 1 .. Len(t), t[j] = LF PROVE j # 1 /\ t[j - 1] = CR
      BY <1>1, KindsOfEnds
    <3>2. CASE j \in 1 .. Len(c) /\ t[j] = c[j]
      <4>1. j # 1 /\ c[j - 1] = CR
        BY <1>8, <3>1, <3>2, KindsOfEnds
      <4>2. j - 1 \in 1 .. Len(c)
        BY <1>1, <3>2, <4>1
      <4>3. QED
        BY <4>1, <4>2 DEF Laid
    <3>3. ASSUME NEW at \in {Len(c), Len(t) - Len(nl)}, NEW i \in 1 .. Len(nl), j = at + i,
                 \A h \in 1 .. Len(nl) : at + h \in 1 .. Len(t) /\ t[at + h] = nl[h]
          PROVE  j # 1 /\ t[j - 1] = CR
      <4>1. t[j] = nl[i]
        BY <3>3
      <4>2. i = 2
        BY <1>1, <2>1, <3>1, <4>1
      <4>3. j - 1 = at + 1 /\ 1 \in 1 .. Len(nl) /\ at \in Nat
        BY <1>1, <2>1, <3>3, <4>2
      <4>4. QED
        BY <2>1, <3>3, <4>2, <4>3
    <3>4. \/ j \in 1 .. Len(c) /\ t[j] = c[j]
          \/ t[j] = "L"
          \/ \E at \in {Len(c), Len(t) - Len(nl)}, i \in 1 .. Len(nl) :
               j = at + i /\ \A h \in 1 .. Len(nl) : at + h \in 1 .. Len(t) /\ t[at + h] = nl[h]
      BY Whence
    <3>5. t[j] # "L"
      BY <1>1, <3>1
    <3>6. QED
      BY ONLY <3>2, <3>3, <3>4, <3>5
  <2>5. "CR" \notin LineEnds(t)
    <3>1. SUFFICES ASSUME NEW j \in 1 .. Len(t), t[j] = CR PROVE j # Len(t) /\ t[j + 1] = LF
      BY <1>1, KindsOfEnds
    <3>2. CASE j \in 1 .. Len(c) /\ t[j] = c[j]
      <4>1. j # Len(c) /\ c[j + 1] = LF
        BY <1>8, <3>1, <3>2, KindsOfEnds
      <4>2. j + 1 \in 1 .. Len(c)
        BY <1>1, <3>2, <4>1
      <4>3. QED
        BY <1>1, <4>1, <4>2 DEF Laid
    <3>3. ASSUME NEW at \in {Len(c), Len(t) - Len(nl)}, NEW i \in 1 .. Len(nl), j = at + i,
                 \A h \in 1 .. Len(nl) : at + h \in 1 .. Len(t) /\ t[at + h] = nl[h]
          PROVE  j # Len(t) /\ t[j + 1] = LF
      <4>1. t[j] = nl[i]
        BY <3>3
      <4>2. i = 1
        BY <1>1, <2>1, <3>1, <4>1
      <4>3. j + 1 = at + 2 /\ 2 \in 1 .. Len(nl) /\ at \in Nat
        BY <1>1, <2>1, <3>3, <4>2
      <4>4. QED
        BY <1>1, <2>1, <3>3, <4>2, <4>3
    <3>4. \/ j \in 1 .. Len(c) /\ t[j] = c[j]
          \/ t[j] = "L"
          \/ \E at \in {Len(c), Len(t) - Len(nl)}, i \in 1 .. Len(nl) :
               j = at + i /\ \A h \in 1 .. Len(nl) : at + h \in 1 .. Len(t) /\ t[at + h] = nl[h]
      BY Whence
    <3>5. t[j] # "L"
      BY <1>1, <3>1
    <3>6. QED
      BY ONLY <3>2, <3>3, <3>4, <3>5
  <2>6. QED
    BY <1>3, <1>8, <2>3, <2>4, <2>5
<1>9. QED
  BY <1>1, <1>6, <1>7, <1>8

(* The file that --append-line is about.                                     *)
TextInv == step = "append_write" => text = NoText \/ Chars(text)

LEMMA TextKept == ASSUME TextInv, [Next]_vars PROVE TextInv'
<1>1. CASE OpAppendLine
  <2>1. text' \in Texts \cup {NoText} \/ step' = "failed"
    BY <1>1 DEF OpAppendLine, append_line
  <2>2. \A c \in Texts : Chars(c)
    <3>1. {CR, LF, "x"} \subseteq Symbols
      BY DEF Symbols
    <3>2. \A c \in Seq({CR, LF, "x"}) : c \in Seq(Symbols)
      BY <3>1
    <3>3. QED
      BY <3>2, TextAssumption DEF Chars
  <2>3. QED
    BY <2>1, <2>2 DEF TextInv, Chars
<1>2. CASE ProgramNext /\ ~OpAppendLine
  <2>1. step' # "append_write"
    BY <1>2, Steps DEF ProgramNext, Moves, SeedSteps, HostSteps, SshSteps, VirtioSteps, UploadSteps,
       ShadowSteps, RelabelSteps
  <2>2. QED
    BY <2>1 DEF TextInv
<1>3. CASE Die \/ NewProgram
  BY <1>3 DEF Die, NewProgram, TextInv
<1>4. CASE UNCHANGED vars
  BY <1>4 DEF vars, TextInv, Chars
<1>5. QED
  BY <1>1, <1>2, <1>3, <1>4 DEF Next, ProgramNext

(* --append-line keeps the file, gives its line a line of its own, and       *)
(* brings no other line ends into a file that shows its kind in time, for    *)
(* any file and however much of it is read.                                  *)
THEOREM LinesCorrect == Spec => LinesApart
<1> DEFINE Apart(c, t) ==
             /\ SubSeq(t, 1, Len(c)) = c
             /\ \E i \in DOMAIN t :
                  /\ <<t[i]>> = line
                  /\ i = 1 \/ t[i - 1] \in {CR, LF}
                  /\ t[i + 1] \in {CR, LF}
             /\ Cardinality(LineEnds(c)) <= 1 /\ LineEnds(Sample(c)) = LineEnds(c) =>
                  Cardinality(LineEnds(t)) = 1 /\ LineEnds(c) \subseteq LineEnds(t)
<1>1. ASSUME NEW c, Chars(c)
      PROVE  Apart(c, Appended(c))
  <2> DEFINE nl == newline(c)
             t == Appended(c)
  <2>1. PICK mid : Chars(mid) /\ Separates(c, mid, nl) /\ t = c \o mid \o line \o nl
    BY <1>1, AppendedShape
  <2>2. nl \in Newlines /\ Chars(nl)
    BY NewlineIsOne, NewlineShape
  <2>3. Laid(c, mid, nl, t)
    BY <1>1, <2>1, <2>2, LaidOut
  <2> HIDE DEF nl, t
  <2>4. SubSeq(t, 1, Len(c)) = c
    <3>1. Len(c) \in Nat /\ Len(mid) \in Nat /\ Len(nl) \in Nat /\ Len(c) <= Len(t) /\ t \in Seq(Symbols)
      BY <1>1, <2>1, <2>2, <2>3 DEF Chars, Laid
    <3>2. /\ SubSeq(t, 1, Len(c)) \in Seq(Symbols) /\ Len(SubSeq(t, 1, Len(c))) = Len(c)
          /\ \A j \in 1 .. Len(c) : SubSeq(t, 1, Len(c))[j] = t[j]
      BY <3>1
    <3>3. \A j \in 1 .. Len(c) : SubSeq(t, 1, Len(c))[j] = c[j]
      BY <2>3, <3>2 DEF Laid
    <3>4. QED
      BY <1>1, <3>2, <3>3, SeqEqual DEF Chars
  <2>5. \E i \in DOMAIN t : /\ <<t[i]>> = line
                            /\ i = 1 \/ t[i - 1] \in {CR, LF}
                            /\ t[i + 1] \in {CR, LF}
    BY <1>1, <2>1, <2>2, <2>3, OnItsOwn
  <2>6. ASSUME Cardinality(LineEnds(c)) <= 1, LineEnds(Sample(c)) = LineEnds(c)
        PROVE  Cardinality(LineEnds(t)) = 1 /\ LineEnds(c) \subseteq LineEnds(t)
    <3>1. LineEnds(c) \subseteq {KindOf(nl)}
      BY <1>1, <2>6, GuessesTheKind DEF nl
    <3>2. LineEnds(t) = {KindOf(nl)}
      BY <1>1, <2>1, <2>2, <2>3, <3>1, SameKind
    <3>3. QED
      BY <3>1, <3>2, FS_Singleton
  <2>7. QED
    BY <2>4, <2>5, <2>6 DEF t
<1>2. TextInv /\ [Next]_vars =>
        [step = "append_write" /\ step' = "ops" /\ text # NoText => Apart(text, text')]_vars
  <2> HIDE DEF Apart
  <2>1. SUFFICES ASSUME TextInv, Next, step = "append_write", step' = "ops", text # NoText
                 PROVE  Apart(text, text')
    OBVIOUS
  <2>2. AppendText
    BY <2>1, Steps DEF Next, Moves, SeedSteps, HostSteps, SshSteps, VirtioSteps, UploadSteps,
       ShadowSteps, RelabelSteps, Die, NewProgram
  <2>3. text' = Appended(text) /\ Chars(text)
    BY <2>1, <2>2 DEF AppendText, WriteLine, TextInv
  <2>4. QED
    BY <1>1, <2>3
<1>3. Init => TextInv
  BY DEF Init, TextInv
<1>4. TextInv /\ [Next]_vars => TextInv'
  BY TextKept
<1>5. QED
  BY <1>2, <1>3, <1>4, PTL DEF Spec, LinesApart
=============================================================================
