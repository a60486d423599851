----------------------------- MODULE Customize -----------------------------
(***************************************************************************)
(* mlcustomize/customize_run.ml: virt-customize sets a random seed and the *)
(* machine ID, performs the operations of the command line in order, sets  *)
(* the passwords, relabels and cleans up.  It can end before any call of   *)
(* libguestfs, and another program, or the same one again, can then open   *)
(* the guest as it was left.                                               *)
(***************************************************************************)
EXTENDS RandomSeed, Password, SshKey, Hostname, AppendLine, SELinuxRelabel,
        GuestPackages, VirtioWin

CONSTANTS
  Flags,        (* combinations of --no-selinux-relabel and --scrub-logfile  *)
  Selectors,    (* the words of password selectors                           *)
  Keys,         (* public keys                                               *)
  MaxOps,       (* bound: operations on the command lines of all programs    *)
  MaxPrograms   (* bound: programs that customize the guest                  *)

ASSUME BoundsAssumption == MaxOps \in Nat /\ MaxPrograms \in Nat \ {0}

ASSUME MachineIdAssumption == \A g \in Guests : g.machine_id \in {"none", "empty", "set"}

VARIABLES
  flags,        (* the flags of this program                                 *)
  nr_ops,       (* operations performed, by all programs                     *)
  machine_id,   (* /etc/machine-id: "none", "empty" or "set"                 *)
  logfile,      (* builder.log exists                                        *)
  uploaded,     (* the file of --upload: owner and mode                      *)
  program,      (* the number of the program                                 *)
  asked,        (* history: the passwords this program was asked to set      *)
  cut           (* history: files whose making or replacing was interrupted  *)

opVars == <<flags, nr_ops, machine_id, logfile, uploaded>>
historyVars == <<program, asked, cut>>
vars == <<guest, step, labels, seedVars, passwordVars, sshVars, hostnameVars, text,
          selinuxVars, virtioVars, opVars, historyVars>>

Init ==
  /\ guest \in Guests
  /\ step = "seed" /\ labels = "fresh"
  /\ SeedInit /\ PasswordInit /\ SshInit /\ HostnameInit /\ SELinuxInit /\ VirtioInit
  /\ text = NoText
  /\ flags \in Flags
  /\ nr_ops = 0 /\ machine_id = guest.machine_id /\ logfile = FALSE /\ uploaded = Missing
  /\ program = 1 /\ asked = {} /\ cut = {}

-----------------------------------------------------------------------------
(* Before and after the operations                                          *)

SetSeed ==
  /\ SeedNext
  /\ UNCHANGED <<guest, passwordVars, sshVars, hostnameVars, text, selinuxVars, virtioVars,
                 opVars, historyVars>>

(* Only a regular file of no length is filled.                               *)
SetMachineId ==
  /\ Call("machine_id", "ops")
  /\ machine_id' = IF machine_id = "empty" THEN "set" ELSE machine_id
  /\ UNCHANGED <<guest, labels, seedVars, passwordVars, sshVars, hostnameVars, text, selinuxVars,
                 virtioVars, flags, nr_ops, logfile, uploaded, historyVars>>

EndOps ==
  /\ Call("ops", "passwords")
  /\ text' = NoText
  /\ UNCHANGED <<guest, labels, seedVars, passwordVars, sshVars, hostnameVars, selinuxVars,
                 virtioVars, opVars, historyVars>>

SetPasswords ==
  /\ PasswordNext
  /\ UNCHANGED <<guest, seedVars, sshVars, hostnameVars, text, selinuxVars, virtioVars, opVars,
                 historyVars>>

Relabel ==
  /\ relabel(flags.relabel) \/ SELinuxNext
  /\ UNCHANGED <<guest, seedVars, passwordVars, sshVars, hostnameVars, text, virtioVars, opVars,
                 historyVars>>

(* scrub_file, or rm_f when that fails; then fuser and ping_daemon.          *)
CleanLog ==
  /\ Call("log", "done")
  /\ logfile' = (logfile /\ ~flags.scrub)
  /\ UNCHANGED <<guest, labels, seedVars, passwordVars, sshVars, hostnameVars, text, selinuxVars,
                 virtioVars, flags, nr_ops, machine_id, uploaded, historyVars>>

-----------------------------------------------------------------------------
(* The operations.  Each begins at "ops" and comes back there.              *)

StartOp ==
  /\ step = "ops" /\ nr_ops < MaxOps
  /\ nr_ops' = nr_ops + 1

OpAppendLine ==
  /\ StartOp
  /\ \E content \in Texts \cup {NoText}, one_line, regular \in BOOLEAN :
       append_line(content, one_line, regular)
  /\ UNCHANGED <<guest, labels, seedVars, passwordVars, sshVars, hostnameVars, selinuxVars,
                 virtioVars, flags, machine_id, logfile, uploaded, historyVars>>

AppendText ==
  /\ WriteLine
  /\ UNCHANGED <<guest, seedVars, passwordVars, sshVars, hostnameVars, selinuxVars, virtioVars,
                 opVars, historyVars>>

(* --chmod, --chown, --copy, --copy-in, --delete, --edit, --link, --mkdir,   *)
(* --move, --scrub, --tar-in, --timezone, --touch, --truncate,               *)
(* --truncate-recursive and --write: calls that other files of the guest are *)
(* changed by, or created, or an error before them.  An option of            *)
(* --commands-from-file does nothing here.                                   *)
OpFile ==
  /\ StartOp
  /\ step' \in {"ops", "failed"}
  /\ labels' \in IF step' = "failed" THEN {labels} ELSE {labels, "stale"}
  /\ text' = NoText
  /\ UNCHANGED <<guest, seedVars, passwordVars, sshVars, hostnameVars, selinuxVars, virtioVars,
                 flags, machine_id, logfile, uploaded, historyVars>>

(* --run, --run-command, --install, --update and --uninstall: do_run needs a *)
(* guest that can run on this host; the command's output goes to the log.    *)
RunCommand(command) ==
  /\ StartOp
  /\ text' = NoText
  /\ \/ /\ guest.compatible /\ command # NoCommand
        /\ logfile' = TRUE
        /\ labels' = "stale"
        /\ step' \in {"ops", "failed"}
     \/ /\ ~guest.compatible \/ command = NoCommand
        /\ step' = "failed"
        /\ UNCHANGED <<logfile, labels>>
  /\ UNCHANGED <<guest, seedVars, passwordVars, sshVars, hostnameVars, selinuxVars, virtioVars,
                 flags, machine_id, uploaded, historyVars>>

OpCommand == \E what \in {"run", "install", "update", "uninstall"} :
               RunCommand(IF what = "run" THEN what ELSE package_command(what))

(* --firstboot, --firstboot-command and --firstboot-install; see Firstboot.  *)
OpFirstboot ==
  /\ StartOp
  /\ text' = NoText
  /\ \E command \in {"script", package_command("install")} :
       IF command # NoCommand /\ (Linux \/ Windows)
       THEN /\ firstboot' = Append(firstboot, [name |-> command, files |-> {}])
            /\ Created /\ UNCHANGED step
       ELSE step' = "failed" /\ UNCHANGED <<firstboot, labels>>
  /\ UNCHANGED <<guest, seedVars, passwordVars, sshVars, hostnameVars, selinuxVars, meth, to_copy,
                 copied, driverdir, tempdir, system32, hive, registry, installed, flags,
                 machine_id, logfile, uploaded, historyVars>>

OpHostname ==
  /\ StartOp /\ set_hostname
  /\ text' = NoText
  /\ UNCHANGED <<guest, labels, seedVars, passwordVars, sshVars, selinuxVars, virtioVars, flags,
                 machine_id, logfile, uploaded, historyVars>>

SetHostname ==
  /\ HostnameNext
  /\ UNCHANGED <<guest, seedVars, passwordVars, sshVars, text, selinuxVars, virtioVars, opVars,
                 historyVars>>

OpPassword ==
  /\ StartOp
  /\ \E user \in Users \cup {"nobody"}, words \in Selectors :
       LET selector == parse_selector(words)
       IN  /\ selector # Invalid
           /\ set_password(user, selector)
           /\ asked' = asked \cup {<<user, selector>>}
  /\ text' = NoText
  /\ UNCHANGED <<guest, labels, seedVars, sshVars, hostnameVars, selinuxVars, virtioVars, flags,
                 machine_id, logfile, uploaded, program, cut>>

(* --ssh-inject does nothing for a guest that is not like Unix.              *)
OpSshInject ==
  /\ StartOp
  /\ \E k \in Keys, empty, user_exists \in BOOLEAN :
       IF Windows THEN UNCHANGED <<step, sshVars>>
                  ELSE do_ssh_inject_unix(k, empty, user_exists)
  /\ text' = NoText
  /\ UNCHANGED <<guest, labels, seedVars, passwordVars, hostnameVars, selinuxVars, virtioVars,
                 flags, machine_id, logfile, uploaded, historyVars>>

InjectKey ==
  /\ SshNext
  /\ UNCHANGED <<guest, seedVars, passwordVars, hostnameVars, text, selinuxVars, virtioVars, opVars,
                 historyVars>>

(* --inject-virtio-win, --inject-qemu-ga, --inject-blnsvr                    *)
OpInject ==
  /\ StartOp
  /\ \E what \in {"win", "ga", "blnsvr"}, source \in Sources : inject(what, source)
  /\ text' = NoText
  /\ UNCHANGED <<guest, labels, seedVars, passwordVars, sshVars, hostnameVars, selinuxVars, flags,
                 machine_id, logfile, uploaded, historyVars>>

Inject ==
  /\ VirtioNext
  /\ UNCHANGED <<guest, seedVars, passwordVars, sshVars, hostnameVars, text, selinuxVars, opVars,
                 historyVars>>

(* --upload: upload, chmod and chown after the local file.                   *)
OpUpload ==
  /\ StartOp
  /\ step' = "upload_chmod"
  /\ uploaded' = ByRoot("0644")
  /\ Created
  /\ text' = NoText
  /\ UNCHANGED <<guest, seedVars, passwordVars, sshVars, hostnameVars, selinuxVars, virtioVars,
                 flags, machine_id, logfile, historyVars>>

(* A chown that fails with EPERM is only warned of.                          *)
Upload ==
  /\ \/ Call("upload_chmod", "upload_chown") /\ uploaded' = [uploaded EXCEPT !.mode = "local"]
     \/ Call("upload_chown", "ops") /\ uploaded' \in {uploaded, [uploaded EXCEPT !.owner = "local"]}
  /\ UNCHANGED <<guest, labels, seedVars, passwordVars, sshVars, hostnameVars, text, selinuxVars,
                 virtioVars, flags, nr_ops, machine_id, logfile, historyVars>>

-----------------------------------------------------------------------------
(* The end of a program, and the next one                                   *)

(* What an interruption before this call leaves half-made.                   *)
CutAt(at) ==
  CASE at = "seed_chmod" -> {"seed"}
    [] at \in {"ssh_dir_chmod", "ssh_dir_chown"} -> {"ssh_dir"}
    [] at \in {"ssh_keys_chmod", "ssh_keys_chown"} -> {"auth_keys"}
    [] at \in {"shadow_keep", "shadow_set", "shadow_save", "shadow_rm"} -> {"tempfile"}
    [] at = "shadow_restore" -> {"shadow", "tempfile"}
    [] at = "hosts" -> {"hosts"}
    [] at \in {"spec_write", "spec_attrs"} -> {"specfile"}
    [] at \in {"copy", "block", "net", "fwcfg", "stubs"} -> {"driverdir"}
    [] at \in {"upload_chmod", "upload_chown"} -> {"uploaded"}
    [] OTHER -> {}

(* Nothing that the program has in memory survives it.                       *)
Forget ==
  /\ visited' = 0 /\ created' = FALSE /\ entropy' = 0
  /\ aug' = Empty /\ passwords' = Empty
  /\ key' = NoKey /\ old_hostname' = NoHost /\ text' = NoText
  /\ meth' = "none" /\ to_copy' = {} /\ copied' = <<>> /\ hive' = {}
  /\ installed' = NotInstalled
  /\ asked' = {}
  /\ UNCHANGED <<nr_ops, guest, labels, seeds, shadow, tempfile, ssh_dir, auth_keys, hostname,
                 pretty, hosts, selinuxVars, driverdir, tempdir, system32, registry, firstboot,
                 machine_id, logfile, uploaded>>

(* A call fails, or the program is killed.                                   *)
Die ==
  /\ step \notin {"done", "failed"}
  /\ step' = "failed"
  /\ cut' = cut \cup CutAt(step)
  /\ Forget
  /\ UNCHANGED <<flags, program>>

NewProgram ==
  /\ step \in {"done", "failed"} /\ program < MaxPrograms
  /\ step' = "seed"
  /\ program' = program + 1
  /\ flags' \in Flags
  /\ Forget
  /\ UNCHANGED cut

Next ==
  \/ SetSeed \/ SetMachineId
  \/ OpAppendLine \/ AppendText \/ OpFile \/ OpCommand \/ OpFirstboot
  \/ OpHostname \/ SetHostname \/ OpPassword \/ OpSshInject \/ InjectKey
  \/ OpInject \/ Inject \/ OpUpload \/ Upload
  \/ EndOps \/ SetPasswords \/ Relabel \/ CleanLog
  \/ Die \/ NewProgram

Spec == Init /\ [][Next]_vars

-----------------------------------------------------------------------------
(* Properties                                                               *)

FileOf(modes) == [kind : {"file"}, owner : {"root", "user", "local"}, mode : modes]

(* Types: the bytes of entropy asked for are none or within the limits that  *)
(* random_seed.ml sets, a temporary file is only there while passwords are   *)
(* set or after that was interrupted, and a key only while it is injected.   *)
TypeOK ==
  /\ guest \in Guests /\ flags \in Flags /\ labels \in {"fresh", "stale"}
  /\ nr_ops \in 0 .. MaxOps /\ program \in 1 .. MaxPrograms
  /\ entropy = 0 \/ entropy \in SeedSizes
  /\ visited \in 0 .. Len(seed_files) /\ created \in BOOLEAN
  /\ ssh_dir = Missing \/ ssh_dir \in FileOf({"0755", "0700"})
  /\ auth_keys = Missing \/ auth_keys.file \in FileOf({"0644", "0600"})
  /\ key # NoKey => step \in {"ssh_dir", "ssh_dir_chmod", "ssh_dir_chown", "ssh_keys",
                              "ssh_keys_chmod", "ssh_keys_chown", "ssh_append"}
  /\ text # NoText => step \in {"append_write", "ops", "failed"}
  /\ DOMAIN passwords \subseteq Users \cup {"nobody"}
  /\ uploaded = Missing \/ uploaded \in FileOf({"0644", "local"})
  /\ machine_id \in {"none", "empty", "set"} /\ logfile \in BOOLEAN

(* The kinds of line ends in a file.                                         *)
LineEnds(content) ==
  LET Has(i, c) == i \in DOMAIN content /\ content[i] = c
  IN  {CASE Has(i, LF) /\ Has(i - 1, CR) -> "CRLF"
         [] Has(i, LF) /\ ~Has(i - 1, CR) -> "LF"
         [] OTHER -> "CR" :
       i \in {j \in DOMAIN content : Has(j, LF) \/ (Has(j, CR) /\ ~Has(j + 1, LF))}}

Sample(content) == SubSeq(content, 1, IF Len(content) < PREAD_SIZE THEN Len(content) ELSE PREAD_SIZE)

(* --append-line keeps what is in the file, puts the line on a line of its   *)
(* own, and gives a file that has one kind of line ends no other kind, as    *)
(* long as the part of the file that is read shows this kind.                *)
LinesApart ==
  [][step = "append_write" /\ step' = "ops" /\ text # NoText =>
       /\ SubSeq(text', 1, Len(text)) = text
       /\ \E i \in DOMAIN text' :
            /\ <<text'[i]>> = line
            /\ i = 1 \/ text'[i - 1] \in {CR, LF}
            /\ text'[i + 1] \in {CR, LF}
       /\ Cardinality(LineEnds(text)) <= 1 /\ LineEnds(Sample(text)) = LineEnds(text) =>
            Cardinality(LineEnds(text')) = 1 /\ LineEnds(text) \subseteq LineEnds(text')]_vars

(* What takes several calls is not half done when a program comes to its     *)
(* end, except for what a failure, in this program or an earlier one, cut    *)
(* short: the directory and the file of ssh keys are the user's own,         *)
(* /etc/shadow has its attributes and the file that kept them is gone, the   *)
(* seeds are fresh and readable by root alone, the old name is gone from     *)
(* /etc/hosts where the hostname has been set, unless it is a form of the    *)
(* new one, the SELinux policy has its specfile with its attributes, and an  *)
(* upload has its mode.  Commands have only been run in a guest with a       *)
(* machine ID.                                                               *)
NothingHalfDone ==
  step = "done" =>
    /\ ssh_dir = Missing \/ ssh_dir = OfUser("0700") \/ "ssh_dir" \in cut
    /\ auth_keys = Missing \/ auth_keys.file = OfUser("0600") \/ "auth_keys" \in cut
    /\ shadow.attrs = "original" \/ "shadow" \in cut
    /\ tempfile = Missing \/ "tempfile" \in cut
    /\ Linux => \A f \in SeedNames : seeds[f] # Missing =>
         /\ seeds[f].data = "entropy" /\ seeds[f].bytes \in SeedSizes
         /\ seeds[f].mode = "0600" \/ "seed" \in cut
    /\ Debian /\ hostname = NewHost /\ guest.hostname # NewHost =>
         \/ "hosts" \in cut
         \/ {guest.hostname, Short(guest.hostname)} \cap hosts \subseteq {NewHost, Short(NewHost)}
    /\ specfile \in {"missing", "bare"} => guest.specfile = "missing" \/ "specfile" \in cut
    /\ uploaded = Missing \/ uploaded.mode = "local" \/ "uploaded" \in cut
    /\ logfile => machine_id # "empty"

(* Every password that a program which has come to its end was asked to set  *)
(* is the password of its user, even when relabelling and other operations   *)
(* came in between, and it is encrypted as asked; by default with SHA-512 or *)
(* better where the guest understands that.  Rocky Linux before 9 and the    *)
(* distributions that default_crypto does not know are taken for old guests. *)
PasswordsAsAsked ==
  step = "done" /\ Linux =>
    \A a \in asked : a[1] \in Users =>
      /\ shadow.pw[a[1]].locked = a[2].locked /\ shadow.pw[a[1]].pw = a[2].pw
      /\ \/ a[2].pw = "disabled"
         \/ shadow.pw[a[1]].crypto = password_crypto
         \/ /\ password_crypto = NoCrypto
            /\ guest.sha512 =>
                 \/ shadow.pw[a[1]].crypto \in {"SHA512", "YESCRYPT"}
                 \/ guest.distro = "rocky" /\ guest.major < 9
                 \/ guest.distro # "rocky" /\ \A r \in Sha512Releases : guest.distro \notin r[1]

(* Whatever has been created in a guest that uses SELinux, and whatever      *)
(* earlier programs left, the files have their labels in the end, or the     *)
(* guest is told to relabel them, unless relabelling was turned off.         *)
LabelledOrMarked ==
  step = "done" /\ flags.relabel /\ is_selinux_guest => labels = "fresh" \/ autorelabel

(* What the next boot of a Windows guest needs is there, even if this        *)
(* program has failed meanwhile: every driver with a service has its file in *)
(* system32, made for this Windows; every script of the first boot has the   *)
(* installers that it runs; a block driver that was announced has a service; *)
(* and of two drivers for one device only one is left.                       *)
NextBootFindsFiles ==
  /\ \A d \in registry : d[1] \in DOMAIN system32 /\ MatchesGuestOs(system32[d[1]])
  /\ \A i \in DOMAIN firstboot :
       firstboot[i].files \subseteq IF firstboot[i].name = "install-qemu-ga" THEN DOMAIN tempdir
                                   ELSE DOMAIN driverdir
  /\ step \in {"ops", "done"} /\ installed.block # "IDE" =>
       \E i \in DOMAIN block_driver_priority :
         {<<block_driver_priority[i], "legacy">>, <<block_driver_priority[i], "modern">>} \subseteq registry
  /\ step = "done" /\ Conflict => "driverdir" \in cut
=============================================================================
