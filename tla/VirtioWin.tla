----------------------------- MODULE VirtioWin -----------------------------
(***************************************************************************)
(* mlcustomize/inject_virtio_win.ml: drivers, the QEMU guest agent and     *)
(* the balloon service are copied from the virtio-win directory or ISO to  *)
(* a Windows guest; the block driver is also registered for booting, and   *)
(* the other two get a script that installs them when the guest boots.     *)
(*                                                                         *)
(* A file of virtio-win is a record of its lower-case name, and what the   *)
(* elements of its path say: architecture, Windows version, and whether it *)
(* is among the files to leave out (sriov, vioprot, .pdb).                 *)
(***************************************************************************)
EXTENDS Guest

CONSTANTS
  Sources,       (* the virtio-win directories that an option can name       *)
  block_driver_priority  (* the names of the block drivers, the best first   *)

VARIABLES
  meth,          (* the option: "win", "ga", "blnsvr", or "none"             *)
  to_copy,       (* matching files that have yet to be copied                *)
  copied,        (* the names of those copied, the last one first            *)
  driverdir,     (* Drivers/VirtIO: the file under each name                 *)
  tempdir,       (* the Temp directory of the firstboot scripts              *)
  system32,      (* system32/drivers: the file under each name               *)
  hive,          (* drivers with a service in the open hive                  *)
  registry,      (* drivers with a service in the hive of the guest          *)
  firstboot,     (* the scripts installed: name and files they run           *)
  installed      (* what inject_virtio_win_drivers has returned              *)

virtioVars == <<meth, to_copy, copied, driverdir, tempdir, system32, hive, registry,
                firstboot, installed>>

NoFiles == [n \in {} |-> 0]
NotInstalled == [block |-> "IDE", net |-> "RTL8139", machine |-> "none", devices |-> {}]

VirtioInit ==
  /\ meth = "none" /\ to_copy = {} /\ copied = <<>>
  /\ driverdir = NoFiles /\ tempdir = NoFiles /\ system32 = NoFiles
  /\ hive = {} /\ registry = {} /\ firstboot = <<>>
  /\ installed = NotInstalled

(* The versions of Windows that a path element stands for.                   *)
match_osinfo(elem) ==
  CASE elem = "2k3" -> {"win2k3", "win2k3r2"}
    [] elem = "2k8" -> {"win2k8", "winvista"}
    [] elem = "xp" -> {"winxp"}       [] elem = "w7" -> {"win7"}
    [] elem = "2k8r2" -> {"win2k8r2"} [] elem = "w8" -> {"win8"}
    [] elem = "2k12" -> {"win2k12"}   [] elem = "w8.1" -> {"win8.1"}
    [] elem = "2k12r2" -> {"win2k12r2"} [] elem = "w10" -> {"win10"}
    [] elem = "w11" -> {"win11"}      [] elem = "2k16" -> {"win2k16"}
    [] elem = "2k19" -> {"win2k19"}   [] elem = "2k22" -> {"win2k22"}
    [] elem = "2k25" -> {"win2k25"}   [] OTHER -> {}

p_arch(elem) == CASE elem \in {"x86", "i386"} -> "i386" [] elem = "amd64" -> "x86_64" [] OTHER -> "none"

(* virtio_iso_path_matches_guest_os                                          *)
MatchesGuestOs(f) == guest.arch = p_arch(f.arch) /\ ~f.excluded /\ guest.osinfo \in match_osinfo(f.os)

MatchesQemuGa(f) ==
  \/ guest.arch = "i386" /\ f.name \in {"qemu-ga-x86.msi", "qemu-ga-i386.msi", "rhev-qga.msi"}
  \/ guest.arch = "x86_64" /\ f.name \in {"qemu-ga-x64.msi", "qemu-ga-x86_64.msi", "rhev-qga64.msi"}

MatchesBlnsvr(f) == MatchesGuestOs(f) /\ f.name = "blnsvr.exe"

Fits(what, f) == CASE what = "win" -> MatchesGuestOs(f)
                      [] what = "ga" -> MatchesQemuGa(f)
                      [] what = "blnsvr" -> MatchesBlnsvr(f)

(* get_virtio_win_handle, which leaves a guest that is not Windows alone,    *)
(* and the start of the three functions: mkdir_p, and the list of files.     *)
inject(what, source) ==
  /\ step = "ops"
  /\ IF Windows
     THEN /\ step' = "copy"
          /\ meth' = what
          /\ to_copy' = {f \in source : Fits(what, f)}
          /\ copied' = <<>>
          /\ hive' = {}
     ELSE UNCHANGED <<step, meth, to_copy, copied, hive>>
  /\ UNCHANGED <<driverdir, tempdir, system32, registry, firstboot, installed>>

(* Windows before NT 6 gets an i440fx, unless libosinfo knows better.        *)
machine ==
  CASE guest.arch \notin {"i386", "x86_64"} -> "Virt"
    [] guest.arch \in {"i386", "x86_64"} /\ guest.libosinfo = "none" ->
         IF guest.major < 6 THEN "I440FX" ELSE "Q35"
    [] OTHER -> IF guest.libosinfo = "q35" THEN "Q35" ELSE "I440FX"

Put(dir, name, f) == [n \in DOMAIN dir \cup {name} |-> IF n = name THEN f ELSE dir[n]]

(* copy_from_virtio_win: all matching files go to one directory, under their *)
(* names in lower case, in the order in which find lists them.               *)
CopyFile(f) ==
  /\ step = "copy" /\ f \in to_copy
  /\ to_copy' = to_copy \ {f}
  /\ copied' = <<f.name>> \o copied
  /\ IF meth = "ga" THEN tempdir' = Put(tempdir, f.name, f) /\ UNCHANGED driverdir
                    ELSE driverdir' = Put(driverdir, f.name, f) /\ UNCHANGED tempdir
  /\ UNCHANGED <<step, meth, system32, hive, registry, firstboot, installed, labels>>

(* With nothing copied there is nothing to install, and the hive is          *)
(* committed as it was.                                                      *)
EndCopy ==
  /\ step = "copy" /\ to_copy = {}
  /\ step' = CASE copied = <<>> -> IF meth = "win" THEN "commit" ELSE "ops"
               [] copied # <<>> -> IF meth = "win" THEN "block" ELSE "script"
  /\ installed' = IF meth = "win" THEN [NotInstalled EXCEPT !.machine = machine] ELSE installed
  /\ UNCHANGED <<meth, to_copy, copied, driverdir, tempdir, system32, hive, registry,
                 firstboot, labels>>

(* The block drivers that have arrived, as indices of the priority list.     *)
Available == {i \in DOMAIN block_driver_priority : block_driver_priority[i] \in DOMAIN driverdir}
Best == {i \in Available : \A j \in Available : i <= j}

(* Mutated: the driver is registered and not copied.                         *)
InstallBlockUncopied ==
  /\ Call("block", "net")
  /\ \E best \in Best :
       LET driver == block_driver_priority[best]
       IN  /\ hive' = hive \cup {<<driver, "legacy">>, <<driver, "modern">>}
           /\ installed' = [installed EXCEPT
                 !.block = IF driver = "vioscsi.sys" THEN "Virtio_SCSI" ELSE "Virtio_blk"]
  /\ UNCHANGED <<meth, to_copy, copied, driverdir, tempdir, system32, registry, firstboot, labels>>

(* cp to system32/drivers, then add_guestor_to_registry for both PCI ids:    *)
(* keys of the hive that is open.                                            *)
InstallBlock ==
  /\ Call("block", "net")
  /\ \E best \in Best :
       LET driver == block_driver_priority[best]
       IN  /\ system32' = Put(system32, driver, driverdir[driver])
           /\ hive' = hive \cup {<<driver, "legacy">>, <<driver, "modern">>}
           /\ installed' = [installed EXCEPT
                 !.block = IF driver = "vioscsi.sys" THEN "Virtio_SCSI" ELSE "Virtio_blk"]
  /\ UNCHANGED <<meth, to_copy, copied, driverdir, tempdir, registry, firstboot, labels>>

NoBlock ==
  /\ Call("block", "net") /\ Available = {}
  /\ UNCHANGED <<virtioVars, labels>>

InstallNet ==
  /\ Call("net", "fwcfg")
  /\ installed' = [installed EXCEPT
        !.net = IF {"virtio_net.inf", "netkvm.inf"} \cap DOMAIN driverdir # {}
                THEN "Virtio_net" ELSE "RTL8139"]
  /\ UNCHANGED <<meth, to_copy, copied, driverdir, tempdir, system32, hive, registry,
                 firstboot, labels>>

(* "These drivers conflict with each other (RHBZ#2151752)": the stub goes,   *)
(* the files of qemufwcfg.* in the order of glob_expand, each by a call.     *)
Stubs == {"qemufwcfg.inf", "qemufwcfg.cat"} \cap DOMAIN driverdir

Conflict == {"fwcfg.inf", "qemufwcfg.inf"} \subseteq DOMAIN driverdir

CheckStubs ==
  /\ Call("fwcfg", IF Conflict THEN "stubs" ELSE "devices")
  /\ UNCHANGED <<virtioVars, labels>>

RemoveStub(n) ==
  /\ Call("stubs", IF Stubs = {n} THEN "devices" ELSE "stubs")
  /\ n = "qemufwcfg.inf" => "qemufwcfg.cat" \notin Stubs
  /\ driverdir' = [m \in DOMAIN driverdir \ {n} |-> driverdir[m]]
  /\ UNCHANGED <<meth, to_copy, copied, tempdir, system32, hive, registry, firstboot,
                 installed, labels>>

Devices ==
  /\ Call("devices", "commit")
  /\ installed' = [installed EXCEPT
        !.devices = {"viorng.inf", "balloon.inf", "pvpanic.inf", "viosock.inf"} \cap DOMAIN driverdir]
  /\ UNCHANGED <<meth, to_copy, copied, driverdir, tempdir, system32, hive, registry,
                 firstboot, labels>>

(* hivex_commit, the last call of with_hive_write.                           *)
Commit ==
  /\ Call("commit", "ops")
  /\ registry' = registry \cup hive
  /\ hive' = {}
  /\ UNCHANGED <<meth, to_copy, copied, driverdir, tempdir, system32, firstboot,
                 installed, labels>>

(* configure_qemu_ga runs every installer, configure_blnsvr the last copy.   *)
InstallScript ==
  /\ Call("script", "ops")
  /\ firstboot' = Append(firstboot,
       IF meth = "ga" THEN [name |-> "install-qemu-ga", files |-> {copied[i] : i \in DOMAIN copied}]
                      ELSE [name |-> "install-blnsvr", files |-> {Head(copied)}])
  /\ UNCHANGED <<meth, to_copy, copied, driverdir, tempdir, system32, hive, registry,
                 installed, labels>>

VirtioNext ==
  \/ \E f \in to_copy : CopyFile(f)
  \/ EndCopy \/ InstallBlock \/ NoBlock \/ InstallNet
  \/ CheckStubs \/ \E n \in Stubs : RemoveStub(n)
  \/ Devices \/ Commit \/ InstallScript
=============================================================================
