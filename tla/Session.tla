------------------------------ MODULE Session ------------------------------
(***************************************************************************)
(* A tool from its command line to the mounted guest: it parses its        *)
(* options, adds the drives to the handle, launches the appliance, with -i *)
(* decrypts, inspects and mounts the guest, and mounts what -m asks for.   *)
(***************************************************************************)
EXTENDS Mounts, Decrypt

VARIABLE launched

sessionVars == <<optionsVars, decryptVars, mountsVars, launched>>

Init == OptionsInit /\ DecryptInit /\ MountsInit /\ launched = FALSE

Command == OptionsNext /\ UNCHANGED <<decryptVars, mountsVars, launched>>

OptKey(s) ==
  /\ Parse([opt |-> "key"])
  /\ AddKey(s)
  /\ UNCHANGED <<flags, format, format_consumed, drvs, mps, opt_pc, added,
                 mountsVars, launched>>

(* The tool launches the appliance once the drives have been added.         *)
Launch ==
  /\ opt_pc = "added" /\ ~launched
  /\ launched' = TRUE
  /\ EnableNetwork
  /\ UNCHANGED <<optionsVars, mountsVars>>

(* inspect_mount_handle calls inspect_do_decrypt first ...                  *)
DecryptGuest ==
  /\ launched /\ inspector
  /\ DecryptNext
  /\ UNCHANGED <<optionsVars, mountsVars, launched>>

(* ... then inspect_os; the tool calls mount_mps after it.                  *)
Begin ==
  /\ launched
  /\ \/ /\ dec_pc = "done" /\ ins_pc = "idle"
        /\ ins_pc' = "inspecting"
        /\ UNCHANGED <<mp_pc, mounting>>
     \/ /\ ins_pc = (IF inspector THEN "done" ELSE "idle") /\ mp_pc = "idle"
        /\ mp_pc' = "mounting"
        /\ mounting' = Len(mps)
        /\ UNCHANGED ins_pc
  /\ UNCHANGED <<optionsVars, decryptVars, launched, table, mount_errors, mounts>>

MountGuest == MountsNext /\ UNCHANGED <<optionsVars, decryptVars, launched>>

Next ==
  \/ Command
  \/ \E s \in Selectors : OptKey(s)
  \/ Launch \/ DecryptGuest \/ Begin \/ MountGuest

Spec == Init /\ [][Next]_sessionVars

-----------------------------------------------------------------------------
(* Properties                                                               *)

(* Types; and each state of the mounting code is reached only after the     *)
(* calls that must come before it.                                          *)
TypeOK ==
  /\ opt_pc \in {"parsing", "adding", "added", "exit"}
  /\ ins_pc \in {"idle", "inspecting", "mounting", "done", "exit"}
  /\ mp_pc \in {"idle", "mounting", "done", "exit"}
  /\ dec_pc \in {"idle", "partitions", "lvm", "lvs", "done", "exit", "nokey"}
  /\ read_only \in BOOLEAN /\ inspector \in BOOLEAN /\ format_consumed \in BOOLEAN
  /\ adding \in 0 .. Len(drvs) /\ mounting \in 0 .. Len(mps)
  /\ drive_index \in Nat
  /\ Len(drvs) <= Len(args) /\ Len(mps) <= Len(args) /\ Len(ks) = Len(selectors)
  /\ table \subseteq Paths /\ mount_errors \subseteq Paths \ {Root}
  /\ mounts # <<>> => launched
  /\ ins_pc # "idle" => dec_pc = "done"
  /\ mp_pc # "idle" => ins_pc = (IF inspector THEN "done" ELSE "idle")

(* What the command line asks for, read from left to right.                 *)
DrivesGiven  == {i \in DOMAIN args : args[i].opt = "drive"}
FormatsGiven == {i \in DOMAIN args : args[i].opt = "format"}
MountsGiven  == {i \in DOMAIN args : args[i].opt = "m"}
RoGiven      == config_ro \/ \E i \in DOMAIN args : args[i].opt = "ro"

(* The last --format before the i-th option is f.                           *)
FormatAt(i, f) ==
  \/ f = NoFormat /\ \A j \in FormatsGiven : j > i
  \/ \E j \in FormatsGiven :
       j < i /\ args[j].format = f /\ \A l \in FormatsGiven : l <= j \/ l > i

DiskAsAsked(d) ==
  LET o == args[d.arg].drive
  IN  /\ d.arg \in DrivesGiven
      /\ IF o.type \in {"a", "uri"} THEN FormatAt(d.arg, d.format) ELSE d.format = NoFormat
      /\ d.readonly = (RoGiven /\ o.type \notin {"N", "scratch"})

(* The n-th -m option is the i-th option.                                   *)
NthMount(n, i) == i \in MountsGiven /\ Cardinality({j \in MountsGiven : j <= i}) = n

MountAsked(i) ==
  LET m == args[i].mount
  IN  [by |-> "m", mountpoint |-> m.mountpoint,
       options |-> CASE m.options # NoOptions -> m.options
                     [] m.options = NoOptions /\ RoGiven -> "ro"
                     [] OTHER -> ""]

DisksMatch ==
  /\ \A p \in DOMAIN disks : DiskAsAsked(disks[p])
  /\ \A p, q \in DOMAIN disks : p < q => disks[p].arg <= disks[q].arg
  /\ \A i \in DrivesGiven :
       Cardinality({p \in DOMAIN disks : disks[p].arg = i}) = args[i].drive.disks

NoFormatIgnored ==
  \A i \in FormatsGiven : \E j \in DrivesGiven : j > i /\ args[j].drive.type \in {"a", "uri"}

(* The first n mounts are those of -i.                                      *)
MountsMatch(n) ==
  \A i \in DOMAIN mounts :
    IF i <= n
    THEN mounts[i].by = "i" /\ mounts[i].options = IF RoGiven THEN "ro" ELSE ""
    ELSE \E k \in MountsGiven : NthMount(i - n, k) /\ mounts[i] = MountAsked(k)

(* "-a", "-d" and "-m" take effect in the order of the command line however  *)
(* they are mixed with each other (options.c:120, 245), with the --format    *)
(* last given before them, and --ro applies to all of them wherever it       *)
(* stands; no --format is ignored.                                           *)
HandleMatchesCommandLine ==
  /\ opt_pc = "added" => DisksMatch /\ NoFormatIgnored
  /\ \E n \in 0 .. Len(mounts) :
       /\ MountsMatch(n)
       /\ mp_pc = "done" => Len(mounts) = n + Cardinality(MountsGiven)

(* "Drive index.  This is filled in by add_drives()" (options.h:45): the     *)
(* disks of a drive are those of the handle from its index on, as long as    *)
(* the index fits into the char that add_drives_handle returns.              *)
DriveIndexes ==
  opt_pc \in {"adding", "added"} =>
    \A k \in (adding + 1) .. Len(drvs) :
      LET d == drvs[k]
          first == Cardinality({p \in DOMAIN disks : disks[p].arg < d.arg})
      IN  first <= CHAR_MAX =>
            /\ d.drive_index = first
            /\ {p \in DOMAIN disks : disks[p].arg = d.arg}
                 = (d.drive_index + 1) .. (d.drive_index + d.nr_drives)

(* The device that a selector's identifier denotes, in the user's eyes: by   *)
(* its name, its device-mapper name, or its UUID.                            *)
Denotes(id, d) ==
  \/ id = All \/ id = d
  \/ UuidOf(d) # NoUuid /\ id = UuidOf(d)
  \/ d \in LogicalVolumes /\ id = MapperName(d[1], d[2])

KeysFor(d) == {selectors[i].key : i \in {j \in DOMAIN selectors : Denotes(selectors[j].id, d)}}

(* "Grab the keys that we should try with this device, based on device name, *)
(* or UUID (if any)" (decrypt.c:148): no key is tried on a device that it    *)
(* was not given for, the user is asked only when there is none, and the     *)
(* program gives up on a device only when it has tried them all.  A Tang     *)
(* server is never asked without a network.                                  *)
KeysWhereMeant ==
  /\ \A t \in tried : t[2] \in KeysFor(t[1]) \/ (t \in typed /\ KeysFor(t[1]) = {})
  /\ dec_pc = "nokey" =>
       KeysFor(Head(pending)) \subseteq {t[2] : t \in {u \in tried : u[1] = Head(pending)}}
  /\ ~offline

Reachable(d) ==
  \/ d \in Partitions
  \/ lvm2 /\ (layout[PhysicalVolume[d]].kind = "plain"
              \/ \E o \in opened : o.device = PhysicalVolume[d])

(* "look for any encrypted partitions and decrypt them, then rescan for VGs" *)
(* (decrypt.c:197): when inspection starts, every encrypted partition and    *)
(* every encrypted logical volume on an open partition is open, under one    *)
(* name of its own.                                                          *)
EveryDeviceOpen ==
  dec_pc = "done" =>
    \A d \in Devices : Encrypted(d) /\ Reachable(d) =>
      /\ Cardinality({o \in opened : o.device = d}) = 1
      /\ \A o, q \in opened : o.name = q.name => o = q

(* Decryption uses the keys as they are meant, and finds every device.       *)
DecryptedAsAsked == KeysWhereMeant /\ EveryDeviceOpen

(* "mounting the filesystems in the correct order" (inspect.c:135): what -i  *)
(* mounts is never hidden by a later mount on a directory above it, and the  *)
(* root is mounted before anything else, or the program exits.               *)
NothingHidden ==
  /\ \A i, j \in DOMAIN mounts :
       i < j /\ mounts[j].by = "i" =>
         <<mounts[i].mountpoint, mounts[j].mountpoint>> \notin Under
  /\ ins_pc = "done" => mounts # <<>> /\ mounts[1].mountpoint = Root
=============================================================================
