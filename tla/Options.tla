------------------------------ MODULE Options ------------------------------
(***************************************************************************)
(* The command line of a libguestfs tool, options/options.c and the        *)
(* OPTION_ macros of options/options.h: the options build lists of drives  *)
(* and of mountpoints, the newest first, and add_drives walks the list of  *)
(* drives recursively to add them to the handle.                           *)
(*                                                                         *)
(* An argument is abstracted to its position on the command line, and      *)
(* --blocksize, which is handled exactly as --format is, to --format.      *)
(***************************************************************************)
EXTENDS Naturals, Sequences

CONSTANTS
  DriveOptions,    (* drives one may ask for: [type, disks], disks being the *)
                   (* number of disks of the guest when the type is "d"      *)
  Formats,         (* arguments of --format                                  *)
  NoFormat,        (* detect the format                                      *)
  MountOptions,    (* arguments of -m: [mountpoint, options]                 *)
  NoOptions,       (* the -m argument has no third part                      *)
  CHAR_MAX,        (* the largest char                                       *)
  UCHAR_MAX,       (* the largest unsigned char                              *)
  SIZE_MAX,        (* the largest size_t                                     *)
  MaxOptions       (* bound: length of the command line                      *)

DriveTypes == {"a", "uri", "d", "N", "scratch"}

OptionsAssumption ==
  /\ DriveOptions \subseteq [type : DriveTypes, disks : Nat \ {0}]
  /\ \A o \in DriveOptions : o.type # "d" => o.disks = 1
  /\ CHAR_MAX \in Nat /\ UCHAR_MAX \in Nat /\ SIZE_MAX \in Nat
  /\ CHAR_MAX <= UCHAR_MAX /\ UCHAR_MAX <= SIZE_MAX
  /\ MaxOptions \in Nat

ASSUME OptionsAssumption

VARIABLES
  args,              (* the options so far                                   *)
  config_ro,         (* read_only as the configuration files leave it        *)
  read_only,
  inspector,
  format, format_consumed,
  drvs,              (* list of drives, the newest first                     *)
  mps,               (* list of mountpoints, the newest first                *)
  opt_pc,            (* "parsing", "adding", "added" or "exit"               *)
  adding,            (* the position in drvs that the recursion returns from *)
  drive_index,       (* what the previous call of the recursion returned     *)
  disks              (* the disks of the handle                              *)

flags == <<config_ro, read_only, inspector>>
added == <<adding, drive_index, disks>>
optionsVars == <<args, flags, format, format_consumed, drvs, mps, opt_pc, added>>

OptionsInit ==
  /\ args = <<>>
  /\ config_ro \in BOOLEAN
  /\ read_only = config_ro
  /\ inspector = FALSE
  /\ format = NoFormat /\ format_consumed = TRUE
  /\ drvs = <<>> /\ mps = <<>>
  /\ opt_pc = "parsing"
  /\ adding = 0 /\ drive_index = 0 /\ disks = <<>>

Parse(a) ==
  /\ opt_pc = "parsing"
  /\ Len(args) < MaxOptions
  /\ args' = Append(args, a)

-----------------------------------------------------------------------------
(* The options                                                              *)

NewDrive(o, f) ==
  [type |-> o.type, arg |-> Len(args) + 1, format |-> f, disks |-> o.disks,
   drive_index |-> 0, nr_drives |-> 0]

(* Mutated: the drive is appended to the list.                              *)
OptDriveAppends(o) ==
  LET isA == o.type \in {"a", "uri"}
  IN  /\ Parse([opt |-> "drive", drive |-> o])
      /\ drvs' = Append(drvs, NewDrive(o, IF isA THEN format ELSE NoFormat))
      /\ format_consumed' = (format_consumed \/ isA)
      /\ UNCHANGED <<flags, format, mps, opt_pc, added>>

(* -a takes the current format; -d, -N and --scratch do not (that -N asks   *)
(* for a raw disk in any case is left out).                                 *)
OptDrive(o) ==
  LET isA == o.type \in {"a", "uri"}
  IN  /\ Parse([opt |-> "drive", drive |-> o])
      /\ drvs' = <<NewDrive(o, IF isA THEN format ELSE NoFormat)>> \o drvs
      /\ format_consumed' = (format_consumed \/ isA)
      /\ UNCHANGED <<flags, format, mps, opt_pc, added>>

OptFormat(f) ==
  /\ Parse([opt |-> "format", format |-> f])
  /\ format' = f
  /\ format_consumed' = FALSE
  /\ UNCHANGED <<flags, drvs, mps, opt_pc, added>>

OptMount(m) ==
  /\ Parse([opt |-> "m", mount |-> m])
  /\ mps' = <<m>> \o mps
  /\ UNCHANGED <<flags, format, format_consumed, drvs, opt_pc, added>>

OptInspector ==
  /\ Parse([opt |-> "i"])
  /\ inspector' = TRUE
  /\ UNCHANGED <<config_ro, read_only, format, format_consumed, drvs, mps, opt_pc, added>>

OptRo ==
  /\ Parse([opt |-> "ro"])
  /\ read_only' = TRUE
  /\ UNCHANGED <<config_ro, inspector, format, format_consumed, drvs, mps, opt_pc, added>>

(* "cannot mix --ro and --rw options", when --ro comes first.               *)
OptRw ==
  /\ Parse([opt |-> "rw"])
  /\ opt_pc' = IF read_only THEN "exit" ELSE opt_pc
  /\ UNCHANGED <<flags, format, format_consumed, drvs, mps, added>>

(* A bad option: a URI that does not parse, a file one cannot read.         *)
OptBad ==
  /\ Parse([opt |-> "bad"])
  /\ opt_pc' = "exit"
  /\ UNCHANGED <<flags, format, format_consumed, drvs, mps, added>>

(* CHECK_OPTION_format_consumed, then add_drives.                           *)
EndOptions ==
  /\ opt_pc = "parsing"
  /\ opt_pc' = IF format_consumed THEN "adding" ELSE "exit"
  /\ adding' = Len(drvs)
  /\ UNCHANGED <<args, flags, format, format_consumed, drvs, mps, drive_index, disks>>

-----------------------------------------------------------------------------
(* add_drives_handle                                                        *)

(* The function returns a char, and its caller takes it for a size_t.       *)
AsChar(n) ==
  LET c == n % (UCHAR_MAX + 1)
  IN  IF c <= CHAR_MAX THEN c ELSE SIZE_MAX - (UCHAR_MAX - c)

Affected(d) == d.type \in {"a", "uri", "d"}     (* by --ro                   *)

NewDisks(d) ==
  [i \in 1 .. d.disks |->
     [arg |-> d.arg, format |-> d.format, readonly |-> read_only /\ Affected(d)]]

(* Mutated: the index of a guest advances by one.                           *)
AddDriveOne ==
  /\ opt_pc = "adding" /\ adding > 0
  /\ LET d == drvs[adding]
     IN  /\ drvs' = [drvs EXCEPT ![adding].drive_index = drive_index,
                                 ![adding].nr_drives = d.disks]
         /\ disks' = disks \o NewDisks(d)
         /\ drive_index' = AsChar(drive_index + 1)
  /\ adding' = adding - 1
  /\ UNCHANGED <<args, flags, format, format_consumed, mps, opt_pc>>

(* The recursion goes to the end of the list first, so that drives are      *)
(* added in the order of the command line.                                  *)
AddDrive ==
  /\ opt_pc = "adding" /\ adding > 0
  /\ LET d == drvs[adding]
     IN  /\ drvs' = [drvs EXCEPT ![adding].drive_index = drive_index,
                                 ![adding].nr_drives = d.disks]
         /\ disks' = disks \o NewDisks(d)
         /\ drive_index' = AsChar(drive_index + d.disks)
  /\ adding' = adding - 1
  /\ UNCHANGED <<args, flags, format, format_consumed, mps, opt_pc>>

(* guestfs_add_drive or guestfs_add_domain fails.                           *)
AddDriveFails ==
  /\ opt_pc = "adding" /\ adding > 0
  /\ opt_pc' = "exit"
  /\ UNCHANGED <<args, flags, format, format_consumed, drvs, mps, added>>

DrivesAdded ==
  /\ opt_pc = "adding" /\ adding = 0
  /\ opt_pc' = "added"
  /\ UNCHANGED <<args, flags, format, format_consumed, drvs, mps, added>>

OptionsNext ==
  \/ \E o \in DriveOptions : OptDrive(o)
  \/ \E f \in Formats \cup {NoFormat} : OptFormat(f)
  \/ \E m \in MountOptions : OptMount(m)
  \/ OptInspector \/ OptRo \/ OptRw \/ OptBad
  \/ EndOptions \/ AddDrive \/ AddDriveFails \/ DrivesAdded
=============================================================================
