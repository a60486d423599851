----------------------------- MODULE WindowsPath -----------------------------
(***************************************************************************)
(* windows/windows.c: a path as Windows writes it, perhaps with a drive    *)
(* letter, becomes the path of a file in the guest, with the drive mounted *)
(* on the root directory.                                                  *)
(*                                                                         *)
(* A path is abstracted to its drive letter, if it has one, and a sequence *)
(* of names and separators.  Letters stand for both of their cases.        *)
(***************************************************************************)
EXTENDS Appliance, Naturals, Sequences

CONSTANTS
  NoLetter,        (* of a path without a drive letter                       *)
  SameName(_, _)   (* two names differ in the case of their letters at most  *)

VARIABLES
  type,        (* inspect_get_type root, or "" when that fails               *)
  mappings,    (* inspect_get_drive_mappings: [letter, long, device]         *)
  win_pc,      (* "idle", "letter", "umount", "mount", "case", "done",       *)
               (* "null" when windows_path returns NULL, or "exit"           *)
  asked_path,  (* the argument path: [letter, rest]                          *)
  asked_ro,    (* the argument readonly                                      *)
  found,       (* the device of the drive letter                             *)
  result       (* the path that windows_path returns                         *)

inspected   == <<type, mappings>>
windowsVars == <<inspected, win_pc, asked_path, asked_ro, found, result>>

WindowsInit ==
  /\ win_pc = "idle" /\ asked_path = [letter |-> NoLetter, rest |-> <<>>] /\ asked_ro = FALSE
  /\ found = NoDevice /\ result = <<>>

is_windows == type = "windows"

(* The program calls windows_path.                                          *)
WindowsPath(path, ro) ==
  /\ win_pc = "idle"
  /\ asked_path' = path /\ asked_ro' = ro
  /\ win_pc' = IF path.letter # NoLetter THEN "letter" ELSE "case"
  /\ UNCHANGED <<inspected, appliance, found, result>>

-----------------------------------------------------------------------------
(* mount_drive_letter                                                       *)

(* Mutated: the mapping's name need only begin with the letter.             *)
FindDriveByPrefix ==
  /\ win_pc = "letter"
  /\ LET fits == {i \in DOMAIN mappings : mappings[i].letter = asked_path.letter}
     IN  \E i \in fits :
           /\ \A j \in fits : i <= j
           /\ found' = mappings[i].device
  /\ win_pc' = "umount"
  /\ UNCHANGED <<inspected, appliance, asked_path, asked_ro, result>>

(* The first entry of the table whose name is just the letter.              *)
FindDrive ==
  /\ win_pc = "letter"
  /\ LET fits == {i \in DOMAIN mappings : mappings[i].letter = asked_path.letter /\ ~mappings[i].long}
     IN  \E i \in fits :
           /\ \A j \in fits : i <= j
           /\ found' = mappings[i].device
  /\ win_pc' = "umount"
  /\ UNCHANGED <<inspected, appliance, asked_path, asked_ro, result>>

(* "this must be a Windows guest": the appliance gives no table.  Or "drive  *)
(* not found".                                                              *)
FindDriveFails ==
  /\ win_pc = "letter"
  /\ win_pc' = "exit"
  /\ UNCHANGED <<inspected, appliance, asked_path, asked_ro, found, result>>

UmountAll ==
  /\ win_pc = "umount"
  /\ device' = NoDevice
  /\ win_pc' = "mount"
  /\ UNCHANGED <<inspected, fs, readonly, asked_path, asked_ro, found, result>>

MountDrive ==
  /\ win_pc = "mount"
  /\ device' = found /\ readonly' = asked_ro
  /\ win_pc' = "case"
  /\ UNCHANGED <<inspected, fs, asked_path, asked_ro, found, result>>

(* Either fails, and the program exits.                                     *)
MountFails ==
  /\ win_pc \in {"umount", "mount"}
  /\ win_pc' = "exit"
  /\ UNCHANGED <<inspected, appliance, asked_path, asked_ro, found, result>>

-----------------------------------------------------------------------------
(* The rest of windows_path                                                 *)

(* The path without its drive letter; the empty path is the root.           *)
Rest == IF asked_path.letter = NoLetter /\ asked_path.rest = <<>> THEN <<"/">> ELSE asked_path.rest

Forward(path) == [i \in DOMAIN path |-> IF path[i] = "\\" THEN "/" ELSE path[i]]

(* The names between the separators.                                        *)
Components(path, separators) ==
  LET names[n \in 0 .. Len(path)] ==
        IF n = 0 THEN <<>>
        ELSE IF path[n] \in separators THEN names[n - 1]
        ELSE Append(names[n - 1], path[n])
  IN  names[Len(path)]

(* case_sensitive_path: the paths that differ from this one in case only.   *)
CaseSensitive(path) ==
  LET names == Components(path, {"/"})
  IN  {p \in DOMAIN tree : /\ path # <<>> /\ path[1] = "/"
                           /\ Len(p) = Len(names)
                           /\ \A i \in DOMAIN p : SameName(p[i], names[i])}

(* If there are several, libguestfs takes one of them.                      *)
FindCase ==
  /\ win_pc = "case"
  /\ result' \in CaseSensitive(Forward(Rest))
  /\ win_pc' = "done"
  /\ UNCHANGED <<inspected, appliance, asked_path, asked_ro, found>>

(* The path does not start with a slash or there is no such file.           *)
FindCaseFails ==
  /\ win_pc = "case"
  /\ win_pc' = "null"
  /\ UNCHANGED <<inspected, appliance, asked_path, asked_ro, found, result>>

WindowsNext ==
  \/ FindDrive \/ FindDriveFails \/ UmountAll \/ MountDrive \/ MountFails
  \/ FindCase \/ FindCaseFails

-----------------------------------------------------------------------------
(* Properties                                                               *)

(* The drive with the letter is mounted.                                     *)
DriveAsAsked ==
  win_pc \in {"case", "done", "null"} /\ asked_path.letter # NoLetter =>
    /\ readonly = asked_ro
    /\ \E i \in DOMAIN mappings :
         /\ mappings[i].letter = asked_path.letter /\ ~mappings[i].long
         /\ mappings[i].device = device

(* "Resolves path as possible Windows path according to root, giving a new   *)
(* path that can be used in libguestfs API calls" (windows.c:62): the drive   *)
(* that is mounted in the end is the one whose letter was asked for, it is    *)
(* mounted as asked, and the path is that of a file on it which Windows would *)
(* have taken for the same.  When there is no such file, the drive is mounted *)
(* none the less.                                                           *)
FileAsAsked ==
  /\ DriveAsAsked
  /\ win_pc = "done" =>
       LET names == Components(asked_path.rest, {"/", "\\"})
       IN  /\ Len(result) = Len(names)
           /\ \A i \in DOMAIN result : SameName(result[i], names[i])
=============================================================================
