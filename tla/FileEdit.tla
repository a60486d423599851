------------------------------ MODULE FileEdit ------------------------------
(***************************************************************************)
(* edit/file-edit.c: a file of the guest is downloaded to a temporary file *)
(* of the host, edited there by an interactive editor or a Perl            *)
(* expression, and put back under its name.  Every call of libguestfs may  *)
(* fail, the upload after writing a part of the file, and the program or   *)
(* the appliance may die between any two steps.                            *)
(***************************************************************************)
EXTENDS Naturals, FiniteSets

CONSTANTS
  Contents,     (* contents the editor can leave in the file                 *)
  Original,     (* the content of the file of the guest                      *)
  Partial,      (* the content of a file whose upload failed                 *)
  Size,         (* the size of each content                                  *)
  MaxClock      (* bound: seconds that pass during the edit                  *)

FileEditAssumption ==
  /\ Original \in Contents
  /\ Partial \notin Contents
  /\ Size \in [Contents -> Nat]
  /\ MaxClock \in Nat

ASSUME FileEditAssumption

(* The directory of the file: the file itself, the randomly named new file,  *)
(* the backup, and the name given by the user when that is a symbolic link.  *)
Names == {"file", "new", "backup", "link"}

Missing == [kind |-> "missing"]
Link    == [kind |-> "link"]       (* a symbolic link to "file"              *)
File(data, attrs) == [kind |-> "file", data |-> data, attrs |-> attrs]
OriginalFile == File(Original, "original")

VARIABLES
  editor,       (* "editor" or "perl": which of the two functions is called  *)
  backup,       (* backup_extension is not null                              *)
  fn,           (* the name the user gave: "file" or "link"                  *)
  target,       (* realpath of fn                                            *)
  fs,           (* what each name of the directory refers to                 *)
  tmp,          (* the host's temporary file: content and ctime              *)
  out,          (* Perl's output file exists                                 *)
  oldstat,      (* size and ctime before the edit                            *)
  clock,        (* the current second                                        *)
  edit_pc,
  ret           (* what the function returned                                *)

inputs == <<editor, backup, fn>>
fileEditVars == <<inputs, target, fs, tmp, out, oldstat, clock, edit_pc, ret>>

NoStat == [size |-> 0, ctime |-> 0]
NoTmp  == [kind |-> "missing"]
Tmp(data, ctime) == [kind |-> "file", data |-> data, ctime |-> ctime]

FileEditInit ==
  /\ editor \in {"editor", "perl"}
  /\ backup \in BOOLEAN
  /\ fn \in {"file", "link"}
  /\ target = "file"
  /\ fs = [n \in Names |-> CASE n = "file" -> OriginalFile
                             [] n = "link" /\ fn = "link" -> Link
                             [] OTHER -> Missing]
  /\ tmp = NoTmp
  /\ out = FALSE
  /\ oldstat = NoStat
  /\ clock = 0
  /\ edit_pc = "download"
  /\ ret = "none"

(* Mutated: the temporary file is not unlinked.                              *)
ReturnLeaks(value) ==
  /\ edit_pc' = "returned"
  /\ ret' = value
  /\ UNCHANGED tmp

(* Return runs CLEANUP_UNLINK_FREE on the temporary file, not on Perl's.     *)
Return(value) ==
  /\ edit_pc' = "returned"
  /\ ret' = value
  /\ tmp' = NoTmp

(* A call of libguestfs or libc fails and has no effect.                     *)
Fail(step) ==
  /\ edit_pc = step
  /\ Return("-1")
  /\ UNCHANGED <<inputs, target, fs, out, oldstat, clock>>

Tick ==
  /\ clock < MaxClock
  /\ clock' = clock + 1
  /\ UNCHANGED <<inputs, target, fs, tmp, out, oldstat, edit_pc, ret>>

-----------------------------------------------------------------------------
(* do_download: mkstemp and guestfs_download.                                *)
Download ==
  /\ edit_pc = "download"
  /\ tmp' = Tmp(Original, clock)
  /\ edit_pc' = IF editor = "editor" THEN "utime" ELSE "perl"
  /\ UNCHANGED <<inputs, target, fs, out, oldstat, clock, ret>>

(* stat, utime: the access and modification times go back by 5 seconds, the  *)
(* change time becomes the current time.                                     *)
Utime ==
  /\ edit_pc = "utime"
  /\ tmp' = Tmp(tmp.data, clock)
  /\ edit_pc' = "oldstat"
  /\ UNCHANGED <<inputs, target, fs, out, oldstat, clock, ret>>

GetOldStat ==
  /\ edit_pc = "oldstat"
  /\ oldstat' = [size |-> Size[tmp.data], ctime |-> tmp.ctime]
  /\ edit_pc' = "edit"
  /\ UNCHANGED <<inputs, target, fs, tmp, out, clock, ret>>

(* system (cmd): the editor exits, having saved some content or nothing.     *)
Edit ==
  /\ edit_pc = "edit"
  /\ \/ UNCHANGED tmp
     \/ \E c \in Contents : tmp' = Tmp(c, clock)
  /\ edit_pc' = "compare"
  /\ UNCHANGED <<inputs, target, fs, out, oldstat, clock, ret>>

(* Changed?  The change times and the sizes are compared.                    *)
Compare ==
  /\ edit_pc = "compare"
  /\ IF oldstat = [size |-> Size[tmp.data], ctime |-> tmp.ctime]
     THEN Return("1")
     ELSE edit_pc' = "realpath" /\ UNCHANGED <<ret, tmp>>
  /\ UNCHANGED <<inputs, target, fs, out, oldstat, clock>>

(* Perl reads the temporary file and writes its output to another file.      *)
Perl ==
  /\ edit_pc = "perl"
  /\ out' = TRUE
  /\ edit_pc' = "rename"
  /\ UNCHANGED <<inputs, target, fs, tmp, oldstat, clock, ret>>

(* Perl dies: its output file, which the shell created, stays.               *)
PerlFails ==
  /\ edit_pc = "perl"
  /\ out' = TRUE
  /\ Return("-1")
  /\ UNCHANGED <<inputs, target, fs, oldstat, clock>>

Rename ==
  /\ edit_pc = "rename"
  /\ out' = FALSE
  /\ \E c \in Contents : tmp' = Tmp(c, clock)
  /\ edit_pc' = "realpath"
  /\ UNCHANGED <<inputs, target, fs, oldstat, clock, ret>>

-----------------------------------------------------------------------------
(* do_upload                                                                *)

(* Mutated: the name given by the user is not resolved.                      *)
RealpathSkipped ==
  /\ edit_pc = "realpath"
  /\ target' = fn
  /\ edit_pc' = "upload"
  /\ UNCHANGED <<inputs, fs, tmp, out, oldstat, clock, ret>>

Realpath ==
  /\ edit_pc = "realpath"
  /\ target' = IF fs[fn] = Link THEN "file" ELSE fn
  /\ edit_pc' = "upload"
  /\ UNCHANGED <<inputs, fs, tmp, out, oldstat, clock, ret>>

(* guestfs_upload to the random name: complete, or cut short by a failure.   *)
Upload ==
  /\ edit_pc = "upload"
  /\ fs' = [fs EXCEPT !["new"] = File(tmp.data, "default")]
  /\ edit_pc' = "attributes"
  /\ UNCHANGED <<inputs, target, tmp, out, oldstat, clock, ret>>

(* Mutated: the content is written over the file itself.                     *)
UploadFailsInPlace ==
  /\ edit_pc = "upload"
  /\ fs' = [fs EXCEPT !["file"] = File(Partial, "original")]
  /\ Return("-1")
  /\ UNCHANGED <<inputs, target, out, oldstat, clock>>

UploadFails ==
  /\ edit_pc = "upload"
  /\ fs' = [fs EXCEPT !["new"] = File(Partial, "default")]
  /\ Return("-1")
  /\ UNCHANGED <<inputs, target, out, oldstat, clock>>

(* Mutated: the attributes are not copied.                                   *)
CopyAttributesSkipped ==
  /\ edit_pc = "attributes"
  /\ edit_pc' = IF backup THEN "backup" ELSE "replace"
  /\ UNCHANGED <<inputs, target, fs, tmp, out, oldstat, clock, ret>>

(* guestfs_copy_attributes (filename, newname): mode, owner, xattrs of the   *)
(* file, or of the file a link refers to.                                    *)
CopyAttributes ==
  /\ edit_pc = "attributes"
  /\ fs' = [fs EXCEPT !["new"] = File(fs["new"].data, fs["file"].attrs)]
  /\ edit_pc' = IF backup THEN "backup" ELSE "replace"
  /\ UNCHANGED <<inputs, target, tmp, out, oldstat, clock, ret>>

(* guestfs_mv (filename, backupname)                                         *)
Backup ==
  /\ edit_pc = "backup"
  /\ fs' = [fs EXCEPT !["backup"] = fs[target], ![target] = Missing]
  /\ edit_pc' = "replace"
  /\ UNCHANGED <<inputs, target, tmp, out, oldstat, clock, ret>>

(* Mutated: the new file is copied instead of renamed.                       *)
ReplaceCopies ==
  /\ edit_pc = "replace"
  /\ fs' = [fs EXCEPT ![target] = fs["new"]]
  /\ Return("0")
  /\ UNCHANGED <<inputs, target, out, oldstat, clock>>

(* guestfs_mv (newname, filename)                                            *)
Replace ==
  /\ edit_pc = "replace"
  /\ fs' = [fs EXCEPT ![target] = fs["new"], !["new"] = Missing]
  /\ Return("0")
  /\ UNCHANGED <<inputs, target, out, oldstat, clock>>

(* The program is killed, or the machine stops: nothing is cleaned up.       *)
Crash ==
  /\ edit_pc \notin {"returned", "crashed"}
  /\ edit_pc' = "crashed"
  /\ UNCHANGED <<inputs, target, fs, tmp, out, oldstat, clock, ret>>

(* The calls that can fail without an effect.                                *)
Fallible == {"download", "utime", "oldstat", "edit", "compare", "rename",
             "realpath", "upload", "attributes", "backup", "replace"}

FileEditNext ==
  \/ Tick
  \/ Download \/ Utime \/ GetOldStat \/ Edit \/ Compare
  \/ Perl \/ PerlFails \/ Rename
  \/ Realpath \/ Upload \/ UploadFails \/ CopyAttributes \/ Backup \/ Replace
  \/ \E step \in Fallible : Fail(step)
  \/ Crash

FileEditSpec == FileEditInit /\ [][FileEditNext]_fileEditVars

-----------------------------------------------------------------------------
(* Properties                                                               *)

AllContents == Contents \cup {Partial}
Files == {Missing, Link} \cup
         {File(d, a) : d \in AllContents, a \in {"default", "original"}}

Temporaries(now) == {NoTmp} \cup {Tmp(d, c) : d \in Contents, c \in 0 .. now}

(* Types; the temporary file of the host is gone once the function returns.  *)
FileEditTypeOK ==
  /\ editor \in {"editor", "perl"} /\ backup \in BOOLEAN /\ fn \in {"file", "link"}
  /\ target \in {"file", "link"}
  /\ fs \in [Names -> Files]
  /\ fs["new"] # Link
  /\ tmp \in Temporaries(clock)
  /\ out \in BOOLEAN
  /\ oldstat \in [size : Nat, ctime : Nat]
  /\ clock \in 0 .. MaxClock
  /\ edit_pc \in Fallible \cup {"perl", "returned", "crashed"}
  /\ ret \in {"none", "-1", "0", "1"}
  /\ edit_pc = "returned" => tmp = NoTmp

(* "Upload to a new file in the same directory, so if it fails we don't end  *)
(* up with a partially written file" (file-edit.c:269): at every moment of   *)
(* the edit, whatever failed, the file is complete and has the permissions,  *)
(* owner and SELinux label of the original, or it is missing, which happens  *)
(* only between the two renames and with the original in the backup.         *)
FileWhole ==
  \/ fs["file"].kind = "file" /\ fs["file"].data # Partial /\ fs["file"].attrs = "original"
  \/ fs["file"] = Missing /\ backup /\ fs["backup"] = OriginalFile

(* A symbolic link given by the user stays one (file-edit.c:258).            *)
LinkKept == fn = "link" => fs["link"] = Link

(* What a failed edit leaves is what there was, or the backup.               *)
FileIntact == FileWhole /\ LinkKept

(* Success means that the file is there, that the backup asked for is the    *)
(* original and that no other file is left behind (what the file holds then  *)
(* is ReplacedOnce).                                                         *)
SuccessMeansReplaced ==
  ret = "0" =>
    /\ fs["file"].kind = "file" /\ fs["new"] = Missing
    /\ fs["backup"] = IF backup THEN OriginalFile ELSE Missing

(* The file changes in one step, from the original to the edited content     *)
(* that is in the temporary file at that moment, and never again.            *)
ReplacedOnce ==
  [][fs'["file"] # fs["file"] =>
       \/ fs["file"] = OriginalFile /\ fs'["file"] = Missing /\ backup
       \/ fs["file"] \in {OriginalFile, Missing} /\ fs'["file"] = File(tmp.data, "original")]_fileEditVars

(* "1 if the editor did not change the file" (file-edit.c:66).               *)
UnchangedMeansUnchanged ==
  [][ret' = "1" /\ ret # "1" => tmp.data = Original]_fileEditVars
=============================================================================
