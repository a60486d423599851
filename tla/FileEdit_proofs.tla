--------------------------- MODULE FileEdit_proofs ---------------------------
(***************************************************************************)
(* Theorems about file-edit.c, for any set of contents and any time the    *)
(* edit may take.                                                          *)
(***************************************************************************)
EXTENDS FileEdit, TLAPS

Uploading == {"upload", "attributes", "backup", "replace"}

(* The directory at each step of the edit.                                   *)
StageInv ==
  /\ fn = "link" => fs["link"] = Link
  /\ fs["file"] # Link
  /\ edit_pc \in Uploading => target = "file"
  /\ edit_pc \in (Fallible \cup {"perl"}) \ {"replace"} =>
       fs["file"] = OriginalFile /\ fs["backup"] = Missing
  /\ edit_pc \in Fallible \ {"download"} => tmp.kind = "file"
  /\ edit_pc = "perl" => tmp.kind = "file"
  /\ edit_pc = "attributes" => fs["new"] = File(tmp.data, "default")
  /\ edit_pc \in {"backup", "replace"} => fs["new"] = File(tmp.data, "original")
  /\ edit_pc = "replace" => IF backup
                       THEN fs["file"] = Missing /\ fs["backup"] = OriginalFile
                       ELSE fs["file"] = OriginalFile /\ fs["backup"] = Missing
  /\ edit_pc = "backup" => backup
  /\ ret = "none" <=> edit_pc # "returned"

IInv ==
  /\ FileEditTypeOK
  /\ FileWhole
  /\ StageInv
  /\ SuccessMeansReplaced

(* The three kinds of directory entry are different.                         *)
LEMMA Kinds ==
  /\ Missing.kind = "missing" /\ Link.kind = "link"
  /\ \A d, a : File(d, a).kind = "file" /\ File(d, a).data = d /\ File(d, a).attrs = a
  /\ Missing # Link
  /\ \A d, a : File(d, a) # Missing /\ File(d, a) # Link
<1>1. /\ Missing.kind = "missing" /\ Link.kind = "link"
      /\ \A d, a : File(d, a).kind = "file" /\ File(d, a).data = d /\ File(d, a).attrs = a
  BY DEF Missing, Link, File
<1>2. QED
  BY <1>1

LEMMA FilesMembers ==
  /\ Missing \in Files /\ Link \in Files /\ OriginalFile \in Files
  /\ \A d \in Contents : File(d, "default") \in Files /\ File(d, "original") \in Files
  /\ File(Partial, "default") \in Files
BY FileEditAssumption DEF FileEditAssumption, OriginalFile, Files, AllContents

(* The temporary file, when it exists, has a content and a change time.      *)
LEMMA TmpMembers ==
  /\ NoTmp.kind # "file"
  /\ \A d, c : Tmp(d, c).kind = "file" /\ Tmp(d, c).data = d /\ Tmp(d, c).ctime = c
  /\ \A d, c : Tmp(d, c) # NoTmp
<1>1. /\ NoTmp.kind # "file"
      /\ \A d, c : Tmp(d, c).kind = "file" /\ Tmp(d, c).data = d /\ Tmp(d, c).ctime = c
  BY DEF NoTmp, Tmp
<1>2. QED
  BY <1>1

LEMMA Temps ==
  ASSUME NEW now \in Nat
  PROVE  /\ NoTmp \in Temporaries(now)
         /\ \A d \in Contents : Tmp(d, now) \in Temporaries(now)
         /\ Temporaries(now) \subseteq Temporaries(now + 1)
<1>1. now \in 0 .. now /\ 0 .. now \subseteq 0 .. now + 1
  OBVIOUS
<1>2. QED
  BY <1>1 DEF Temporaries

LEMMA TmpType ==
  ASSUME FileEditTypeOK, tmp.kind = "file"
  PROVE  tmp.data \in Contents /\ tmp.ctime \in 0 .. clock /\ Size[tmp.data] \in Nat
<1>1. PICK d \in Contents, c \in 0 .. clock : tmp = Tmp(d, c)
  BY TmpMembers DEF FileEditTypeOK, Temporaries
<1>2. QED
  BY <1>1, TmpMembers, FileEditAssumption DEF FileEditAssumption

LEMMA InitIInv == FileEditInit => IInv
<1> SUFFICES ASSUME FileEditInit PROVE IInv
  OBVIOUS
<1> USE Kinds, FilesMembers, FileEditAssumption DEF FileEditAssumption, FileEditInit, Names
<1>1. /\ fs \in [Names -> Files]
      /\ fs["file"] = OriginalFile /\ fs["backup"] = Missing /\ fs["new"] = Missing
      /\ fn = "link" => fs["link"] = Link
  OBVIOUS
<1>2. /\ OriginalFile.kind = "file" /\ OriginalFile.data # Partial
      /\ OriginalFile.attrs = "original" /\ OriginalFile # Link
  BY DEF OriginalFile
<1>3. oldstat \in [size : Nat, ctime : Nat]
  BY DEF NoStat
<1>4. FileEditTypeOK
  <2>1. 0 \in Nat /\ clock = 0
    OBVIOUS
  <2>2. tmp \in Temporaries(clock)
    BY <2>1, Temps
  <2>3. clock \in 0 .. MaxClock
    OBVIOUS
  <2>4. QED
    BY <1>1, <1>3, <2>2, <2>3 DEF FileEditTypeOK, Fallible
<1>5. FileWhole /\ SuccessMeansReplaced /\ StageInv
  BY <1>1, <1>2 DEF FileWhole, SuccessMeansReplaced, StageInv, Uploading, Fallible
<1>6. QED
  BY <1>4, <1>5 DEF IInv

(* Every step preserves the types.                                           *)
LEMMA TypeStep == IInv /\ [FileEditNext]_fileEditVars => FileEditTypeOK'
<1> SUFFICES ASSUME IInv, [FileEditNext]_fileEditVars PROVE FileEditTypeOK'
  OBVIOUS
<1> USE FileEditAssumption, Kinds, FilesMembers, Temps
    DEF FileEditAssumption, IInv, FileEditTypeOK, inputs, Names, Fallible, Return
<1>1. CASE Tick
  BY <1>1 DEF Tick
<1>2. CASE Download
  BY <1>2 DEF Download
<1>3. CASE Utime
  <2>1. tmp.kind = "file"
    BY <1>3 DEF Utime, StageInv
  <2>2. tmp.data \in Contents /\ tmp.ctime \in 0 .. clock /\ Size[tmp.data] \in Nat
    BY <2>1, TmpType
  <2>3. QED
    BY <1>3, <2>2 DEF Utime
<1>4. CASE GetOldStat
  <2>1. tmp.kind = "file"
    BY <1>4 DEF GetOldStat, StageInv
  <2>2. tmp.data \in Contents /\ tmp.ctime \in 0 .. clock /\ Size[tmp.data] \in Nat
    BY <2>1, TmpType
  <2>3. QED
    BY <1>4, <2>2 DEF GetOldStat
<1>5. CASE Edit
  BY <1>5 DEF Edit
<1>6. CASE Compare
  BY <1>6 DEF Compare
<1>7. CASE Perl
  BY <1>7 DEF Perl
<1>8. CASE PerlFails
  BY <1>8 DEF PerlFails
<1>9. CASE Rename
  <2>1. clock \in Nat /\ clock' = clock
    BY <1>9 DEF Rename
  <2>2. PICK c \in Contents : tmp' = Tmp(c, clock)
    BY <1>9 DEF Rename
  <2>3. tmp' \in Temporaries(clock')
    BY <2>1, <2>2, Temps
  <2>4. QED
    BY <1>9, <2>1, <2>3 DEF Rename
<1>10. CASE Realpath
  BY <1>10 DEF Realpath
<1>11. CASE Upload
  <2>1. tmp.kind = "file"
    BY <1>11 DEF Upload, StageInv
  <2>2. tmp.data \in Contents /\ tmp.ctime \in 0 .. clock /\ Size[tmp.data] \in Nat
    BY <2>1, TmpType
  <2>3. QED
    BY <1>11, <2>2 DEF Upload
<1>12. CASE UploadFails
  BY <1>12 DEF UploadFails
<1>13. CASE CopyAttributes
  <2>1. tmp.data \in Contents
    BY <1>13, TmpType DEF CopyAttributes, StageInv
  <2>2. fs["new"] = File(tmp.data, "default") /\ fs["file"] = OriginalFile
    BY <1>13 DEF CopyAttributes, StageInv
  <2>3. fs["new"].data = tmp.data /\ fs["file"].attrs = "original"
    BY <2>2 DEF OriginalFile
  <2>4. fs' = [fs EXCEPT !["new"] = File(tmp.data, "original")]
    BY <1>13, <2>3 DEF CopyAttributes
  <2>5. QED
    BY <1>13, <2>1, <2>4 DEF CopyAttributes
<1>14. CASE Backup
  <2>1. target = "file" /\ fs["file"] \in Files
    BY <1>14 DEF Backup, StageInv, Uploading
  <2>2. QED
    BY <1>14, <2>1 DEF Backup
<1>15. CASE Replace
  <2>1. target = "file" /\ fs["new"] \in Files
    BY <1>15 DEF Replace, StageInv, Uploading
  <2>2. QED
    BY <1>15, <2>1 DEF Replace
<1>16. ASSUME NEW step \in Fallible, Fail(step) PROVE FileEditTypeOK'
  BY <1>16 DEF Fail
<1>17. CASE Crash
  BY <1>17 DEF Crash
<1>18. CASE UNCHANGED fileEditVars
  BY <1>18 DEF fileEditVars
<1>19. QED
  BY <1>1, <1>2, <1>3, <1>4, <1>5, <1>6, <1>7, <1>8, <1>9, <1>10, <1>11, <1>12,
     <1>13, <1>14, <1>15, <1>16, <1>17, <1>18 DEF FileEditNext

(* Every step preserves what the directory looks like at each stage.         *)
LEMMA StageStep == IInv /\ [FileEditNext]_fileEditVars => (FileWhole /\ StageInv /\ SuccessMeansReplaced)'
<1> DEFINE Goal == FileWhole /\ StageInv /\ SuccessMeansReplaced
<1> SUFFICES ASSUME IInv, [FileEditNext]_fileEditVars PROVE Goal'
  OBVIOUS
<1> USE FileEditAssumption, Kinds, TmpMembers
    DEF FileEditAssumption, IInv, FileEditTypeOK, FileWhole, StageInv, SuccessMeansReplaced,
        inputs, Names, Uploading, Fallible, Return
<1>1. CASE Tick
  BY <1>1 DEF Tick
<1>2. CASE Download
  BY <1>2 DEF Download
<1>3. CASE Utime
  BY <1>3 DEF Utime
<1>4. CASE GetOldStat
  BY <1>4 DEF GetOldStat
<1>5. CASE Edit
  BY <1>5 DEF Edit
<1>6. CASE Compare
  BY <1>6 DEF Compare
<1>7. CASE Perl
  BY <1>7 DEF Perl
<1>8. CASE PerlFails
  BY <1>8 DEF PerlFails
<1>9. CASE Rename
  BY <1>9 DEF Rename
<1>10. CASE Realpath
  BY <1>10 DEF Realpath
<1>11. CASE Upload
  <2>1. fs'["new"] = File(tmp.data, "default") /\ \A n \in Names \ {"new"} : fs'[n] = fs[n]
    BY <1>11 DEF Upload
  <2>2. QED
    BY <1>11, <2>1 DEF Upload
<1>12. CASE UploadFails
  <2>1. fs'["new"] = File(Partial, "default") /\ \A n \in Names \ {"new"} : fs'[n] = fs[n]
    BY <1>12 DEF UploadFails
  <2>2. QED
    BY <1>12, <2>1 DEF UploadFails
<1>13. CASE CopyAttributes
  <2>1. tmp.data \in Contents
    BY <1>13, TmpType DEF CopyAttributes
  <2>2. fs["new"] = File(tmp.data, "default") /\ fs["file"] = OriginalFile
    BY <1>13 DEF CopyAttributes
  <2>3. fs["new"].data = tmp.data /\ fs["file"].attrs = "original"
    BY <2>2 DEF OriginalFile
  <2>4. fs' = [fs EXCEPT !["new"] = File(tmp.data, "original")]
    BY <1>13, <2>3 DEF CopyAttributes
  <2>5. /\ fs'["new"] = File(tmp.data, "original")
        /\ \A n \in Names \ {"new"} : fs'[n] = fs[n]
    BY <2>4
  <2>6. QED
    BY <1>13, <2>5 DEF CopyAttributes
<1>14. CASE Backup
  <2>1. target = "file" /\ backup
    BY <1>14 DEF Backup
  <2>2. /\ fs'["file"] = Missing /\ fs'["backup"] = OriginalFile
        /\ fs'["new"] = fs["new"] /\ fs'["link"] = fs["link"]
    BY <1>14, <2>1 DEF Backup
  <2>3. QED
    BY <1>14, <2>1, <2>2 DEF Backup
<1>15. CASE Replace
  <2>1. target = "file" /\ fs["new"] = File(tmp.data, "original") /\ tmp.data \in Contents
    BY <1>15, TmpType DEF Replace
  <2>2. /\ fs'["file"] = File(tmp.data, "original") /\ fs'["new"] = Missing
        /\ fs'["backup"] = fs["backup"] /\ fs'["link"] = fs["link"]
    BY <1>15, <2>1 DEF Replace
  <2>3. QED
    BY <1>15, <2>1, <2>2 DEF Replace
<1>16. ASSUME NEW step \in Fallible, Fail(step) PROVE Goal'
  BY <1>16 DEF Fail
<1>17. CASE Crash
  BY <1>17 DEF Crash
<1>18. CASE UNCHANGED fileEditVars
  BY <1>18 DEF fileEditVars
<1>19. QED
  BY <1>1, <1>2, <1>3, <1>4, <1>5, <1>6, <1>7, <1>8, <1>9, <1>10, <1>11, <1>12,
     <1>13, <1>14, <1>15, <1>16, <1>17, <1>18 DEF FileEditNext

THEOREM Invariance == FileEditSpec => []IInv
<1>1. IInv /\ [FileEditNext]_fileEditVars => IInv'
  BY TypeStep, StageStep DEF IInv
<1>2. QED
  BY InitIInv, <1>1, PTL DEF FileEditSpec

(* The variables of file-edit.c keep their types, and the temporary file of  *)
(* the host does not outlive the call.                                       *)
THEOREM TypeCorrect == FileEditSpec => []FileEditTypeOK
<1>1. IInv => FileEditTypeOK
  BY DEF IInv
<1>2. QED
  BY <1>1, Invariance, PTL

(* Whatever call fails, and whenever the program dies, the guest's file is   *)
(* complete and has its attributes, or the backup is the original; and a      *)
(* symbolic link given as the file name is never replaced by a file.         *)
THEOREM FileNeverPartial == FileEditSpec => []FileIntact
<1>1. IInv => FileWhole
  BY DEF IInv
<1>2. IInv => LinkKept
  BY DEF IInv, StageInv, LinkKept
<1>3. QED
  BY <1>1, <1>2, Invariance, PTL DEF FileIntact

(* A 0 from the functions means the new content is in place, with the backup *)
(* asked for and no stray file.                                              *)
THEOREM SuccessCorrect == FileEditSpec => []SuccessMeansReplaced
<1>1. IInv => SuccessMeansReplaced
  BY DEF IInv
<1>2. QED
  BY <1>1, Invariance, PTL

(* The guest's file is only touched by the two renames: once moved to its    *)
(* backup if one was asked for, and once replaced by exactly what the        *)
(* temporary file holds.                                                     *)
THEOREM ReplacedCorrect == FileEditSpec => ReplacedOnce
<1> DEFINE Replaced ==
             fs'["file"] # fs["file"] =>
               \/ fs["file"] = OriginalFile /\ fs'["file"] = Missing /\ backup
               \/ fs["file"] \in {OriginalFile, Missing} /\ fs'["file"] = File(tmp.data, "original")
<1>1. ASSUME IInv, FileEditNext PROVE Replaced
  <2> USE <1>1 DEF IInv, FileEditTypeOK, StageInv, Names, Uploading, Fallible
  <2>1. CASE Upload \/ UploadFails \/ CopyAttributes
    BY <2>1 DEF Upload, UploadFails, CopyAttributes
  <2>2. CASE Backup
    BY <2>2 DEF Backup
  <2>3. CASE Replace
    <3>1. fs["new"] = File(tmp.data, "original") /\ target = "file"
      BY <2>3 DEF Replace
    <3>2. fs'["file"] = File(tmp.data, "original") /\ fs["file"] \in {OriginalFile, Missing}
      BY <2>3, <3>1 DEF Replace
    <3>3. QED
      BY <3>2
  <2>4. CASE \/ Tick \/ Download \/ Utime \/ GetOldStat \/ Edit \/ Compare
             \/ Perl \/ PerlFails \/ Rename \/ Realpath \/ Crash
             \/ \E step \in Fallible : Fail(step)
    BY <2>4 DEF Tick, Download, Utime, GetOldStat, Edit, Compare, Perl, PerlFails, Rename, Realpath,
       Crash, Fail
  <2>5. QED
    BY <2>1, <2>2, <2>3, <2>4 DEF FileEditNext
<1>2. IInv /\ [FileEditNext]_fileEditVars => [Replaced]_fileEditVars
  BY <1>1
<1>3. QED
  BY <1>2, Invariance, PTL DEF FileEditSpec, ReplacedOnce
=============================================================================
