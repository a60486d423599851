--------------------------- MODULE Session_proofs ---------------------------
(***************************************************************************)
(* Theorems about the command line and the mounts of a tool, for any       *)
(* options, any guest and any number of each.                              *)
(***************************************************************************)
EXTENDS Session, FiniteSetTheorems, WellFoundedInduction, TLAPS

Args ==
  [opt : {"drive"}, drive : DriveOptions]
    \cup [opt : {"format"}, format : Formats \cup {NoFormat}]
    \cup [opt : {"m"}, mount : MountOptions]
    \cup [opt : {"i", "ro", "rw", "bad", "key"}]

Drvs == [type : DriveTypes, arg : Nat, format : Formats \cup {NoFormat},
         disks : Nat \ {0}, drive_index : Nat, nr_drives : Nat]

Disks == [arg : Nat, format : Formats \cup {NoFormat}, readonly : BOOLEAN]

Keys == {[s EXCEPT !.id = Unescape(@)] : s \in Selectors}

Mounted == [by : {"i", "m"},
            mountpoint : Paths \cup {m.mountpoint : m \in MountOptions},
            options : {"ro", ""} \cup {m.options : m \in MountOptions}]

OptTypes ==
  /\ args \in Seq(Args) /\ drvs \in Seq(Drvs) /\ mps \in Seq(MountOptions)
  /\ disks \in Seq(Disks)
  /\ format \in Formats \cup {NoFormat}
  /\ adding \in 0 .. Len(drvs) /\ drive_index \in Nat
  /\ opt_pc \in {"parsing", "adding", "added", "exit"}
  /\ Len(drvs) <= Len(args) /\ Len(mps) <= Len(args)

Bools ==
  /\ config_ro \in BOOLEAN /\ read_only \in BOOLEAN /\ inspector \in BOOLEAN
  /\ format_consumed \in BOOLEAN /\ launched \in BOOLEAN

DecTypes ==
  /\ selectors \in Seq(Selectors) /\ ks \in Seq(Keys) /\ Len(ks) = Len(selectors)
  /\ dec_pc \in {"idle", "partitions", "lvm", "lvs", "done", "exit", "nokey"}

MntTypes ==
  /\ ins_pc \in {"idle", "inspecting", "mounting", "done", "exit"}
  /\ mp_pc \in {"idle", "mounting", "done", "exit"}
  /\ mounting \in 0 .. Len(mps)
  /\ table \subseteq Paths /\ mount_errors \subseteq Paths \ {Root}
  /\ mounts \in Seq(Mounted)

Types == OptTypes /\ Bools /\ DecTypes /\ MntTypes

(* The order in which the parts of the tool run.                             *)
Phases ==
  /\ launched => opt_pc = "added"
  /\ dec_pc # "idle" => launched /\ inspector
  /\ ins_pc # "idle" => dec_pc = "done"
  /\ mp_pc # "idle" => launched /\ ins_pc = (IF inspector THEN "done" ELSE "idle")
  /\ mp_pc = "idle" /\ ins_pc \in {"idle", "inspecting"} => mounts = <<>>

(* While -i mounts, no path that is left is shorter than one it has mounted. *)
MountInv ==
  /\ ins_pc = "mounting" =>
       /\ \A i \in DOMAIN mounts :
            /\ mounts[i].mountpoint \in Paths
            /\ \A q \in table : StrLen[mounts[i].mountpoint] <= StrLen[q]
       /\ mounts = <<>> => Root \in table
       /\ mounts # <<>> => mounts[1].mountpoint = Root
  /\ NothingHidden

(* The disks of the drive at position k of the list ds follow each other.     *)
Placed(ds, hs, k, first) ==
  /\ {p \in DOMAIN hs : hs[p].arg < ds[k].arg} = 1 .. first
  /\ {p \in DOMAIN hs : hs[p].arg = ds[k].arg} = (first + 1) .. (first + ds[k].nr_drives)
  /\ first <= CHAR_MAX => ds[k].drive_index = first

(* The list is in reverse order of the command line, and the disks added so  *)
(* far are those of its end.                                                 *)
DriveInv ==
  /\ \A k \in DOMAIN drvs : drvs[k].arg \in 1 .. Len(args)
  /\ \A k, l \in DOMAIN drvs : k < l => drvs[l].arg < drvs[k].arg
  /\ opt_pc = "parsing" => disks = <<>> /\ drive_index = 0
  /\ opt_pc = "adding" /\ Len(disks) <= CHAR_MAX => drive_index = Len(disks)
  /\ opt_pc \in {"adding", "added"} =>
       /\ \A p \in DOMAIN disks :
            \E k \in (adding + 1) .. Len(drvs) : disks[p].arg = drvs[k].arg
       /\ \A k \in (adding + 1) .. Len(drvs) : \E first \in Nat : Placed(drvs, disks, k, first)

IInv == Types /\ Phases /\ MountInv /\ DriveInv

-----------------------------------------------------------------------------
(* An index that fits into a char survives its return.                       *)
LEMMA CharKeeps ==
  ASSUME NEW n \in Nat
  PROVE  /\ AsChar(n) \in Nat
         /\ n <= CHAR_MAX => AsChar(n) = n
<1> DEFINE c == n % (UCHAR_MAX + 1)
<1>1. c \in 0 .. UCHAR_MAX /\ (n <= UCHAR_MAX => c = n)
  BY OptionsAssumption DEF OptionsAssumption
<1> HIDE DEF c
<1>2. (IF c <= CHAR_MAX THEN c ELSE SIZE_MAX - (UCHAR_MAX - c)) \in Nat
  BY <1>1, OptionsAssumption DEF OptionsAssumption
<1>3. n <= CHAR_MAX => (IF c <= CHAR_MAX THEN c ELSE SIZE_MAX - (UCHAR_MAX - c)) = n
  BY <1>1, OptionsAssumption DEF OptionsAssumption
<1>4. QED
  BY <1>2, <1>3 DEF AsChar, c

LEMMA InitIInv == Init => IInv
<1> SUFFICES ASSUME Init PROVE IInv
  OBVIOUS
<1>1. Types
  <2>1. /\ args = <<>> /\ drvs = <<>> /\ mps = <<>> /\ disks = <<>>
        /\ selectors = <<>> /\ ks = <<>> /\ mounts = <<>>
    BY DEF Init, OptionsInit, DecryptInit, MountsInit
  <2>2. \A S : <<>> \in Seq(S)
    OBVIOUS
  <2>3. /\ args \in Seq(Args) /\ drvs \in Seq(Drvs) /\ mps \in Seq(MountOptions)
        /\ disks \in Seq(Disks) /\ selectors \in Seq(Selectors) /\ ks \in Seq(Keys)
        /\ mounts \in Seq(Mounted)
    BY <2>1, <2>2
  <2>4. /\ Len(args) = 0 /\ Len(drvs) = 0 /\ Len(mps) = 0
        /\ Len(selectors) = 0 /\ Len(ks) = 0
    BY <2>1
  <2>5. /\ config_ro \in BOOLEAN /\ read_only \in BOOLEAN /\ inspector \in BOOLEAN
        /\ format_consumed \in BOOLEAN /\ launched \in BOOLEAN
    BY Zenon DEF Init, OptionsInit
  <2>6. /\ format = NoFormat /\ adding = 0 /\ drive_index = 0 /\ opt_pc = "parsing"
        /\ dec_pc = "idle" /\ ins_pc = "idle" /\ mp_pc = "idle" /\ mounting = 0
        /\ table = {} /\ mount_errors = {}
    BY DEF Init, OptionsInit, DecryptInit, MountsInit
  <2>7. QED
    BY <2>3, <2>4, <2>5, <2>6 DEF Types, OptTypes, Bools, DecTypes, MntTypes
<1>2. Phases
  BY DEF Phases, Init, OptionsInit, DecryptInit, MountsInit
<1>3. MountInv
  BY DEF MountInv, NothingHidden, Init, MountsInit
<1>4. DriveInv
  BY DEF DriveInv, Init, OptionsInit
<1>5. QED
  BY <1>1, <1>2, <1>3, <1>4 DEF IInv

(* The options are parsed and the drives added before the launch, and not    *)
(* afterwards.                                                               *)
LEMMA CommandBeforeLaunch ==
  ASSUME Types, Phases, Command
  PROVE  ~launched
BY DEF Types, Bools, Phases, Command, OptionsNext, OptDrive, OptFormat, OptMount, OptInspector, OptRo,
       OptRw, OptBad, Parse, EndOptions, AddDrive, AddDriveFails, DrivesAdded

-----------------------------------------------------------------------------
(* Types                                                                     *)

LEMMA ConstantSeq ==
  ASSUME NEW n \in Nat, NEW S, NEW x \in S
  PROVE  [i \in 1 .. n |-> x] \in Seq(S) /\ Len([i \in 1 .. n |-> x]) = n
OBVIOUS

LEMMA ConcatAt ==
  ASSUME NEW S, NEW s \in Seq(S), NEW t \in Seq(S)
  PROVE  /\ Len(s \o t) = Len(s) + Len(t)
         /\ \A p \in 1 .. Len(s) : (s \o t)[p] = s[p]
         /\ \A p \in (Len(s) + 1) .. (Len(s) + Len(t)) :
              p - Len(s) \in 1 .. Len(t) /\ (s \o t)[p] = t[p - Len(s)]
OBVIOUS

(* AddDrive numbers one element of the list, and appends its disks.          *)
LEMMA AddDriveKeepsList ==
  ASSUME OptTypes, Bools, AddDrive
  PROVE  /\ drvs' \in Seq(Drvs) /\ Len(drvs') = Len(drvs)
         /\ adding \in DOMAIN drvs /\ drvs[adding] \in Drvs
         /\ drvs'[adding] = [drvs[adding] EXCEPT !.drive_index = drive_index,
                                                 !.nr_drives = drvs[adding].disks]
         /\ \A k \in DOMAIN drvs : k # adding => drvs'[k] = drvs[k]
         /\ NewDisks(drvs[adding]) \in Seq(Disks)
         /\ Len(NewDisks(drvs[adding])) = drvs[adding].disks
         /\ disks' \in Seq(Disks)
         /\ drive_index' \in Nat /\ adding' \in 0 .. Len(drvs) /\ adding' = adding - 1
<1> USE DEF OptTypes
<1> DEFINE d == drvs[adding]
           e == [d EXCEPT !.drive_index = drive_index, !.nr_drives = d.disks]
<1>1. /\ opt_pc = "adding" /\ adding > 0 /\ adding' = adding - 1
      /\ drvs' = [drvs EXCEPT ![adding] = e]
      /\ disks' = disks \o NewDisks(d)
      /\ drive_index' = AsChar(drive_index + d.disks)
  BY DEF AddDrive
<1>2. adding \in DOMAIN drvs /\ d \in Drvs
  BY <1>1
<1>3. e \in Drvs
  BY <1>2 DEF Drvs
<1> HIDE DEF e
<1>4. /\ drvs' \in Seq(Drvs) /\ Len(drvs') = Len(drvs) /\ drvs'[adding] = e
      /\ \A k \in DOMAIN drvs : k # adding => drvs'[k] = drvs[k]
  BY <1>1, <1>2, <1>3
<1>5. d.disks \in Nat /\ d.arg \in Nat /\ d.format \in Formats \cup {NoFormat}
  BY <1>2 DEF Drvs
<1>6. NewDisks(d) \in Seq(Disks) /\ Len(NewDisks(d)) = d.disks
  <2> DEFINE x == [arg |-> d.arg, format |-> d.format, readonly |-> read_only /\ Affected(d)]
  <2>1. (read_only /\ Affected(d)) \in BOOLEAN
    BY Zenon
  <2>2. x \in Disks
    BY <1>5, <2>1 DEF Disks
  <2> HIDE DEF x
  <2>3. [i \in 1 .. d.disks |-> x] \in Seq(Disks) /\ Len([i \in 1 .. d.disks |-> x]) = d.disks
    BY <1>5, <2>2, ConstantSeq
  <2>4. NewDisks(d) = [i \in 1 .. d.disks |-> x]
    BY Zenon DEF NewDisks, x
  <2>5. QED
    BY <2>3, <2>4
<1>7. disks' \in Seq(Disks)
  BY <1>1, <1>6
<1>8. drive_index' \in Nat
  <2>1. drive_index + d.disks \in Nat
    BY <1>5
  <2>2. QED
    BY <1>1, <2>1, CharKeeps
<1>9. adding' \in 0 .. Len(drvs)
  BY <1>1
<1>10. QED
  BY <1>1, <1>2, <1>4, <1>6, <1>7, <1>8, <1>9 DEF e

LEMMA OptTypesStep ==
  ASSUME Types, [Next]_sessionVars
  PROVE  OptTypes'
<1>1. ASSUME NEW a \in Args, Parse(a) PROVE args' \in Seq(Args) /\ Len(args') = Len(args) + 1
  BY <1>1 DEF Types, OptTypes, Parse
<1>2. CASE Command
  <2> USE <1>2 DEF Types, OptTypes
  <2>1. ASSUME NEW o \in DriveOptions, OptDrive(o) PROVE OptTypes'
    <3>1. [opt |-> "drive", drive |-> o] \in Args
      BY DEF Args
    <3>2. PICK f \in Formats \cup {NoFormat} : drvs' = <<NewDrive(o, f)>> \o drvs
      BY <2>1, Zenon DEF OptDrive
    <3>3. NewDrive(o, f) \in Drvs
      <4>1. o.type \in DriveTypes /\ o.disks \in Nat \ {0} /\ Len(args) + 1 \in Nat
        BY OptionsAssumption DEF OptionsAssumption
      <4>2. QED
        BY <4>1 DEF NewDrive, Drvs
    <3>4. drvs' \in Seq(Drvs) /\ Len(drvs') = Len(drvs) + 1
      BY <3>2, <3>3
    <3>5. /\ Parse([opt |-> "drive", drive |-> o])
          /\ UNCHANGED <<mps, disks, format, adding, drive_index, opt_pc>>
      BY <2>1 DEF OptDrive, added
    <3>6. QED
      BY <1>1, <3>1, <3>4, <3>5
  <2>2. ASSUME NEW f \in Formats \cup {NoFormat}, OptFormat(f) PROVE OptTypes'
    <3>1. [opt |-> "format", format |-> f] \in Args
      BY DEF Args
    <3>2. QED
      BY <1>1, <2>2, <3>1 DEF OptFormat, flags, added
  <2>3. ASSUME NEW m \in MountOptions, OptMount(m) PROVE OptTypes'
    <3>1. [opt |-> "m", mount |-> m] \in Args
      BY DEF Args
    <3>2. mps' \in Seq(MountOptions) /\ Len(mps') = Len(mps) + 1
      BY <2>3 DEF OptMount
    <3>3. /\ Parse([opt |-> "m", mount |-> m])
          /\ UNCHANGED <<drvs, disks, format, adding, drive_index, opt_pc>>
      BY <2>3 DEF OptMount, added
    <3>4. QED
      BY <1>1, <3>1, <3>2, <3>3
  <2>4. CASE OptInspector \/ OptRo
    <3>1. [opt |-> "i"] \in Args /\ [opt |-> "ro"] \in Args
      BY DEF Args
    <3>2. QED
      BY <1>1, <2>4, <3>1 DEF OptInspector, OptRo, flags, added
  <2>5. CASE OptRw \/ OptBad
    <3>1. [opt |-> "rw"] \in Args /\ [opt |-> "bad"] \in Args
      BY DEF Args
    <3>2. QED
      BY <1>1, <2>5, <3>1 DEF OptRw, OptBad, flags, added
  <2>6. CASE EndOptions
    BY <2>6 DEF EndOptions, flags
  <2>7. CASE AddDrive
    <3>1. drvs' \in Seq(Drvs) /\ Len(drvs') = Len(drvs)
      BY <2>7, AddDriveKeepsList
    <3>2. disks' \in Seq(Disks)
      BY <2>7, AddDriveKeepsList
    <3>3. drive_index' \in Nat /\ adding' \in 0 .. Len(drvs)
      BY <2>7, AddDriveKeepsList
    <3>4. UNCHANGED <<args, mps, format, opt_pc>>
      BY <2>7 DEF AddDrive
    <3>5. QED
      BY <3>1, <3>2, <3>3, <3>4
  <2>8. CASE AddDriveFails \/ DrivesAdded
    BY <2>8 DEF AddDriveFails, DrivesAdded, flags, added
  <2>9. QED
    BY <2>1, <2>2, <2>3, <2>4, <2>5, <2>6, <2>7, <2>8 DEF Command, OptionsNext
<1>3. ASSUME NEW s \in Selectors, OptKey(s) PROVE OptTypes'
  <2>1. [opt |-> "key"] \in Args
    BY DEF Args
  <2>2. QED
    BY <1>1, <1>3, <2>1 DEF Types, OptTypes, OptKey, added
<1>4. CASE UNCHANGED optionsVars
  BY <1>4 DEF Types, OptTypes, optionsVars, added
<1>5. QED
  BY <1>2, <1>3, <1>4 DEF Next, Launch, DecryptGuest, Begin, MountGuest, sessionVars

LEMMA BoolsStep ==
  ASSUME Bools, [Next]_sessionVars
  PROVE  Bools'
<1> USE DEF Bools
<1>1. CASE Command
  <2>1. ASSUME NEW o \in DriveOptions, OptDrive(o) PROVE Bools'
    BY <1>1, <2>1, Zenon DEF OptDrive, flags, Command
  <2>2. ASSUME NEW f \in Formats \cup {NoFormat}, OptFormat(f) PROVE Bools'
    BY <1>1, <2>2, Zenon DEF OptFormat, flags, Command
  <2>3. ASSUME NEW m \in MountOptions, OptMount(m) PROVE Bools'
    BY <1>1, <2>3, Zenon DEF OptMount, flags, Command
  <2>4. CASE OptInspector
    BY <1>1, <2>4, Zenon DEF OptInspector, Command
  <2>5. CASE OptRo
    BY <1>1, <2>5, Zenon DEF OptRo, Command
  <2>6. CASE OptRw
    BY <1>1, <2>6, Zenon DEF OptRw, flags, Command
  <2>7. CASE OptBad
    BY <1>1, <2>7, Zenon DEF OptBad, flags, Command
  <2>8. CASE EndOptions
    BY <1>1, <2>8, Zenon DEF EndOptions, flags, Command
  <2>9. CASE AddDrive
    BY <1>1, <2>9, Zenon DEF AddDrive, flags, Command
  <2>10. CASE AddDriveFails
    BY <1>1, <2>10, Zenon DEF AddDriveFails, flags, Command
  <2>11. CASE DrivesAdded
    BY <1>1, <2>11, Zenon DEF DrivesAdded, flags, Command
  <2>12. QED
    BY <1>1, <2>1, <2>2, <2>3, <2>4, <2>5, <2>6, <2>7, <2>8, <2>9, <2>10, <2>11
       DEF Command, OptionsNext
<1>2. ASSUME NEW s \in Selectors, OptKey(s) PROVE Bools'
  BY <1>2, Zenon DEF OptKey, flags
<1>3. CASE Launch
  BY <1>3, Zenon DEF Launch, optionsVars, flags
<1>4. CASE UNCHANGED <<optionsVars, launched>>
  BY <1>4, Zenon DEF optionsVars, flags
<1>5. QED
  BY <1>1, <1>2, <1>3, <1>4 DEF Next, DecryptGuest, Begin, MountGuest, sessionVars

LEMMA DecTypesStep ==
  ASSUME DecTypes, [Next]_sessionVars
  PROVE  DecTypes'
<1> USE DEF DecTypes
<1>1. ASSUME NEW s \in Selectors, OptKey(s) PROVE DecTypes'
  <2>1. [s EXCEPT !.id = Unescape(@)] \in Keys
    BY DEF Keys
  <2>2. selectors' = Append(selectors, s) /\ ks' = Append(ks, [s EXCEPT !.id = Unescape(@)])
        /\ dec_pc' = dec_pc
    BY <1>1 DEF OptKey, AddKey
  <2>3. selectors' \in Seq(Selectors) /\ Len(selectors') = Len(selectors) + 1
    BY <2>2
  <2> DEFINE k == [s EXCEPT !.id = Unescape(@)]
  <2> HIDE DEF k
  <2>4. k \in Keys => Append(ks, k) \in Seq(Keys) /\ Len(Append(ks, k)) = Len(ks) + 1
    OBVIOUS
  <2>5. QED
    BY <2>1, <2>2, <2>3, <2>4 DEF k
<1>2. CASE DecryptGuest
  <2>1. UNCHANGED <<selectors, ks>>
    BY <1>2 DEF DecryptGuest, DecryptNext, ListPartitions, ListingFails, Skip, Open, OpenAsking,
       TryKeys, GetKeysFails, PartitionsDone, ListLvs, LvsDone, keys
  <2>2. dec_pc' \in {"idle", "partitions", "lvm", "lvs", "done", "exit", "nokey"}
    BY <1>2 DEF DecryptGuest, DecryptNext, ListPartitions, ListingFails, Skip, Open, OpenAsking,
       TryKeys, GetKeysFails, PartitionsDone, ListLvs, LvsDone
  <2>3. QED
    BY <2>1, <2>2
<1>3. CASE Launch
  BY <1>3 DEF Launch, EnableNetwork, keys
<1>4. CASE UNCHANGED decryptVars
  BY <1>4 DEF decryptVars, keys
<1>5. QED
  BY <1>1, <1>2, <1>3, <1>4 DEF Next, Command, Begin, MountGuest, sessionVars

(* The mounting code runs after the launch, and then mps does not change.    *)
LEMMA MntTypesStep ==
  ASSUME Types, [Next]_sessionVars
  PROVE  MntTypes'
<1> USE DEF Types, MntTypes
<1>1. ASSUME UNCHANGED mountsVars, Len(mps) \in Nat, Len(mps') \in Nat, Len(mps) <= Len(mps')
      PROVE  MntTypes'
  BY <1>1 DEF mountsVars
<1>2. CASE Command
  <2>1. ASSUME NEW m \in MountOptions, OptMount(m)
        PROVE  Len(mps) \in Nat /\ Len(mps') \in Nat /\ Len(mps) <= Len(mps')
    BY <2>1 DEF OptMount, OptTypes
  <2>2. CASE mps' = mps
    BY <1>1, <1>2, <2>2 DEF Command, OptTypes
  <2>3. QED
    BY <1>1, <1>2, <2>1, <2>2 DEF Command, OptionsNext, OptDrive, OptFormat, OptInspector, OptRo,
       OptRw, OptBad, EndOptions, AddDrive, AddDriveFails, DrivesAdded
<1>3. ASSUME NEW s \in Selectors, OptKey(s) PROVE MntTypes'
  BY <1>1, <1>3 DEF OptKey, OptTypes
<1>4. CASE UNCHANGED <<optionsVars, mountsVars>>
  BY <1>1, <1>4 DEF optionsVars, OptTypes
<1>5. CASE Begin
  BY <1>5 DEF Begin, optionsVars, OptTypes
<1>6. CASE MountGuest
  <2>0. mps' = mps /\ mps \in Seq(MountOptions)
    BY <1>6 DEF MountGuest, optionsVars, OptTypes
  <2>1. CASE InspectFails \/ InspectDone \/ MountMpFails \/ MpsDone
    BY <2>0, <2>1 DEF InspectFails, InspectDone, MountMpFails, MpsDone
  <2>2. ASSUME NEW t \in Tables, Inspect(t) PROVE MntTypes'
    BY <2>0, <2>2, MountsAssumption DEF Inspect, MountsAssumption
  <2>3. ASSUME NEW p \in table, MountRoot(p) PROVE MntTypes'
    <3> DEFINE m == [by |-> "i", mountpoint |-> p,
                     options |-> IF read_only THEN "ro" ELSE ""]
    <3>1. m \in Mounted /\ mounts' = Append(mounts, m)
      BY <2>3 DEF MountRoot, Mounted
    <3> HIDE DEF m
    <3>2. mounts' \in Seq(Mounted)
      BY <3>1
    <3>3. QED
      BY <2>0, <2>3, <3>2 DEF MountRoot
  <2>4. ASSUME NEW p \in table, MountRootFails(p) PROVE MntTypes'
    BY <2>0, <2>4 DEF MountRootFails
  <2>5. CASE MountMp
    <3>1. mounting \in DOMAIN mps /\ mps[mounting] \in MountOptions
      BY <2>0, <2>5 DEF MountMp
    <3>2. OptionsOf(mps[mounting]) \in {"ro", ""} \cup {m.options : m \in MountOptions}
      BY <3>1 DEF OptionsOf
    <3>3. [by |-> "m", mountpoint |-> mps[mounting].mountpoint,
           options |-> OptionsOf(mps[mounting])] \in Mounted
      BY <3>1, <3>2 DEF Mounted
    <3>4. mounts' \in Seq(Mounted)
      BY <2>5, <3>3 DEF MountMp
    <3>5. QED
      BY <2>0, <2>5, <3>4 DEF MountMp
  <2>6. QED
    BY <1>6, <2>1, <2>2, <2>3, <2>4, <2>5 DEF MountGuest, MountsNext
<1>7. QED
  BY <1>2, <1>3, <1>4, <1>5, <1>6 DEF Next, Launch, DecryptGuest, sessionVars

LEMMA TypesStep ==
  ASSUME Types, [Next]_sessionVars
  PROVE  Types'
BY OptTypesStep, BoolsStep, DecTypesStep, MntTypesStep DEF Types

-----------------------------------------------------------------------------
(* The order of the parts                                                    *)

LEMMA PhasesStep ==
  ASSUME Types, Phases, [Next]_sessionVars
  PROVE  Phases'
<1> USE DEF Phases
<1>1. inspector \in BOOLEAN /\ launched \in BOOLEAN
  BY Zenon DEF Types, Bools
<1>2. CASE Command
  <2>1. ~launched /\ ~launched' /\ UNCHANGED <<dec_pc, ins_pc, mp_pc, mounts>>
    BY <1>2, CommandBeforeLaunch DEF Command, decryptVars, mountsVars
  <2>2. QED
    BY <2>1
<1>3. ASSUME NEW s \in Selectors, OptKey(s) PROVE Phases'
  <2>1. ~launched /\ ~launched' /\ UNCHANGED <<dec_pc, ins_pc, mp_pc, mounts>>
    BY <1>1, <1>3 DEF OptKey, AddKey, Parse, mountsVars
  <2>2. QED
    BY <2>1
<1>4. CASE Launch
  BY <1>4 DEF Launch, EnableNetwork, optionsVars, mountsVars, flags
<1>5. CASE DecryptGuest
  <2>1. dec_pc # "done" /\ launched /\ inspector
    BY <1>5 DEF DecryptGuest, DecryptNext, ListPartitions, ListingFails, Skip, Open, OpenAsking,
       GetKeysFails, PartitionsDone, ListLvs, LvsDone
  <2>2. UNCHANGED <<opt_pc, inspector, launched, ins_pc, mp_pc, mounts>>
    BY <1>5 DEF DecryptGuest, optionsVars, mountsVars, flags
  <2>3. QED
    BY <2>1, <2>2
<1>6. CASE Begin
  BY <1>1, <1>6 DEF Begin, optionsVars, decryptVars, flags
<1>7. CASE MountGuest
  <2>1. UNCHANGED <<opt_pc, inspector, launched, dec_pc>>
    BY <1>7 DEF MountGuest, optionsVars, decryptVars, flags
  <2>2. CASE ins_pc \in {"inspecting", "mounting"} /\ UNCHANGED mp_pc
             /\ ins_pc' # "idle" /\ (ins_pc' = "inspecting" => UNCHANGED <<ins_pc, mounts>>)
    BY <1>1, <2>1, <2>2
  <2>3. CASE mp_pc = "mounting" /\ mp_pc' # "idle" /\ UNCHANGED ins_pc
    BY <1>1, <2>1, <2>3
  <2>4. QED
    BY <1>7, <2>2, <2>3 DEF MountGuest, MountsNext, InspectFails, Inspect, MountRoot,
       MountRootFails, InspectDone, MountMp, MountMpFails, MpsDone
<1>8. CASE UNCHANGED sessionVars
  BY <1>8 DEF sessionVars, optionsVars, decryptVars, mountsVars, flags
<1>9. QED
  BY <1>2, <1>3, <1>4, <1>5, <1>6, <1>7, <1>8 DEF Next

-----------------------------------------------------------------------------
(* Mounts                                                                    *)

(* A mountpoint below another one is the longer of the two.                  *)
LEMMA UnderIsLonger ==
  ASSUME NEW p, NEW q, <<p, q>> \in Under
  PROVE  p \in Paths /\ q \in Paths /\ StrLen[p] \in Nat /\ StrLen[q] \in Nat
         /\ StrLen[p] > StrLen[q]
<1>1. p \in Paths /\ q \in Paths
  BY MountsAssumption DEF MountsAssumption
<1>2. StrLen[<<p, q>>[1]] > StrLen[<<p, q>>[2]]
  BY MountsAssumption, Zenon DEF MountsAssumption
<1>3. QED
  BY <1>1, <1>2, MountsAssumption DEF MountsAssumption

(* The first path of a table with a root is the root.                        *)
LEMMA RootFirst ==
  ASSUME table \subseteq Paths, Root \in table, NEW p, NextMountpoint(p)
  PROVE  p = Root
<1>1. p \in Paths /\ StrLen[p] <= StrLen[Root]
  BY DEF NextMountpoint
<1>2. SUFFICES ASSUME p # Root PROVE FALSE
  OBVIOUS
<1>3. <<p, Root>> \in Under
  BY <1>1, <1>2, MountsAssumption DEF MountsAssumption
<1>4. QED
  BY <1>1, <1>3, UnderIsLonger

LEMMA MountStep ==
  ASSUME Types, Phases, MountInv, [Next]_sessionVars
  PROVE  MountInv'
<1> USE DEF MountInv, NothingHidden
<1>0. /\ mounts \in Seq(Mounted) /\ table \subseteq Paths
      /\ \A p \in Paths : StrLen[p] \in Nat
  BY MountsAssumption DEF Types, MntTypes, MountsAssumption
<1>1. CASE UNCHANGED mountsVars
  BY <1>1 DEF mountsVars
<1>2. CASE Begin
  BY <1>2 DEF Begin
<1>3. CASE MountGuest
  <2>1. CASE InspectFails \/ InspectDone \/ MountMpFails \/ MpsDone
    <3>1. InspectDone => mounts # <<>> /\ mounts[1].mountpoint = Root
      BY DEF InspectDone
    <3>2. mounts' = mounts /\ table' = table
          /\ (ins_pc' = "mounting" => ins_pc = "mounting")
          /\ (ins_pc' = "done" => ins_pc = "done" \/ InspectDone)
      BY <2>1 DEF InspectFails, InspectDone, MountMpFails, MpsDone
    <3>3. QED
      BY <3>1, <3>2
  <2>2. ASSUME NEW t \in Tables, Inspect(t) PROVE MountInv'
    <3>1. mounts = <<>> /\ mounts' = <<>> /\ table' = t /\ ins_pc' = "mounting"
      BY <2>2 DEF Inspect, Phases
    <3>2. Root \in t
      BY MountsAssumption DEF MountsAssumption
    <3>3. DOMAIN mounts' = {}
      BY <3>1
    <3>4. \A i \in DOMAIN mounts' :
            /\ mounts'[i].mountpoint \in Paths
            /\ \A q \in table' : StrLen[mounts'[i].mountpoint] <= StrLen[q]
      BY <3>3
    <3>5. \A i, j \in DOMAIN mounts' : i < j /\ mounts'[j].by = "i" =>
            <<mounts'[i].mountpoint, mounts'[j].mountpoint>> \notin Under
      BY <3>3
    <3>6. Root \in table' /\ mounts' = <<>> /\ ins_pc' # "done"
      BY <3>1, <3>2
    <3>7. QED
      BY <3>4, <3>5, <3>6, Zenon
  <2>3. ASSUME NEW p \in table, MountRoot(p) PROVE MountInv'
    <3> DEFINE n == Len(mounts) + 1
    <3>1. /\ ins_pc = "mounting" /\ ins_pc' = "mounting" /\ table' = table \ {p}
          /\ \A q \in table : StrLen[p] <= StrLen[q]
          /\ DOMAIN mounts' = 1 .. n /\ n \in Nat \ {0}
          /\ \A i \in DOMAIN mounts : i \in 1 .. (n - 1) /\ mounts'[i] = mounts[i]
          /\ mounts'[n].mountpoint = p /\ n \notin DOMAIN mounts /\ mounts' # <<>>
      <4> DEFINE m == [by |-> "i", mountpoint |-> p,
                       options |-> IF read_only THEN "ro" ELSE ""]
      <4>1. mounts' = Append(mounts, m) /\ m.mountpoint = p
        BY <2>3 DEF MountRoot
      <4> HIDE DEF m
      <4>2. /\ ins_pc = "mounting" /\ ins_pc' = "mounting" /\ table' = table \ {p}
            /\ \A q \in table : StrLen[p] <= StrLen[q]
        BY <2>3 DEF MountRoot, NextMountpoint
      <4>3. QED
        BY <1>0, <4>1, <4>2
    <3>2. \A i \in DOMAIN mounts' : i # n => i \in DOMAIN mounts
      BY <1>0, <3>1
    <3> HIDE DEF n
    <3>3. mounts'[1].mountpoint = Root
      <4>1. CASE mounts = <<>>
        <5>1. Root \in table
          BY <3>1, <4>1
        <5>2. p = Root
          BY <1>0, <2>3, <5>1, RootFirst DEF MountRoot
        <5>3. n = 1
          BY <4>1 DEF n
        <5>4. QED
          BY <3>1, <5>2, <5>3
      <4>2. CASE mounts # <<>>
        <5>1. mounts[1].mountpoint = Root /\ 1 \in DOMAIN mounts
          BY <1>0, <3>1, <4>2
        <5>2. QED
          BY <3>1, <5>1
      <4>3. QED
        BY <4>1, <4>2
    <3>4. \A i \in DOMAIN mounts' : /\ mounts'[i].mountpoint \in Paths
                                   /\ StrLen[mounts'[i].mountpoint] <= StrLen[p]
                                   /\ \A q \in table' : StrLen[mounts'[i].mountpoint] <= StrLen[q]
      BY <1>0, <3>1, <3>2
    <3>5. ASSUME NEW i \in DOMAIN mounts', NEW j \in DOMAIN mounts', i < j, mounts'[j].by = "i"
          PROVE  <<mounts'[i].mountpoint, mounts'[j].mountpoint>> \notin Under
      <4>1. CASE j = n
        BY <1>0, <3>1, <3>4, <4>1, UnderIsLonger
      <4>2. CASE j # n
        <5>1. i # n /\ j \in DOMAIN mounts
          BY <3>1, <3>2, <3>5, <4>2
        <5>2. i \in DOMAIN mounts
          BY <3>2, <5>1
        <5>3. QED
          BY <3>1, <3>5, <5>1, <5>2
      <4>3. QED
        BY <4>1, <4>2
    <3>6. QED
      BY <3>1, <3>3, <3>4, <3>5
  <2>4. ASSUME NEW p \in table, MountRootFails(p) PROVE MountInv'
    <3>1. mounts' = mounts /\ ins_pc = "mounting" /\ ins_pc' \in {"mounting", "exit"}
          /\ (ins_pc' = "mounting" => p # Root /\ table' = table \ {p})
      BY <2>4 DEF MountRootFails
    <3>2. ins_pc' = "mounting" => ~(Root \in table)
      BY <1>0, <2>4, <3>1, RootFirst DEF MountRootFails
    <3>3. QED
      BY <3>1, <3>2
  <2>5. CASE MountMp
    <3> DEFINE n == Len(mounts) + 1
    <3>1. /\ ins_pc' = ins_pc /\ ins_pc \in {"idle", "done"}
          /\ DOMAIN mounts' = 1 .. n /\ n \in Nat \ {0}
          /\ \A i \in DOMAIN mounts : mounts'[i] = mounts[i]
          /\ mounts'[n].by = "m" /\ mounts' # <<>>
      BY <1>0, <2>5 DEF MountMp, Phases
    <3>2. \A i \in DOMAIN mounts' : i # n => i \in DOMAIN mounts
      BY <1>0, <3>1
    <3> HIDE DEF n
    <3>3. ASSUME NEW i \in DOMAIN mounts', NEW j \in DOMAIN mounts', i < j, mounts'[j].by = "i"
          PROVE  <<mounts'[i].mountpoint, mounts'[j].mountpoint>> \notin Under
      <4>1. j # n
        BY <3>1, <3>3
      <4>2. i # n
        BY <3>1, <3>3, <4>1
      <4>3. i \in DOMAIN mounts /\ j \in DOMAIN mounts
        BY <3>2, <4>1, <4>2
      <4>4. QED
        BY <3>1, <3>3, <4>3
    <3>4. ins_pc = "done" => mounts[1] = mounts'[1]
      BY <1>0, <3>1
    <3>5. QED
      BY <3>1, <3>3, <3>4
  <2>6. QED
    BY <1>3, <2>1, <2>2, <2>3, <2>4, <2>5 DEF MountGuest, MountsNext
<1>4. QED
  BY <1>1, <1>2, <1>3 DEF Next, Command, OptKey, Launch, DecryptGuest, sessionVars

-----------------------------------------------------------------------------
(* Drives                                                                    *)

(* An option makes the command line longer, and leaves the lists, but for    *)
(* that of the drives, as they are.                                          *)
LEMMA DriveKeptStep ==
  ASSUME OptTypes, DriveInv, opt_pc = "parsing", opt_pc' \in {"parsing", "exit"},
         Len(args') \in Nat, Len(args) <= Len(args'), UNCHANGED <<drvs, disks, drive_index>>
  PROVE  DriveInv'
<1>1. Len(args) \in Nat /\ \A k \in DOMAIN drvs : drvs[k].arg \in 1 .. Len(args')
  BY DEF OptTypes, DriveInv
<1>2. QED
  BY <1>1 DEF DriveInv

(* A drive is put in front of the list, with a larger argument than the      *)
(* others.                                                                   *)
LEMMA OptDriveStep ==
  ASSUME Types, DriveInv, NEW o \in DriveOptions, OptDrive(o)
  PROVE  DriveInv'
<1>1. PICK f : drvs' = <<NewDrive(o, f)>> \o drvs
  BY Zenon DEF OptDrive
<1> DEFINE d == NewDrive(o, f)
<1>2. d.arg = Len(args) + 1
  BY DEF NewDrive
<1> HIDE DEF d
<1>3. /\ Len(args) \in Nat /\ Len(args') = Len(args) + 1
      /\ opt_pc = "parsing" /\ UNCHANGED <<opt_pc, disks, drive_index>>
  BY DEF OptDrive, Parse, Types, OptTypes, added
<1>4. drvs \in Seq(Drvs) /\ drvs' = <<d>> \o drvs
  BY <1>1 DEF Types, OptTypes, d
<1>5. /\ drvs'[1] = d
      /\ \A k \in DOMAIN drvs' : k = 1 \/ (k - 1 \in DOMAIN drvs /\ drvs'[k] = drvs[k - 1])
      /\ DOMAIN drvs' \subseteq Nat
  BY <1>4
<1>6. /\ \A k \in DOMAIN drvs : drvs[k].arg \in 1 .. Len(args)
      /\ \A k, l \in DOMAIN drvs : k < l => drvs[l].arg < drvs[k].arg
      /\ disks = <<>> /\ drive_index = 0
  BY <1>3 DEF DriveInv
<1>7. \A k \in DOMAIN drvs' : drvs'[k].arg \in 1 .. Len(args')
  BY <1>2, <1>3, <1>5, <1>6
<1>8. ASSUME NEW k \in DOMAIN drvs', NEW l \in DOMAIN drvs', k < l
      PROVE  drvs'[l].arg < drvs'[k].arg
  <2>1. l # 1 /\ l - 1 \in DOMAIN drvs /\ drvs'[l] = drvs[l - 1]
    <3>1. DOMAIN drvs' = 1 .. Len(drvs')
      BY <1>4
    <3>2. l # 1
      BY <1>5, <1>8, <3>1
    <3>3. QED
      BY <1>5, <3>2
  <2>2. CASE k = 1
    BY <1>2, <1>3, <1>5, <1>6, <2>1, <2>2
  <2>3. CASE k # 1
    BY <1>5, <1>6, <1>8, <2>1, <2>3
  <2>4. QED
    BY <2>2, <2>3
<1>9. QED
  BY <1>3, <1>6, <1>7, <1>8 DEF DriveInv

(* The disks that AddDrive appends are those of the newest argument so far.  *)
LEMMA AddDriveStep ==
  ASSUME Types, DriveInv, AddDrive
  PROVE  DriveInv'
<1> DEFINE d == drvs[adding]
           L == Len(disks)
<1>1. /\ opt_pc = "adding" /\ opt_pc' = "adding" /\ args' = args
      /\ disks' = disks \o NewDisks(d) /\ drive_index' = AsChar(drive_index + d.disks)
  BY DEF AddDrive
<1>2. /\ drvs \in Seq(Drvs) /\ drvs' \in Seq(Drvs) /\ Len(drvs') = Len(drvs)
      /\ adding \in DOMAIN drvs /\ d \in Drvs /\ adding' = adding - 1
      /\ drvs'[adding] = [d EXCEPT !.drive_index = drive_index, !.nr_drives = d.disks]
      /\ \A k \in DOMAIN drvs : k # adding => drvs'[k] = drvs[k]
  BY AddDriveKeepsList DEF Types, OptTypes
<1>3. disks \in Seq(Disks) /\ NewDisks(d) \in Seq(Disks) /\ Len(NewDisks(d)) = d.disks
  BY AddDriveKeepsList DEF Types, OptTypes
<1>4. \A i \in DOMAIN NewDisks(d) : NewDisks(d)[i].arg = d.arg
  BY DEF NewDisks
<1>5. d.arg \in Nat /\ d.disks \in Nat /\ L \in Nat /\ drive_index \in Nat
  BY <1>2, <1>3 DEF Drvs, Types, OptTypes
<1> HIDE DEF d, L
<1>6. /\ DOMAIN disks' = 1 .. (L + d.disks) /\ DOMAIN disks = 1 .. L
      /\ Len(disks') = L + d.disks
      /\ \A p \in 1 .. L : disks'[p] = disks[p]
      /\ \A p \in (L + 1) .. (L + d.disks) : disks'[p].arg = d.arg
  <2> DEFINE N == NewDisks(d)
  <2>1. N \in Seq(Disks) /\ Len(N) = d.disks /\ disks' = disks \o N
        /\ \A i \in DOMAIN N : N[i].arg = d.arg
    BY <1>1, <1>3, <1>4
  <2> HIDE DEF N
  <2>2. \A p \in (L + 1) .. (L + d.disks) : p - L \in DOMAIN N /\ disks'[p] = N[p - L]
    <3>1. DOMAIN N = 1 .. Len(N)
      BY <2>1
    <3>2. \A p \in (Len(disks) + 1) .. (Len(disks) + Len(N)) :
            p - Len(disks) \in 1 .. Len(N) /\ (disks \o N)[p] = N[p - Len(disks)]
      BY <1>3, <2>1, ConcatAt
    <3>3. QED
      BY <2>1, <3>1, <3>2 DEF L
  <2>3. Len(disks') = L + d.disks /\ DOMAIN disks' = 1 .. (L + d.disks) /\ DOMAIN disks = 1 .. L
        /\ \A p \in 1 .. L : disks'[p] = disks[p]
    <3>1. /\ Len(disks \o N) = Len(disks) + Len(N)
          /\ \A p \in 1 .. Len(disks) : (disks \o N)[p] = disks[p]
      BY <1>3, <2>1, ConcatAt
    <3>2. disks' \in Seq(Disks)
      BY AddDriveKeepsList DEF Types
    <3>3. QED
      BY <1>3, <2>1, <3>1, <3>2 DEF L
  <2>4. QED
    BY <2>1, <2>2, <2>3
<1>7. /\ drvs'[adding].arg = d.arg /\ drvs'[adding].nr_drives = d.disks
      /\ drvs'[adding].drive_index = drive_index
      /\ \A k \in DOMAIN drvs : drvs'[k].arg = drvs[k].arg /\ drvs[k].arg \in Nat
      /\ DOMAIN drvs' = DOMAIN drvs /\ DOMAIN drvs = 1 .. Len(drvs) /\ Len(drvs) \in Nat
  <2>1. d.arg = drvs[adding].arg /\ drvs'[adding].arg = d.arg /\ drvs'[adding].nr_drives = d.disks
        /\ drvs'[adding].drive_index = drive_index
    BY <1>2 DEF Drvs, d
  <2>2. ASSUME NEW k \in DOMAIN drvs PROVE drvs[k].arg \in Nat
    <3>1. drvs[k] \in Drvs
      BY <1>2
    <3>2. QED
      BY <3>1 DEF Drvs
  <2>3. DOMAIN drvs' = DOMAIN drvs /\ DOMAIN drvs = 1 .. Len(drvs) /\ Len(drvs) \in Nat
    BY <1>2
  <2>4. \A k \in DOMAIN drvs : drvs'[k].arg = drvs[k].arg
    BY <1>2, <2>1
  <2>5. QED
    BY <2>1, <2>2, <2>3, <2>4
<1>8. \A k \in (adding + 1) .. Len(drvs) : k \in DOMAIN drvs /\ k # adding /\ drvs[k].arg < d.arg
  <2> TAKE k \in (adding + 1) .. Len(drvs)
  <2>1. k \in DOMAIN drvs /\ adding \in DOMAIN drvs /\ adding < k /\ k # adding
    BY <1>2, <1>7
  <2>2. \A i, j \in DOMAIN drvs : i < j => drvs[j].arg < drvs[i].arg
    BY DEF DriveInv
  <2>3. drvs[k].arg < drvs[adding].arg
    BY <2>1, <2>2
  <2>4. QED
    BY <2>1, <2>3 DEF d
<1>9. \A p \in 1 .. L : disks[p].arg \in Nat /\ disks[p].arg < d.arg
  <2>1. \A p \in 1 .. L : \E k \in (adding + 1) .. Len(drvs) : disks[p].arg = drvs[k].arg
    BY <1>1, <1>6 DEF DriveInv
  <2>2. QED
    BY <1>7, <1>8, <2>1
<1>10. (adding' + 1) .. Len(drvs') = {adding} \cup ((adding + 1) .. Len(drvs))
  BY <1>2, <1>7
<1>11. /\ \A k \in DOMAIN drvs' : drvs'[k].arg \in 1 .. Len(args')
       /\ \A k, l \in DOMAIN drvs' : k < l => drvs'[l].arg < drvs'[k].arg
  BY <1>1, <1>7 DEF DriveInv
<1>12. L <= CHAR_MAX => drive_index = L
  BY <1>1 DEF DriveInv, L
<1>13. Len(disks') <= CHAR_MAX => drive_index' = Len(disks')
  <2>1. SUFFICES ASSUME L + d.disks <= CHAR_MAX PROVE drive_index' = L + d.disks
    BY <1>6
  <2>2. drive_index = L
    BY <1>5, <1>12, <2>1, OptionsAssumption DEF OptionsAssumption
  <2>3. L + d.disks \in Nat
    BY <1>5
  <2>4. QED
    BY <1>1, <2>1, <2>2, <2>3, CharKeeps
<1>14. \A p \in DOMAIN disks' : \E k \in (adding' + 1) .. Len(drvs') : disks'[p].arg = drvs'[k].arg
  <2>1. ASSUME NEW p \in 1 .. L
        PROVE  \E k \in (adding' + 1) .. Len(drvs') : disks'[p].arg = drvs'[k].arg
    <3>1. PICK k \in (adding + 1) .. Len(drvs) : disks[p].arg = drvs[k].arg
      BY <1>1, <1>6 DEF DriveInv
    <3>2. k \in (adding' + 1) .. Len(drvs') /\ disks'[p].arg = drvs'[k].arg
      BY <1>6, <1>7, <1>8, <1>10, <3>1
    <3>3. QED
      BY <3>2
  <2>2. ASSUME NEW p \in (L + 1) .. (L + d.disks)
        PROVE  disks'[p].arg = drvs'[adding].arg /\ adding \in (adding' + 1) .. Len(drvs')
    BY <1>6, <1>7, <1>10
  <2>3. \A p \in DOMAIN disks' : p \in 1 .. L \/ p \in (L + 1) .. (L + d.disks)
    BY <1>5, <1>6
  <2>4. QED
    BY <2>1, <2>2, <2>3
<1>15. Placed(drvs', disks', adding, L)
  <2>1. {p \in DOMAIN disks' : disks'[p].arg < d.arg} = 1 .. L
    BY <1>5, <1>6, <1>9
  <2>2. {p \in DOMAIN disks' : disks'[p].arg = d.arg} = (L + 1) .. (L + d.disks)
    BY <1>5, <1>6, <1>9
  <2>3. QED
    BY <1>7, <1>12, <2>1, <2>2 DEF Placed
<1>16. ASSUME NEW k \in (adding + 1) .. Len(drvs)
       PROVE  \E first \in Nat : Placed(drvs', disks', k, first)
  <2>1. PICK first \in Nat : Placed(drvs, disks, k, first)
    BY <1>1 DEF DriveInv
  <2>2. drvs'[k] = drvs[k] /\ drvs[k].arg < d.arg /\ drvs[k].arg \in Nat
    BY <1>2, <1>7, <1>8
  <2>3. {p \in DOMAIN disks' : disks'[p].arg < drvs[k].arg}
          = {p \in DOMAIN disks : disks[p].arg < drvs[k].arg}
    BY <1>5, <1>6, <2>2
  <2>4. {p \in DOMAIN disks' : disks'[p].arg = drvs[k].arg}
          = {p \in DOMAIN disks : disks[p].arg = drvs[k].arg}
    BY <1>5, <1>6, <2>2
  <2>5. QED
    BY <2>1, <2>2, <2>3, <2>4 DEF Placed
<1>17. \A k \in (adding' + 1) .. Len(drvs') : \E first \in Nat : Placed(drvs', disks', k, first)
  BY <1>5, <1>10, <1>15, <1>16
<1>18. QED
  BY <1>1, <1>11, <1>13, <1>14, <1>17 DEF DriveInv

LEMMA DriveStep ==
  ASSUME Types, DriveInv, [Next]_sessionVars
  PROVE  DriveInv'
<1>1. CASE Command
  <2>1. ASSUME NEW o \in DriveOptions, OptDrive(o) PROVE DriveInv'
    BY <2>1, OptDriveStep
  <2>2. ASSUME NEW a, Parse(a), opt_pc' \in {opt_pc, "exit"},
               UNCHANGED <<drvs, disks, drive_index>>
        PROVE  DriveInv'
    <3>1. opt_pc = "parsing" /\ Len(args') \in Nat /\ Len(args) <= Len(args')
      BY <2>2 DEF Parse, Types, OptTypes
    <3>2. QED
      BY <2>2, <3>1, DriveKeptStep DEF Types
  <2>3. ASSUME NEW f \in Formats \cup {NoFormat}, OptFormat(f) PROVE DriveInv'
    BY <2>2, <2>3 DEF OptFormat, added
  <2>4. ASSUME NEW m \in MountOptions, OptMount(m) PROVE DriveInv'
    BY <2>2, <2>4 DEF OptMount, added
  <2>5. CASE OptInspector
    BY <2>2, <2>5 DEF OptInspector, added
  <2>6. CASE OptRo
    BY <2>2, <2>6 DEF OptRo, added
  <2>7. CASE OptRw
    BY <2>2, <2>7 DEF OptRw, added
  <2>8. CASE OptBad
    BY <2>2, <2>8 DEF OptBad, added
  <2>9. CASE EndOptions
    <3>1. drvs \in Seq(Drvs)
      BY DEF Types, OptTypes
    <3>2. /\ opt_pc = "parsing" /\ opt_pc' \in {"adding", "exit"} /\ adding' = Len(drvs)
          /\ UNCHANGED <<args, drvs, disks, drive_index>>
      BY <2>9 DEF EndOptions
    <3>3. disks = <<>> /\ drive_index = 0
      BY <3>2 DEF DriveInv
    <3>4. Len(disks') = 0 /\ DOMAIN disks' = {} /\ (adding' + 1) .. Len(drvs') = {}
      BY <3>1, <3>2, <3>3
    <3>5. QED
      BY <3>2, <3>3, <3>4 DEF DriveInv
  <2>10. CASE AddDrive
    BY <2>10, AddDriveStep
  <2>11. CASE AddDriveFails \/ DrivesAdded
    <3>1. /\ opt_pc = "adding" /\ opt_pc' \in {"added", "exit"}
          /\ UNCHANGED <<args, drvs, adding, disks, drive_index>>
      BY <2>11 DEF AddDriveFails, DrivesAdded, added
    <3>2. QED
      BY <3>1 DEF DriveInv
  <2>12. QED
    BY <1>1, <2>1, <2>3, <2>4, <2>5, <2>6, <2>7, <2>8, <2>9, <2>10, <2>11
       DEF Command, OptionsNext
<1>2. ASSUME NEW s \in Selectors, OptKey(s) PROVE DriveInv'
  <2>1. /\ opt_pc = "parsing" /\ opt_pc' = opt_pc /\ Len(args') \in Nat /\ Len(args) <= Len(args')
        /\ UNCHANGED <<drvs, disks, drive_index>>
    BY <1>2 DEF OptKey, Parse, Types, OptTypes, added
  <2>2. QED
    BY <2>1, DriveKeptStep DEF Types
<1>3. CASE UNCHANGED optionsVars
  BY <1>3 DEF DriveInv, optionsVars, added
<1>4. QED
  BY <1>1, <1>2, <1>3 DEF Next, Launch, DecryptGuest, Begin, MountGuest, sessionVars

-----------------------------------------------------------------------------
(* What the command line asks for                                            *)

(* The current --format is the last one given.                               *)
FormatLast ==
  \/ format = NoFormat /\ FormatsGiven = {}
  \/ \E j \in FormatsGiven : args[j].format = format /\ \A l \in FormatsGiven : l <= j

CommandInv ==
  /\ read_only <=> RoGiven
  /\ opt_pc = "parsing" => FormatLast
  /\ format_consumed => NoFormatIgnored
  /\ opt_pc \in {"adding", "added"} => format_consumed

Listed(d) ==
  /\ d.arg \in DrivesGiven
  /\ d.type = args[d.arg].drive.type /\ d.disks = args[d.arg].drive.disks
  /\ IF d.type \in {"a", "uri"} THEN FormatAt(d.arg, d.format) ELSE d.format = NoFormat

(* The list of drives has what was given, and nothing else.                  *)
ListInv ==
  /\ \A d \in {drvs[k] : k \in DOMAIN drvs} : Listed(d)
  /\ \A i \in DrivesGiven : \E k \in DOMAIN drvs : drvs[k].arg = i

(* The disks of the handle are those of the drives that have been added.     *)
DisksInv ==
  /\ opt_pc = "added" => adding = 0
  /\ opt_pc \in {"adding", "added"} =>
       /\ \A k \in (adding + 1) .. Len(drvs) : drvs[k].nr_drives = drvs[k].disks
       /\ \A p \in DOMAIN disks : \E k \in (adding + 1) .. Len(drvs) :
            /\ disks[p].arg = drvs[k].arg /\ disks[p].format = drvs[k].format
            /\ disks[p].readonly = (read_only /\ Affected(drvs[k]))
       /\ \A p, q \in DOMAIN disks : p < q => disks[p].arg <= disks[q].arg

(* The list of mountpoints is the command line's, read backwards.            *)
MpsInv ==
  /\ Len(mps) = Cardinality(MountsGiven)
  /\ \A k \in DOMAIN mps : \E i \in MountsGiven :
       /\ args[i].mount = mps[k]
       /\ Cardinality({j \in MountsGiven : j <= i}) = Len(mps) + 1 - k

(* After the mounts of -i come those of -m, from the end of the list.        *)
MountedInv ==
  \E n \in 0 .. Len(mounts) :
    /\ MountsMatch(n)
    /\ mp_pc = "idle" => n = Len(mounts)
    /\ mp_pc # "idle" => Len(mounts) + mounting = n + Len(mps)
    /\ mp_pc = "done" => mounting = 0

MatchInv == CommandInv /\ ListInv /\ DisksInv /\ MpsInv /\ MountedInv

(* What an option is to the command line: one more element.                  *)
LEMMA OneMore ==
  ASSUME Types, NEW a, Parse(a)
  PROVE  LET n == Len(args) + 1
         IN  /\ Len(args) \in Nat /\ n \in Nat \ {0} /\ n \notin DOMAIN args
             /\ DOMAIN args = 1 .. Len(args) /\ DOMAIN args' = DOMAIN args \cup {n}
             /\ args'[n] = a
             /\ \A i \in DOMAIN args : i < n /\ args'[i] = args[i]
BY DEF Types, OptTypes, Parse

LEMMA GivenMore ==
  ASSUME Types, NEW a, Parse(a), UNCHANGED config_ro
  PROVE  LET n == Len(args) + 1
         IN  /\ DrivesGiven' = IF a.opt = "drive" THEN DrivesGiven \cup {n} ELSE DrivesGiven
             /\ FormatsGiven' = IF a.opt = "format" THEN FormatsGiven \cup {n} ELSE FormatsGiven
             /\ MountsGiven' = IF a.opt = "m" THEN MountsGiven \cup {n} ELSE MountsGiven
             /\ RoGiven' <=> RoGiven \/ a.opt = "ro"
<1> DEFINE n == Len(args) + 1
<1>1. /\ n \in Nat \ {0} /\ n \notin DOMAIN args /\ DOMAIN args' = DOMAIN args \cup {n}
      /\ args'[n] = a
      /\ \A i \in DOMAIN args : i < n /\ args'[i] = args[i]
  BY OneMore
<1> HIDE DEF n
<1>2. DrivesGiven' = IF a.opt = "drive" THEN DrivesGiven \cup {n} ELSE DrivesGiven
  BY <1>1 DEF DrivesGiven
<1>3. FormatsGiven' = IF a.opt = "format" THEN FormatsGiven \cup {n} ELSE FormatsGiven
  BY <1>1 DEF FormatsGiven
<1>4. MountsGiven' = IF a.opt = "m" THEN MountsGiven \cup {n} ELSE MountsGiven
  BY <1>1 DEF MountsGiven
<1>5. RoGiven' <=> RoGiven \/ a.opt = "ro"
  BY <1>1 DEF RoGiven
<1>6. QED
  BY <1>2, <1>3, <1>4, <1>5 DEF n

(* What was the last format before an option stays that.                     *)
LEMMA FormatAtKept ==
  ASSUME Types, NEW a, Parse(a), UNCHANGED config_ro, NEW i \in DOMAIN args, NEW f,
         FormatAt(i, f)
  PROVE  FormatAt(i, f)'
<1> DEFINE n == Len(args) + 1
<1>1. /\ n \in Nat \ {0} /\ i \in Nat /\ i < n
      /\ \A j \in DOMAIN args : j < n /\ args'[j] = args[j]
      /\ FormatsGiven \subseteq DOMAIN args /\ DOMAIN args \subseteq Nat
      /\ FormatsGiven' \in {FormatsGiven, FormatsGiven \cup {n}}
  BY OneMore, GivenMore DEF FormatsGiven
<1> HIDE DEF n
<1>2. CASE f = NoFormat /\ \A j \in FormatsGiven : j > i
  BY <1>1, <1>2 DEF FormatAt
<1>3. CASE \E j \in FormatsGiven :
             j < i /\ args[j].format = f /\ \A l \in FormatsGiven : l <= j \/ l > i
  <2>1. PICK j \in FormatsGiven : j < i /\ args[j].format = f /\ \A l \in FormatsGiven : l <= j \/ l > i
    BY <1>3
  <2>2. j \in FormatsGiven' /\ args'[j].format = f
    BY <1>1, <2>1
  <2>3. QED
    BY <1>1, <2>1, <2>2 DEF FormatAt
<1>4. QED
  BY <1>2, <1>3 DEF FormatAt

LEMMA IgnoredKept ==
  ASSUME Types, NEW a, Parse(a), UNCHANGED config_ro, a.opt # "format", NoFormatIgnored
  PROVE  NoFormatIgnored'
<1> DEFINE n == Len(args) + 1
<1>1. /\ FormatsGiven' = FormatsGiven /\ DrivesGiven \subseteq DrivesGiven'
      /\ DrivesGiven \subseteq DOMAIN args
      /\ \A i \in DOMAIN args : args'[i] = args[i]
  BY OneMore, GivenMore DEF DrivesGiven
<1>2. ASSUME NEW i \in FormatsGiven'
      PROVE  \E j \in DrivesGiven' : j > i /\ args'[j].drive.type \in {"a", "uri"}
  <2>1. PICK j \in DrivesGiven : j > i /\ args[j].drive.type \in {"a", "uri"}
    BY <1>1 DEF NoFormatIgnored
  <2>2. j \in DrivesGiven' /\ args'[j] = args[j]
    BY <1>1, <2>1
  <2>3. QED
    BY <2>1, <2>2
<1>3. QED
  BY <1>2 DEF NoFormatIgnored

LEMMA LastKept ==
  ASSUME Types, NEW a, Parse(a), UNCHANGED <<config_ro, format>>, a.opt # "format", FormatLast
  PROVE  FormatLast'
<1>1. /\ FormatsGiven' = FormatsGiven /\ FormatsGiven \subseteq DOMAIN args
      /\ \A i \in DOMAIN args : args'[i] = args[i]
  BY OneMore, GivenMore DEF FormatsGiven
<1>2. ASSUME NEW j \in FormatsGiven, args[j].format = format, \A l \in FormatsGiven : l <= j
      PROVE  FormatLast'
  <2>1. j \in FormatsGiven' /\ args'[j].format = format' /\ \A l \in FormatsGiven' : l <= j
    BY <1>1, <1>2
  <2>2. QED
    BY <2>1 DEF FormatLast
<1>3. CASE format = NoFormat /\ FormatsGiven = {}
  BY <1>1, <1>3 DEF FormatLast
<1>4. QED
  BY <1>2, <1>3 DEF FormatLast

LEMMA CommandStep ==
  ASSUME Types, CommandInv, [Next]_sessionVars
  PROVE  CommandInv'
<1>0. read_only \in BOOLEAN /\ format_consumed \in BOOLEAN
  BY Zenon DEF Types, Bools
<1>1. ASSUME NEW o \in DriveOptions, OptDrive(o) PROVE CommandInv'
  <2> DEFINE a == [opt |-> "drive", drive |-> o]
             n == Len(args) + 1
  <2>1. /\ Parse(a) /\ a.opt = "drive" /\ a.drive = o
        /\ UNCHANGED <<config_ro, read_only, format, opt_pc>> /\ opt_pc = "parsing"
    BY <1>1 DEF OptDrive, flags, Parse
  <2>2. format_consumed' <=> format_consumed \/ o.type \in {"a", "uri"}
    BY <1>1, Zenon DEF OptDrive
  <2> HIDE DEF a
  <2>3. RoGiven' <=> RoGiven
    BY <2>1, GivenMore
  <2>4. FormatLast'
    BY <2>1, LastKept DEF CommandInv
  <2>5. CASE o.type \in {"a", "uri"}
    <3>1. /\ FormatsGiven' = FormatsGiven /\ FormatsGiven \subseteq DOMAIN args
          /\ n \in DrivesGiven' /\ args'[n] = a /\ \A i \in DOMAIN args : i < n
      BY <2>1, OneMore, GivenMore DEF FormatsGiven
    <3>2. \A i \in FormatsGiven' : n > i /\ args'[n].drive.type \in {"a", "uri"}
      <4>1. \A i \in FormatsGiven' : i < n /\ i \in Nat /\ n \in Nat
        BY <2>1, <3>1, OneMore
      <4>2. args'[n].drive.type \in {"a", "uri"}
        BY <2>1, <2>5, <3>1
      <4> HIDE DEF n
      <4>3. QED
        BY <4>1, <4>2
    <3> HIDE DEF n
    <3>3. NoFormatIgnored'
      BY <3>1, <3>2 DEF NoFormatIgnored
    <3>4. QED
      BY <2>1, <2>3, <2>4, <3>3 DEF CommandInv
  <2>6. CASE o.type \notin {"a", "uri"}
    <3>1. NoFormatIgnored => NoFormatIgnored'
      BY <2>1, IgnoredKept
    <3>2. QED
      BY <2>1, <2>2, <2>3, <2>4, <2>6, <3>1 DEF CommandInv
  <2>7. QED
    BY <2>5, <2>6
<1>2. ASSUME NEW f \in Formats \cup {NoFormat}, OptFormat(f) PROVE CommandInv'
  <2> DEFINE a == [opt |-> "format", format |-> f]
             n == Len(args) + 1
  <2>1. /\ Parse(a) /\ a.opt = "format" /\ a.format = f
        /\ UNCHANGED <<config_ro, read_only, opt_pc>> /\ opt_pc = "parsing"
        /\ format' = f /\ format_consumed' = FALSE
    BY <1>2 DEF OptFormat, flags, Parse
  <2> HIDE DEF a
  <2>2. RoGiven' <=> RoGiven
    BY <2>1, GivenMore
  <2>3. /\ FormatsGiven' = FormatsGiven \cup {n} /\ FormatsGiven \subseteq DOMAIN args
        /\ args'[n] = a /\ n \in Nat /\ DOMAIN args \subseteq Nat /\ \A i \in DOMAIN args : i < n
    BY <2>1, OneMore, GivenMore DEF FormatsGiven
  <2> HIDE DEF n
  <2>4. FormatLast'
    <3>1. n \in FormatsGiven' /\ args'[n].format = format' /\ \A l \in FormatsGiven' : l <= n
      BY <2>1, <2>3
    <3>2. QED
      BY <3>1 DEF FormatLast
  <2>5. QED
    BY <2>1, <2>2, <2>4 DEF CommandInv
<1>3. ASSUME NEW a, Parse(a), a.opt \notin {"drive", "format"}, opt_pc' \in {"parsing", "exit"},
             UNCHANGED <<config_ro, format, format_consumed>>, read_only' <=> read_only \/ a.opt = "ro"
      PROVE  CommandInv'
  <2>1. (RoGiven' <=> RoGiven \/ a.opt = "ro") /\ opt_pc = "parsing"
    BY <1>3, GivenMore DEF Parse
  <2>2. FormatLast'
    BY <1>3, <2>1, LastKept DEF CommandInv
  <2>3. NoFormatIgnored => NoFormatIgnored'
    BY <1>3, IgnoredKept
  <2>4. QED
    BY <1>3, <2>1, <2>2, <2>3 DEF CommandInv
<1>4. ASSUME NEW m \in MountOptions, OptMount(m) PROVE CommandInv'
  <2>1. /\ Parse([opt |-> "m", mount |-> m]) /\ opt_pc' = "parsing"
        /\ UNCHANGED <<config_ro, read_only, format, format_consumed>>
    BY <1>4 DEF OptMount, flags, Parse
  <2>2. QED
    BY <1>3, <2>1
<1>5. CASE OptInspector \/ OptRo \/ OptRw \/ OptBad \/ \E s \in Selectors : OptKey(s)
  <2>1. CASE OptRo
    <3>1. /\ Parse([opt |-> "ro"]) /\ read_only' = TRUE /\ opt_pc' = "parsing"
          /\ UNCHANGED <<config_ro, format, format_consumed>>
      BY <2>1 DEF OptRo, Parse
    <3>2. QED
      BY <1>3, <3>1
  <2>2. CASE OptInspector
    <3>1. /\ Parse([opt |-> "i"]) /\ opt_pc' = "parsing"
          /\ UNCHANGED <<config_ro, read_only, format, format_consumed>>
      BY <2>2 DEF OptInspector, Parse
    <3>2. QED
      BY <1>3, <3>1
  <2>3. CASE OptRw \/ OptBad
    <3>1. PICK x \in {"rw", "bad"} : Parse([opt |-> x])
      BY <2>3 DEF OptRw, OptBad
    <3>2. /\ opt_pc' \in {"parsing", "exit"}
          /\ UNCHANGED <<config_ro, read_only, format, format_consumed>>
      BY <2>3 DEF OptRw, OptBad, flags, Parse
    <3>3. QED
      BY <1>3, <3>1, <3>2
  <2>4. ASSUME NEW s \in Selectors, OptKey(s) PROVE CommandInv'
    <3>1. /\ Parse([opt |-> "key"]) /\ opt_pc' = "parsing"
          /\ UNCHANGED <<config_ro, read_only, format, format_consumed>>
      BY <2>4 DEF OptKey, flags, Parse
    <3>2. QED
      BY <1>3, <3>1
  <2>5. QED
    BY <1>5, <2>1, <2>2, <2>3, <2>4
<1>6. ASSUME UNCHANGED <<args, config_ro, read_only, format, format_consumed>>,
             opt_pc' = "parsing" => opt_pc = "parsing",
             opt_pc' \in {"adding", "added"} => opt_pc \in {"adding", "added"} \/ format_consumed
      PROVE  CommandInv'
  BY <1>6 DEF CommandInv, RoGiven, FormatLast, NoFormatIgnored, FormatsGiven, DrivesGiven
<1>7. CASE EndOptions \/ AddDrive \/ AddDriveFails \/ DrivesAdded \/ UNCHANGED optionsVars
  BY <1>6, <1>7 DEF EndOptions, AddDrive, AddDriveFails, DrivesAdded, flags, optionsVars
<1>8. QED
  BY <1>1, <1>2, <1>4, <1>5, <1>7
     DEF Next, Command, OptionsNext, Launch, DecryptGuest, Begin, MountGuest, sessionVars

(* What the list says of an option stays true.                               *)
LEMMA ListedKept ==
  ASSUME Types, NEW a, Parse(a), UNCHANGED config_ro, NEW d, Listed(d)
  PROVE  Listed(d)'
<1>1. /\ DrivesGiven \subseteq DrivesGiven' /\ DrivesGiven \subseteq DOMAIN args
      /\ \A i \in DOMAIN args : args'[i] = args[i]
  BY OneMore, GivenMore DEF DrivesGiven
<1>2. d.arg \in DOMAIN args
  BY <1>1 DEF Listed
<1>3. FormatAt(d.arg, d.format) => FormatAt(d.arg, d.format)'
  BY <1>2, FormatAtKept
<1>4. QED
  BY <1>1, <1>2, <1>3 DEF Listed

LEMMA ListStep ==
  ASSUME Types, CommandInv, ListInv, [Next]_sessionVars
  PROVE  ListInv'
<1>0. drvs \in Seq(Drvs)
  BY DEF Types, OptTypes
<1>1. ASSUME NEW o \in DriveOptions, OptDrive(o) PROVE ListInv'
  <2> DEFINE a == [opt |-> "drive", drive |-> o]
  <2>0. PICK n, f, d : /\ n = Len(args) + 1 /\ d = NewDrive(o, f)
                       /\ drvs' = <<d>> \o drvs
                       /\ f = IF o.type \in {"a", "uri"} THEN format ELSE NoFormat
    BY <1>1, Zenon DEF OptDrive
  <2>2. d.arg = n /\ d.type = o.type /\ d.disks = o.disks /\ d.format = f
    BY <2>0 DEF NewDrive
  <2>3. /\ Parse(a) /\ a.opt = "drive" /\ a.drive = o
        /\ UNCHANGED <<config_ro, format>> /\ opt_pc = "parsing"
    BY <1>1 DEF OptDrive, flags, Parse
  <2> HIDE DEF a
  <2>4. /\ DrivesGiven' = DrivesGiven \cup {n} /\ FormatsGiven' = FormatsGiven
        /\ FormatsGiven \subseteq DOMAIN args
        /\ n \in Nat /\ args'[n] = a
        /\ \A i \in DOMAIN args : i \in Nat /\ i < n /\ args'[i] = args[i]
    BY <2>0, <2>3, OneMore, GivenMore DEF FormatsGiven
  <2>5. ASSUME f = format PROVE FormatAt(n, f)'
    <3>1. FormatLast
      BY <2>3 DEF CommandInv
    <3>2. CASE format = NoFormat /\ FormatsGiven = {}
      BY <2>4, <2>5, <3>2 DEF FormatAt
    <3>3. ASSUME NEW j \in FormatsGiven, args[j].format = format, \A l \in FormatsGiven : l <= j
          PROVE  FormatAt(n, f)'
      <4>1. j \in FormatsGiven' /\ j < n /\ args'[j].format = f /\ \A l \in FormatsGiven' : l <= j
        BY <2>4, <2>5, <3>3
      <4>2. QED
        BY <4>1 DEF FormatAt
    <3>4. QED
      BY <3>1, <3>2, <3>3 DEF FormatLast
  <2>6. Listed(d)'
    BY <2>0, <2>2, <2>3, <2>4, <2>5 DEF Listed
  <2>7. {drvs'[k] : k \in DOMAIN drvs'} = {d} \cup {drvs[k] : k \in DOMAIN drvs}
        /\ 1 \in DOMAIN drvs' /\ drvs'[1] = d
        /\ \A k \in DOMAIN drvs : k + 1 \in DOMAIN drvs' /\ drvs'[k + 1] = drvs[k]
    <3>1. drvs' = <<d>> \o drvs
      BY <2>0
    <3>2. \A k \in DOMAIN drvs : k + 1 \in DOMAIN drvs' /\ drvs'[k + 1] = drvs[k]
      BY <1>0, <3>1
    <3>3. \A k \in DOMAIN drvs' : k = 1 \/ (k - 1 \in DOMAIN drvs /\ drvs'[k] = drvs[k - 1])
      BY <1>0, <3>1
    <3>4. 1 \in DOMAIN drvs' /\ drvs'[1] = d
      BY <1>0, <3>1
    <3>5. QED
      BY <3>2, <3>3, <3>4
  <2>8. \A e \in {drvs[k] : k \in DOMAIN drvs} : Listed(e)'
    BY <2>3, ListedKept DEF ListInv
  <2>9. ASSUME NEW i \in DrivesGiven' PROVE \E k \in DOMAIN drvs' : drvs'[k].arg = i
    <3>1. CASE i = n
      BY <2>2, <2>7, <3>1
    <3>2. CASE i \in DrivesGiven
      <4>1. PICK k \in DOMAIN drvs : drvs[k].arg = i
        BY <3>2 DEF ListInv
      <4>2. k + 1 \in DOMAIN drvs' /\ drvs'[k + 1].arg = i
        BY <2>7, <4>1
      <4>3. QED
        BY <4>2
    <3>3. QED
      BY <2>4, <3>1, <3>2
  <2>10. \A e \in {drvs'[k] : k \in DOMAIN drvs'} : Listed(e)'
    BY <2>6, <2>7, <2>8
  <2>11. QED
    BY <2>9, <2>10 DEF ListInv
<1>2. ASSUME NEW a, Parse(a), a.opt # "drive", UNCHANGED <<config_ro, drvs>>
      PROVE  ListInv'
  <2>1. DrivesGiven' = DrivesGiven
    BY <1>2, GivenMore
  <2>2. \A d \in {drvs[k] : k \in DOMAIN drvs} : Listed(d)'
    BY <1>2, ListedKept DEF ListInv
  <2>3. QED
    BY <1>2, <2>1, <2>2 DEF ListInv
<1>3. ASSUME NEW f \in Formats \cup {NoFormat}, OptFormat(f) PROVE ListInv'
  BY <1>2, <1>3 DEF OptFormat, flags
<1>4. ASSUME NEW m \in MountOptions, OptMount(m) PROVE ListInv'
  BY <1>2, <1>4 DEF OptMount, flags
<1>5. CASE OptInspector \/ OptRo \/ OptRw \/ OptBad \/ \E s \in Selectors : OptKey(s)
  BY <1>2, <1>5 DEF OptInspector, OptRo, OptRw, OptBad, OptKey, flags
<1>6. ASSUME UNCHANGED <<args, drvs>> PROVE ListInv'
  BY <1>6 DEF ListInv, Listed, FormatAt, FormatsGiven, DrivesGiven
<1>7. CASE AddDrive
  <2>1. args' = args
    BY <1>7 DEF AddDrive
  <2>2. /\ Len(drvs') = Len(drvs) /\ drvs' \in Seq(Drvs)
        /\ adding \in DOMAIN drvs /\ drvs[adding] \in Drvs
        /\ drvs'[adding] = [drvs[adding] EXCEPT !.drive_index = drive_index,
                                                !.nr_drives = drvs[adding].disks]
        /\ \A k \in DOMAIN drvs : k # adding => drvs'[k] = drvs[k]
    BY <1>7, AddDriveKeepsList DEF Types
  <2>3. DOMAIN drvs' = DOMAIN drvs
    BY <1>0, <2>2
  <2>4. ASSUME NEW d, Listed(d) PROVE Listed(d)'
    BY <2>1, <2>4 DEF Listed, FormatAt, FormatsGiven, DrivesGiven
  <2>5. ASSUME NEW k \in DOMAIN drvs' PROVE \A d : d = drvs'[k] => Listed(d)'
    <3>1. \A e : e = drvs[k] => Listed(e)
      BY <2>3 DEF ListInv
    <3>2. CASE k = adding
      <4>1. PICK e, d : e = drvs[k] /\ d = drvs'[k]
        OBVIOUS
      <4>2. /\ d.arg = e.arg /\ d.type = e.type /\ d.disks = e.disks /\ d.format = e.format
        BY <2>2, <3>2, <4>1 DEF Drvs
      <4>3. Listed(d)
        BY <3>1, <4>1, <4>2 DEF Listed
      <4>4. QED
        BY <2>4, <4>1, <4>3
    <3>3. CASE k # adding
      BY <2>2, <2>3, <2>4, <3>1, <3>3
    <3>4. QED
      BY <3>2, <3>3
  <2>6. \A k \in DOMAIN drvs : drvs'[k].arg = drvs[k].arg
    BY <2>2 DEF Drvs
  <2>7. DrivesGiven' = DrivesGiven
    BY <2>1 DEF DrivesGiven
  <2>8. QED
    BY <2>3, <2>5, <2>6, <2>7 DEF ListInv
<1>8. CASE EndOptions \/ AddDriveFails \/ DrivesAdded \/ UNCHANGED optionsVars
  BY <1>6, <1>8 DEF EndOptions, AddDriveFails, DrivesAdded, flags, optionsVars
<1>9. QED
  BY <1>1, <1>3, <1>4, <1>5, <1>7, <1>8
     DEF Next, Command, OptionsNext, Launch, DecryptGuest, Begin, MountGuest, sessionVars

(* The disks of a drive are alike.                                           *)
LEMMA DisksAppended ==
  ASSUME Types, AddDrive
  PROVE  LET d == drvs[adding]
             L == Len(disks)
         IN  /\ L \in Nat /\ DOMAIN disks = 1 .. L /\ DOMAIN disks \subseteq DOMAIN disks'
             /\ \A p \in DOMAIN disks : disks'[p] = disks[p]
             /\ \A p \in DOMAIN disks' \ DOMAIN disks :
                  /\ p > L /\ p \in Nat
                  /\ disks'[p].arg = d.arg /\ disks'[p].format = d.format
                  /\ disks'[p].readonly = (read_only /\ Affected(d))
<1> DEFINE d == drvs[adding]
           N == NewDisks(d)
           L == Len(disks)
<1>1. disks \in Seq(Disks) /\ N \in Seq(Disks)
  BY AddDriveKeepsList DEF Types, OptTypes
<1>2. disks' = disks \o N
  BY DEF AddDrive
<1>3. \A i \in DOMAIN N :
        /\ N[i].arg = d.arg /\ N[i].format = d.format
        /\ N[i].readonly = (read_only /\ Affected(d))
  BY DEF NewDisks
<1> HIDE DEF N, d
<1>4. /\ Len(disks \o N) = L + Len(N)
      /\ \A p \in 1 .. L : (disks \o N)[p] = disks[p]
      /\ \A p \in (L + 1) .. (L + Len(N)) : p - L \in 1 .. Len(N) /\ (disks \o N)[p] = N[p - L]
  BY <1>1, ConcatAt
<1>5. /\ L \in Nat /\ Len(N) \in Nat /\ DOMAIN disks = 1 .. L /\ DOMAIN N = 1 .. Len(N)
      /\ DOMAIN disks' = 1 .. (L + Len(N))
  BY <1>1, <1>2, <1>4
<1> HIDE DEF L
<1>6. ASSUME NEW p \in DOMAIN disks' \ DOMAIN disks
      PROVE  /\ p > L /\ p \in Nat
             /\ disks'[p].arg = d.arg /\ disks'[p].format = d.format
             /\ disks'[p].readonly = (read_only /\ Affected(d))
  <2>1. p \in (L + 1) .. (L + Len(N)) /\ p > L /\ p \in Nat
    BY <1>5, <1>6
  <2>2. p - L \in DOMAIN N /\ disks'[p] = N[p - L]
    BY <1>2, <1>4, <1>5, <2>1
  <2>3. QED
    BY <1>3, <2>1, <2>2
<1>7. DOMAIN disks \subseteq DOMAIN disks' /\ \A p \in DOMAIN disks : disks'[p] = disks[p]
  BY <1>2, <1>4, <1>5
<1>8. QED
  BY <1>5, <1>6, <1>7 DEF d, L

LEMMA DisksStep ==
  ASSUME Types, DriveInv, DisksInv, [Next]_sessionVars
  PROVE  DisksInv'
<1>0. drvs \in Seq(Drvs) /\ Len(drvs) \in Nat /\ DOMAIN drvs = 1 .. Len(drvs)
  BY DEF Types, OptTypes
<1>1. CASE AddDrive
  <2> DEFINE d == drvs[adding]
  <2>1. /\ opt_pc = "adding" /\ opt_pc' = "adding" /\ adding' = adding - 1 /\ adding \in 1 .. Len(drvs)
        /\ UNCHANGED read_only
    BY <1>1 DEF AddDrive, flags, Types, OptTypes
  <2>2. /\ drvs' \in Seq(Drvs) /\ Len(drvs') = Len(drvs) /\ d \in Drvs
        /\ drvs'[adding] = [d EXCEPT !.drive_index = drive_index, !.nr_drives = d.disks]
        /\ \A k \in DOMAIN drvs : k # adding => drvs'[k] = drvs[k]
    BY <1>1, AddDriveKeepsList DEF Types
  <2>3. /\ drvs'[adding].nr_drives = drvs'[adding].disks /\ drvs'[adding].arg = d.arg
        /\ drvs'[adding].format = d.format /\ drvs'[adding].type = d.type
    BY <2>2 DEF Drvs
  <2>4. (adding' + 1) .. Len(drvs') = {adding} \cup ((adding + 1) .. Len(drvs))
    BY <1>0, <2>1, <2>2
  <2>5. \A k \in (adding + 1) .. Len(drvs) :
          k \in DOMAIN drvs /\ k # adding /\ drvs[k].arg < d.arg /\ drvs'[k] = drvs[k]
    BY <1>0, <2>1, <2>2 DEF DriveInv
  <2>6. /\ \A k \in (adding + 1) .. Len(drvs) : drvs[k].nr_drives = drvs[k].disks
        /\ \A p, q \in DOMAIN disks : p < q => disks[p].arg <= disks[q].arg
        /\ \A p \in DOMAIN disks : \E k \in (adding + 1) .. Len(drvs) :
             /\ disks[p].arg = drvs[k].arg /\ disks[p].format = drvs[k].format
             /\ disks[p].readonly = (read_only /\ Affected(drvs[k]))
    BY <2>1 DEF DisksInv
  <2> DEFINE L == Len(disks)
  <2>7. /\ L \in Nat /\ DOMAIN disks = 1 .. L /\ DOMAIN disks \subseteq DOMAIN disks'
        /\ \A p \in DOMAIN disks : disks'[p] = disks[p]
        /\ \A p \in DOMAIN disks' \ DOMAIN disks :
             /\ p > L /\ p \in Nat
             /\ disks'[p].arg = d.arg /\ disks'[p].format = d.format
             /\ disks'[p].readonly = (read_only /\ Affected(d))
    BY <1>1, DisksAppended
  <2>8. d.arg \in Nat /\ \A k \in DOMAIN drvs : drvs[k].arg \in Nat
    <3>1. \A k \in DOMAIN drvs : drvs[k] \in Drvs
      BY <1>0
    <3>2. QED
      BY <2>2, <3>1 DEF Drvs
  <2> HIDE DEF L
  <2>9. \A p \in DOMAIN disks : disks[p].arg \in Nat /\ disks[p].arg < d.arg
    BY <2>5, <2>6, <2>8
  <2>10. Affected(drvs'[adding]) = Affected(d)
    BY <2>3 DEF Affected
  <2> HIDE DEF d
  <2>11. ASSUME NEW p \in DOMAIN disks'
         PROVE  \E k \in (adding' + 1) .. Len(drvs') :
             /\ disks'[p].arg = drvs'[k].arg /\ disks'[p].format = drvs'[k].format
             /\ disks'[p].readonly = (read_only' /\ Affected(drvs'[k]))
    <3>1. CASE p \in DOMAIN disks
      <4>1. PICK k \in (adding + 1) .. Len(drvs) :
             /\ disks[p].arg = drvs[k].arg /\ disks[p].format = drvs[k].format
             /\ disks[p].readonly = (read_only /\ Affected(drvs[k]))
        BY <2>6, <3>1
      <4>2. k \in (adding' + 1) .. Len(drvs') /\ drvs'[k] = drvs[k] /\ disks'[p] = disks[p]
        BY <2>4, <2>5, <2>7, <3>1
      <4>3. QED
        BY <2>1, <4>1, <4>2
    <3>2. CASE p \notin DOMAIN disks
      <4>1. adding \in (adding' + 1) .. Len(drvs')
        BY <2>4
      <4>2. /\ disks'[p].arg = drvs'[adding].arg /\ disks'[p].format = drvs'[adding].format
            /\ disks'[p].readonly = (read_only' /\ Affected(drvs'[adding]))
        BY <2>1, <2>3, <2>7, <2>10, <3>2
      <4>3. QED
        BY <4>1, <4>2
    <3>3. QED
      BY <3>1, <3>2
  <2>12. ASSUME NEW p \in DOMAIN disks', NEW q \in DOMAIN disks', p < q
         PROVE  disks'[p].arg <= disks'[q].arg
    <3>1. CASE q \in DOMAIN disks
      <4>1. p \in DOMAIN disks
        BY <2>7, <2>12, <3>1
      <4>2. QED
        BY <2>6, <2>7, <2>12, <3>1, <4>1
    <3>2. CASE q \notin DOMAIN disks
      <4>1. disks'[q].arg = d.arg
        BY <2>7, <3>2
      <4>2. disks'[p].arg <= d.arg
        BY <2>7, <2>8, <2>9
      <4>3. QED
        BY <4>1, <4>2
    <3>3. QED
      BY <3>1, <3>2
  <2>13. \A k \in (adding' + 1) .. Len(drvs') : drvs'[k].nr_drives = drvs'[k].disks
    BY <2>3, <2>4, <2>5, <2>6
  <2>14. QED
    BY <2>1, <2>11, <2>12, <2>13 DEF DisksInv
<1>2. CASE EndOptions
  <2>1. /\ opt_pc = "parsing" /\ opt_pc' # "added" /\ adding' = Len(drvs)
        /\ UNCHANGED <<drvs, disks>> /\ disks = <<>>
    BY <1>2 DEF EndOptions, DriveInv
  <2>2. DOMAIN disks' = {} /\ (adding' + 1) .. Len(drvs') = {}
    BY <1>0, <2>1
  <2>3. QED
    BY <2>1, <2>2 DEF DisksInv
<1>3. CASE AddDriveFails \/ DrivesAdded
  BY <1>3 DEF AddDriveFails, DrivesAdded, DisksInv, flags, added
<1>4. CASE UNCHANGED optionsVars
  BY <1>4 DEF DisksInv, optionsVars, flags, added
<1>5. ASSUME opt_pc' \in {"parsing", "exit"} PROVE DisksInv'
  BY <1>5 DEF DisksInv
<1>6. CASE \/ \E o \in DriveOptions : OptDrive(o)
           \/ \E f \in Formats \cup {NoFormat} : OptFormat(f)
           \/ \E m \in MountOptions : OptMount(m)
           \/ OptInspector \/ OptRo \/ OptRw \/ OptBad \/ \E s \in Selectors : OptKey(s)
  BY <1>5, <1>6 DEF OptDrive, OptFormat, OptMount, OptInspector, OptRo, OptRw, OptBad, OptKey, Parse
<1>7. QED
  BY <1>1, <1>2, <1>3, <1>4, <1>6
     DEF Next, Command, OptionsNext, Launch, DecryptGuest, Begin, MountGuest, sessionVars

LEMMA GivenFinite ==
  ASSUME Types
  PROVE  /\ IsFiniteSet(MountsGiven) /\ Cardinality(MountsGiven) \in Nat
         /\ MountsGiven \subseteq DOMAIN args
<1>1. DOMAIN args = 1 .. Len(args) /\ Len(args) \in Nat
  BY DEF Types, OptTypes
<1>2. IsFiniteSet(DOMAIN args)
  BY <1>1, FS_Interval
<1>3. MountsGiven \subseteq DOMAIN args
  BY DEF MountsGiven
<1>4. IsFiniteSet(MountsGiven)
  BY <1>2, <1>3, FS_Subset
<1>5. QED
  BY <1>3, <1>4, FS_CardinalityType

LEMMA MpsStep ==
  ASSUME Types, MpsInv, [Next]_sessionVars
  PROVE  MpsInv'
<1>0. mps \in Seq(MountOptions)
  BY DEF Types, OptTypes
<1>1. ASSUME NEW m \in MountOptions, OptMount(m) PROVE MpsInv'
  <2> DEFINE a == [opt |-> "m", mount |-> m]
  <2>0. PICK n, G : n = Len(args) + 1 /\ G = MountsGiven
    OBVIOUS
  <2>1. /\ Parse(a) /\ a.opt = "m" /\ a.mount = m /\ UNCHANGED config_ro
        /\ mps' = <<m>> \o mps
    BY <1>1 DEF OptMount, flags
  <2> HIDE DEF a
  <2>2. /\ MountsGiven' = G \cup {n} /\ n \in Nat /\ args'[n] = a /\ n \notin G
        /\ \A i \in G : i \in Nat /\ i < n /\ args'[i] = args[i]
    <3>1. G \subseteq DOMAIN args
      BY <2>0 DEF MountsGiven
    <3>2. QED
      BY <2>0, <2>1, <3>1, OneMore, GivenMore
  <2>3. IsFiniteSet(G) /\ Cardinality(G) \in Nat /\ Cardinality(G) = Len(mps)
    BY <2>0, GivenFinite DEF MpsInv
  <2>4. Cardinality(G \cup {n}) = Cardinality(G) + 1
    BY <2>2, <2>3, FS_AddElement
  <2>5. /\ Len(mps') = Len(mps) + 1 /\ mps'[1] = m
        /\ \A k \in DOMAIN mps' : k \in Nat /\ (k = 1 \/ (k - 1 \in DOMAIN mps /\ mps'[k] = mps[k - 1]))
    BY <1>0, <2>1
  <2>6. ASSUME NEW k \in DOMAIN mps'
        PROVE  \E i \in MountsGiven' :
                 /\ args'[i].mount = mps'[k]
                 /\ Cardinality({j \in MountsGiven' : j <= i}) = Len(mps') + 1 - k
    <3>1. CASE k = 1
      <4>1. {j \in G \cup {n} : j <= n} = G \cup {n}
        BY <2>2
      <4>2. Cardinality({j \in MountsGiven' : j <= n}) = Len(mps') + 1 - k
        <5>1. {j \in MountsGiven' : j <= n} = G \cup {n}
          BY <2>2, <4>1
        <5>2. Len(mps') + 1 - k = Len(mps) + 1
          BY <1>0, <2>5, <3>1
        <5>3. QED
          BY <2>3, <2>4, <5>1, <5>2
      <4>3. n \in MountsGiven' /\ args'[n].mount = mps'[k]
        BY <2>1, <2>2, <2>5, <3>1
      <4>4. QED
        BY <4>2, <4>3
    <3>2. CASE k # 1
      <4>1. k - 1 \in DOMAIN mps /\ mps'[k] = mps[k - 1] /\ k \in Nat
        BY <2>5, <3>2
      <4>2. PICK i \in G : /\ args[i].mount = mps[k - 1]
                           /\ Cardinality({j \in G : j <= i}) = Len(mps) + 1 - (k - 1)
        BY <2>0, <4>1 DEF MpsInv
      <4>3. {j \in G \cup {n} : j <= i} = {j \in G : j <= i}
        BY <2>2
      <4>4. Len(mps) + 1 - (k - 1) = Len(mps') + 1 - k
        BY <1>0, <2>5, <4>1
      <4>5. i \in MountsGiven' /\ args'[i].mount = mps'[k]
        BY <2>2, <4>1, <4>2
      <4>6. Cardinality({j \in MountsGiven' : j <= i}) = Len(mps') + 1 - k
        BY <2>2, <4>2, <4>3, <4>4
      <4>7. QED
        BY <4>5, <4>6
    <3>3. QED
      BY <3>1, <3>2
  <2>7. Len(mps') = Cardinality(MountsGiven')
    BY <2>2, <2>3, <2>4, <2>5
  <2>8. QED
    BY <2>6, <2>7 DEF MpsInv
<1>2. ASSUME NEW a, Parse(a), a.opt # "m", UNCHANGED <<config_ro, mps>>
      PROVE  MpsInv'
  <2>1. MountsGiven' = MountsGiven /\ \A i \in MountsGiven : args'[i] = args[i]
    BY <1>2, OneMore, GivenMore DEF MountsGiven
  <2>2. QED
    BY <1>2, <2>1 DEF MpsInv
<1>3. ASSUME NEW o \in DriveOptions, OptDrive(o) PROVE MpsInv'
  BY <1>2, <1>3 DEF OptDrive, flags
<1>4. ASSUME NEW f \in Formats \cup {NoFormat}, OptFormat(f) PROVE MpsInv'
  BY <1>2, <1>4 DEF OptFormat, flags
<1>5. CASE OptInspector \/ OptRo \/ OptRw \/ OptBad \/ \E s \in Selectors : OptKey(s)
  BY <1>2, <1>5 DEF OptInspector, OptRo, OptRw, OptBad, OptKey, flags
<1>6. ASSUME UNCHANGED <<args, mps>> PROVE MpsInv'
  BY <1>6 DEF MpsInv, MountsGiven
<1>7. CASE EndOptions \/ AddDrive \/ AddDriveFails \/ DrivesAdded \/ UNCHANGED optionsVars
  BY <1>6, <1>7 DEF EndOptions, AddDrive, AddDriveFails, DrivesAdded, flags, optionsVars
<1>8. QED
  BY <1>1, <1>3, <1>4, <1>5, <1>7
     DEF Next, Command, OptionsNext, Launch, DecryptGuest, Begin, MountGuest, sessionVars

(* What the mounts are compared with does not change after the launch.       *)
LEMMA MatchKept ==
  ASSUME UNCHANGED optionsVars, NEW n
  PROVE  /\ RoGiven' = RoGiven /\ MountsGiven' = MountsGiven /\ read_only' = read_only
         /\ \A k : MountAsked(k)' = MountAsked(k)
         /\ \A i, k : NthMount(i, k)' <=> NthMount(i, k)
<1>1. args' = args /\ config_ro' = config_ro /\ read_only' = read_only
  BY DEF optionsVars, flags
<1>2. RoGiven' = RoGiven /\ MountsGiven' = MountsGiven
  BY <1>1 DEF RoGiven, MountsGiven
<1>3. QED
  BY <1>1, <1>2 DEF MountAsked, NthMount

LEMMA MatchesKept ==
  ASSUME UNCHANGED optionsVars, UNCHANGED mounts, NEW n, MountsMatch(n)
  PROVE  MountsMatch(n)'
<1>1. args' = args /\ config_ro' = config_ro /\ mounts' = mounts
  BY DEF optionsVars, flags
<1>2. RoGiven' = RoGiven /\ MountsGiven' = MountsGiven
  BY <1>1 DEF RoGiven, MountsGiven
<1>3. ASSUME NEW i \in DOMAIN mounts
      PROVE  IF i <= n
             THEN mounts'[i].by = "i" /\ mounts'[i].options = IF RoGiven' THEN "ro" ELSE ""
             ELSE \E k \in MountsGiven' : NthMount(i - n, k)' /\ mounts'[i] = MountAsked(k)'
  <2>1. CASE i <= n
    BY <1>1, <1>2, <2>1 DEF MountsMatch
  <2>2. CASE ~(i <= n)
    <3>1. PICK k \in MountsGiven : NthMount(i - n, k) /\ mounts[i] = MountAsked(k)
      BY <2>2 DEF MountsMatch
    <3>2. NthMount(i - n, k)'
      BY <1>2, <3>1 DEF NthMount
    <3>3. MountAsked(k)' = MountAsked(k)
      BY <1>1, <1>2 DEF MountAsked
    <3>4. QED
      BY <1>1, <1>2, <2>2, <3>1, <3>2, <3>3
  <2>3. QED
    BY <2>1, <2>2
<1>4. QED
  BY <1>1, <1>3 DEF MountsMatch

LEMMA AppendAt ==
  ASSUME NEW S, NEW s \in Seq(S), NEW e \in S
  PROVE  LET n == Len(s) + 1
         IN  /\ n \in Nat /\ Len(Append(s, e)) = n /\ DOMAIN Append(s, e) = 1 .. n
             /\ Append(s, e)[n] = e
             /\ \A i \in 1 .. n : i # n => i \in DOMAIN s /\ Append(s, e)[i] = s[i]
OBVIOUS

LEMMA MountedStep ==
  ASSUME Types, Phases, CommandInv, MpsInv, MountedInv, [Next]_sessionVars
  PROVE  MountedInv'
<1>0. /\ mounts \in Seq(Mounted) /\ mps \in Seq(MountOptions) /\ mounting \in 0 .. Len(mps)
      /\ inspector \in BOOLEAN /\ read_only \in BOOLEAN /\ launched \in BOOLEAN
  <2>1. inspector \in BOOLEAN /\ read_only \in BOOLEAN /\ launched \in BOOLEAN
    BY Zenon DEF Types, Bools
  <2>2. QED
    BY <2>1 DEF Types, OptTypes, MntTypes
<1>1. ASSUME ~launched, UNCHANGED mountsVars PROVE MountedInv'
  <2>1. mp_pc' = "idle" /\ mounts' = <<>>
    BY <1>0, <1>1 DEF Phases, mountsVars
  <2>2. Len(mounts') = 0 /\ DOMAIN mounts' = {}
    BY <2>1
  <2>3. MountsMatch(0)'
    BY <2>2 DEF MountsMatch
  <2>4. QED
    BY <2>1, <2>2, <2>3 DEF MountedInv
<1>2. CASE Command
  BY <1>1, <1>2, CommandBeforeLaunch DEF Command
<1>3. ASSUME NEW s \in Selectors, OptKey(s) PROVE MountedInv'
  BY <1>0, <1>1, <1>3 DEF OptKey, Parse, Phases
<1>4. ASSUME UNCHANGED optionsVars, mounts' = mounts, mp_pc' = mp_pc, mounting' = mounting
      PROVE  MountedInv'
  <2>1. mps' = mps
    BY <1>4 DEF optionsVars
  <2>2. \A n : MountsMatch(n) => MountsMatch(n)'
    BY <1>4, MatchesKept
  <2>3. QED
    BY <1>4, <2>1, <2>2 DEF MountedInv
<1>5. CASE Launch \/ DecryptGuest \/ UNCHANGED sessionVars
  BY <1>4, <1>5 DEF Launch, DecryptGuest, sessionVars, mountsVars
<1>6. CASE Begin
  <2>1. UNCHANGED optionsVars /\ mounts' = mounts /\ mps' = mps
    BY <1>6 DEF Begin, optionsVars
  <2>2. CASE UNCHANGED <<mp_pc, mounting>>
    BY <1>4, <2>1, <2>2
  <2>3. CASE mp_pc = "idle" /\ mp_pc' = "mounting" /\ mounting' = Len(mps)
    <3>1. PICK n \in 0 .. Len(mounts) : MountsMatch(n) /\ n = Len(mounts)
      BY <2>3 DEF MountedInv
    <3>2. MountsMatch(n)'
      BY <2>1, <3>1, MatchesKept
    <3>3. QED
      BY <2>1, <2>3, <3>1, <3>2 DEF MountedInv
  <2>4. QED
    BY <1>6, <2>2, <2>3 DEF Begin
<1>7. CASE MountGuest
  <2>1. UNCHANGED optionsVars /\ mps' = mps
    BY <1>7 DEF MountGuest, optionsVars
  <2>2. CASE InspectFails \/ InspectDone \/ (\E t \in Tables : Inspect(t))
             \/ \E p \in table : MountRootFails(p)
    BY <1>4, <2>1, <2>2 DEF InspectFails, InspectDone, Inspect, MountRootFails
  <2>3. ASSUME NEW p \in table, MountRoot(p) PROVE MountedInv'
    <3>1. /\ ins_pc = "mounting" /\ mp_pc = "idle" /\ mp_pc' = "idle"
      BY <1>0, <2>3 DEF MountRoot, Phases
    <3>2. PICK n, m : n = Len(mounts) + 1 /\ mounts' = Append(mounts, m)
                      /\ m.by = "i" /\ m.options = (IF read_only THEN "ro" ELSE "") /\ m \in Mounted
      <4> DEFINE m == [by |-> "i", mountpoint |-> p, options |-> IF read_only THEN "ro" ELSE ""]
      <4>1. m.by = "i" /\ m.options = (IF read_only THEN "ro" ELSE "") /\ m \in Mounted
        BY DEF Types, MntTypes, Mounted
      <4>2. mounts' = Append(mounts, m)
        BY <2>3 DEF MountRoot
      <4> HIDE DEF m
      <4>3. QED
        BY <4>1, <4>2
    <3>3. /\ n \in Nat /\ Len(mounts') = n /\ DOMAIN mounts' = 1 .. n /\ mounts'[n] = m
          /\ \A i \in 1 .. n : i # n => i \in DOMAIN mounts /\ mounts'[i] = mounts[i]
      <4>1. mounts \in Seq(Mounted) /\ m \in Mounted /\ n = Len(mounts) + 1 /\ mounts' = Append(mounts, m)
        BY <1>0, <3>2
      <4>2. LET x == Len(mounts) + 1
            IN  /\ x \in Nat /\ Len(Append(mounts, m)) = x /\ DOMAIN Append(mounts, m) = 1 .. x
                /\ Append(mounts, m)[x] = m
                /\ \A i \in 1 .. x : i # x => i \in DOMAIN mounts /\ Append(mounts, m)[i] = mounts[i]
        BY ONLY <4>1, AppendAt
      <4>3. QED
        BY <4>1, <4>2
    <3>4. MountsMatch(Len(mounts))
      BY <3>1 DEF MountedInv
    <3>5. \A i \in DOMAIN mounts : mounts[i].by = "i" /\ mounts[i].options = IF RoGiven THEN "ro" ELSE ""
      <4>1. \A i \in DOMAIN mounts : i <= Len(mounts)
        BY <1>0
      <4>2. QED
        BY <3>4, <4>1 DEF MountsMatch
    <3>6. MountsMatch(n)'
      <4>1. (RoGiven' <=> RoGiven) /\ (read_only <=> RoGiven)
        BY <2>1, MatchKept DEF CommandInv
      <4>2. ASSUME NEW i \in DOMAIN mounts'
            PROVE  i <= n /\ mounts'[i].by = "i" /\ mounts'[i].options = IF RoGiven' THEN "ro" ELSE ""
        <5>1. i <= n /\ i \in 1 .. n
          BY <3>3
        <5>2. CASE i = n
          BY <3>2, <3>3, <4>1, <5>1, <5>2
        <5>3. CASE i # n
          BY <3>3, <3>5, <4>1, <5>1, <5>3
        <5>4. QED
          BY <5>1, <5>2, <5>3
      <4>3. QED
        BY <4>2 DEF MountsMatch
    <3>7. QED
      BY <3>1, <3>3, <3>6 DEF MountedInv
  <2>4. CASE MountMp
    <3>1. PICK n \in 0 .. Len(mounts) : MountsMatch(n) /\ Len(mounts) + mounting = n + Len(mps)
      BY <2>4 DEF MountMp, MountedInv
    <3>2. PICK k \in MountsGiven :
            /\ args[k].mount = mps[mounting]
            /\ Cardinality({j \in MountsGiven : j <= k}) = Len(mps) + 1 - mounting
      <4>1. mounting \in DOMAIN mps
        BY <1>0, <2>4 DEF MountMp
      <4>2. QED
        BY <4>1 DEF MpsInv
    <3>3. Len(mounts) + 1 - n = Len(mps) + 1 - mounting
      BY <1>0, <3>1
    <3>4. NthMount(Len(mounts) + 1 - n, k)
      BY <3>2, <3>3 DEF NthMount
    <3>5. mounts' = Append(mounts, MountAsked(k))
      <4>1. read_only <=> RoGiven
        BY DEF CommandInv
      <4>2. mounts' = Append(mounts, [by |-> "m", mountpoint |-> args[k].mount.mountpoint,
                                      options |-> OptionsOf(args[k].mount)])
        BY <2>4, <3>2 DEF MountMp
      <4>3. MountAsked(k).options = OptionsOf(args[k].mount)
        BY <4>1 DEF MountAsked, OptionsOf
      <4>4. MountAsked(k) = [by |-> "m", mountpoint |-> args[k].mount.mountpoint,
                             options |-> MountAsked(k).options]
        BY DEF MountAsked
      <4>5. QED
        BY <4>2, <4>3, <4>4
    <3>6. PICK e, x : e = MountAsked(k) /\ x = Len(mounts) + 1
      OBVIOUS
    <3>7. /\ x \in Nat /\ Len(mounts') = x /\ DOMAIN mounts' = 1 .. x /\ mounts'[x] = e /\ x > n
          /\ \A i \in 1 .. x : i # x => i \in DOMAIN mounts /\ mounts'[i] = mounts[i]
      BY <1>0, <3>1, <3>5, <3>6
    <3>8. /\ RoGiven' = RoGiven /\ MountsGiven' = MountsGiven
          /\ \A j : MountAsked(j)' = MountAsked(j)
          /\ \A i, j : NthMount(i, j)' <=> NthMount(i, j)
      BY <2>1, MatchKept
    <3>9. MountsMatch(n)'
      <4>1. ASSUME NEW i \in DOMAIN mounts'
            PROVE  IF i <= n
                   THEN mounts'[i].by = "i" /\ mounts'[i].options = IF RoGiven' THEN "ro" ELSE ""
                   ELSE \E j \in MountsGiven' : NthMount(i - n, j)' /\ mounts'[i] = MountAsked(j)'
        <5>1. CASE i = x
          <6>1. ~(i <= n)
            BY <3>1, <3>7, <5>1
          <6>2. NthMount(i - n, k)
            BY <3>4, <3>6, <5>1
          <6>3. k \in MountsGiven' /\ NthMount(i - n, k)' /\ mounts'[i] = MountAsked(k)'
            BY <3>6, <3>7, <3>8, <5>1, <6>2
          <6>4. QED
            BY <6>1, <6>3
        <5>2. CASE i # x
          <6>1. i \in DOMAIN mounts /\ mounts'[i] = mounts[i]
            BY <3>7, <5>2
          <6>2. CASE i <= n
            BY <3>1, <3>8, <6>1, <6>2 DEF MountsMatch
          <6>3. CASE ~(i <= n)
            <7>1. PICK j \in MountsGiven : NthMount(i - n, j) /\ mounts[i] = MountAsked(j)
              BY <3>1, <6>1, <6>3 DEF MountsMatch
            <7>2. j \in MountsGiven' /\ NthMount(i - n, j)' /\ mounts'[i] = MountAsked(j)'
              BY <3>8, <6>1, <7>1
            <7>3. QED
              BY <6>3, <7>2
          <6>4. QED
            BY <6>2, <6>3
        <5>3. QED
          BY <5>1, <5>2
      <4>2. QED
        BY <4>1 DEF MountsMatch
    <3>10. mp_pc' = "mounting" /\ mounting' = mounting - 1
      BY <2>4 DEF MountMp
    <3>11. n \in 0 .. Len(mounts') /\ Len(mounts') + mounting' = n + Len(mps')
      <4>1. Len(mounts') = Len(mounts) + 1 /\ Len(mounts) \in Nat /\ Len(mps) \in Nat
        BY <1>0, <3>6, <3>7
      <4>2. QED
        BY <1>0, <2>1, <3>1, <3>10, <4>1
    <3>12. QED
      BY <3>9, <3>10, <3>11 DEF MountedInv
  <2>5. CASE MountMpFails \/ MpsDone
    <3>1. /\ mp_pc = "mounting" /\ mp_pc' \in {"exit", "done"} /\ mounts' = mounts
          /\ mounting' = mounting /\ (mp_pc' = "done" => mounting = 0)
      BY <2>5 DEF MountMpFails, MpsDone
    <3>2. PICK n \in 0 .. Len(mounts) : MountsMatch(n) /\ Len(mounts) + mounting = n + Len(mps)
      BY <3>1 DEF MountedInv
    <3>3. MountsMatch(n)'
      BY <2>1, <3>1, <3>2, MatchesKept
    <3>4. QED
      BY <2>1, <3>1, <3>2, <3>3 DEF MountedInv
  <2>6. QED
    BY <1>7, <2>2, <2>3, <2>4, <2>5 DEF MountGuest, MountsNext
<1>8. QED
  BY <1>2, <1>3, <1>5, <1>6, <1>7 DEF Next

-----------------------------------------------------------------------------
(* The names of logical volumes, by induction on their length.               *)

LEMMA NatWF == IsWellFoundedOn({p \in Nat \X Nat : p[1] < p[2]}, Nat)
BY NatLessThanWellFounded DEF OpToRel, IsWellFoundedOn

LEMMA Induction ==
  ASSUME NEW T, 0 \in T, \A n \in Nat : n \in T => n + 1 \in T
  PROVE  Nat \subseteq T
<1> DEFINE R == {p \in Nat \X Nat : p[1] < p[2]}
<1> SUFFICES ASSUME Nat \ T # {} PROVE FALSE
  OBVIOUS
<1>1. PICK x \in Nat \ T : \A y \in Nat \ T : ~ (<<y, x>> \in R)
  BY NatWF, WFMin
<1>2. x # 0 /\ x - 1 \in Nat /\ x - 1 < x /\ x = (x - 1) + 1
  BY <1>1
<1>3. <<x - 1, x>> \in R
  BY <1>2, <1>1
<1> QED
  BY <1>1, <1>2, <1>3

LEMMA NamesInduction ==
  ASSUME NEW C, NEW T, <<>> \in T, \A s \in Seq(C), c \in C : s \in T => Append(s, c) \in T
  PROVE  Seq(C) \subseteq T
<1> DEFINE N == {n \in Nat : \A s \in Seq(C) : Len(s) = n => s \in T}
<1>1. 0 \in N
  <2>1. ASSUME NEW s \in Seq(C), Len(s) = 0 PROVE s \in T
    <3>1. s = <<>>
      BY <2>1
    <3> QED
      BY <3>1
  <2> QED
    BY <2>1
<1>2. ASSUME NEW n \in Nat, n \in N PROVE n + 1 \in N
  <2>1. ASSUME NEW s \in Seq(C), Len(s) = n + 1 PROVE s \in T
    <3>1. PICK t : t = SubSeq(s, 1, n)
      OBVIOUS
    <3>2. PICK c : c = s[n + 1]
      OBVIOUS
    <3>3. t \in Seq(C) /\ Len(t) = n /\ c \in C
      BY <2>1, <3>1, <3>2
    <3>4. s = Append(t, c)
      BY <2>1, <3>1, <3>2
    <3> QED
      BY <1>2, <3>3, <3>4
  <2> QED
    BY <2>1
<1>3. Nat \subseteq N
  <2> HIDE DEF N
  <2> QED
    BY <1>1, <1>2, Induction
<1>4. ASSUME NEW s \in Seq(C) PROVE s \in T
  <2>1. Len(s) \in Nat
    OBVIOUS
  <2> QED
    BY <1>3, <2>1
<1> QED
  BY <1>4

(* A recursion over the positions of a name has a value at each of them.     *)
RecursionSteps(n, T) == [1 .. n -> [T -> T]]

Recursions(n, T, b, F) ==
  {g \in [0 .. n -> T] : g[0] = b /\ \A i \in 1 .. n : g[i] = F[i][g[i - 1]]}

LEMMA Recursion ==
  ASSUME NEW n \in Nat, NEW T, NEW b \in T, NEW F \in RecursionSteps(n, T)
  PROVE  Recursions(n, T, b, F) # {}
<1> USE DEF RecursionSteps
<1> DEFINE Partial(k) == \E g \in [0 .. k -> T] :
                           g[0] = b /\ \A i \in 1 .. k : g[i] = F[i][g[i - 1]]
           K == {k \in Nat : k <= n => Partial(k)}
<1>1. 0 \in K
  <2>1. PICK g : g = [i \in 0 .. 0 |-> b]
    OBVIOUS
  <2>2. g \in [0 .. 0 -> T] /\ g[0] = b
    BY <2>1
  <2>3. \A i \in 1 .. 0 : FALSE
    OBVIOUS
  <2> QED
    BY <2>2, <2>3
<1>2. ASSUME NEW k \in Nat, k \in K PROVE k + 1 \in K
  <2> SUFFICES ASSUME k + 1 <= n PROVE Partial(k + 1)
    OBVIOUS
  <2>1. PICK g \in [0 .. k -> T] : g[0] = b /\ \A i \in 1 .. k : g[i] = F[i][g[i - 1]]
    BY <1>2
  <2>2. PICK next : next = F[k + 1][g[k]]
    OBVIOUS
  <2>3. next \in T
    <3>1. F[k + 1] \in [T -> T]
      OBVIOUS
    <3>2. g[k] \in T
      BY <2>1
    <3> QED
      BY <2>2, <3>1, <3>2
  <2>4. PICK h : h = [i \in 0 .. k + 1 |-> IF i = k + 1 THEN next ELSE g[i]]
    OBVIOUS
  <2>5. h \in [0 .. k + 1 -> T] /\ h[0] = b
    BY <2>1, <2>3, <2>4
  <2>6. ASSUME NEW i \in 1 .. k + 1 PROVE h[i] = F[i][h[i - 1]]
    <3>1. h[i - 1] = g[i - 1]
      BY <2>4
    <3>2. CASE i = k + 1
      <4>1. h[i] = next /\ i - 1 = k
        BY <2>4, <3>2
      <4> QED
        BY <2>2, <3>1, <3>2, <4>1
    <3>3. CASE i \in 1 .. k
      <4>1. h[i] = g[i]
        BY <2>4, <3>3
      <4> QED
        BY <2>1, <3>1, <3>3, <4>1
    <3> QED
      BY <3>2, <3>3
  <2> QED
    BY <2>5, <2>6
<1>3. Nat \subseteq K
  <2> HIDE DEF K
  <2> QED
    BY <1>1, <1>2, Induction
<1>4. n \in K
  BY <1>3
<1> QED
  BY <1>4 DEF Recursions

ScanStates(C) == [vg : Seq(C), lv : Seq(C), hyphen : BOOLEAN, seen : BOOLEAN, malformed : BOOLEAN]

LEMMA ScanType ==
  ASSUME NEW C, "-" \in C, NEW s \in ScanStates(C), NEW c \in C
  PROVE  Scan(s, c) \in ScanStates(C)
<1>1. ASSUME NEW t \in ScanStates(C), NEW x \in C PROVE Emit(t, x) \in ScanStates(C)
  <2>1. t.vg \in Seq(C) /\ t.lv \in Seq(C)
    BY DEF ScanStates
  <2>2. Append(t.vg, x) \in Seq(C) /\ Append(t.lv, x) \in Seq(C)
    BY <2>1
  <2>3. \A y \in Seq(C) : [t EXCEPT !.vg = y] \in ScanStates(C) /\ [t EXCEPT !.lv = y] \in ScanStates(C)
    BY DEF ScanStates
  <2> QED
    BY <2>2, <2>3 DEF Emit
<1>2. Separate(s) \in ScanStates(C)
  BY DEF Separate, ScanStates
<1>3. [s EXCEPT !.hyphen = FALSE] \in ScanStates(C) /\ [s EXCEPT !.hyphen = TRUE] \in ScanStates(C)
  BY DEF ScanStates
<1> QED
  BY <1>1, <1>2, <1>3 DEF Scan

LEMMA StartType == \A C : ScanStart \in ScanStates(C)
BY DEF ScanStart, ScanStates

(* The function by which Scanned is defined.                                 *)
LEMMA ScannedBy ==
  ASSUME NEW C, "-" \in C, NEW name \in Seq(C)
  PROVE  \E f \in [0 .. Len(name) -> ScanStates(C)] :
           /\ f[0] = ScanStart
           /\ \A i \in 1 .. Len(name) : f[i] = Scan(f[i - 1], name[i])
           /\ Scanned(name) = f[Len(name)]
<1> DEFINE state[n \in 0 .. Len(name)] == IF n = 0 THEN ScanStart ELSE Scan(state[n - 1], name[n])
<1>0. Len(name) \in Nat /\ \A i \in 1 .. Len(name) : name[i] \in C
  OBVIOUS
<1>1. PICK F : F = [i \in 1 .. Len(name) |-> [s \in ScanStates(C) |-> Scan(s, name[i])]]
  OBVIOUS
<1>2. F \in [1 .. Len(name) -> [ScanStates(C) -> ScanStates(C)]]
  BY <1>0, <1>1, ScanType
<1>3. PICK g \in [0 .. Len(name) -> ScanStates(C)] :
        g[0] = ScanStart /\ \A i \in 1 .. Len(name) : g[i] = F[i][g[i - 1]]
  <2>1. F \in RecursionSteps(Len(name), ScanStates(C))
    BY <1>2 DEF RecursionSteps
  <2>2. Recursions(Len(name), ScanStates(C), ScanStart, F) # {}
    BY <1>0, <2>1, StartType, Recursion
  <2> QED
    BY <2>2 DEF Recursions
<1>4. ASSUME NEW i \in 1 .. Len(name) PROVE g[i] = Scan(g[i - 1], name[i])
  <2>1. g[i - 1] \in ScanStates(C)
    BY <1>0
  <2> QED
    BY <1>1, <1>3, <2>1
<1>5. g = [n \in 0 .. Len(name) |-> IF n = 0 THEN ScanStart ELSE Scan(g[n - 1], name[n])]
  <2>1. ASSUME NEW n \in 0 .. Len(name)
        PROVE  g[n] = IF n = 0 THEN ScanStart ELSE Scan(g[n - 1], name[n])
    BY <1>3, <1>4
  <2> QED
    BY <2>1
<1>6. state = CHOOSE h : h = [n \in 0 .. Len(name) |->
                                IF n = 0 THEN ScanStart ELSE Scan(h[n - 1], name[n])]
  BY DEF state
<1>7. Scanned(name) = state[Len(name)]
  BY DEF Scanned
<1> HIDE DEF state
<1>8. state = [n \in 0 .. Len(name) |-> IF n = 0 THEN ScanStart ELSE Scan(state[n - 1], name[n])]
  BY <1>5, <1>6
<1>9. state[0] = ScanStart /\ \A i \in 1 .. Len(name) : state[i] = Scan(state[i - 1], name[i])
  <2>1. ASSUME NEW n \in 0 .. Len(name)
        PROVE  state[n] = IF n = 0 THEN ScanStart ELSE Scan(state[n - 1], name[n])
    BY <1>8
  <2>2. 0 \in 0 .. Len(name) /\ \A i \in 1 .. Len(name) : i \in 0 .. Len(name) /\ i # 0
    BY <1>0
  <2> QED
    BY <2>1, <2>2
<1>10. ASSUME NEW n \in 0 .. Len(name) PROVE state[n] = g[n]
  <2> DEFINE K == {k \in Nat : k <= Len(name) => state[k] = g[k]}
  <2>1. 0 \in K
    BY <1>3, <1>9
  <2>2. ASSUME NEW k \in Nat, k \in K PROVE k + 1 \in K
    <3> SUFFICES ASSUME k + 1 <= Len(name) PROVE state[k + 1] = g[k + 1]
      OBVIOUS
    <3>1. k + 1 \in 1 .. Len(name) /\ (k + 1) - 1 = k /\ state[k] = g[k]
      BY <1>0, <2>2
    <3>2. state[k + 1] = Scan(state[(k + 1) - 1], name[k + 1])
      BY <1>9, <3>1
    <3>3. g[k + 1] = Scan(g[(k + 1) - 1], name[k + 1])
      BY <1>4, <3>1
    <3> QED
      BY <3>1, <3>2, <3>3
  <2>3. Nat \subseteq K
    <3> HIDE DEF K
    <3> QED
      BY <2>1, <2>2, Induction
  <2> QED
    BY <1>0, <2>3
<1>11. Scanned(name) = g[Len(name)]
  BY <1>0, <1>7, <1>10
<1> QED
  BY <1>3, <1>4, <1>11

LEMMA ScannedMore ==
  ASSUME NEW C, "-" \in C
  PROVE  /\ Scanned(<<>>) = ScanStart
         /\ \A s \in Seq(C) : Scanned(s) \in ScanStates(C)
         /\ \A s \in Seq(C), c \in C : Scanned(Append(s, c)) = Scan(Scanned(s), c)
<1>1. Scanned(<<>>) = ScanStart
  <2>1. PICK e : e = <<>>
    OBVIOUS
  <2>2. e \in Seq(C) /\ Len(e) = 0
    BY <2>1
  <2>3. PICK f : f[0] = ScanStart /\ Scanned(e) = f[Len(e)]
    BY <2>2, ScannedBy
  <2> QED
    BY <2>1, <2>2, <2>3
<1>2. ASSUME NEW s \in Seq(C) PROVE Scanned(s) \in ScanStates(C)
  <2>1. PICK f \in [0 .. Len(s) -> ScanStates(C)] : Scanned(s) = f[Len(s)]
    BY ScannedBy
  <2>2. Len(s) \in 0 .. Len(s)
    OBVIOUS
  <2> QED
    BY <2>1, <2>2
<1>3. ASSUME NEW s \in Seq(C), NEW c \in C PROVE Scanned(Append(s, c)) = Scan(Scanned(s), c)
  <2>1. PICK t : t = Append(s, c)
    OBVIOUS
  <2>2. PICK n \in Nat : n = Len(s)
    OBVIOUS
  <2>3. t \in Seq(C) /\ Len(t) = n + 1 /\ t[n + 1] = c /\ \A i \in 1 .. n : t[i] = s[i]
    BY <2>1, <2>2
  <2>4. PICK f : /\ f[0] = ScanStart
                 /\ \A i \in 1 .. n : f[i] = Scan(f[i - 1], s[i])
                 /\ Scanned(s) = f[n]
    BY <2>2, ScannedBy
  <2>5. PICK g : /\ g[0] = ScanStart
                 /\ \A i \in 1 .. n + 1 : g[i] = Scan(g[i - 1], t[i])
                 /\ Scanned(t) = g[n + 1]
    <3>1. \E g : /\ g[0] = ScanStart
                 /\ \A i \in 1 .. Len(t) : g[i] = Scan(g[i - 1], t[i])
                 /\ Scanned(t) = g[Len(t)]
      BY <2>3, ScannedBy
    <3> QED
      BY <2>3, <3>1
  <2> DEFINE K == {k \in Nat : k <= n => f[k] = g[k]}
  <2>6. 0 \in K
    BY <2>4, <2>5
  <2>7. ASSUME NEW k \in Nat, k \in K PROVE k + 1 \in K
    <3> SUFFICES ASSUME k + 1 <= n PROVE f[k + 1] = g[k + 1]
      OBVIOUS
    <3>1. k + 1 \in 1 .. n /\ k + 1 \in 1 .. n + 1 /\ (k + 1) - 1 = k /\ f[k] = g[k]
      BY <2>7
    <3>2. f[k + 1] = Scan(f[(k + 1) - 1], s[k + 1])
      BY <2>4, <3>1
    <3>3. g[k + 1] = Scan(g[(k + 1) - 1], t[k + 1])
      BY <2>5, <3>1
    <3>4. t[k + 1] = s[k + 1]
      BY <2>3, <3>1
    <3> QED
      BY <3>1, <3>2, <3>3, <3>4
  <2>8. Nat \subseteq K
    <3> HIDE DEF K
    <3> QED
      BY <2>6, <2>7, Induction
  <2>9. f[n] = g[n]
    BY <2>8
  <2>10. g[n + 1] = Scan(g[n], t[n + 1])
    <3>1. n + 1 \in 1 .. n + 1 /\ (n + 1) - 1 = n
      OBVIOUS
    <3>2. g[n + 1] = Scan(g[(n + 1) - 1], t[n + 1])
      BY <2>5, <3>1
    <3> QED
      BY <3>1, <3>2
  <2> QED
    BY <2>1, <2>3, <2>4, <2>5, <2>9, <2>10
<1> QED
  BY <1>1, <1>2, <1>3

(* A hyphen in a name is doubled.                                            *)
Escaped(c) == IF c = "-" THEN <<"-", "-">> ELSE <<c>>

(* The function by which Escape is defined.                                  *)
LEMMA EscapedBy ==
  ASSUME NEW C, "-" \in C, NEW name \in Seq(C)
  PROVE  \E f \in [0 .. Len(name) -> Seq(C)] :
           /\ f[0] = <<>>
           /\ \A i \in 1 .. Len(name) : f[i] = f[i - 1] \o Escaped(name[i])
           /\ Escape(name) = f[Len(name)]
<1> DEFINE escaped[n \in 0 .. Len(name)] ==
             IF n = 0 THEN <<>> ELSE escaped[n - 1] \o Escaped(name[n])
<1>0. Len(name) \in Nat /\ \A i \in 1 .. Len(name) : name[i] \in C
  OBVIOUS
<1>1. \A c \in C : Escaped(c) \in Seq(C)
  BY DEF Escaped
<1>2. PICK F : F = [i \in 1 .. Len(name) |-> [s \in Seq(C) |-> s \o Escaped(name[i])]]
  OBVIOUS
<1>3. F \in RecursionSteps(Len(name), Seq(C))
  <2>1. ASSUME NEW i \in 1 .. Len(name), NEW s \in Seq(C) PROVE s \o Escaped(name[i]) \in Seq(C)
    <3>1. Escaped(name[i]) \in Seq(C)
      BY <1>0, <1>1
    <3> QED
      BY <3>1
  <2> QED
    BY <1>2, <2>1 DEF RecursionSteps
<1>4. PICK g \in [0 .. Len(name) -> Seq(C)] :
        g[0] = <<>> /\ \A i \in 1 .. Len(name) : g[i] = F[i][g[i - 1]]
  <2>1. <<>> \in Seq(C)
    OBVIOUS
  <2>2. Recursions(Len(name), Seq(C), <<>>, F) # {}
    BY <1>0, <1>3, <2>1, Recursion
  <2> QED
    BY <2>2 DEF Recursions
<1>5. ASSUME NEW i \in 1 .. Len(name) PROVE g[i] = g[i - 1] \o Escaped(name[i])
  <2>1. g[i - 1] \in Seq(C)
    BY <1>0
  <2> QED
    BY <1>2, <1>4, <2>1
<1>6. g = [n \in 0 .. Len(name) |-> IF n = 0 THEN <<>> ELSE g[n - 1] \o Escaped(name[n])]
  <2>1. ASSUME NEW n \in 0 .. Len(name)
        PROVE  g[n] = IF n = 0 THEN <<>> ELSE g[n - 1] \o Escaped(name[n])
    <3>1. n = 0 \/ n \in 1 .. Len(name)
      BY <1>0
    <3>2. n \in 1 .. Len(name) => n # 0
      BY <1>0
    <3>3. n \in 1 .. Len(name) => g[n] = g[n - 1] \o Escaped(name[n])
      BY <1>5
    <3> QED
      BY <1>4, <3>1, <3>2, <3>3
  <2> QED
    BY <2>1
<1>7. escaped = CHOOSE h : h = [n \in 0 .. Len(name) |->
                                  IF n = 0 THEN <<>> ELSE h[n - 1] \o Escaped(name[n])]
  BY DEF escaped
<1>8. Escape(name) = escaped[Len(name)]
  BY DEF Escape, Escaped
<1> HIDE DEF escaped
<1>9. escaped = [n \in 0 .. Len(name) |->
                   IF n = 0 THEN <<>> ELSE escaped[n - 1] \o Escaped(name[n])]
  BY <1>6, <1>7
<1>10. escaped[0] = <<>>
       /\ \A i \in 1 .. Len(name) : escaped[i] = escaped[i - 1] \o Escaped(name[i])
  <2>1. ASSUME NEW n \in 0 .. Len(name)
        PROVE  escaped[n] = IF n = 0 THEN <<>> ELSE escaped[n - 1] \o Escaped(name[n])
    BY <1>9
  <2>2. 0 \in 0 .. Len(name) /\ \A i \in 1 .. Len(name) : i \in 0 .. Len(name) /\ i # 0
    BY <1>0
  <2> QED
    BY <2>1, <2>2
<1>11. ASSUME NEW n \in 0 .. Len(name) PROVE escaped[n] = g[n]
  <2> DEFINE K == {k \in Nat : k <= Len(name) => escaped[k] = g[k]}
  <2>1. 0 \in K
    BY <1>4, <1>10
  <2>2. ASSUME NEW k \in Nat, k \in K PROVE k + 1 \in K
    <3> SUFFICES ASSUME k + 1 <= Len(name) PROVE escaped[k + 1] = g[k + 1]
      OBVIOUS
    <3>1. k + 1 \in 1 .. Len(name) /\ (k + 1) - 1 = k /\ escaped[k] = g[k]
      BY <1>0, <2>2
    <3>2. escaped[k + 1] = escaped[(k + 1) - 1] \o Escaped(name[k + 1])
      BY <1>10, <3>1
    <3>3. g[k + 1] = g[(k + 1) - 1] \o Escaped(name[k + 1])
      BY <1>5, <3>1
    <3> QED
      BY <3>1, <3>2, <3>3
  <2>3. Nat \subseteq K
    <3> HIDE DEF K
    <3> QED
      BY <2>1, <2>2, Induction
  <2> QED
    BY <1>0, <2>3
<1>12. Escape(name) = g[Len(name)]
  BY <1>0, <1>8, <1>11
<1> QED
  BY <1>4, <1>5, <1>12

LEMMA EscapeMore ==
  ASSUME NEW C, "-" \in C
  PROVE  /\ Escape(<<>>) = <<>>
         /\ \A s \in Seq(C) : Escape(s) \in Seq(C)
         /\ \A s \in Seq(C), c \in C : Escape(Append(s, c)) = Escape(s) \o Escaped(c)
<1>1. Escape(<<>>) = <<>>
  <2>1. PICK e : e = <<>>
    OBVIOUS
  <2>2. e \in Seq(C) /\ Len(e) = 0
    BY <2>1
  <2>3. PICK f : f[0] = <<>> /\ Escape(e) = f[Len(e)]
    BY <2>2, EscapedBy
  <2> QED
    BY <2>1, <2>2, <2>3
<1>2. ASSUME NEW s \in Seq(C) PROVE Escape(s) \in Seq(C)
  <2>1. PICK f \in [0 .. Len(s) -> Seq(C)] : Escape(s) = f[Len(s)]
    BY EscapedBy
  <2>2. Len(s) \in 0 .. Len(s)
    OBVIOUS
  <2> QED
    BY <2>1, <2>2
<1>3. ASSUME NEW s \in Seq(C), NEW c \in C PROVE Escape(Append(s, c)) = Escape(s) \o Escaped(c)
  <2>1. PICK t : t = Append(s, c)
    OBVIOUS
  <2>2. PICK n \in Nat : n = Len(s)
    OBVIOUS
  <2>3. t \in Seq(C) /\ Len(t) = n + 1 /\ t[n + 1] = c /\ \A i \in 1 .. n : t[i] = s[i]
    BY <2>1, <2>2
  <2>4. PICK f : /\ f[0] = <<>>
                 /\ \A i \in 1 .. n : f[i] = f[i - 1] \o Escaped(s[i])
                 /\ Escape(s) = f[n]
    BY <2>2, EscapedBy
  <2>5. PICK g : /\ g[0] = <<>>
                 /\ \A i \in 1 .. n + 1 : g[i] = g[i - 1] \o Escaped(t[i])
                 /\ Escape(t) = g[n + 1]
    <3>1. \E g : /\ g[0] = <<>>
                 /\ \A i \in 1 .. Len(t) : g[i] = g[i - 1] \o Escaped(t[i])
                 /\ Escape(t) = g[Len(t)]
      BY <2>3, EscapedBy
    <3> QED
      BY <2>3, <3>1
  <2> DEFINE K == {k \in Nat : k <= n => f[k] = g[k]}
  <2>6. 0 \in K
    BY <2>4, <2>5
  <2>7. ASSUME NEW k \in Nat, k \in K PROVE k + 1 \in K
    <3> SUFFICES ASSUME k + 1 <= n PROVE f[k + 1] = g[k + 1]
      OBVIOUS
    <3>1. k + 1 \in 1 .. n /\ k + 1 \in 1 .. n + 1 /\ (k + 1) - 1 = k /\ f[k] = g[k]
      BY <2>7
    <3>2. f[k + 1] = f[(k + 1) - 1] \o Escaped(s[k + 1])
      BY <2>4, <3>1
    <3>3. g[k + 1] = g[(k + 1) - 1] \o Escaped(t[k + 1])
      BY <2>5, <3>1
    <3>4. t[k + 1] = s[k + 1]
      BY <2>3, <3>1
    <3> QED
      BY <3>1, <3>2, <3>3, <3>4
  <2>8. Nat \subseteq K
    <3> HIDE DEF K
    <3> QED
      BY <2>6, <2>7, Induction
  <2>9. f[n] = g[n]
    BY <2>8
  <2>10. g[n + 1] = g[n] \o Escaped(t[n + 1])
    <3>1. n + 1 \in 1 .. n + 1 /\ (n + 1) - 1 = n
      OBVIOUS
    <3>2. g[n + 1] = g[(n + 1) - 1] \o Escaped(t[n + 1])
      BY <2>5, <3>1
    <3> QED
      BY <3>1, <3>2
  <2> QED
    BY <2>1, <2>3, <2>4, <2>5, <2>9, <2>10
<1> QED
  BY <1>1, <1>2, <1>3

(* What has been read of a name, except for a hyphen that is buffered.       *)
ReadOf(s) ==
  IF s.seen THEN (Escape(s.vg) \o <<"-">>) \o Escape(s.lv) ELSE Escape(s.vg)

LEMMA ReadMore ==
  ASSUME NEW C, "-" \in C, NEW s \in ScanStates(C), NEW c \in C
  PROVE  ReadOf(s) \in Seq(C) /\ ReadOf(Emit(s, c)) = ReadOf(s) \o Escaped(c)
<1>1. s.vg \in Seq(C) /\ s.lv \in Seq(C) /\ s.seen \in BOOLEAN
  BY DEF ScanStates
<1>2. PICK v, l, e : v = Escape(s.vg) /\ l = Escape(s.lv) /\ e = Escaped(c)
  OBVIOUS
<1>3. v \in Seq(C) /\ l \in Seq(C)
  BY <1>1, <1>2, EscapeMore
<1>4. e \in Seq(C)
  BY <1>2 DEF Escaped
<1>5. Escape(Append(s.vg, c)) = v \o e /\ Escape(Append(s.lv, c)) = l \o e
  BY <1>1, <1>2, EscapeMore
<1>6. CASE s.seen
  <2>1. Emit(s, c).seen /\ Emit(s, c).vg = s.vg /\ Emit(s, c).lv = Append(s.lv, c)
    BY <1>6 DEF Emit, ScanStates
  <2>2. ReadOf(s) = (v \o <<"-">>) \o l
    BY <1>2, <1>6 DEF ReadOf
  <2>3. ReadOf(Emit(s, c)) = (v \o <<"-">>) \o (l \o e)
    BY <1>2, <1>5, <2>1 DEF ReadOf
  <2>4. v \o <<"-">> \in Seq(C)
    BY <1>3
  <2>5. \A a \in Seq(C) : a \o l \in Seq(C) /\ a \o (l \o e) = (a \o l) \o e
    BY <1>3, <1>4
  <2> QED
    BY <1>2, <2>2, <2>3, <2>4, <2>5
<1>7. CASE ~ s.seen
  <2>1. ~ Emit(s, c).seen /\ Emit(s, c).vg = Append(s.vg, c)
    BY <1>7 DEF Emit, ScanStates
  <2> QED
    BY <1>2, <1>3, <1>5, <1>7, <2>1 DEF ReadOf
<1> QED
  BY <1>1, <1>6, <1>7

(* A name that is not malformed is what was read of it and a buffered hyphen.*)
LEMMA ScannedIsRead ==
  ASSUME NEW C, "-" \in C, NEW name \in Seq(C), ~ Scanned(name).malformed
  PROVE  /\ Scanned(name).hyphen => name = Append(ReadOf(Scanned(name)), "-")
         /\ ~ Scanned(name).hyphen => name = ReadOf(Scanned(name))
<1> DEFINE Read(n, s) == /\ ~ s.seen => s.lv = <<>>
                         /\ ~ s.malformed => n = IF s.hyphen THEN Append(ReadOf(s), "-") ELSE ReadOf(s)
           T == {n \in Seq(C) : Read(n, Scanned(n))}
<1>1. <<>> \in T
  <2>1. PICK e : e = <<>>
    OBVIOUS
  <2>2. e \in Seq(C) /\ Scanned(e) = ScanStart /\ Escape(e) = e
    BY <2>1, ScannedMore, EscapeMore
  <2>3. ScanStart.vg = e /\ ScanStart.lv = e /\ ~ ScanStart.seen /\ ~ ScanStart.hyphen
    BY <2>1 DEF ScanStart
  <2>4. ReadOf(ScanStart) = e
    BY <2>2, <2>3 DEF ReadOf
  <2> QED
    BY <2>1, <2>2, <2>3, <2>4
<1>2. ASSUME NEW n \in Seq(C), NEW c \in C, n \in T PROVE Append(n, c) \in T
  <2>1. PICK s : s = Scanned(n)
    OBVIOUS
  <2>2. PICK t : t = Scan(s, c)
    OBVIOUS
  <2>3. s \in ScanStates(C) /\ Scanned(Append(n, c)) = t
    BY <2>1, <2>2, ScannedMore
  <2>4. Read(n, s)
    BY <1>2, <2>1
  <2>5. Append(n, c) \in Seq(C)
    OBVIOUS
  <2>6. PICK r : r = ReadOf(s)
    OBVIOUS
  <2>7. r \in Seq(C)
    BY <2>3, <2>6, ReadMore
  <2>8. /\ s.seen \in BOOLEAN /\ s.hyphen \in BOOLEAN /\ s.malformed \in BOOLEAN
        /\ s.lv \in Seq(C) /\ s.vg \in Seq(C)
    BY <2>3 DEF ScanStates
  <2>9. CASE s.malformed
    <3>1. t = s
      BY <2>2, <2>9 DEF Scan
    <3> QED
      BY <2>3, <2>4, <2>5, <2>9, <3>1
  <2>10. CASE ~ s.malformed /\ c = "-" /\ s.hyphen
    <3>1. PICK u : u = [s EXCEPT !.hyphen = FALSE]
      OBVIOUS
    <3>2. u \in ScanStates(C) /\ u.seen = s.seen /\ u.vg = s.vg /\ u.lv = s.lv /\ ~ u.hyphen
      BY <2>3, <3>1 DEF ScanStates
    <3>3. t = Emit(u, c)
      BY <2>2, <2>10, <3>1 DEF Scan
    <3>4. ~ t.hyphen /\ t.seen = s.seen /\ (~ t.seen => t.lv = s.lv)
      BY <2>8, <3>2, <3>3 DEF Emit, ScanStates
    <3>5. ReadOf(u) = r
      BY <2>6, <3>2 DEF ReadOf
    <3>6. ReadOf(t) = r \o <<"-", "-">>
      BY <2>10, <3>2, <3>3, <3>5, ReadMore DEF Escaped
    <3>7. n = Append(r, "-")
      BY <2>4, <2>6, <2>10
    <3>8. Append(n, "-") = r \o <<"-", "-">>
      BY <2>7, <3>7
    <3> QED
      BY <2>3, <2>4, <2>5, <2>10, <3>4, <3>6, <3>8
  <2>11. CASE ~ s.malformed /\ c = "-" /\ ~ s.hyphen
    <3>1. t = [s EXCEPT !.hyphen = TRUE]
      BY <2>2, <2>11 DEF Scan
    <3>2. t.hyphen /\ t.seen = s.seen /\ t.lv = s.lv /\ t.vg = s.vg
      BY <2>3, <3>1 DEF ScanStates
    <3>3. ReadOf(t) = r
      BY <2>6, <3>2 DEF ReadOf
    <3>4. n = r
      BY <2>4, <2>6, <2>11
    <3> QED
      BY <2>3, <2>4, <2>5, <2>11, <3>2, <3>3, <3>4
  <2>12. CASE ~ s.malformed /\ c # "-" /\ ~ s.hyphen
    <3>1. t = Emit(s, c)
      BY <2>2, <2>12 DEF Scan
    <3>2. ~ t.hyphen /\ t.seen = s.seen /\ (~ t.seen => t.lv = s.lv)
      BY <2>3, <2>8, <2>12, <3>1 DEF Emit, ScanStates
    <3>3. ReadOf(t) = r \o <<c>>
      BY <2>3, <2>6, <2>12, <3>1, ReadMore DEF Escaped
    <3>4. Append(n, c) = r \o <<c>>
      BY <2>4, <2>6, <2>7, <2>12
    <3> QED
      BY <2>3, <2>4, <2>5, <3>2, <3>3, <3>4
  <2>13. CASE ~ s.malformed /\ c # "-" /\ s.hyphen /\ (s.seen \/ s.vg = <<>>)
    <3>1. PICK u : u = Separate(s)
      OBVIOUS
    <3>2. u = [s EXCEPT !.malformed = TRUE]
      BY <2>13, <3>1 DEF Separate
    <3>3. t = Emit(u, c)
      BY <2>2, <2>13, <3>1 DEF Scan
    <3>4. u.malformed /\ u.seen = s.seen /\ u.lv = s.lv
      BY <2>3, <3>2 DEF ScanStates
    <3>5. u \in ScanStates(C)
      BY <2>3, <3>2 DEF ScanStates
    <3>6. t.malformed /\ t.seen = s.seen /\ (~ t.seen => t.lv = s.lv)
      BY <2>8, <3>3, <3>4, <3>5 DEF Emit, ScanStates
    <3> QED
      BY <2>3, <2>4, <2>5, <3>6
  <2>14. CASE ~ s.malformed /\ c # "-" /\ s.hyphen /\ ~ s.seen /\ s.vg # <<>>
    <3>1. PICK u : u = Separate(s)
      OBVIOUS
    <3>2. u = [s EXCEPT !.seen = TRUE, !.hyphen = FALSE]
      BY <2>14, <3>1 DEF Separate
    <3>3. t = Emit(u, c)
      BY <2>2, <2>14, <3>1 DEF Scan
    <3>4. u \in ScanStates(C) /\ u.seen /\ ~ u.hyphen /\ u.vg = s.vg /\ u.lv = <<>>
      BY <2>3, <2>4, <2>14, <3>2 DEF ScanStates
    <3>5. t.seen /\ ~ t.hyphen
      BY <3>3, <3>4 DEF Emit, ScanStates
    <3>6. r = Escape(s.vg) /\ n = Append(r, "-")
      BY <2>4, <2>6, <2>14 DEF ReadOf
    <3>7. ReadOf(u) = (r \o <<"-">>) \o <<>>
      BY <3>4, <3>6, EscapeMore DEF ReadOf
    <3>8. ReadOf(u) = Append(r, "-")
      BY <2>7, <3>7
    <3>9. ReadOf(t) = Append(r, "-") \o <<c>>
      BY <2>14, <3>3, <3>4, <3>8, ReadMore DEF Escaped
    <3>10. Append(n, c) = n \o <<c>>
      OBVIOUS
    <3> QED
      BY <2>3, <2>5, <3>5, <3>6, <3>9, <3>10
  <2> QED
    BY <2>8, <2>9, <2>10, <2>11, <2>12, <2>13, <2>14
<1>3. Seq(C) \subseteq T
  <2> HIDE DEF T
  <2> QED
    BY <1>1, <1>2, NamesInduction
<1> QED
  BY <1>3

(* Reading the escape of a character is reading the character.               *)
LEMMA EscapeRead ==
  ASSUME NEW C, "-" \in C, NEW n \in Seq(C), NEW c \in C,
         ~ Scanned(n).malformed, ~ Scanned(n).hyphen
  PROVE  Scanned(n \o Escaped(c)) = Emit(Scanned(n), c)
<1>1. PICK s : s = Scanned(n)
  OBVIOUS
<1>2. s \in ScanStates(C) /\ ~ s.malformed /\ ~ s.hyphen
  BY <1>1, ScannedMore
<1>3. CASE c = "-"
  <2>1. PICK t : t = [s EXCEPT !.hyphen = TRUE]
    OBVIOUS
  <2>2. Scanned(Append(n, "-")) = t
    BY <1>1, <1>2, <2>1, ScannedMore DEF Scan
  <2>3. t.hyphen /\ ~ t.malformed /\ [t EXCEPT !.hyphen = FALSE] = s
    BY <1>2, <2>1 DEF ScanStates
  <2>4. Append(n, "-") \in Seq(C)
    OBVIOUS
  <2>5. Scanned(Append(Append(n, "-"), "-")) = Scan(t, "-")
    BY <2>2, <2>4, ScannedMore
  <2>6. Scan(t, "-") = Emit(s, "-")
    BY <2>3 DEF Scan
  <2>7. n \o Escaped(c) = Append(Append(n, "-"), "-")
    BY <1>3 DEF Escaped
  <2> QED
    BY <1>1, <1>3, <2>5, <2>6, <2>7
<1>4. CASE c # "-"
  <2>1. n \o Escaped(c) = Append(n, c)
    BY <1>4 DEF Escaped
  <2>2. Scan(s, c) = Emit(s, c)
    BY <1>2, <1>4 DEF Scan
  <2> QED
    BY <1>1, <2>1, <2>2, ScannedMore
<1> QED
  BY <1>3, <1>4

LEMMA VgRead ==
  ASSUME NEW C, "-" \in C, NEW vg \in Seq(C)
  PROVE  Scanned(Escape(vg)) = [ScanStart EXCEPT !.vg = vg]
<1> DEFINE T == {x \in Seq(C) : Scanned(Escape(x)) = [ScanStart EXCEPT !.vg = x]}
<1>1. <<>> \in T
  <2>1. PICK e : e = <<>>
    OBVIOUS
  <2>2. e \in Seq(C) /\ Scanned(Escape(e)) = ScanStart
    BY <2>1, ScannedMore, EscapeMore
  <2>3. ScanStart = [ScanStart EXCEPT !.vg = e]
    BY <2>1 DEF ScanStart
  <2> QED
    BY <2>1, <2>2, <2>3
<1>2. ASSUME NEW x \in Seq(C), NEW c \in C, x \in T PROVE Append(x, c) \in T
  <2>1. PICK s : s = [ScanStart EXCEPT !.vg = x]
    OBVIOUS
  <2>2. PICK n : n = Escape(x)
    OBVIOUS
  <2>3. n \in Seq(C) /\ Scanned(n) = s
    BY <1>2, <2>1, <2>2, EscapeMore
  <2>4. ~ s.malformed /\ ~ s.hyphen /\ ~ s.seen /\ s.vg = x
    BY <2>1 DEF ScanStart
  <2>5. Scanned(n \o Escaped(c)) = Emit(s, c)
    BY <2>3, <2>4, EscapeRead
  <2>6. Emit(s, c) = [ScanStart EXCEPT !.vg = Append(x, c)]
    BY <2>1, <2>4 DEF Emit, ScanStart
  <2>7. Escape(Append(x, c)) = n \o Escaped(c)
    BY <2>2, EscapeMore
  <2>8. Append(x, c) \in Seq(C)
    OBVIOUS
  <2> QED
    BY <2>5, <2>6, <2>7, <2>8
<1>3. Seq(C) \subseteq T
  <2> HIDE DEF T
  <2> QED
    BY <1>1, <1>2, NamesInduction
<1> QED
  BY <1>3

LEMMA LvRead ==
  ASSUME NEW C, "-" \in C, NEW vg \in Seq(C), vg # <<>>,
         NEW lv \in Seq(C), lv # <<>>, lv[1] # "-"
  PROVE  Scanned((Escape(vg) \o <<"-">>) \o Escape(lv))
           = [vg |-> vg, lv |-> lv, hyphen |-> FALSE, seen |-> TRUE, malformed |-> FALSE]
<1>1. PICK h : h = Escape(vg) \o <<"-">>
  OBVIOUS
<1>2. Escape(vg) \in Seq(C) /\ h = Append(Escape(vg), "-") /\ h \in Seq(C)
  <2>1. Escape(vg) \in Seq(C)
    BY EscapeMore
  <2> QED
    BY <1>1, <2>1
<1>3. PICK s : s = [ScanStart EXCEPT !.vg = vg, !.hyphen = TRUE]
  OBVIOUS
<1>4. Scanned(h) = s
  <2>1. Scanned(h) = Scan(Scanned(Escape(vg)), "-")
    BY <1>2, ScannedMore
  <2>2. Scanned(Escape(vg)) = [ScanStart EXCEPT !.vg = vg]
    BY VgRead
  <2>3. Scan([ScanStart EXCEPT !.vg = vg], "-") = s
    BY <1>3 DEF Scan, ScanStart
  <2> QED
    BY <2>1, <2>2, <2>3
<1> DEFINE Read(y) == [vg |-> vg, lv |-> y, hyphen |-> FALSE, seen |-> TRUE, malformed |-> FALSE]
           T == {y \in Seq(C) : y # <<>> /\ y[1] # "-" => Scanned(h \o Escape(y)) = Read(y)}
<1>5. <<>> \in T
  OBVIOUS
<1>6. ASSUME NEW y \in Seq(C), NEW c \in C, y \in T PROVE Append(y, c) \in T
  <2>1. Append(y, c) \in Seq(C) /\ Escape(Append(y, c)) = Escape(y) \o Escaped(c)
        /\ Escape(y) \in Seq(C)
    <3>1. Append(y, c) \in Seq(C)
      OBVIOUS
    <3>2. Escape(Append(y, c)) = Escape(y) \o Escaped(c) /\ Escape(y) \in Seq(C)
      BY EscapeMore
    <3> QED
      BY <3>1, <3>2
  <2> SUFFICES ASSUME Append(y, c)[1] # "-"
               PROVE  Scanned(h \o Escape(Append(y, c))) = Read(Append(y, c))
    BY <2>1
  <2>2. CASE y = <<>>
    <3>1. PICK e : e = y
      OBVIOUS
    <3>2. Append(e, c) = <<c>> /\ c # "-" /\ Escape(e) = e /\ e = <<>>
      <4>1. Append(y, c)[1] = c
        BY <2>2
      <4> QED
        BY <2>2, <3>1, <4>1, EscapeMore
    <3>3. Escape(Append(y, c)) = <<c>>
      <4>1. Escaped(c) = <<c>>
        BY <3>2 DEF Escaped
      <4>2. Escape(Append(y, c)) = <<>> \o <<c>>
        BY <2>1, <3>1, <3>2, <4>1
      <4> QED
        BY <4>2
    <3>4. h \o <<c>> = Append(h, c)
      BY <1>2
    <3>5. Scanned(Append(h, c)) = Scan(s, c)
      BY <1>2, <1>4, ScannedMore
    <3>6. PICK u : u = Separate(s)
      OBVIOUS
    <3>7. s.vg = vg /\ s.hyphen /\ ~ s.seen /\ ~ s.malformed
      BY <1>3 DEF ScanStart
    <3>8. u = [vg |-> vg, lv |-> <<>>, hyphen |-> FALSE, seen |-> TRUE, malformed |-> FALSE]
      <4>1. u = [s EXCEPT !.seen = TRUE, !.hyphen = FALSE]
        BY <3>6, <3>7 DEF Separate
      <4>2. s = [vg |-> vg, lv |-> <<>>, hyphen |-> TRUE, seen |-> FALSE, malformed |-> FALSE]
        BY <1>3 DEF ScanStart
      <4> QED
        BY ONLY <4>1, <4>2
    <3>9. Scan(s, c) = Emit(u, c)
      BY <3>2, <3>6, <3>7 DEF Scan
    <3>10. u.seen /\ u.lv = e
      BY <3>2, <3>8 DEF ScanStart
    <3>11. Emit(u, c) = Read(Append(e, c))
      BY <3>2, <3>8, <3>10 DEF Emit
    <3> QED
      BY <3>1, <3>3, <3>4, <3>5, <3>9, <3>11
  <2>3. CASE y # <<>>
    <3>1. Append(y, c)[1] = y[1]
      BY <2>3
    <3>2. PICK n, r : n = h \o Escape(y) /\ r = Read(y)
      OBVIOUS
    <3>3. Scanned(n) = r
      BY <1>6, <2>3, <3>1, <3>2
    <3>4. n \in Seq(C)
      BY <1>2, <2>1, <3>2
    <3>5. ~ r.malformed /\ ~ r.hyphen /\ r.seen /\ r.lv = y
      BY <3>2 DEF ScanStart
    <3>6. Scanned(n \o Escaped(c)) = Emit(r, c)
      BY <3>3, <3>4, <3>5, EscapeRead
    <3>7. Emit(r, c) = Read(Append(y, c))
      BY <3>2, <3>5 DEF Emit, ScanStart
    <3>8. h \o (Escape(y) \o Escaped(c)) = n \o Escaped(c)
      <4>1. Escaped(c) \in Seq(C)
        BY DEF Escaped
      <4>2. PICK x, e : x = Escape(y) /\ e = Escaped(c)
        OBVIOUS
      <4>3. x \in Seq(C) /\ e \in Seq(C) /\ h \in Seq(C)
        BY <1>2, <2>1, <4>1, <4>2
      <4>4. h \o (x \o e) = (h \o x) \o e
        BY <4>3
      <4> QED
        BY <3>2, <4>2, <4>4
    <3> QED
      BY <2>1, <3>6, <3>7, <3>8
  <2> QED
    BY <2>2, <2>3
<1>7. Seq(C) \subseteq T
  <2> HIDE DEF T
  <2> QED
    BY <1>5, <1>6, NamesInduction
<1>8. Scanned(h \o Escape(lv)) = Read(lv)
  BY <1>7
<1> QED
  BY <1>1, <1>8

-----------------------------------------------------------------------------
(* Decryption                                                                *)

IsOpen(d) == \E o \in opened : o.device = d
Waiting(d) == \E i \in DOMAIN pending : pending[i] = d

(* The keys are as the command line has them when the appliance is launched. *)
KeyInv ==
  /\ \A i \in DOMAIN ks : ks[i] = [selectors[i] EXCEPT !.id = Unescape(@)]
  /\ launched => network = requires_network

(* What decryption finds, and before it has begun.                           *)
GuestInv ==
  /\ layout \in Layouts \cup {Unseen} /\ decrypted_some \in BOOLEAN /\ ~ offline
  /\ dec_pc = "idle" => tried = {} /\ opened = {} /\ ~ decrypted_some

TriedInv ==
  /\ \A t \in tried : t[2] \in KeysFor(t[1]) \/ (t \in typed /\ KeysFor(t[1]) = {})
  /\ dec_pc = "nokey" =>
       \A k \in KeysFor(Head(pending)) : <<Head(pending), k>> \in tried

OpenedInv ==
  /\ \A o \in opened : o = [device |-> o.device, name |-> Mapname(o.device)]
  /\ \A o, q \in opened : o.name = q.name => o = q
  /\ decrypted_some <=> opened # {}

(* An encrypted device of the phase is yet to be visited, or is open.        *)
PendingInv ==
  /\ dec_pc = "partitions" =>
       /\ pending \in Seq(Partitions)
       /\ \A d \in Partitions : Encrypted(d) => Waiting(d) \/ IsOpen(d)
  /\ dec_pc \in {"lvm", "lvs", "done"} => \A d \in Partitions : Encrypted(d) => IsOpen(d)
  /\ dec_pc = "lvs" =>
       /\ pending \in Seq(LogicalVolumes)
       /\ \A d \in LogicalVolumes : Encrypted(d) /\ Reachable(d) => Waiting(d) \/ IsOpen(d)
  /\ dec_pc = "done" =>
       \A d \in LogicalVolumes : Encrypted(d) /\ Reachable(d) => IsOpen(d)

DecInv == KeyInv /\ GuestInv /\ TriedInv /\ OpenedInv /\ PendingInv

(* A matching key of the store is one that was given for the device: of the  *)
(* names that become another one in the key store, only the device-mapper    *)
(* name of a logical volume becomes its name.                                *)
LEMMA MatchesMeans ==
  ASSUME NEW s \in Selectors, NEW d \in Devices, NEW k, k = [s EXCEPT !.id = Unescape(@)],
         layout \in Layouts \cup {Unseen}
  PROVE  k.key = s.key /\ (Matches(k, d, UuidOf(d)) <=> Denotes(s.id, d))
<1> DEFINE C == Char \cup {"-"}
<1> HIDE DEF C
<1>1. k.key = s.key /\ k.id = Unescape(s.id)
  BY DecryptAssumption DEF DecryptAssumption
<1>2. PICK u : u = UuidOf(d)
  OBVIOUS
<1>3. u # NoUuid => Len(u) = 1
  <2>1. CASE layout = Unseen
    BY <1>2, <2>1 DEF UuidOf, Unseen
  <2>2. CASE layout \in Layouts
    BY <1>2, <2>2, NamesAssumption DEF UuidOf, NamesAssumption
  <2> QED
    BY <2>1, <2>2
<1>4. "-" \in C /\ Seq(Char) \subseteq Seq(C)
  BY DEF C
<1>5. \A v \in LogicalVolumes :
        /\ v = <<v[1], v[2]>> /\ Len(v) = 2 /\ v[1] # Mapper
        /\ v[1] \in Seq(C) /\ v[1] # <<>> /\ v[2] \in Seq(C) /\ v[2] # <<>> /\ v[2][1] # "-"
  <2> TAKE v \in LogicalVolumes
  <2>1. v \in (Seq(Char) \ {<<>>}) \X {lv \in Seq(Char) : lv # <<>> /\ lv[1] # "-"}
    BY NamesAssumption DEF NamesAssumption
  <2>2. v = <<v[1], v[2]>> /\ v[1] \in Seq(Char) \ {<<>>} /\ v[2] \in Seq(Char)
        /\ v[2] # <<>> /\ v[2][1] # "-"
    BY <2>1
  <2>3. v[1] # Mapper
    BY <2>2, NamesAssumption DEF NamesAssumption
  <2>4. Len(<<v[1], v[2]>>) = 2
    OBVIOUS
  <2> QED
    BY <1>4, <2>2, <2>3, <2>4
<1>6. Len(All) = 1 /\ (d \in Partitions => Len(d) = 1) /\ (d \in Partitions \/ d \in LogicalVolumes)
  BY NamesAssumption DEF NamesAssumption, Devices
<1>7. ASSUME s.id \in {All, d} \/ (u # NoUuid /\ s.id = u)
      PROVE  Unescape(s.id) = s.id
  <2>1. Len(s.id) # 2 \/ s.id[1] # Mapper
    BY <1>3, <1>5, <1>6, <1>7
  <2> QED
    BY <2>1 DEF Unescape
<1>8. ASSUME d \in LogicalVolumes, s.id = MapperName(d[1], d[2])
      PROVE  Unescape(s.id) = d
  <2>1. PICK name : name = (Escape(d[1]) \o <<"-">>) \o Escape(d[2])
    OBVIOUS
  <2>2. s.id = <<Mapper, name>>
    BY <1>8, <2>1 DEF MapperName
  <2>3. Scanned(name) = [vg |-> d[1], lv |-> d[2], hyphen |-> FALSE, seen |-> TRUE, malformed |-> FALSE]
    BY <1>4, <1>5, <1>8, <2>1, LvRead
  <2>4. Len(s.id) = 2 /\ s.id[1] = Mapper /\ s.id[2] = name
    BY <2>2
  <2>5. Unescape(s.id) = <<d[1], d[2]>>
    BY <2>3, <2>4 DEF Unescape
  <2> QED
    BY <1>5, <1>8, <2>5
<1>9. ASSUME Unescape(s.id) # s.id
      PROVE  /\ Len(Unescape(s.id)) = 2
             /\ s.id = MapperName(Unescape(s.id)[1], Unescape(s.id)[2])
  <2>1. Len(s.id) = 2 /\ s.id[1] = Mapper
    BY <1>9 DEF Unescape
  <2>2. PICK name : name = s.id[2]
    OBVIOUS
  <2>3. name \in Seq(C) /\ s.id = <<Mapper, name>>
    BY <1>4, <2>1, <2>2, NamesAssumption DEF NamesAssumption
  <2>4. PICK t : t = Scanned(name)
    OBVIOUS
  <2>5. ~ t.malformed /\ ~ t.hyphen /\ t.seen /\ Unescape(s.id) = <<t.vg, t.lv>>
    BY <1>9, <2>1, <2>2, <2>4 DEF Unescape
  <2>6. name = ReadOf(t)
    BY <1>4, <2>3, <2>4, <2>5, ScannedIsRead
  <2>7. name = (Escape(t.vg) \o <<"-">>) \o Escape(t.lv)
    BY <2>5, <2>6 DEF ReadOf
  <2>8. Len(<<t.vg, t.lv>>) = 2 /\ <<t.vg, t.lv>>[1] = t.vg /\ <<t.vg, t.lv>>[2] = t.lv
    OBVIOUS
  <2> QED
    BY <2>3, <2>5, <2>7, <2>8 DEF MapperName
<1>10. ASSUME Matches(k, d, u) PROVE Denotes(s.id, d)
  <2>1. Unescape(s.id) \in {All, d} \/ (u # NoUuid /\ Unescape(s.id) = u)
    BY <1>1, <1>10 DEF Matches
  <2>2. CASE Unescape(s.id) = s.id
    BY <1>2, <2>1, <2>2 DEF Denotes
  <2>3. CASE Unescape(s.id) # s.id
    <3>1. Len(Unescape(s.id)) = 2 /\ s.id = MapperName(Unescape(s.id)[1], Unescape(s.id)[2])
      BY <1>9, <2>3
    <3>2. d \in LogicalVolumes /\ Unescape(s.id) = d
      BY <1>3, <1>6, <2>1, <3>1
    <3> QED
      BY <3>1, <3>2 DEF Denotes
  <2> QED
    BY <2>2, <2>3
<1>11. ASSUME Denotes(s.id, d) PROVE Matches(k, d, u)
  BY <1>1, <1>2, <1>7, <1>8, <1>11 DEF Denotes, Matches
<1> QED
  BY <1>1, <1>2, <1>10, <1>11

(* The keys that are tried are those that were given for the device.         *)
LEMMA StoreKeysMean ==
  ASSUME DecTypes, KeyInv, layout \in Layouts \cup {Unseen}, NEW d \in Devices
  PROVE  LET found == StoreKeys(d, UuidOf(d))
         IN  /\ \A j \in DOMAIN found : j \in DOMAIN ks /\ found[j] = ks[j].key
             /\ \A k : k \in KeysFor(d) <=> \E j \in DOMAIN found : found[j] = k
<1>0. PICK found : found = StoreKeys(d, UuidOf(d))
  OBVIOUS
<1>1. DOMAIN ks = DOMAIN selectors /\ \A j \in DOMAIN selectors : selectors[j] \in Selectors
  BY DEF DecTypes
<1>2. ASSUME NEW j \in DOMAIN selectors
      PROVE  /\ ks[j].key = selectors[j].key
             /\ Matches(ks[j], d, UuidOf(d)) <=> Denotes(selectors[j].id, d)
  <2>1. PICK s, k : s = selectors[j] /\ k = ks[j]
    OBVIOUS
  <2>2. s \in Selectors /\ k = [s EXCEPT !.id = Unescape(@)]
    BY <1>1, <2>1 DEF KeyInv
  <2>3. k.key = s.key /\ (Matches(k, d, UuidOf(d)) <=> Denotes(s.id, d))
    BY <2>2, MatchesMeans
  <2> QED
    BY <2>1, <2>3
<1>3. DOMAIN found = {j \in DOMAIN ks : Matches(ks[j], d, UuidOf(d))}
      /\ \A j \in DOMAIN found : found[j] = ks[j].key
  BY <1>0 DEF StoreKeys
<1>4. DOMAIN found = {j \in DOMAIN selectors : Denotes(selectors[j].id, d)}
  BY <1>1, <1>2, <1>3
<1>5. \A j \in DOMAIN found : found[j] = selectors[j].key /\ j \in DOMAIN ks /\ found[j] = ks[j].key
  BY <1>1, <1>2, <1>3
<1>6. \A k : k \in KeysFor(d) <=> \E j \in DOMAIN found : found[j] = k
  BY <1>4, <1>5 DEF KeysFor
<1> QED
  BY <1>0, <1>5, <1>6

(* A listing has every device of the set, and no others.                     *)
LEMMA Listing ==
  ASSUME NEW S, IsFiniteSet(S), NEW p \in SetToSeqs(S)
  PROVE  p \in Seq(S) /\ \A d \in S : \E i \in DOMAIN p : p[i] = d
<1>1. PICK n \in Nat : n = Cardinality(S)
  BY FS_CardinalityType
<1>2. p \in [1 .. n -> S] /\ \A i, j \in 1 .. n : i # j => p[i] # p[j]
  BY <1>1 DEF SetToSeqs
<1>3. p \in Injection(1 .. n, S)
  BY <1>2 DEF Injection, IsInjective
<1>4. Cardinality(1 .. n) = Cardinality(S)
  BY <1>1, FS_Interval
<1>5. p \in Surjection(1 .. n, S)
  BY <1>3, <1>4, FS_Injection
<1>6. \A d \in S : \E i \in 1 .. n : p[i] = d
  BY <1>5 DEF Surjection
<1>7. p \in Seq(S) /\ DOMAIN p = 1 .. n
  BY <1>1, <1>2
<1> QED
  BY <1>6, <1>7

(* What a device and the keys given for it are does not change.              *)
LEMMA GuestKept ==
  ASSUME UNCHANGED <<layout, selectors>>, NEW d
  PROVE  /\ KeysFor(d)' = KeysFor(d)
         /\ Encrypted(d)' <=> Encrypted(d)
         /\ UuidOf(d)' = UuidOf(d) /\ Mapname(d)' = Mapname(d)
<1>1. UuidOf(d)' = UuidOf(d)
  BY DEF UuidOf
<1>2. ASSUME NEW id PROVE Denotes(id, d)' <=> Denotes(id, d)
  BY <1>1 DEF Denotes
<1>3. KeysFor(d)' = KeysFor(d)
  BY <1>2 DEF KeysFor
<1>4. Encrypted(d)' <=> Encrypted(d)
  BY DEF Encrypted
<1>5. Mapname(d)' = Mapname(d)
  BY <1>1 DEF Mapname
<1> QED
  BY <1>1, <1>3, <1>4, <1>5

LEMMA KeysKept ==
  ASSUME KeyInv, UNCHANGED <<ks, selectors, network, launched>>
  PROVE  KeyInv'
BY DEF KeyInv, requires_network

LEMMA TriedKept ==
  ASSUME TriedInv, UNCHANGED <<layout, selectors, tried, typed>>,
         dec_pc' # "nokey" \/ UNCHANGED <<dec_pc, pending>>
  PROVE  TriedInv'
<1>1. \A d : KeysFor(d)' = KeysFor(d)
  BY GuestKept
<1>2. ASSUME NEW t \in tried' PROVE t[2] \in KeysFor(t[1])' \/ (t \in typed' /\ KeysFor(t[1])' = {})
  BY <1>1 DEF TriedInv
<1>3. ASSUME dec_pc' = "nokey", NEW k \in KeysFor(Head(pending))' PROVE <<Head(pending), k>>' \in tried'
  <2>1. PICK h : h = Head(pending)
    OBVIOUS
  <2>2. Head(pending)' = h /\ dec_pc = "nokey"
    BY <1>3, <2>1
  <2>3. k \in KeysFor(h)
    <3>1. KeysFor(h)' = KeysFor(h)
      BY <1>1
    <3>2. KeysFor(Head(pending))' = KeysFor(h)'
      BY <2>2 DEF KeysFor
    <3> QED
      BY <1>3, <3>1, <3>2
  <2> QED
    BY <2>1, <2>2, <2>3 DEF TriedInv
<1> QED
  BY <1>2, <1>3 DEF TriedInv

LEMMA OpenedKept ==
  ASSUME OpenedInv, UNCHANGED <<layout, opened, decrypted_some>>
  PROVE  OpenedInv'
<1>1. \A d : Mapname(d)' = Mapname(d)
  BY DEF Mapname, UuidOf
<1> QED
  BY <1>1 DEF OpenedInv

LEMMA DecKept ==
  ASSUME DecInv, UNCHANGED <<decryptVars, launched>>
  PROVE  DecInv'
<1>1. UNCHANGED <<selectors, ks, layout, lvm2, network, dec_pc, pending, decrypted_some, opened,
                  tried, typed, offline, launched>>
  BY DEF decryptVars, keys, guest
<1>2. KeyInv'
  BY <1>1, KeysKept DEF DecInv
<1>3. GuestInv'
  BY <1>1 DEF DecInv, GuestInv
<1>4. TriedInv'
  BY <1>1, TriedKept DEF DecInv
<1>5. OpenedInv'
  BY <1>1, OpenedKept DEF DecInv
<1>6. PendingInv'
  BY <1>1 DEF DecInv, PendingInv, Encrypted, Waiting, IsOpen, Reachable
<1> QED
  BY <1>2, <1>3, <1>4, <1>5, <1>6 DEF DecInv

(* Before decryption begins nothing has been tried.                          *)
LEMMA KeyAddedStep ==
  ASSUME DecInv, DecTypes, dec_pc = "idle", ~ launched, NEW s \in Selectors, AddKey(s), UNCHANGED launched
  PROVE  DecInv'
<1>1. UNCHANGED <<layout, lvm2, dec_pc, pending, decrypted_some, opened, tried, typed, offline>>
  BY DEF AddKey, guest
<1>2. KeyInv'
  <2>1. PICK k : k = [s EXCEPT !.id = Unescape(@)]
    OBVIOUS
  <2>2. PICK ss, kk : ss = selectors /\ kk = ks
    OBVIOUS
  <2>3. Len(kk) = Len(ss) /\ kk \in Seq(Keys) /\ ss \in Seq(Selectors)
    BY <2>2 DEF DecTypes
  <2>4. selectors' = Append(ss, s) /\ ks' = Append(kk, k)
    BY <2>1, <2>2 DEF AddKey
  <2>5. ASSUME NEW i \in DOMAIN ks' PROVE ks'[i] = [selectors'[i] EXCEPT !.id = Unescape(@)]
    <3>1. i = Len(kk) + 1 \/ i \in DOMAIN kk
      BY <2>3, <2>4
    <3>2. i = Len(kk) + 1 => ks'[i] = k /\ selectors'[i] = s
      BY <2>3, <2>4
    <3>3. i \in DOMAIN kk => ks'[i] = kk[i] /\ selectors'[i] = ss[i]
      BY <2>3, <2>4
    <3> QED
      BY <2>1, <2>2, <3>1, <3>2, <3>3 DEF DecInv, KeyInv
  <2> QED
    BY <2>5 DEF KeyInv
<1>3. GuestInv'
  BY <1>1 DEF DecInv, GuestInv
<1>4. TriedInv'
  BY <1>1 DEF DecInv, GuestInv, TriedInv
<1>5. OpenedInv'
  BY <1>1, OpenedKept DEF DecInv
<1>6. PendingInv'
  BY <1>1 DEF PendingInv
<1> QED
  BY <1>2, <1>3, <1>4, <1>5, <1>6 DEF DecInv

LEMMA LaunchStep ==
  ASSUME DecInv, EnableNetwork
  PROVE  DecInv'
<1>1. UNCHANGED <<selectors, ks, layout, lvm2, dec_pc, pending, decrypted_some, opened, tried, typed,
                  offline>>
  BY DEF EnableNetwork, keys, guest
<1>2. KeyInv'
  <2>1. requires_network' = requires_network
    BY <1>1 DEF requires_network
  <2> QED
    BY <1>1, <2>1 DEF DecInv, KeyInv, EnableNetwork
<1>3. GuestInv'
  BY <1>1 DEF DecInv, GuestInv
<1>4. TriedInv'
  BY <1>1, TriedKept DEF DecInv
<1>5. OpenedInv'
  BY <1>1, OpenedKept DEF DecInv
<1>6. PendingInv'
  BY <1>1 DEF DecInv, PendingInv, Encrypted, Waiting, IsOpen, Reachable
<1> QED
  BY <1>2, <1>3, <1>4, <1>5, <1>6 DEF DecInv

(* The steps of decryption                                                   *)
LEMMA ListPartitionsStep ==
  ASSUME DecInv, ListPartitions, UNCHANGED launched
  PROVE  DecInv'
<1>1. /\ UNCHANGED <<selectors, ks, network, decrypted_some, opened, tried, typed, offline>>
      /\ dec_pc = "idle" /\ dec_pc' = "partitions" /\ layout' \in Layouts
      /\ tried = {} /\ opened = {} /\ ~ decrypted_some
  BY DEF ListPartitions, keys, DecInv, GuestInv
<1>2. KeyInv'
  BY <1>1, KeysKept DEF DecInv
<1>3. GuestInv'
  BY <1>1 DEF DecInv, GuestInv
<1>4. TriedInv'
  BY <1>1 DEF TriedInv
<1>5. OpenedInv'
  BY <1>1 DEF OpenedInv
<1>6. PendingInv'
  <2>1. IsFiniteSet(Partitions)
    BY NamesAssumption, FS_Subset DEF NamesAssumption, Devices
  <2>2. PICK p : p = pending'
    OBVIOUS
  <2>3. p \in Seq(Partitions) /\ \A d \in Partitions : \E i \in DOMAIN p : p[i] = d
    <3>1. p \in SetToSeqs(Partitions)
      BY <2>2 DEF ListPartitions
    <3> QED
      BY <2>1, <3>1, Listing
  <2> QED
    BY <1>1, <2>2, <2>3 DEF PendingInv, Waiting
<1> QED
  BY <1>2, <1>3, <1>4, <1>5, <1>6 DEF DecInv

(* The program gives up, or exits.                                           *)
LEMMA ExitStep ==
  ASSUME DecInv, ListingFails \/ GetKeysFails, UNCHANGED launched
  PROVE  DecInv'
<1>1. /\ UNCHANGED <<selectors, ks, layout, lvm2, network, pending, decrypted_some, opened, tried,
                     typed, offline>>
      /\ dec_pc' = "exit"
  BY DEF ListingFails, GetKeysFails, keys, guest
<1>2. KeyInv'
  BY <1>1, KeysKept DEF DecInv
<1>3. GuestInv'
  BY <1>1 DEF DecInv, GuestInv
<1>4. TriedInv'
  BY <1>1, TriedKept DEF DecInv
<1>5. OpenedInv'
  BY <1>1, OpenedKept DEF DecInv
<1>6. PendingInv'
  BY <1>1 DEF PendingInv
<1> QED
  BY <1>2, <1>3, <1>4, <1>5, <1>6 DEF DecInv

(* Who has waited is the next, or waits.                                     *)
LEMMA WaitingKept ==
  ASSUME NEW S, NEW p \in Seq(S), p # <<>>, NEW i \in DOMAIN p, p[i] # Head(p)
  PROVE  \E j \in DOMAIN Tail(p) : Tail(p)[j] = p[i]
<1>1. i \in 1 .. Len(p) /\ i # 1 /\ Len(Tail(p)) = Len(p) - 1
  OBVIOUS
<1>2. i - 1 \in DOMAIN Tail(p) /\ Tail(p)[i - 1] = p[i]
  BY <1>1
<1> QED
  BY <1>2

(* The head of the list has been dealt with.                                 *)
LEMMA HeadDone ==
  ASSUME DecInv, dec_pc \in {"partitions", "lvs"}, pending # <<>>, UNCHANGED <<layout, lvm2, dec_pc>>,
         pending' = Tail(pending), opened \subseteq opened',
         \A o \in opened' : o \in opened \/ o.device = Head(pending),
         ~ Encrypted(Head(pending)) \/ \E o \in opened' : o.device = Head(pending)
  PROVE  PendingInv'
<1>1. PICK h : h = Head(pending)
  OBVIOUS
<1>2. \A d : (Encrypted(d)' <=> Encrypted(d)) /\ (IsOpen(d) => IsOpen(d)')
  BY DEF Encrypted, IsOpen
<1>3. ~ Encrypted(h) \/ IsOpen(h)'
  BY <1>1 DEF IsOpen
<1>4. CASE dec_pc = "partitions"
  <2>1. pending \in Seq(Partitions) /\ \A d \in Partitions : Encrypted(d) => Waiting(d) \/ IsOpen(d)
    BY <1>4 DEF DecInv, PendingInv
  <2>2. pending' \in Seq(Partitions)
    BY <2>1
  <2>3. ASSUME NEW d \in Partitions, Encrypted(d)' PROVE Waiting(d)' \/ IsOpen(d)'
    <3>1. CASE d = h
      BY <1>2, <1>3, <2>3, <3>1
    <3>2. CASE d # h /\ Waiting(d)
      <4>1. PICK i \in DOMAIN pending : pending[i] = d
        BY <3>2 DEF Waiting
      <4>2. \E j \in DOMAIN Tail(pending) : Tail(pending)[j] = d
        BY <1>1, <2>1, <3>2, <4>1, WaitingKept
      <4> QED
        BY <4>2 DEF Waiting
    <3>3. CASE IsOpen(d)
      BY <1>2, <3>3
    <3> QED
      BY <1>2, <2>1, <2>3, <3>1, <3>2, <3>3
  <2> QED
    BY <1>4, <2>2, <2>3 DEF PendingInv
<1>5. CASE dec_pc = "lvs"
  <2>1. /\ pending \in Seq(LogicalVolumes)
        /\ \A d \in LogicalVolumes : Encrypted(d) /\ Reachable(d) => Waiting(d) \/ IsOpen(d)
        /\ \A d \in Partitions : Encrypted(d) => IsOpen(d)
    BY <1>5 DEF DecInv, PendingInv
  <2>2. pending' \in Seq(LogicalVolumes) /\ h \in LogicalVolumes
    BY <1>1, <2>1
  <2>3. ASSUME NEW d \in LogicalVolumes, Reachable(d)' PROVE Reachable(d)
    <3>1. PhysicalVolume[d] \in Partitions /\ d \notin Partitions
      BY DecryptAssumption, NamesAssumption DEF DecryptAssumption, NamesAssumption
    <3>2. PhysicalVolume[d] # h
      BY <2>2, <3>1, NamesAssumption DEF NamesAssumption
    <3>3. \A o \in opened' : o.device = PhysicalVolume[d] => o \in opened
      BY <1>1, <3>2
    <3> QED
      BY <2>3, <3>1, <3>3 DEF Reachable
  <2>4. ASSUME NEW d \in LogicalVolumes, Encrypted(d)', Reachable(d)' PROVE Waiting(d)' \/ IsOpen(d)'
    <3>1. CASE d = h
      BY <1>2, <1>3, <2>4, <3>1
    <3>2. CASE d # h /\ Waiting(d)
      <4>1. PICK i \in DOMAIN pending : pending[i] = d
        BY <3>2 DEF Waiting
      <4>2. \E j \in DOMAIN Tail(pending) : Tail(pending)[j] = d
        BY <1>1, <2>1, <3>2, <4>1, WaitingKept
      <4> QED
        BY <4>2 DEF Waiting
    <3>3. CASE IsOpen(d)
      BY <1>2, <3>3
    <3> QED
      BY <1>2, <2>1, <2>3, <2>4, <3>1, <3>2, <3>3
  <2>5. \A d \in Partitions : Encrypted(d)' => IsOpen(d)'
    BY <1>2, <2>1
  <2> QED
    BY <1>5, <2>2, <2>4, <2>5 DEF PendingInv
<1> QED
  BY <1>4, <1>5

LEMMA SkipStep ==
  ASSUME DecInv, Skip, UNCHANGED launched
  PROVE  DecInv'
<1>1. /\ UNCHANGED <<selectors, ks, layout, lvm2, network, dec_pc, decrypted_some, opened, tried,
                     typed, offline>>
      /\ dec_pc \in {"partitions", "lvs"} /\ pending # <<>> /\ ~ Encrypted(Head(pending))
      /\ pending' = Tail(pending)
  BY DEF Skip, keys, guest
<1>2. KeyInv'
  BY <1>1, KeysKept DEF DecInv
<1>3. GuestInv'
  BY <1>1 DEF DecInv, GuestInv
<1>4. TriedInv'
  BY <1>1, TriedKept DEF DecInv
<1>5. OpenedInv'
  BY <1>1, OpenedKept DEF DecInv
<1>6. PendingInv'
  BY <1>1, HeadDone
<1> QED
  BY <1>2, <1>3, <1>4, <1>5, <1>6 DEF DecInv

(* Of the candidates, which are the keys that were given for the device, or  *)
(* what was typed for it, those before the first that opens it are tried.    *)
LEMMA TryKeysStep ==
  ASSUME DecInv, NEW d, d = Head(pending), pending # <<>>, Encrypted(d), d \in Devices,
         dec_pc \in {"partitions", "lvs"}, NEW candidates, TryKeys(d, candidates),
         typed \subseteq typed', UNCHANGED launched,
         \A j \in DOMAIN candidates :
           candidates[j] \in KeysFor(d) \/ (<<d, candidates[j]>> \in typed' /\ KeysFor(d) = {}),
         \A j \in DOMAIN candidates : candidates[j] = Clevis => network,
         \A k \in KeysFor(d) : \E j \in DOMAIN candidates : candidates[j] = k
  PROVE  DecInv'
<1>1. UNCHANGED <<selectors, ks, layout, lvm2, network>>
  BY DEF TryKeys, keys, guest
<1>2. PICK works : works = {i \in DOMAIN candidates : Opens(d, candidates[i])}
  OBVIOUS
<1>3. PICK tries : tries = {candidates[i] : i \in {j \in DOMAIN candidates : \A w \in works : j <= w}}
  OBVIOUS
<1>4. /\ tried' = tried \cup ({d} \X tries)
      /\ offline' = (offline \/ (Clevis \in tries /\ ~network))
      /\ works = {} => dec_pc' = "nokey" /\ UNCHANGED <<pending, decrypted_some, opened>>
      /\ works # {} => /\ opened' = opened \cup {[device |-> d, name |-> Mapname(d)]}
                       /\ decrypted_some' = TRUE
                       /\ pending' = Tail(pending)
                       /\ UNCHANGED dec_pc
  BY <1>2, <1>3 DEF TryKeys
<1>5. \A k \in tries : /\ k \in KeysFor(d) \/ (<<d, k>> \in typed' /\ KeysFor(d) = {})
                       /\ k = Clevis => network
  BY <1>3
<1>6. works = {} => KeysFor(d) \subseteq tries
  BY <1>3
<1>7. \A e : KeysFor(e)' = KeysFor(e) /\ Mapname(e)' = Mapname(e)
  BY <1>1, GuestKept
<1>8. KeyInv'
  BY <1>1, KeysKept DEF DecInv
<1>9. GuestInv'
  <2>1. ~ offline'
    BY <1>4, <1>5 DEF DecInv, GuestInv
  <2>2. decrypted_some' \in BOOLEAN /\ dec_pc' # "idle"
    BY <1>4 DEF DecInv, GuestInv
  <2> QED
    BY <1>1, <2>1, <2>2 DEF DecInv, GuestInv
<1>10. TriedInv'
  <2>1. ASSUME NEW t \in tried'
        PROVE  t[2] \in KeysFor(t[1])' \/ (t \in typed' /\ KeysFor(t[1])' = {})
    <3>1. CASE t \in tried
      BY <1>7, <3>1 DEF DecInv, TriedInv
    <3>2. CASE t \in {d} \X tries
      <4>1. t = <<d, t[2]>> /\ t[1] = d /\ t[2] \in tries
        BY <3>2
      <4> QED
        BY <1>5, <1>7, <4>1
    <3> QED
      BY <1>4, <3>1, <3>2
  <2>2. ASSUME dec_pc' = "nokey"
        PROVE  \A k \in KeysFor(Head(pending))' : <<Head(pending), k>>' \in tried'
    <3>1. works = {} /\ Head(pending)' = d
      BY <1>4, <2>2
    <3>2. KeysFor(Head(pending))' = KeysFor(d)
      <4>1. KeysFor(Head(pending))' = KeysFor(d)'
        BY <3>1 DEF KeysFor
      <4> QED
        BY <1>7, <4>1
    <3>3. ASSUME NEW k \in KeysFor(d) PROVE <<d, k>> \in tried'
      BY <1>4, <1>6, <3>1
    <3> QED
      BY <3>1, <3>2, <3>3
  <2> QED
    BY <2>1, <2>2 DEF TriedInv
<1>11. OpenedInv' /\ PendingInv'
  <2>1. CASE works = {}
    <3>1. UNCHANGED <<layout, opened, decrypted_some>> /\ dec_pc' = "nokey"
      BY <1>1, <1>4, <2>1
    <3> QED
      BY <3>1, OpenedKept DEF DecInv, PendingInv
  <2>2. CASE works # {}
    <3>1. PICK x : x = [device |-> d, name |-> Mapname(d)]
      OBVIOUS
    <3>2. opened' = opened \cup {x} /\ x.device = d /\ x.name = Mapname(d) /\ decrypted_some'
      BY <1>4, <2>2, <3>1
    <3>3. \A o \in opened : o.name # x.name
      BY <1>2, <2>2, <3>2 DEF Opens
    <3>4. \A o \in opened' : o = [device |-> o.device, name |-> Mapname(o.device)']
      BY <1>7, <3>1, <3>2 DEF DecInv, OpenedInv
    <3>5. OpenedInv'
      BY <3>2, <3>3, <3>4 DEF DecInv, OpenedInv
    <3>6. PendingInv'
      <4>1. UNCHANGED <<layout, lvm2, dec_pc>> /\ pending' = Tail(pending)
        BY <1>1, <1>4, <2>2
      <4>2. /\ opened \subseteq opened' /\ \A o \in opened' : o \in opened \/ o.device = Head(pending)
            /\ \E o \in opened' : o.device = Head(pending)
        BY <3>2
      <4> QED
        BY <4>1, <4>2, HeadDone
    <3> QED
      BY <3>5, <3>6
  <2> QED
    BY <2>1, <2>2
<1> QED
  BY <1>8, <1>9, <1>10, <1>11 DEF DecInv

LEMMA HeadIsDevice ==
  ASSUME DecInv, dec_pc \in {"partitions", "lvs"}, pending # <<>>
  PROVE  Head(pending) \in Devices
BY DEF DecInv, PendingInv, Devices

LEMMA OpenStep ==
  ASSUME DecInv, DecTypes, Open, launched, UNCHANGED launched
  PROVE  DecInv'
<1>1. PICK d, found : d = Head(pending) /\ found = StoreKeys(d, UuidOf(d))
  OBVIOUS
<1>2. /\ dec_pc \in {"partitions", "lvs"} /\ pending # <<>> /\ Encrypted(d)
      /\ TryKeys(d, found) /\ UNCHANGED typed
  BY <1>1 DEF Open
<1>3. d \in Devices
  BY <1>1, <1>2, HeadIsDevice
<1>4. /\ \A j \in DOMAIN found : j \in DOMAIN ks /\ found[j] = ks[j].key
      /\ \A k : k \in KeysFor(d) <=> \E j \in DOMAIN found : found[j] = k
  <2>1. KeyInv /\ layout \in Layouts \cup {Unseen}
    BY DEF DecInv, GuestInv
  <2> QED
    BY ONLY DecTypes, <1>1, <1>3, <2>1, StoreKeysMean
<1>5. \A j \in DOMAIN found : found[j] = Clevis => network
  BY <1>4 DEF DecInv, KeyInv, requires_network
<1> QED
  BY <1>1, <1>2, <1>3, <1>4, <1>5, TryKeysStep

LEMMA OpenAskingStep ==
  ASSUME DecInv, DecTypes, NEW p \in Passphrases, OpenAsking(p), UNCHANGED launched
  PROVE  DecInv'
<1>1. PICK d, found : d = Head(pending) /\ found = StoreKeys(d, UuidOf(d))
  OBVIOUS
<1>2. /\ dec_pc \in {"partitions", "lvs"} /\ pending # <<>> /\ Encrypted(d)
      /\ DOMAIN found = {} /\ typed' = typed \cup {<<d, p>>} /\ TryKeys(d, <<p>>)
  BY <1>1 DEF OpenAsking
<1>3. d \in Devices
  BY <1>1, <1>2, HeadIsDevice
<1>4. \A k : k \in KeysFor(d) <=> \E j \in DOMAIN found : found[j] = k
  <2>1. KeyInv /\ layout \in Layouts \cup {Unseen}
    BY DEF DecInv, GuestInv
  <2> QED
    BY ONLY DecTypes, <1>1, <1>3, <2>1, StoreKeysMean
<1>5. KeysFor(d) = {}
  BY <1>2, <1>4
<1>6. PICK c : c = <<p>>
  OBVIOUS
<1>7. \A j \in DOMAIN c : c[j] = p
  BY <1>6
<1>8. p # Clevis
  BY DecryptAssumption DEF DecryptAssumption
<1>9. /\ \A j \in DOMAIN c : <<d, c[j]>> \in typed' /\ KeysFor(d) = {}
      /\ \A j \in DOMAIN c : c[j] = Clevis => network
      /\ \A k \in KeysFor(d) : \E j \in DOMAIN c : c[j] = k
      /\ typed \subseteq typed'
  BY <1>2, <1>5, <1>7, <1>8
<1> QED
  BY <1>1, <1>2, <1>3, <1>6, <1>9, TryKeysStep

LEMMA PhaseDoneStep ==
  ASSUME DecInv, PartitionsDone \/ LvsDone, UNCHANGED launched
  PROVE  DecInv'
<1>1. UNCHANGED <<selectors, ks, layout, lvm2, network, pending, decrypted_some, opened, tried, typed,
                  offline>>
  BY DEF PartitionsDone, LvsDone, keys, guest
<1>2. /\ pending = <<>>
      /\ \/ dec_pc = "partitions" /\ dec_pc' \in {"lvm", "done"} /\ (dec_pc' = "done" => ~ lvm2)
         \/ dec_pc = "lvs" /\ dec_pc' = "done"
  BY DEF PartitionsDone, LvsDone
<1>3. KeyInv'
  BY <1>1, KeysKept DEF DecInv
<1>4. GuestInv'
  BY <1>1, <1>2 DEF DecInv, GuestInv
<1>5. TriedInv'
  BY <1>1, <1>2, TriedKept DEF DecInv
<1>6. OpenedInv'
  BY <1>1, OpenedKept DEF DecInv
<1>7. PendingInv'
  <2>1. \A d : ~ Waiting(d)
    BY <1>2 DEF Waiting
  <2>2. \A d : (Encrypted(d)' <=> Encrypted(d)) /\ (IsOpen(d)' <=> IsOpen(d))
    BY <1>1 DEF Encrypted, IsOpen
  <2>3. \A d : Reachable(d)' <=> Reachable(d)
    BY <1>1 DEF Reachable
  <2>4. \A d \in Partitions : Encrypted(d) => IsOpen(d)
    BY <1>2, <2>1 DEF DecInv, PendingInv
  <2>5. ASSUME dec_pc' = "done", NEW d \in LogicalVolumes, Encrypted(d), Reachable(d) PROVE IsOpen(d)
    <3>1. d \notin Partitions
      BY NamesAssumption DEF NamesAssumption
    <3> QED
      BY <1>2, <2>1, <2>5, <3>1 DEF DecInv, PendingInv, Reachable
  <2>6. dec_pc' \in {"lvm", "done"}
    BY <1>2
  <2> QED
    BY <2>2, <2>3, <2>4, <2>5, <2>6 DEF PendingInv
<1> QED
  BY <1>3, <1>4, <1>5, <1>6, <1>7 DEF DecInv

(* LVM shows every volume that can be reached: it was scanned again if a     *)
(* partition has been opened.                                                *)
LEMMA ListLvsStep ==
  ASSUME DecInv, ListLvs, UNCHANGED launched
  PROVE  DecInv'
<1>1. /\ UNCHANGED <<selectors, ks, layout, lvm2, network, decrypted_some, opened, tried, typed,
                     offline>>
      /\ dec_pc = "lvm" /\ dec_pc' = "lvs"
      /\ scanned' = IF decrypted_some THEN {o.device : o \in opened} ELSE scanned
  BY DEF ListLvs, keys, guest
<1>2. KeyInv'
  BY <1>1, KeysKept DEF DecInv
<1>3. GuestInv'
  BY <1>1 DEF DecInv, GuestInv
<1>4. TriedInv'
  BY <1>1, TriedKept DEF DecInv
<1>5. OpenedInv'
  BY <1>1, OpenedKept DEF DecInv
<1>6. PendingInv'
  <2>1. PICK p, S : p = pending' /\ S = {lv \in LogicalVolumes : Shown(lv, scanned')}
    OBVIOUS
  <2>2. p \in SetToSeqs(S)
    BY <2>1 DEF ListLvs
  <2>3. IsFiniteSet(S) /\ S \subseteq LogicalVolumes
    BY <2>1, NamesAssumption, FS_Subset DEF NamesAssumption, Devices
  <2>4. p \in Seq(S) /\ \A d \in S : \E i \in DOMAIN p : p[i] = d
    BY <2>2, <2>3, Listing
  <2>5. p \in Seq(LogicalVolumes)
    BY <2>3, <2>4
  <2>6. ASSUME NEW d \in LogicalVolumes, Reachable(d)' PROVE Waiting(d)'
    <3>1. d \notin Partitions
      BY NamesAssumption DEF NamesAssumption
    <3>2. \/ layout[PhysicalVolume[d]].kind = "plain"
          \/ \E o \in opened : o.device = PhysicalVolume[d]
      BY <1>1, <2>6, <3>1 DEF Reachable
    <3>3. opened # {} => decrypted_some
      BY DEF DecInv, OpenedInv
    <3>4. Shown(d, scanned')
      BY <1>1, <3>2, <3>3 DEF Shown
    <3>5. d \in S
      <4>1. PICK known : known = scanned'
        OBVIOUS
      <4>2. Shown(d, known) /\ S = {lv \in LogicalVolumes : Shown(lv, known)}
        BY <2>1, <3>4, <4>1
      <4> QED
        BY <4>2
    <3>6. \E i \in DOMAIN p : p[i] = d
      BY <2>4, <3>5
    <3> QED
      BY <2>1, <3>6 DEF Waiting
  <2>7. \A d \in Partitions : Encrypted(d)' => IsOpen(d)'
    BY <1>1 DEF DecInv, PendingInv, Encrypted, IsOpen
  <2> QED
    BY <1>1, <2>1, <2>5, <2>6, <2>7 DEF PendingInv
<1> QED
  BY <1>2, <1>3, <1>4, <1>5, <1>6 DEF DecInv

LEMMA DecStep ==
  ASSUME DecInv, Types, Phases, [Next]_sessionVars
  PROVE  DecInv'
<1>1. ASSUME NEW s \in Selectors, OptKey(s) PROVE DecInv'
  <2>1. opt_pc = "parsing" /\ AddKey(s) /\ UNCHANGED launched
    BY <1>1 DEF OptKey, Parse
  <2>2. ~ launched
    BY <2>1 DEF Phases
  <2>3. dec_pc = "idle"
    BY <2>2 DEF Phases
  <2> QED
    BY <2>1, <2>2, <2>3, KeyAddedStep DEF Types
<1>2. CASE Launch
  BY <1>2, LaunchStep DEF Launch
<1>3. CASE DecryptGuest
  <2>1. launched /\ DecryptNext /\ UNCHANGED launched
    BY <1>3 DEF DecryptGuest
  <2>2. CASE ListPartitions
    BY <2>1, <2>2, ListPartitionsStep
  <2>3. CASE ListingFails \/ GetKeysFails
    BY <2>1, <2>3, ExitStep
  <2>4. CASE Skip
    BY <2>1, <2>4, SkipStep
  <2>5. CASE Open
    BY <2>1, <2>5, OpenStep DEF Types
  <2>6. ASSUME NEW p \in Passphrases, OpenAsking(p) PROVE DecInv'
    BY <2>1, <2>6, OpenAskingStep DEF Types
  <2>7. CASE PartitionsDone \/ LvsDone
    BY <2>1, <2>7, PhaseDoneStep
  <2>8. CASE ListLvs
    BY <2>1, <2>8, ListLvsStep
  <2> QED
    BY <2>1, <2>2, <2>3, <2>4, <2>5, <2>6, <2>7, <2>8 DEF DecryptNext
<1>4. CASE UNCHANGED <<decryptVars, launched>>
  BY <1>4, DecKept
<1> QED
  BY <1>1, <1>2, <1>3, <1>4 DEF Next, Command, Begin, MountGuest, sessionVars

-----------------------------------------------------------------------------
(* The theorems                                                              *)

LEMMA Invariant == Spec => []IInv
<1>1. IInv /\ [Next]_sessionVars => IInv'
  BY TypesStep, PhasesStep, MountStep, DriveStep DEF IInv
<1>2. QED
  BY InitIInv, <1>1, PTL DEF Spec

(* Every variable has its type, and the parts of the tool run in their order:*)
(* nothing is mounted before the launch, and no filesystem is looked for     *)
(* before the devices have been decrypted.                                   *)
THEOREM TypeCorrect == Spec => []TypeOK
<1>1. IInv => TypeOK
  <2> SUFFICES ASSUME IInv PROVE TypeOK
    OBVIOUS
  <2>1. read_only \in BOOLEAN /\ inspector \in BOOLEAN /\ format_consumed \in BOOLEAN
    BY Zenon DEF IInv, Types, Bools
  <2>2. Types /\ Phases
    BY DEF IInv
  <2>3. mounts # <<>> => launched
    BY <2>2 DEF Phases
  <2>4. QED
    BY <2>1, <2>2, <2>3 DEF Types, OptTypes, DecTypes, MntTypes, Phases, TypeOK
<1>2. QED
  BY Invariant, <1>1, PTL

(* However many filesystems a guest has, and wherever they are mounted, -i   *)
(* mounts none of them below one that it mounts later, and / first.          *)
THEOREM NothingHiddenCorrect == Spec => []NothingHidden
<1>1. IInv => NothingHidden
  BY DEF IInv, MountInv
<1>2. QED
  BY Invariant, <1>1, PTL

(* The index that add_drives fills in is that of the first disk of the drive *)
(* as long as it fits into a char.                                           *)
THEOREM DriveIndexesCorrect == Spec => []DriveIndexes
<1>1. IInv => DriveIndexes
  <2> SUFFICES ASSUME IInv, opt_pc \in {"adding", "added"},
                      NEW k \in (adding + 1) .. Len(drvs)
               PROVE  LET d == drvs[k]
                          first == Cardinality({p \in DOMAIN disks : disks[p].arg < d.arg})
                      IN  first <= CHAR_MAX =>
                            /\ d.drive_index = first
                            /\ {p \in DOMAIN disks : disks[p].arg = d.arg}
                                 = (d.drive_index + 1) .. (d.drive_index + d.nr_drives)
    BY DEF DriveIndexes
  <2>1. PICK first \in Nat : Placed(drvs, disks, k, first)
    BY DEF IInv, DriveInv
  <2>2. Cardinality(1 .. first) = first
    BY FS_Interval
  <2>3. QED
    BY <2>1, <2>2 DEF Placed
<1>2. QED
  BY Invariant, <1>1, PTL

(* However the options are mixed, and however many there are of each: the    *)
(* handle has the disks that -a, -d, -N and --scratch ask for, in the order  *)
(* of the command line and with the format and mode given for them; no       *)
(* --format is ignored; and the guest is mounted as -i and -m ask, with what *)
(* --ro means for it wherever it stands.                                     *)
THEOREM CommandLineCorrect == Spec => []HandleMatchesCommandLine
<1>1. Init => MatchInv
  <2> SUFFICES ASSUME Init PROVE MatchInv
    OBVIOUS
  <2>1. /\ args = <<>> /\ read_only = config_ro /\ format = NoFormat /\ drvs = <<>> /\ mps = <<>>
        /\ mounts = <<>> /\ opt_pc = "parsing" /\ mp_pc = "idle"
    BY DEF Init, OptionsInit, MountsInit
  <2>2. DOMAIN args = {} /\ DOMAIN drvs = {} /\ DOMAIN mps = {} /\ DOMAIN mounts = {}
        /\ Len(mps) = 0 /\ Len(mounts) = 0
    BY <2>1
  <2>3. DrivesGiven = {} /\ FormatsGiven = {} /\ MountsGiven = {} /\ (RoGiven <=> config_ro)
    BY <2>2 DEF DrivesGiven, FormatsGiven, MountsGiven, RoGiven
  <2>4. CommandInv
    BY <2>1, <2>3 DEF CommandInv, FormatLast, NoFormatIgnored
  <2>5. ListInv /\ DisksInv
    BY <2>1, <2>2, <2>3 DEF ListInv, DisksInv
  <2>6. MpsInv
    BY <2>2, <2>3, FS_EmptySet DEF MpsInv
  <2>7. MountsMatch(0)
    BY <2>2 DEF MountsMatch
  <2>8. MountedInv
    BY <2>1, <2>2, <2>7 DEF MountedInv
  <2>9. QED
    BY <2>4, <2>5, <2>6, <2>8 DEF MatchInv
<1>2. IInv /\ MatchInv /\ [Next]_sessionVars => MatchInv'
  BY CommandStep, ListStep, DisksStep, MpsStep, MountedStep DEF IInv, MatchInv
<1>3. IInv /\ MatchInv => HandleMatchesCommandLine
  <2> SUFFICES ASSUME IInv, MatchInv PROVE HandleMatchesCommandLine
    OBVIOUS
  <2>1. drvs \in Seq(Drvs) /\ Len(drvs) \in Nat /\ DOMAIN drvs = 1 .. Len(drvs)
    BY DEF IInv, Types, OptTypes
  <2>2. ASSUME opt_pc = "added" PROVE DisksMatch
    <3>1. adding = 0 /\ (adding + 1) .. Len(drvs) = DOMAIN drvs
      BY <2>1, <2>2 DEF MatchInv, DisksInv
    <3>2. ASSUME NEW p \in DOMAIN disks PROVE DiskAsAsked(disks[p])
      <4>1. PICK k \in DOMAIN drvs :
              /\ disks[p].arg = drvs[k].arg /\ disks[p].format = drvs[k].format
              /\ disks[p].readonly = (read_only /\ Affected(drvs[k]))
        BY <2>2, <3>1 DEF MatchInv, DisksInv
      <4>2. PICK d, e : d = drvs[k] /\ e = disks[p]
        OBVIOUS
      <4>3. Listed(d) /\ d \in Drvs
        BY <2>1, <4>2 DEF MatchInv, ListInv
      <4>4. d.type \in DriveTypes /\ d.type = args[e.arg].drive.type /\ e.arg = d.arg
        BY <4>1, <4>2, <4>3 DEF Listed, Drvs
      <4>5. Affected(d) <=> d.type \notin {"N", "scratch"}
        BY <4>4 DEF Affected, DriveTypes
      <4>6. e.readonly = (read_only /\ Affected(d)) /\ (read_only <=> RoGiven)
        BY <4>1, <4>2 DEF MatchInv, CommandInv
      <4>7. e.readonly = (RoGiven /\ args[e.arg].drive.type \notin {"N", "scratch"})
        BY <4>4, <4>5, <4>6
      <4>8. e.format = d.format
        BY <4>1, <4>2
      <4>9. DiskAsAsked(e)
        BY <4>3, <4>4, <4>7, <4>8 DEF Listed, DiskAsAsked
      <4>10. QED
        BY <4>2, <4>9
    <3>3. \A p, q \in DOMAIN disks : p < q => disks[p].arg <= disks[q].arg
      BY <2>2 DEF MatchInv, DisksInv
    <3>4. ASSUME NEW i \in DrivesGiven
          PROVE  Cardinality({p \in DOMAIN disks : disks[p].arg = i}) = args[i].drive.disks
      <4>1. PICK k \in DOMAIN drvs : drvs[k].arg = i
        BY DEF MatchInv, ListInv
      <4>2. PICK first \in Nat : Placed(drvs, disks, k, first)
        BY <2>2, <3>1, <4>1 DEF IInv, DriveInv
      <4>3. Listed(drvs[k])
        BY <4>1 DEF MatchInv, ListInv
      <4>4. drvs[k] \in Drvs
        BY <2>1, <4>1
      <4>5. drvs[k].disks = args[i].drive.disks /\ drvs[k].disks \in Nat
        BY <4>1, <4>3, <4>4 DEF Listed, Drvs
      <4>6. drvs[k].nr_drives = drvs[k].disks
        BY <2>2, <3>1, <4>1 DEF MatchInv, DisksInv
      <4>7. {p \in DOMAIN disks : disks[p].arg = i} = (first + 1) .. (first + drvs[k].disks)
        BY <4>1, <4>2, <4>6 DEF Placed
      <4>8. Cardinality((first + 1) .. (first + drvs[k].disks)) = drvs[k].disks
        <5>1. PICK x \in Nat : x = drvs[k].disks
          BY <4>5
        <5>2. Cardinality((first + 1) .. (first + x)) = x
          BY FS_Interval
        <5>3. QED
          BY <5>1, <5>2
      <4>9. QED
        BY <4>5, <4>7, <4>8
    <3>5. QED
      BY <3>2, <3>3, <3>4 DEF DisksMatch
  <2>3. opt_pc = "added" => NoFormatIgnored
    BY DEF MatchInv, CommandInv
  <2>4. \E n \in 0 .. Len(mounts) :
          MountsMatch(n) /\ (mp_pc = "done" => Len(mounts) = n + Cardinality(MountsGiven))
    <3>1. PICK n \in 0 .. Len(mounts) :
            /\ MountsMatch(n)
            /\ mp_pc # "idle" => Len(mounts) + mounting = n + Len(mps)
            /\ mp_pc = "done" => mounting = 0
      BY DEF MatchInv, MountedInv
    <3>2. mp_pc = "done" => Len(mounts) = n + Len(mps)
      <4>1. Len(mounts) \in Nat
        BY DEF IInv, Types, MntTypes
      <4>2. QED
        BY <3>1, <4>1
    <3>3. Len(mps) = Cardinality(MountsGiven)
      BY DEF MatchInv, MpsInv
    <3>4. QED
      BY <3>1, <3>2, <3>3
  <2>5. QED
    BY <2>2, <2>3, <2>4 DEF HandleMatchesCommandLine
<1>4. QED
  BY <1>1, <1>2, <1>3, Invariant, PTL DEF Spec

(* Whatever the names of the volumes, whatever keys are given in whatever    *)
(* order, and wherever the encrypted devices are: a key is tried on those    *)
(* devices only that it was given for, the user is asked only when there is  *)
(* none, no Tang server is asked without a network, and when inspection      *)
(* starts every encrypted device that can be reached is open.                *)
THEOREM DecryptionCorrect == Spec => []DecryptedAsAsked
<1>1. Init => DecInv
  <2> SUFFICES ASSUME Init PROVE DecInv
    OBVIOUS
  <2>1. /\ selectors = <<>> /\ ks = <<>> /\ layout = Unseen /\ ~ launched /\ dec_pc = "idle"
        /\ decrypted_some = FALSE /\ opened = {} /\ tried = {} /\ ~ offline
    BY DEF Init, DecryptInit
  <2>2. KeyInv
    BY <2>1 DEF KeyInv
  <2>3. GuestInv
    BY <2>1 DEF GuestInv
  <2>4. TriedInv /\ OpenedInv /\ PendingInv
    BY <2>1 DEF TriedInv, OpenedInv, PendingInv
  <2> QED
    BY <2>2, <2>3, <2>4 DEF DecInv
<1>2. IInv /\ DecInv /\ [Next]_sessionVars => DecInv'
  BY DecStep DEF IInv
<1>3. DecInv => DecryptedAsAsked
  <2> SUFFICES ASSUME DecInv PROVE DecryptedAsAsked
    OBVIOUS
  <2>1. KeysWhereMeant
    <3>1. ASSUME dec_pc = "nokey"
          PROVE  KeysFor(Head(pending)) \subseteq {t[2] : t \in {u \in tried : u[1] = Head(pending)}}
      <4>1. PICK h : h = Head(pending)
        OBVIOUS
      <4>2. ASSUME NEW k \in KeysFor(h) PROVE k \in {t[2] : t \in {u \in tried : u[1] = h}}
        <5>1. <<h, k>> \in tried /\ <<h, k>>[1] = h /\ <<h, k>>[2] = k
          BY <3>1, <4>1 DEF DecInv, TriedInv
        <5> QED
          BY <5>1
      <4> QED
        BY <4>1, <4>2
    <3> QED
      BY <3>1 DEF DecInv, TriedInv, GuestInv, KeysWhereMeant
  <2>2. ASSUME dec_pc = "done", NEW d \in Devices, Encrypted(d), Reachable(d)
        PROVE  Cardinality({o \in opened : o.device = d}) = 1
    <3>1. IsOpen(d)
      BY <2>2 DEF DecInv, PendingInv, Devices
    <3>2. PICK x \in opened : x.device = d
      BY <3>1 DEF IsOpen
    <3>3. \A o \in opened : o.device = d => o = x
      BY <3>2 DEF DecInv, OpenedInv
    <3>4. {o \in opened : o.device = d} = {x}
      BY <3>2, <3>3
    <3> QED
      BY <3>4, FS_Singleton
  <2>3. EveryDeviceOpen
    BY <2>2 DEF EveryDeviceOpen, DecInv, OpenedInv
  <2> QED
    BY <2>1, <2>3 DEF DecryptedAsAsked
<1> QED
  BY <1>1, <1>2, <1>3, Invariant, PTL DEF Spec
=============================================================================
