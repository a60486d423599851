---------------------------- MODULE DeviceNames ----------------------------
(***************************************************************************)
(* Names of devices as options/keys.c and options/decrypt.c convert them.  *)
(* A name is the sequence of the components of a path below /dev, and a    *)
(* component is a sequence of characters; other identifiers of keys ("all",*)
(* a UUID) are names of one component.                                     *)
(***************************************************************************)
EXTENDS Naturals, Sequences, SequencesExt

Mapper == <<"mapper">>     (* the component of /dev/mapper/                  *)

(* The state of the loop of unescape_device_mapper_lvm over "VG-LV": the     *)
(* two names so far, whether a hyphen is buffered, whether the separator has *)
(* been seen, and whether the input was found to be malformed.               *)
ScanStart == [vg |-> <<>>, lv |-> <<>>, hyphen |-> FALSE, seen |-> FALSE,
              malformed |-> FALSE]

Emit(s, c) ==
  IF s.seen THEN [s EXCEPT !.lv = Append(@, c)] ELSE [s EXCEPT !.vg = Append(@, c)]

(* A buffered hyphen followed by another character is the separator.         *)
Separate(s) ==
  IF s.seen \/ s.vg = <<>> THEN [s EXCEPT !.malformed = TRUE]
  ELSE [s EXCEPT !.seen = TRUE, !.hyphen = FALSE]

Scan(s, c) ==
  IF s.malformed THEN s
  ELSE IF c = "-"
       THEN IF s.hyphen THEN Emit([s EXCEPT !.hyphen = FALSE], "-")
            ELSE [s EXCEPT !.hyphen = TRUE]
       ELSE Emit(IF s.hyphen THEN Separate(s) ELSE s, c)

(* The loop, over the whole of a name.                                       *)
Scanned(name) ==
  LET state[n \in 0 .. Len(name)] == IF n = 0 THEN ScanStart ELSE Scan(state[n - 1], name[n])
  IN  state[Len(name)]

(* Mutated: an escaped hyphen is not unescaped.                              *)
UnescapeLeavesHyphens(id) ==
  IF Len(id) # 2 \/ id[1] # Mapper THEN id
  ELSE LET s == Scanned(id[2])
           k == SelectInSeq(id[2], LAMBDA c : c = "-")
       IN  IF s.malformed \/ s.hyphen \/ ~s.seen THEN id
           ELSE <<SubSeq(id[2], 1, k - 1), SubSeq(id[2], k + 1, Len(id[2]))>>

(* Turn /dev/mapper/VG-LV into /dev/VG/LV; other names, names with a slash   *)
(* in place of a character, and malformed ones are left as they are.         *)
Unescape(id) ==
  IF Len(id) # 2 \/ id[1] # Mapper THEN id
  ELSE LET s == Scanned(id[2])
       IN  IF s.malformed \/ s.hyphen \/ ~s.seen THEN id ELSE <<s.vg, s.lv>>

(* The characters of names that are neither letters nor digits.              *)
NotAlnum == {"-", "_", ".", "+", ":"}

(* make_mapname: "crypt" and the letters and digits of the name.             *)
MakeMapname(device) ==
  <<"crypt">> \o SelectSeq(FlattenSeq(device), LAMBDA c : c \notin NotAlnum)

-----------------------------------------------------------------------------
(* The reference: how device-mapper names the logical volume lv of vg.       *)

Escape(name) ==
  LET escaped[n \in 0 .. Len(name)] ==
        IF n = 0 THEN <<>>
        ELSE escaped[n - 1] \o IF name[n] = "-" THEN <<"-", "-">> ELSE <<name[n]>>
  IN  escaped[Len(name)]

MapperName(vg, lv) == <<Mapper, Escape(vg) \o <<"-">> \o Escape(lv)>>
=============================================================================
