----------------------------- MODULE AppendLine -----------------------------
(***************************************************************************)
(* mlcustomize/append_line.ml: a line is appended to a file of the guest,  *)
(* with the line ending that the beginning of the file uses.  A file is a  *)
(* sequence of characters of which only the line ends matter.              *)
(***************************************************************************)
EXTENDS Guest

CONSTANTS
  Texts,       (* the contents of files                                      *)
  PREAD_SIZE,  (* how much of the file is read to guess its line ending      *)
  NoText       (* no --append-line is going on, or the file is not there     *)

VARIABLE
  text         (* the file that --append-line is about                       *)

CR == "r"
LF == "n"
line == <<"L">>

(* "x" is any other character.                                               *)
ASSUME TextAssumption == Texts \subseteq Seq({CR, LF, "x"}) /\ PREAD_SIZE \in Nat

default_newline == IF Windows THEN <<CR, LF>> ELSE <<LF>>

Finds(string, sub) == \E i \in 0 .. (Len(string) - Len(sub)) :
                        SubSeq(string, i + 1, i + Len(sub)) = sub

(* Guess the line ending from the first part of the file.                    *)
newline(content) ==
  LET first == SubSeq(content, 1, IF Len(content) < PREAD_SIZE THEN Len(content) ELSE PREAD_SIZE)
  IN  IF Finds(first, <<CR, LF>>) THEN <<CR, LF>>
      ELSE IF Finds(first, <<LF>>) THEN <<LF>>
      ELSE IF Finds(first, <<CR>>) THEN <<CR>>
      ELSE default_newline

(* Mutated: an unfinished last line is not finished first.                   *)
AppendedUnfinished(content) == content \o line \o newline(content)

(* "Do we need to append a newline to the existing file?"  An empty file     *)
(* ends in a virtual newline.                                                *)
Appended(content) ==
  LET nl == newline(content)
      size == Len(content)
      last_chars == IF size = 0 THEN nl
                    ELSE IF size >= Len(nl) THEN SubSeq(content, size - Len(nl) + 1, size)
                    ELSE content
  IN  content \o (IF last_chars = nl THEN <<>> ELSE nl) \o line \o nl

(* A line with a newline in it, or a path that is not a regular file, is an  *)
(* error; statns and pread have no effect.                                   *)
append_line(content, one_line, regular) ==
  /\ step = "ops"
  /\ IF one_line /\ (regular \/ content = NoText)
     THEN step' = "append_write" /\ text' = content
     ELSE step' = "failed" /\ UNCHANGED text

WriteLine ==
  /\ Call("append_write", "ops")
  /\ text' = IF text = NoText THEN line \o default_newline ELSE Appended(text)
  /\ IF text = NoText THEN Created ELSE UNCHANGED labels
=============================================================================
