---------------------------- MODULE QemuQuoting ----------------------------
(***************************************************************************)
(* The quoting of qemuopts/qemuopts.c, and how a shell and qemu read what  *)
(* it writes.  A string is a sequence of characters.  A character that     *)
(* none of the three treats specially may stand for several: a flag such   *)
(* as "-drive" is a string of one character.                               *)
(***************************************************************************)
EXTENDS Naturals, Sequences, SequencesExt

(* Special between double quotes ("$" stands for the backquote, too).       *)
Escaped == {"$", "\\", "\""}

(* What needs quotes: those, white space, and others such as "*".           *)
Unsafe == Escaped \cup {" ", "\n", "*"}

CommaQuote(str) == FlattenSeq([i \in 1 .. Len(str) |->
                     IF str[i] = "," THEN <<",", ",">> ELSE <<str[i]>>])

Backslashed(str) == FlattenSeq([i \in 1 .. Len(str) |->
                      IF str[i] \in Escaped THEN <<"\\", str[i]>> ELSE <<str[i]>>])

DoubleQuoted(str) == <<"\"">> \o Backslashed(str) \o <<"\"">>

(* Print str, shell-quoting it if necessary.                                *)
shell_quote(str) == IF ToSet(str) \cap Unsafe = {} THEN str ELSE DoubleQuoted(str)

(* Mutated: the safe characters are those of shell_quote.                   *)
CommaIsSafe(str) ==
  IF ToSet(str) \cap Unsafe = {} THEN str ELSE DoubleQuoted(CommaQuote(str))

(* The comma is not among the safe characters here.                         *)
shell_and_comma_quote(str) ==
  IF ToSet(str) \cap (Unsafe \cup {","}) = {} THEN str ELSE DoubleQuoted(CommaQuote(str))

Join(strs) == FlattenSeq([i \in 1 .. Len(strs) |->
                IF i = 1 THEN strs[i] ELSE <<",">> \o strs[i]])

-----------------------------------------------------------------------------
(* References                                                               *)

(* What a reader that starts in state s makes of a string.                  *)
Run(Step(_, _), s, str) ==
  LET run[n \in 0 .. Len(str)] == IF n = 0 THEN s ELSE Step(run[n - 1], str[n])
  IN  run[Len(str)]

(* A POSIX shell: unquoted spaces, and newlines after a backslash, separate *)
(* words; between double quotes a backslash quotes the escaped characters   *)
(* only; what a "$" or an unquoted "*" expands to is unknown.               *)
Expansion == "?"

Put(s, str) ==
  [words |-> s.words, word |-> s.word \o str,
   mode |-> IF s.mode = "blank" THEN "word" ELSE s.mode, backslash |-> FALSE]

WithMode(s, mode) == [words |-> s.words, word |-> s.word, mode |-> mode, backslash |-> FALSE]

EndOfWord(s) ==
  [words |-> IF s.mode = "word" THEN Append(s.words, s.word) ELSE s.words,
   word |-> <<>>, mode |-> "blank", backslash |-> FALSE]

ShStep(s, c) ==
  IF s.backslash
  THEN IF c = "\n" THEN WithMode(s, s.mode)
       ELSE Put(s, IF s.mode = "quoted" /\ c \notin Escaped THEN <<"\\", c>> ELSE <<c>>)
  ELSE CASE c = "\\" -> [s EXCEPT !.backslash = TRUE]
         [] c = "\"" -> WithMode(s, IF s.mode = "quoted" THEN "word" ELSE "quoted")
         [] c \in {" ", "\n"} /\ s.mode # "quoted" -> EndOfWord(s)
         [] c = "$" \/ (c = "*" /\ s.mode # "quoted") -> Put(s, <<Expansion>>)
         [] OTHER -> Put(s, <<c>>)

ShStart == [words |-> <<>>, word |-> <<>>, mode |-> "blank", backslash |-> FALSE]

ShRun(s, str) == Run(ShStep, s, str)

Sh(script) == ShStep(ShRun(ShStart, script), "\n").words

(* What follows a string is read as if the string were not there.           *)
Complete(str) == LET s == ShRun(ShStart, str) IN s.mode # "quoted" /\ ~s.backslash

(* qemu splits a value at commas, and two commas stand for one.             *)
QemuStep(s, c) ==
  CASE s.comma /\ c = ","   -> [s EXCEPT !.comma = FALSE, !.element = Append(@, ",")]
    [] s.comma /\ c # ","   -> [done |-> Append(s.done, s.element), element |-> <<c>>,
                               comma |-> FALSE]
    [] ~s.comma /\ c = ","  -> [s EXCEPT !.comma = TRUE]
    [] ~s.comma /\ c # ","  -> [s EXCEPT !.element = Append(@, c)]

QemuStart == [done |-> <<>>, element |-> <<>>, comma |-> FALSE]

QemuRun(s, str) == Run(QemuStep, s, str)

QemuSplit(str) == LET s == QemuRun(QemuStart, str) IN Append(s.done, s.element)
=============================================================================
