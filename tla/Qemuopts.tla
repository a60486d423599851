------------------------------ MODULE Qemuopts ------------------------------
(***************************************************************************)
(* The builder of qemu command lines, qemuopts/qemuopts.c: a client adds   *)
(* options, then writes them as an argument list, a shell script or a qemu *)
(* configuration file.  Memory may run out, and so may the disk.           *)
(*                                                                         *)
(* The _format variants of the calls are those of a formatted value, and   *)
(* qemuopts_add_arg_list is a start, its appends and an end.               *)
(***************************************************************************)
EXTENDS QemuQuoting, FiniteSets

CONSTANTS
  Characters,
  Flags,           (* flags, "-drive" for one                                *)
  Binaries,        (* names of qemu binaries                                 *)
  NoBinary,
  Values,          (* values of single arguments                             *)
  Unquoted,        (* values that the client has quoted itself               *)
  Raws,            (* options that the client has quoted itself              *)
  Elements,        (* elements of lists: name=value, or name                 *)
  NoId,
  PastTheEnd,      (* what the memory past the end of a string may hold      *)
  MaxCalls,      (* bound: calls that add something                        *)
  MaxFailures      (* bound: failures                                        *)

QemuoptsAssumption ==
  /\ MaxCalls \in Nat /\ MaxFailures \in Nat
  /\ \A e \in Elements : e # <<>> /\ e[1] \notin {",", "="}

ASSUME QemuoptsAssumption

(* Flags, and only they, begin with a "-"; a binary has a name; what the     *)
(* client has quoted itself is quoted to its end.                           *)
StringsAssumption ==
  /\ Escaped \cup {" ", "\n", ",", Expansion} \subseteq Characters
  /\ Flags \cup Binaries \cup Values \cup Unquoted \cup Raws \cup Elements \subseteq Seq(Characters)
  /\ \A f \in Flags : f # <<>> /\ ToSet(f) \cap Unsafe = {}
  /\ \A f \in Flags, v \in Values \cup Elements : v # <<>> => v[1] # f[1]
  /\ \A b \in Binaries : b # <<>>
  /\ \A u \in Unquoted \cup Raws : Complete(u)
  /\ \A r \in Raws : Sh(r) # <<>> => Sh(r)[1] \in Flags

ASSUME StringsAssumption

VARIABLES
  binary, options, nr_alloc,
  allocated,       (* how many options the array really has room for         *)
  in_list,         (* the client is between start and end                    *)
  calls,           (* the calls that succeeded: [call, flag, value]          *)
  failures,
  writer,          (* "none", "argv", "script" or "config"                   *)
  pc,              (* "building", "opened", "written", "closing", "ok",      *)
                   (* "error", "abort" (an assertion), or "undefined" after  *)
                   (* a write outside the array                              *)
  argv, file, mode (* what the writers have written                          *)

list    == <<options, nr_alloc, allocated>>
written == <<argv, file, mode>>
qemuoptsVars == <<binary, list, in_list, calls, failures, writer, pc, written>>

QemuoptsInit ==
  /\ binary = NoBinary /\ options = <<>> /\ nr_alloc = 0 /\ allocated = 0
  /\ in_list = FALSE /\ calls = <<>> /\ failures = 0
  /\ writer = "none" /\ pc = "building"
  /\ argv = <<>>
  /\ file \in {[state |-> "absent"], [state |-> "old"]} /\ mode = "0644"

-----------------------------------------------------------------------------
(* Building                                                                 *)

Qopt(type, flag, value) == [type |-> type, flag |-> flag, value |-> value, values |-> <<>>]

(* Mutated: the array is extended one option too late.                       *)
ExtendOffByOne(qopt) ==
  IF Len(options) <= nr_alloc
  THEN /\ pc' = IF Len(options) < allocated THEN pc ELSE "undefined"
       /\ options' = IF Len(options) < allocated THEN Append(options, qopt) ELSE options
       /\ UNCHANGED <<nr_alloc, allocated>>
  ELSE /\ nr_alloc' = IF nr_alloc = 0 THEN 1 ELSE 2 * nr_alloc
       /\ allocated' = nr_alloc'
       /\ options' = Append(options, qopt)
       /\ UNCHANGED pc

(* extend_options: nr_alloc is what the array was last asked to hold.        *)
Extend(qopt) ==
  IF Len(options) < nr_alloc
  THEN /\ pc' = IF Len(options) < allocated THEN pc ELSE "undefined"
       /\ options' = IF Len(options) < allocated THEN Append(options, qopt) ELSE options
       /\ UNCHANGED <<nr_alloc, allocated>>
  ELSE /\ nr_alloc' = IF nr_alloc = 0 THEN 1 ELSE 2 * nr_alloc
       /\ allocated' = nr_alloc'
       /\ options' = Append(options, qopt)
       /\ UNCHANGED pc

Called(c, flag, value) ==
  /\ pc = "building" /\ Len(calls) < MaxCalls
  /\ calls' = Append(calls, [call |-> c, flag |-> flag, value |-> value])
  /\ UNCHANGED <<binary, failures, writer, written>>

AddFlag(flag) ==
  /\ ~in_list
  /\ Called("flag", flag, <<>>)
  /\ Extend(Qopt("FLAG", flag, <<>>))
  /\ UNCHANGED in_list

AddArg(flag, value) ==
  /\ ~in_list
  /\ Called("arg", flag, value)
  /\ Extend(Qopt("ARG", flag, value))
  /\ UNCHANGED in_list

AddArgNoquote(flag, value) ==
  /\ ~in_list
  /\ Called("noquote", flag, value)
  /\ Extend(Qopt("ARG_NOQUOTE", flag, value))
  /\ UNCHANGED in_list

AddRaw(value) ==
  /\ ~in_list
  /\ Called("raw", <<>>, value)
  /\ Extend(Qopt("RAW", <<>>, value))
  /\ UNCHANGED in_list

StartArgList(flag) ==
  /\ ~in_list
  /\ Called("start", flag, <<>>)
  /\ Extend(Qopt("ARG_LIST", flag, <<>>))
  /\ in_list' = TRUE

AppendArgList(value) ==
  /\ in_list
  /\ Called("append", <<>>, value)
  /\ options' = [options EXCEPT ![Len(options)].values = Append(@, value)]
  /\ UNCHANGED <<nr_alloc, allocated, in_list, pc>>

(* It fails when the list is empty, which stays there.                      *)
EndArgList ==
  /\ pc = "building" /\ in_list
  /\ in_list' = FALSE
  /\ UNCHANGED <<binary, list, calls, failures, writer, pc, written>>

(* The flag has no "-", or strdup, calloc, vasprintf or the realloc of an    *)
(* append fails: the list is as it was, and a list that was being built is   *)
(* given up or completed by the client as it likes.                         *)
CallFails ==
  /\ pc = "building" /\ failures < MaxFailures
  /\ failures' = failures + 1
  /\ UNCHANGED <<binary, list, in_list, calls, writer, pc, written>>

(* The realloc of extend_options fails after nr_alloc has grown.             *)
ExtendFails ==
  /\ pc = "building" /\ failures < MaxFailures /\ ~in_list
  /\ Len(options) >= nr_alloc
  /\ nr_alloc' = IF nr_alloc = 0 THEN 1 ELSE 2 * nr_alloc
  /\ failures' = failures + 1
  /\ UNCHANGED <<binary, options, allocated, in_list, calls, writer, pc, written>>

SetBinary(b) ==
  /\ pc = "building"
  /\ binary' = b
  /\ UNCHANGED <<list, in_list, calls, failures, writer, pc, written>>

(* qemuopts_set_binary_by_arch has freed the old name when it fails.         *)
SetBinaryByArchFails ==
  /\ pc = "building" /\ failures < MaxFailures
  /\ failures' = failures + 1
  /\ binary' = NoBinary
  /\ UNCHANGED <<list, in_list, calls, writer, pc, written>>

-----------------------------------------------------------------------------
(* The three forms                                                          *)

Types == {options[i].type : i \in DOMAIN options}

(* qemuopts_to_argv: the words of an option.                                *)
ArgvWords(o) ==
  CASE o.type = "FLAG"        -> <<o.flag>>
    [] o.type = "ARG_NOQUOTE" -> <<o.flag, o.value>>
    [] o.type = "ARG"         -> <<o.flag, CommaQuote(o.value)>>
    [] o.type = "ARG_LIST"    ->
         <<o.flag, Join([j \in DOMAIN o.values |-> CommaQuote(o.values[j])])>>

Newline == <<" ", "\\", "\n", " ">>

(* qemuopts_to_channel: the line of an option.                              *)
ScriptLine(o) ==
  Newline \o
  CASE o.type = "FLAG"        -> o.flag
    [] o.type = "ARG_NOQUOTE" -> o.flag \o <<" ">> \o o.value
    [] o.type = "ARG"         -> o.flag \o <<" ">> \o shell_and_comma_quote(o.value)
    [] o.type = "ARG_LIST"    ->
         o.flag \o <<" ">>
           \o Join([j \in DOMAIN o.values |-> shell_and_comma_quote(o.values[j])])
    [] o.type = "RAW"         -> o.value

Script == shell_quote(binary)
            \o FlattenSeq([i \in DOMAIN options |-> ScriptLine(options[i])]) \o <<"\n">>

(* strncmp (values[j], "id=", 2): an element is the id if it begins with "id".*)
IdParam(values) ==
  SelectInSeq(values, LAMBDA e : Len(e) >= 2 /\ SubSeq(e, 1, 2) = <<"i", "d">>)

Setting(e) ==
  LET k == SelectInSeq(e, LAMBDA c : c = "=")
  IN  IF k = 0 THEN <<e, <<"on">> >> ELSE <<SubSeq(e, 1, k - 1), SubSeq(e, k + 1, Len(e))>>

(* &values[id_param][3], which for an element that is just "id" lies past    *)
(* its end.                                                                  *)
IdOf(e, past) == IF Len(e) = 2 THEN past ELSE SubSeq(e, 4, Len(e))

(* Mutated: the id is written among the settings, too.                      *)
SectionRepeatsId(o, past) ==
  LET id == IdParam(o.values)
  IN  [group |-> o.flag,
       id |-> IF id = 0 THEN NoId ELSE IdOf(o.values[id], past),
       settings |-> [j \in DOMAIN o.values |-> Setting(o.values[j])]]

(* qemuopts_to_config_channel: the section of an option.                    *)
Section(o, past) ==
  LET id == IdParam(o.values)
      others == IF id = 0 THEN o.values ELSE RemoveAt(o.values, id)
  IN  [group |-> o.flag,
       id |-> IF id = 0 THEN NoId ELSE IdOf(o.values[id], past),
       settings |-> [j \in DOMAIN others |-> Setting(others[j])]]

(* "not all qemuopts structs can be written".                               *)
ConfigPossible ==
  \A i \in DOMAIN options :
    options[i].type = "ARG_LIST" /\ \A j \in DOMAIN options[i].values :
                                      "\"" \notin ToSet(options[i].values[j])

(* What the file may come to contain.                                        *)
Outputs ==
  IF writer = "script" THEN {Script}
  ELSE {[i \in DOMAIN options |-> Section(options[i], past[i])] :
          past \in [DOMAIN options -> PastTheEnd]}

-----------------------------------------------------------------------------
(* Writing                                                                  *)

ToArgv ==
  /\ pc = "building" /\ ~in_list
  /\ writer' = "argv"
  /\ IF binary = NoBinary \/ "RAW" \in Types THEN pc' = "error" /\ UNCHANGED argv
     ELSE IF \E i \in DOMAIN options : options[i].type = "ARG_LIST" /\ options[i].values = <<>>
     THEN pc' = "abort" /\ UNCHANGED argv                (* assert (len > 0)   *)
     ELSE /\ pc' = "ok"
          /\ argv' = <<binary>> \o FlattenSeq([i \in DOMAIN options |-> ArgvWords(options[i])])
  /\ UNCHANGED <<binary, list, in_list, calls, failures, file, mode>>

ToArgvFails ==
  /\ pc = "building" /\ ~in_list /\ failures < MaxFailures
  /\ writer' = "argv" /\ pc' = "error"
  /\ failures' = failures + 1
  /\ UNCHANGED <<binary, list, in_list, calls, written>>

(* qemuopts_to_script, qemuopts_to_config_file: fopen truncates the file.    *)
Fopen ==
  /\ pc = "building" /\ ~in_list
  /\ writer' \in {"script", "config"} /\ pc' = "opened"
  /\ file' = [state |-> "partial"]
  /\ UNCHANGED <<binary, list, in_list, calls, failures, argv, mode>>

FopenFails ==
  /\ pc = "building" /\ ~in_list /\ failures < MaxFailures
  /\ writer' \in {"script", "config"} /\ pc' = "error"
  /\ failures' = failures + 1
  /\ UNCHANGED <<binary, list, in_list, calls, written>>

Unlinked == pc' = "error" /\ file' = [state |-> "absent"]

WriteChannel ==
  /\ pc = "opened"
  /\ IF (writer = "script" /\ binary = NoBinary) \/ (writer = "config" /\ ~ConfigPossible)
     THEN Unlinked
     ELSE pc' = "written" /\ UNCHANGED file
  /\ UNCHANGED <<binary, list, in_list, calls, failures, writer, argv, mode>>

(* fchmod, which only the script needs.                                     *)
Fchmod ==
  /\ pc = "written"
  /\ mode' = IF writer = "script" THEN "0755" ELSE mode
  /\ pc' = "closing"
  /\ UNCHANGED <<binary, list, in_list, calls, failures, writer, argv, file>>

Fclose ==
  /\ pc = "closing"
  /\ pc' = "ok"
  /\ \E content \in Outputs : file' = [state |-> "whole", content |-> content]
  /\ UNCHANGED <<binary, list, in_list, calls, failures, writer, argv, mode>>

(* Mutated: a file that cannot be closed is not removed.                    *)
WriterFailsKeeping ==
  /\ pc \in {"opened", "written", "closing"} /\ failures < MaxFailures
  /\ pc = "written" => writer = "script"
  /\ failures' = failures + 1
  /\ pc' = "error" /\ file' = IF pc = "closing" THEN file ELSE [state |-> "absent"]
  /\ UNCHANGED <<binary, list, in_list, calls, writer, argv, mode>>

(* ferror, fchmod or fclose reports an error; unlink is taken to succeed.    *)
WriterFails ==
  /\ pc \in {"opened", "written", "closing"} /\ failures < MaxFailures
  /\ pc = "written" => writer = "script"
  /\ failures' = failures + 1
  /\ Unlinked
  /\ UNCHANGED <<binary, list, in_list, calls, writer, argv, mode>>

QemuoptsNext ==
  \/ \E f \in Flags : AddFlag(f) \/ StartArgList(f)
  \/ \E f \in Flags, v \in Values : AddArg(f, v)
  \/ \E f \in Flags, v \in Unquoted : AddArgNoquote(f, v)
  \/ \E v \in Raws : AddRaw(v)
  \/ \E e \in Elements : AppendArgList(e)
  \/ EndArgList \/ CallFails \/ ExtendFails
  \/ \E b \in Binaries : SetBinary(b)
  \/ SetBinaryByArchFails
  \/ ToArgv \/ ToArgvFails
  \/ Fopen \/ FopenFails \/ WriteChannel \/ Fchmod \/ Fclose \/ WriterFails

QemuoptsSpec == QemuoptsInit /\ [][QemuoptsNext]_qemuoptsVars

-----------------------------------------------------------------------------
(* Properties                                                               *)

(* Types; the options are inside the array, which nothing is written outside *)
(* of unless a realloc has failed; and the assertions of the list calls      *)
(* hold: the last option is a list.                                         *)
QemuoptsTypeOK ==
  /\ pc \in {"building", "opened", "written", "closing", "ok", "error", "abort", "undefined"}
  /\ writer \in {"none", "argv", "script", "config"}
  /\ Types \subseteq {"FLAG", "ARG", "ARG_NOQUOTE", "RAW", "ARG_LIST"}
  /\ Len(options) <= allocated /\ allocated <= nr_alloc
  /\ pc = "undefined" => failures > 0
  /\ in_list => pc \in {"building", "undefined"}
  /\ in_list /\ pc = "building" => options # <<>> /\ options[Len(options)].type = "ARG_LIST"

(* What the client asked for: the flags with their values.                  *)
AskedStep(os, c) ==
  IF c.call = "append" THEN [os EXCEPT ![Len(os)].values = Append(@, c.value)]
  ELSE Append(os, [call |-> c.call, flag |-> c.flag, value |-> c.value, values |-> <<>>])

AskedBy(cs) == Run(AskedStep, <<>>, cs)

Asked == AskedBy(calls)

(* What qemu reads from the words that follow its name.                     *)
OptionStep(os, w) ==
  IF w \in Flags THEN Append(os, [flag |-> w, values |-> <<>>])
  ELSE [os EXCEPT ![Len(os)].values = @ \o QemuSplit(w)]

OptionRun(os, words) == Run(OptionStep, os, words)

QemuReads(words) == OptionRun(<<>>, words)

Meant(o, shell) ==
  CASE o.call = "raw"     -> QemuReads(Sh(o.value))
    [] o.call = "noquote" -> QemuReads(<<o.flag>> \o IF shell THEN Sh(o.value) ELSE <<o.value>>)
    [] o.call = "arg"     -> <<[flag |-> o.flag, values |-> <<o.value>>]>>
    [] OTHER              -> <<[flag |-> o.flag, values |-> o.values]>>

MeantByAll(shell) ==
  LET asked == Asked IN FlattenSeq([i \in DOMAIN asked |-> Meant(asked[i], shell)])

(* "this handles qemu quoting properly, so individual elements may contain   *)
(* commas and this will do the right thing" (qemuopts.c:496): however the     *)
(* calls are mixed, and whichever of them failed before, qemu reads from the *)
(* argument list, and from the script after the shell has read it, what the  *)
(* calls that succeeded have asked for.  An empty value, which the script    *)
(* writes as nothing, is excepted there.                                    *)
QemuReadsWhatWasAsked ==
  /\ pc = "ok" /\ writer = "argv" =>
       argv[1] = binary /\ QemuReads(Tail(argv)) = MeantByAll(FALSE)
  /\ pc = "ok" /\ writer = "script" =>
       LET words == Sh(file.content)
           asked == Asked
       IN  (\A i \in DOMAIN asked : asked[i].call = "arg" => asked[i].value # <<>>) =>
             words[1] = binary /\ QemuReads(Tail(words)) = MeantByAll(TRUE)

IsId(e) == Len(e) >= 3 /\ SubSeq(e, 1, 3) = <<"i", "d", "=">>

SectionAsked(o) ==
  LET id == SelectInSeq(o.values, IsId)
      others == IF id = 0 THEN o.values ELSE RemoveAt(o.values, id)
  IN  [group |-> o.flag,
       id |-> IF id = 0 THEN NoId ELSE SubSeq(o.values[id], 4, Len(o.values[id])),
       settings |-> [j \in DOMAIN others |-> Setting(others[j])]]

ConfigAsAsked ==
  pc = "ok" /\ writer = "config" =>
    LET asked == Asked IN file.content = [i \in DOMAIN asked |-> SectionAsked(asked[i])]

NameBeginsWithId(e) == ~IsId(e) /\ Len(e) >= 2 /\ SubSeq(e, 1, 2) = <<"i", "d">>

(* "Write the qemu options to a qemu config file ... returns an error in     *)
(* these cases" (qemuopts.c:902): a configuration file, when it is written,  *)
(* has a section for each list with its id and all its other elements in     *)
(* order, as long as no other element has a name that begins with "id".      *)
ConfigReadsWhatWasAsked ==
  (LET asked == Asked
   IN  \A i \in DOMAIN asked : \A j \in DOMAIN asked[i].values :
         ~NameBeginsWithId(asked[i].values[j]))
    => ConfigAsAsked

(* Everything that is written says what was asked for, to its reader.        *)
ReadersSeeWhatWasAsked == QemuReadsWhatWasAsked /\ ConfigReadsWhatWasAsked

(* "The id=... parameter is special" (qemuopts.c:1012), and no other.         *)
OnlyIdIsSpecial == ConfigAsAsked

(* "Returns 0 on success.  Returns -1 on error" (qemuopts.c:602): a script or *)
(* file is there in full, the script executable, when 0 is returned; after   *)
(* an error there is none, or the old one when it could not be opened.       *)
FileWholeOrGone ==
  writer \in {"script", "config"} =>
    /\ pc = "ok" => file.state = "whole" /\ (writer = "script" => mode = "0755" /\ binary # NoBinary)
    /\ pc = "error" => file.state \in {"absent", "old"}
=============================================================================
