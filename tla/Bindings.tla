------------------------------ MODULE Bindings ------------------------------
(***************************************************************************)
(* A program at work on a guest with the helpers that hold state between   *)
(* calls or across callbacks.  It is one of                                *)
(*                                                                         *)
(*   "walk"   a C program that lists a directory of the guest, which the   *)
(*            user may have named as Windows does, or an OCaml program     *)
(*            whose visitor is a closure                                   *)
(*   "pcre"   an OCaml program with threads that use regular expressions   *)
(*   "xml"    an OCaml program that queries XML documents                  *)
(*                                                                         *)
(* The helpers share no state, so a program with several of them is        *)
(* subject to what holds of each.                                          *)
(***************************************************************************)
EXTENDS Visit, WindowsPath, Pcre, Xml

CONSTANTS
  Types,          (* of guests: inspect_get_type, or "" when that fails       *)
  DriveMappings,  (* what the guest's drive mappings may be                   *)
  Filesystems,    (* what may be on the devices                              *)
  Paths,          (* that the user of the C activity may give: [letter, rest] *)
  Attributes      (* of files                                                *)

(* A file is in a directory, and the drives are devices.                     *)
ASSUME FilesystemsAssumption ==
  \A f \in Filesystems :
    /\ NoDevice \notin DOMAIN f
    /\ \A m \in DriveMappings : \A i \in DOMAIN m : m[i].device \in DOMAIN f
    /\ \A d \in DOMAIN f :
         /\ DOMAIN f[d] \subseteq Seq(Names)
         /\ f[d] \in [DOMAIN f[d] -> [kind : {"dir", "file", "symlink"},
                                     xattrs : Seq(Attributes) \cup {Unreadable}]]
         /\ \A p \in DOMAIN f[d] :
              p # <<>> => Front(p) \in DOMAIN f[d] /\ f[d][Front(p)].kind = "dir"

ASSUME PathsAssumption == \A path \in Paths : path.rest \in Seq(Range(path.rest))

VARIABLE activity

bindingsVars == <<activity, appliance, visitVars, windowsVars, pcreVars, xmlVars>>

(* A program that does not look at a guest has none.                         *)
BindingsInit ==
  /\ activity \in {"walk", "pcre", "xml"}
  /\ type \in (IF activity = "walk" THEN Types ELSE {""})
  /\ mappings \in (IF type = "windows" THEN DriveMappings ELSE {<<>>})
  /\ fs \in Filesystems
  /\ device \in (IF activity = "walk" THEN DOMAIN fs ELSE {NoDevice})
  /\ readonly \in (IF activity = "walk" THEN BOOLEAN ELSE {TRUE})
  /\ VisitInit /\ WindowsInit /\ PcreInit /\ XmlInit
  /\ activity # "walk" => caller = "OCaml"

-----------------------------------------------------------------------------
(* The C program resolves the path of a Windows guest, unless it goes on    *)
(* with it as it is.                                                        *)
StartResolve ==
  /\ caller = "C" /\ is_windows
  /\ \E path \in Paths, ro \in BOOLEAN : WindowsPath(path, ro)
  /\ UNCHANGED visitVars

StartVisit ==
  /\ \/ win_pc = "done" /\ Visit(result)
     \/ (caller = "OCaml" \/ ~is_windows) /\ \E dir \in DOMAIN tree : Visit(dir)
  /\ UNCHANGED windowsVars

Walk ==
  /\ activity = "walk"
  /\ \/ StartResolve
     \/ StartVisit
     \/ WindowsNext /\ UNCHANGED visitVars
     \/ VisitNext /\ UNCHANGED windowsVars
  /\ UNCHANGED <<pcreVars, xmlVars>>

Match ==
  /\ activity = "pcre"
  /\ PcreNext
  /\ UNCHANGED <<appliance, visitVars, windowsVars, xmlVars>>

Query ==
  /\ activity = "xml"
  /\ XmlNext
  /\ UNCHANGED <<appliance, visitVars, windowsVars, pcreVars>>

BindingsNext == (Walk \/ Match \/ Query) /\ UNCHANGED activity

BindingsSpec == BindingsInit /\ [][BindingsNext]_bindingsVars

-----------------------------------------------------------------------------
(* Properties                                                               *)

(* Types; the calls of _visit that are under way are those of the            *)
(* directories above the file that the visitor has been called for.         *)
BindingsTypeOK ==
  /\ activity \in {"walk", "pcre", "xml"}
  /\ device \in DOMAIN fs \cup {NoDevice} /\ readonly \in BOOLEAN
  /\ caller \in {"C", "OCaml"}
  /\ visit_pc \in {"idle", "top", "calling", "list", "next", "return", "done"}
  /\ ret \in {0, -1}
  /\ exn \in {"unit"} \cup Exceptions
  /\ outcome \in {"none", "0", "-1", "Failure"} \cup Exceptions
  /\ failure \in {"none", "error", "visitor"} \cup Exceptions
  /\ \A i \in DOMAIN stack :
       /\ stack[i].i \in 1 .. Len(stack[i].names) + 1
       /\ i > 1 => stack[i].i > 1 /\ stack[i - 1].dir = Append(stack[i].dir, stack[i].names[stack[i].i - 1])
  /\ visit_pc = "next" => stack # <<>>
  /\ win_pc \in {"idle", "letter", "umount", "mount", "case", "done", "null", "exit"}
  /\ asked_ro \in BOOLEAN
  /\ regexps \in [Regexps -> {"none", "live", "freed"}]
  /\ allocated \in 0 .. MaxMatches
  /\ last_match \in [Threads -> 1 .. allocated \cup {NULL}]
  /\ matched \in [Threads -> Matching \cup {NULL}]
  /\ answer # NULL => answer.to \in Threads
  /\ reading \in [t : Threads, n : 0 .. Groups + 1] \cup {NULL}
  /\ objects \in Seq([kind : {"doc", "ctx", "obj", "node"}, doc : Nat, node : Nat, cycle : Nat])
  /\ freed \subseteq DOMAIN objects /\ unlinked \subseteq DOMAIN objects
  /\ collections \in Nat
=============================================================================
