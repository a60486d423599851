-------------------------------- MODULE Visit --------------------------------
(***************************************************************************)
(* visit/visit.c: a visitor function is called for a directory of the      *)
(* guest and, recursively, for everything below it.  In an OCaml program   *)
(* the visitor is a closure, which mlvisit/visit-c.c calls from C and      *)
(* whose exceptions it carries over the C frames of the recursion.         *)
(*                                                                         *)
(* The visitor may remove files, as that of a program which cleans a guest *)
(* does.                                                                   *)
(***************************************************************************)
EXTENDS Appliance, Naturals, Sequences, SequencesExt, Functions

CONSTANTS
  Names,        (* of directory entries                                      *)
  NoName,       (* NULL or None, which the visitor gets for the top          *)
  Unreadable,   (* the attributes of a file whose attributes cannot be read  *)
  Exceptions,   (* that an OCaml visitor raises                              *)
  MaxRemovals   (* bound: files that visitors remove                         *)

ASSUME VisitAssumption ==
  /\ IsFiniteSet(Names) /\ NoName \notin Names
  /\ Unreadable \notin Nat
  /\ Exceptions \cap {"unit", "none", "error", "visitor", "0", "-1"} = {}

VARIABLES
  caller,       (* "C" or "OCaml"                                            *)
  visit_pc,     (* "idle", "top", "calling", "list", "next", "return", "done" *)
  top,          (* the directory that visit () is called with                *)
  stack,        (* the calls of _visit, the innermost first                  *)
  ret,          (* what the call of _visit that returns has returned         *)
  exn,          (* the exception that the wrapper has stored, or "unit"      *)
  outcome,      (* what visit () has come to in the calling program          *)
  before,       (* history: the tree when visit () was called                *)
  calls,        (* history: the calls of the visitor                         *)
  failure       (* history: what failed: "none", "error", "visitor" in C, or *)
                (* the exception                                             *)

visitVars == <<caller, visit_pc, top, stack, ret, exn, outcome, before, calls, failure>>

VisitInit ==
  /\ caller \in {"C", "OCaml"}
  /\ visit_pc = "idle" /\ top = <<>> /\ stack = <<>> /\ ret = 0
  /\ exn = "unit" /\ outcome = "none"
  /\ before = <<>> /\ calls = <<>> /\ failure = "none"

(* guestfs_int_full_path, for the entry that the visitor is called with.     *)
PathOf(c) == IF c.name = NoName THEN c.dir ELSE Append(c.dir, c.name)

Entries(dir) == {n \in Names : Append(dir, n) \in DOMAIN tree}

(* lxattrlist: for each file the number of its attributes, as the value of   *)
(* an attribute that has no name, and then these.                            *)
Header(x) == [attrname |-> "", attrval |-> IF x = Unreadable THEN Unreadable ELSE Len(x)]

XattrList(dir, names) ==
  FlattenSeq([k \in DOMAIN names |->
    LET x == tree[Append(dir, names[k])].xattrs
    IN  <<Header(x)>> \o (IF x = Unreadable THEN <<>> ELSE x)])

CallVisitor(dir, name, kind, xattrs) ==
  /\ calls' = Append(calls, [dir |-> dir, name |-> name, kind |-> kind, xattrs |-> xattrs])
  /\ visit_pc' = "calling"

Fail(f) == visit_pc' = "return" /\ ret' = -1 /\ failure' = f

-----------------------------------------------------------------------------
(* _visit                                                                   *)

(* The program calls visit ().                                              *)
Visit(dir) ==
  /\ visit_pc = "idle"
  /\ visit_pc' = "top" /\ top' = dir /\ before' = tree
  /\ UNCHANGED <<appliance, caller, stack, ret, exn, outcome, calls, failure>>

(* At depth 0, lstatns and lgetxattrs of the directory itself.              *)
VisitTop ==
  /\ visit_pc = "top"
  /\ top \in DOMAIN tree /\ tree[top].xattrs # Unreadable
  /\ CallVisitor(top, NoName, tree[top].kind, tree[top].xattrs)
  /\ UNCHANGED <<appliance, caller, top, stack, ret, exn, outcome, before, failure>>

(* One of the calls of the appliance fails, also because there is no such   *)
(* directory, or the memory is exhausted.                                   *)
ApplianceFails ==
  /\ visit_pc \in {"top", "list"}
  /\ Fail("error")
  /\ UNCHANGED <<appliance, caller, top, stack, exn, outcome, before, calls>>

(* ls, lstatnslist and lxattrlist of the directory that the visitor has     *)
(* just been called for.  Whatever the order of the names, it is the same   *)
(* in the three lists.                                                      *)
ListDir ==
  /\ visit_pc = "list"
  /\ LET dir == PathOf(Last(calls))
     IN  /\ dir \in DOMAIN tree /\ tree[dir].kind = "dir"
         /\ \E names \in SetToSeqs(Entries(dir)) :
              stack' = <<[dir |-> dir, names |-> names,
                          stats |-> [k \in DOMAIN names |-> tree[Append(dir, names[k])].kind],
                          xattrs |-> XattrList(dir, names), i |-> 1, xattrp |-> 1]>> \o stack
  /\ visit_pc' = "next"
  /\ UNCHANGED <<appliance, caller, top, ret, exn, outcome, before, calls, failure>>

(* Mutated: the attributes of the previous file are not skipped.            *)
VisitEntryOffByOne ==
  /\ visit_pc = "next" /\ Head(stack).i <= Len(Head(stack).names)
  /\ LET f == Head(stack)
         x == f.xattrs[f.xattrp]
     IN  /\ x.attrval # Unreadable
         /\ CallVisitor(f.dir, f.names[f.i], f.stats[f.i],
                 SubSeq(f.xattrs, f.xattrp + 1, f.xattrp + x.attrval))
         /\ stack' = <<[f EXCEPT !.i = @ + 1, !.xattrp = @ + 1]>> \o Tail(stack)
  /\ UNCHANGED <<appliance, caller, top, ret, exn, outcome, before, failure>>

(* Mutated: the loop does not go on to the next name.                       *)
VisitEntryAgain ==
  /\ visit_pc = "next" /\ Head(stack).i <= Len(Head(stack).names)
  /\ LET f == Head(stack)
         x == f.xattrs[f.xattrp]
     IN  /\ x.attrval # Unreadable
         /\ CallVisitor(f.dir, f.names[f.i], f.stats[f.i],
                 SubSeq(f.xattrs, f.xattrp + 1, f.xattrp + x.attrval))
         /\ stack' = stack
  /\ UNCHANGED <<appliance, caller, top, ret, exn, outcome, before, failure>>

(* The loop finds the attributes of the next file behind those of the       *)
(* previous one, and calls the function.                                    *)
VisitEntry ==
  /\ visit_pc = "next" /\ Head(stack).i <= Len(Head(stack).names)
  /\ LET f == Head(stack)
         x == f.xattrs[f.xattrp]
     IN  /\ x.attrval # Unreadable
         /\ CallVisitor(f.dir, f.names[f.i], f.stats[f.i],
                 SubSeq(f.xattrs, f.xattrp + 1, f.xattrp + x.attrval))
         /\ stack' = <<[f EXCEPT !.i = @ + 1, !.xattrp = @ + x.attrval + 1]>> \o Tail(stack)
  /\ UNCHANGED <<appliance, caller, top, ret, exn, outcome, before, failure>>

(* "error getting extended attrs"; or the memory is exhausted.              *)
EntryFails ==
  /\ visit_pc = "next" /\ Head(stack).i <= Len(Head(stack).names)
  /\ Fail("error")
  /\ UNCHANGED <<appliance, caller, top, stack, exn, outcome, before, calls>>

EndDir ==
  /\ visit_pc = "next" /\ Head(stack).i > Len(Head(stack).names)
  /\ stack' = Tail(stack)
  /\ visit_pc' = "return" /\ ret' = 0
  /\ UNCHANGED <<appliance, caller, top, exn, outcome, before, calls, failure>>

(* Mutated: a recursive call that fails is no reason to stop.               *)
ContinueLoopAlways ==
  /\ visit_pc = "return" /\ stack # <<>>
  /\ visit_pc' = "next" /\ ret' = 0
  /\ UNCHANGED <<appliance, caller, top, stack, exn, outcome, before, calls, failure>>

(* A recursive call has returned 0: the loop goes on ...                    *)
ContinueLoop ==
  /\ visit_pc = "return" /\ stack # <<>> /\ ret = 0
  /\ visit_pc' = "next"
  /\ UNCHANGED <<appliance, caller, top, stack, ret, exn, outcome, before, calls, failure>>

(* ... or it has not, and this call returns -1, too.                        *)
Unwind ==
  /\ visit_pc = "return" /\ stack # <<>> /\ ret = -1
  /\ stack' = Tail(stack)
  /\ UNCHANGED <<appliance, caller, visit_pc, top, ret, exn, outcome, before, calls, failure>>

-----------------------------------------------------------------------------
(* The visitor                                                              *)

(* It removes a file, which may be one that has been listed.                *)
VisitorRemoves(path) ==
  /\ visit_pc = "calling" /\ ~readonly
  /\ tree[path].kind # "dir"
  /\ Cardinality(DOMAIN before \ DOMAIN tree) < MaxRemovals
  /\ fs' = [fs EXCEPT ![device] = Restrict(@, DOMAIN @ \ {path})]
  /\ UNCHANGED <<device, readonly, visitVars>>

(* Back in _visit: a directory is visited next.                             *)
VisitorReturns ==
  /\ visit_pc = "calling"
  /\ visit_pc' = IF Last(calls).name = NoName \/ Last(calls).kind = "dir" THEN "list" ELSE "next"
  /\ UNCHANGED <<appliance, caller, top, stack, ret, exn, outcome, before, calls, failure>>

(* A visitor in C returns -1.                                               *)
VisitorFails ==
  /\ visit_pc = "calling" /\ caller = "C"
  /\ Fail("visitor")
  /\ UNCHANGED <<appliance, caller, top, stack, exn, outcome, before, calls>>

(* The wrapper keeps the exception that an OCaml visitor raises.            *)
VisitorRaises(e) ==
  /\ visit_pc = "calling" /\ caller = "OCaml"
  /\ Fail(e) /\ exn' = e
  /\ UNCHANGED <<appliance, caller, top, stack, outcome, before, calls>>

(* Mutated: the binding looks at the exception only.                        *)
VisitReturnsUnlessRaised ==
  /\ visit_pc = "return" /\ stack = <<>>
  /\ visit_pc' = "done"
  /\ outcome' = IF exn = "unit" THEN "0" ELSE exn
  /\ UNCHANGED <<appliance, caller, top, stack, ret, exn, before, calls, failure>>

(* visit () returns; the binding raises the exception of the visitor or its  *)
(* own one.                                                                 *)
VisitReturns ==
  /\ visit_pc = "return" /\ stack = <<>>
  /\ visit_pc' = "done"
  /\ \/ ret = 0 /\ outcome' = "0"
     \/ ret = -1 /\ caller = "C" /\ outcome' = "-1"
     \/ ret = -1 /\ caller = "OCaml" /\ outcome' = IF exn # "unit" THEN exn ELSE "Failure"
  /\ UNCHANGED <<appliance, caller, top, stack, ret, exn, before, calls, failure>>

VisitNext ==
  \/ VisitTop \/ ApplianceFails \/ ListDir \/ VisitEntry \/ EntryFails \/ EndDir
  \/ ContinueLoop \/ Unwind \/ VisitReturns
  \/ VisitorReturns \/ VisitorFails
  \/ \E path \in DOMAIN tree : VisitorRemoves(path)
  \/ \E e \in Exceptions : VisitorRaises(e)

-----------------------------------------------------------------------------
(* Properties                                                               *)

(* Never twice for one file, and for a directory before what it contains.    *)
OncePerFile ==
  /\ \A i, j \in DOMAIN calls : PathOf(calls[i]) = PathOf(calls[j]) => i = j
  /\ \A i \in DOMAIN calls :
       /\ i = 1 => calls[i].dir = top /\ calls[i].name = NoName
       /\ i > 1 => \E j \in 1 .. i - 1 : PathOf(calls[j]) = calls[i].dir /\ calls[j].kind = "dir"

(* With the file's own type and attributes.                                  *)
AsItWas(c) ==
  /\ PathOf(c) \in DOMAIN before
  /\ before[PathOf(c)] = [kind |-> c.kind, xattrs |-> c.xattrs]

(* For everything that is there and has not been removed by the visitor.     *)
NothingLeftOut ==
  \A path \in DOMAIN tree : IsPrefix(top, path) =>
    \E i \in DOMAIN calls : PathOf(calls[i]) = path

(* "The visitor function f is called once for every directory and every      *)
(* file" (visit.c:53): never twice, with a type and attributes that are cut  *)
(* from lists of all files of a directory, and when visit returns 0, for     *)
(* everything, although the visitor may remove files that are still to come. *)
VisitsTheTree ==
  /\ OncePerFile
  /\ \A i \in DOMAIN calls : AsItWas(calls[i])
  /\ outcome = "0" => NothingLeftOut

(* "The visitor function may return -1 which causes the whole recursion to   *)
(* stop with an error" (visit.c:57): after a failure nothing is visited any  *)
(* more, and the caller hears of it at whatever depth it was.  "The failure  *)
(* was caused by visitor_function raising an exception.  Re-raise it here"   *)
(* (visit-c.c:73): an OCaml caller gets the exception of its own visitor     *)
(* and, for any other failure, Visit.Failure.                               *)
FailureReported ==
  /\ failure # "none" => visit_pc \in {"return", "done"} /\ ret = -1
  /\ visit_pc = "done" =>
       outcome = IF failure = "none" THEN "0"
                 ELSE IF caller = "C" THEN "-1"
                 ELSE IF failure = "error" THEN "Failure" ELSE failure
=============================================================================
