--------------------------------- MODULE Xml ---------------------------------
(***************************************************************************)
(* mlxml/xml-c.c and xml.ml: the objects of libxml2 that OCaml values refer *)
(* to, and the order in which the garbage collector has them freed.        *)
(*                                                                         *)
(* The nodes of a document that are never freed alone are not told apart   *)
(* from the document; those that a program adds and may unlink are objects *)
(* of their own.  A namespace node, which libxml2 makes for a result and   *)
(* frees with it, is not told apart from the result.  The functions that   *)
(* only read or write inside of a document have no action here: what they  *)
(* dereference is in Dereferences.                                         *)
(***************************************************************************)
EXTENDS Naturals, FiniteSets, Sequences

CONSTANTS
  Null,
  MaxObjects   (* bound: objects that are allocated                          *)

ASSUME XmlAssumption == Null \notin Nat

VARIABLES
  objects,     (* [kind, doc, node, cycle] of each address: its document,    *)
               (* the current node of a context, a node in the set of a      *)
               (* result or the parent of a node, and the collection that    *)
               (* has found it unreachable or 0                              *)
  freed,       (* the addresses that finalisers have freed                   *)
  unlinked,    (* those that unlink_node has freed                           *)
  values,      (* the values that the OCaml program can reach                *)
  collections  (* how many there have been                                   *)

xmlVars == <<objects, freed, unlinked, values, collections>>

XmlInit == objects = <<>> /\ freed = {} /\ unlinked = {} /\ values = {} /\ collections = 0

(* doc, node = doc * nodeptr, xpathctx = doc * xpathctxptr and               *)
(* xpathobj = xpathctx * xpathobjptr                                        *)
Doc(d)        == [docptr |-> d, nodeptr |-> Null, xpathctxptr |-> Null, xpathobjptr |-> Null]
Node(d, n)    == [docptr |-> d, nodeptr |-> n, xpathctxptr |-> Null, xpathobjptr |-> Null]
Ctx(d, c)     == [docptr |-> d, nodeptr |-> Null, xpathctxptr |-> c, xpathobjptr |-> Null]
Obj(d, c, o)  == [docptr |-> d, nodeptr |-> Null, xpathctxptr |-> c, xpathobjptr |-> o]

IsDoc(v)  == v = Doc(v.docptr)
IsNode(v) == v.nodeptr # Null
IsCtx(v)  == v.xpathctxptr # Null /\ v.xpathobjptr = Null
IsObj(v)  == v.xpathobjptr # Null

New(kind, doc, node) ==
  /\ Len(objects) < MaxObjects
  /\ objects' = Append(objects, [kind |-> kind, doc |-> doc, node |-> node, cycle |-> 0])

NewPtr == Len(objects) + 1

Live(p) == p \in DOMAIN objects \ (freed \cup unlinked)

-----------------------------------------------------------------------------
(* Each function that allocates an object has Gc.finalise free it.          *)

(* parse_memory, parse_file and, of a doc that the program has, copy_doc.   *)
NewDoc ==
  /\ New("doc", NewPtr, NewPtr)
  /\ values' = values \cup {Doc(NewPtr)}
  /\ UNCHANGED <<freed, unlinked, collections>>

(* doc_get_root_element                                                     *)
GetRootElement(v) ==
  /\ IsDoc(v)
  /\ values' = values \cup {Node(v.docptr, v.docptr)}
  /\ UNCHANGED <<objects, freed, unlinked, collections>>

(* Mutated: the context is not paired with its document.                    *)
NewContextAlone(v) ==
  /\ IsDoc(v)
  /\ New("ctx", v.docptr, v.docptr)
  /\ values' = values \cup {Ctx(NewPtr, NewPtr)}
  /\ UNCHANGED <<freed, unlinked, collections>>

(* xpath_new_context                                                        *)
NewContext(v) ==
  /\ IsDoc(v)
  /\ New("ctx", v.docptr, v.docptr)
  /\ values' = values \cup {Ctx(v.docptr, NewPtr)}
  /\ UNCHANGED <<freed, unlinked, collections>>

(* The document and the nodes that may be added to it and unlinked.          *)
NodesOf(d) == {n \in DOMAIN objects : objects[n].kind \in {"doc", "node"} /\ objects[n].doc = d}

(* xpath_eval_expression: an expression starts at the root or at the current *)
(* node, and may find any node of their documents or make a namespace node.  *)
(* A current node that is freed is not followed.                             *)
EvalExpression(v) ==
  /\ IsCtx(v)
  /\ LET n == objects[v.xpathctxptr].node
     IN  \E found \in NodesOf(v.docptr) \cup (IF Live(n) THEN NodesOf(objects[n].doc) \cup {n} ELSE {})
                      \cup {NewPtr} :
           /\ found # NewPtr => Live(found)
           /\ New("obj", v.docptr, found)
  /\ values' = values \cup {Obj(v.docptr, v.xpathctxptr, NewPtr)}
  /\ UNCHANGED <<freed, unlinked, collections>>

(* xpathobj_node                                                            *)
GetNode(v) ==
  /\ IsObj(v)
  /\ values' = values \cup {Node(v.docptr, objects[v.xpathobjptr].node)}
  /\ UNCHANGED <<objects, freed, unlinked, collections>>

(* xpathctx_set_current_context: the node may be one of another document.   *)
SetCurrentContext(v, n) ==
  /\ IsCtx(v) /\ IsNode(n)
  /\ objects' = [objects EXCEPT ![v.xpathctxptr].node = n.nodeptr]
  /\ UNCHANGED <<freed, unlinked, values, collections>>

(* new_text_child: the new node is of its parent's document.                *)
NewTextChild(v) ==
  /\ IsNode(v) /\ Live(v.nodeptr) /\ objects[v.nodeptr].kind \in {"doc", "node"}
  /\ New("node", objects[v.nodeptr].doc, v.nodeptr)
  /\ values' = values \cup {Node(v.docptr, NewPtr)}
  /\ UNCHANGED <<freed, unlinked, collections>>

(* A node and those below it.                                               *)
Below(n) ==
  LET is[p \in DOMAIN objects] == p = n \/ (objects[p].kind = "node" /\ is[objects[p].node])
  IN  {p \in DOMAIN objects : is[p]}

(* unlink_node "frees the node, do not use it afterwards" (xml.mli), and     *)
(* frees what is below it: a program has to drop these nodes, but a result   *)
(* may have them in its set and a context may be at one.                     *)
UnlinkNode(v) ==
  /\ IsNode(v) /\ Live(v.nodeptr) /\ objects[v.nodeptr].kind = "node"
  /\ unlinked' = unlinked \cup Below(v.nodeptr)
  /\ values' = {w \in values : w.nodeptr \notin Below(v.nodeptr)}
  /\ UNCHANGED <<objects, freed, collections>>

(* The program drops a value.                                               *)
Drop(v) ==
  /\ values' = values \ {v}
  /\ UNCHANGED <<objects, freed, unlinked, collections>>

-----------------------------------------------------------------------------
(* The garbage collector                                                    *)

Finalised(v) == {v.docptr, v.xpathctxptr, v.xpathobjptr} \ {Null}

Reachable(p) == \E v \in values : p \in Finalised(v)

(* A node has no finaliser.                                                 *)
Lost(p) == objects[p].kind # "node" /\ objects[p].cycle = 0 /\ ~Reachable(p)

(* A collection finds the pointers that cannot be reached any more.         *)
Collect ==
  /\ \E p \in DOMAIN objects : Lost(p)
  /\ collections' = collections + 1
  /\ objects' = [p \in DOMAIN objects |->
                   IF Lost(p) THEN [objects[p] EXCEPT !.cycle = collections'] ELSE objects[p]]
  /\ UNCHANGED <<freed, unlinked, values>>

Waiting == {p \in DOMAIN objects \ freed : objects[p].cycle > 0}

(* xmlFreeDoc frees the nodes that are still linked; a namespace node goes   *)
(* with its result.                                                         *)
FreedWith(p) == {p} \cup {n \in DOMAIN objects : objects[n].kind = "node" /\ objects[n].doc = p /\ Live(n)}

(* Mutated: as the finalisers of custom blocks, in any order.               *)
FreeInAnyOrder(p) ==
  /\ p \in Waiting
  /\ freed' = freed \cup FreedWith(p)
  /\ UNCHANGED <<objects, unlinked, values, collections>>

(* free_docptr, free_xpathctxptr or free_xpathobjptr: Gc.finalise runs the   *)
(* functions of one collection in the reverse order of their registration.  *)
Free(p) ==
  /\ p \in Waiting
  /\ \A q \in Waiting :
       \/ objects[p].cycle < objects[q].cycle
       \/ objects[p].cycle = objects[q].cycle /\ q <= p
  /\ freed' = freed \cup FreedWith(p)
  /\ UNCHANGED <<objects, unlinked, values, collections>>

XmlNext ==
  \/ NewDoc \/ Collect
  \/ \E v \in values :
       \/ GetRootElement(v) \/ NewContext(v) \/ EvalExpression(v) \/ GetNode(v)
       \/ NewTextChild(v) \/ UnlinkNode(v) \/ Drop(v)
       \/ \E n \in values : SetCurrentContext(v, n)
  \/ \E p \in DOMAIN objects : Free(p)

-----------------------------------------------------------------------------
(* Properties                                                               *)

(* The node is of the document and not one that a result has made.           *)
OwnedBy(n, d) == n \in NodesOf(d)

(* The garbage collector does not "end up freeing an object before all the C *)
(* references to it are freed" (xml.ml:24).  Whenever it runs, the pointers   *)
(* in a value of the program are there, and so are the nodes of the value's   *)
(* own document; and an object is freed before its document and before the   *)
(* document's nodes in it.  A value does not keep a node of another document  *)
(* (set as the current node of a context), nor a result whose namespace node  *)
(* it is, nor what unlink_node frees: NothingDangles.                        *)
OwnersOutlive ==
  /\ \A v \in values :
       /\ Finalised(v) \cap freed = {}
       /\ IsNode(v) /\ OwnedBy(v.nodeptr, v.docptr) => v.nodeptr \notin freed
  /\ \A p \in DOMAIN objects : Live(p) =>
       /\ objects[p].doc \notin freed
       /\ OwnedBy(objects[p].node, objects[p].doc) => objects[p].node \notin freed

(* What the functions of a value dereference: the objects whose pointers are *)
(* in it, the document of its node, and what these objects point to.        *)
PointsTo(p) == {p, objects[p].doc, objects[p].node}

Dereferences(v) ==
  (UNION {PointsTo(p) : p \in Finalised(v)}) \cup ({v.nodeptr} \ {Null})

(* "We have to make that ownership explicit to the garbage collector, else   *)
(* we could end up freeing an object before all the C references to it are   *)
(* freed" (xml.ml:23): nothing that a value of the program leads to has been  *)
(* freed.                                                                   *)
NothingDangles == \A v \in values : Dereferences(v) \cap (freed \cup unlinked) = {}
=============================================================================
