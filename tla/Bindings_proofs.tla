--------------------------- MODULE Bindings_proofs ---------------------------
(***************************************************************************)
(* Theorems about the helpers that hold state between calls or across      *)
(* callbacks, for any guest, any path, any threads and regular             *)
(* expressions, any documents and any order of collections.  The helpers   *)
(* share no state: each has an inductive invariant of its own.             *)
(***************************************************************************)
EXTENDS Bindings, FiniteSetTheorems, SequenceTheorems, WellFoundedInduction, TLAPS

-----------------------------------------------------------------------------
(* xml-c.c                                                                  *)

Objects == [kind : {"doc", "ctx", "obj", "node"}, doc : Nat, node : Nat, cycle : Nat]

XmlTypes ==
  /\ objects \in Seq(Objects)
  /\ freed \subseteq DOMAIN objects
  /\ unlinked \subseteq DOMAIN objects
  /\ collections \in Nat
  /\ values \subseteq [docptr : Nat, nodeptr : Nat \cup {Null}, xpathctxptr : Nat \cup {Null},
                       xpathobjptr : Nat \cup {Null}]

(* An object is in a document, which was there before.                       *)
InDocuments(p) ==
  /\ objects[p].doc \in 1 .. p /\ objects[p].node \in DOMAIN objects
  /\ objects[objects[p].doc].doc = objects[p].doc
  /\ objects[objects[p].doc].kind = "doc"
  /\ objects[p].kind = "doc" => objects[p].doc = p

(* No object is found unreachable after its document, and no node ever.      *)
NotAfterDocument(p) ==
  /\ objects[p].cycle <= collections
  /\ objects[p].kind = "node" => objects[p].cycle = 0
  /\ objects[p].kind # "node" /\ objects[objects[p].doc].cycle > 0 =>
       objects[p].cycle > 0 /\ objects[p].cycle <= objects[objects[p].doc].cycle

(* The pointers in a value are of one document and have never been           *)
(* unreachable.                                                             *)
Holds(v) ==
  /\ v.docptr # Null
  /\ \A p \in Finalised(v) :
       /\ p \in DOMAIN objects /\ objects[p].kind # "node"
       /\ objects[p].doc = v.docptr /\ objects[p].cycle = 0
  /\ IsNode(v) => v.nodeptr \in DOMAIN objects

ObjectsInv == \A p \in DOMAIN objects : InDocuments(p) /\ NotAfterDocument(p)

(* A node is freed with its document.                                        *)
FreedInv ==
  /\ \A p \in freed : IF objects[p].kind = "node" THEN objects[p].doc \in freed ELSE objects[p].cycle > 0
  /\ \A p \in DOMAIN objects : objects[p].doc \in freed => p \in freed \cup unlinked

ValuesInv == \A v \in values : Holds(v)

XmlInv == XmlTypes /\ ObjectsInv /\ FreedInv /\ ValuesInv

LEMMA XmlStarts ==
  ASSUME XmlInit
  PROVE  XmlInv
BY DEF XmlInit, XmlInv, XmlTypes, ObjectsInv, FreedInv, ValuesInv

(* What the pointers of a value are.                                         *)
LEMMA OfValue ==
  ASSUME XmlInv, NEW v \in values
  PROVE  /\ v.docptr \in DOMAIN objects /\ objects[v.docptr].doc = v.docptr
         /\ objects[v.docptr].cycle = 0 /\ objects[v.docptr].kind = "doc"
         /\ v.xpathctxptr # Null =>
              /\ v.xpathctxptr \in DOMAIN objects
              /\ objects[v.xpathctxptr].doc = v.docptr
              /\ objects[v.xpathctxptr].cycle = 0
         /\ v.xpathobjptr # Null =>
              /\ v.xpathobjptr \in DOMAIN objects
              /\ objects[v.xpathobjptr].doc = v.docptr
              /\ objects[v.xpathobjptr].cycle = 0
<1>1. Holds(v)
  BY DEF XmlInv, ValuesInv
<1>2. v.docptr \in Finalised(v)
  BY <1>1 DEF Holds, Finalised
<1>3. v.xpathctxptr # Null => v.xpathctxptr \in Finalised(v)
  BY DEF Finalised
<1>4. v.xpathobjptr # Null => v.xpathobjptr \in Finalised(v)
  BY DEF Finalised
<1>5. v.docptr \in DOMAIN objects /\ objects[v.docptr].doc = v.docptr
  BY <1>1, <1>2 DEF Holds
<1>6. objects[v.docptr].kind = "doc"
  BY <1>5 DEF XmlInv, ObjectsInv, InDocuments
<1> QED
  BY <1>1, <1>2, <1>3, <1>4, <1>5, <1>6 DEF Holds

(* A new object leaves the others, and the values that there are, alone.     *)
LEMMA NewObject ==
  ASSUME XmlInv,
         NEW kind \in {"doc", "ctx", "obj", "node"}, NEW doc \in Nat, NEW node \in Nat,
         New(kind, doc, node), UNCHANGED <<freed, unlinked, collections>>,
         node \in DOMAIN objects \cup {NewPtr},
         \/ kind = "doc" /\ doc = NewPtr
         \/ /\ kind # "doc"
            /\ doc \in DOMAIN objects /\ objects[doc].doc = doc /\ objects[doc].kind = "doc"
            /\ IF kind = "node" THEN doc \notin freed ELSE objects[doc].cycle = 0
  PROVE  /\ objects' \in Seq(Objects)
         /\ DOMAIN objects' = DOMAIN objects \cup {NewPtr} /\ NewPtr \notin DOMAIN objects
         /\ objects'[NewPtr] = [kind |-> kind, doc |-> doc, node |-> node, cycle |-> 0]
         /\ \A p \in DOMAIN objects : objects'[p] = objects[p]
         /\ ObjectsInv' /\ FreedInv'
         /\ \A v \in values : Holds(v)'
<1> DEFINE o == [kind |-> kind, doc |-> doc, node |-> node, cycle |-> 0]
<1>0. objects \in Seq(Objects) /\ freed \subseteq DOMAIN objects /\ collections \in Nat
  BY DEF XmlInv, XmlTypes
<1>1. o \in Objects /\ objects' = Append(objects, o) /\ NewPtr = Len(objects) + 1 /\ NewPtr \in Nat
  BY <1>0 DEF Objects, New, NewPtr
<1>2. /\ objects' \in Seq(Objects)
      /\ DOMAIN objects' = DOMAIN objects \cup {NewPtr} /\ NewPtr \notin DOMAIN objects
      /\ objects'[NewPtr] = o
      /\ \A p \in DOMAIN objects : objects'[p] = objects[p]
  <2> HIDE DEF o
  <2> QED
    BY <1>0, <1>1
<1>3. \A p \in DOMAIN objects : objects[p] \in Objects /\ p \in Nat /\ p < NewPtr
  BY <1>0, <1>1
<1>4. ObjectsInv'
  <2> SUFFICES ASSUME NEW p \in DOMAIN objects'
               PROVE  InDocuments(p)' /\ NotAfterDocument(p)'
    BY DEF ObjectsInv
  <2>1. CASE p \in DOMAIN objects
    <3>1. InDocuments(p) /\ NotAfterDocument(p)
      BY <2>1 DEF XmlInv, ObjectsInv
    <3>2. objects[p].doc \in DOMAIN objects /\ objects[p].node \in DOMAIN objects
      BY <3>1, <2>1, <1>0 DEF InDocuments
    <3> QED
      BY <3>1, <3>2, <2>1, <1>2 DEF InDocuments, NotAfterDocument
  <2>2. CASE p = NewPtr
    <3>1. objects'[p] = o
      BY <2>2, <1>2
    <3>2. doc \in 1 .. p /\ doc \in DOMAIN objects' /\ node \in DOMAIN objects'
      BY <2>2, <1>1, <1>2, <1>3
    <3>3. /\ objects'[doc].doc = doc /\ objects'[doc].kind = "doc"
          /\ kind # "node" => objects'[doc].cycle = 0
      BY <2>2, <1>2, <1>1
    <3>4. kind = "doc" => doc = p
      BY <2>2
    <3>5. InDocuments(p)'
      <4>1. /\ objects'[p].doc = doc /\ objects'[p].node = node
            /\ objects'[p].kind = kind /\ objects'[p].cycle = 0
        BY <3>1
      <4> QED
        BY <3>2, <3>3, <3>4, <4>1 DEF InDocuments
    <3> QED
      BY <3>1, <3>2, <3>3, <3>5, <1>0 DEF NotAfterDocument
  <2> QED
    BY <2>1, <2>2, <1>2
<1>5. FreedInv'
  <2>1. \A p \in freed : IF objects'[p].kind = "node" THEN objects'[p].doc \in freed ELSE objects'[p].cycle > 0
    BY <1>0, <1>2 DEF XmlInv, FreedInv
  <2>2. ASSUME NEW p \in DOMAIN objects', objects'[p].doc \in freed
        PROVE  p \in freed \cup unlinked
    <3>1. CASE p \in DOMAIN objects
      BY <3>1, <2>2, <1>2 DEF XmlInv, FreedInv
    <3>2. CASE p = NewPtr
      <4>1. doc \in freed
        BY <3>2, <2>2, <1>2
      <4>2. doc \in DOMAIN objects /\ objects[doc].cycle = 0 /\ objects[doc].kind = "doc"
        BY <4>1, <1>0, <1>2
      <4> QED
        BY <4>1, <4>2 DEF XmlInv, FreedInv
    <3> QED
      BY <3>1, <3>2, <1>2
  <2> QED
    BY <2>1, <2>2 DEF FreedInv
<1>6. ASSUME NEW v \in values
      PROVE  Holds(v)'
  <2>1. Holds(v)
    BY DEF XmlInv, ValuesInv
  <2> QED
    BY <2>1, <1>2 DEF Holds, Finalised, IsNode
<1> QED
  BY <1>2, <1>4, <1>5, <1>6

(* The objects are the same, so are the documents of them.                   *)
LEMMA SameObjects ==
  ASSUME XmlInv, UNCHANGED <<objects, freed, unlinked, collections>>,
         values' \subseteq [docptr : Nat, nodeptr : Nat \cup {Null}, xpathctxptr : Nat \cup {Null},
                            xpathobjptr : Nat \cup {Null}],
         \A v \in values' : v \in values \/ Holds(v)
  PROVE  XmlInv'
BY DEF XmlInv, XmlTypes, ObjectsInv, FreedInv, ValuesInv, InDocuments, NotAfterDocument, Holds,
       Finalised, IsCtx, IsObj, IsNode

LEMMA WithNewValue ==
  ASSUME XmlInv,
         NEW kind \in {"doc", "ctx", "obj", "node"}, NEW doc \in Nat, NEW node \in Nat,
         New(kind, doc, node), UNCHANGED <<freed, unlinked, collections>>,
         node \in DOMAIN objects \cup {NewPtr},
         \/ kind = "doc" /\ doc = NewPtr
         \/ /\ kind # "doc"
            /\ doc \in DOMAIN objects /\ objects[doc].doc = doc /\ objects[doc].kind = "doc"
            /\ IF kind = "node" THEN doc \notin freed ELSE objects[doc].cycle = 0,
         NEW v, values' = values \cup {v},
         v \in [docptr : Nat, nodeptr : Nat \cup {Null}, xpathctxptr : Nat \cup {Null},
                xpathobjptr : Nat \cup {Null}],
         Holds(v)'
  PROVE  XmlInv'
<1>1. ObjectsInv' /\ FreedInv' /\ objects' \in Seq(Objects) /\ DOMAIN objects \subseteq DOMAIN objects'
  BY NewObject
<1>2. ValuesInv'
  BY NewObject DEF ValuesInv
<1>3. XmlTypes'
  BY <1>1 DEF XmlInv, XmlTypes
<1> QED
  BY <1>1, <1>2, <1>3 DEF XmlInv

(* The value of a new object of a document which a value has.                *)
LEMMA HoldsNew ==
  ASSUME objects' \in Seq(Objects),
         NEW p \in DOMAIN objects', NEW d \in DOMAIN objects', NEW w,
         objects'[d].doc = d /\ objects'[d].cycle = 0 /\ objects'[d].kind = "doc",
         \/ w = Doc(d)
         \/ w = Node(d, p)
         \/ /\ objects'[p].doc = d /\ objects'[p].cycle = 0 /\ objects'[p].kind # "node"
            /\ \/ w = Ctx(d, p)
               \/ \E c \in DOMAIN objects' :
                    /\ w = Obj(d, c, p)
                    /\ objects'[c].doc = d /\ objects'[c].cycle = 0 /\ objects'[c].kind # "node"
  PROVE  /\ Holds(w)'
         /\ w \in [docptr : Nat, nodeptr : Nat \cup {Null}, xpathctxptr : Nat \cup {Null},
                   xpathobjptr : Nat \cup {Null}]
<1>1. \A q \in DOMAIN objects' : q \in Nat /\ q # Null
  BY XmlAssumption
<1>2. CASE w = Doc(d)
  BY <1>1, <1>2 DEF Holds, Doc, Finalised, IsNode
<1>3. CASE w = Node(d, p)
  BY <1>1, <1>3 DEF Holds, Node, Finalised, IsNode
<1>4. CASE /\ objects'[p].doc = d /\ objects'[p].cycle = 0 /\ objects'[p].kind # "node"
           /\ w = Ctx(d, p)
  BY <1>1, <1>4 DEF Holds, Ctx, Finalised, IsNode
<1>5. ASSUME NEW c \in DOMAIN objects', w = Obj(d, c, p),
             objects'[c].doc = d, objects'[c].cycle = 0, objects'[c].kind # "node",
             objects'[p].doc = d, objects'[p].cycle = 0, objects'[p].kind # "node"
      PROVE  /\ Holds(w)'
             /\ w \in [docptr : Nat, nodeptr : Nat \cup {Null}, xpathctxptr : Nat \cup {Null},
                       xpathobjptr : Nat \cup {Null}]
  BY <1>1, <1>5 DEF Holds, Obj, Finalised, IsNode
<1> QED
  BY <1>2, <1>3, <1>4, <1>5

LEMMA NewDocStep ==
  ASSUME XmlInv, NewDoc
  PROVE  XmlInv'
<1>1. PICK p \in Nat : p = NewPtr
  BY DEF NewPtr, XmlInv, XmlTypes
<1>2. New("doc", p, p) /\ UNCHANGED <<freed, unlinked, collections>> /\ values' = values \cup {Doc(p)}
  BY <1>1 DEF NewDoc
<1>3. /\ objects' \in Seq(Objects)
      /\ DOMAIN objects' = DOMAIN objects \cup {NewPtr}
      /\ objects'[NewPtr] = [kind |-> "doc", doc |-> p, node |-> p, cycle |-> 0]
  BY <1>1, <1>2, NewObject
<1>4. PICK w : w = Doc(p)
  OBVIOUS
<1>5. /\ p \in DOMAIN objects' /\ objects'[p].doc = p /\ objects'[p].cycle = 0
      /\ objects'[p].kind = "doc"
  BY <1>1, <1>3
<1>6. /\ Holds(w)'
      /\ w \in [docptr : Nat, nodeptr : Nat \cup {Null}, xpathctxptr : Nat \cup {Null},
                xpathobjptr : Nat \cup {Null}]
  BY <1>3, <1>4, <1>5, HoldsNew
<1> QED
  BY <1>1, <1>2, <1>4, <1>6, WithNewValue

LEMMA NewContextStep ==
  ASSUME XmlInv, NEW v \in values, NewContext(v)
  PROVE  XmlInv'
<1>1. PICK p \in Nat : p = NewPtr
  BY DEF NewPtr, XmlInv, XmlTypes
<1>2. PICK d \in Nat : d = v.docptr
  BY OfValue DEF XmlInv, XmlTypes
<1>3. d \in DOMAIN objects /\ objects[d].doc = d /\ objects[d].cycle = 0 /\ objects[d].kind = "doc"
  BY <1>2, OfValue
<1>4. New("ctx", d, d) /\ UNCHANGED <<freed, unlinked, collections>> /\ values' = values \cup {Ctx(d, p)}
  BY <1>1, <1>2 DEF NewContext
<1>5. /\ objects' \in Seq(Objects)
      /\ DOMAIN objects' = DOMAIN objects \cup {NewPtr}
      /\ objects'[NewPtr] = [kind |-> "ctx", doc |-> d, node |-> d, cycle |-> 0]
      /\ objects'[d] = objects[d]
  BY <1>1, <1>3, <1>4, NewObject
<1>6. PICK w : w = Ctx(d, p)
  OBVIOUS
<1>7. /\ p \in DOMAIN objects' /\ objects'[p].doc = d /\ objects'[p].cycle = 0
      /\ objects'[p].kind = "ctx"
  BY <1>1, <1>5
<1>8. /\ Holds(w)'
      /\ w \in [docptr : Nat, nodeptr : Nat \cup {Null}, xpathctxptr : Nat \cup {Null},
                xpathobjptr : Nat \cup {Null}]
  BY <1>3, <1>5, <1>6, <1>7, HoldsNew
<1> QED
  BY <1>1, <1>3, <1>4, <1>6, <1>8, WithNewValue

LEMMA EvalExpressionStep ==
  ASSUME XmlInv, NEW v \in values, EvalExpression(v)
  PROVE  XmlInv'
<1>1. PICK p \in Nat : p = NewPtr
  BY DEF NewPtr, XmlInv, XmlTypes
<1>2. PICK d \in Nat : d = v.docptr
  BY OfValue DEF XmlInv, XmlTypes
<1>3. d \in DOMAIN objects /\ objects[d].doc = d /\ objects[d].cycle = 0 /\ objects[d].kind = "doc"
  BY <1>2, OfValue
<1>4. PICK c \in DOMAIN objects :
        c = v.xpathctxptr /\ objects[c].doc = d /\ objects[c].cycle = 0 /\ objects[c].kind # "node"
  <2>1. v.xpathctxptr \in Finalised(v)
    BY DEF EvalExpression, IsCtx, Finalised
  <2> QED
    BY <2>1, <1>2 DEF XmlInv, ValuesInv, Holds
<1>5. PICK n : (n # NewPtr => Live(n)) /\ New("obj", d, n)
  BY <1>2 DEF EvalExpression
<1>6. n \in DOMAIN objects \cup {p} /\ n \in Nat
  BY <1>1, <1>5 DEF XmlInv, XmlTypes, Live
<1>8. UNCHANGED <<freed, unlinked, collections>> /\ values' = values \cup {Obj(d, c, p)}
  BY <1>1, <1>2, <1>4 DEF EvalExpression
<1>9. /\ objects' \in Seq(Objects)
      /\ DOMAIN objects' = DOMAIN objects \cup {NewPtr}
      /\ objects'[NewPtr] = [kind |-> "obj", doc |-> d, node |-> n, cycle |-> 0]
      /\ objects'[d] = objects[d] /\ objects'[c] = objects[c]
  BY <1>1, <1>3, <1>4, <1>5, <1>6, <1>8, NewObject
<1>10. PICK w : w = Obj(d, c, p)
  OBVIOUS
<1>11. /\ p \in DOMAIN objects' /\ objects'[p].doc = d /\ objects'[p].cycle = 0
       /\ objects'[p].kind # "node"
  BY <1>1, <1>9
<1>12. /\ c \in DOMAIN objects' /\ objects'[c].doc = d /\ objects'[c].cycle = 0
       /\ objects'[c].kind # "node"
  BY <1>4, <1>9
<1>13. /\ Holds(w)'
       /\ w \in [docptr : Nat, nodeptr : Nat \cup {Null}, xpathctxptr : Nat \cup {Null},
                 xpathobjptr : Nat \cup {Null}]
  BY <1>3, <1>9, <1>10, <1>11, <1>12, HoldsNew
<1> QED
  BY <1>1, <1>3, <1>5, <1>6, <1>8, <1>10, <1>13, WithNewValue

(* A node needs no new object.                                               *)
LEMMA NodeStep ==
  ASSUME XmlInv, NEW v \in values, GetRootElement(v) \/ GetNode(v)
  PROVE  XmlInv'
<1>1. /\ v.docptr \in DOMAIN objects /\ objects[v.docptr].doc = v.docptr
      /\ objects[v.docptr].cycle = 0 /\ objects[v.docptr].kind = "doc"
  BY OfValue
<1>2. UNCHANGED <<objects, freed, unlinked, collections>>
  BY DEF GetRootElement, GetNode
<1>3. PICK n \in DOMAIN objects : values' = values \cup {Node(v.docptr, n)}
  <2>1. CASE GetRootElement(v)
    BY <2>1, <1>1 DEF GetRootElement
  <2>2. CASE GetNode(v)
    <3>1. v.xpathobjptr \in DOMAIN objects
      BY <2>2, OfValue DEF GetNode, IsObj
    <3>2. objects[v.xpathobjptr].node \in DOMAIN objects
      BY <3>1 DEF XmlInv, ObjectsInv, InDocuments
    <3> QED
      BY <2>2, <3>2 DEF GetNode
  <2> QED
    BY <2>1, <2>2
<1>4. PICK w : w = Node(v.docptr, n)
  OBVIOUS
<1>5. objects' \in Seq(Objects) /\ objects' = objects
  BY <1>2 DEF XmlInv, XmlTypes
<1>6. /\ Holds(w)'
      /\ w \in [docptr : Nat, nodeptr : Nat \cup {Null}, xpathctxptr : Nat \cup {Null},
                xpathobjptr : Nat \cup {Null}]
  BY <1>1, <1>4, <1>5, HoldsNew
<1>7. Holds(w)
  BY <1>5, <1>6 DEF Holds
<1> QED
  BY <1>2, <1>3, <1>4, <1>6, <1>7, SameObjects DEF XmlInv, XmlTypes

(* The document of the parent is there, since the parent is.                 *)
LEMMA NewTextChildStep ==
  ASSUME XmlInv, NEW v \in values, NewTextChild(v)
  PROVE  XmlInv'
<1>1. PICK p \in Nat : p = NewPtr
  BY DEF NewPtr, XmlInv, XmlTypes
<1>2. PICK n \in DOMAIN objects : n = v.nodeptr /\ n \notin freed \cup unlinked
  BY DEF NewTextChild, Live
<1>3. PICK e \in DOMAIN objects : e = objects[n].doc /\ objects[e].doc = e /\ objects[e].kind = "doc"
  <2>1. InDocuments(n) /\ objects \in Seq(Objects)
    BY DEF XmlInv, XmlTypes, ObjectsInv
  <2> QED
    BY <2>1 DEF InDocuments
<1>4. e \notin freed /\ e \in Nat /\ n \in Nat
  BY <1>2, <1>3 DEF XmlInv, XmlTypes, FreedInv
<1>5. PICK d \in DOMAIN objects :
        d = v.docptr /\ objects[d].doc = d /\ objects[d].cycle = 0 /\ objects[d].kind = "doc"
  BY OfValue
<1>6. /\ New("node", e, n) /\ UNCHANGED <<freed, unlinked, collections>>
      /\ values' = values \cup {Node(d, p)}
  BY <1>1, <1>2, <1>3, <1>5 DEF NewTextChild
<1>7. /\ objects' \in Seq(Objects)
      /\ DOMAIN objects' = DOMAIN objects \cup {NewPtr}
      /\ objects'[d] = objects[d]
  BY <1>3, <1>4, <1>5, <1>6, NewObject
<1>8. PICK w : w = Node(d, p)
  OBVIOUS
<1>9. /\ Holds(w)'
      /\ w \in [docptr : Nat, nodeptr : Nat \cup {Null}, xpathctxptr : Nat \cup {Null},
                xpathobjptr : Nat \cup {Null}]
  BY <1>1, <1>5, <1>7, <1>8, HoldsNew
<1> QED
  BY <1>3, <1>4, <1>6, <1>8, <1>9, WithNewValue

(* Nothing but nodes is freed, and only by the program.                      *)
LEMMA UnlinkNodeStep ==
  ASSUME XmlInv, NEW v \in values, UnlinkNode(v)
  PROVE  XmlInv'
<1>1. PICK b : b = Below(v.nodeptr)
  OBVIOUS
<1>2. b \subseteq DOMAIN objects
  BY <1>1 DEF Below
<1>3. /\ unlinked' = unlinked \cup b /\ values' \subseteq values
      /\ UNCHANGED <<objects, freed, collections>>
  BY <1>1 DEF UnlinkNode
<1>4. XmlTypes'
  BY <1>2, <1>3 DEF XmlInv, XmlTypes
<1>5. ObjectsInv' /\ ValuesInv'
  BY <1>3 DEF XmlInv, ObjectsInv, ValuesInv, InDocuments, NotAfterDocument, Holds, Finalised, IsNode
<1>6. FreedInv'
  BY <1>3 DEF XmlInv, FreedInv
<1> QED
  BY <1>4, <1>5, <1>6 DEF XmlInv

LEMMA SetCurrentContextStep ==
  ASSUME XmlInv, NEW v \in values, NEW n \in values, SetCurrentContext(v, n)
  PROVE  XmlInv'
<1>1. PICK c \in DOMAIN objects : c = v.xpathctxptr
  BY OfValue DEF SetCurrentContext, IsCtx
<1>2. PICK m \in DOMAIN objects : m = n.nodeptr
  BY DEF SetCurrentContext, XmlInv, ValuesInv, Holds
<1>3. objects \in Seq(Objects) /\ m \in Nat
  BY DEF XmlInv, XmlTypes
<1>4. objects' = [objects EXCEPT ![c].node = m] /\ UNCHANGED <<freed, unlinked, values, collections>>
  BY <1>1, <1>2 DEF SetCurrentContext
<1>5. objects[c] \in Objects
  BY <1>3
<1>6. /\ objects' \in Seq(Objects) /\ DOMAIN objects' = DOMAIN objects
      /\ \A p \in DOMAIN objects :
           /\ objects'[p].kind = objects[p].kind /\ objects'[p].doc = objects[p].doc
           /\ objects'[p].cycle = objects[p].cycle
           /\ objects'[p].node = IF p = c THEN m ELSE objects[p].node
  <2>1. PICK o : o = [objects[c] EXCEPT !.node = m]
    OBVIOUS
  <2>2. /\ o \in Objects
        /\ o.kind = objects[c].kind /\ o.doc = objects[c].doc /\ o.cycle = objects[c].cycle /\ o.node = m
    BY <2>1, <1>3, <1>5 DEF Objects
  <2>3. objects' = [objects EXCEPT ![c] = o]
    BY <2>1, <1>4
  <2>4. objects' \in Seq(Objects) /\ DOMAIN objects' = DOMAIN objects
    BY <2>2, <2>3, <1>3
  <2> QED
    BY <2>2, <2>3, <2>4
<1>7. XmlTypes'
  BY <1>4, <1>6 DEF XmlInv, XmlTypes
<1>8. ObjectsInv'
  <2> SUFFICES ASSUME NEW p \in DOMAIN objects
               PROVE  InDocuments(p)' /\ NotAfterDocument(p)'
    BY <1>6 DEF ObjectsInv
  <2>1. InDocuments(p) /\ NotAfterDocument(p)
    BY DEF XmlInv, ObjectsInv
  <2>2. objects[p].doc \in DOMAIN objects
    BY <2>1, <1>3 DEF InDocuments
  <2>3. InDocuments(p)'
    BY <2>1, <2>2, <1>2, <1>6 DEF InDocuments
  <2>4. NotAfterDocument(p)'
    BY <2>1, <2>2, <1>4, <1>6 DEF NotAfterDocument
  <2> QED
    BY <2>3, <2>4
<1>9. FreedInv'
  BY <1>4, <1>6 DEF XmlInv, XmlTypes, FreedInv
<1>10. ValuesInv'
  <2> SUFFICES ASSUME NEW w \in values
               PROVE  Holds(w)'
    BY <1>4 DEF ValuesInv
  <2>1. Holds(w)
    BY DEF XmlInv, ValuesInv
  <2> QED
    BY <2>1, <1>6 DEF Holds, Finalised, IsNode
<1> QED
  BY <1>7, <1>8, <1>9, <1>10 DEF XmlInv

LEMMA DropStep ==
  ASSUME XmlInv, NEW v \in values, Drop(v)
  PROVE  XmlInv'
BY SameObjects DEF Drop, XmlInv, XmlTypes

(* What a value holds has not been found unreachable, and if a document is   *)
(* found unreachable now, so are its objects, unless they have been before.  *)
LEMMA CollectStep ==
  ASSUME XmlInv, Collect
  PROVE  XmlInv'
<1> DEFINE gone(p) == objects[p].kind # "node" /\ objects[p].cycle = 0 /\ ~Reachable(p)
<1>1. objects \in Seq(Objects) /\ collections \in Nat /\ freed \subseteq DOMAIN objects
  BY DEF XmlInv, XmlTypes
<1>2. collections' = collections + 1 /\ UNCHANGED <<freed, unlinked, values>>
  BY DEF Collect
<1>3. objects' = [p \in DOMAIN objects |->
                    IF gone(p) THEN [objects[p] EXCEPT !.cycle = collections'] ELSE objects[p]]
  BY DEF Collect, Lost
<1>4. \A p \in DOMAIN objects : objects[p] \in Objects
  BY <1>1
<1>5. /\ DOMAIN objects' = DOMAIN objects
      /\ \A p \in DOMAIN objects :
           /\ objects'[p] \in Objects
           /\ objects'[p].kind = objects[p].kind /\ objects'[p].doc = objects[p].doc
           /\ objects'[p].node = objects[p].node
           /\ objects'[p].cycle = IF gone(p) THEN collections + 1 ELSE objects[p].cycle
  <2>1. DOMAIN objects' = DOMAIN objects
    BY <1>3
  <2> SUFFICES ASSUME NEW p \in DOMAIN objects
               PROVE  /\ objects'[p] \in Objects
                      /\ objects'[p].kind = objects[p].kind /\ objects'[p].doc = objects[p].doc
                      /\ objects'[p].node = objects[p].node
                      /\ objects'[p].cycle = IF gone(p) THEN collections + 1 ELSE objects[p].cycle
    BY <2>1
  <2>2. objects[p] \in Objects /\ collections + 1 \in Nat
    BY <1>1, <1>4
  <2>3. objects'[p] = IF gone(p) THEN [objects[p] EXCEPT !.cycle = collections + 1] ELSE objects[p]
    BY <1>2, <1>3
  <2> HIDE DEF gone
  <2> QED
    BY <2>2, <2>3 DEF Objects
<1>6. objects' \in Seq(Objects)
  <2>1. objects' = [p \in 1 .. Len(objects) |-> objects'[p]]
    BY <1>1, <1>3
  <2> QED
    BY <2>1, <1>1, <1>5
<1>7. XmlTypes'
  BY <1>1, <1>2, <1>5, <1>6 DEF XmlInv, XmlTypes
<1>8. ASSUME NEW p \in DOMAIN objects, Reachable(p)
      PROVE  Reachable(objects[p].doc)
  <2>1. PICK v \in values : p \in Finalised(v)
    BY <1>8 DEF Reachable
  <2>2. v.docptr \in Finalised(v) /\ objects[p].doc = v.docptr
    BY <2>1 DEF XmlInv, ValuesInv, Holds, Finalised
  <2> QED
    BY <2>2 DEF Reachable
<1>9. ObjectsInv'
  <2> SUFFICES ASSUME NEW p \in DOMAIN objects
               PROVE  InDocuments(p)' /\ NotAfterDocument(p)'
    BY <1>5 DEF ObjectsInv
  <2>1. InDocuments(p) /\ NotAfterDocument(p)
    BY DEF XmlInv, ObjectsInv
  <2>2. objects[p].doc \in DOMAIN objects
    BY <2>1, <1>1 DEF InDocuments
  <2>3. InDocuments(p)'
    BY <2>1, <2>2, <1>5 DEF InDocuments
  <2>4. /\ objects[p].cycle \in Nat /\ objects[p].cycle <= collections
        /\ objects[objects[p].doc].cycle \in Nat /\ objects[objects[p].doc].cycle <= collections
    BY <2>1, <2>2, <1>4 DEF XmlInv, ObjectsInv, NotAfterDocument, Objects
  <2>5. gone(objects[p].doc) => gone(p) \/ objects[p].cycle > 0 \/ objects[p].kind = "node"
    BY <1>8, <2>4
  <2>6. ~gone(objects[p].doc) /\ objects[objects[p].doc].cycle > 0 => ~gone(p)
    BY <2>1, <2>4 DEF NotAfterDocument
  <2>8. objects[p].kind = "node" => ~gone(p)
    OBVIOUS
  <2>7. NotAfterDocument(p)'
    <3> HIDE DEF gone
    <3> QED
      BY <2>1, <2>2, <2>4, <2>5, <2>6, <2>8, <1>1, <1>2, <1>5 DEF NotAfterDocument
  <2> QED
    BY <2>3, <2>7
<1>10. FreedInv'
  <2>1. ASSUME NEW p \in freed
        PROVE  IF objects'[p].kind = "node" THEN objects'[p].doc \in freed ELSE objects'[p].cycle > 0
    <3>1. p \in DOMAIN objects
      BY <1>1
    <3>2. IF objects[p].kind = "node" THEN objects[p].doc \in freed ELSE objects[p].cycle > 0
      BY DEF XmlInv, FreedInv
    <3> HIDE DEF gone
    <3> QED
      BY <3>1, <3>2, <1>1, <1>5
  <2> HIDE DEF gone
  <2> QED
    BY <2>1, <1>2, <1>5 DEF XmlInv, FreedInv
<1>11. ValuesInv'
  <2> SUFFICES ASSUME NEW w \in values
               PROVE  Holds(w)'
    BY <1>2 DEF ValuesInv
  <2>1. Holds(w)
    BY DEF XmlInv, ValuesInv
  <2>2. \A p \in Finalised(w) : ~gone(p)
    BY DEF Reachable
  <2> HIDE DEF gone
  <2> QED
    BY <2>1, <2>2, <1>5 DEF Holds, Finalised, IsNode
<1> QED
  BY <1>7, <1>9, <1>10, <1>11 DEF XmlInv

(* The objects of the document would have to be freed before it, and its     *)
(* nodes are freed with it.                                                 *)
LEMMA FreeStep ==
  ASSUME XmlInv, NEW p \in DOMAIN objects, Free(p)
  PROVE  XmlInv'
<1>1. PICK all : all = FreedWith(p)
  OBVIOUS
<1>2. p \in Waiting /\ freed' = freed \cup all /\ UNCHANGED <<objects, unlinked, values, collections>>
  BY <1>1 DEF Free
<1>3. /\ objects \in Seq(Objects) /\ freed \subseteq DOMAIN objects /\ all \subseteq DOMAIN objects
      /\ objects[p].cycle > 0
  BY <1>1, <1>2 DEF XmlInv, XmlTypes, FreedWith, Waiting
<1>4. ASSUME NEW q \in DOMAIN objects, objects[q].doc = p, q \notin freed, q # p, objects[q].kind # "node"
      PROVE  FALSE
  <2>1. objects[q].cycle > 0 /\ objects[q].cycle <= objects[p].cycle /\ p < q
    <3>1. InDocuments(q) /\ NotAfterDocument(q)
      BY DEF XmlInv, ObjectsInv
    <3>2. p \in 1 .. q /\ q \in Nat
      BY <3>1, <1>3, <1>4 DEF InDocuments
    <3> QED
      BY <3>1, <3>2, <1>3, <1>4 DEF NotAfterDocument
  <2>2. q \in Waiting
    BY <2>1, <1>4 DEF Waiting
  <2>3. objects[p].cycle \in Nat /\ objects[q].cycle \in Nat
    <3>1. objects[p] \in Objects /\ objects[q] \in Objects
      BY <1>3
    <3> QED
      BY <3>1 DEF Objects
  <2>4. \/ objects[p].cycle < objects[q].cycle
        \/ objects[p].cycle = objects[q].cycle /\ q <= p
    BY <2>2 DEF Free
  <2> QED
    BY <2>1, <2>3, <2>4, <1>3
<1>5. FreedInv'
  <2>1. ASSUME NEW q \in freed'
        PROVE  IF objects[q].kind = "node" THEN objects[q].doc \in freed' ELSE objects[q].cycle > 0
    <3>1. CASE q \in freed
      BY <3>1, <1>2 DEF XmlInv, FreedInv
    <3>2. CASE q = p
      <4>1. objects[p].kind # "node"
        BY <1>3 DEF XmlInv, ObjectsInv, NotAfterDocument
      <4> QED
        BY <4>1, <3>2, <1>3
    <3>3. CASE q \in all \ {p}
      BY <3>3, <1>1, <1>2 DEF FreedWith
    <3> QED
      BY <2>1, <3>1, <3>2, <3>3, <1>2
  <2>2. ASSUME NEW q \in DOMAIN objects, objects[q].doc \in freed'
        PROVE  q \in freed' \cup unlinked
    <3>1. CASE objects[q].doc \in freed
      BY <3>1, <1>2 DEF XmlInv, FreedInv
    <3>2. CASE objects[q].doc = p
      <4>1. CASE objects[q].kind = "node"
        BY <3>2, <4>1, <1>1, <1>2 DEF FreedWith, Live
      <4>2. CASE objects[q].kind # "node"
        BY <3>2, <4>2, <1>1, <1>2, <1>4 DEF FreedWith
      <4> QED
        BY <4>1, <4>2
    <3>3. objects[q].doc \in all => objects[q].doc = p
      <4>1. objects[objects[q].doc].kind = "doc"
        BY DEF XmlInv, ObjectsInv, InDocuments
      <4> QED
        BY <4>1, <1>1 DEF FreedWith
    <3> QED
      BY <2>2, <3>1, <3>2, <3>3, <1>2
  <2> QED
    BY <2>1, <2>2, <1>2 DEF FreedInv
<1>6. XmlTypes' /\ ObjectsInv' /\ ValuesInv'
  BY <1>2, <1>3 DEF XmlInv, XmlTypes, ObjectsInv, ValuesInv, InDocuments, NotAfterDocument, Holds,
                    Finalised, IsNode
<1> QED
  BY <1>5, <1>6 DEF XmlInv

LEMMA XmlSteps ==
  ASSUME XmlInv, XmlNext \/ UNCHANGED xmlVars
  PROVE  XmlInv'
<1>1. CASE UNCHANGED xmlVars
  BY <1>1, SameObjects DEF xmlVars, XmlInv, XmlTypes
<1>2. CASE XmlNext
  BY <1>2, NewDocStep, NewContextStep, EvalExpressionStep, NodeStep, SetCurrentContextStep, DropStep,
     NewTextChildStep, UnlinkNodeStep,
     CollectStep, FreeStep DEF XmlNext
<1> QED
  BY <1>1, <1>2

LEMMA XmlSafe ==
  ASSUME XmlInv
  PROVE  OwnersOutlive
<1>1. ASSUME NEW d, NEW n, OwnedBy(n, d), n \in freed
      PROVE  d \in freed
  <2>1. n \in DOMAIN objects /\ objects[n].doc = d /\ objects[n].kind \in {"doc", "node"}
    BY <1>1 DEF OwnedBy, NodesOf
  <2>2. CASE objects[n].kind = "node"
    BY <1>1, <2>1, <2>2 DEF XmlInv, FreedInv
  <2>3. CASE objects[n].kind = "doc"
    BY <1>1, <2>1, <2>3 DEF XmlInv, ObjectsInv, InDocuments
  <2> QED
    BY <2>1, <2>2, <2>3
<1>2. ASSUME NEW v \in values
      PROVE  Finalised(v) \cap freed = {} /\ v.docptr \notin freed
  <2>1. Holds(v)
    BY DEF XmlInv, ValuesInv
  <2>2. Finalised(v) \cap freed = {}
    BY <2>1 DEF Holds, XmlInv, FreedInv
  <2>3. v.docptr \in Finalised(v)
    BY <2>1 DEF Holds, Finalised
  <2> QED
    BY <2>2, <2>3
<1>3. ASSUME NEW p \in DOMAIN objects, Live(p)
      PROVE  objects[p].doc \notin freed
  BY <1>3 DEF Live, XmlInv, FreedInv
<1> QED
  BY <1>1, <1>2, <1>3 DEF OwnersOutlive

-----------------------------------------------------------------------------
(* pcre-c.c                                                                 *)

PcreTypes ==
  /\ regexps \in [Regexps -> {"none", "live", "freed"}]
  /\ allocated \in 0 .. MaxMatches
  /\ last_match \in [Threads -> 1 .. allocated \cup {NULL}]
  /\ matched \in [Threads -> Matching \cup {NULL}]
  /\ answer # NULL => answer.to \in Threads
  /\ reading \in [t : Threads, n : 0 .. Groups + 1] \cup {NULL}

(* A thread's structure is its own and holds its last match, whose regexp    *)
(* has been compiled.                                                       *)
Own(t) ==
  /\ last_match[t] = NULL <=> matched[t] = NULL
  /\ last_match[t] # NULL =>
       heap[last_match[t]] = matched[t] /\ regexps[matched[t].re] # "none"
  /\ \A u \in Threads : last_match[t] = last_match[u] /\ last_match[t] # NULL => t = u

(* What a thread is told is true of its last match.                          *)
TrueOf(a, m) ==
  /\ a.is \in {"text", "indexes", "Not_found", "sub_error"} => m # NULL
  /\ a.is \in {"text", "indexes"} => a.subject = m.subject
  /\ a.is = "text" => TookPart(a.n, m)
  /\ a.is = "indexes" => (a.set <=> TookPart(a.n, m)) /\ BelowR(a.n, m)
  /\ a.is = "Not_found" => ~TookPart(a.n, m) \/ (a.f = "sub" /\ Misread(m, a.n))
  /\ a.is = "sub_error" => Misread(m, a.n)

Honest == answer # NULL => TrueOf(answer.told, matched[answer.to])

(* The call of sub is of a thread that has matched, of a group of the match. *)
ReadingInv ==
  reading # NULL =>
    /\ reading.t \in Threads /\ last_match[reading.t] # NULL
    /\ TookPart(reading.n, matched[reading.t])

PcreInv ==
  /\ PcreTypes
  /\ DOMAIN heap = {last_match[t] : t \in Threads} \ {NULL}
  /\ \A t \in Threads : Own(t)
  /\ Honest /\ ReadingInv

LEMMA PcreStarts ==
  ASSUME PcreInit
  PROVE  PcreInv
<1>1. PcreTypes
  BY PcreAssumption DEF PcreInit, PcreTypes
<1>2. DOMAIN heap = {last_match[t] : t \in Threads} \ {NULL}
  BY DEF PcreInit
<1>3. Honest /\ \A t \in Threads : Own(t)
  BY DEF PcreInit, Own, Honest, TrueOf
<1>4. ReadingInv
  BY DEF PcreInit, ReadingInv
<1> QED
  BY <1>1, <1>2, <1>3, <1>4 DEF PcreInv

(* Only the answer of one thread changes, and it calls sub no more.          *)
LEMMA AnswerStep ==
  ASSUME PcreInv, NEW t \in Threads, NEW a, Answer(t, a),
         UNCHANGED <<regexps, last_match, heap, allocated, matched>>,
         reading' \in {reading, NULL},
         TrueOf(a, matched[t])
  PROVE  PcreInv'
<1>1. answer' = [to |-> t, told |-> a]
  BY DEF Answer
<1>2. PcreTypes'
  BY <1>1 DEF PcreInv, PcreTypes
<1>3. \A u \in Threads : Own(u)'
  BY DEF PcreInv, Own
<1>4. \A x, y : TrueOf(x, y)' <=> TrueOf(x, y)
  BY DEF TrueOf, TookPart, BelowR, Misread
<1>5. Honest'
  BY <1>1, <1>4 DEF PcreInv, Honest
<1>6. ReadingInv'
  BY DEF PcreInv, ReadingInv, TookPart
<1> QED
  BY <1>2, <1>3, <1>5, <1>6 DEF PcreInv

LEMMA RegexpStep ==
  ASSUME PcreInv, NEW re \in Regexps, Compile(re) \/ Finalize(re)
  PROVE  PcreInv'
<1>1. /\ UNCHANGED <<last_match, heap, allocated, reading, answer, matched>>
      /\ \/ regexps[re] = "none" /\ regexps' = [regexps EXCEPT ![re] = "live"]
         \/ regexps[re] = "live" /\ regexps' = [regexps EXCEPT ![re] = "freed"]
  BY DEF Compile, Finalize
<1>2. PcreTypes'
  BY <1>1 DEF PcreInv, PcreTypes
<1>3. \A t \in Threads : matched[t] # NULL => matched[t].re \in Regexps
  BY DEF PcreInv, PcreTypes, Matching
<1>4. \A r \in Regexps :
        /\ regexps[r] # "none" => regexps'[r] # "none"
        /\ regexps[r] = "freed" => regexps'[r] = "freed"
  BY <1>1 DEF PcreInv, PcreTypes
<1>5. \A t \in Threads : Own(t)'
  BY <1>1, <1>3, <1>4 DEF PcreInv, Own
<1>6. ASSUME answer # NULL
      PROVE  Honest'
  <2>1. TrueOf(answer.told, matched[answer.to]) /\ answer.to \in Threads
    BY <1>6 DEF PcreInv, PcreTypes, Honest
  <2>2. LET m == matched[answer.to]
        IN  m # NULL /\ Misread(m, answer.told.n) => Misread(m, answer.told.n)'
    BY <2>1, <1>1, <1>3, <1>4 DEF Misread
  <2> QED
    BY <2>1, <2>2, <1>1 DEF Honest, TrueOf, TookPart, BelowR
<1>7. ReadingInv'
  BY <1>1 DEF PcreInv, ReadingInv, TookPart
<1> QED
  BY <1>1, <1>2, <1>5, <1>6, <1>7 DEF PcreInv, Honest

LEMMA MatchesStep ==
  ASSUME PcreInv, NEW t \in Threads, NEW m \in Matching, Matches(t, m), reading = NULL
  PROVE  PcreInv'
<1> DEFINE p == allocated + 1
<1>0. PcreTypes
  BY DEF PcreInv
<1>1. allocated \in Nat /\ p \in 1 .. MaxMatches /\ p \in Nat /\ p \notin 1 .. allocated /\ p # NULL
  BY <1>0, PcreAssumption DEF PcreTypes, Matches
<1>2. /\ allocated' = p /\ regexps' = regexps /\ reading' = reading
      /\ heap' = [q \in (DOMAIN heap \ {last_match[t]}) \cup {p} |-> IF q = p THEN m ELSE heap[q]]
      /\ last_match' = [last_match EXCEPT ![t] = p]
      /\ matched' = [matched EXCEPT ![t] = m]
      /\ answer' = [to |-> t, told |-> [is |-> "true"]]
  BY DEF Matches, Answer
<1>3. m # NULL /\ regexps[m.re] = "live"
  BY PcreAssumption DEF Matches
<1>4. /\ \A u \in Threads : last_match'[u] = IF u = t THEN p ELSE last_match[u]
      /\ \A u \in Threads : matched'[u] = IF u = t THEN m ELSE matched[u]
  BY <1>0, <1>2 DEF PcreTypes
<1> HIDE DEF p
<1>5. \A u \in Threads : last_match[u] # p /\ (last_match[u] # NULL => last_match[u] \in DOMAIN heap)
  BY <1>0, <1>1 DEF PcreInv, PcreTypes
<1>6. PcreTypes'
  <2>1. last_match' \in [Threads -> 1 .. allocated' \cup {NULL}]
    BY <1>0, <1>1, <1>2 DEF PcreTypes, p
  <2>2. matched' \in [Threads -> Matching \cup {NULL}]
    BY <1>0, <1>2 DEF PcreTypes
  <2> QED
    BY <2>1, <2>2, <1>0, <1>1, <1>2, <1>4 DEF PcreTypes
<1>7. DOMAIN heap' = {last_match'[u] : u \in Threads} \ {NULL}
  <2>1. ASSUME NEW q \in DOMAIN heap'
        PROVE  q \in {last_match'[u] : u \in Threads} \ {NULL}
    <3>1. CASE q = p
      BY <3>1, <1>1, <1>4
    <3>2. CASE q \in DOMAIN heap \ {last_match[t]}
      <4>1. PICK u \in Threads : q = last_match[u]
        BY <3>2 DEF PcreInv
      <4>2. u # t /\ q # NULL
        BY <4>1, <3>2 DEF PcreInv
      <4> QED
        BY <4>1, <4>2, <1>4
    <3> QED
      BY <2>1, <3>1, <3>2, <1>2
  <2>2. ASSUME NEW u \in Threads, last_match'[u] # NULL
        PROVE  last_match'[u] \in DOMAIN heap'
    <3>1. CASE u = t
      BY <3>1, <1>2, <1>4
    <3>2. CASE u # t
      BY <3>2, <2>2, <1>2, <1>4, <1>5 DEF PcreInv, Own
    <3> QED
      BY <3>1, <3>2
  <2> QED
    BY <2>1, <2>2
<1>8. ASSUME NEW u \in Threads
      PROVE  Own(u)'
  <2>1. Own(u)
    BY DEF PcreInv
  <2>2. CASE u = t
    BY <2>2, <1>1, <1>2, <1>3, <1>4, <1>5 DEF Own
  <2>3. CASE u # t
    <3>1. last_match[u] # NULL => heap'[last_match[u]] = heap[last_match[u]]
      BY <2>1, <2>3, <1>2, <1>5 DEF Own
    <3> QED
      BY <2>1, <2>3, <3>1, <1>2, <1>4, <1>5 DEF Own
  <2> QED
    BY <2>2, <2>3
<1>9. Honest'
  BY <1>2 DEF Honest, TrueOf
<1>10. ReadingInv'
  BY <1>2 DEF ReadingInv
<1> QED
  BY <1>6, <1>7, <1>8, <1>9, <1>10 DEF PcreInv

LEMMA ThreadExitsStep ==
  ASSUME PcreInv, NEW t \in Threads, ThreadExits(t), reading = NULL
  PROVE  PcreInv'
<1>0. PcreTypes
  BY DEF PcreInv
<1>1. /\ heap' = [p \in DOMAIN heap \ {last_match[t]} |-> heap[p]]
      /\ last_match' = [last_match EXCEPT ![t] = NULL]
      /\ matched' = [matched EXCEPT ![t] = NULL]
      /\ answer' = NULL
      /\ UNCHANGED <<regexps, allocated, reading>>
  BY DEF ThreadExits, Answer
<1>2. /\ \A u \in Threads : last_match'[u] = IF u = t THEN NULL ELSE last_match[u]
      /\ \A u \in Threads : matched'[u] = IF u = t THEN NULL ELSE matched[u]
  BY <1>0, <1>1 DEF PcreTypes
<1>3. PcreTypes'
  BY <1>0, <1>1, <1>2 DEF PcreTypes
<1>4. DOMAIN heap' = {last_match'[u] : u \in Threads} \ {NULL}
  <2>1. ASSUME NEW q \in DOMAIN heap'
        PROVE  q \in {last_match'[u] : u \in Threads} \ {NULL}
    <3>1. q \in DOMAIN heap /\ q # last_match[t]
      BY <2>1, <1>1
    <3>2. PICK u \in Threads : q = last_match[u]
      BY <3>1 DEF PcreInv
    <3> QED
      BY <3>1, <3>2, <1>2 DEF PcreInv
  <2>2. ASSUME NEW u \in Threads, last_match'[u] # NULL
        PROVE  last_match'[u] \in DOMAIN heap'
    <3>1. u # t /\ last_match'[u] = last_match[u] /\ last_match[u] # NULL
      BY <2>2, <1>2
    <3>2. last_match[u] \in DOMAIN heap /\ last_match[u] # last_match[t]
      BY <3>1 DEF PcreInv, Own
    <3> QED
      BY <3>1, <3>2, <1>1
  <2> QED
    BY <2>1, <2>2
<1>5. ASSUME NEW u \in Threads
      PROVE  Own(u)'
  <2>1. Own(u)
    BY DEF PcreInv
  <2>2. u # t /\ last_match[u] # NULL => heap'[last_match[u]] = heap[last_match[u]]
    BY <2>1, <1>1 DEF PcreInv, Own
  <2> QED
    BY <2>1, <2>2, <1>1, <1>2 DEF Own
<1>6. Honest'
  BY <1>1 DEF Honest
<1>7. ReadingInv'
  BY <1>1 DEF ReadingInv
<1> QED
  BY <1>3, <1>4, <1>5, <1>6, <1>7 DEF PcreInv

(* A group below r may have taken part or not, one above it has not.         *)
LEMMA SubStep ==
  ASSUME PcreInv, NEW t \in Threads, NEW n \in -1 .. Groups + 1,
         SubRefused(t, n) \/ Sub(t, n) \/ Subi(t, n)
  PROVE  PcreInv'
<1> DEFINE m == heap[last_match[t]]
<1>1. UNCHANGED <<regexps, last_match, heap, allocated, matched>>
  BY DEF SubRefused, Sub, Subi
<1>2. last_match[t] # NULL => m = matched[t] /\ matched[t] # NULL
  BY DEF PcreInv, Own
<1>3. CASE SubRefused(t, n)
  <2>1. PICK e \in {"Error", "Invalid_argument"} : Answer(t, [is |-> e])
    BY <1>3 DEF SubRefused, Raise
  <2>2. TrueOf([is |-> e], matched[t])
    BY DEF TrueOf
  <2>3. reading' = reading
    BY <1>3 DEF SubRefused
  <2> QED
    BY <2>1, <2>2, <2>3, <1>1, AnswerStep
<1>4. CASE Sub(t, n)
  <2>1. last_match[t] # NULL /\ n >= 0
    BY <1>4 DEF Sub
  <2>2. \/ TookPart(n, m) /\ reading' = [t |-> t, n |-> n] /\ UNCHANGED answer
        \/ ~TookPart(n, m) /\ Answer(t, NotFound("sub", n)) /\ UNCHANGED reading
        \/ Misread(m, n) /\ Answer(t, NotFound("sub", n)) /\ UNCHANGED reading
        \/ Misread(m, n) /\ Answer(t, SubError(n)) /\ UNCHANGED reading
    BY <1>4 DEF Sub
  <2>3. m = matched[t] /\ matched[t] # NULL
    BY <2>1, <1>2
  <2> HIDE DEF m
  <2>4. CASE TookPart(n, m) /\ reading' = [t |-> t, n |-> n] /\ UNCHANGED answer
    <3>1. PcreTypes'
      BY <2>1, <2>4, <1>1, PcreAssumption DEF PcreInv, PcreTypes
    <3>2. Honest' /\ \A u \in Threads : Own(u)'
      BY <2>4, <1>1 DEF PcreInv, Own, Honest, TrueOf, TookPart, BelowR, Misread
    <3>3. ReadingInv'
      BY <2>1, <2>3, <2>4, <1>1 DEF ReadingInv, TookPart
    <3> QED
      BY <3>1, <3>2, <3>3, <1>1 DEF PcreInv
  <2>5. CASE ~TookPart(n, m) /\ Answer(t, NotFound("sub", n)) /\ UNCHANGED reading
    <3>1. TrueOf(NotFound("sub", n), matched[t])
      BY <2>3, <2>5 DEF TrueOf, NotFound
    <3> QED
      BY <2>5, <3>1, <1>1, AnswerStep
  <2>6. CASE Misread(m, n) /\ Answer(t, NotFound("sub", n)) /\ UNCHANGED reading
    <3>1. TrueOf(NotFound("sub", n), matched[t])
      BY <2>3, <2>6 DEF TrueOf, NotFound
    <3> QED
      BY <2>6, <3>1, <1>1, AnswerStep
  <2>7. CASE Misread(m, n) /\ Answer(t, SubError(n)) /\ UNCHANGED reading
    <3>1. TrueOf(SubError(n), matched[t])
      BY <2>3, <2>7 DEF TrueOf, SubError
    <3> QED
      BY <2>7, <3>1, <1>1, AnswerStep
  <2> QED
    BY <2>2, <2>4, <2>5, <2>6, <2>7
<1>5. CASE Subi(t, n)
  <2>1. last_match[t] # NULL
    BY <1>5 DEF Subi
  <2>2. Answer(t, IF BelowR(n, m) THEN Indexes(m, n) ELSE NotFound("subi", n)) /\ reading' = reading
    BY <1>5 DEF Subi
  <2>3. m = matched[t] /\ matched[t] # NULL
    BY <2>1, <1>2
  <2>4. TookPart(n, m) => BelowR(n, m)
    BY DEF BelowR, TookPart
  <2> HIDE DEF m
  <2>5. CASE BelowR(n, m)
    <3>1. TrueOf(Indexes(m, n), matched[t])
      BY <2>3, <2>5 DEF TrueOf, Indexes
    <3> QED
      BY <2>2, <2>5, <3>1, <1>1, AnswerStep
  <2>6. CASE ~BelowR(n, m)
    <3>1. TrueOf(NotFound("subi", n), matched[t])
      BY <2>3, <2>4, <2>6 DEF TrueOf, NotFound
    <3> QED
      BY <2>2, <2>6, <3>1, <1>1, AnswerStep
  <2> QED
    BY <2>5, <2>6
<1> QED
  BY <1>3, <1>4, <1>5

(* The thread's structure has not changed since sub has found the length.    *)
LEMMA CopyTextStep ==
  ASSUME PcreInv, CopyText
  PROVE  PcreInv'
<1>1. PICK t, n : t \in Threads /\ t = reading.t /\ n = reading.n
  BY DEF CopyText, PcreInv, ReadingInv
<1>2. matched[t] # NULL /\ heap[last_match[t]] = matched[t] /\ TookPart(n, matched[t])
  BY <1>1 DEF CopyText, PcreInv, ReadingInv, Own
<1>3. UNCHANGED <<regexps, last_match, heap, allocated, matched>> /\ reading' = NULL
  BY DEF CopyText
<1>4. CASE Answer(t, Text(matched[t], n))
  <2>1. TrueOf(Text(matched[t], n), matched[t])
    BY <1>2 DEF TrueOf, Text
  <2> QED
    BY <2>1, <1>1, <1>3, <1>4, AnswerStep
<1>5. CASE Misread(matched[t], n) /\ Answer(t, SubError(n))
  <2>1. TrueOf(SubError(n), matched[t])
    BY <1>2, <1>5 DEF TrueOf, SubError
  <2> QED
    BY <2>1, <1>1, <1>3, <1>5, AnswerStep
<1> QED
  BY <1>1, <1>2, <1>4, <1>5 DEF CopyText

LEMMA PcreSteps ==
  ASSUME PcreInv, PcreNext \/ UNCHANGED pcreVars
  PROVE  PcreInv'
<1>1. CASE UNCHANGED pcreVars
  BY <1>1 DEF pcreVars, PcreInv, PcreTypes, Own, Honest, TrueOf, TookPart, BelowR, Misread, ReadingInv
<1>2. ASSUME NEW t \in Threads, MatchesNot(t)
      PROVE  PcreInv'
  <2>1. PICK e \in {"false", "Error", "Out_of_memory"} : Answer(t, [is |-> e])
    BY <1>2 DEF MatchesNot, Raise
  <2>2. TrueOf([is |-> e], matched[t])
    BY DEF TrueOf
  <2> QED
    BY <2>1, <2>2, <1>2, AnswerStep DEF MatchesNot
<1>3. CASE PcreNext
  BY <1>2, <1>3, RegexpStep, MatchesStep, ThreadExitsStep, SubStep, CopyTextStep DEF PcreNext
<1> QED
  BY <1>1, <1>3

LEMMA PcreSafe ==
  ASSUME PcreInv
  PROVE  OwnLastMatch
<1>1. ASSUME NEW t \in Threads
      PROVE  last_match[t] # NULL => heap[last_match[t]] = matched[t]
  BY DEF PcreInv, Own
<1>2. answer # NULL => TrueOf(answer.told, matched[answer.to])
  BY DEF PcreInv, Honest
<1> QED
  BY <1>1, <1>2 DEF PcreInv, OwnLastMatch, TrueOf, BelowR

-----------------------------------------------------------------------------
(* FlattenSeq, by induction on the number of sequences.                      *)

LEMMA NatWF == IsWellFoundedOn({p \in Nat \X Nat : p[1] < p[2]}, Nat)
BY NatLessThanWellFounded DEF OpToRel, IsWellFoundedOn

LEMMA Induction ==
  ASSUME NEW T, 0 \in T, \A n \in Nat : n \in T => n + 1 \in T
  PROVE  Nat \subseteq T
<1> DEFINE R == {p \in Nat \X Nat : p[1] < p[2]}
<1> SUFFICES ASSUME Nat \ T # {} PROVE FALSE
  OBVIOUS
<1>1. PICK x \in Nat \ T : \A y \in Nat \ T : ~ (<<y, x>> \in R)
  BY NatWF, WFMin
<1>2. x # 0 /\ x - 1 \in Nat /\ x - 1 < x /\ x = (x - 1) + 1
  BY <1>1
<1>3. <<x - 1, x>> \in R
  BY <1>2, <1>1
<1> QED
  BY <1>1, <1>2, <1>3

(* The function by which FlattenSeq is defined.                              *)
LEMMA FlattenFunction ==
  ASSUME NEW X, NEW b \in Seq(Seq(X)), Len(b) > 0
  PROVE  \E f \in [1 .. Len(b) -> Seq(X)] :
           /\ \A i \in 1 .. Len(b) : f[i] = IF i = 1 THEN b[i] ELSE f[i - 1] \o b[i]
           /\ FlattenSeq(b) = f[Len(b)]
<1> DEFINE flatten[i \in 1 .. Len(b)] == IF i = 1 THEN b[i] ELSE flatten[i - 1] \o b[i]
           Partial(n) == \E f \in [1 .. n -> Seq(X)] :
                           \A i \in 1 .. n : f[i] = IF i = 1 THEN b[i] ELSE f[i - 1] \o b[i]
           T == {n \in Nat : n <= Len(b) => Partial(n)}
<1>1. 0 \in T
  <2>1. PICK f : f = [i \in 1 .. 0 |-> <<>>]
    OBVIOUS
  <2>2. f \in [1 .. 0 -> Seq(X)]
    BY <2>1
  <2>3. \A i \in 1 .. 0 : FALSE
    OBVIOUS
  <2> QED
    BY <2>2, <2>3
<1>2. ASSUME NEW n \in Nat, n \in T
      PROVE  n + 1 \in T
  <2> SUFFICES ASSUME n + 1 <= Len(b)
               PROVE  Partial(n + 1)
    OBVIOUS
  <2>1. PICK f \in [1 .. n -> Seq(X)] :
          \A i \in 1 .. n : f[i] = IF i = 1 THEN b[i] ELSE f[i - 1] \o b[i]
    BY <1>2
  <2> DEFINE next == IF n = 0 THEN b[n + 1] ELSE f[n] \o b[n + 1]
             g == [i \in 1 .. n + 1 |-> IF i = n + 1 THEN next ELSE f[i]]
  <2>2. b[n + 1] \in Seq(X)
    OBVIOUS
  <2>3. next \in Seq(X)
    BY <2>2
  <2>4. g \in [1 .. n + 1 -> Seq(X)]
    BY <2>3
  <2>5. ASSUME NEW i \in 1 .. n + 1
        PROVE  g[i] = IF i = 1 THEN b[i] ELSE g[i - 1] \o b[i]
    <3>1. CASE i = n + 1
      <4>1. g[n + 1] = next
        OBVIOUS
      <4>2. n # 0 => g[n] = f[n]
        OBVIOUS
      <4> QED
        BY <3>1, <4>1, <4>2
    <3>2. CASE i \in 1 .. n
      <4> HIDE DEF next
      <4>1. i \in 1 .. n + 1 /\ i # n + 1
        BY <3>2
      <4>2. g[i] = f[i]
        BY <4>1
      <4>3. i # 1 => i - 1 \in 1 .. n + 1 /\ i - 1 # n + 1
        BY <3>2
      <4>4. i # 1 => g[i - 1] = f[i - 1]
        BY <4>3
      <4> HIDE DEF g
      <4> QED
        BY <3>2, <4>2, <4>4, <2>1
    <3> QED
      BY <3>1, <3>2
  <2> QED
    BY <2>4, <2>5
<1>3. Partial(Len(b))
  <2>1. Nat \subseteq T
    <3> HIDE DEF T
    <3> QED
      BY <1>1, <1>2, Induction
  <2>2. Len(b) \in Nat
    OBVIOUS
  <2>3. Len(b) \in T
    BY <2>1, <2>2
  <2>4. Len(b) <= Len(b)
    BY <2>2
  <2> QED
    BY <2>3, <2>4
<1>4. PICK f \in [1 .. Len(b) -> Seq(X)] :
        \A i \in 1 .. Len(b) : f[i] = IF i = 1 THEN b[i] ELSE f[i - 1] \o b[i]
  BY <1>3
<1>5. f = [i \in 1 .. Len(b) |-> IF i = 1 THEN b[i] ELSE f[i - 1] \o b[i]]
  BY <1>4
<1>6. flatten = CHOOSE g : g = [i \in 1 .. Len(b) |-> IF i = 1 THEN b[i] ELSE g[i - 1] \o b[i]]
  BY DEF flatten
<1>7. flatten = [i \in 1 .. Len(b) |-> IF i = 1 THEN b[i] ELSE flatten[i - 1] \o b[i]]
  <2> HIDE DEF flatten
  <2> QED
    BY <1>5, <1>6
<1>8. FlattenSeq(b) = flatten[Len(b)]
  BY DEF FlattenSeq
<1> HIDE DEF flatten
<1>9. \A i \in 1 .. Len(b) : flatten[i] = f[i]
  <2> DEFINE S == {n \in Nat : n \in 1 .. Len(b) => flatten[n] = f[n]}
  <2>1. 0 \in S
    OBVIOUS
  <2>2. ASSUME NEW n \in Nat, n \in S
        PROVE  n + 1 \in S
    <3> SUFFICES ASSUME n + 1 \in 1 .. Len(b)
                 PROVE  flatten[n + 1] = f[n + 1]
      OBVIOUS
    <3>1. flatten[n + 1] = IF n + 1 = 1 THEN b[n + 1] ELSE flatten[(n + 1) - 1] \o b[n + 1]
      BY <1>7
    <3>2. f[n + 1] = IF n + 1 = 1 THEN b[n + 1] ELSE f[(n + 1) - 1] \o b[n + 1]
      BY <1>4
    <3>3. n + 1 # 1 => flatten[(n + 1) - 1] = f[(n + 1) - 1]
      BY <2>2
    <3> QED
      BY <3>1, <3>2, <3>3
  <2>3. Nat \subseteq S
    <3> HIDE DEF S
    <3> QED
      BY <2>1, <2>2, Induction
  <2> QED
    BY <2>3
<1>10. Len(b) \in 1 .. Len(b)
  OBVIOUS
<1>11. FlattenSeq(b) = f[Len(b)]
  BY <1>8, <1>9, <1>10
<1> QED
  BY <1>4, <1>11

(* FlattenSeq of the first so many sequences.                                *)
LEMMA Flatten ==
  ASSUME NEW X, NEW b \in Seq(Seq(X))
  PROVE  /\ \A k \in 0 .. Len(b) : FlattenSeq(SubSeq(b, 1, k)) \in Seq(X)
         /\ FlattenSeq(SubSeq(b, 1, 0)) = <<>>
         /\ \A k \in 1 .. Len(b) :
              FlattenSeq(SubSeq(b, 1, k)) = FlattenSeq(SubSeq(b, 1, k - 1)) \o b[k]
         /\ FlattenSeq(SubSeq(b, 1, Len(b))) = FlattenSeq(b)
<1>1. SubSeq(b, 1, 0) = <<>>
  OBVIOUS
<1>2. FlattenSeq(SubSeq(b, 1, 0)) = <<>>
  BY <1>1 DEF FlattenSeq
<1>3. SubSeq(b, 1, Len(b)) = b
  OBVIOUS
<1> DEFINE P(k) == SubSeq(b, 1, k)
<1>4. \A k \in 0 .. Len(b) : P(k) \in Seq(Seq(X)) /\ Len(P(k)) = k /\ \A i \in 1 .. k : P(k)[i] = b[i]
  OBVIOUS
<1>5. ASSUME NEW k \in 1 .. Len(b)
      PROVE  \E f \in [1 .. k -> Seq(X)] :
               /\ \A i \in 1 .. k : f[i] = IF i = 1 THEN b[i] ELSE f[i - 1] \o b[i]
               /\ FlattenSeq(P(k)) = f[k]
  <2>1. P(k) \in Seq(Seq(X)) /\ Len(P(k)) = k /\ k > 0 /\ \A i \in 1 .. k : P(k)[i] = b[i]
    BY <1>4
  <2> HIDE DEF P
  <2>2. PICK f \in [1 .. Len(P(k)) -> Seq(X)] :
           /\ \A i \in 1 .. Len(P(k)) : f[i] = IF i = 1 THEN P(k)[i] ELSE f[i - 1] \o P(k)[i]
           /\ FlattenSeq(P(k)) = f[Len(P(k))]
    BY <2>1, FlattenFunction
  <2> QED
    BY <2>1, <2>2
<1>6. \A k \in 0 .. Len(b) : FlattenSeq(P(k)) \in Seq(X)
  <2>1. ASSUME NEW k \in 1 .. Len(b)
        PROVE  FlattenSeq(P(k)) \in Seq(X)
    <3> HIDE DEF P
    <3>1. PICK f \in [1 .. k -> Seq(X)] : FlattenSeq(P(k)) = f[k]
      BY <1>5
    <3>2. k \in 1 .. k
      OBVIOUS
    <3> QED
      BY <3>1, <3>2
  <2>2. \A k \in 0 .. Len(b) : k = 0 \/ k \in 1 .. Len(b)
    OBVIOUS
  <2>3. FlattenSeq(P(0)) \in Seq(X)
    <3>1. <<>> \in Seq(X)
      OBVIOUS
    <3> QED
      BY <1>2, <3>1
  <2> HIDE DEF P
  <2> QED
    BY <2>1, <2>2, <2>3
<1>7. ASSUME NEW k \in 1 .. Len(b)
      PROVE  FlattenSeq(P(k)) = FlattenSeq(P(k - 1)) \o b[k]
  <2>0. k \in Nat /\ k >= 1
    OBVIOUS
  <2>1. PICK f \in [1 .. k -> Seq(X)] :
               /\ \A i \in 1 .. k : f[i] = IF i = 1 THEN b[i] ELSE f[i - 1] \o b[i]
               /\ FlattenSeq(P(k)) = f[k]
    BY <1>5
  <2>2. CASE k = 1
    <3>1. FlattenSeq(P(k)) = b[1]
      <4> HIDE DEF P
      <4> QED
        BY <2>1, <2>2
    <3>2. FlattenSeq(P(k - 1)) = <<>>
      BY <2>2, <1>2
    <3>3. b[1] \in Seq(X)
      BY <2>2
    <3> HIDE DEF P
    <3> QED
      BY <2>2, <3>1, <3>2, <3>3
  <2>3. CASE k > 1
    <3>1. k - 1 \in 1 .. Len(b) /\ k \in 1 .. k /\ k # 1 /\ \A i \in 1 .. k - 1 : i \in 1 .. k
      BY <2>3
    <3>2. PICK g \in [1 .. k - 1 -> Seq(X)] :
               /\ \A i \in 1 .. k - 1 : g[i] = IF i = 1 THEN b[i] ELSE g[i - 1] \o b[i]
               /\ FlattenSeq(P(k - 1)) = g[k - 1]
      BY <1>5, <3>1
    <3> HIDE DEF P
    <3> DEFINE S == {n \in Nat : n \in 1 .. k - 1 => f[n] = g[n]}
    <3>3. 0 \in S
      OBVIOUS
    <3>4. ASSUME NEW n \in Nat, n \in S
          PROVE  n + 1 \in S
      <4> SUFFICES ASSUME n + 1 \in 1 .. k - 1
                   PROVE  f[n + 1] = g[n + 1]
        OBVIOUS
      <4>1. f[n + 1] = IF n + 1 = 1 THEN b[n + 1] ELSE f[(n + 1) - 1] \o b[n + 1]
        BY <2>1, <3>1
      <4>2. g[n + 1] = IF n + 1 = 1 THEN b[n + 1] ELSE g[(n + 1) - 1] \o b[n + 1]
        BY <3>2
      <4>3. n + 1 # 1 => f[(n + 1) - 1] = g[(n + 1) - 1]
        BY <3>4
      <4> QED
        BY <4>1, <4>2, <4>3
    <3>5. Nat \subseteq S
      <4> HIDE DEF S
      <4> QED
        BY <3>3, <3>4, Induction
    <3>6. f[k - 1] = g[k - 1]
      BY <3>5, <2>3, <2>0
    <3>7. f[k] = f[k - 1] \o b[k]
      BY <2>1, <3>1
    <3> QED
      BY <2>1, <3>2, <3>6, <3>7
  <2>4. k = 1 \/ k > 1
    BY <2>0
  <2> HIDE DEF P
  <2> QED
    BY <2>2, <2>3, <2>4
<1> HIDE DEF P
<1> QED
  BY <1>2, <1>3, <1>6, <1>7 DEF P

(* The first so many sequences are a prefix of all.                          *)
LEMMA FlattenPrefix ==
  ASSUME NEW X, NEW b \in Seq(Seq(X)), NEW k \in 0 .. Len(b)
  PROVE  \E rest \in Seq(X) : FlattenSeq(b) = FlattenSeq(SubSeq(b, 1, k)) \o rest
<1> DEFINE F(n) == FlattenSeq(SubSeq(b, 1, n))
           Q(n) == \E rest \in Seq(X) : F(k + n) = F(k) \o rest
           T == {n \in Nat : k + n <= Len(b) => Q(n)}
<1>1. /\ \A n \in 0 .. Len(b) : F(n) \in Seq(X)
      /\ \A n \in 1 .. Len(b) : F(n) = F(n - 1) \o b[n]
      /\ F(Len(b)) = FlattenSeq(b)
  BY Flatten
<1> HIDE DEF F
<1>2. 0 \in T
  <2>1. F(k) \in Seq(X) /\ k + 0 = k
    BY <1>1
  <2>2. F(k + 0) = F(k) \o <<>> /\ <<>> \in Seq(X)
    BY <2>1
  <2> QED
    BY <2>2
<1>3. ASSUME NEW n \in Nat, n \in T
      PROVE  n + 1 \in T
  <2> SUFFICES ASSUME k + (n + 1) <= Len(b)
               PROVE  Q(n + 1)
    <3> HIDE DEF Q
    <3> QED
      OBVIOUS
  <2>1. k + n <= Len(b) /\ k + (n + 1) \in 1 .. Len(b) /\ k + (n + 1) - 1 = k + n
    OBVIOUS
  <2>2. PICK rest \in Seq(X) : F(k + n) = F(k) \o rest
    BY <1>3, <2>1
  <2> HIDE DEF T
  <2> DEFINE m == k + (n + 1)
  <2>3. F(m) = (F(k) \o rest) \o b[m]
    <3>1. F(m) = F(m - 1) \o b[m]
      BY <1>1, <2>1
    <3>2. m - 1 = k + n
      BY <2>1
    <3>3. F(m - 1) = F(k) \o rest
      BY <3>2, <2>2
    <3> QED
      BY <3>1, <3>3
  <2>4. b[m] \in Seq(X) /\ F(k) \in Seq(X)
    BY <1>1, <2>1
  <2> HIDE DEF m
  <2>4a. b[m] \in Seq(X)
    BY <2>4
  <2>5. (F(k) \o rest) \o b[m] = F(k) \o (rest \o b[m])
    <3>1. PICK s, t : s = F(k) /\ t = b[m]
      OBVIOUS
    <3>2. s \in Seq(X) /\ t \in Seq(X)
      BY <2>4, <3>1
    <3>3. (s \o rest) \o t = s \o (rest \o t)
      BY <3>2
    <3> QED
      BY <3>1, <3>3
  <2>6. rest \o b[m] \in Seq(X)
    BY <2>4
  <2> QED
    BY <2>3, <2>5, <2>6 DEF m
<1>4. Nat \subseteq T
  <2> HIDE DEF T
  <2> QED
    BY <1>2, <1>3, Induction
<1>5. Len(b) - k \in Nat /\ k + (Len(b) - k) = Len(b) /\ Len(b) <= Len(b)
  OBVIOUS
<1>6. Len(b) - k \in T
  BY <1>4, <1>5
<1> QED
  BY <1>1, <1>5, <1>6 DEF F

-----------------------------------------------------------------------------
(* windows.c                                                                *)

TreeOK(t) ==
  /\ DOMAIN t \subseteq Seq(Names)
  /\ t \in [DOMAIN t -> [kind : {"dir", "file", "symlink"}, xattrs : Seq(Attributes) \cup {Unreadable}]]
  /\ \A p \in DOMAIN t : p # <<>> => Front(p) \in DOMAIN t /\ t[Front(p)].kind = "dir"

ApplianceInv ==
  /\ NoDevice \notin DOMAIN fs
  /\ \A d \in DOMAIN fs : TreeOK(fs[d])
  /\ device \in DOMAIN fs \cup {NoDevice} /\ readonly \in BOOLEAN
  /\ \A i \in DOMAIN mappings : mappings[i].device \in DOMAIN fs

WindowsInv ==
  /\ win_pc \in {"idle", "letter", "umount", "mount", "case", "done", "null", "exit"}
  /\ asked_ro \in BOOLEAN
  /\ win_pc = "letter" => asked_path.letter # NoLetter
  /\ win_pc \in {"umount", "mount"} =>
       \E i \in DOMAIN mappings :
         /\ mappings[i].letter = asked_path.letter /\ ~mappings[i].long
         /\ mappings[i].device = found
  /\ DriveAsAsked
  /\ \E S : asked_path.rest \in Seq(S)
  /\ win_pc = "done" => result \in Seq(Names)
  /\ FileAsAsked

-----------------------------------------------------------------------------
(* visit.c                                                                  *)

FailureInv ==
  /\ caller \in {"C", "OCaml"}
  /\ visit_pc \in {"idle", "top", "calling", "list", "next", "return", "done"}
  /\ failure \in {"none", "error", "visitor"} \cup Exceptions
  /\ failure \in Exceptions => caller = "OCaml" /\ exn = failure
  /\ failure \notin Exceptions => exn = "unit"
  /\ failure = "visitor" => caller = "C"
  /\ ret = IF failure = "none" THEN 0 ELSE -1
  /\ visit_pc # "done" => outcome = "none"
  /\ visit_pc = "done" => stack = <<>>
  /\ FailureReported

(* The program that visits has mounted what it needs.                        *)
ProgramInv ==
  /\ win_pc # "idle" => caller = "C" /\ is_windows
  /\ visit_pc # "idle" =>
       \/ win_pc = "done"
       \/ win_pc = "idle" /\ (caller = "OCaml" \/ ~is_windows)

(* The visitor only removes files.                                           *)
TreeInv ==
  visit_pc # "idle" =>
    /\ TreeOK(before)
    /\ \A p \in DOMAIN tree : p \in DOMAIN before /\ tree[p] = before[p]

Called(path) == \E c \in DOMAIN calls : PathOf(calls[c]) = path

CallRecords == [dir : Seq(Names), name : Names \cup {NoName},
                kind : {"dir", "file", "symlink"}, xattrs : Seq(Attributes)]

(* What the visitor has been called for was in the tree, and so were the     *)
(* directories above.                                                       *)
CallsInv ==
  /\ calls \in Seq(CallRecords)
  /\ visit_pc \in {"idle", "top"} => calls = <<>> /\ stack = <<>>
  /\ visit_pc \notin {"idle", "top"} /\ failure = "none" => calls # <<>>
  /\ visit_pc # "idle" => top \in Seq(Names)
  /\ OncePerFile
  /\ \A c \in DOMAIN calls : c > 1 => calls[c].name # NoName
  /\ \A c \in Range(calls) : Len(c.dir) >= Len(top) /\ AsItWas(c)

(* What lxattrlist says about one file.                                      *)
Block(x) == <<Header(x)>> \o (IF x = Unreadable THEN <<>> ELSE x)

Blocks(dir, names) == [k \in DOMAIN names |-> Block(before[Append(dir, names[k])].xattrs)]

Elements == Attributes \cup [attrname : {""}, attrval : Nat \cup {Unreadable}]

Frames == [dir : Seq(Names), names : Seq(Names), stats : Seq({"dir", "file", "symlink"}),
           xattrs : Seq(Elements), i : Nat, xattrp : Nat]

(* The lists that _visit has of a directory.                                 *)
ListsOf(f) ==
  /\ Len(f.dir) >= Len(top) /\ f.dir \in DOMAIN before /\ before[f.dir].kind = "dir"
  /\ \A m, n \in DOMAIN f.names : f.names[m] = f.names[n] => m = n
  /\ \A m \in DOMAIN f.names :
       LET path == Append(f.dir, f.names[m])
       IN  path \in DOMAIN before /\ before[path].kind = f.stats[m]
  /\ f.xattrs = FlattenSeq(Blocks(f.dir, f.names))
  /\ f.xattrp = Len(FlattenSeq(SubSeq(Blocks(f.dir, f.names), 1, f.i - 1))) + 1

(* The names that it goes through, and which of them it has called the       *)
(* visitor for.                                                             *)
NamesOf(f) ==
  /\ f.i \in 1 .. Len(f.names) + 1
  /\ Called(f.dir)
  /\ \A c \in Range(calls) : c.dir = f.dir /\ c.name # NoName =>
       \E m \in 1 .. f.i - 1 : c.name = f.names[m]
  /\ \A m \in 1 .. f.i - 1 : Called(Append(f.dir, f.names[m]))
  /\ \A n \in Names : Append(f.dir, n) \in DOMAIN tree => \E m \in DOMAIN f.names : n = f.names[m]

(* The visitor is called for an entry of the innermost directory.            *)
CalledFor ==
  visit_pc \in {"calling", "list"} =>
    /\ calls # <<>>
    /\ stack = <<>> => Len(calls) = 1
    /\ stack # <<>> =>
         /\ stack[1].i > 1 /\ Last(calls).name # NoName
         /\ Last(calls).dir = stack[1].dir /\ Last(calls).name = stack[1].names[stack[1].i - 1]

StackInv ==
  /\ stack \in Seq(Frames)
  /\ visit_pc = "next" => stack # <<>>
  /\ \A f \in Range(stack) : ListsOf(f) /\ NamesOf(f)
  /\ \A k \in DOMAIN stack :
       k > 1 => stack[k].i > 1 /\ stack[k - 1].dir = Append(stack[k].dir, stack[k].names[stack[k].i - 1])
  /\ \A j, k \in DOMAIN stack : j < k => Len(stack[k].dir) < Len(stack[j].dir)
  /\ CalledFor

(* A directory that the visitor has been called for has been gone through,   *)
(* or is yet to be.                                                         *)
Complete(dir) == \A n \in Names : Append(dir, n) \in DOMAIN tree => Called(Append(dir, n))

InHand(dir) ==
  \/ \E f \in Range(stack) : f.dir = dir
  \/ visit_pc \in {"calling", "list"} /\ PathOf(Last(calls)) = dir

CompleteInv ==
  failure = "none" =>
    \A dir \in DOMAIN before :
      Called(dir) /\ before[dir].kind = "dir" => Complete(dir) \/ InHand(dir)

WalkInv ==
  /\ ApplianceInv /\ WindowsInv /\ FailureInv /\ ProgramInv
  /\ TreeInv /\ CallsInv /\ StackInv /\ CompleteInv

LEMMA WalkStarts ==
  ASSUME BindingsInit
  PROVE  WalkInv
<1>0. /\ fs \in Filesystems /\ readonly \in BOOLEAN /\ device \in DOMAIN fs \cup {NoDevice}
      /\ mappings \in DriveMappings \cup {<<>>}
      /\ VisitInit /\ WindowsInit
  BY DEF BindingsInit
<1>a. \A s : s = <<>> => DOMAIN s = {} /\ Range(s) = {}
  BY DEF Range
<1>1. ApplianceInv
  <2>1. fs \in Filesystems
    BY <1>0
  <2>2. NoDevice \notin DOMAIN fs /\ \A d \in DOMAIN fs : TreeOK(fs[d])
    BY <2>1, FilesystemsAssumption DEF TreeOK
  <2>5. \A i \in DOMAIN mappings : mappings[i].device \in DOMAIN fs
    <3>1. CASE mappings = <<>>
      BY <3>1, <1>a
    <3>2. CASE mappings \in DriveMappings
      BY <3>2, <2>1, FilesystemsAssumption
    <3> QED
      BY <1>0, <3>1, <3>2
  <2> QED
    BY <1>0, <2>2, <2>5 DEF ApplianceInv
<1>2. WindowsInv
  <2>1. /\ win_pc = "idle" /\ asked_path = [letter |-> NoLetter, rest |-> <<>>] /\ asked_ro = FALSE
    BY <1>0 DEF WindowsInit
  <2>2. asked_path.rest = <<>> /\ <<>> \in Seq({})
    BY <2>1
  <2> QED
    BY <2>1, <2>2 DEF WindowsInv, DriveAsAsked, FileAsAsked
<1>3. FailureInv
  BY <1>0, VisitAssumption DEF VisitInit, FailureInv, FailureReported
<1>4. CallsInv
  <2>1. calls = <<>> /\ visit_pc = "idle" /\ failure = "none" /\ stack = <<>>
    BY <1>0 DEF VisitInit
  <2>2. Range(calls) = {} /\ DOMAIN calls = {}
    BY <2>1, <1>a
  <2>3. OncePerFile
    BY <2>2 DEF OncePerFile
  <2>4. calls \in Seq(CallRecords)
    BY <2>1
  <2> QED
    BY <2>1, <2>2, <2>3, <2>4 DEF CallsInv
<1>5. StackInv
  <2>1. stack = <<>> /\ visit_pc = "idle"
    BY <1>0 DEF VisitInit
  <2>2. Range(stack) = {} /\ DOMAIN stack = {}
    BY <2>1, <1>a
  <2>3. stack \in Seq(Frames)
    BY <2>1
  <2> QED
    BY <2>1, <2>2, <2>3 DEF StackInv, CalledFor
<1>6. ProgramInv /\ TreeInv
  BY <1>0 DEF VisitInit, WindowsInit, ProgramInv, TreeInv
<1>7. CompleteInv
  <2>1. DOMAIN calls = {}
    BY <1>0, <1>a DEF VisitInit
  <2> QED
    BY <2>1 DEF CompleteInv, Called
<1> QED
  BY <1>1, <1>2, <1>3, <1>4, <1>5, <1>6, <1>7 DEF WalkInv

(* The names of a path with backslashes are those of the path with slashes.  *)
LEMMA SameComponents ==
  ASSUME NEW S, NEW p \in Seq(S)
  PROVE  Components(Forward(p), {"/"}) = Components(p, {"/", "\\"})
<1>1. PICK q : q = Forward(p)
  OBVIOUS
<1>2. Len(q) = Len(p) /\ Len(p) \in Nat
      /\ \A i \in 1 .. Len(p) : q[i] = IF p[i] = "\\" THEN "/" ELSE p[i]
  BY <1>1 DEF Forward
<1>3. \A i \in 1 .. Len(p) : /\ q[i] \in {"/"} <=> p[i] \in {"/", "\\"}
                            /\ q[i] \notin {"/"} => q[i] = p[i]
  BY <1>2
<1>4. ASSUME NEW f
      PROVE  [n \in 0 .. Len(p) |-> IF n = 0 THEN <<>>
                                    ELSE IF q[n] \in {"/"} THEN f[n - 1] ELSE Append(f[n - 1], q[n])]
             = [n \in 0 .. Len(p) |-> IF n = 0 THEN <<>>
                                      ELSE IF p[n] \in {"/", "\\"} THEN f[n - 1]
                                      ELSE Append(f[n - 1], p[n])]
  BY <1>2, <1>3
<1>5. (CHOOSE f : f = [n \in 0 .. Len(p) |-> IF n = 0 THEN <<>>
                                    ELSE IF q[n] \in {"/"} THEN f[n - 1] ELSE Append(f[n - 1], q[n])])
      = (CHOOSE f : f = [n \in 0 .. Len(p) |-> IF n = 0 THEN <<>>
                                      ELSE IF p[n] \in {"/", "\\"} THEN f[n - 1]
                                      ELSE Append(f[n - 1], p[n])])
  BY <1>4, Zenon
<1>6. Components(q, {"/"}) = Components(p, {"/", "\\"})
  BY <1>2, <1>5, Zenon DEF Components
<1> QED
  BY <1>1, <1>6

(* The root has no names.                                                    *)
LEMMA NoComponents ==
  Components(<<"/">>, {"/", "\\"}) = Components(<<>>, {"/", "\\"})
<1>1. PICK p, e, s : p = <<"/">> /\ e = <<>> /\ s = {"/", "\\"}
  OBVIOUS
<1>2. Len(p) = 1 /\ p[1] \in s /\ Len(e) = 0
  BY <1>1
<1> DEFINE names[n \in 0 .. Len(p)] ==
             IF n = 0 THEN <<>> ELSE IF p[n] \in s THEN names[n - 1] ELSE Append(names[n - 1], p[n])
           none[n \in 0 .. Len(e)] ==
             IF n = 0 THEN <<>> ELSE IF e[n] \in s THEN none[n - 1] ELSE Append(none[n - 1], e[n])
<1>3. Components(p, s) = names[1] /\ Components(e, s) = none[0]
  BY <1>2, Zenon DEF Components
<1>4. names = CHOOSE f : f = [n \in 0 .. Len(p) |->
                IF n = 0 THEN <<>> ELSE IF p[n] \in s THEN f[n - 1] ELSE Append(f[n - 1], p[n])]
  BY DEF names
<1>5. none = CHOOSE f : f = [n \in 0 .. Len(e) |->
                IF n = 0 THEN <<>> ELSE IF e[n] \in s THEN f[n - 1] ELSE Append(f[n - 1], e[n])]
  BY DEF none
<1> HIDE DEF names, none
<1>6. PICK g : g = [n \in 0 .. Len(p) |-> <<>>]
  OBVIOUS
<1>7. g = [n \in 0 .. Len(p) |->
             IF n = 0 THEN <<>> ELSE IF p[n] \in s THEN g[n - 1] ELSE Append(g[n - 1], p[n])]
  <2>1. ASSUME NEW n \in 0 .. Len(p)
        PROVE  <<>> = IF n = 0 THEN <<>> ELSE IF p[n] \in s THEN g[n - 1] ELSE Append(g[n - 1], p[n])
    <3>1. n = 0 \/ (n = 1 /\ g[n - 1] = <<>>)
      BY <1>2, <1>6
    <3> QED
      BY <1>2, <3>1
  <2> QED
    BY <1>6, <2>1
<1>8. PICK h : h = [n \in 0 .. Len(e) |-> <<>>]
  OBVIOUS
<1>9. h = [n \in 0 .. Len(e) |->
             IF n = 0 THEN <<>> ELSE IF e[n] \in s THEN h[n - 1] ELSE Append(h[n - 1], e[n])]
  BY <1>2, <1>8
<1>10. names = [n \in 0 .. Len(p) |->
          IF n = 0 THEN <<>> ELSE IF p[n] \in s THEN names[n - 1] ELSE Append(names[n - 1], p[n])]
  BY <1>4, <1>7
<1>11. none = [n \in 0 .. Len(e) |->
          IF n = 0 THEN <<>> ELSE IF e[n] \in s THEN none[n - 1] ELSE Append(none[n - 1], e[n])]
  BY <1>5, <1>9
<1>12. names[1] = names[0] /\ names[0] = <<>>
  BY <1>2, <1>10
<1>13. none[0] = <<>>
  BY <1>2, <1>11
<1> QED
  BY <1>1, <1>3, <1>12, <1>13

(* The program resolves the path before it visits.                           *)
LEMMA ResolveStep ==
  ASSUME WalkInv, StartResolve \/ (WindowsNext /\ UNCHANGED visitVars)
  PROVE  WalkInv'
<1>1. visit_pc = "idle" /\ win_pc # "done" /\ win_pc \in {"idle", "letter", "umount", "mount", "case"}
  BY DEF WalkInv, WindowsInv, ProgramInv, StartResolve, WindowsPath, WindowsNext, FindDrive,
         FindDriveFails, UmountAll, MountDrive, MountFails, FindCase, FindCaseFails
<1>2. UNCHANGED visitVars
  BY DEF StartResolve
<1>3. UNCHANGED <<mappings, fs>>
  BY DEF StartResolve, WindowsPath, WindowsNext, FindDrive, FindDriveFails, UmountAll,
         MountDrive, MountFails, FindCase, FindCaseFails, inspected, appliance
<1>4. FailureInv' /\ ProgramInv' /\ TreeInv' /\ CallsInv'
  <2>1. FailureInv'
    BY <1>2 DEF WalkInv, FailureInv, FailureReported, visitVars
  <2>2. TreeInv' /\ visit_pc' = "idle"
    BY <1>1, <1>2 DEF TreeInv, visitVars
  <2>3. ProgramInv'
    <3>1. type' = type /\ caller' = caller
      BY <1>2 DEF StartResolve, WindowsPath, WindowsNext, FindDrive, FindDriveFails, UmountAll,
         MountDrive, MountFails, FindCase, FindCaseFails, inspected, visitVars
    <3>2. win_pc # "idle" \/ (caller = "C" /\ is_windows)
      BY DEF StartResolve, WindowsNext, FindDrive, FindDriveFails, UmountAll, MountDrive, MountFails,
             FindCase, FindCaseFails
    <3> QED
      BY <2>2, <3>1, <3>2 DEF WalkInv, ProgramInv, is_windows
  <2>4. CallsInv'
    <3>1. /\ calls' = calls /\ visit_pc' = visit_pc /\ stack' = stack /\ failure' = failure
          /\ top' = top /\ before' = before
      BY <1>2 DEF visitVars
    <3>2. OncePerFile'
      BY <3>1 DEF WalkInv, CallsInv, OncePerFile
    <3>3. \A c \in Range(calls) : AsItWas(c)'
      BY <3>1 DEF WalkInv, CallsInv, AsItWas
    <3>4. Range(calls)' = Range(calls)
      BY <3>1 DEF Range
    <3> QED
      BY <3>1, <3>2, <3>3, <3>4 DEF WalkInv, CallsInv
  <2> QED
    BY <2>1, <2>2, <2>3, <2>4
<1>5. StackInv'
  <2>1. stack' = <<>> /\ visit_pc' = "idle"
    BY <1>1, <1>2 DEF WalkInv, CallsInv, visitVars
  <2> QED
    BY <2>1 DEF StackInv, CalledFor, Range
<1>6. CompleteInv'
  <2>1. calls' = <<>>
    BY <1>1, <1>2 DEF WalkInv, CallsInv, visitVars
  <2> QED
    BY <2>1 DEF CompleteInv, Called
<1>7. ApplianceInv' /\ WindowsInv'
  <2> USE DEF WalkInv, ApplianceInv, WindowsInv, DriveAsAsked, FileAsAsked
  <2>1. CASE StartResolve
    <3>1. PICK path \in Paths, ro \in BOOLEAN : WindowsPath(path, ro)
      BY <2>1 DEF StartResolve
    <3>2. \E S : asked_path'.rest \in Seq(S)
      BY <3>1, PathsAssumption DEF WindowsPath
    <3> QED
      BY <3>1, <3>2 DEF WindowsPath, inspected, appliance
  <2>2. CASE FindDrive
    <3>1. PICK i \in DOMAIN mappings : mappings[i].letter = asked_path.letter /\ ~mappings[i].long /\ found' = mappings[i].device
      BY <2>2 DEF FindDrive
    <3>2. WindowsInv'
      BY <2>2, <3>1 DEF FindDrive, inspected, appliance
    <3> QED
      BY <2>2, <3>2 DEF FindDrive, inspected, appliance
  <2>3. CASE FindDriveFails \/ MountFails
    BY <2>3 DEF FindDriveFails, MountFails, inspected, appliance
  <2>4. CASE UmountAll
    BY <2>4 DEF UmountAll, inspected
  <2>5. CASE MountDrive
    BY <2>5 DEF MountDrive, inspected
  <2>6. CASE FindCase
    <3>1. device \in DOMAIN fs => DOMAIN tree \subseteq Seq(Names)
      BY DEF tree, TreeOK
    <3>2. device = NoDevice => DOMAIN tree = {}
      BY DEF tree
    <3>3. result' \in DOMAIN tree
      BY <2>6 DEF FindCase, CaseSensitive
    <3>4. result' \in Seq(Names)
      BY <3>1, <3>2, <3>3
    <3>5. LET names == Components(asked_path.rest, {"/", "\\"})
          IN  /\ Len(result') = Len(names)
              /\ \A i \in DOMAIN result' : SameName(result'[i], names[i])
      <4>1. PICK path : path = Rest
        OBVIOUS
      <4>2. PICK names : names = Components(Forward(path), {"/"})
        OBVIOUS
      <4>3. Len(result') = Len(names) /\ \A i \in DOMAIN result' : SameName(result'[i], names[i])
        BY <2>6, <4>1, <4>2 DEF FindCase, CaseSensitive
      <4>4. PICK S : asked_path.rest \in Seq(S)
        OBVIOUS
      <4>5. names = Components(path, {"/", "\\"})
        <5>1. path = asked_path.rest \/ path = <<"/">>
          BY <4>1 DEF Rest
        <5>2. <<"/">> \in Seq({"/"})
          OBVIOUS
        <5>3. path \in Seq(S) \/ path \in Seq({"/"})
          BY ONLY <5>1, <5>2, <4>4
        <5> QED
          BY <4>2, <5>3, SameComponents
      <4>6. Components(path, {"/", "\\"}) = Components(asked_path.rest, {"/", "\\"})
        <5>1. CASE path = asked_path.rest
          BY <5>1
        <5>2. CASE path = <<"/">> /\ asked_path.rest = <<>>
          BY <5>2, NoComponents
        <5> QED
          BY <4>1, <5>1, <5>2 DEF Rest
      <4> QED
        BY <4>3, <4>5, <4>6
    <3>6. asked_path' = asked_path /\ win_pc' = "done"
      BY <2>6 DEF FindCase
    <3> QED
      BY <2>6, <3>4, <3>5, <3>6 DEF FindCase, inspected, appliance
  <2>7. CASE FindCaseFails
    BY <2>7 DEF FindCaseFails, inspected, appliance
  <2> QED
    BY <2>1, <2>2, <2>3, <2>4, <2>5, <2>6, <2>7 DEF WindowsNext
<1> QED
  BY <1>4, <1>5, <1>6, <1>7 DEF WalkInv

LEMMA NowTree ==
  ASSUME ApplianceInv
  PROVE  TreeOK(tree)
<1>1. CASE device \in DOMAIN fs
  <2>1. tree = fs[device]
    BY <1>1 DEF ApplianceInv, tree
  <2> QED
    BY <1>1, <2>1 DEF ApplianceInv
<1>2. CASE device = NoDevice
  <2>1. tree = <<>>
    BY <1>2 DEF tree
  <2>2. DOMAIN tree = {}
    BY <2>1
  <2> QED
    BY <2>1, <2>2 DEF TreeOK
<1> QED
  BY <1>1, <1>2 DEF ApplianceInv

LEMMA StartVisitStep ==
  ASSUME WalkInv, StartVisit
  PROVE  WalkInv'
<1>1. PICK dir : /\ Visit(dir) /\ dir \in Seq(Names)
                 /\ win_pc = "done" \/ caller = "OCaml" \/ ~is_windows
  <2>1. DOMAIN tree \subseteq Seq(Names)
    BY NowTree DEF WalkInv, TreeOK
  <2> QED
    BY <2>1 DEF StartVisit, WalkInv, WindowsInv
<1>2. /\ visit_pc = "idle" /\ visit_pc' = "top" /\ top' = dir /\ before' = tree
      /\ UNCHANGED <<fs, device, readonly, caller, stack, ret, exn, outcome, calls, failure, windowsVars>>
      /\ calls = <<>> /\ stack = <<>>
  BY <1>1 DEF StartVisit, Visit, appliance, WalkInv, CallsInv
<1>a. \A s : s = <<>> => DOMAIN s = {} /\ Range(s) = {}
  BY DEF Range
<1>3. ApplianceInv' /\ WindowsInv' /\ ProgramInv' /\ FailureInv'
  <2>1. ApplianceInv'
    BY <1>2 DEF WalkInv, ApplianceInv, windowsVars, inspected
  <2>2. WindowsInv'
    BY <1>2 DEF WalkInv, WindowsInv, DriveAsAsked, FileAsAsked, windowsVars, inspected
  <2>3. ProgramInv'
    BY <1>1, <1>2 DEF WalkInv, ProgramInv, is_windows, windowsVars, inspected
  <2>4. FailureInv'
    BY <1>2 DEF WalkInv, FailureInv, FailureReported
  <2> QED
    BY <2>1, <2>2, <2>3, <2>4
<1>4. TreeInv'
  <2>1. TreeOK(tree)
    BY NowTree DEF WalkInv
  <2>2. tree' = tree
    BY <1>2 DEF tree
  <2> QED
    BY <1>2, <2>1, <2>2 DEF TreeInv
<1>5. CallsInv'
  <2>1. Range(calls)' = {} /\ DOMAIN calls' = {}
    BY <1>2, <1>a
  <2>2. OncePerFile'
    BY <2>1 DEF OncePerFile
  <2>3. calls' \in Seq(CallRecords)
    BY <1>2
  <2> QED
    BY <1>1, <1>2, <2>1, <2>2, <2>3 DEF CallsInv
<1>6. StackInv'
  <2>1. Range(stack)' = {} /\ DOMAIN stack' = {}
    BY <1>2, <1>a
  <2>2. stack' \in Seq(Frames)
    BY <1>2
  <2> QED
    BY <1>2, <2>1, <2>2 DEF StackInv, CalledFor
<1>7. CompleteInv'
  <2>1. DOMAIN calls' = {}
    BY <1>2, <1>a
  <2> QED
    BY <2>1 DEF CompleteInv, Called
<1> QED
  BY <1>3, <1>4, <1>5, <1>6, <1>7 DEF WalkInv

(* What a failure comes to, and the drive that the visit does not change.    *)
LEMMA FailureSteps ==
  ASSUME WalkInv, VisitNext, UNCHANGED windowsVars
  PROVE  /\ FailureInv' /\ ProgramInv' /\ WindowsInv'
         /\ visit_pc # "idle" /\ visit_pc' \notin {"idle", "top"}
         /\ UNCHANGED <<device, readonly, caller, top, before>>
<1>1. /\ visit_pc # "idle" /\ visit_pc' \notin {"idle", "top"}
      /\ UNCHANGED <<device, readonly, caller, top, before>>
  BY DEF VisitNext, VisitTop, ApplianceFails, ListDir, VisitEntry, EntryFails, EndDir, ContinueLoop,
         Unwind, VisitReturns, VisitorReturns, VisitorFails, VisitorRemoves, VisitorRaises, Fail, CallVisitor,
         appliance, visitVars
<1>2. WindowsInv' /\ ProgramInv'
  BY <1>1 DEF WalkInv, WindowsInv, DriveAsAsked, FileAsAsked, ProgramInv, is_windows, windowsVars, inspected
<1>3. FailureInv'
  <2> USE DEF WalkInv, FailureInv, FailureReported
  <2>1. CASE VisitTop
    BY <2>1 DEF VisitTop, CallVisitor
  <2>2. CASE ApplianceFails
    BY <2>2, VisitAssumption DEF ApplianceFails, Fail
  <2>3. CASE ListDir
    BY <2>3 DEF ListDir
  <2>4. CASE VisitEntry
    BY <2>4 DEF VisitEntry, CallVisitor
  <2>5. CASE EntryFails
    BY <2>5, VisitAssumption DEF EntryFails, Fail
  <2>6. CASE EndDir
    BY <2>6 DEF EndDir
  <2>7. CASE ContinueLoop
    BY <2>7 DEF ContinueLoop
  <2>8. CASE Unwind
    BY <2>8 DEF Unwind
  <2>9. CASE VisitReturns
    <3>1. failure # "none" => ret = -1
      BY <2>9
    <3> QED
      BY <2>9, <3>1, VisitAssumption DEF VisitReturns
  <2>10. CASE VisitorReturns
    BY <2>10 DEF VisitorReturns
  <2>11. CASE VisitorFails
    BY <2>11, VisitAssumption DEF VisitorFails, Fail
  <2>12. ASSUME NEW path, VisitorRemoves(path)
         PROVE  FailureInv'
    BY <2>12 DEF VisitorRemoves, visitVars
  <2>13. ASSUME NEW e \in Exceptions, VisitorRaises(e)
         PROVE  FailureInv'
    BY <2>13, VisitAssumption DEF VisitorRaises, Fail
  <2> QED
    BY <2>1, <2>2, <2>3, <2>4, <2>5, <2>6, <2>7, <2>8, <2>9, <2>10, <2>11, <2>12, <2>13 DEF VisitNext
<1> QED
  BY <1>1, <1>2, <1>3

(* The visitor only removes files.                                           *)
LEMMA TreeSteps ==
  ASSUME WalkInv, VisitNext, UNCHANGED windowsVars
  PROVE  /\ ApplianceInv' /\ TreeInv' /\ DOMAIN tree' \subseteq DOMAIN tree
         /\ (\E path \in DOMAIN tree : VisitorRemoves(path)) \/ tree' = tree
<1>1. CASE ~ \E path \in DOMAIN tree : VisitorRemoves(path)
  <2>1. UNCHANGED <<appliance, before>> /\ visit_pc # "idle"
    BY <1>1 DEF VisitNext, VisitTop, ApplianceFails, ListDir, VisitEntry, EntryFails, EndDir, ContinueLoop,
         Unwind, VisitReturns, VisitorReturns, VisitorFails, VisitorRaises, Fail, CallVisitor
  <2>2. tree' = tree /\ UNCHANGED <<fs, device, readonly>>
    BY <2>1 DEF tree, appliance
  <2>3. ApplianceInv'
    BY <2>2 DEF WalkInv, ApplianceInv, windowsVars, inspected
  <2>4. TreeInv'
    BY <2>1, <2>2 DEF WalkInv, TreeInv
  <2> QED
    BY <2>2, <2>3, <2>4
<1>2. ASSUME NEW path \in DOMAIN tree, VisitorRemoves(path)
      PROVE  ApplianceInv' /\ TreeInv' /\ DOMAIN tree' \subseteq DOMAIN tree
  <2>1. device \in DOMAIN fs /\ tree = fs[device]
    <3>1. DOMAIN <<>> = {}
      OBVIOUS
    <3> QED
      BY <3>1 DEF WalkInv, ApplianceInv, tree
  <2> DEFINE t == [p \in DOMAIN tree \ {path} |-> tree[p]]
  <2>2. fs' = [fs EXCEPT ![device] = t] /\ UNCHANGED <<device, readonly, before, visit_pc>>
    BY <1>2, <2>1 DEF VisitorRemoves, Restrict, visitVars
  <2>3. TreeOK(t)
    <3>1. TreeOK(tree) /\ tree[path].kind # "dir"
      BY <1>2, NowTree DEF WalkInv, VisitorRemoves
    <3>2. DOMAIN t = DOMAIN tree \ {path} /\ \A p \in DOMAIN t : t[p] = tree[p]
      OBVIOUS
    <3>3. t \in [DOMAIN t -> [kind : {"dir", "file", "symlink"}, xattrs : Seq(Attributes) \cup {Unreadable}]]
      BY <3>1 DEF TreeOK
    <3> HIDE DEF t
    <3> QED
      BY <3>1, <3>2, <3>3 DEF TreeOK
  <2>4. DOMAIN fs' = DOMAIN fs /\ fs'[device] = t /\ \A d \in DOMAIN fs : d # device => fs'[d] = fs[d]
    BY <2>1, <2>2
  <2>5. tree' = t
    BY <2>1, <2>2, <2>4 DEF tree, WalkInv, ApplianceInv
  <2>6. ApplianceInv'
    <3>1. \A d \in DOMAIN fs' : TreeOK(fs'[d])
      BY <2>3, <2>4 DEF WalkInv, ApplianceInv
    <3>2. UNCHANGED mappings
      BY DEF windowsVars, inspected
    <3> QED
      BY <2>2, <2>4, <3>1, <3>2 DEF WalkInv, ApplianceInv
  <2>7. TreeInv'
    BY <2>2, <2>5 DEF WalkInv, TreeInv
  <2> QED
    BY <2>5, <2>6, <2>7
<1> QED
  BY <1>1, <1>2

(* The element behind the first sequence, and the sequence behind it.        *)
LEMMA Cut ==
  ASSUME NEW X, NEW p \in Seq(X), NEW h \in X, NEW s \in Seq(X), NEW r \in Seq(X),
         NEW w, w = (p \o (<<h>> \o s)) \o r
  PROVE  /\ w[Len(p) + 1] = h
         /\ SubSeq(w, Len(p) + 1 + 1, Len(p) + 1 + Len(s)) = s
         /\ Len(p \o (<<h>> \o s)) = Len(p) + 1 + Len(s)
<1> DEFINE t == <<h>> \o s
           q == p \o t
<1>1. t \in Seq(X) /\ Len(t) = Len(s) + 1 /\ t[1] = h /\ \A i \in 1 .. Len(s) : t[i + 1] = s[i]
  OBVIOUS
<1> HIDE DEF t
<1>2. q \in Seq(X) /\ Len(q) = Len(p) + Len(s) + 1 /\ \A i \in 1 .. Len(t) : q[Len(p) + i] = t[i]
  <2>1. t \in Seq(X)
    BY <1>1
  <2>2. q \in Seq(X) /\ Len(q) = Len(p) + Len(t)
    BY <2>1
  <2>3. \A i \in 1 .. Len(t) : q[Len(p) + i] = t[i]
    BY <2>1
  <2> QED
    BY <1>1, <2>2, <2>3
<1> HIDE DEF q
<1>3. w \in Seq(X) /\ Len(w) = Len(q) + Len(r) /\ \A i \in 1 .. Len(q) : w[i] = q[i]
  BY <1>2 DEF q, t
<1>4. w[Len(p) + 1] = h
  BY <1>1, <1>2, <1>3
<1>5. \A i \in 1 .. Len(s) : w[Len(p) + 1 + i] = s[i]
  <2> TAKE i \in 1 .. Len(s)
  <2>1. i + 1 \in 1 .. Len(t) /\ Len(p) + (i + 1) \in 1 .. Len(q) /\ Len(p) + (i + 1) = Len(p) + 1 + i
    BY <1>1, <1>2
  <2>2. w[Len(p) + (i + 1)] = q[Len(p) + (i + 1)] /\ q[Len(p) + (i + 1)] = t[i + 1] /\ t[i + 1] = s[i]
    BY <2>1, <1>1, <1>2, <1>3
  <2> QED
    BY <2>1, <2>2
<1>6. SubSeq(w, Len(p) + 1 + 1, Len(p) + 1 + Len(s)) = s
  <2> DEFINE u == SubSeq(w, Len(p) + 1 + 1, Len(p) + 1 + Len(s))
  <2>1. u \in Seq(X) /\ Len(u) = Len(s) /\ \A i \in 1 .. Len(s) : u[i] = w[Len(p) + 1 + i]
    BY <1>2, <1>3
  <2> HIDE DEF u
  <2>2. \A i \in 1 .. Len(s) : u[i] = s[i]
    BY <2>1, <1>5
  <2>3. u = s
    BY <2>1, <2>2, SeqEqual
  <2> QED
    BY <2>3 DEF u
<1> QED
  BY <1>2, <1>4, <1>6 DEF q, t

LEMMA BlocksTyped ==
  ASSUME TreeOK(before), NEW dir, NEW names \in Seq(Names),
         \A m \in DOMAIN names : Append(dir, names[m]) \in DOMAIN before
  PROVE  /\ Blocks(dir, names) \in Seq(Seq(Elements))
         /\ Len(Blocks(dir, names)) = Len(names)
         /\ \A m \in DOMAIN names :
              LET x == before[Append(dir, names[m])].xattrs
              IN  /\ x \in Seq(Attributes) \cup {Unreadable} /\ Header(x) \in Elements
                  /\ (IF x = Unreadable THEN <<>> ELSE x) \in Seq(Elements)
         /\ \A k \in 0 .. Len(names) :
              FlattenSeq(SubSeq(Blocks(dir, names), 1, k)) \in Seq(Elements)
<1> DEFINE b == Blocks(dir, names)
           X == Elements
<1>2. \A m \in DOMAIN names :
        before[Append(dir, names[m])].xattrs \in Seq(Attributes) \cup {Unreadable}
  BY DEF TreeOK
<1>3. \A y \in Seq(Attributes) \cup {Unreadable} : Header(y) \in X
  <2> TAKE y \in Seq(Attributes) \cup {Unreadable}
  <2>1. y # Unreadable => Len(y) \in Nat
    OBVIOUS
  <2> QED
    BY <2>1 DEF Header, Elements
<1>4. \A y \in Seq(Attributes) : y \in Seq(X)
  <2>1. Attributes \subseteq X
    BY DEF Elements
  <2> HIDE DEF X
  <2> TAKE y \in Seq(Attributes)
  <2>2. \A i \in 1 .. Len(y) : y[i] \in X
    BY <2>1
  <2> QED
    BY <2>2
<1>5. \A y \in Seq(Attributes) \cup {Unreadable} : Block(y) \in Seq(X)
  <2> TAKE y \in Seq(Attributes) \cup {Unreadable}
  <2> HIDE DEF X
  <2>1. (IF y = Unreadable THEN <<>> ELSE y) \in Seq(X)
    BY <1>4
  <2>2. <<Header(y)>> \in Seq(X)
    BY <1>3
  <2> QED
    BY <2>1, <2>2 DEF Block
<1> HIDE DEF X
<1>6. b \in Seq(Seq(X)) /\ Len(b) = Len(names)
  BY <1>2, <1>5 DEF Blocks
<1>7. \A k \in 0 .. Len(names) : FlattenSeq(SubSeq(b, 1, k)) \in Seq(X)
  <2> HIDE DEF b, X
  <2> QED
    BY <1>6, Flatten
<1>8. ASSUME NEW m \in DOMAIN names, NEW x, x = before[Append(dir, names[m])].xattrs
      PROVE  /\ x \in Seq(Attributes) \cup {Unreadable} /\ Header(x) \in X
             /\ (IF x = Unreadable THEN <<>> ELSE x) \in Seq(X)
  BY <1>2, <1>3, <1>4, <1>8
<1> HIDE DEF b
<1> QED
  BY <1>6, <1>7, <1>8 DEF b, X

(* _visit finds the attributes of each file where they are.                  *)
LEMMA CutsBlock ==
  ASSUME TreeOK(before), NEW f \in Frames, ListsOf(f), f.i \in DOMAIN f.names,
         NEW x, x = before[Append(f.dir, f.names[f.i])].xattrs,
         f.xattrs[f.xattrp].attrval # Unreadable
  PROVE  /\ x \in Seq(Attributes)
         /\ SubSeq(f.xattrs, f.xattrp + 1, f.xattrp + f.xattrs[f.xattrp].attrval) = x
         /\ f.xattrp + f.xattrs[f.xattrp].attrval + 1
              = Len(FlattenSeq(SubSeq(Blocks(f.dir, f.names), 1, f.i))) + 1
<1> DEFINE b == Blocks(f.dir, f.names)
           s == IF x = Unreadable THEN <<>> ELSE x
           X == Elements
<1>1. f.names \in Seq(Names) /\ f.dir \in Seq(Names) /\ f.i \in 1 .. Len(f.names) /\ f.i \in Nat
  <2>1. f.names \in Seq(Names) /\ f.dir \in Seq(Names) /\ f.i \in Nat
    BY DEF Frames
  <2> QED
    BY <2>1
<1>0. \A m \in DOMAIN f.names : Append(f.dir, f.names[m]) \in DOMAIN before
  BY DEF ListsOf
<1>2. b \in Seq(Seq(X)) /\ Len(b) = Len(f.names)
  BY <1>0, <1>1, BlocksTyped
<1>3. x \in Seq(Attributes) \cup {Unreadable} /\ Header(x) \in X /\ s \in Seq(X)
  BY <1>0, <1>1, BlocksTyped
<1> HIDE DEF X
<1>7. b[f.i] = <<Header(x)>> \o s
  BY <1>1 DEF Blocks, Block
<1> HIDE DEF b
<1> DEFINE P == FlattenSeq(SubSeq(b, 1, f.i - 1))
           Q == FlattenSeq(SubSeq(b, 1, f.i))
<1>9. P \in Seq(X) /\ Q = P \o b[f.i] /\ f.i \in 0 .. Len(b)
  <2>1. f.i \in 1 .. Len(b) /\ f.i - 1 \in 0 .. Len(b) /\ f.i \in 0 .. Len(b)
    BY <1>1, <1>2
  <2> QED
    BY <1>2, <2>1, Flatten
<1>10. PICK r \in Seq(X) : f.xattrs = Q \o r
  <2>1. f.xattrs = FlattenSeq(b)
    BY DEF ListsOf, b
  <2> QED
    BY <1>2, <1>9, <2>1, FlattenPrefix
<1>11. f.xattrp = Len(P) + 1
  BY DEF ListsOf, b
<1> HIDE DEF P, Q, s
<1>12. f.xattrs = (P \o (<<Header(x)>> \o s)) \o r
  BY <1>7, <1>9, <1>10
<1>13. /\ f.xattrs[f.xattrp] = Header(x)
       /\ SubSeq(f.xattrs, f.xattrp + 1, f.xattrp + Len(s)) = s
       /\ Len(Q) = f.xattrp + Len(s)
  <2>1. P \in Seq(X) /\ Header(x) \in X /\ s \in Seq(X) /\ r \in Seq(X)
    BY <1>3, <1>9, <1>10
  <2>5. LET all == (P \o (<<Header(x)>> \o s)) \o r
        IN  /\ all[Len(P) + 1] = Header(x)
            /\ SubSeq(all, Len(P) + 1 + 1, Len(P) + 1 + Len(s)) = s
            /\ Len(P \o (<<Header(x)>> \o s)) = Len(P) + 1 + Len(s)
    BY ONLY <2>1, Cut, SMTT(60)
  <2>2. f.xattrs[Len(P) + 1] = Header(x)
    BY ONLY <1>12, <2>5
  <2>3. SubSeq(f.xattrs, Len(P) + 1 + 1, Len(P) + 1 + Len(s)) = s
    BY ONLY <1>12, <2>5
  <2>4. Len(P \o (<<Header(x)>> \o s)) = Len(P) + 1 + Len(s)
    BY ONLY <2>5
  <2> QED
    BY <2>2, <2>3, <2>4, <1>7, <1>9, <1>11
<1>14. x # Unreadable /\ Header(x).attrval = Len(s) /\ s = x /\ x \in Seq(Attributes)
  <2>1. Header(x).attrval # Unreadable
    BY <1>13
  <2>2. x # Unreadable
    BY <2>1 DEF Header
  <2> QED
    BY <1>3, <2>2 DEF Header, s
<1> QED
  BY <1>13, <1>14 DEF Q, b

LEMMA PathOfCall ==
  ASSUME NEW c \in CallRecords
  PROVE  /\ PathOf(c) \in Seq(Names)
         /\ c.name = NoName => PathOf(c) = c.dir
         /\ c.name # NoName => /\ c.name \in Names /\ PathOf(c) = Append(c.dir, c.name)
                               /\ Len(PathOf(c)) = Len(c.dir) + 1
<1>1. c.dir \in Seq(Names) /\ c.name \in Names \cup {NoName}
  BY DEF CallRecords
<1> QED
  BY <1>1 DEF PathOf

(* The visitor has not been called for the file before.                      *)
LEMMA NewCall ==
  ASSUME CallsInv, NEW f \in Frames, ListsOf(f), NamesOf(f), f.i \in DOMAIN f.names
  PROVE  ~ Called(Append(f.dir, f.names[f.i]))
<1> DEFINE path == Append(f.dir, f.names[f.i])
<1>1. SUFFICES ASSUME NEW k \in DOMAIN calls, PathOf(calls[k]) = path
               PROVE  FALSE
  BY DEF Called
<1>2. PICK c : c = calls[k]
  OBVIOUS
<1>3. /\ c \in CallRecords /\ c \in Range(calls) /\ PathOf(c) = path /\ k \in Nat
      /\ k > 1 => c.name # NoName
      /\ k = 1 => c.dir = top
  BY <1>1, <1>2 DEF CallsInv, OncePerFile, Range
<1>4. /\ f.dir \in Seq(Names) /\ f.names[f.i] \in Names /\ f.i \in Nat /\ f.names \in Seq(Names)
  BY DEF Frames
<1>5. Len(path) = Len(f.dir) + 1 /\ Len(f.dir) >= Len(top) /\ Len(f.dir) \in Nat
  BY <1>4 DEF ListsOf
<1>6. CASE c.name = NoName
  <2>1. k = 1
    BY <1>1, <1>3, <1>6 DEF CallsInv
  <2>2. path = top
    BY <2>1, <1>3, <1>6, PathOfCall
  <2> HIDE DEF path
  <2> QED
    BY <2>2, <1>5
<1>7. CASE c.name # NoName
  <2>1. c.name \in Names /\ c.dir \in Seq(Names) /\ path = Append(c.dir, c.name)
    BY <1>3, <1>7, PathOfCall DEF CallRecords
  <2>2. c.dir = f.dir /\ c.name = f.names[f.i]
    <3>1. Append(c.dir, c.name) = Append(f.dir, f.names[f.i])
      BY <2>1
    <3>2. PICK n \in Names : n = f.names[f.i]
      BY <1>4
    <3>3. c.dir \in Seq(Names) /\ f.dir \in Seq(Names) /\ c.name \in Names
      BY <1>4, <2>1
    <3>4. Append(c.dir, c.name) = Append(f.dir, n)
      BY <3>1, <3>2
    <3> HIDE DEF path
    <3>5. c.dir = f.dir /\ c.name = n
      BY <3>3, <3>4
    <3> QED
      BY <3>2, <3>5
  <2>3. PICK m \in 1 .. f.i - 1 : c.name = f.names[m]
    BY <1>3, <1>7, <2>2 DEF NamesOf
  <2>4. m \in DOMAIN f.names /\ m # f.i
    BY <1>4
  <2> QED
    BY <2>2, <2>3, <2>4 DEF ListsOf
<1> QED
  BY <1>6, <1>7

LEMMA NewCallStep ==
  ASSUME CallsInv, visit_pc # "idle", NEW c \in CallRecords, calls' = Append(calls, c),
         visit_pc' = "calling", UNCHANGED <<top, before>>,
         AsItWas(c), ~ Called(PathOf(c)), Len(c.dir) >= Len(top),
         calls = <<>> => c.dir = top /\ c.name = NoName,
         calls # <<>> => c.name # NoName /\ Called(c.dir) /\ before[c.dir].kind = "dir"
  PROVE  CallsInv'
<1> DEFINE n == Len(calls) + 1
<1>1. /\ calls' \in Seq(CallRecords) /\ calls' # <<>> /\ Len(calls) \in Nat
      /\ DOMAIN calls' = 1 .. n /\ DOMAIN calls = 1 .. Len(calls)
      /\ calls'[n] = c /\ \A i \in DOMAIN calls : calls'[i] = calls[i]
  BY DEF CallsInv
<1>2. \A i \in DOMAIN calls' : i \in DOMAIN calls \/ i = n
  BY <1>1
<1>3. ASSUME NEW i \in DOMAIN calls', NEW j \in DOMAIN calls', PathOf(calls'[i]) = PathOf(calls'[j])
      PROVE  i = j
  BY <1>1, <1>2, <1>3 DEF CallsInv, OncePerFile, Called
<1>4. ASSUME NEW i \in DOMAIN calls'
      PROVE  /\ i = 1 => calls'[i].dir = top /\ calls'[i].name = NoName
             /\ i > 1 => calls'[i].name # NoName
             /\ i > 1 => \E j \in 1 .. i - 1 : PathOf(calls'[j]) = calls'[i].dir /\ calls'[j].kind = "dir"
  <2>1. CASE i \in DOMAIN calls
    <3>1. \A j \in 1 .. i - 1 : j \in DOMAIN calls
      BY <2>1, <1>1
    <3>2. i > 1 => \E j \in 1 .. i - 1 : PathOf(calls[j]) = calls[i].dir /\ calls[j].kind = "dir"
      BY <2>1 DEF CallsInv, OncePerFile
    <3>3. i > 1 => \E j \in 1 .. i - 1 : PathOf(calls'[j]) = calls'[i].dir /\ calls'[j].kind = "dir"
      BY <2>1, <3>1, <3>2, <1>1
    <3> QED
      BY <2>1, <3>3, <1>1 DEF CallsInv, OncePerFile
  <2>2. CASE i = n /\ calls = <<>>
    <3>1. n = 1
      BY <2>2
    <3> QED
      BY <2>2, <3>1, <1>1
  <2>3. CASE i = n /\ calls # <<>>
    <3>1. PICK j \in DOMAIN calls : PathOf(calls[j]) = c.dir
      BY <2>3 DEF Called
    <3>2. AsItWas(calls[j])
      BY DEF CallsInv, Range
    <3>3. calls[j].kind = "dir"
      BY <2>3, <3>1, <3>2 DEF AsItWas
    <3>4. j \in 1 .. i - 1 /\ i > 1
      BY <2>3, <1>1
    <3> QED
      BY <2>3, <3>1, <3>3, <3>4, <1>1
  <2> QED
    BY <1>2, <2>1, <2>2, <2>3
<1>5. OncePerFile'
  BY <1>3, <1>4 DEF OncePerFile
<1>6. \A d \in Range(calls)' : d \in Range(calls) \/ d = c
  BY <1>1, <1>2 DEF Range
<1>7. \A d \in Range(calls)' : Len(d.dir) >= Len(top)' /\ AsItWas(d)'
  <2>1. \A d \in Range(calls) : Len(d.dir) >= Len(top) /\ AsItWas(d)
    BY DEF CallsInv
  <2> QED
    BY <1>6, <2>1 DEF AsItWas
<1>8. top' \in Seq(Names)
  BY DEF CallsInv
<1> QED
  BY <1>1, <1>4, <1>5, <1>7, <1>8 DEF CallsInv

LEMMA WithHead ==
  ASSUME NEW X, NEW s \in Seq(X), NEW g \in X
  PROVE  /\ <<g>> \o s \in Seq(X) /\ Len(<<g>> \o s) = Len(s) + 1 /\ (<<g>> \o s)[1] = g
         /\ \A k \in 1 .. Len(s) : (<<g>> \o s)[k + 1] = s[k]
         /\ <<g>> \o s # <<>>
OBVIOUS

LEMMA WithoutHead ==
  ASSUME NEW X, NEW s \in Seq(X), s # <<>>
  PROVE  /\ Head(s) = s[1] /\ Tail(s) \in Seq(X) /\ Len(Tail(s)) = Len(s) - 1 /\ Len(s) >= 1
         /\ \A k \in 1 .. Len(s) - 1 : Tail(s)[k] = s[k + 1]
OBVIOUS

LEMMA ListsKept ==
  ASSUME NEW f, ListsOf(f), UNCHANGED <<top, before>>
  PROVE  ListsOf(f)'
BY DEF ListsOf, Blocks

LEMMA NamesKept ==
  ASSUME NEW f, NamesOf(f), UNCHANGED calls, DOMAIN tree' \subseteq DOMAIN tree
  PROVE  NamesOf(f)'
BY DEF NamesOf, Called

LEMMA VisitTopStep ==
  ASSUME WalkInv, VisitTop, UNCHANGED windowsVars
  PROVE  CallsInv' /\ StackInv' /\ CompleteInv'
<1> DEFINE c == [dir |-> top, name |-> NoName, kind |-> tree[top].kind, xattrs |-> tree[top].xattrs]
<1>1. /\ calls = <<>> /\ stack = <<>> /\ top \in Seq(Names) /\ visit_pc = "top"
      /\ calls' = Append(calls, c) /\ visit_pc' = "calling" /\ UNCHANGED <<top, before, stack>>
      /\ top \in DOMAIN tree /\ tree[top].xattrs # Unreadable
  BY DEF VisitTop, CallVisitor, WalkInv, CallsInv
<1>2. tree[top] \in [kind : {"dir", "file", "symlink"}, xattrs : Seq(Attributes) \cup {Unreadable}]
  <2>1. TreeOK(tree)
    BY NowTree DEF WalkInv
  <2> QED
    BY <1>1, <2>1 DEF TreeOK
<1>3. c \in CallRecords
  BY <1>1, <1>2 DEF CallRecords
<1>4. PathOf(c) = top
  BY DEF PathOf
<1>5. AsItWas(c)
  <2>1. top \in DOMAIN before /\ before[top] = tree[top]
    BY <1>1 DEF WalkInv, TreeInv
  <2>2. tree[top] = [kind |-> c.kind, xattrs |-> c.xattrs]
    BY <1>2
  <2> QED
    BY <1>4, <2>1, <2>2 DEF AsItWas
<1>6. ~ Called(PathOf(c)) /\ c.dir = top /\ c.name = NoName /\ Len(c.dir) >= Len(top)
  <2>1. DOMAIN calls = {}
    BY <1>1
  <2> QED
    BY <1>1, <2>1 DEF Called
<1> HIDE DEF c
<1>7. CallsInv'
  BY <1>1, <1>3, <1>5, <1>6, NewCallStep DEF WalkInv
<1>8. calls' = <<c>> /\ Len(calls') = 1 /\ Last(calls') = c /\ DOMAIN calls' = {1} /\ calls'[1] = c
  BY <1>1 DEF Last
<1>9. StackInv'
  <2>1. Range(stack)' = {} /\ DOMAIN stack' = {} /\ stack' \in Seq(Frames)
    BY <1>1 DEF Range
  <2> QED
    BY <1>1, <1>8, <2>1 DEF StackInv, CalledFor
<1>10. CompleteInv'
  <2>1. SUFFICES ASSUME NEW dir, Called(dir)'
                 PROVE  InHand(dir)'
    BY DEF CompleteInv
  <2>2. PathOf(c) = dir
    BY <1>8, <2>1 DEF Called
  <2> QED
    BY <1>1, <1>8, <2>2 DEF InHand
<1> QED
  BY <1>7, <1>9, <1>10

(* The call of the visitor for an entry of the innermost directory.          *)
LEMMA EntryFacts ==
  ASSUME WalkInv, VisitEntry, NEW f, f = stack[1]
  PROVE  LET name == f.names[f.i]
             path == Append(f.dir, name)
             c    == [dir |-> f.dir, name |-> name, kind |-> f.stats[f.i],
                      xattrs |-> before[path].xattrs]
             next == [f EXCEPT !.i = f.i + 1,
                               !.xattrp = Len(FlattenSeq(SubSeq(Blocks(f.dir, f.names), 1, f.i))) + 1]
         IN  /\ f \in Frames /\ f \in Range(stack) /\ ListsOf(f) /\ NamesOf(f)
             /\ f.i \in DOMAIN f.names /\ f.i \in Nat /\ visit_pc = "next" /\ failure = "none"
             /\ stack # <<>> /\ calls # <<>>
             /\ calls' = Append(calls, c) /\ visit_pc' = "calling"
             /\ stack' = <<next>> \o Tail(stack)
             /\ UNCHANGED <<appliance, caller, top, ret, exn, outcome, before, failure>>
             /\ name \in Names /\ c \in CallRecords /\ PathOf(c) = path /\ AsItWas(c) /\ ~Called(path)
<1> DEFINE name == f.names[f.i]
           path == Append(f.dir, name)
           c    == [dir |-> f.dir, name |-> name, kind |-> f.stats[f.i],
                    xattrs |-> before[path].xattrs]
           next == [f EXCEPT !.i = f.i + 1,
                             !.xattrp = Len(FlattenSeq(SubSeq(Blocks(f.dir, f.names), 1, f.i))) + 1]
           n    == f.xattrs[f.xattrp].attrval
<1>1. /\ visit_pc = "next" /\ failure = "none" /\ stack # <<>> /\ stack \in Seq(Frames) /\ calls # <<>>
      /\ TreeOK(before)
  BY DEF VisitEntry, WalkInv, FailureInv, FailureReported, StackInv, CallsInv, TreeInv
<1>2. Head(stack) = f /\ f \in Frames /\ f \in Range(stack) /\ 1 \in DOMAIN stack
  BY <1>1 DEF Range
<1>3. ListsOf(f) /\ NamesOf(f)
  BY <1>2 DEF WalkInv, StackInv
<1>4. f.i \in DOMAIN f.names /\ f.i \in Nat /\ name \in Names /\ f.dir \in Seq(Names)
  <2>1. f.i <= Len(f.names)
    BY <1>2 DEF VisitEntry
  <2>2. f.names \in Seq(Names) /\ f.i \in Nat /\ f.dir \in Seq(Names)
    BY <1>2 DEF Frames
  <2>3. f.i >= 1
    BY <1>3, <2>2 DEF NamesOf
  <2> QED
    BY <2>1, <2>2, <2>3
<1>5. /\ n # Unreadable
      /\ calls' = Append(calls, [dir |-> f.dir, name |-> name, kind |-> f.stats[f.i],
                                 xattrs |-> SubSeq(f.xattrs, f.xattrp + 1, f.xattrp + n)])
      /\ visit_pc' = "calling"
      /\ stack' = <<[f EXCEPT !.i = f.i + 1, !.xattrp = f.xattrp + n + 1]>> \o Tail(stack)
      /\ UNCHANGED <<appliance, caller, top, ret, exn, outcome, before, failure>>
  BY <1>2 DEF VisitEntry, CallVisitor
<1>6. /\ before[path].xattrs \in Seq(Attributes)
      /\ SubSeq(f.xattrs, f.xattrp + 1, f.xattrp + n) = before[path].xattrs
      /\ f.xattrp + n + 1 = Len(FlattenSeq(SubSeq(Blocks(f.dir, f.names), 1, f.i))) + 1
  BY <1>1, <1>2, <1>3, <1>4, <1>5, CutsBlock
<1>7. calls' = Append(calls, c) /\ stack' = <<next>> \o Tail(stack)
  <2> HIDE DEF n
  <2> QED
    BY <1>5, <1>6
<1>8. path \in DOMAIN before /\ before[path].kind = f.stats[f.i]
  BY <1>3, <1>4 DEF ListsOf
<1>9. before[path] \in [kind : {"dir", "file", "symlink"}, xattrs : Seq(Attributes) \cup {Unreadable}]
  BY <1>1, <1>8 DEF TreeOK
<1>10. c \in CallRecords
  BY <1>4, <1>6, <1>8, <1>9 DEF CallRecords
<1>11. PathOf(c) = path
  BY <1>4, VisitAssumption DEF PathOf
<1>12. AsItWas(c)
  BY <1>8, <1>9, <1>11 DEF AsItWas
<1>13. ~Called(path)
  BY <1>2, <1>3, <1>4, NewCall DEF WalkInv
<1> QED
  BY <1>1, <1>2, <1>3, <1>4, <1>5, <1>7, <1>10, <1>11, <1>12, <1>13

LEMMA VisitEntryStep ==
  ASSUME WalkInv, VisitEntry, UNCHANGED windowsVars
  PROVE  CallsInv' /\ StackInv' /\ CompleteInv'
<1>1. PICK f : f = stack[1]
  OBVIOUS
<1>a. PICK name, xp :
        /\ name = f.names[f.i]
        /\ xp = Len(FlattenSeq(SubSeq(Blocks(f.dir, f.names), 1, f.i))) + 1
  OBVIOUS
<1>b. PICK path : path = Append(f.dir, name)
  OBVIOUS
<1>2. PICK c, g :
        /\ c = [dir |-> f.dir, name |-> name, kind |-> f.stats[f.i], xattrs |-> before[path].xattrs]
        /\ g = [f EXCEPT !.i = f.i + 1, !.xattrp = xp]
  OBVIOUS
<1>3. /\ f \in Frames /\ f \in Range(stack) /\ ListsOf(f) /\ NamesOf(f)
      /\ f.i \in DOMAIN f.names /\ f.i \in Nat /\ visit_pc = "next" /\ failure = "none"
      /\ stack # <<>> /\ calls # <<>>
      /\ calls' = Append(calls, c) /\ visit_pc' = "calling"
      /\ stack' = <<g>> \o Tail(stack)
      /\ UNCHANGED <<appliance, caller, top, ret, exn, outcome, before, failure>>
      /\ name \in Names /\ c \in CallRecords /\ PathOf(c) = path /\ AsItWas(c) /\ ~Called(path)
  BY <1>1, <1>a, <1>b, <1>2, EntryFacts
<1>4. stack \in Seq(Frames) /\ calls \in Seq(CallRecords)
  BY DEF WalkInv, StackInv, CallsInv
<1>5. c.dir = f.dir /\ c.name = name /\ name # NoName
  BY <1>2, <1>3, VisitAssumption
<1>6. CallsInv'
  <2>1. Called(c.dir) /\ before[c.dir].kind = "dir" /\ Len(c.dir) >= Len(top)
    BY <1>3, <1>5 DEF ListsOf, NamesOf
  <2> QED
    BY <1>3, <1>5, <2>1, NewCallStep DEF WalkInv
<1>7. /\ g \in Frames /\ g.dir = f.dir /\ g.names = f.names /\ g.stats = f.stats
      /\ g.xattrs = f.xattrs /\ g.i = f.i + 1 /\ g.xattrp = xp
  <2>1. xp \in Nat
    <3>1. FlattenSeq(SubSeq(Blocks(f.dir, f.names), 1, f.i)) \in Seq(Elements)
      <4>1. f.i \in 0 .. Len(f.names)
        BY <1>3 DEF Frames
      <4>2. f.names \in Seq(Names) /\ \A m \in DOMAIN f.names : Append(f.dir, f.names[m]) \in DOMAIN before
        BY <1>3 DEF Frames, ListsOf
      <4>3. TreeOK(before)
        BY <1>3 DEF WalkInv, TreeInv
      <4> QED
        BY <4>1, <4>2, <4>3, BlocksTyped
    <3> QED
      BY <1>a, <3>1
  <2>2. f \in Frames /\ f.i + 1 \in Nat
    BY <1>3
  <2>3. g \in Frames
    BY <1>2, <2>1, <2>2 DEF Frames
  <2>4. g.dir = f.dir /\ g.names = f.names /\ g.stats = f.stats /\ g.xattrs = f.xattrs
    BY <1>2, <2>2 DEF Frames
  <2>5. g.i = f.i + 1 /\ g.xattrp = xp
    BY <1>2, <2>2 DEF Frames
  <2> QED
    BY <2>3, <2>4, <2>5
<1>8. /\ stack' \in Seq(Frames) /\ Len(stack') = Len(stack) /\ stack'[1] = g /\ Len(stack) \in Nat
      /\ stack' # <<>> /\ DOMAIN stack = 1 .. Len(stack) /\ DOMAIN stack' = 1 .. Len(stack)
      /\ \A k \in 2 .. Len(stack) : stack'[k] = stack[k]
  <2>1. PICK t : t = Tail(stack)
    OBVIOUS
  <2>2. /\ t \in Seq(Frames) /\ Len(t) = Len(stack) - 1 /\ Len(stack) >= 1
        /\ \A k \in 1 .. Len(stack) - 1 : t[k] = stack[k + 1]
    BY <1>3, <1>4, <2>1, WithoutHead
  <2>3. /\ stack' \in Seq(Frames) /\ Len(stack') = Len(t) + 1 /\ stack'[1] = g /\ stack' # <<>>
        /\ \A k \in 1 .. Len(t) : stack'[k + 1] = t[k]
    BY <1>3, <1>7, <2>1, <2>2, WithHead
  <2>4. ASSUME NEW k \in 2 .. Len(stack)
        PROVE  stack'[k] = stack[k]
    <3>1. k - 1 \in 1 .. Len(t) /\ (k - 1) + 1 = k /\ k - 1 \in 1 .. Len(stack) - 1
      BY <2>2, <1>4
    <3>2. stack'[(k - 1) + 1] = t[k - 1] /\ t[k - 1] = stack[(k - 1) + 1]
      BY <2>2, <2>3, <3>1
    <3> QED
      BY <3>1, <3>2
  <2> QED
    BY <1>4, <2>2, <2>3, <2>4
<1>9. /\ calls' \in Seq(CallRecords) /\ calls' # <<>> /\ Len(calls) \in Nat
      /\ Len(calls') = Len(calls) + 1
      /\ DOMAIN calls' = 1 .. Len(calls) + 1 /\ DOMAIN calls = 1 .. Len(calls)
      /\ calls'[Len(calls) + 1] = c /\ \A i \in DOMAIN calls : calls'[i] = calls[i]
  BY <1>3, <1>4
<1>c. \A i \in DOMAIN calls' : i \in DOMAIN calls \/ i = Len(calls) + 1
  BY <1>9
<1>d. /\ tree' = tree /\ Last(calls)' = c
      /\ \A d \in Range(calls)' : d \in Range(calls) \/ d = c
  BY <1>3, <1>9, <1>c DEF tree, appliance, Range, Last
<1>e. ASSUME NEW p
      PROVE  /\ Called(p)' => Called(p) \/ p = path
             /\ Called(p) => Called(p)'
             /\ p = path => Called(p)'
  <2>1. Called(p)' => Called(p) \/ p = path
    BY <1>3, <1>9, <1>c DEF Called
  <2>2. Called(p) => Called(p)'
    BY <1>9 DEF Called
  <2>3. Called(path)'
    <3>1. Len(calls) + 1 \in DOMAIN calls'
      BY <1>9
    <3>2. PathOf(calls'[Len(calls) + 1]) = path
      BY <1>3, <1>9
    <3> QED
      BY <3>1, <3>2 DEF Called
  <2> QED
    BY <2>1, <2>2, <2>3
<1>10. ListsOf(g)' /\ NamesOf(g)'
  <2>1. ListsOf(g)'
    <3>1. (g.i - 1) = f.i
      BY <1>3, <1>7
    <3>2. g.xattrp = Len(FlattenSeq(SubSeq(Blocks(g.dir, g.names), 1, g.i - 1))) + 1
      BY <1>a, <1>7, <3>1
    <3>3. ListsOf(g)
      BY <1>3, <1>7, <3>2 DEF ListsOf
    <3> QED
      BY <1>3, <3>3, ListsKept
  <2>2. \A m \in 1 .. g.i - 1 : m \in 1 .. f.i - 1 \/ m = f.i
    BY <1>3, <1>7
  <2>3. \A m \in 1 .. f.i - 1 : m \in 1 .. g.i - 1
    BY <1>3, <1>7
  <2>4. f.i \in 1 .. g.i - 1 /\ g.i \in 1 .. Len(g.names) + 1
    <3>1. f.names \in Seq(Names)
      BY <1>3 DEF Frames
    <3> QED
      BY <1>3, <1>7, <3>1
  <2>5. \A d \in Range(calls)' : d.dir = g.dir /\ d.name # NoName => \E m \in 1 .. g.i - 1 : d.name = g.names[m]
    BY <1>3, <1>a, <1>5, <1>7, <1>d, <2>3, <2>4 DEF NamesOf
  <2>6. \A m \in 1 .. g.i - 1 : Called(Append(g.dir, g.names[m]))'
    <3> TAKE m \in 1 .. g.i - 1
    <3>1. PICK q : q = Append(f.dir, f.names[m])
      OBVIOUS
    <3>2. Called(q) \/ q = path
      BY <1>3, <1>a, <1>b, <2>2, <3>1 DEF NamesOf
    <3>3. Called(q)'
      BY <1>e, <3>2
    <3> QED
      BY <1>7, <3>1, <3>3
  <2>7. Called(g.dir)'
    BY <1>3, <1>7, <1>e DEF NamesOf
  <2>8. \A n \in Names : Append(g.dir, n) \in DOMAIN tree' => \E m \in DOMAIN g.names : n = g.names[m]
    BY <1>3, <1>7, <1>d DEF NamesOf
  <2> QED
    BY <2>1, <2>4, <2>5, <2>6, <2>7, <2>8 DEF NamesOf
(* The frames below are of other directories.                                *)
<1>11. ASSUME NEW k \in 2 .. Len(stack), NEW h, h = stack[k]
       PROVE  ListsOf(h)' /\ NamesOf(h)'
  <2>1. k \in DOMAIN stack /\ 1 \in DOMAIN stack /\ 1 < k /\ h \in Range(stack) /\ h \in Frames
    BY <1>4, <1>8, <1>11 DEF Range
  <2>2. ListsOf(h) /\ NamesOf(h) /\ Len(h.dir) < Len(f.dir)
    BY <1>1, <1>11, <2>1 DEF WalkInv, StackInv
  <2>3. h.dir # f.dir
    <3>1. f.dir \in Seq(Names) /\ h.dir \in Seq(Names)
      BY <1>3, <2>1 DEF Frames
    <3> QED
      BY <2>2, <3>1
  <2>4. ListsOf(h)'
    BY <1>3, <2>2, ListsKept
  <2>5. \A d \in Range(calls)' : d.dir = h.dir /\ d.name # NoName => \E m \in 1 .. h.i - 1 : d.name = h.names[m]
    BY <1>5, <1>d, <2>2, <2>3 DEF NamesOf
  <2>6. \A m \in 1 .. h.i - 1 : Called(Append(h.dir, h.names[m]))'
    BY <1>e, <2>2 DEF NamesOf
  <2>7. Called(h.dir)'
    BY <1>e, <2>2 DEF NamesOf
  <2> QED
    BY <1>d, <2>2, <2>4, <2>5, <2>6, <2>7 DEF NamesOf
<1>12. StackInv'
  <2>1. \A h \in Range(stack)' : ListsOf(h)' /\ NamesOf(h)'
    <3> TAKE h \in Range(stack)'
    <3>1. PICK k \in 1 .. Len(stack) : h = stack'[k]
      BY <1>8 DEF Range
    <3>2. k = 1 \/ (k \in 2 .. Len(stack) /\ h = stack[k])
      BY <1>8, <3>1
    <3> QED
      BY <1>8, <1>10, <1>11, <3>1, <3>2
  <2>2. \A k \in DOMAIN stack' : stack'[k].dir = stack[k].dir /\ (k > 1 => stack'[k] = stack[k])
    BY <1>1, <1>7, <1>8
  <2>3. \A k \in DOMAIN stack' : k > 1 =>
          /\ stack'[k].i > 1
          /\ stack'[k - 1].dir = Append(stack'[k].dir, stack'[k].names[stack'[k].i - 1])
    <3> TAKE k \in DOMAIN stack'
    <3>1. k > 1 => k \in DOMAIN stack /\ k - 1 \in DOMAIN stack'
      BY <1>8
    <3> QED
      BY <2>2, <3>1 DEF WalkInv, StackInv
  <2>4. \A j, k \in DOMAIN stack' : j < k => Len(stack'[k].dir) < Len(stack'[j].dir)
    BY <1>8, <2>2 DEF WalkInv, StackInv
  <2>5. CalledFor'
    <3>1. stack'[1].i > 1 /\ Last(calls)'.name # NoName
      <4>1. f.i > 0
        BY <1>3 DEF Frames
      <4>2. g.i > 1
        BY <1>3, <1>7, <4>1
      <4> QED
        BY <1>5, <1>8, <1>d, <4>2
    <3>2. Last(calls)'.dir = stack'[1].dir /\ Last(calls)'.name = stack'[1].names[stack'[1].i - 1]
      <4>1. g.i - 1 = f.i
        BY <1>3, <1>7
      <4> QED
        BY <1>a, <1>5, <1>7, <1>8, <1>d, <4>1
    <3> QED
      BY <1>8, <1>9, <3>1, <3>2 DEF CalledFor
  <2> QED
    BY <1>3, <1>8, <2>1, <2>3, <2>4, <2>5 DEF StackInv
<1>13. CompleteInv'
  <2>1. SUFFICES ASSUME NEW dir \in DOMAIN before, Called(dir)', before[dir].kind = "dir"
                 PROVE  Complete(dir)' \/ InHand(dir)'
    BY <1>3 DEF CompleteInv
  <2>2. CASE dir = path
    BY <1>3, <1>d, <2>2 DEF InHand
  <2>3. CASE Called(dir)
    <3>1. Complete(dir) \/ InHand(dir)
      BY <1>3, <2>1, <2>3 DEF WalkInv, CompleteInv
    <3>2. Complete(dir) => Complete(dir)'
      BY <1>d, <1>e DEF Complete
    <3>3. InHand(dir) => InHand(dir)'
      <4>1. \A k \in DOMAIN stack : k \in DOMAIN stack' /\ stack'[k].dir = stack[k].dir
        BY <1>1, <1>7, <1>8
      <4> QED
        BY <1>3, <4>1 DEF InHand, Range
    <3> QED
      BY <3>1, <3>2, <3>3
  <2> QED
    BY <1>e, <2>1, <2>2, <2>3
<1> QED
  BY <1>6, <1>12, <1>13

(* A list of the entries has each of them once.                              *)
LEMMA EachNameOnce ==
  ASSUME NEW S, IsFiniteSet(S), NEW names \in SetToSeqs(S)
  PROVE  /\ names \in Seq(S)
         /\ \A m, n \in DOMAIN names : names[m] = names[n] => m = n
         /\ \A s \in S : \E m \in DOMAIN names : s = names[m]
<1> DEFINE D == 1 .. Cardinality(S)
<1>1. Cardinality(S) \in Nat
  BY FS_CardinalityType
<1>2. names \in [D -> S] /\ \A i, j \in D : i # j => names[i] # names[j]
  BY DEF SetToSeqs
<1>3. IsFiniteSet(D) /\ Cardinality(D) = Cardinality(S)
  BY <1>1, FS_Interval
<1>4. names \in Injection(D, S)
  BY <1>2 DEF Injection, IsInjective
<1>5. names \in Surjection(D, S)
  <2> HIDE DEF D
  <2> QED
    BY <1>3, <1>4, FS_Injection
<1>6. names \in Seq(S)
  BY <1>1, <1>2
<1>7. DOMAIN names = D
  BY <1>2
<1> HIDE DEF D
<1> QED
  BY <1>2, <1>5, <1>6, <1>7 DEF Surjection

(* The visitor has not been called for anything in the directory that it has *)
(* just been called for.                                                    *)
LEMMA NothingBelow ==
  ASSUME CallsInv, calls # <<>>, NEW d \in Range(calls), d.dir = PathOf(Last(calls))
  PROVE  d.name = NoName
<1> SUFFICES ASSUME d.name # NoName
             PROVE  FALSE
  OBVIOUS
<1>1. calls \in Seq(CallRecords) /\ Len(calls) \in Nat /\ Len(calls) \in DOMAIN calls
      /\ DOMAIN calls = 1 .. Len(calls)
  BY DEF CallsInv
<1>2. PICK i \in DOMAIN calls : d = calls[i]
  BY DEF Range
<1>3. i > 1
  BY <1>1, <1>2 DEF CallsInv, OncePerFile
<1>4. PICK j \in 1 .. i - 1 : PathOf(calls[j]) = d.dir
  BY <1>2, <1>3 DEF CallsInv, OncePerFile
<1>5. j \in DOMAIN calls /\ j # Len(calls)
  <2>1. i \in 1 .. Len(calls) /\ Len(calls) \in Nat
    BY <1>1
  <2>2. j \in 1 .. Len(calls) /\ j # Len(calls)
    BY <2>1
  <2> QED
    BY <1>1, <2>2
<1>6. PathOf(calls[j]) = PathOf(calls[Len(calls)])
  BY <1>4 DEF Last
<1> QED
  BY <1>1, <1>5, <1>6 DEF CallsInv, OncePerFile

(* The lists of a directory are as they should be.                           *)
LEMMA NewLists ==
  ASSUME WalkInv, visit_pc = "list", NEW dir, dir = PathOf(Last(calls)),
         dir \in DOMAIN tree, tree[dir].kind = "dir",
         NEW names \in SetToSeqs(Entries(dir)), NEW g,
         g = [dir |-> dir, names |-> names,
              stats |-> [k \in DOMAIN names |-> tree[Append(dir, names[k])].kind],
              xattrs |-> XattrList(dir, names), i |-> 1, xattrp |-> 1]
  PROVE  /\ g \in Frames /\ ListsOf(g) /\ NamesOf(g)
<1>1. /\ calls # <<>> /\ Last(calls) \in CallRecords /\ Last(calls) \in Range(calls)
      /\ Len(Last(calls).dir) >= Len(top) /\ Called(dir)
  <2>1. calls # <<>> /\ calls \in Seq(CallRecords)
    BY DEF WalkInv, StackInv, CalledFor, CallsInv
  <2>2. Len(calls) \in DOMAIN calls /\ calls[Len(calls)] \in CallRecords
    BY <2>1
  <2> QED
    BY <2>1, <2>2 DEF Last, Range, WalkInv, CallsInv, Called
<1>2. dir \in Seq(Names) /\ Len(dir) >= Len(top)
  <2>1. Last(calls).dir \in Seq(Names) /\ top \in Seq(Names)
    BY <1>1 DEF CallRecords, WalkInv, CallsInv
  <2>2. dir \in Seq(Names)
    BY <1>1, PathOfCall
  <2>3. Len(dir) = Len(Last(calls).dir) \/ Len(dir) = Len(Last(calls).dir) + 1
    BY <1>1, PathOfCall
  <2> QED
    BY <1>1, <2>1, <2>2, <2>3
<1>3. TreeOK(before) /\ \A p \in DOMAIN tree : p \in DOMAIN before /\ tree[p] = before[p]
  BY DEF WalkInv, TreeInv
<1>4. /\ names \in Seq(Names)
      /\ \A m, n \in DOMAIN names : names[m] = names[n] => m = n
      /\ \A n \in Names : Append(dir, n) \in DOMAIN tree => \E m \in DOMAIN names : n = names[m]
      /\ \A m \in DOMAIN names : Append(dir, names[m]) \in DOMAIN tree
  <2>1. Entries(dir) \subseteq Names
    BY DEF Entries
  <2>2. IsFiniteSet(Entries(dir))
    BY <2>1, VisitAssumption, FS_Subset
  <2>3. /\ names \in Seq(Entries(dir))
        /\ \A m, n \in DOMAIN names : names[m] = names[n] => m = n
        /\ \A n \in Entries(dir) : \E m \in DOMAIN names : n = names[m]
    BY <2>2, EachNameOnce
  <2>4. names \in Seq(Names) /\ \A m \in DOMAIN names : names[m] \in Entries(dir)
    BY <2>1, <2>3, SeqMonotonic
  <2> QED
    BY <2>3, <2>4 DEF Entries
<1>5. /\ g.dir = dir /\ g.names = names /\ g.i = 1 /\ g.xattrp = 1 /\ g.xattrs = XattrList(dir, names)
      /\ g.stats = [k \in DOMAIN names |-> tree[Append(dir, names[k])].kind]
  OBVIOUS
<1>6. XattrList(dir, names) = FlattenSeq(Blocks(dir, names))
  <2>1. [k \in DOMAIN names |->
           LET x == tree[Append(dir, names[k])].xattrs
           IN  <<Header(x)>> \o (IF x = Unreadable THEN <<>> ELSE x)] = Blocks(dir, names)
    BY <1>3, <1>4 DEF Blocks, Block
  <2> QED
    BY <2>1 DEF XattrList
<1>7. /\ FlattenSeq(SubSeq(Blocks(dir, names), 1, 0)) = <<>>
      /\ FlattenSeq(Blocks(dir, names)) \in Seq(Elements)
  <2>1. \A m \in DOMAIN names : Append(dir, names[m]) \in DOMAIN before
    BY <1>3, <1>4
  <2>2. PICK b : b = Blocks(dir, names)
    OBVIOUS
  <2>3. b \in Seq(Seq(Elements)) /\ Len(b) \in 0 .. Len(b)
    BY <1>3, <1>4, <2>1, <2>2, BlocksTyped
  <2>4. FlattenSeq(SubSeq(b, 1, 0)) = <<>> /\ FlattenSeq(b) \in Seq(Elements)
    BY <2>3, Flatten
  <2> QED
    BY <2>2, <2>4
<1>8. g.stats \in Seq({"dir", "file", "symlink"})
  <2>1. \A k \in DOMAIN names : tree[Append(dir, names[k])].kind \in {"dir", "file", "symlink"}
    BY <1>3, <1>4 DEF TreeOK
  <2>2. DOMAIN names = 1 .. Len(names) /\ Len(names) \in Nat
    BY <1>4
  <2> QED
    BY <1>5, <2>1, <2>2
<1>9. g \in Frames
  BY <1>2, <1>4, <1>5, <1>6, <1>7, <1>8 DEF Frames
<1>10. ListsOf(g)
  <2>1. dir \in DOMAIN before /\ before[dir].kind = "dir"
    BY <1>3
  <2>2. \A m \in DOMAIN names :
          Append(dir, names[m]) \in DOMAIN before /\ before[Append(dir, names[m])].kind = g.stats[m]
    BY <1>3, <1>4, <1>5
  <2>3. 1 = Len(FlattenSeq(SubSeq(Blocks(dir, names), 1, 1 - 1))) + 1
    BY <1>7
  <2> QED
    BY <1>2, <1>4, <1>5, <1>6, <2>1, <2>2, <2>3 DEF ListsOf
<1>11. NamesOf(g)
  <2>1. \A d \in Range(calls) : ~ (d.dir = dir /\ d.name # NoName)
    BY <1>1, NothingBelow DEF WalkInv
  <2>2. 1 \in 1 .. Len(names) + 1 /\ 1 .. 1 - 1 = {}
    BY <1>4
  <2> QED
    BY <1>1, <1>4, <1>5, <2>1, <2>2 DEF NamesOf
<1> QED
  BY <1>9, <1>10, <1>11

LEMMA ListDirStep ==
  ASSUME WalkInv, ListDir, UNCHANGED windowsVars
  PROVE  CallsInv' /\ StackInv' /\ CompleteInv'
<1>1. PICK dir : dir = PathOf(Last(calls))
  OBVIOUS
<1>2. PICK names \in SetToSeqs(Entries(dir)) :
        stack' = <<[dir |-> dir, names |-> names,
                    stats |-> [k \in DOMAIN names |-> tree[Append(dir, names[k])].kind],
                    xattrs |-> XattrList(dir, names), i |-> 1, xattrp |-> 1]>> \o stack
  BY <1>1 DEF ListDir
<1>3. PICK g : g = [dir |-> dir, names |-> names,
                    stats |-> [k \in DOMAIN names |-> tree[Append(dir, names[k])].kind],
                    xattrs |-> XattrList(dir, names), i |-> 1, xattrp |-> 1]
  OBVIOUS
<1>4. /\ visit_pc = "list" /\ visit_pc' = "next" /\ dir \in DOMAIN tree /\ tree[dir].kind = "dir"
      /\ UNCHANGED <<appliance, top, before, calls, failure>> /\ g.dir = dir
  BY <1>1, <1>3 DEF ListDir
<1>5. g \in Frames /\ ListsOf(g) /\ NamesOf(g)
  BY <1>1, <1>3, <1>4, NewLists
<1>6. tree' = tree
  BY <1>4 DEF tree, appliance
<1>7. /\ stack \in Seq(Frames) /\ stack' \in Seq(Frames) /\ Len(stack') = Len(stack) + 1
      /\ stack'[1] = g /\ stack' # <<>> /\ Len(stack) \in Nat
      /\ DOMAIN stack = 1 .. Len(stack) /\ DOMAIN stack' = 1 .. Len(stack) + 1
      /\ \A k \in DOMAIN stack : stack'[k + 1] = stack[k]
  <2>1. stack \in Seq(Frames)
    BY DEF WalkInv, StackInv
  <2>2. stack' = <<g>> \o stack
    BY <1>2, <1>3
  <2> QED
    BY <2>1, <2>2, <1>5, WithHead
<1>8. \A k \in DOMAIN stack' : k = 1 \/ (k - 1 \in DOMAIN stack /\ stack'[k] = stack[k - 1])
  <2> TAKE k \in DOMAIN stack'
  <2>1. k # 1 => k - 1 \in DOMAIN stack /\ (k - 1) + 1 = k
    BY <1>7
  <2>2. k # 1 => stack'[(k - 1) + 1] = stack[k - 1]
    BY <1>7, <2>1
  <2> QED
    BY <2>1, <2>2
<1>9. CallsInv'
  <2>1. CallsInv /\ calls # <<>>
    BY <1>4 DEF WalkInv, StackInv, CalledFor
  <2>2. \A c \in Range(calls)' : Len(c.dir) >= Len(top)' /\ AsItWas(c)'
    BY <1>4, <2>1 DEF CallsInv, AsItWas
  <2>3. OncePerFile'
    BY <1>4, <2>1 DEF CallsInv, OncePerFile
  <2> QED
    BY <1>4, <2>1, <2>2, <2>3 DEF CallsInv
<1>10. stack # <<>> => /\ stack[1].i > 1
                       /\ dir = Append(stack[1].dir, stack[1].names[stack[1].i - 1])
                       /\ Len(stack[1].dir) < Len(dir)
  <2> SUFFICES ASSUME stack # <<>>
               PROVE  /\ stack[1].i > 1
                      /\ dir = Append(stack[1].dir, stack[1].names[stack[1].i - 1])
                      /\ Len(stack[1].dir) < Len(dir)
    OBVIOUS
  <2>1. PICK d : d = Last(calls)
    OBVIOUS
  <2>2. /\ calls # <<>> /\ calls \in Seq(CallRecords) /\ stack[1].i > 1 /\ d.name # NoName
        /\ d.dir = stack[1].dir /\ d.name = stack[1].names[stack[1].i - 1]
    BY <1>4, <2>1 DEF WalkInv, CallsInv, StackInv, CalledFor
  <2>3. d \in CallRecords
    BY <2>1, <2>2 DEF Last
  <2>4. dir = Append(d.dir, d.name) /\ Len(dir) = Len(d.dir) + 1 /\ d.dir \in Seq(Names)
    BY <1>1, <2>1, <2>2, <2>3, PathOfCall DEF CallRecords
  <2> QED
    BY <2>2, <2>4
<1>11. StackInv'
  <2>1. \A h \in Range(stack)' : ListsOf(h)' /\ NamesOf(h)'
    <3> TAKE h \in Range(stack)'
    <3>1. h = g \/ h \in Range(stack)
      BY <1>7, <1>8 DEF Range
    <3>2. ListsOf(h) /\ NamesOf(h)
      BY <1>5, <3>1 DEF WalkInv, StackInv
    <3> QED
      BY <1>4, <1>6, <3>2, ListsKept, NamesKept
  <2>2. ASSUME NEW k \in DOMAIN stack', k > 1
        PROVE  /\ stack'[k].i > 1
               /\ stack'[k - 1].dir = Append(stack'[k].dir, stack'[k].names[stack'[k].i - 1])
    <3>1. CASE k = 2
      <4>1. stack'[2] = stack[1] /\ stack # <<>>
        BY <1>7, <1>8, <3>1
      <4> QED
        BY <1>4, <1>7, <1>10, <3>1, <4>1
    <3>2. CASE k > 2
      <4>1. k - 1 \in DOMAIN stack /\ stack'[k] = stack[k - 1] /\ k - 1 > 1
        BY <1>8, <2>2, <3>2, <1>7
      <4>2. (k - 1) - 1 \in DOMAIN stack /\ stack'[k - 1] = stack[(k - 1) - 1]
        <5>1. k - 1 \in DOMAIN stack' /\ k - 1 # 1
          BY <1>7, <3>2
        <5> QED
          BY <1>8, <5>1
      <4> QED
        BY <4>1, <4>2 DEF WalkInv, StackInv
    <3> QED
      BY <2>2, <1>7, <3>1, <3>2
  <2>3. ASSUME NEW j \in DOMAIN stack', NEW k \in DOMAIN stack', j < k
        PROVE  Len(stack'[k].dir) < Len(stack'[j].dir)
    <3>1. k - 1 \in DOMAIN stack /\ stack'[k] = stack[k - 1] /\ k \in Nat /\ j \in Nat
      BY <1>7, <1>8, <2>3
    <3>2. CASE j = 1
      <4>1. Len(stack[1].dir) < Len(dir) /\ 1 \in DOMAIN stack
        BY <1>7, <1>10, <3>1
      <4>2. k - 1 = 1 \/ Len(stack[k - 1].dir) < Len(stack[1].dir)
        BY <1>7, <3>1, <4>1 DEF WalkInv, StackInv
      <4>3. stack[1] \in Frames /\ stack[k - 1] \in Frames
        BY <1>7, <3>1, <4>1
      <4>4. stack[1].dir \in Seq(Names) /\ stack[k - 1].dir \in Seq(Names) /\ g.dir \in Seq(Names)
        BY <1>5, <4>3 DEF Frames
      <4> QED
        BY <1>4, <1>7, <3>1, <3>2, <4>1, <4>2, <4>4
    <3>3. CASE j # 1
      <4>1. j - 1 \in DOMAIN stack /\ stack'[j] = stack[j - 1] /\ j - 1 < k - 1
        BY <1>8, <2>3, <3>1, <3>3
      <4> QED
        BY <3>1, <4>1 DEF WalkInv, StackInv
    <3> QED
      BY <3>2, <3>3
  <2>4. CalledFor'
    BY <1>4 DEF CalledFor
  <2> QED
    BY <1>7, <2>1, <2>2, <2>3, <2>4 DEF StackInv
<1>12. CompleteInv'
  <2>1. SUFFICES ASSUME failure = "none", NEW d \in DOMAIN before, Called(d)', before[d].kind = "dir"
                 PROVE  Complete(d)' \/ InHand(d)'
    BY <1>4 DEF CompleteInv
  <2>2. Called(d)
    BY <1>4, <2>1 DEF Called
  <2>3. Complete(d) \/ InHand(d)
    BY <2>1, <2>2 DEF WalkInv, CompleteInv
  <2>4. Complete(d) => Complete(d)'
    BY <1>4, <1>6 DEF Complete, Called
  <2>5. InHand(d) => \E h \in Range(stack)' : h.dir = d
    <3>1. g \in Range(stack)' /\ Range(stack) \subseteq Range(stack)'
      BY <1>7 DEF Range
    <3> QED
      BY <1>1, <1>4, <3>1 DEF InHand
  <2> QED
    BY <2>3, <2>4, <2>5 DEF InHand
<1> QED
  BY <1>9, <1>11, <1>12

(* The steps that neither call the visitor nor begin or end a directory.     *)
LEMMA QuietStep ==
  ASSUME WalkInv, VisitNext, UNCHANGED windowsVars, UNCHANGED <<calls, stack, top, before>>,
         visit_pc' # "idle", visit_pc' \in {"idle", "top"} => visit_pc \in {"idle", "top"},
         visit_pc = "top" => failure' # "none",
         failure' = "none" => failure = "none",
         visit_pc' = "next" => stack # <<>>,
         visit_pc' \in {"calling", "list"} => visit_pc \in {"calling", "list"},
         failure' = "none" /\ visit_pc \in {"calling", "list"} =>
           visit_pc' \in {"calling", "list"} \/ Last(calls).kind # "dir"
  PROVE  CallsInv' /\ StackInv' /\ CompleteInv'
<1>1. DOMAIN tree' \subseteq DOMAIN tree
  BY TreeSteps
<1>2. CallsInv'
  <2>1. CallsInv
    BY DEF WalkInv
  <2>2. \A c \in Range(calls)' : Len(c.dir) >= Len(top)' /\ AsItWas(c)'
    BY <2>1 DEF CallsInv, AsItWas
  <2>3. OncePerFile'
    BY <2>1 DEF CallsInv, OncePerFile
  <2>4. visit_pc # "idle" /\ visit_pc' \notin {"idle", "top"}
    BY FailureSteps
  <2>5. calls' \in Seq(CallRecords) /\ top' \in Seq(Names)
        /\ \A c \in DOMAIN calls' : c > 1 => calls'[c].name # NoName
    BY <2>1, <2>4 DEF CallsInv
  <2>6. failure' = "none" => calls' # <<>>
    BY <2>1, <2>4 DEF CallsInv
  <2> QED
    BY <2>2, <2>3, <2>4, <2>5, <2>6 DEF CallsInv
<1>3. StackInv'
  <2>1. StackInv
    BY DEF WalkInv
  <2>2. \A f \in Range(stack)' : ListsOf(f)' /\ NamesOf(f)'
    <3> TAKE f \in Range(stack)'
    <3>1. ListsOf(f) /\ NamesOf(f)
      BY <2>1 DEF StackInv
    <3> QED
      BY <1>1, <3>1, ListsKept, NamesKept
  <2>3. CalledFor'
    BY <2>1 DEF StackInv, CalledFor
  <2> QED
    BY <2>1, <2>2, <2>3 DEF StackInv
<1>4. CompleteInv'
  <2>1. SUFFICES ASSUME failure' = "none", NEW d \in DOMAIN before, Called(d)', before[d].kind = "dir"
                 PROVE  Complete(d)' \/ InHand(d)'
    BY DEF CompleteInv
  <2>2. Called(d) /\ failure = "none"
    BY <2>1 DEF Called
  <2>3. Complete(d) \/ InHand(d)
    BY <2>1, <2>2 DEF WalkInv, CompleteInv
  <2>4. Complete(d) => Complete(d)'
    BY <1>1 DEF Complete, Called
  <2>5. CASE \E f \in Range(stack) : f.dir = d
    BY <2>5 DEF InHand
  <2>6. CASE visit_pc \in {"calling", "list"} /\ PathOf(Last(calls)) = d
    <3>1. AsItWas(Last(calls))
      <4>1. calls # <<>> /\ calls \in Seq(CallRecords)
        BY <2>6 DEF WalkInv, StackInv, CalledFor, CallsInv
      <4>2. Len(calls) \in DOMAIN calls
        BY <4>1
      <4>3. Last(calls) \in Range(calls)
        BY <4>2 DEF Last, Range
      <4> QED
        BY <4>3 DEF WalkInv, CallsInv
    <3>2. Last(calls).kind = "dir"
      BY <2>1, <2>6, <3>1 DEF AsItWas
    <3>3. visit_pc' \in {"calling", "list"} /\ Last(calls)' = Last(calls)
      BY <2>1, <2>6, <3>2
    <3> QED
      BY <2>6, <3>3 DEF InHand
  <2> QED
    BY <2>3, <2>4, <2>5, <2>6 DEF InHand
<1> QED
  BY <1>2, <1>3, <1>4

(* A call of _visit returns.                                                 *)
LEMMA PopStep ==
  ASSUME WalkInv, EndDir \/ Unwind, UNCHANGED windowsVars
  PROVE  CallsInv' /\ StackInv' /\ CompleteInv'
<1>1. /\ stack # <<>> /\ stack' = Tail(stack) /\ visit_pc' = "return" /\ visit_pc \in {"next", "return"}
      /\ UNCHANGED <<appliance, top, before, calls, failure>>
      /\ failure = "none" => EndDir
  BY DEF EndDir, Unwind, WalkInv, StackInv, FailureInv
<1>2. tree' = tree
  BY <1>1 DEF tree, appliance
<1>3. CallsInv'
  <2>1. CallsInv
    BY DEF WalkInv
  <2>2. \A c \in Range(calls)' : Len(c.dir) >= Len(top)' /\ AsItWas(c)'
    BY <1>1, <2>1 DEF CallsInv, AsItWas
  <2>3. OncePerFile'
    BY <1>1, <2>1 DEF CallsInv, OncePerFile
  <2> QED
    BY <1>1, <2>1, <2>2, <2>3 DEF CallsInv
<1>4. /\ stack \in Seq(Frames) /\ stack' \in Seq(Frames) /\ Len(stack') = Len(stack) - 1
      /\ Len(stack) \in Nat /\ Len(stack) >= 1 /\ Head(stack) = stack[1]
      /\ DOMAIN stack = 1 .. Len(stack) /\ DOMAIN stack' = 1 .. Len(stack) - 1
      /\ \A k \in DOMAIN stack' : stack'[k] = stack[k + 1]
  <2>1. stack \in Seq(Frames)
    BY DEF WalkInv, StackInv
  <2> QED
    BY <1>1, <2>1, WithoutHead
<1>5. StackInv'
  <2>1. \A h \in Range(stack)' : ListsOf(h)' /\ NamesOf(h)'
    <3> TAKE h \in Range(stack)'
    <3>1. h \in Range(stack)
      BY <1>4 DEF Range
    <3>2. ListsOf(h) /\ NamesOf(h)
      BY <3>1 DEF WalkInv, StackInv
    <3> QED
      BY <1>1, <1>2, <3>2, ListsKept, NamesKept
  <2>2. ASSUME NEW k \in DOMAIN stack', k > 1
        PROVE  /\ stack'[k].i > 1
               /\ stack'[k - 1].dir = Append(stack'[k].dir, stack'[k].names[stack'[k].i - 1])
    <3>1. /\ k + 1 \in DOMAIN stack /\ k + 1 > 1 /\ k - 1 \in DOMAIN stack' /\ (k - 1) + 1 = k /\ (k + 1) - 1 = k
          /\ stack'[k] = stack[k + 1]
      BY <1>4, <2>2
    <3>2. stack'[k - 1] = stack[(k + 1) - 1]
      BY <1>4, <3>1
    <3> QED
      BY <3>1, <3>2 DEF WalkInv, StackInv
  <2>3. ASSUME NEW j \in DOMAIN stack', NEW k \in DOMAIN stack', j < k
        PROVE  Len(stack'[k].dir) < Len(stack'[j].dir)
    <3>1. k + 1 \in DOMAIN stack /\ j + 1 \in DOMAIN stack /\ j + 1 < k + 1
      BY <1>4, <2>3
    <3> QED
      BY <1>4, <3>1 DEF WalkInv, StackInv
  <2>4. CalledFor' /\ visit_pc' # "next"
    BY <1>1 DEF CalledFor
  <2> QED
    BY <1>4, <2>1, <2>2, <2>3, <2>4 DEF StackInv
(* All that was in the directory has been visited.                           *)
<1>6. CompleteInv'
  <2>1. SUFFICES ASSUME failure = "none", NEW d \in DOMAIN before, Called(d)', before[d].kind = "dir"
                 PROVE  Complete(d)' \/ InHand(d)'
    BY <1>1 DEF CompleteInv
  <2>2. Called(d)
    BY <1>1, <2>1 DEF Called
  <2>3. Complete(d) \/ \E h \in Range(stack) : h.dir = d
    BY <1>1, <2>1, <2>2 DEF WalkInv, CompleteInv, InHand
  <2>4. Complete(d) => Complete(d)'
    BY <1>1, <1>2 DEF Complete, Called
  <2>5. ASSUME NEW h \in Range(stack), h.dir = d
        PROVE  Complete(d) \/ h \in Range(stack)'
    <3>1. PICK k \in DOMAIN stack : h = stack[k]
      BY DEF Range
    <3>2. CASE k = 1
      <4>1. h.i > Len(h.names) /\ NamesOf(h) /\ h \in Frames
        BY <1>1, <1>4, <2>1, <3>1, <3>2 DEF EndDir, WalkInv, StackInv
      <4>2. h.i \in Nat /\ Len(h.names) \in Nat /\ DOMAIN h.names = 1 .. Len(h.names)
        BY <4>1 DEF Frames
      <4>3. \A m \in DOMAIN h.names : m \in 1 .. h.i - 1
        BY <4>1, <4>2
      <4> QED
        BY <2>5, <4>1, <4>3 DEF NamesOf, Complete
    <3>3. CASE k # 1
      <4>1. k - 1 \in DOMAIN stack' /\ (k - 1) + 1 = k
        BY <1>4, <3>3
      <4>2. stack'[k - 1] = h
        BY <1>4, <3>1, <4>1
      <4> QED
        BY <4>1, <4>2 DEF Range
    <3> QED
      BY <3>2, <3>3
  <2> QED
    BY <2>3, <2>4, <2>5 DEF InHand
<1> QED
  BY <1>3, <1>5, <1>6

LEMMA VisitSteps ==
  ASSUME WalkInv, VisitNext, UNCHANGED windowsVars
  PROVE  WalkInv'
<1>1. FailureInv' /\ ProgramInv' /\ WindowsInv' /\ ApplianceInv' /\ TreeInv'
      /\ visit_pc # "idle" /\ visit_pc' \notin {"idle", "top"}
      /\ UNCHANGED <<top, before>>
  BY FailureSteps, TreeSteps
<1>2. CallsInv' /\ StackInv' /\ CompleteInv'
  <2>1. CASE VisitTop
    BY <2>1, VisitTopStep
  <2>2. CASE ListDir
    BY <2>2, ListDirStep
  <2>3. CASE VisitEntry
    BY <2>3, VisitEntryStep
  <2>4. CASE EndDir \/ Unwind
    BY <2>4, PopStep
  <2>5. CASE ApplianceFails \/ EntryFails \/ VisitorFails
    <3>1. UNCHANGED <<calls, stack>> /\ visit_pc' = "return" /\ failure' # "none"
      BY <2>5 DEF ApplianceFails, EntryFails, VisitorFails, Fail
    <3> QED
      BY <1>1, <3>1, QuietStep
  <2>6. ASSUME NEW e \in Exceptions, VisitorRaises(e)
        PROVE  CallsInv' /\ StackInv' /\ CompleteInv'
    <3>1. UNCHANGED <<calls, stack>> /\ visit_pc' = "return" /\ failure' # "none"
      BY <2>6, VisitAssumption DEF VisitorRaises, Fail
    <3> QED
      BY <1>1, <3>1, QuietStep
  <2>7. CASE ContinueLoop \/ VisitReturns
    <3>1. /\ UNCHANGED <<calls, stack, failure>> /\ visit_pc = "return"
          /\ visit_pc' \in {"next", "done"} /\ (visit_pc' = "next" => stack # <<>>)
      BY <2>7 DEF ContinueLoop, VisitReturns
    <3> QED
      BY <1>1, <3>1, QuietStep
  <2>8. CASE VisitorReturns
    <3>1. /\ UNCHANGED <<calls, stack, failure>> /\ visit_pc = "calling"
          /\ \/ visit_pc' = "list"
             \/ visit_pc' = "next" /\ Last(calls).name # NoName /\ Last(calls).kind # "dir"
      BY <2>8 DEF VisitorReturns
    <3>2. stack = <<>> => Last(calls).name = NoName
      <4> SUFFICES ASSUME stack = <<>> PROVE Last(calls).name = NoName
        OBVIOUS
      <4>1. calls \in Seq(CallRecords) /\ Len(calls) = 1
        BY <3>1 DEF WalkInv, StackInv, CalledFor, CallsInv
      <4>2. 1 \in DOMAIN calls /\ Last(calls) = calls[1]
        BY <4>1 DEF Last
      <4>3. calls[1].name = NoName
        BY <4>2 DEF WalkInv, CallsInv, OncePerFile
      <4> QED
        BY <4>2, <4>3
    <3> QED
      BY <1>1, <3>1, <3>2, QuietStep
  <2>9. ASSUME NEW path \in DOMAIN tree, VisitorRemoves(path)
        PROVE  CallsInv' /\ StackInv' /\ CompleteInv'
    <3>1. UNCHANGED <<calls, stack, failure, visit_pc>> /\ visit_pc = "calling"
      BY <2>9 DEF VisitorRemoves, visitVars
    <3> QED
      BY <1>1, <3>1, QuietStep
  <2> QED
    BY <2>1, <2>2, <2>3, <2>4, <2>5, <2>6, <2>7, <2>8, <2>9 DEF VisitNext
<1> QED
  BY <1>1, <1>2 DEF WalkInv

LEMMA WalkSteps ==
  ASSUME WalkInv, Walk
  PROVE  WalkInv'
BY ResolveStep, StartVisitStep, VisitSteps DEF Walk

(* The other programs do not look at a guest.                                *)
LEMMA WalkUnchanged ==
  ASSUME WalkInv, UNCHANGED <<appliance, visitVars, windowsVars>>
  PROVE  WalkInv'
<1>1. UNCHANGED <<fs, device, readonly, caller, visit_pc, top, stack, ret, exn, outcome, before, calls, failure,
                  type, mappings, win_pc, asked_path, asked_ro, found, result>>
  BY DEF appliance, visitVars, windowsVars, inspected
<1>2. tree' = tree
  BY <1>1 DEF tree
<1>3. ApplianceInv' /\ WindowsInv' /\ FailureInv' /\ ProgramInv'
  BY <1>1 DEF WalkInv, ApplianceInv, WindowsInv, DriveAsAsked, FileAsAsked, FailureInv, FailureReported, ProgramInv, is_windows
<1>4. TreeInv'
  BY <1>1, <1>2 DEF WalkInv, TreeInv
<1>5. CallsInv'
  <2>1. \A c \in Range(calls)' : Len(c.dir) >= Len(top)' /\ AsItWas(c)'
    BY <1>1 DEF WalkInv, CallsInv, AsItWas
  <2>2. OncePerFile'
    BY <1>1 DEF WalkInv, CallsInv, OncePerFile
  <2> QED
    BY <1>1, <2>1, <2>2 DEF WalkInv, CallsInv
<1>6. StackInv'
  <2>1. \A f \in Range(stack)' : ListsOf(f)' /\ NamesOf(f)'
    <3> TAKE f \in Range(stack)'
    <3>1. ListsOf(f) /\ NamesOf(f)
      BY <1>1 DEF WalkInv, StackInv
    <3> QED
      BY <1>1, <1>2, <3>1, ListsKept, NamesKept
  <2>2. CalledFor'
    BY <1>1 DEF WalkInv, StackInv, CalledFor
  <2> QED
    BY <1>1, <2>1, <2>2 DEF WalkInv, StackInv
<1>7. CompleteInv'
  <2>1. SUFFICES ASSUME failure = "none", NEW d \in DOMAIN before, Called(d)', before[d].kind = "dir"
                 PROVE  Complete(d)' \/ InHand(d)'
    BY <1>1 DEF CompleteInv
  <2>2. Complete(d) \/ InHand(d)
    BY <1>1, <2>1 DEF WalkInv, CompleteInv, Called
  <2> QED
    BY <1>1, <1>2, <2>2 DEF Complete, InHand, Called
<1> QED
  BY <1>3, <1>4, <1>5, <1>6, <1>7 DEF WalkInv

LEMMA SamePrefix ==
  ASSUME NEW S, NEW s \in Seq(S), NEW t \in Seq(S), IsPrefix(s, t), Len(t) = Len(s)
  PROVE  t = s
<1>1. SubSeq(s, 1, Len(s)) = s /\ SubSeq(t, 1, Len(t)) = t
  BY SubSeqFull
<1> QED
  BY <1>1 DEF IsPrefix

LEMMA PrefixOfFront ==
  ASSUME NEW S, NEW s \in Seq(S), NEW t \in Seq(S), NEW n \in Nat,
         IsPrefix(s, t), Len(t) = Len(s) + (n + 1)
  PROVE  /\ Front(t) \in Seq(S) /\ Len(Front(t)) = Len(t) - 1 /\ IsPrefix(s, Front(t))
         /\ t = Append(Front(t), Last(t)) /\ Last(t) \in S
<1> PICK q : q = Front(t)
  OBVIOUS
<1>1. Len(s) \in Nat /\ Len(t) \in Nat /\ Len(t) > 0
  OBVIOUS
<1>2. q \in Seq(S) /\ Len(q) = Len(s) + n /\ \A i \in 1 .. Len(q) : q[i] = t[i]
  BY <1>1 DEF Front
<1>3. Last(t) \in S /\ Last(t) = t[Len(t)]
  BY <1>1 DEF Last
<1>4. t = Append(q, Last(t))
  <2> PICK x \in S : x = Last(t)
    BY <1>3
  <2>1. Append(q, x) \in Seq(S) /\ Len(Append(q, x)) = Len(t)
    BY <1>1, <1>2
  <2>2. \A i \in 1 .. Len(t) : Append(q, x)[i] = t[i]
    BY <1>1, <1>2, <1>3
  <2> QED
    BY <2>1, <2>2, SeqEqual
<1>5. SubSeq(q, 1, Len(s)) = SubSeq(t, 1, Len(s))
  <2>1. /\ SubSeq(q, 1, Len(s)) \in Seq(S) /\ Len(SubSeq(q, 1, Len(s))) = Len(s)
        /\ SubSeq(t, 1, Len(s)) \in Seq(S) /\ Len(SubSeq(t, 1, Len(s))) = Len(s)
    BY <1>1, <1>2
  <2>2. \A i \in 1 .. Len(s) : SubSeq(q, 1, Len(s))[i] = SubSeq(t, 1, Len(s))[i]
    BY <1>1, <1>2
  <2> QED
    BY <2>1, <2>2, SeqEqual
<1> QED
  BY <1>1, <1>2, <1>3, <1>4, <1>5 DEF IsPrefix

LEMMA VisitSafe ==
  ASSUME WalkInv
  PROVE  VisitsTheTree /\ FailureReported
<1>1. OncePerFile /\ FailureReported
  BY DEF WalkInv, CallsInv, FailureInv
<1>2. \A i \in DOMAIN calls : AsItWas(calls[i])
  BY DEF WalkInv, CallsInv, Range
<1>3. ASSUME outcome = "0"
      PROVE  NothingLeftOut
  <2>1. visit_pc = "done" /\ failure = "none" /\ stack = <<>> /\ top \in Seq(Names) /\ calls # <<>>
    <3>1. visit_pc = "done"
      BY <1>3 DEF WalkInv, FailureInv
    <3>2. failure = "none"
      BY <1>3, <3>1, VisitAssumption DEF WalkInv, FailureInv, FailureReported
    <3> QED
      BY <3>1, <3>2 DEF WalkInv, FailureInv, CallsInv
  <2>2. Called(top)
    <3>1. 1 \in DOMAIN calls
      BY <2>1 DEF WalkInv, CallsInv
    <3> QED
      BY <3>1 DEF WalkInv, CallsInv, OncePerFile, PathOf, Called
  <2>3. TreeOK(tree) /\ \A p \in DOMAIN tree : p \in DOMAIN before /\ tree[p] = before[p]
    BY <2>1, NowTree DEF WalkInv, TreeInv
  <2>4. \A d \in DOMAIN tree : Called(d) /\ tree[d].kind = "dir" => Complete(d)
    <3>1. \A d : ~ InHand(d)
      BY <2>1 DEF InHand, Range
    <3> QED
      BY <2>1, <2>3, <3>1 DEF WalkInv, CompleteInv
  <2> DEFINE T == {n \in Nat : \A p \in DOMAIN tree :
                     IsPrefix(top, p) /\ Len(p) = Len(top) + n => Called(p)}
  <2>5. 0 \in T
    <3>1. SUFFICES ASSUME NEW p \in DOMAIN tree, IsPrefix(top, p), Len(p) = Len(top) + 0
                   PROVE  p = top
      BY <2>2
    <3>2. p \in Seq(Names) /\ Len(p) = Len(top)
      BY <2>1, <2>3, <3>1 DEF TreeOK
    <3> QED
      BY <2>1, <3>1, <3>2, SamePrefix
  <2>6. ASSUME NEW n \in Nat, n \in T
        PROVE  n + 1 \in T
    <3>1. SUFFICES ASSUME NEW p \in DOMAIN tree, IsPrefix(top, p), Len(p) = Len(top) + (n + 1)
                   PROVE  Called(p)
      OBVIOUS
    <3>2. p \in Seq(Names) /\ p # <<>> /\ Front(p) \in DOMAIN tree /\ tree[Front(p)].kind = "dir"
      BY <2>1, <2>3, <3>1 DEF TreeOK
    <3>3. PICK q : q = Front(p)
      OBVIOUS
    <3>4. q \in Seq(Names) /\ Len(q) = Len(top) + n /\ IsPrefix(top, q) /\ p = Append(q, Last(p)) /\ Last(p) \in Names
      <4> HIDE DEF T
      <4>1. top \in Seq(Names) /\ p \in Seq(Names) /\ n \in Nat
        BY <2>1, <2>6, <3>2
      <4>2. q = Front(p) /\ IsPrefix(top, p) /\ Len(p) = Len(top) + (n + 1)
        BY <3>1, <3>3
      <4>3. Front(p) \in Seq(Names) /\ IsPrefix(top, Front(p)) /\ p = Append(Front(p), Last(p)) /\ Last(p) \in Names
        BY ONLY <4>1, <4>2, PrefixOfFront
      <4>4. Len(Front(p)) = Len(p) - 1
        BY ONLY <4>1, <4>2, PrefixOfFront
      <4>5. Len(top) \in Nat /\ Len(p) - 1 = Len(top) + n
        BY <4>1, <4>2
      <4> QED
        BY <4>2, <4>3, <4>4, <4>5
    <3>5. Called(q)
      BY <2>6, <3>2, <3>3, <3>4
    <3>6. Complete(q)
      BY <2>4, <3>2, <3>3, <3>5
    <3> QED
      BY <3>1, <3>4, <3>6 DEF Complete
  <2>7. Nat \subseteq T
    <3> HIDE DEF T
    <3> QED
      BY <2>5, <2>6, Induction
  <2>8. ASSUME NEW path \in DOMAIN tree, IsPrefix(top, path)
        PROVE  Called(path)
    <3>1. path \in Seq(Names)
      BY <2>3 DEF TreeOK
    <3>2. Len(path) - Len(top) \in Nat /\ Len(path) = Len(top) + (Len(path) - Len(top))
      BY <2>1, <2>8, <3>1 DEF IsPrefix
    <3>3. Len(path) - Len(top) \in T
      BY <2>7, <3>2
    <3> QED
      BY <2>8, <3>2, <3>3
  <2> QED
    BY <2>8 DEF NothingLeftOut, Called
<1> QED
  BY <1>1, <1>2, <1>3 DEF VisitsTheTree

-----------------------------------------------------------------------------
(* The theorems                                                             *)

IInv ==
  /\ activity \in {"walk", "pcre", "xml"}
  /\ WalkInv /\ PcreInv /\ XmlInv

LEMMA Starts ==
  ASSUME BindingsInit
  PROVE  IInv
<1>1. PcreInit /\ XmlInit /\ activity \in {"walk", "pcre", "xml"}
  BY DEF BindingsInit
<1> QED
  BY <1>1, WalkStarts, PcreStarts, XmlStarts DEF IInv

(* Each step is of one of the helpers.                                       *)
LEMMA Steps ==
  ASSUME IInv, [BindingsNext]_bindingsVars
  PROVE  IInv'
<1>1. activity' = activity
  BY DEF BindingsNext, bindingsVars
<1>2. WalkInv'
  <2>1. Walk \/ UNCHANGED <<appliance, visitVars, windowsVars>>
    BY DEF BindingsNext, Match, Query, bindingsVars
  <2> QED
    BY <2>1, WalkSteps, WalkUnchanged DEF IInv
<1>3. PcreInv'
  <2>1. PcreNext \/ UNCHANGED pcreVars
    BY DEF BindingsNext, Walk, Match, Query, bindingsVars
  <2> QED
    BY <2>1, PcreSteps DEF IInv
<1>4. XmlInv'
  <2>1. XmlNext \/ UNCHANGED xmlVars
    BY DEF BindingsNext, Walk, Match, Query, bindingsVars
  <2> QED
    BY <2>1, XmlSteps DEF IInv
<1> QED
  BY <1>1, <1>2, <1>3, <1>4 DEF IInv

LEMMA Typed ==
  ASSUME IInv
  PROVE  BindingsTypeOK
<1>1. /\ device \in DOMAIN fs \cup {NoDevice} /\ readonly \in BOOLEAN
      /\ win_pc \in {"idle", "letter", "umount", "mount", "case", "done", "null", "exit"}
      /\ asked_ro \in BOOLEAN
  BY DEF IInv, WalkInv, ApplianceInv, WindowsInv
<1>2. /\ caller \in {"C", "OCaml"}
      /\ visit_pc \in {"idle", "top", "calling", "list", "next", "return", "done"}
      /\ ret \in {0, -1} /\ exn \in {"unit"} \cup Exceptions
      /\ failure \in {"none", "error", "visitor"} \cup Exceptions
  BY DEF IInv, WalkInv, FailureInv
<1>3. outcome \in {"none", "0", "-1", "Failure"} \cup Exceptions
  BY DEF IInv, WalkInv, FailureInv, FailureReported
<1>4. \A i \in DOMAIN stack : stack[i].i \in 1 .. Len(stack[i].names) + 1
  BY DEF IInv, WalkInv, StackInv, NamesOf, Range
<1>5. /\ \A i \in DOMAIN stack :
           i > 1 => stack[i].i > 1 /\ stack[i - 1].dir = Append(stack[i].dir, stack[i].names[stack[i].i - 1])
      /\ visit_pc = "next" => stack # <<>>
  BY DEF IInv, WalkInv, StackInv
<1>6. /\ regexps \in [Regexps -> {"none", "live", "freed"}]
      /\ allocated \in 0 .. MaxMatches
      /\ last_match \in [Threads -> 1 .. allocated \cup {NULL}]
      /\ matched \in [Threads -> Matching \cup {NULL}]
      /\ answer # NULL => answer.to \in Threads
      /\ reading \in [t : Threads, n : 0 .. Groups + 1] \cup {NULL}
  BY DEF IInv, PcreInv, PcreTypes
<1>7. /\ objects \in Seq(Objects) /\ collections \in Nat
      /\ freed \subseteq DOMAIN objects /\ unlinked \subseteq DOMAIN objects
  BY DEF IInv, XmlInv, XmlTypes
<1>8. activity \in {"walk", "pcre", "xml"}
  BY DEF IInv
<1> QED
  BY <1>1, <1>2, <1>3, <1>4, <1>5, <1>6, <1>7, <1>8 DEF BindingsTypeOK, Objects

LEMMA Safe ==
  ASSUME IInv
  PROVE  BindingsTypeOK /\ VisitsTheTree /\ FailureReported /\ FileAsAsked /\ OwnLastMatch /\ OwnersOutlive
<1>1. FileAsAsked
  BY DEF IInv, WalkInv, WindowsInv
<1> QED
  BY <1>1, Typed, VisitSafe, PcreSafe, XmlSafe DEF IInv

THEOREM Invariance == BindingsSpec => []IInv
<1>1. BindingsInit => IInv
  BY Starts
<1>2. IInv /\ [BindingsNext]_bindingsVars => IInv'
  BY Steps
<1> QED
  BY <1>1, <1>2, PTL DEF BindingsSpec

(* Every variable has its type, and the directories that the calls of _visit *)
(* are in are each in the one before (visit.c:84).                           *)
THEOREM TypeCorrect == BindingsSpec => []BindingsTypeOK
<1>1. IInv => BindingsTypeOK
  BY Safe
<1> QED
  BY <1>1, Invariance, PTL

(* "The visitor function f is called once for every directory and every      *)
(* file" (visit.c:53), with its own type and attributes, however deep the    *)
(* tree is and whatever the visitor removes.                                 *)
THEOREM VisitCorrect == BindingsSpec => []VisitsTheTree
<1>1. IInv => VisitsTheTree
  BY Safe
<1> QED
  BY <1>1, Invariance, PTL

(* A failure at any depth ends the visit and reaches the caller, an OCaml    *)
(* visitor's exception as itself (visit.c:57, visit-c.c:73).                 *)
THEOREM FailureCorrect == BindingsSpec => []FailureReported
<1>1. IInv => FailureReported
  BY Safe
<1> QED
  BY <1>1, Invariance, PTL

(* The drive that a Windows path names is the one that is mounted in the     *)
(* end, and as asked; and the path that is returned has the names of the one *)
(* that was asked for, whatever separators it has and as many of them        *)
(* (windows.c:62).                                                           *)
THEOREM FileCorrect == BindingsSpec => []FileAsAsked
<1>1. IInv => FileAsAsked
  BY Safe
<1> QED
  BY <1>1, Invariance, PTL

(* What a thread reads with sub and subi is of its own last match, and every *)
(* structure but the threads' last ones has been freed (pcre-c.c:205).       *)
THEOREM MatchCorrect == BindingsSpec => []OwnLastMatch
<1>1. IInv => OwnLastMatch
  BY Safe
<1> QED
  BY <1>1, Invariance, PTL

(* In whatever order the collector finds values (xml-c.c:40), what is         *)
(* finalised for a value of the program and the nodes of the value's own     *)
(* document have not been freed by a finaliser; and an object is freed before *)
(* its document and before the nodes of its document that it points to.      *)
THEOREM OwnersCorrect == BindingsSpec => []OwnersOutlive
<1>1. IInv => OwnersOutlive
  BY Safe
<1> QED
  BY <1>1, Invariance, PTL
=============================================================================
