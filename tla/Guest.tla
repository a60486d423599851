------------------------------- MODULE Guest -------------------------------
(***************************************************************************)
(* The guest that virt-customize works on, as the operations of            *)
(* mlcustomize see it: what inspection has found out about it, and the     *)
(* call of libguestfs that comes next.  A call that fails raises an        *)
(* exception that nothing catches (the exceptions to this are modelled     *)
(* where they are), so that the program ends there: a failure and a kill   *)
(* are the same step, Die of Customize, possible before every call.        *)
(***************************************************************************)
EXTENDS Naturals, Sequences, FiniteSets

CONSTANT
  Guests       (* what inspection can find, and the files to begin with      *)

VARIABLES
  guest,       (* the facts of this guest; they never change                 *)
  step,        (* the next call                                              *)
  labels       (* "fresh" as long as every file has its SELinux label        *)

Call(from, to) == step = from /\ step' = to

(* A file created through libguestfs has no label.                           *)
Created == labels' = "stale"

Missing == [kind |-> "missing"]

Linux   == guest.type = "linux"
Windows == guest.type = "windows"
=============================================================================
