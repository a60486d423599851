------------------------------- MODULE Mounts -------------------------------
(***************************************************************************)
(* Mounting the guest: inspect_mount_handle and inspect_mount_root of      *)
(* options/inspect.c for -i, mount_mps of options/options.c for -m.        *)
(***************************************************************************)
EXTENDS Options

CONSTANTS
  Paths,           (* mountpoints inspection may find                        *)
  Root,            (* "/"                                                    *)
  StrLen,          (* the length of each path                                *)
  Under,           (* <<p, q>>: p is a directory below q                     *)
  Tables           (* the sets of mountpoints a guest may have               *)

MountsAssumption ==
  /\ StrLen \in [Paths -> Nat]
  /\ Under \subseteq Paths \X Paths
  /\ \A pq \in Under : StrLen[pq[1]] > StrLen[pq[2]]
  /\ Root \in Paths
  /\ \A t \in Tables : t \subseteq Paths /\ Root \in t
  /\ \A p \in Paths \ {Root} : <<p, Root>> \in Under

ASSUME MountsAssumption

VARIABLES
  ins_pc,      (* "idle", "inspecting", "mounting", "done" or "exit"         *)
  table,       (* mountpoints still to be mounted by inspect_mount_root      *)
  mount_errors,(* mountpoints that could not be mounted                      *)
  mp_pc,       (* "idle", "mounting", "done" or "exit"                       *)
  mounting,    (* the position in mps that the recursion returns from        *)
  mounts       (* what has been mounted, in order                            *)

mountsVars == <<ins_pc, table, mount_errors, mp_pc, mounting, mounts>>

MountsInit ==
  /\ ins_pc = "idle" /\ table = {} /\ mount_errors = {}
  /\ mp_pc = "idle" /\ mounting = 0
  /\ mounts = <<>>

-----------------------------------------------------------------------------
(* -i                                                                       *)

(* inspect_os fails, or finds no root or more than one; or the list of      *)
(* mountpoints cannot be read.                                              *)
InspectFails ==
  /\ ins_pc = "inspecting"
  /\ ins_pc' = "exit"
  /\ UNCHANGED <<table, mount_errors, mp_pc, mounting, mounts>>

Inspect(t) ==
  /\ ins_pc = "inspecting"
  /\ ins_pc' = "mounting"
  /\ table' = t
  /\ UNCHANGED <<mount_errors, mp_pc, mounting, mounts>>

(* Mutated: the mountpoints are mounted in the order of the table.          *)
NextMountpointUnsorted(p) == p \in table

(* qsort by length; it may leave paths of the same length in any order.     *)
NextMountpoint(p) == p \in table /\ \A q \in table : StrLen[p] <= StrLen[q]

MountRoot(p) ==
  /\ ins_pc = "mounting"
  /\ NextMountpoint(p)
  /\ table' = table \ {p}
  /\ mounts' = Append(mounts, [by |-> "i", mountpoint |-> p,
                               options |-> IF read_only THEN "ro" ELSE ""])
  /\ UNCHANGED <<ins_pc, mount_errors, mp_pc, mounting>>

(* Mutated: no mount error is fatal.                                        *)
MountRootFailsIgnored(p) ==
  /\ ins_pc = "mounting"
  /\ NextMountpoint(p)
  /\ table' = table \ {p}
  /\ mount_errors' = mount_errors \cup {p}
  /\ UNCHANGED <<ins_pc, mp_pc, mounting, mounts>>

(* "If the / filesystem could not be mounted, give up, else just count the  *)
(* errors and print a warning."                                             *)
MountRootFails(p) ==
  /\ ins_pc = "mounting"
  /\ NextMountpoint(p)
  /\ IF p = Root
     THEN ins_pc' = "exit" /\ UNCHANGED <<table, mount_errors>>
     ELSE /\ table' = table \ {p}
          /\ mount_errors' = mount_errors \cup {p}
          /\ UNCHANGED ins_pc
  /\ UNCHANGED <<mp_pc, mounting, mounts>>

InspectDone ==
  /\ ins_pc = "mounting" /\ table = {}
  /\ ins_pc' = "done"
  /\ UNCHANGED <<table, mount_errors, mp_pc, mounting, mounts>>

-----------------------------------------------------------------------------
(* -m                                                                       *)

OptionsOf(m) ==
  IF m.options # NoOptions THEN m.options ELSE IF read_only THEN "ro" ELSE ""

(* "List is built in reverse order, so mount them in reverse order."        *)
MountMp ==
  /\ mp_pc = "mounting" /\ mounting > 0
  /\ LET m == mps[mounting]
     IN  mounts' = Append(mounts, [by |-> "m", mountpoint |-> m.mountpoint,
                                   options |-> OptionsOf(m)])
  /\ mounting' = mounting - 1
  /\ UNCHANGED <<ins_pc, table, mount_errors, mp_pc>>

MountMpFails ==
  /\ mp_pc = "mounting" /\ mounting > 0
  /\ mp_pc' = "exit"
  /\ UNCHANGED <<ins_pc, table, mount_errors, mounting, mounts>>

MpsDone ==
  /\ mp_pc = "mounting" /\ mounting = 0
  /\ mp_pc' = "done"
  /\ UNCHANGED <<ins_pc, table, mount_errors, mounting, mounts>>

MountsNext ==
  \/ InspectFails \/ \E t \in Tables : Inspect(t)
  \/ \E p \in table : MountRoot(p) \/ MountRootFails(p)
  \/ InspectDone \/ MountMp \/ MountMpFails \/ MpsDone
=============================================================================
