------------------------------ MODULE Appliance ------------------------------
(***************************************************************************)
(* The guest's filesystems as the appliance shows them to a program: one   *)
(* device is mounted on the root directory.  A path is the sequence of its *)
(* names.                                                                  *)
(***************************************************************************)
CONSTANT NoDevice

VARIABLES
  fs,          (* on each device, the file at each path: [kind, xattrs]      *)
  device,      (* the device that is mounted, or NoDevice                    *)
  readonly     (* it is mounted with mount_ro                                *)

appliance == <<fs, device, readonly>>

tree == IF device = NoDevice THEN <<>> ELSE fs[device]
=============================================================================
