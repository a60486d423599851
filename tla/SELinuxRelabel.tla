--------------------------- MODULE SELinuxRelabel ---------------------------
(***************************************************************************)
(* mlcustomize/SELinux_relabel.ml: the files of a guest that uses SELinux  *)
(* are relabelled with setfiles; where that cannot be done the guest is    *)
(* told to do it when it boots.                                            *)
(***************************************************************************)
EXTENDS Guest

ASSUME SpecfileAssumption == \A g \in Guests : g.specfile \in {"fine", "malformed", "missing"}

VARIABLES
  specfile,     (* file_contexts of the policy: "fine", "malformed",         *)
                (* "missing", or "bare": without the attributes of the old   *)
  autorelabel   (* /.autorelabel exists                                      *)

selinuxVars == <<specfile, autorelabel>>

SELinuxInit == specfile = guest.specfile /\ autorelabel = FALSE

(* load_policy and /etc/selinux/config are there.                            *)
is_selinux_guest == guest.selinux \in {"enabled", "disabled"}

(* What use_setfiles raises Failure for, and relabel catches: the feature is *)
(* not available, SELinux is disabled, or the specfile is missing.           *)
CanSetfiles == guest.relabel_feature /\ guest.selinux # "disabled" /\ specfile # "missing"

relabel(wanted) ==
  /\ step = "relabel"
  /\ step' = CASE ~wanted \/ ~is_selinux_guest -> "log"
               [] wanted /\ is_selinux_guest /\ ~CanSetfiles -> "touch_autorelabel"
               [] OTHER -> IF specfile = "malformed" THEN "spec_mv" ELSE "setfiles"
  /\ UNCHANGED <<selinuxVars, labels>>

(* Mutated: the fallback forgets to leave the mark.                          *)
TouchSkipped == Call("touch_autorelabel", "log") /\ UNCHANGED <<selinuxVars, labels>>

TouchAutorelabel ==
  /\ Call("touch_autorelabel", "log")
  /\ autorelabel' = TRUE
  /\ UNCHANGED <<specfile, labels>>

(* The malformed specfile of RHEL 6.2 - 6.5 is renamed, and a corrected copy *)
(* written under its name.                                                   *)
MoveSpecfile ==
  /\ Call("spec_mv", "spec_write")
  /\ specfile' = "missing"
  /\ UNCHANGED <<autorelabel, labels>>

(* read_file and write; copy_attributes from the old file is a call of its   *)
(* own.                                                                      *)
WriteSpecfile ==
  /\ Call("spec_write", "spec_attrs")
  /\ specfile' = "bare"
  /\ Created
  /\ UNCHANGED autorelabel

CopyAttributes ==
  /\ Call("spec_attrs", "setfiles")
  /\ specfile' = "fine"
  /\ UNCHANGED <<autorelabel, labels>>

(* A failure of setfiles is a Guestfs.Error, which relabel does not catch.   *)
Setfiles ==
  /\ Call("setfiles", "rm_autorelabel")
  /\ specfile \in {"fine", "bare"}
  /\ labels' = "fresh"
  /\ UNCHANGED selinuxVars

RemoveAutorelabel ==
  /\ Call("rm_autorelabel", "log")
  /\ autorelabel' = FALSE
  /\ UNCHANGED <<specfile, labels>>

SELinuxNext ==
  \/ TouchAutorelabel \/ MoveSpecfile \/ WriteSpecfile \/ CopyAttributes
  \/ Setfiles \/ RemoveAutorelabel
=============================================================================
