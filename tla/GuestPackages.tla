--------------------------- MODULE GuestPackages ---------------------------
(***************************************************************************)
(* mlcustomize/guest_packages.ml: the command that installs, updates or    *)
(* uninstalls packages in the guest.                                       *)
(***************************************************************************)
EXTENDS Guest

Managers == {"apk", "apt", "dnf", "pisi", "pacman", "urpmi", "xbps", "yum", "zypper"}

NoCommand == "error"

(* install_command, update_command and uninstall_command know the same       *)
(* managers; "unknown", which is what Windows has, and every other one       *)
(* raises an exception.                                                      *)
package_command(what) == IF guest.pm \in Managers THEN what ELSE NoCommand
=============================================================================
