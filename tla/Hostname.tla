------------------------------ MODULE Hostname ------------------------------
(***************************************************************************)
(* mlcustomize/hostname.ml: the hostname is set in the files where the     *)
(* distribution keeps it; on Debian the old one is also replaced in        *)
(* /etc/hosts.  A name is the pair of its short name and its domain.       *)
(***************************************************************************)
EXTENDS Guest

CONSTANT
  NewHost      (* the argument of --hostname                                 *)

VARIABLES
  hostname,    (* the name in the distribution's file, or NoHost             *)
  pretty,      (* the lines PRETTY_HOSTNAME= of /etc/machine-info, or        *)
               (* HOSTNAME= of /etc/sysconfig/network: their values          *)
  hosts,       (* the names in /etc/hosts                                    *)
  old_hostname (* what read_etc_hostname has returned                        *)

hostnameVars == <<hostname, pretty, hosts, old_hostname>>

NoHost == <<"", "">>
Unassigned == <<"unassigned-hostname", "">>
UnassignedDomain == <<"unassigned-hostname", "unassigned-domain">>

Short(host) == <<host[1], "">>

HostnameInit ==
  /\ hostname = guest.hostname
  /\ pretty = <<guest.hostname>>
  /\ hosts = guest.hosts
  /\ old_hostname = NoHost

EtcHostname(major) ==
  \/ guest.distro = "fedora" /\ major >= 18
  \/ /\ guest.distro \in {"rhel", "centos", "scientificlinux", "oraclelinux", "rocky",
                          "redhat-based", "openeuler", "kylin", "neokylin", "anolis"}
     /\ major >= 7

(* How set_hostname goes on, or "ops" for a guest that it cannot do, which   *)
(* gets a warning.                                                           *)
Method ==
  CASE ~Linux -> "ops"
    [] Linux /\ EtcHostname(guest.major) -> "hostname"
    [] Linux /\ guest.distro \in {"debian", "ubuntu", "kalilinux"} -> "hostname"
    [] Linux /\ ~EtcHostname(guest.major) /\
       guest.distro \in {"fedora", "rhel", "centos", "scientificlinux", "oraclelinux",
                         "redhat-based", "openeuler", "kylin", "neokylin", "anolis"} -> "network"
    [] Linux /\ guest.distro \in {"opensuse", "sles", "suse-based"} -> "HOSTNAME"
    [] OTHER -> "ops"

Debian == guest.distro \in {"debian", "ubuntu", "kalilinux"}

set_hostname ==
  /\ step = "ops"
  /\ step' = Method
  /\ old_hostname' = IF Debian THEN hostname ELSE NoHost   (* read_etc_hostname *)
  /\ UNCHANGED <<hostname, pretty, hosts>>

(* update_etc_hostname, or the write of /etc/HOSTNAME; any of these files    *)
(* may be created by it.                                                     *)
WriteHostname ==
  /\ step \in {"hostname", "HOSTNAME"}
  /\ hostname' = NewHost
  /\ step' = CASE step = "HOSTNAME" -> "ops"
               [] Debian -> "hosts"
               [] OTHER -> "machine_info"
  /\ labels' \in {labels, "stale"}
  /\ UNCHANGED <<pretty, hosts, old_hostname>>

(* replace_line_in_file: the lines of the key go, one is added at the end.   *)
ReplaceLine ==
  /\ step \in {"machine_info", "network"}
  /\ step' = "ops"
  /\ pretty' = <<NewHost>>
  /\ hostname' = IF step = "network" THEN NewHost ELSE hostname
  /\ labels' \in {labels, "stale"}
  /\ UNCHANGED <<hosts, old_hostname>>

Renamed(value) ==
  IF value = old_hostname THEN NewHost
  ELSE IF value \in {Short(old_hostname), Unassigned} THEN Short(NewHost)
  ELSE IF value = UnassignedDomain /\ NewHost[2] # "" THEN NewHost
  ELSE value

(* replace_host_in_etc_hosts: one aug_save writes all replacements.          *)
ReplaceHosts ==
  /\ Call("hosts", "ops")
  /\ hosts' = {Renamed(h) : h \in hosts}
  /\ UNCHANGED <<hostname, pretty, old_hostname, labels>>

HostnameNext == WriteHostname \/ ReplaceLine \/ ReplaceHosts
=============================================================================
