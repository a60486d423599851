----------------------------- MODULE MCPrograms -----------------------------
(***************************************************************************)
(* Small instances for TLC of virt-customize and of the programs of        *)
(* Bindings.  They share no state, and a run explores one at a time.       *)
(***************************************************************************)
EXTENDS Customize, Bindings

VARIABLE part   (* the part that is at work                                  *)

programsVars == <<part, vars, bindingsVars>>

(* A part that is not at work has only one state.                           *)
ProgramsInit ==
  /\ part \in {"customize", "bindings"}
  /\ Init /\ BindingsInit
  /\ part # "customize" => guest = (CHOOSE g \in Guests : TRUE) /\ flags = (CHOOSE f \in Flags : TRUE)
  /\ part # "bindings" => activity = "xml"

ProgramsNext ==
  /\ \/ part = "customize" /\ Next /\ UNCHANGED bindingsVars
     \/ part = "bindings" /\ BindingsNext /\ UNCHANGED vars
  /\ UNCHANGED part

ProgramsSpec == ProgramsInit /\ [][ProgramsNext]_programsVars

-----------------------------------------------------------------------------
(* Customize: guests of the kinds that the operations tell apart.           *)

Old == <<"old", "example">>

MCNewHost == <<"new", "example">>

(* A guest of a type and distribution with nothing to do in it.              *)
Plain(os, distro, major) ==
  [type |-> os, distro |-> distro, major |-> major, sha512 |-> TRUE,
   arch |-> "x86_64", osinfo |-> "none", libosinfo |-> "none", pm |-> "dnf",
   seeds |-> [f \in {} |-> 0], seed_dir |-> TRUE, machine_id |-> "none",
   keys |-> <<>>, keys_end |-> TRUE, hostname |-> Old, hosts |-> {},
   selinux |-> "none", specfile |-> "fine", relabel_feature |-> TRUE, compatible |-> TRUE]

MCGuests == {
  [Plain("linux", "fedora", 40) EXCEPT !.selinux = "enabled", !.machine_id = "empty"],
  [Plain("linux", "rhel", 6) EXCEPT !.selinux = "enabled", !.specfile = "malformed", !.pm = "yum",
     !.seeds = "/var/lib/random-seed" :> 9000, !.keys = << <<"k0">> >>, !.keys_end = FALSE],
  [Plain("linux", "debian", 12) EXCEPT !.pm = "apt", !.seeds = "/var/lib/systemd/random-seed" :> 8,
     !.hosts = {Old, Short(Old), Unassigned, UnassignedDomain}],
  [Plain("linux", "rocky", 8) EXCEPT !.selinux = "enabled", !.specfile = "missing",
     !.compatible = FALSE, !.keys = << <<"k0">> >>],
  [Plain("linux", "cirros", 0) EXCEPT !.pm = "unknown", !.seed_dir = FALSE, !.sha512 = FALSE],
  [Plain("linux", "opensuse", 15) EXCEPT !.pm = "zypper", !.selinux = "disabled"],
  [Plain("windows", "windows", 10) EXCEPT !.osinfo = "win10", !.pm = "unknown"],
  [Plain("windows", "windows", 5) EXCEPT !.osinfo = "winxp", !.pm = "unknown", !.arch = "i386"],
  [Plain("freebsd", "freebsd", 14) EXCEPT !.pm = "pkg"] }

MCFlags == {[relabel |-> TRUE, scrub |-> FALSE], [relabel |-> FALSE, scrub |-> TRUE]}

MCSelectors == { <<"password", "w">>, <<"lock", "lock">>, <<"lock", "file", "w">>, <<"random">>,
                 <<"file", "w", "w">> }

MCTexts == { <<>>, <<LF>>, <<CR, LF>>, <<"x">>, <<"x", LF>>, <<"x", CR>>, <<CR, "x">>, <<LF, "x">>,
             <<"x", CR, LF>>, <<CR, LF, "x">>, <<LF, "x", LF>>, <<LF, CR, LF>>, <<"x", "x", LF>> }

File(name, arch, kind) == [name |-> name, arch |-> arch, os |-> kind, excluded |-> FALSE]

MCSources == {
  (* drivers of the right kind, and of the wrong architecture and version    *)
  {File("viostor.sys", "amd64", "w10"), File("viostor.sys", "x86", "xp"),
   File("fwcfg.inf", "amd64", "w10"), File("netkvm.inf", "amd64", "w10"),
   [File("netkvm.inf", "amd64", "w11") EXCEPT !.excluded = TRUE],
   File("blnsvr.exe", "amd64", "w10")},
  {File("virtio_blk.sys", "amd64", "w10"), File("qemufwcfg.inf", "amd64", "w10"),
   File("qemufwcfg.cat", "amd64", "w10"), File("viorng.inf", "amd64", "w10"),
   File("qemu-ga-x64.msi", "none", "none"), File("qemu-ga-i386.msi", "none", "none")} }

MCPriority == <<"virtio_blk.sys", "vrtioblk.sys", "viostor.sys">>

-----------------------------------------------------------------------------
(* Bindings                                                                 *)

MCSameName(a, b) == {a, b} \in {{"Users"}, {"users"}, {"Users", "users"}, {"a"}, {"b"}}

Attr(n) == [attrname |-> "user", attrval |-> n]

DirWith(x)  == [kind |-> "dir", xattrs |-> x]
FileWith(x) == [kind |-> "file", xattrs |-> x]

(* A directory below a directory, files beside them, and attributes whose    *)
(* values look like numbers of attributes.                                  *)
MCTree1 ==
  (<<>> :> DirWith(<<Attr(1)>>)) @@ (<<"Users">> :> DirWith(<<Attr(2), Attr(1)>>))
  @@ (<<"a">> :> [kind |-> "symlink", xattrs |-> <<>>])
  @@ (<<"Users", "a">> :> DirWith(<<Attr(1)>>)) @@ (<<"Users", "b">> :> FileWith(<<>>))
  @@ (<<"Users", "a", "b">> :> FileWith(<<Attr(2)>>))

(* Two names that Windows does not tell apart, and a file whose attributes   *)
(* cannot be read.                                                          *)
MCTree2 ==
  (<<>> :> DirWith(<<>>)) @@ (<<"Users">> :> DirWith(<<>>)) @@ (<<"users">> :> FileWith(<<Attr(1)>>))
  @@ (<<"Users", "a">> :> FileWith(Unreadable))

MCFilesystems == {("sda1" :> MCTree1) @@ ("sda2" :> MCTree2)}

MCDriveMappings ==
  LET c == [letter |-> "c", long |-> FALSE, device |-> "sda1"]
      d == [letter |-> "d", long |-> FALSE, device |-> "sda2"]
      l == [letter |-> "d", long |-> TRUE, device |-> "sda1"]
  IN  {<<>>, <<c, d>>, <<l, d>>}

MCAttributes == {Attr(1), Attr(2)}

MCPaths ==
  {[letter |-> l, rest |-> r] :
     l \in {NoLetter, "c", "d"},
     r \in {<<>>, <<"\\">>, <<"/", "users">>, <<"\\", "users", "\\", "a">>, <<"users">>}}

(* Threads and subjects are only compared.                                  *)
MCSymmetry == Permutations(Threads) \cup Permutations(Subjects)
=============================================================================
