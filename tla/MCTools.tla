------------------------------ MODULE MCTools ------------------------------
(***************************************************************************)
(* Small instances for TLC of three parts of the C tools that share no     *)
(* state, and which a run explores one at a time: the options and the      *)
(* mounting of the guest, the edit of a file, and the builder of qemu's    *)
(* command line.                                                           *)
(***************************************************************************)
EXTENDS Session, FileEdit, Qemuopts

VARIABLE part   (* the part that is at work                                  *)

toolsVars == <<part, sessionVars, fileEditVars, qemuoptsVars>>

(* A part that is not at work has only one state.                           *)
ToolsInit ==
  /\ part \in {"session", "edit", "qemu"}
  /\ Init /\ FileEditInit /\ QemuoptsInit
  /\ part # "session" => ~config_ro
  /\ part # "edit" => editor = "editor" /\ ~backup /\ fn = "file"
  /\ part # "qemu" => file.state = "absent"

ToolsNext ==
  /\ \/ part = "session" /\ Next /\ UNCHANGED <<fileEditVars, qemuoptsVars>>
     \/ part = "edit" /\ FileEditNext /\ UNCHANGED <<sessionVars, qemuoptsVars>>
     \/ part = "qemu" /\ QemuoptsNext /\ UNCHANGED <<sessionVars, fileEditVars>>
  /\ UNCHANGED part

ToolsSpec == ToolsInit /\ [][ToolsNext]_toolsVars

-----------------------------------------------------------------------------
(* Session: a guest with two partitions and a logical volume on each.  The   *)
(* hyphens in the names of the volume groups and volumes are where the names *)
(* that device-mapper makes for them are nearly the same.                   *)

MCDriveOptions == {[type |-> "a", disks |-> 1], [type |-> "d", disks |-> 2],
                   [type |-> "N", disks |-> 1]}
MCFormats == {"raw"}
MCMountOptions == {[mountpoint |-> "/", options |-> NoOptions],
                   [mountpoint |-> "/boot", options |-> "noatime"]}

MCPaths == {"/", "/a", "/boot", "/boot/efi"}
MCStrLen == [p \in MCPaths |-> Len(p)]
MCUnder == {<<"/a", "/">>, <<"/boot", "/">>, <<"/boot/efi", "/">>, <<"/boot/efi", "/boot">>}
MCTables == {{"/"}, {"/", "/boot", "/a"}, {"/", "/boot", "/boot/efi"}}

p1 == << <<"s", "1">> >>
p2 == << <<"s", "2">> >>
lv1 == << <<"v", "-", "a">>, <<"l">> >>        (* v--a-l                     *)
lv2 == << <<"v">>, <<"a", "-", "_", "l">> >>   (* v-a--_l                    *)
MCChar == {"v", "a", "l", "-", "_"}
MCPartitions == {p1, p2}
MCLogicalVolumes == {lv1, lv2}
MCPhysicalVolume == [lv \in {lv1, lv2} |-> IF lv = lv1 THEN p1 ELSE p2]

MCAll == << <<"all">> >>
u1 == << <<"uuid", "1">> >>
u2 == << <<"uuid", "2">> >>
MCNoUuid == <<>>

MCSelectors == {[id |-> MCAll, key |-> "k1"], [id |-> u1, key |-> "k1"],
                [id |-> u2, key |-> "clevis"], [id |-> p1, key |-> "k2"],
                [id |-> MapperName(lv1[1], lv1[2]), key |-> "k2"],
                [id |-> MapperName(lv2[1], lv2[2]), key |-> "clevis"]}

OnDisk(kind, uuid, right) == [kind |-> kind, uuid |-> uuid, right |-> right]
Plain == OnDisk("plain", MCNoUuid, {})
Guest(a, b, c, d) == (p1 :> a) @@ (p2 :> b) @@ (lv1 :> c) @@ (lv2 :> d)

MCLayouts == {
  (* LUKS below LVM on one partition, LUKS above LVM on the other.           *)
  Guest(OnDisk("luks", u1, {"k1"}), Plain, Plain, OnDisk("luks", u2, {"k2", "clevis"})),
  Guest(OnDisk("luks", u1, {"k2"}), Plain, OnDisk("luks", u2, {"clevis"}), Plain),
  (* BitLocker has no UUID; the names made for the two volumes are the same. *)
  Guest(OnDisk("bitlocker", MCNoUuid, {"k1"}), Plain, Plain, Plain),
  Guest(Plain, Plain, OnDisk("bitlocker", MCNoUuid, {"k2"}), OnDisk("bitlocker", MCNoUuid, {"clevis", "k1"})),
  (* One disk is a copy of the other.                                        *)
  Guest(OnDisk("luks", u1, {"k1", "k2"}), OnDisk("luks", u1, {"k1"}), Plain, Plain),
  (* vfs_type and luks_uuid fail.                                            *)
  Guest(OnDisk("unreadable", MCNoUuid, {}), OnDisk("luks", MCNoUuid, {"k1"}), Plain,
        OnDisk("luks", u2, {"k1"})) }

-----------------------------------------------------------------------------
(* FileEdit: besides the original, a content of the same size and a longer   *)
(* one.                                                                     *)

CONSTANTS original, same_size, longer, partial

MCContents == {original, same_size, longer}
MCSize == [c \in MCContents |-> IF c = longer THEN 2 ELSE 1]

-----------------------------------------------------------------------------
(* Qemuopts: values with a character of each kind: ordinary ones, the comma, *)
(* what a shell treats specially outside and inside double quotes.          *)

MCCharacters == {"-a", "qemu", "v", "x", "y", "z", "w", "n", "b", "q", "i", "d", "l", "e", "1", "=", ",",
                 " ", "\n", "\\", "\"", "$", "*", "?"}
MCFlags == {<<"-a">>}
MCBinaries == {<<"qemu", " ", "$">>}
MCValues == {<<"v">>, <<"x", ",", "y">>, <<",", " ", "\\">>, <<>>}
MCUnquoted == {<<"\"", "z", " ", "\"", "y", " ", "w">>}
MCRaws == {<<"-a", " ", "\"", "z", "\"">>}
MCElements == {<<"n", "=", "$", ",">>, <<"i", "d", "=", "1">>, <<"b">>, <<"i", "d">>,
               <<"q", "=", "\"", "=">>}
MCPastTheEnd == {<<>>, <<"x">>}

MCIdElements == {<<"n", "=", "v">>, <<"i", "d", "=", "1">>, <<"i", "d", "l", "e", "=", "1">>}
=============================================================================
