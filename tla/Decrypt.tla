------------------------------ MODULE Decrypt ------------------------------
(***************************************************************************)
(* The key store of options/keys.c and the decryption of the guest's       *)
(* devices in options/decrypt.c: encrypted partitions are opened first,    *)
(* then LVM is scanned for the volumes they contain, and encrypted logical *)
(* volumes are opened.                                                     *)
(*                                                                         *)
(* A passphrase is a model value; it may be stored in the selector or in a *)
(* file, and reading a file may fail.                                      *)
(***************************************************************************)
EXTENDS DeviceNames, FiniteSets, FiniteSetsExt

CONSTANTS
  Char,            (* characters of the names of logical volumes             *)
  Partitions,      (* the partitions that list_partitions returns            *)
  LogicalVolumes,  (* the logical volumes of the guest                       *)
  PhysicalVolume,  (* the partition that each of them lies on                *)
  Layouts,         (* what the devices may contain: [kind, uuid, right],     *)
                   (* right being the keys that open the device              *)
  All,             (* the identifier "all"                                   *)
  NoUuid,          (* luks_uuid failed, or was not called                    *)
  Passphrases,     (* what the user may type                                 *)
  Clevis,          (* the key of a selector of type clevis                   *)
  Selectors        (* arguments of --key: [id, key]                          *)

Devices == Partitions \cup LogicalVolumes

(* The names of a logical volume are those that LVM allows; that of a        *)
(* partition has one component, and so have UUIDs and "all".                 *)
NamesAssumption ==
  /\ IsFiniteSet(Devices) /\ Partitions \cap LogicalVolumes = {}
  /\ Mapper \notin Seq(Char)
  /\ LogicalVolumes \subseteq (Seq(Char) \ {<<>>}) \X {lv \in Seq(Char) : lv # <<>> /\ lv[1] # "-"}
  /\ \A d \in Partitions \cup {All} : Len(d) = 1
  /\ \A s \in Selectors :
       Len(s.id) = 2 /\ s.id[1] = Mapper => s.id[2] \in Seq(Char) /\ s.id = <<Mapper, s.id[2]>>
  /\ \A l \in Layouts, d \in Devices : l[d].uuid # NoUuid => Len(l[d].uuid) = 1

ASSUME NamesAssumption

DecryptAssumption ==
  /\ PhysicalVolume \in [LogicalVolumes -> Partitions]
  /\ Clevis \notin Passphrases
  /\ Selectors \subseteq [id : {s.id : s \in Selectors}, key : Passphrases \cup {Clevis}]
  /\ Layouts \subseteq
       [Devices -> [kind : {"plain", "luks", "bitlocker", "unreadable"},
                    uuid : {NoUuid} \cup {s.id : s \in Selectors},
                    right : SUBSET (Passphrases \cup {Clevis})]]

ASSUME DecryptAssumption

VARIABLES
  selectors,    (* the arguments of --key so far                             *)
  ks,           (* the key store                                             *)
  layout,       (* the contents of the devices                               *)
  lvm2,         (* feature_available says that there is lvm2; it may fail    *)
  network,      (* the appliance has a network                               *)
  dec_pc,       (* "idle", "partitions", "lvm", "lvs", "done", "exit",       *)
                (* or "nokey" when the program gives up                      *)
  pending,      (* mountables that decrypt_mountables has yet to visit       *)
  decrypted_some,
  scanned,      (* devices that LVM knows to be open                         *)
  opened,       (* the open devices: [device, name]                          *)
  tried,        (* <<device, key>>                                           *)
  typed,        (* <<device, key>> that the user typed                       *)
  offline       (* a Tang server was asked for without a network             *)

guest  == <<layout, lvm2>>
keys   == <<selectors, ks>>
decryptVars == <<keys, guest, network, dec_pc, pending, decrypted_some, scanned,
                 opened, tried, typed, offline>>

(* The devices before the program has looked at them.                       *)
Unseen == [d \in Devices |-> [kind |-> "unreadable", uuid |-> NoUuid, right |-> {}]]

DecryptInit ==
  /\ selectors = <<>> /\ ks = <<>>
  /\ layout = Unseen /\ lvm2 = FALSE
  /\ network = FALSE
  /\ dec_pc = "idle" /\ pending = <<>>
  /\ decrypted_some = FALSE /\ scanned = {}
  /\ opened = {} /\ tried = {} /\ typed = {} /\ offline = FALSE

-----------------------------------------------------------------------------
(* The key store                                                            *)

(* key_store_add_from_selector and key_store_import_key.                    *)
AddKey(s) ==
  /\ selectors' = Append(selectors, s)
  /\ ks' = Append(ks, [s EXCEPT !.id = Unescape(@)])
  /\ UNCHANGED <<guest, network, dec_pc, pending, decrypted_some, scanned, opened,
                 tried, typed, offline>>

requires_network == \E i \in DOMAIN ks : ks[i].key = Clevis

(* The program launches the appliance, with a network if a key requires it.  *)
EnableNetwork ==
  /\ network' = requires_network
  /\ UNCHANGED <<keys, guest, dec_pc, pending, decrypted_some, scanned, opened,
                 tried, typed, offline>>

Matches(key, device, uuid) ==
  key.id \in {All, device} \/ (uuid # NoUuid /\ key.id = uuid)

(* get_keys: the matching keys by their position in the store.              *)
StoreKeys(device, uuid) ==
  [i \in {j \in DOMAIN ks : Matches(ks[j], device, uuid)} |-> ks[i].key]

-----------------------------------------------------------------------------
(* decrypt_mountables                                                       *)

Encrypted(d) == layout[d].kind \in {"luks", "bitlocker"}

(* luks_uuid is called for LUKS only, and may fail.                         *)
UuidOf(d) == IF layout[d].kind = "luks" THEN layout[d].uuid ELSE NoUuid

(* The name of the node for the plaintext.                                  *)
Mapname(d) ==
  IF UuidOf(d) # NoUuid THEN <<"luks", UuidOf(d)>> ELSE MakeMapname(d)

(* clevis_luks_unlock or cryptsetup_open succeeds with this key.            *)
Opens(d, key) ==
  /\ key \in layout[d].right
  /\ \A o \in opened : o.name # Mapname(d)
  /\ key = Clevis => network

(* vfs_type fails, or finds something that is not encrypted.                *)
Skip ==
  /\ dec_pc \in {"partitions", "lvs"}
  /\ pending # <<>> /\ ~Encrypted(Head(pending))
  /\ pending' = Tail(pending)
  /\ UNCHANGED <<keys, guest, network, dec_pc, decrypted_some, scanned, opened,
                 tried, typed, offline>>

(* Try each key in turn, until one opens the device.                        *)
TryKeys(d, candidates) ==
  LET works == {i \in DOMAIN candidates : Opens(d, candidates[i])}
      tries == {candidates[i] : i \in {j \in DOMAIN candidates : \A w \in works : j <= w}}
  IN  /\ tried' = tried \cup ({d} \X tries)
      /\ offline' = (offline \/ (Clevis \in tries /\ ~network))
      /\ IF works = {}
         THEN dec_pc' = "nokey" /\ UNCHANGED <<pending, decrypted_some, opened>>
         ELSE /\ opened' = opened \cup {[device |-> d, name |-> Mapname(d)]}
              /\ decrypted_some' = TRUE
              /\ pending' = Tail(pending)
              /\ UNCHANGED dec_pc
      /\ UNCHANGED <<keys, guest, network, scanned>>

Open ==
  /\ dec_pc \in {"partitions", "lvs"}
  /\ pending # <<>> /\ Encrypted(Head(pending))
  /\ LET d == Head(pending)
         found == StoreKeys(d, UuidOf(d))
     IN  /\ DOMAIN found # {}
         /\ TryKeys(d, found)
         /\ UNCHANGED typed

(* "Key not found in the key store, ask the user for it."                   *)
OpenAsking(passphrase) ==
  /\ dec_pc \in {"partitions", "lvs"}
  /\ pending # <<>> /\ Encrypted(Head(pending))
  /\ LET d == Head(pending)
     IN  /\ DOMAIN StoreKeys(d, UuidOf(d)) = {}
         /\ typed' = typed \cup {<<d, passphrase>>}
         /\ TryKeys(d, <<passphrase>>)

(* read_key fails, or a file with a key cannot be read.                     *)
GetKeysFails ==
  /\ dec_pc \in {"partitions", "lvs"}
  /\ pending # <<>> /\ Encrypted(Head(pending))
  /\ LET found == StoreKeys(Head(pending), UuidOf(Head(pending)))
     IN  DOMAIN found = {} \/ \E i \in DOMAIN found : found[i] # Clevis
  /\ dec_pc' = "exit"
  /\ UNCHANGED <<keys, guest, network, pending, decrypted_some, scanned, opened,
                 tried, typed, offline>>

-----------------------------------------------------------------------------
(* inspect_do_decrypt                                                       *)

(* list_partitions: the program's first look at the guest.  The appliance   *)
(* lists devices in an order of its own.                                    *)
ListPartitions ==
  /\ dec_pc = "idle"
  /\ dec_pc' = "partitions"
  /\ pending' \in SetToSeqs(Partitions)
  /\ layout' \in Layouts /\ lvm2' \in BOOLEAN
  /\ UNCHANGED <<keys, network, decrypted_some, scanned, opened, tried, typed, offline>>

(* A failing feature_available is taken for an answer: no lvm2.              *)
PartitionsDone ==
  /\ dec_pc = "partitions" /\ pending = <<>>
  /\ dec_pc' = IF lvm2 THEN "lvm" ELSE "done"
  /\ UNCHANGED <<keys, guest, network, pending, decrypted_some, scanned, opened,
                 tried, typed, offline>>

(* The volumes that LVM shows: on a partition that is not encrypted, or on   *)
(* one that was open when it was scanned.                                   *)
Shown(lv, known) ==
  layout[PhysicalVolume[lv]].kind = "plain" \/ PhysicalVolume[lv] \in known

(* Mutated: the condition need_rescan is inverted.                          *)
ListLvsRescanInverted ==
  /\ dec_pc = "lvm"
  /\ dec_pc' = "lvs"
  /\ scanned' = IF ~decrypted_some THEN {o.device : o \in opened} ELSE scanned
  /\ pending' \in SetToSeqs({lv \in LogicalVolumes : Shown(lv, scanned')})
  /\ UNCHANGED <<keys, guest, network, decrypted_some, opened, tried, typed, offline>>

(* lvm_scan if something was decrypted, then lvs.                           *)
ListLvs ==
  /\ dec_pc = "lvm"
  /\ dec_pc' = "lvs"
  /\ scanned' = IF decrypted_some THEN {o.device : o \in opened} ELSE scanned
  /\ pending' \in SetToSeqs({lv \in LogicalVolumes : Shown(lv, scanned')})
  /\ UNCHANGED <<keys, guest, network, decrypted_some, opened, tried, typed, offline>>

LvsDone ==
  /\ dec_pc = "lvs" /\ pending = <<>>
  /\ dec_pc' = "done"
  /\ UNCHANGED <<keys, guest, network, pending, decrypted_some, scanned, opened,
                 tried, typed, offline>>

(* list_partitions, or then lvm_scan or lvs, fails.                         *)
ListingFails ==
  /\ dec_pc \in {"idle", "lvm"}
  /\ dec_pc' = "exit"
  /\ UNCHANGED <<keys, guest, network, pending, decrypted_some, scanned, opened,
                 tried, typed, offline>>

DecryptNext ==
  \/ ListPartitions \/ ListingFails \/ Skip \/ Open
  \/ \E p \in Passphrases : OpenAsking(p)
  \/ GetKeysFails \/ PartitionsDone \/ ListLvs \/ LvsDone
=============================================================================
