----------------------------- MODULE RandomSeed -----------------------------
(***************************************************************************)
(* mlcustomize/random_seed.ml: every random seed of a Linux guest is       *)
(* replaced by fresh entropy, or one is created where its distribution     *)
(* keeps it.                                                               *)
(***************************************************************************)
EXTENDS Guest

ASSUME SeedAssumption == \A g \in Guests : \A f \in DOMAIN g.seeds : g.seeds[f] \in Nat

VARIABLES
  seeds,       (* the seed files: size, what is in them, mode                *)
  visited,     (* how many of them have been looked at                       *)
  created,     (* one has been written                                       *)
  entropy      (* the number of random bytes to write                        *)

seedVars == <<seeds, visited, created, entropy>>

seed_files == << "/var/lib/random-seed", "/var/lib/systemd/random-seed",
                 "/var/lib/urandom/random-seed", "/var/lib/misc/random-seed",
                 "/etc/random-seed" >>

SeedNames == {seed_files[i] : i \in DOMAIN seed_files}

Seed(bytes, data, mode) == [kind |-> "file", bytes |-> bytes, data |-> data, mode |-> mode]

SeedInit ==
  /\ seeds = [f \in SeedNames |-> IF f \in DOMAIN guest.seeds
                                  THEN Seed(guest.seeds[f], "before", "0600") ELSE Missing]
  /\ visited = 0 /\ created = FALSE /\ entropy = 0

(* Mutated: the lower limit is forgotten.                                    *)
CappedAbove(n) == IF n > 8192 THEN 8192 ELSE n

(* "Cap the file size to [512, 8192] bytes."                                 *)
SeedSizes == 512 .. 8192

Capped(n) == IF n < 512 THEN 512 ELSE IF n > 8192 THEN 8192 ELSE n

fallback ==
  CASE ~Linux -> {}
    [] guest.distro \in {"fedora", "rhel", "centos", "scientificlinux", "oraclelinux",
                         "rocky", "redhat-based"} -> {"/var/lib/random-seed"}
    [] guest.distro \in {"debian", "ubuntu", "kalilinux"} -> {"/var/lib/urandom/random-seed"}
    [] guest.distro \in {"opensuse", "sles", "suse-based"} -> {"/var/lib/misc/random-seed"}
    [] guest.distro = "cirros" -> {"/etc/random-seed"}
    [] OTHER -> {}

(* Look at the next file; one that is there is written over.                 *)
VisitSeed ==
  /\ step = "seed" /\ Linux /\ visited < Len(seed_files)
  /\ visited' = visited + 1
  /\ LET f == seeds[seed_files[visited + 1]]
     IN  IF f = Missing
         THEN UNCHANGED <<step, entropy>>
         ELSE step' = "seed_truncate" /\ entropy' = Capped(f.bytes)
  /\ UNCHANGED <<seeds, created, labels>>

(* "Truncate the original file and append, in order to preserve original     *)
(* permissions."                                                             *)
TruncateSeed ==
  /\ Call("seed_truncate", "seed_append")
  /\ seeds' = [seeds EXCEPT ![seed_files[visited]] = Seed(0, "nothing", @.mode)]
  /\ UNCHANGED <<visited, created, entropy, labels>>

AppendSeed ==
  /\ Call("seed_append", "seed")
  /\ seeds' = [seeds EXCEPT ![seed_files[visited]] = Seed(entropy, "entropy", @.mode)]
  /\ created' = TRUE
  /\ UNCHANGED <<visited, entropy, labels>>

(* The backup plan, when none was there: create one if its directory exists. *)
(* A guest without one gets a warning.                                       *)
SeedFallback ==
  /\ step = "seed" /\ (Linux => visited = Len(seed_files))
  /\ step' = IF ~created /\ fallback # {} /\ guest.seed_dir THEN "seed_write" ELSE "machine_id"
  /\ UNCHANGED <<seedVars, labels>>

WriteSeed ==
  /\ Call("seed_write", "seed_chmod")
  /\ seeds' = [f \in SeedNames |-> IF f \in fallback THEN Seed(512, "entropy", "0644") ELSE seeds[f]]
  /\ Created
  /\ UNCHANGED <<visited, created, entropy>>

(* chown 0 0, which changes nothing, and chmod 0600.                         *)
ProtectSeed ==
  /\ Call("seed_chmod", "machine_id")
  /\ seeds' = [f \in SeedNames |-> IF f \in fallback THEN Seed(seeds[f].bytes, seeds[f].data, "0600") ELSE seeds[f]]
  /\ created' = TRUE
  /\ UNCHANGED <<visited, entropy, labels>>

SeedNext ==
  \/ VisitSeed \/ TruncateSeed \/ AppendSeed
  \/ SeedFallback \/ WriteSeed \/ ProtectSeed
=============================================================================
