------------------------------- MODULE SshKey -------------------------------
(***************************************************************************)
(* mlcustomize/ssh_key.ml: a public key is appended to the file            *)
(* .ssh/authorized_keys of a user of the guest; directory and file are     *)
(* created, and given to the user, when they are not there.                *)
(***************************************************************************)
EXTENDS Guest

VARIABLES
  ssh_dir,     (* the directory: owner and mode                              *)
  auth_keys,   (* the file: owner, mode, lines of keys, and whether the last *)
               (* line has its newline                                       *)
  key          (* the key being injected                                     *)

sshVars == <<ssh_dir, auth_keys, key>>

NoKey == "nokey"

ByRoot(mode) == [kind |-> "file", owner |-> "root", mode |-> mode]
OfUser(mode) == [kind |-> "file", owner |-> "user", mode |-> mode]

SshInit ==
  /\ ssh_dir = IF guest.keys = <<>> THEN Missing ELSE OfUser("0700")
  /\ auth_keys = IF guest.keys = <<>> THEN Missing
                 ELSE [file |-> OfUser("0600"), lines |-> guest.keys, ended |-> guest.keys_end]
  /\ key = NoKey

(* key_string_from_selector, which is an error for an empty key, and the     *)
(* user's details from /etc/passwd, an error when there is no such user.     *)
(* "If the key doesn't have \n at the end, add it."                          *)
do_ssh_inject_unix(k, empty, user_exists) ==
  /\ step = "ops"
  /\ IF empty \/ ~user_exists
     THEN step' = "failed" /\ UNCHANGED key
     ELSE step' = "ssh_dir" /\ key' = k
  /\ UNCHANGED <<ssh_dir, auth_keys>>

MakeSshDir ==
  /\ step = "ssh_dir"
  /\ IF ssh_dir = Missing
     THEN step' = "ssh_dir_chmod" /\ ssh_dir' = ByRoot("0755") /\ Created
     ELSE step' = "ssh_keys" /\ UNCHANGED <<ssh_dir, labels>>
  /\ UNCHANGED <<auth_keys, key>>

ChmodSshDir ==
  /\ Call("ssh_dir_chmod", "ssh_dir_chown")
  /\ ssh_dir' = [ssh_dir EXCEPT !.mode = "0700"]
  /\ UNCHANGED <<auth_keys, key, labels>>

ChownSshDir ==
  /\ Call("ssh_dir_chown", "ssh_keys")
  /\ ssh_dir' = [ssh_dir EXCEPT !.owner = "user"]
  /\ UNCHANGED <<auth_keys, key, labels>>

MakeAuthKeys ==
  /\ step = "ssh_keys"
  /\ IF auth_keys = Missing
     THEN /\ step' = "ssh_keys_chmod"
          /\ auth_keys' = [file |-> ByRoot("0644"), lines |-> <<>>, ended |-> TRUE]
          /\ Created
     ELSE step' = "ssh_append" /\ UNCHANGED <<auth_keys, labels>>
  /\ UNCHANGED <<ssh_dir, key>>

ChmodAuthKeys ==
  /\ Call("ssh_keys_chmod", "ssh_keys_chown")
  /\ auth_keys' = [auth_keys EXCEPT !.file.mode = "0600"]
  /\ UNCHANGED <<ssh_dir, key, labels>>

(* Mutated: the file is left to root.                                        *)
ChownAuthKeysSkipped ==
  /\ Call("ssh_keys_chown", "ssh_append")
  /\ UNCHANGED <<sshVars, labels>>

ChownAuthKeys ==
  /\ Call("ssh_keys_chown", "ssh_append")
  /\ auth_keys' = [auth_keys EXCEPT !.file.owner = "user"]
  /\ UNCHANGED <<ssh_dir, key, labels>>

(* write_append: the key continues the last line if that has no newline.     *)
AppendKey ==
  /\ Call("ssh_append", "ops")
  /\ LET n == Len(auth_keys.lines)
     IN  auth_keys' = [auth_keys EXCEPT
           !.lines = IF auth_keys.ended THEN Append(@, <<key>>)
                     ELSE [@ EXCEPT ![n] = Append(@, key)],
           !.ended = TRUE]
  /\ key' = NoKey
  /\ UNCHANGED <<ssh_dir, labels>>

SshNext ==
  \/ MakeSshDir \/ ChmodSshDir \/ ChownSshDir
  \/ MakeAuthKeys \/ ChmodAuthKeys \/ ChownAuthKeys \/ AppendKey
=============================================================================
