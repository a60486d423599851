------------------------------ MODULE Password ------------------------------
(***************************************************************************)
(* mlcustomize/password.ml and the table of passwords of customize_run.ml: *)
(* passwords are collected from the command line and set together, by one  *)
(* edit of /etc/shadow, at the end.                                        *)
(***************************************************************************)
EXTENDS Guest

CONSTANTS
  Users,            (* the users of /etc/shadow                              *)
  password_crypto   (* --password-crypto, or NoCrypto                        *)

NoCrypto == "none"

VARIABLES
  shadow,      (* /etc/shadow: the password of each user, and its attributes *)
  tempfile,    (* the file that keeps these attributes: the last one made    *)
  aug,         (* the passwords in Augeas' tree                              *)
  passwords    (* what --root-password and --password have asked for         *)

passwordVars == <<shadow, tempfile, aug, passwords>>

Before == [locked |-> FALSE, pw |-> "before", crypto |-> NoCrypto]
Empty  == [u \in {} |-> 0]

PasswordInit ==
  /\ shadow = [pw |-> [u \in Users |-> Before], attrs |-> "original"]
  /\ tempfile = Missing /\ aug = Empty /\ passwords = Empty

(* The thresholds are the first major versions that understand yescrypt and  *)
(* SHA512.                                                                   *)
default_crypto ==
  LET From(yescrypt, sha512) ==
        CASE guest.major >= yescrypt -> "YESCRYPT"
          [] guest.major < yescrypt /\ guest.major >= sha512 -> "SHA512"
          [] OTHER -> "MD5"
  IN  CASE guest.distro = "rocky" /\ guest.major >= 9 -> "YESCRYPT"
        [] guest.distro \in {"rhel", "centos", "scientificlinux", "oraclelinux",
                             "redhat-based"} -> From(9, 6)
        [] guest.distro = "fedora" -> From(30, 9)
        [] guest.distro = "debian" -> From(11, 5)
        [] guest.distro = "ubuntu" -> From(20, 10)
        [] guest.distro \in {"opensuse", "sles"} -> From(15, 11)
        [] guest.distro \in {"archlinux", "kalilinux"} -> "YESCRYPT"
        [] guest.distro \in {"voidlinux", "openeuler", "kylin", "neokylin", "anolis"} -> "SHA512"
        [] OTHER -> "MD5"

(* "glibc 2.7 was released in Oct 2007.  Approximately, all guests that       *)
(* precede this date only support md5": the first releases after it of the   *)
(* distributions that default_crypto knows, but for Rocky Linux.             *)
Sha512Releases ==
  {<<{"rhel", "centos", "scientificlinux", "oraclelinux", "redhat-based"}, 6>>,
   <<{"fedora"}, 9>>, <<{"debian"}, 5>>, <<{"ubuntu"}, 10>>, <<{"opensuse", "sles"}, 11>>,
   <<{"archlinux", "kalilinux", "voidlinux", "openeuler", "kylin", "neokylin", "anolis"}, 0>>}

ASSUME CryptoAssumption ==
  \A g \in Guests : g.major \in Nat /\ (g.sha512 => \A r \in Sha512Releases :
                                        g.distro \in r[1] => g.major >= r[2])

crypto == IF password_crypto = NoCrypto THEN default_crypto ELSE password_crypto

(* "[lock:...]file:FILENAME", "password:PASSWORD", "random" or "disabled";    *)
(* the word "lock" alone means "lock:disabled".  The words are those between *)
(* the colons; "w" is any other word.                                        *)
Invalid == [locked |-> FALSE, pw |-> "invalid"]

parse_selector(words) ==
  LET locks == Cardinality({i \in DOMAIN words : \A j \in 1 .. i : words[j] = "lock"})
      rest  == SubSeq(words, locks + 1, Len(words))
      pw    == CASE rest = <<>> /\ locks > 0 -> "disabled"
                 [] rest = <<"random">>      -> "random"
                 [] rest = <<"disabled">>    -> "disabled"
                 [] Len(rest) = 2 /\ rest[1] = "file"     -> "given"
                 [] Len(rest) >= 1 /\ rest[1] = "password" -> "given"
                 [] OTHER -> "invalid"
  IN  IF pw = "invalid" THEN Invalid ELSE [locked |-> locks > 0, pw |-> pw]

(* "user:[!!]password:": locked or not, and an encrypted password or "*".    *)
PwField(selector) ==
  [locked |-> selector.locked, pw |-> selector.pw,
   crypto |-> IF selector.pw = "disabled" THEN NoCrypto ELSE crypto]

(* Mutated: the user is not looked up first.                                 *)
set_passwordTwice(user, selector) ==
  /\ step = "ops"
  /\ passwords' = [u \in DOMAIN passwords \cup {user} |-> IF u = user THEN selector ELSE passwords[u]]
  /\ UNCHANGED <<step, shadow, tempfile, aug>>

(* --password and --root-password; asking twice for a user is an error.      *)
set_password(user, selector) ==
  /\ step = "ops"
  /\ IF user \in DOMAIN passwords
     THEN step' = "failed" /\ UNCHANGED passwords
     ELSE /\ passwords' = [u \in DOMAIN passwords \cup {user} |->
                             IF u = user THEN selector ELSE passwords[u]]
          /\ UNCHANGED step
  /\ UNCHANGED <<shadow, tempfile, aug>>

BeginPasswords ==
  /\ step = "passwords"
  /\ step' = IF DOMAIN passwords # {} /\ Linux THEN "shadow_mktemp" ELSE "relabel"
  /\ UNCHANGED <<passwordVars, labels>>

(* mktemp, and write "*".                                                    *)
MakeTempfile ==
  /\ Call("shadow_mktemp", "shadow_keep")
  /\ tempfile' = [kind |-> "file", attrs |-> "default"]
  /\ UNCHANGED <<shadow, aug, passwords, labels>>

KeepAttributes ==
  /\ Call("shadow_keep", "shadow_set")
  /\ tempfile' = [tempfile EXCEPT !.attrs = shadow.attrs]
  /\ UNCHANGED <<shadow, aug, passwords, labels>>

(* The loop over the users of the file; a user who is not there is skipped.  *)
AugSet ==
  /\ Call("shadow_set", "shadow_save")
  /\ aug' = [u \in Users |-> IF u \in DOMAIN passwords THEN PwField(passwords[u]) ELSE shadow.pw[u]]
  /\ UNCHANGED <<shadow, tempfile, passwords, labels>>

(* aug_save replaces the file by a new one.                                  *)
AugSave ==
  /\ Call("shadow_save", "shadow_restore")
  /\ shadow' = [pw |-> aug, attrs |-> "default"]
  /\ UNCHANGED <<tempfile, aug, passwords, labels>>

RestoreAttributes ==
  /\ Call("shadow_restore", "shadow_rm")
  /\ shadow' = [shadow EXCEPT !.attrs = tempfile.attrs]
  /\ UNCHANGED <<tempfile, aug, passwords, labels>>

RemoveTempfile ==
  /\ Call("shadow_rm", "relabel")
  /\ tempfile' = Missing
  /\ UNCHANGED <<shadow, aug, passwords, labels>>

PasswordNext ==
  \/ BeginPasswords \/ MakeTempfile \/ KeepAttributes
  \/ AugSet \/ AugSave \/ RestoreAttributes \/ RemoveTempfile
=============================================================================
