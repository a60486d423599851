-------------------------------- MODULE Pcre --------------------------------
(***************************************************************************)
(* mlpcre/pcre-c.c: matches keeps what it has matched for the calls of sub *)
(* and subi that follow, in a structure that a thread-local variable       *)
(* points to.  A call of one of these functions holds the lock of the      *)
(* OCaml runtime from its beginning to its end, but where it allocates the *)
(* runtime may collect and run the finalisers of regexps.                  *)
(*                                                                         *)
(* A match is abstracted to the set of the groups that take part in it.    *)
(***************************************************************************)
EXTENDS Integers, FiniteSets

CONSTANTS
  Threads,
  Regexps,
  Subjects,
  Groups,       (* the number of groups of a regular expression              *)
  NULL,
  MaxMatches    (* bound: structures that are allocated                      *)

Matching == [re : Regexps, subject : Subjects, groups : SUBSET (1 .. Groups)]

ASSUME PcreAssumption ==
  /\ Groups \in Nat /\ MaxMatches \in Nat
  /\ NULL \notin Nat \cup Matching \cup [t : Threads, n : Nat]

VARIABLES
  regexps,      (* each is "none", "live" or "freed"                         *)
  last_match,   (* the thread-local variable                                 *)
  heap,         (* the structures that are allocated, by their addresses     *)
  allocated,    (* how many there have been                                  *)
  reading,      (* the call of sub that has found the length of the text     *)
  answer,       (* of the last call: the thread, and what it has been told    *)
  matched       (* history: the thread's last match                          *)

pcreVars == <<regexps, last_match, heap, allocated, reading, answer, matched>>

PcreInit ==
  /\ regexps = [re \in Regexps |-> "none"]
  /\ last_match = [t \in Threads |-> NULL]
  /\ heap = [p \in {} |-> NULL]
  /\ allocated = 0
  /\ reading = NULL
  /\ answer = NULL
  /\ matched = [t \in Threads |-> NULL]

Answer(t, a) == answer' = [to |-> t, told |-> a]

Raise(t, e) == Answer(t, [is |-> e])

-----------------------------------------------------------------------------
(* PCRE.compile, and the finaliser of a regexp that the program has dropped *)

Compile(re) ==
  /\ regexps[re] = "none"
  /\ regexps' = [regexps EXCEPT ![re] = "live"]
  /\ UNCHANGED <<last_match, heap, allocated, reading, answer, matched>>

Finalize(re) ==
  /\ regexps[re] = "live"
  /\ regexps' = [regexps EXCEPT ![re] = "freed"]
  /\ UNCHANGED <<last_match, heap, allocated, reading, answer, matched>>

-----------------------------------------------------------------------------
(* PCRE.matches                                                             *)

(* Mutated: the structure before is not freed.                              *)
MatchesLeaks(t, m) ==
  /\ regexps[m.re] = "live" /\ allocated < MaxMatches
  /\ allocated' = allocated + 1
  /\ heap' = [p \in DOMAIN heap \cup {allocated'} |-> IF p = allocated' THEN m ELSE heap[p]]
  /\ last_match' = [last_match EXCEPT ![t] = allocated']
  /\ matched' = [matched EXCEPT ![t] = m]
  /\ Answer(t, [is |-> "true"])
  /\ UNCHANGED <<regexps, reading>>

(* The new structure replaces the one before, which is freed.  The result of *)
(* pthread_setspecific is ignored and taken to be 0: it needs memory in a   *)
(* thread's first match only.                                               *)
Matches(t, m) ==
  /\ regexps[m.re] = "live" /\ allocated < MaxMatches
  /\ allocated' = allocated + 1
  /\ heap' = [p \in (DOMAIN heap \ {last_match[t]}) \cup {allocated'} |->
                IF p = allocated' THEN m ELSE heap[p]]
  /\ last_match' = [last_match EXCEPT ![t] = allocated']
  /\ matched' = [matched EXCEPT ![t] = m]
  /\ Answer(t, [is |-> "true"])
  /\ UNCHANGED <<regexps, reading>>

(* pcre2_match finds nothing or fails, or the memory is exhausted: what has  *)
(* been allocated is freed, and the match before is kept.                   *)
MatchesNot(t) ==
  /\ \/ Answer(t, [is |-> "false"])
     \/ Raise(t, "Error")
     \/ Raise(t, "Out_of_memory")
  /\ UNCHANGED <<regexps, last_match, heap, allocated, reading, matched>>

-----------------------------------------------------------------------------
(* PCRE.sub and PCRE.subi                                                   *)

(* "called without calling PCRE.matches"; "n must be >= 0".                 *)
SubRefused(t, n) ==
  /\ \/ last_match[t] = NULL /\ Raise(t, "Error")
     \/ last_match[t] # NULL /\ n < 0 /\ Raise(t, "Invalid_argument")
  /\ UNCHANGED <<regexps, last_match, heap, allocated, reading, matched>>

TookPart(n, m) == n \in m.groups \cup {0}

(* The value of pcre2_match is above the last group that took part.         *)
BelowR(n, m) == \E g \in m.groups \cup {0} : n <= g

Text(m, n)     == [is |-> "text", subject |-> m.subject, n |-> n]
NotFound(f, n) == [is |-> "Not_found", f |-> f, n |-> n]
SubError(n)    == [is |-> "sub_error", n |-> n]

(* The offsets of an unset group are -1.                                    *)
Indexes(m, n)  == [is |-> "indexes", subject |-> m.subject, n |-> n, set |-> TookPart(n, m)]

(* The match data point to the regexp, where pcre2_substring_*_bynumber read *)
(* the number of groups: when it has been freed the number may be anything. *)
Misread(m, n) == n > 0 /\ regexps[m.re] = "freed"

(* Mutated: the match of any thread.                                        *)
SubOfAnyThread(t, n) ==
  /\ last_match[t] # NULL /\ n >= 0
  /\ \E p \in DOMAIN heap :
       Answer(t, IF TookPart(n, heap[p]) THEN Text(heap[p], n) ELSE NotFound("sub", n))
  /\ UNCHANGED <<regexps, last_match, heap, allocated, reading, matched>>

(* pcre2_substring_length_bynumber; the text of a group that took part is    *)
(* copied once there is memory for it.                                      *)
Sub(t, n) ==
  /\ last_match[t] # NULL /\ n >= 0
  /\ LET m == heap[last_match[t]]
     IN  \/ TookPart(n, m) /\ reading' = [t |-> t, n |-> n] /\ UNCHANGED answer
         \/ ~TookPart(n, m) /\ Answer(t, NotFound("sub", n)) /\ UNCHANGED reading
         \/ Misread(m, n) /\ Answer(t, NotFound("sub", n)) /\ UNCHANGED reading
         \/ Misread(m, n) /\ n > Groups /\ Answer(t, SubError(n)) /\ UNCHANGED reading
  /\ UNCHANGED <<regexps, last_match, heap, allocated, matched>>

(* pcre2_substring_copy_bynumber, after a collection.                       *)
CopyText ==
  /\ reading # NULL
  /\ LET m == heap[last_match[reading.t]]
     IN  \/ Answer(reading.t, Text(m, reading.n))
         \/ Misread(m, reading.n) /\ Answer(reading.t, SubError(reading.n))
  /\ reading' = NULL
  /\ UNCHANGED <<regexps, last_match, heap, allocated, matched>>

(* The offsets of a group that is not above the last one which took part.   *)
Subi(t, n) ==
  /\ last_match[t] # NULL /\ n >= 0
  /\ LET m == heap[last_match[t]]
     IN  Answer(t, IF BelowR(n, m) THEN Indexes(m, n) ELSE NotFound("subi", n))
  /\ UNCHANGED <<regexps, last_match, heap, allocated, reading, matched>>

(* The destructor of the thread-local variable; another thread may then take *)
(* the number of this one.                                                  *)
ThreadExits(t) ==
  /\ heap' = [p \in DOMAIN heap \ {last_match[t]} |-> heap[p]]
  /\ last_match' = [last_match EXCEPT ![t] = NULL]
  /\ matched' = [matched EXCEPT ![t] = NULL]
  /\ answer' = NULL
  /\ UNCHANGED <<regexps, allocated, reading>>

PcreNext ==
  \/ \E re \in Regexps : Finalize(re)
  \/ CopyText
  \/ /\ reading = NULL
     /\ \/ \E re \in Regexps : Compile(re)
        \/ \E t \in Threads :
             \/ \E m \in Matching : Matches(t, m)
             \/ MatchesNot(t)
             \/ \E n \in -1 .. Groups + 1 : SubRefused(t, n) \/ Sub(t, n) \/ Subi(t, n)
             \/ ThreadExits(t)

-----------------------------------------------------------------------------
(* Properties                                                               *)

(* "Return the nth substring (capture) matched by the previous call to       *)
(* matches in the current thread" (PCRE.mli:79): a text or an index is one of *)
(* the thread's own last match, whatever other threads have matched          *)
(* meanwhile, and Not_found means that there was no such substring.  sub may  *)
(* misread a group, or fail, only after the regexp has been freed; subi has   *)
(* the indexes of a group that took part, and (-1, -1) for one below it that  *)
(* did not (SubiAsSub).  A match is kept as long as its thread can ask for it *)
(* and no longer.                                                           *)
OwnLastMatch ==
  /\ DOMAIN heap = {last_match[t] : t \in Threads} \ {NULL}
  /\ \A t \in Threads : last_match[t] # NULL => heap[last_match[t]] = matched[t]
  /\ answer # NULL =>
       LET a == answer.told
           m == matched[answer.to]
       IN  /\ a.is \in {"text", "indexes", "Not_found", "sub_error"} => m # NULL
           /\ a.is \in {"text", "indexes"} => a.subject = m.subject
           /\ a.is = "text" => TookPart(a.n, m)
           /\ a.is = "indexes" => (a.set <=> TookPart(a.n, m)) /\ \E g \in m.groups \cup {0} : a.n <= g
           /\ a.is = "Not_found" => ~TookPart(a.n, m) \/ (a.f = "sub" /\ Misread(m, a.n))
           /\ a.is = "sub_error" => Misread(m, a.n)

(* subi is "the same as sub but instead of copying the substring out, it      *)
(* returns the indexes", and "if there was no nth substring then this raises  *)
(* Not_found" (PCRE.mli:93): it returns indexes of groups that took part.     *)
SubiAsSub ==
  answer # NULL /\ answer.told.is = "indexes" => TookPart(answer.told.n, matched[answer.to])
=============================================================================
