------------------------------- MODULE InOrder -------------------------------
(***************************************************************************)
(* What start_threads promises its caller: the N items are worked on in    *)
(* any order, their output appears in the order of the items and only      *)
(* after the work, and the answer is 0 exactly when everything succeeded.  *)
(***************************************************************************)
EXTENDS Naturals, Integers, Sequences

CONSTANT N   (* the number of items, a natural number *)

VARIABLES
  worked,    (* items whose work has returned                                *)
  bad,       (* items whose work returned an error                           *)
  printed,   (* the output so far                                            *)
  lost,      (* something other than the work went wrong                     *)
  answer     (* "none" until the call returns                                *)

vars == <<worked, bad, printed, lost, answer>>

Init ==
  /\ worked = {} /\ bad = {} /\ printed = <<>>
  /\ lost = FALSE
  /\ answer = "none"

(* The work on an item ends, well or badly; no item is worked on twice.      *)
Complete(i) ==
  /\ i \notin worked
  /\ worked' = worked \cup {i}
  /\ bad' \in {bad, bad \cup {i}}
  /\ UNCHANGED <<printed, lost, answer>>

(* The next item in order is printed, once it has been worked on.            *)
Retire ==
  /\ Len(printed) \in worked
  /\ printed' = Append(printed, Len(printed))
  /\ UNCHANGED <<worked, bad, lost, answer>>

Lose ==
  /\ lost' = TRUE
  /\ UNCHANGED <<worked, bad, printed, answer>>

Answer ==
  /\ answer = "none"
  /\ answer' = IF bad = {} /\ ~lost THEN "0" ELSE "-1"
  /\ answer' = "0" => Len(printed) = N
  /\ UNCHANGED <<worked, bad, printed, lost>>

Next == (\E i \in 0 .. (N - 1) : Complete(i)) \/ Retire \/ Lose \/ Answer

Spec == Init /\ [][Next]_vars
=============================================================================
