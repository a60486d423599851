------------------------------ MODULE Parallel ------------------------------
(***************************************************************************)
(* The thread pool of parallel/parallel.c: start_threads creates           *)
(* NrThreads workers, each worker takes the next domain of the global list *)
(* under take_mutex, works on it, and retires it (prints its output) in    *)
(* the numerical order of the domains, waiting on retire_cond while it is  *)
(* not its turn.                                                           *)
(*                                                                         *)
(* A step is one pthread call, one access to a shared variable, or one     *)
(* stretch of thread-local code.  What the work function prints is         *)
(* abstracted to the number of the domain it printed about.                *)
(***************************************************************************)
EXTENDS Integers, Sequences, FiniteSets

CONSTANTS
  NrDomains,          (* nr_domains, the length of the list of domains       *)
  OptionP,            (* option_P, the -P argument, 0 if it was not given    *)
  EstimatedThreads,   (* what estimate_max_threads () returns                *)
  MAX_THREADS,        (* the limit of parallel.c                             *)
  NoThread,           (* the owner of a free mutex                           *)
  MaxFailures,        (* bound: failures of open_memstream, guestfs_create   *)
  MaxPthreadFailures, (* bound: pthread calls that return an error           *)
  MaxSpurious         (* bound: spurious wakeups of pthread_cond_wait        *)

ParallelAssumption ==
  /\ NrDomains \in Nat
  /\ OptionP \in Nat
  /\ EstimatedThreads \in Nat \ {0}
  /\ MAX_THREADS \in Nat \ {0}
  /\ NoThread \notin Nat
  /\ MaxFailures \in Nat
  /\ MaxPthreadFailures \in Nat
  /\ MaxSpurious \in Nat

ASSUME ParallelAssumption

Smaller(a, b) == IF a <= b THEN a ELSE b

(* nr_threads: -P when it was given, else the estimate capped by MAX_THREADS. *)
NrThreads ==
  IF OptionP > 0 THEN Smaller(NrDomains, OptionP)
  ELSE Smaller(NrDomains, Smaller(MAX_THREADS, EstimatedThreads))

Threads == 0 .. (NrThreads - 1)
Domains == 0 .. (NrDomains - 1)

VARIABLES
  next_domain_to_take,     (* static, protected by take_mutex                *)
  next_domain_to_retire,   (* static, protected by retire_mutex              *)
  take_mutex,              (* the thread that holds it, or NoThread          *)
  retire_mutex,
  pc,                      (* where each worker is                           *)
  dom,                     (* the local i of each worker                     *)
  r,                       (* thread_data[t].r                               *)
  worked,                  (* domains on which work () has returned          *)
  bad,                     (* domains whose work () returned -1              *)
  stdout,                  (* the domains printed, in order                  *)
  main,                    (* where start_threads is                         *)
  created, joined,         (* the two loops over threads in start_threads    *)
  errors,                  (* error count of start_threads                   *)
  result,                  (* what start_threads returned                    *)
  failures, pthread_failures, spurious

shared == <<next_domain_to_take, next_domain_to_retire, take_mutex, retire_mutex>>
work   == <<worked, bad, stdout>>
caller == <<main, created, joined, errors, result>>
luck   == <<failures, pthread_failures, spurious>>
vars   == <<shared, pc, dom, r, work, caller, luck>>

Init ==
  /\ next_domain_to_take = 0
  /\ next_domain_to_retire = 0
  /\ take_mutex = NoThread
  /\ retire_mutex = NoThread
  /\ pc = [t \in Threads |-> "unborn"]
  /\ dom = [t \in Threads |-> 0]
  /\ r = [t \in Threads |-> 0]
  /\ worked = {}
  /\ bad = {}
  /\ stdout = <<>>
  /\ main = "start"
  /\ created = 0
  /\ joined = 0
  /\ errors = 0
  /\ result = 0
  /\ failures = 0
  /\ pthread_failures = 0
  /\ spurious = 0

Goto(t, from, to) == pc[t] = from /\ pc' = [pc EXCEPT ![t] = to]

-----------------------------------------------------------------------------
(* start_threads                                                            *)

(* No domains: return 0 at once.  Otherwise go on to create the threads.    *)
Start ==
  /\ main = "start"
  /\ main' = IF NrDomains = 0 THEN "returned" ELSE "creating"
  /\ UNCHANGED <<shared, pc, dom, r, work, created, joined, errors, result, luck>>

(* pthread_create of the next worker.                                       *)
Create ==
  /\ main = "creating"
  /\ created < NrThreads
  /\ pc' = [pc EXCEPT ![created] = "lock_take"]
  /\ created' = created + 1
  /\ main' = IF created + 1 = NrThreads THEN "joining" ELSE main
  /\ UNCHANGED <<shared, dom, r, work, joined, errors, result, luck>>

(* pthread_create fails: error (EXIT_FAILURE, ...) ends the whole process.  *)
CreateFails ==
  /\ main = "creating"
  /\ pthread_failures < MaxPthreadFailures
  /\ pthread_failures' = pthread_failures + 1
  /\ main' = "exited"
  /\ UNCHANGED <<shared, pc, dom, r, work, created, joined, errors, result, failures, spurious>>

(* pthread_join of the next worker, in the order of creation.  Its errors    *)
(* (parallel.c:155) are those of joining a thread twice, a detached one or   *)
(* oneself, which start_threads never does.                                 *)
Join ==
  /\ main = "joining"
  /\ joined < NrThreads
  /\ pc[joined] = "exited"
  /\ joined' = joined + 1
  /\ errors' = errors + (IF r[joined] = -1 THEN 1 ELSE 0)
  /\ UNCHANGED <<shared, pc, dom, r, work, main, created, result, luck>>

Return ==
  /\ main = "joining"
  /\ joined = NrThreads
  /\ result' = IF errors = 0 THEN 0 ELSE -1
  /\ main' = "returned"
  /\ UNCHANGED <<shared, pc, dom, r, work, created, joined, errors, luck>>

-----------------------------------------------------------------------------
(* worker_thread                                                            *)

Running == main # "exited"

LockTake(t) ==
  /\ Goto(t, "lock_take", "take")
  /\ take_mutex = NoThread
  /\ take_mutex' = t
  /\ UNCHANGED <<next_domain_to_take, next_domain_to_retire, retire_mutex,
                 dom, r, work, caller, luck>>

(* i = next_domain_to_take++, a read and a write of the shared counter.     *)
Take(t) ==
  /\ Goto(t, "take", "bump")
  /\ dom' = [dom EXCEPT ![t] = next_domain_to_take]
  /\ UNCHANGED <<shared, r, work, caller, luck>>

Bump(t) ==
  /\ Goto(t, "bump", "unlock_take")
  /\ next_domain_to_take' = dom[t] + 1
  /\ UNCHANGED <<next_domain_to_retire, take_mutex, retire_mutex, dom, r, work,
                 caller, luck>>

(* Mutated: > for >= in the test for the end of the list.                   *)
UnlockTakeOffByOne(t) ==
  /\ Goto(t, "unlock_take", IF dom[t] > NrDomains THEN "exited" ELSE "open")
  /\ take_mutex' = NoThread
  /\ UNCHANGED <<next_domain_to_take, next_domain_to_retire, retire_mutex,
                 dom, r, work, caller, luck>>

(* The worker leaves the loop when there is no domain i.                    *)
UnlockTake(t) ==
  /\ Goto(t, "unlock_take", IF dom[t] >= NrDomains THEN "exited" ELSE "open")
  /\ take_mutex' = NoThread
  /\ UNCHANGED <<next_domain_to_take, next_domain_to_retire, retire_mutex,
                 dom, r, work, caller, luck>>

(* Mutated: thread_data->r = 0 moved into the loop.                         *)
OpenResets(t) ==
  /\ Goto(t, "open", "work")
  /\ r' = [r EXCEPT ![t] = 0]
  /\ UNCHANGED <<shared, dom, work, caller, luck>>

(* open_memstream and guestfs_create succeed.                               *)
Open(t) ==
  /\ Goto(t, "open", "work")
  /\ UNCHANGED <<shared, dom, r, work, caller, luck>>

(* One of them fails: the thread returns, and does not retire its domain.   *)
OpenFails(t) ==
  /\ failures < MaxFailures
  /\ failures' = failures + 1
  /\ Goto(t, "open", "exited")
  /\ r' = [r EXCEPT ![t] = -1]
  /\ UNCHANGED <<shared, dom, work, caller, pthread_failures, spurious>>

(* The work function returns 0 or -1; the domain is retired in both cases.  *)
Work(t) ==
  /\ Goto(t, "work", "lock_retire")
  /\ worked' = worked \cup {dom[t]}
  /\ \/ UNCHANGED <<r, bad>>
     \/ r' = [r EXCEPT ![t] = -1] /\ bad' = bad \cup {dom[t]}
  /\ UNCHANGED <<shared, dom, stdout, caller, luck>>

LockRetire(t) ==
  /\ Goto(t, "lock_retire", "test")
  /\ retire_mutex = NoThread
  /\ retire_mutex' = t
  /\ UNCHANGED <<next_domain_to_take, next_domain_to_retire, take_mutex,
                 dom, r, work, caller, luck>>

(* Mutated: the domain is retired without waiting for its turn.             *)
MyTurnAlways(t) ==
  /\ Goto(t, "test", "print")
  /\ UNCHANGED <<shared, dom, r, work, caller, luck>>

(* It is this domain's turn: leave the while loop.                          *)
MyTurn(t) ==
  /\ next_domain_to_retire = dom[t]
  /\ Goto(t, "test", "print")
  /\ UNCHANGED <<shared, dom, r, work, caller, luck>>

(* It is not: pthread_cond_wait atomically releases the mutex and sleeps.   *)
Wait(t) ==
  /\ next_domain_to_retire # dom[t]
  /\ Goto(t, "test", "waiting")
  /\ retire_mutex' = NoThread
  /\ UNCHANGED <<next_domain_to_take, next_domain_to_retire, take_mutex,
                 dom, r, work, caller, luck>>

(* pthread_cond_wait may return though nothing was signalled.               *)
SpuriousWakeup(t) ==
  /\ spurious < MaxSpurious
  /\ spurious' = spurious + 1
  /\ Goto(t, "waiting", "woken")
  /\ UNCHANGED <<shared, dom, r, work, caller, failures, pthread_failures>>

(* Mutated: if for while around pthread_cond_wait.                          *)
ReacquireOnce(t) ==
  /\ Goto(t, "woken", "print")
  /\ retire_mutex = NoThread
  /\ retire_mutex' = t
  /\ UNCHANGED <<next_domain_to_take, next_domain_to_retire, take_mutex,
                 dom, r, work, caller, luck>>

(* A woken thread reacquires the mutex inside pthread_cond_wait.            *)
Reacquire(t) ==
  /\ Goto(t, "woken", "test")
  /\ retire_mutex = NoThread
  /\ retire_mutex' = t
  /\ UNCHANGED <<next_domain_to_take, next_domain_to_retire, take_mutex,
                 dom, r, work, caller, luck>>

PrintOutput(t) ==
  /\ Goto(t, "print", "retire")
  /\ stdout' = Append(stdout, dom[t])
  /\ UNCHANGED <<shared, dom, r, worked, bad, caller, luck>>

Retire(t) ==
  /\ Goto(t, "retire", "broadcast")
  /\ next_domain_to_retire' = dom[t] + 1
  /\ UNCHANGED <<next_domain_to_take, take_mutex, retire_mutex, dom, r, work,
                 caller, luck>>

(* Mutated: pthread_cond_signal for pthread_cond_broadcast.                 *)
BroadcastSignal(t) ==
  /\ pc[t] = "broadcast"
  /\ IF \E u \in Threads : pc[u] = "waiting"
     THEN \E u \in Threads :
            /\ pc[u] = "waiting"
            /\ pc' = [pc EXCEPT ![t] = "unlock_retire", ![u] = "woken"]
     ELSE pc' = [pc EXCEPT ![t] = "unlock_retire"]
  /\ UNCHANGED <<shared, dom, r, work, caller, luck>>

(* pthread_cond_broadcast wakes every thread that sleeps on retire_cond.    *)
Broadcast(t) ==
  /\ pc[t] = "broadcast"
  /\ pc' = [u \in Threads |->
              IF u = t THEN "unlock_retire"
              ELSE IF pc[u] = "waiting" THEN "woken" ELSE pc[u]]
  /\ UNCHANGED <<shared, dom, r, work, caller, luck>>

UnlockRetire(t) ==
  /\ Goto(t, "unlock_retire", "lock_take")
  /\ retire_mutex' = NoThread
  /\ UNCHANGED <<next_domain_to_take, next_domain_to_retire, take_mutex,
                 dom, r, work, caller, luck>>

(* pthread_mutex_lock or _unlock returns an error: the thread records -1    *)
(* and returns.  A mutex whose unlock failed stays locked.                  *)
MutexFails(t) ==
  /\ pthread_failures < MaxPthreadFailures
  /\ pthread_failures' = pthread_failures + 1
  /\ pc[t] \in {"lock_take", "unlock_take", "lock_retire", "unlock_retire"}
  /\ pc' = [pc EXCEPT ![t] = "exited"]
  /\ r' = [r EXCEPT ![t] = -1]
  /\ UNCHANGED <<shared, dom, work, caller, failures, spurious>>

(* pthread_cond_wait returns an error: the thread unlocks the mutex, too.   *)
WaitFails(t) ==
  /\ pthread_failures < MaxPthreadFailures
  /\ pthread_failures' = pthread_failures + 1
  /\ next_domain_to_retire # dom[t]
  /\ Goto(t, "test", "exited")
  /\ retire_mutex' = NoThread
  /\ r' = [r EXCEPT ![t] = -1]
  /\ UNCHANGED <<next_domain_to_take, next_domain_to_retire, take_mutex, dom,
                 work, caller, failures, spurious>>

Worker(t) ==
  /\ Running
  /\ \/ LockTake(t) \/ Take(t) \/ Bump(t) \/ UnlockTake(t) \/ Open(t) \/ Work(t)
     \/ LockRetire(t) \/ MyTurn(t) \/ Wait(t) \/ Reacquire(t)
     \/ PrintOutput(t) \/ Retire(t) \/ Broadcast(t) \/ UnlockRetire(t)

Disturbance(t) ==
  /\ Running
  /\ OpenFails(t) \/ MutexFails(t) \/ WaitFails(t) \/ SpuriousWakeup(t)

Main == Start \/ Create \/ Join \/ Return

Next ==
  \/ Main
  \/ CreateFails
  \/ \E t \in Threads : Worker(t) \/ Disturbance(t)

Spec == Init /\ [][Next]_vars

(* The scheduler runs every thread that can run; nothing makes a call fail, *)
(* or a sleeping thread wake up for no reason.                              *)
Fairness == WF_vars(Main) /\ \A t \in Threads : WF_vars(Worker(t))

FairSpec == Spec /\ Fairness

-----------------------------------------------------------------------------
(* Properties                                                               *)

PCs == {"unborn", "lock_take", "take", "bump", "unlock_take", "open", "work",
        "lock_retire", "test", "waiting", "woken", "print", "retire",
        "broadcast", "unlock_retire", "exited"}

(* Every variable has its type; the two statics are only ever natural        *)
(* numbers, and no mutex is owned by something that is not a worker.         *)
TypeOK ==
  /\ next_domain_to_take \in Nat
  /\ next_domain_to_retire \in Nat
  /\ take_mutex \in Threads \cup {NoThread}
  /\ retire_mutex \in Threads \cup {NoThread}
  /\ pc \in [Threads -> PCs]
  /\ dom \in [Threads -> Nat]
  /\ r \in [Threads -> {0, -1}]
  /\ worked \subseteq Domains
  /\ bad \subseteq worked
  /\ stdout \in Seq(Domains)
  /\ main \in {"start", "creating", "joining", "returned", "exited"}
  /\ created \in 0 .. NrThreads
  /\ joined \in 0 .. NrThreads
  /\ errors \in Nat
  /\ result \in {0, -1}
  /\ failures \in Nat /\ pthread_failures \in Nat /\ spurious \in Nat

(* Where a worker owns the domain in its local i.                            *)
Owning == {"unlock_take", "open", "work", "lock_retire", "test", "waiting",
           "woken", "print", "retire"}

(* "retire domains in numerical order" (parallel.c:67): whatever the         *)
(* interleaving of the workers and whichever of them fail, what has been     *)
(* printed is domain 0, 1, 2, ... without a gap or a repetition.             *)
OutputInOrder == \A k \in 1 .. Len(stdout) : stdout[k] = k - 1

(* No domain is worked on or printed by two workers.                         *)
OneWorkerPerDomain ==
  \A t, u \in Threads :
    t # u /\ pc[t] \in Owning /\ pc[u] \in Owning => dom[t] # dom[u]

(* A worker that sleeps on retire_cond although it is its turn is about to   *)
(* be woken: some other worker is between the update of                      *)
(* next_domain_to_retire and its broadcast.                                  *)
NoLostWakeup ==
  \A t \in Threads :
    pc[t] = "waiting" /\ dom[t] = next_domain_to_retire =>
      \E u \in Threads : pc[u] = "broadcast"

(* "returns 0 if all work items completed successfully, or -1 if there was   *)
(* an error" (parallel.c:107): 0 means that every domain has been worked on  *)
(* without error and printed, -1 that something really failed.               *)
AnswerIsHonest ==
  main = "returned" =>
    IF result = 0
    THEN worked = Domains /\ bad = {} /\ Len(stdout) = NrDomains
    ELSE bad # {} \/ failures + pthread_failures > 0

(* Every call of start_threads comes back, or the process ends: no worker is *)
(* left waiting for a turn that never comes (parallel.c:268).                *)
EventuallyReturns == main = "start" ~> main \in {"returned", "exited"}

(* It does so as long as no worker dies with a domain it has not retired.    *)
ReturnsUndisturbed ==
  main = "start" ~> main \in {"returned", "exited"} \/ failures + pthread_failures > 0

(* start_threads implements the abstract in-order worker pool.               *)
Abstract == INSTANCE InOrder WITH
  N <- NrDomains, printed <- stdout,
  lost <- failures + pthread_failures > 0,
  answer <- IF main # "returned" THEN "none" ELSE IF result = 0 THEN "0" ELSE "-1"

ImplementsInOrder == Abstract!Spec
=============================================================================
