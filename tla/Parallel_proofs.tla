--------------------------- MODULE Parallel_proofs ---------------------------
(***************************************************************************)
(* Theorems about the thread pool of parallel.c, for any number of domains *)
(* and threads and any number of failures and spurious wakeups.            *)
(***************************************************************************)
EXTENDS Parallel, TLAPS, SequenceTheorems

(* The two mutexes are held where the code between lock and unlock needs     *)
(* them.                                                                     *)
TakeSection == {"take", "bump", "unlock_take"}
RetireSection == {"test", "print", "retire", "broadcast", "unlock_retire"}

MutexInv ==
  /\ \A t \in Threads : pc[t] \in TakeSection => take_mutex = t
  /\ \A t \in Threads : pc[t] \in RetireSection => retire_mutex = t

(* The domain a worker owns has been taken from the counter, which no other  *)
(* worker can be handing out, and exists once the worker is past the test.   *)
TakenInv ==
  /\ \A t \in Threads : pc[t] = "bump" => dom[t] = next_domain_to_take
  /\ \A t \in Threads : pc[t] \in Owning => dom[t] < next_domain_to_take
  /\ \A t \in Threads : pc[t] \in Owning \ {"unlock_take"} => dom[t] \in Domains

(* The output is one domain ahead of the counter exactly between the print   *)
(* and the update, both done by the worker whose turn it is.                 *)
OrderInv ==
  /\ \A t \in Threads : pc[t] \in {"print", "retire"} => dom[t] = next_domain_to_retire
  /\ (\E t \in Threads : pc[t] = "retire") => Len(stdout) = next_domain_to_retire + 1
  /\ (\A t \in Threads : pc[t] # "retire") => Len(stdout) = next_domain_to_retire

(* The workers not yet created have not started, the ones joined are gone.   *)
CallerInv ==
  /\ main = "start" => created = 0 /\ joined = 0
  /\ main = "creating" => joined = 0
  /\ main # "exited" => \A t \in Threads : t >= created => pc[t] = "unborn"
  /\ \A t \in Threads : t < joined => pc[t] = "exited"
  /\ main = "returned" => joined = NrThreads

IInv ==
  /\ TypeOK
  /\ MutexInv
  /\ TakenInv
  /\ OneWorkerPerDomain
  /\ OrderInv
  /\ OutputInOrder
  /\ NoLostWakeup
  /\ CallerInv

-----------------------------------------------------------------------------

LEMMA NrThreadsType == NrThreads \in Nat
BY ParallelAssumption DEF ParallelAssumption, NrThreads, Smaller

(* The number of threads is positive when there is something to do, and no   *)
(* more than the domains.                                                    *)
LEMMA NrThreadsBounds ==
  /\ NrThreads <= NrDomains
  /\ NrDomains > 0 => NrThreads > 0
BY ParallelAssumption DEF ParallelAssumption, NrThreads, Smaller

LEMMA InitIInv == Init => IInv
<1> SUFFICES ASSUME Init PROVE IInv
  OBVIOUS
<1> USE ParallelAssumption, NrThreadsType DEF ParallelAssumption, Init
<1>1. TypeOK
  BY DEF TypeOK, PCs
<1>2. QED
  BY <1>1 DEF IInv, MutexInv, TakenInv, OneWorkerPerDomain, OrderInv,
     OutputInOrder, NoLostWakeup, CallerInv, Threads, TakeSection,
     RetireSection, Owning

(* Every step preserves the types.                                           *)
LEMMA TypeStep == IInv /\ [Next]_vars => TypeOK'
<1> SUFFICES ASSUME IInv, [Next]_vars PROVE TypeOK'
  OBVIOUS
<1> USE ParallelAssumption, NrThreadsType
    DEF ParallelAssumption, TypeOK, PCs, Threads, shared, work, caller, luck
<1> USE DEF IInv
<1>1. CASE Start
  BY <1>1 DEF Start
<1>2. CASE Create
  BY <1>2 DEF Create
<1>3. CASE CreateFails
  BY <1>3 DEF CreateFails
<1>4. CASE Join
  BY <1>4 DEF Join
<1>5. CASE Return
  BY <1>5 DEF Return
<1>7. ASSUME NEW t \in Threads, Worker(t) PROVE TypeOK'
  <2> USE DEF Goto
  <2>1. CASE LockTake(t)
    BY <2>1 DEF LockTake
  <2>2. CASE Take(t)
    BY <2>2 DEF Take
  <2>3. CASE Bump(t)
    BY <2>3 DEF Bump
  <2>4. CASE UnlockTake(t)
    BY <2>4 DEF UnlockTake
  <2>5. CASE Open(t)
    BY <2>5 DEF Open
  <2>6. CASE Work(t)
    <3>1. dom[t] \in Domains
      BY <2>6 DEF Work, TakenInv, Owning
    <3>2. worked' \subseteq Domains /\ bad' \subseteq worked'
      BY <2>6, <3>1 DEF Work
    <3>3. QED
      BY <2>6, <3>2 DEF Work
  <2>7. CASE LockRetire(t)
    BY <2>7 DEF LockRetire
  <2>8. CASE MyTurn(t)
    BY <2>8 DEF MyTurn
  <2>9. CASE Wait(t)
    BY <2>9 DEF Wait
  <2>10. CASE Reacquire(t)
    BY <2>10 DEF Reacquire
  <2>11. CASE PrintOutput(t)
    <3>1. dom[t] \in Domains
      BY <2>11 DEF PrintOutput, TakenInv, Owning
    <3>2. stdout' \in Seq(Domains)
      BY <2>11, <3>1 DEF PrintOutput
    <3>3. QED
      BY <2>11, <3>2 DEF PrintOutput
  <2>12. CASE Retire(t)
    BY <2>12 DEF Retire
  <2>13. CASE Broadcast(t)
    BY <2>13 DEF Broadcast
  <2>14. CASE UnlockRetire(t)
    BY <2>14 DEF UnlockRetire
  <2>15. QED
    BY <1>7, <2>1, <2>2, <2>3, <2>4, <2>5, <2>6, <2>7, <2>8, <2>9, <2>10,
       <2>11, <2>12, <2>13, <2>14 DEF Worker
<1>8. ASSUME NEW t \in Threads, Disturbance(t) PROVE TypeOK'
  <2> USE DEF Goto
  <2>1. CASE OpenFails(t)
    BY <2>1 DEF OpenFails
  <2>2. CASE MutexFails(t)
    BY <2>2 DEF MutexFails
  <2>3. CASE WaitFails(t)
    BY <2>3 DEF WaitFails
  <2>4. CASE SpuriousWakeup(t)
    BY <2>4 DEF SpuriousWakeup
  <2>5. QED
    BY <1>8, <2>1, <2>2, <2>3, <2>4 DEF Disturbance
<1>9. CASE UNCHANGED vars
  BY <1>9 DEF vars
<1>10. QED
  BY <1>1, <1>2, <1>3, <1>4, <1>5, <1>7, <1>8, <1>9 DEF Next, Main

(* Every step preserves mutual exclusion in the two critical sections. *)
LEMMA MutexStep == IInv /\ [Next]_vars => MutexInv'
<1> SUFFICES ASSUME IInv, [Next]_vars PROVE MutexInv'
  OBVIOUS
<1> USE ParallelAssumption, NrThreadsType
    DEF ParallelAssumption, IInv, shared, work, caller, luck
<1> USE DEF TypeOK, PCs, Threads, MutexInv, TakeSection, RetireSection
<1>1. CASE Start
  BY <1>1 DEF Start
<1>2. CASE Create
  BY <1>2 DEF Create
<1>3. CASE CreateFails
  BY <1>3 DEF CreateFails
<1>4. CASE Join
  BY <1>4 DEF Join
<1>5. CASE Return
  BY <1>5 DEF Return
<1>7. ASSUME NEW t \in Threads, Worker(t) PROVE MutexInv'
  <2> USE DEF Goto
  <2>1. CASE LockTake(t)
    BY <2>1 DEF LockTake
  <2>2. CASE Take(t)
    BY <2>2 DEF Take
  <2>3. CASE Bump(t)
    BY <2>3 DEF Bump
  <2>4. CASE UnlockTake(t)
    BY <2>4 DEF UnlockTake
  <2>5. CASE Open(t)
    BY <2>5 DEF Open
  <2>6. CASE Work(t)
    BY <2>6 DEF Work
  <2>7. CASE LockRetire(t)
    BY <2>7 DEF LockRetire
  <2>8. CASE MyTurn(t)
    BY <2>8 DEF MyTurn
  <2>9. CASE Wait(t)
    BY <2>9 DEF Wait
  <2>10. CASE Reacquire(t)
    BY <2>10 DEF Reacquire
  <2>11. CASE PrintOutput(t)
    BY <2>11 DEF PrintOutput
  <2>12. CASE Retire(t)
    BY <2>12 DEF Retire
  <2>13. CASE Broadcast(t)
    BY <2>13 DEF Broadcast
  <2>14. CASE UnlockRetire(t)
    BY <2>14 DEF UnlockRetire
  <2>15. QED
    BY <1>7, <2>1, <2>2, <2>3, <2>4, <2>5, <2>6, <2>7, <2>8, <2>9, <2>10,
       <2>11, <2>12, <2>13, <2>14 DEF Worker
<1>8. ASSUME NEW t \in Threads, Disturbance(t) PROVE MutexInv'
  <2> USE DEF Goto
  <2>1. CASE OpenFails(t)
    BY <2>1 DEF OpenFails
  <2>2. CASE MutexFails(t)
    BY <2>2 DEF MutexFails
  <2>3. CASE WaitFails(t)
    BY <2>3 DEF WaitFails
  <2>4. CASE SpuriousWakeup(t)
    BY <2>4 DEF SpuriousWakeup
  <2>5. QED
    BY <1>8, <2>1, <2>2, <2>3, <2>4 DEF Disturbance
<1>9. CASE UNCHANGED vars
  BY <1>9 DEF vars
<1>10. QED
  BY <1>1, <1>2, <1>3, <1>4, <1>5, <1>7, <1>8, <1>9 DEF Next, Main

(* Every step preserves the ownership of the domains. *)
LEMMA OwnerStep == IInv /\ [Next]_vars => (TakenInv /\ OneWorkerPerDomain)'
<1> SUFFICES ASSUME IInv, [Next]_vars PROVE (TakenInv /\ OneWorkerPerDomain)'
  OBVIOUS
<1> USE ParallelAssumption, NrThreadsType
    DEF ParallelAssumption, IInv, shared, work, caller, luck
<1> USE DEF TypeOK, PCs, Threads, Domains, MutexInv, TakeSection, TakenInv,
            OneWorkerPerDomain, Owning
<1>1. CASE Start
  BY <1>1 DEF Start
<1>2. CASE Create
  BY <1>2 DEF Create
<1>3. CASE CreateFails
  BY <1>3 DEF CreateFails
<1>4. CASE Join
  BY <1>4 DEF Join
<1>5. CASE Return
  BY <1>5 DEF Return
<1>7. ASSUME NEW t \in Threads, Worker(t) PROVE (TakenInv /\ OneWorkerPerDomain)'
  <2> USE DEF Goto
  <2>1. CASE LockTake(t)
    BY <2>1 DEF LockTake
  <2>2. CASE Take(t)
    BY <2>2 DEF Take
  <2>3. CASE Bump(t)
    BY <2>3 DEF Bump
  <2>4. CASE UnlockTake(t)
    BY <2>4 DEF UnlockTake
  <2>5. CASE Open(t)
    BY <2>5 DEF Open
  <2>6. CASE Work(t)
    BY <2>6 DEF Work
  <2>7. CASE LockRetire(t)
    BY <2>7 DEF LockRetire
  <2>8. CASE MyTurn(t)
    BY <2>8 DEF MyTurn
  <2>9. CASE Wait(t)
    BY <2>9 DEF Wait
  <2>10. CASE Reacquire(t)
    BY <2>10 DEF Reacquire
  <2>11. CASE PrintOutput(t)
    BY <2>11 DEF PrintOutput
  <2>12. CASE Retire(t)
    BY <2>12 DEF Retire
  <2>13. CASE Broadcast(t)
    BY <2>13 DEF Broadcast
  <2>14. CASE UnlockRetire(t)
    BY <2>14 DEF UnlockRetire
  <2>15. QED
    BY <1>7, <2>1, <2>2, <2>3, <2>4, <2>5, <2>6, <2>7, <2>8, <2>9, <2>10,
       <2>11, <2>12, <2>13, <2>14 DEF Worker
<1>8. ASSUME NEW t \in Threads, Disturbance(t) PROVE (TakenInv /\ OneWorkerPerDomain)'
  <2> USE DEF Goto
  <2>1. CASE OpenFails(t)
    BY <2>1 DEF OpenFails
  <2>2. CASE MutexFails(t)
    BY <2>2 DEF MutexFails
  <2>3. CASE WaitFails(t)
    BY <2>3 DEF WaitFails
  <2>4. CASE SpuriousWakeup(t)
    BY <2>4 DEF SpuriousWakeup
  <2>5. QED
    BY <1>8, <2>1, <2>2, <2>3, <2>4 DEF Disturbance
<1>9. CASE UNCHANGED vars
  BY <1>9 DEF vars
<1>10. QED
  BY <1>1, <1>2, <1>3, <1>4, <1>5, <1>7, <1>8, <1>9 DEF Next, Main

(* Every step preserves the order of the output and loses no wakeup. *)
LEMMA OrderStep == IInv /\ [Next]_vars => (OrderInv /\ OutputInOrder /\ NoLostWakeup)'
<1> SUFFICES ASSUME IInv, [Next]_vars PROVE (OrderInv /\ OutputInOrder /\ NoLostWakeup)'
  OBVIOUS
<1> USE ParallelAssumption, NrThreadsType
    DEF ParallelAssumption, IInv, shared, work, caller, luck
<1> USE DEF TypeOK, PCs, Threads, MutexInv, RetireSection, OrderInv,
            OutputInOrder, NoLostWakeup
<1>1. CASE Start
  BY <1>1 DEF Start
<1>2. CASE Create
  <2>1. pc[created] = "unborn"
    BY <1>2 DEF Create, CallerInv
  <2>2. \A t \in Threads : pc'[t] = "retire" <=> pc[t] = "retire"
    BY <1>2, <2>1 DEF Create
  <2>3. OrderInv'
    BY <1>2, <2>2 DEF Create
  <2>4. (OutputInOrder /\ NoLostWakeup)'
    BY <1>2, <2>1 DEF Create
  <2>5. QED
    BY <2>3, <2>4
<1>3. CASE CreateFails
  BY <1>3 DEF CreateFails
<1>4. CASE Join
  BY <1>4 DEF Join
<1>5. CASE Return
  BY <1>5 DEF Return
<1>7. ASSUME NEW t \in Threads, Worker(t) PROVE (OrderInv /\ OutputInOrder /\ NoLostWakeup)'
  <2> USE DEF Goto
  <2>1. CASE LockTake(t)
    BY <2>1 DEF LockTake
  <2>2. CASE Take(t)
    BY <2>2 DEF Take
  <2>3. CASE Bump(t)
    BY <2>3 DEF Bump
  <2>4. CASE UnlockTake(t)
    BY <2>4 DEF UnlockTake
  <2>5. CASE Open(t)
    BY <2>5 DEF Open
  <2>6. CASE Work(t)
    BY <2>6 DEF Work
  <2>7. CASE LockRetire(t)
    BY <2>7 DEF LockRetire
  <2>8. CASE MyTurn(t)
    BY <2>8 DEF MyTurn
  <2>9. CASE Wait(t)
    BY <2>9 DEF Wait
  <2>10. CASE Reacquire(t)
    BY <2>10 DEF Reacquire
  <2>11. CASE PrintOutput(t)
    BY <2>11 DEF PrintOutput
  <2>12. CASE Retire(t)
    BY <2>12 DEF Retire
  <2>13. CASE Broadcast(t)
    BY <2>13 DEF Broadcast
  <2>14. CASE UnlockRetire(t)
    BY <2>14 DEF UnlockRetire
  <2>15. QED
    BY <1>7, <2>1, <2>2, <2>3, <2>4, <2>5, <2>6, <2>7, <2>8, <2>9, <2>10,
       <2>11, <2>12, <2>13, <2>14 DEF Worker
<1>8. ASSUME NEW t \in Threads, Disturbance(t) PROVE (OrderInv /\ OutputInOrder /\ NoLostWakeup)'
  <2> USE DEF Goto
  <2>1. CASE OpenFails(t)
    BY <2>1 DEF OpenFails
  <2>2. CASE MutexFails(t)
    BY <2>2 DEF MutexFails
  <2>3. CASE WaitFails(t)
    BY <2>3 DEF WaitFails
  <2>4. CASE SpuriousWakeup(t)
    BY <2>4 DEF SpuriousWakeup
  <2>5. QED
    BY <1>8, <2>1, <2>2, <2>3, <2>4 DEF Disturbance
<1>9. CASE UNCHANGED vars
  BY <1>9 DEF vars
<1>10. QED
  BY <1>1, <1>2, <1>3, <1>4, <1>5, <1>7, <1>8, <1>9 DEF Next, Main

(* Every step preserves what start_threads knows of its workers. *)
LEMMA CallerStep == IInv /\ [Next]_vars => CallerInv'
<1> SUFFICES ASSUME IInv, [Next]_vars PROVE CallerInv'
  OBVIOUS
<1> USE ParallelAssumption, NrThreadsType
    DEF ParallelAssumption, IInv, shared, work, caller, luck
<1> USE NrThreadsBounds DEF TypeOK, PCs, Threads, CallerInv
<1>1. CASE Start
  BY <1>1 DEF Start
<1>2. CASE Create
  BY <1>2 DEF Create
<1>3. CASE CreateFails
  BY <1>3 DEF CreateFails
<1>4. CASE Join
  BY <1>4 DEF Join
<1>5. CASE Return
  BY <1>5 DEF Return
<1>7. ASSUME NEW t \in Threads, Worker(t) PROVE CallerInv'
  <2> USE DEF Goto
  <2>1. CASE LockTake(t)
    BY <2>1 DEF LockTake
  <2>2. CASE Take(t)
    BY <2>2 DEF Take
  <2>3. CASE Bump(t)
    BY <2>3 DEF Bump
  <2>4. CASE UnlockTake(t)
    BY <2>4 DEF UnlockTake
  <2>5. CASE Open(t)
    BY <2>5 DEF Open
  <2>6. CASE Work(t)
    BY <2>6 DEF Work
  <2>7. CASE LockRetire(t)
    BY <2>7 DEF LockRetire
  <2>8. CASE MyTurn(t)
    BY <2>8 DEF MyTurn
  <2>9. CASE Wait(t)
    BY <2>9 DEF Wait
  <2>10. CASE Reacquire(t)
    BY <2>10 DEF Reacquire
  <2>11. CASE PrintOutput(t)
    BY <2>11 DEF PrintOutput
  <2>12. CASE Retire(t)
    BY <2>12 DEF Retire
  <2>13. CASE Broadcast(t)
    BY <2>13 DEF Broadcast
  <2>14. CASE UnlockRetire(t)
    BY <2>14 DEF UnlockRetire
  <2>15. QED
    BY <1>7, <2>1, <2>2, <2>3, <2>4, <2>5, <2>6, <2>7, <2>8, <2>9, <2>10,
       <2>11, <2>12, <2>13, <2>14 DEF Worker
<1>8. ASSUME NEW t \in Threads, Disturbance(t) PROVE CallerInv'
  <2> USE DEF Goto
  <2>1. CASE OpenFails(t)
    BY <2>1 DEF OpenFails
  <2>2. CASE MutexFails(t)
    BY <2>2 DEF MutexFails
  <2>3. CASE WaitFails(t)
    BY <2>3 DEF WaitFails
  <2>4. CASE SpuriousWakeup(t)
    BY <2>4 DEF SpuriousWakeup
  <2>5. QED
    BY <1>8, <2>1, <2>2, <2>3, <2>4 DEF Disturbance
<1>9. CASE UNCHANGED vars
  BY <1>9 DEF vars
<1>10. QED
  BY <1>1, <1>2, <1>3, <1>4, <1>5, <1>7, <1>8, <1>9 DEF Next, Main

(* The conjunction of the parts is inductive.                                *)
THEOREM Invariance == Spec => []IInv
<1>1. IInv /\ [Next]_vars => IInv'
  BY TypeStep, MutexStep, OwnerStep, OrderStep, CallerStep DEF IInv
<1>2. QED
  BY InitIInv, <1>1, PTL DEF Spec

(* Every variable of the thread pool keeps its type.                         *)
THEOREM TypeCorrect == Spec => []TypeOK
<1>1. IInv => TypeOK
  BY DEF IInv
<1>2. QED
  BY <1>1, Invariance, PTL

(* worker_thread prints the domains in numerical order, each one once,       *)
(* however the workers interleave and whichever of them fail.                *)
THEOREM OutputCorrect == Spec => []OutputInOrder
<1>1. IInv => OutputInOrder
  BY DEF IInv
<1>2. QED
  BY <1>1, Invariance, PTL

(* take_mutex gives each domain to one worker only.                          *)
THEOREM OwnershipCorrect == Spec => []OneWorkerPerDomain
<1>1. IInv => OneWorkerPerDomain
  BY DEF IInv
<1>2. QED
  BY <1>1, Invariance, PTL

(* retire_mutex and the broadcast after each update lose no wakeup.          *)
THEOREM WakeupCorrect == Spec => []NoLostWakeup
<1>1. IInv => NoLostWakeup
  BY DEF IInv
<1>2. QED
  BY <1>1, Invariance, PTL

-----------------------------------------------------------------------------
(* The answer of start_threads.                                              *)

(* A -1 recorded by a worker has a cause, and work that failed is recorded.  *)
FailureInv ==
  /\ \A t \in Threads : r[t] = -1 => bad # {} \/ failures + pthread_failures > 0
  /\ bad # {} => \E t \in Threads : r[t] = -1
  /\ main # "exited" /\ failures + pthread_failures > 0 => \E t \in Threads : r[t] = -1

(* As long as no worker has failed, a domain that was taken from the list is *)
(* retired or still in the hands of a worker.                                *)
AccountedInv ==
  (\A t \in Threads : r[t] = 0) =>
    \A d \in Domains :
      d < next_domain_to_take =>
        \/ d < next_domain_to_retire
        \/ \E t \in Threads : pc[t] \in Owning /\ dom[t] = d

(* A worker that exits without an error has seen the end of the list.        *)
ExhaustedInv ==
  \A t \in Threads : pc[t] = "exited" /\ r[t] = 0 => next_domain_to_take >= NrDomains

(* What is printed, or about to be, has been worked on.                      *)
WorkedFirst == {"lock_retire", "test", "waiting", "woken", "print", "retire"}
WorkedInv ==
  /\ \A k \in 1 .. Len(stdout) : stdout[k] \in worked
  /\ \A t \in Threads : pc[t] \in WorkedFirst => dom[t] \in worked

(* No domain is worked on again: what has been worked on was taken before    *)
(* what is in the hands of a worker that has yet to work on it.              *)
OnceInv ==
  /\ \A d \in worked : d < next_domain_to_take
  /\ \A t \in Threads : pc[t] \in {"unlock_take", "open", "work"} => dom[t] \notin worked

(* start_threads counts the errors of the workers it has joined.             *)
ErrorsInv ==
  /\ errors = 0 => \A t \in Threads : t < joined => r[t] = 0
  /\ errors # 0 => \E t \in Threads : t < joined /\ r[t] = -1

ResultInv ==
  /\ main = "start" => result = 0
  /\ main = "returned" => IF NrDomains = 0 THEN result = 0 ELSE result = 0 <=> errors = 0

AInv ==
  /\ IInv
  /\ FailureInv
  /\ AccountedInv
  /\ ExhaustedInv
  /\ WorkedInv
  /\ OnceInv
  /\ ErrorsInv
  /\ ResultInv

LEMMA InitAInv == Init => AInv
<1> SUFFICES ASSUME Init PROVE AInv
  OBVIOUS
<1>1. IInv
  BY InitIInv
<1>2. QED
  BY <1>1, ParallelAssumption, NrThreadsType DEF ParallelAssumption, Init, AInv,
     FailureInv, AccountedInv, ExhaustedInv, WorkedInv, OnceInv, ErrorsInv,
     ResultInv, Threads, Domains, WorkedFirst, Owning

(* A step with an error records it, and only such a step. *)
LEMMA FailureStep == AInv /\ [Next]_vars => FailureInv'
<1> SUFFICES ASSUME AInv, [Next]_vars PROVE FailureInv'
  OBVIOUS
<1> USE ParallelAssumption, NrThreadsType
    DEF ParallelAssumption, AInv, IInv, shared, work, caller, luck, TypeOK, PCs,
        Threads
<1> USE DEF FailureInv
<1>1. CASE Start
  BY <1>1 DEF Start
<1>2. CASE Create
  BY <1>2 DEF Create
<1>3. CASE CreateFails
  BY <1>3 DEF CreateFails
<1>4. CASE Join
  BY <1>4 DEF Join
<1>5. CASE Return
  BY <1>5 DEF Return
<1>7. ASSUME NEW t \in Threads, Worker(t) PROVE FailureInv'
  <2> USE DEF Goto
  <2>1. CASE LockTake(t)
    BY <2>1 DEF LockTake
  <2>2. CASE Take(t)
    BY <2>2 DEF Take
  <2>3. CASE Bump(t)
    BY <2>3 DEF Bump
  <2>4. CASE UnlockTake(t)
    BY <2>4 DEF UnlockTake
  <2>5. CASE Open(t)
    BY <2>5 DEF Open
  <2>6. CASE Work(t)
    BY <2>6 DEF Work
  <2>7. CASE LockRetire(t)
    BY <2>7 DEF LockRetire
  <2>8. CASE MyTurn(t)
    BY <2>8 DEF MyTurn
  <2>9. CASE Wait(t)
    BY <2>9 DEF Wait
  <2>10. CASE Reacquire(t)
    BY <2>10 DEF Reacquire
  <2>11. CASE PrintOutput(t)
    BY <2>11 DEF PrintOutput
  <2>12. CASE Retire(t)
    BY <2>12 DEF Retire
  <2>13. CASE Broadcast(t)
    BY <2>13 DEF Broadcast
  <2>14. CASE UnlockRetire(t)
    BY <2>14 DEF UnlockRetire
  <2>15. QED
    BY <1>7, <2>1, <2>2, <2>3, <2>4, <2>5, <2>6, <2>7, <2>8, <2>9, <2>10,
       <2>11, <2>12, <2>13, <2>14 DEF Worker
<1>8. ASSUME NEW t \in Threads, Disturbance(t) PROVE FailureInv'
  <2> USE DEF Goto
  <2>1. CASE OpenFails(t)
    BY <2>1 DEF OpenFails
  <2>2. CASE MutexFails(t)
    BY <2>2 DEF MutexFails
  <2>3. CASE WaitFails(t)
    BY <2>3 DEF WaitFails
  <2>4. CASE SpuriousWakeup(t)
    BY <2>4 DEF SpuriousWakeup
  <2>5. QED
    BY <1>8, <2>1, <2>2, <2>3, <2>4 DEF Disturbance
<1>9. CASE UNCHANGED vars
  BY <1>9 DEF vars
<1>10. QED
  BY <1>1, <1>2, <1>3, <1>4, <1>5, <1>7, <1>8, <1>9 DEF Next, Main

(* Nothing that accounts for a domain is lost by the step.                   *)
OwnersPersist ==
  /\ \A u \in Threads :
       pc[u] \in Owning /\ dom[u] \in Domains => pc'[u] \in Owning /\ dom'[u] = dom[u]
  /\ (\A u \in Threads : r'[u] = 0) => \A u \in Threads : r[u] = 0
  /\ next_domain_to_take' = next_domain_to_take
  /\ next_domain_to_retire' = next_domain_to_retire

LEMMA AccountedKept == AccountedInv /\ OwnersPersist => AccountedInv'
<1> SUFFICES ASSUME AccountedInv, OwnersPersist,
                    \A u \in Threads : r[u] = 0,
                    NEW d \in Domains, d < next_domain_to_take,
                    ~(d < next_domain_to_retire)
    PROVE \E u \in Threads : pc'[u] \in Owning /\ dom'[u] = d
  BY DEF AccountedInv, OwnersPersist
<1>1. PICK u \in Threads : pc[u] \in Owning /\ dom[u] = d
  BY DEF AccountedInv
<1>2. QED
  BY <1>1 DEF OwnersPersist

(* No domain is forgotten by a step of workers without an error. *)
LEMMA AccountedStep == AInv /\ [Next]_vars => AccountedInv'
<1> SUFFICES ASSUME AInv, [Next]_vars PROVE AccountedInv'
  OBVIOUS
<1> USE ParallelAssumption, NrThreadsType
    DEF ParallelAssumption, AInv, IInv, shared, work, caller, luck, TypeOK, PCs,
        Threads
<1> USE DEF Owning, OwnersPersist
<1>1. CASE Start
  <2>1. OwnersPersist
    BY <1>1 DEF Start
  <2>2. QED
    BY <2>1, AccountedKept DEF AInv
<1>2. CASE Create
  <2>1. pc[created] = "unborn"
    BY <1>2 DEF Create, CallerInv
  <2>2. OwnersPersist
    BY <1>2, <2>1 DEF Create
  <2>3. QED
    BY <2>2, AccountedKept DEF AInv
<1>3. CASE CreateFails
  <2>1. OwnersPersist
    BY <1>3 DEF CreateFails
  <2>2. QED
    BY <2>1, AccountedKept DEF AInv
<1>4. CASE Join
  <2>1. OwnersPersist
    BY <1>4 DEF Join
  <2>2. QED
    BY <2>1, AccountedKept DEF AInv
<1>5. CASE Return
  <2>1. OwnersPersist
    BY <1>5 DEF Return
  <2>2. QED
    BY <2>1, AccountedKept DEF AInv
<1>7. ASSUME NEW t \in Threads, Worker(t) PROVE AccountedInv'
  <2> USE DEF Goto
  <2>1. CASE LockTake(t)
    <3>1. OwnersPersist
      BY <2>1 DEF LockTake
    <3>2. QED
      BY <3>1, AccountedKept DEF AInv
  <2>2. CASE Take(t)
    <3>1. OwnersPersist
      BY <2>2 DEF Take
    <3>2. QED
      BY <3>1, AccountedKept DEF AInv
  <2>3. CASE Bump(t)
    <3>1. /\ pc'[t] \in Owning /\ dom'[t] = next_domain_to_take
          /\ next_domain_to_take' = next_domain_to_take + 1 /\ next_domain_to_retire' = next_domain_to_retire
          /\ \A u \in Threads \ {t} : pc'[u] = pc[u] /\ dom'[u] = dom[u]
          /\ r' = r
      BY <2>3 DEF Bump, TakenInv
    <3>2. SUFFICES ASSUME \A u \in Threads : r[u] = 0,
                          NEW d \in Domains, d < next_domain_to_take',
                          ~(d < next_domain_to_retire')
          PROVE \E u \in Threads : pc'[u] \in Owning /\ dom'[u] = d
      BY <3>1 DEF AccountedInv
    <3>3. d \in Nat
      BY DEF Domains
    <3>4. CASE d = next_domain_to_take
      BY <3>1, <3>4
    <3>5. CASE d < next_domain_to_take
      <4>1. PICK u \in Threads : pc[u] \in Owning /\ dom[u] = d
        BY <3>1, <3>2, <3>5 DEF AccountedInv
      <4>2. u # t
        BY <4>1, <2>3 DEF Bump
      <4>3. QED
        BY <3>1, <4>1, <4>2
    <3>6. QED
      BY <3>1, <3>2, <3>3, <3>4, <3>5
  <2>4. CASE UnlockTake(t)
    <3>1. OwnersPersist
      BY <2>4 DEF UnlockTake, Domains
    <3>2. QED
      BY <3>1, AccountedKept DEF AInv
  <2>5. CASE Open(t)
    <3>1. OwnersPersist
      BY <2>5 DEF Open
    <3>2. QED
      BY <3>1, AccountedKept DEF AInv
  <2>6. CASE Work(t)
    <3>1. OwnersPersist
      BY <2>6 DEF Work
    <3>2. QED
      BY <3>1, AccountedKept DEF AInv
  <2>7. CASE LockRetire(t)
    <3>1. OwnersPersist
      BY <2>7 DEF LockRetire
    <3>2. QED
      BY <3>1, AccountedKept DEF AInv
  <2>8. CASE MyTurn(t)
    <3>1. OwnersPersist
      BY <2>8 DEF MyTurn
    <3>2. QED
      BY <3>1, AccountedKept DEF AInv
  <2>9. CASE Wait(t)
    <3>1. OwnersPersist
      BY <2>9 DEF Wait
    <3>2. QED
      BY <3>1, AccountedKept DEF AInv
  <2>10. CASE Reacquire(t)
    <3>1. OwnersPersist
      BY <2>10 DEF Reacquire
    <3>2. QED
      BY <3>1, AccountedKept DEF AInv
  <2>11. CASE PrintOutput(t)
    <3>1. OwnersPersist
      BY <2>11 DEF PrintOutput
    <3>2. QED
      BY <3>1, AccountedKept DEF AInv
  <2>12. CASE Retire(t)
    <3>1. /\ pc'[t] = "broadcast" /\ dom[t] = next_domain_to_retire
          /\ next_domain_to_take' = next_domain_to_take /\ next_domain_to_retire' = next_domain_to_retire + 1
          /\ \A u \in Threads \ {t} : pc'[u] = pc[u] /\ dom'[u] = dom[u]
          /\ r' = r
      BY <2>12 DEF Retire, OrderInv
    <3>2. SUFFICES ASSUME \A u \in Threads : r[u] = 0,
                          NEW d \in Domains, d < next_domain_to_take',
                          ~(d < next_domain_to_retire')
          PROVE \E u \in Threads : pc'[u] \in Owning /\ dom'[u] = d
      BY <3>1 DEF AccountedInv
    <3>3. d \in Nat
      BY DEF Domains
    <3>4. PICK u \in Threads : pc[u] \in Owning /\ dom[u] = d
      BY <3>1, <3>2, <3>3 DEF AccountedInv
    <3>5. u # t
      BY <3>1, <3>2, <3>3, <3>4
    <3>6. QED
      BY <3>1, <3>4, <3>5
  <2>13. CASE Broadcast(t)
    <3>1. OwnersPersist
      BY <2>13 DEF Broadcast
    <3>2. QED
      BY <3>1, AccountedKept DEF AInv
  <2>14. CASE UnlockRetire(t)
    <3>1. OwnersPersist
      BY <2>14 DEF UnlockRetire
    <3>2. QED
      BY <3>1, AccountedKept DEF AInv
  <2>15. QED
    BY <1>7, <2>1, <2>2, <2>3, <2>4, <2>5, <2>6, <2>7, <2>8, <2>9, <2>10,
       <2>11, <2>12, <2>13, <2>14 DEF Worker
<1>8. ASSUME NEW t \in Threads, Disturbance(t) PROVE AccountedInv'
  <2> USE DEF Goto
  <2>1. CASE OpenFails(t)
    BY <2>1 DEF OpenFails, AccountedInv
  <2>2. CASE MutexFails(t)
    BY <2>2 DEF MutexFails, AccountedInv
  <2>3. CASE WaitFails(t)
    BY <2>3 DEF WaitFails, AccountedInv
  <2>4. CASE SpuriousWakeup(t)
    <3>1. OwnersPersist
      BY <2>4 DEF SpuriousWakeup
    <3>2. QED
      BY <3>1, AccountedKept DEF AInv
  <2>5. QED
    BY <1>8, <2>1, <2>2, <2>3, <2>4 DEF Disturbance
<1>9. CASE UNCHANGED vars
  BY <1>9, AccountedKept DEF vars
<1>10. QED
  BY <1>1, <1>2, <1>3, <1>4, <1>5, <1>7, <1>8, <1>9 DEF Next, Main

(* A worker exits without an error only at the end of the list. *)
LEMMA ExhaustedStep == AInv /\ [Next]_vars => ExhaustedInv'
<1> SUFFICES ASSUME AInv, [Next]_vars PROVE ExhaustedInv'
  OBVIOUS
<1> USE ParallelAssumption, NrThreadsType
    DEF ParallelAssumption, AInv, IInv, shared, work, caller, luck, TypeOK, PCs,
        Threads
<1> USE DEF ExhaustedInv, TakenInv, Owning
<1>1. CASE Start
  BY <1>1 DEF Start
<1>2. CASE Create
  BY <1>2 DEF Create
<1>3. CASE CreateFails
  BY <1>3 DEF CreateFails
<1>4. CASE Join
  BY <1>4 DEF Join
<1>5. CASE Return
  BY <1>5 DEF Return
<1>7. ASSUME NEW t \in Threads, Worker(t) PROVE ExhaustedInv'
  <2> USE DEF Goto
  <2>1. CASE LockTake(t)
    BY <2>1 DEF LockTake
  <2>2. CASE Take(t)
    BY <2>2 DEF Take
  <2>3. CASE Bump(t)
    BY <2>3 DEF Bump
  <2>4. CASE UnlockTake(t)
    BY <2>4 DEF UnlockTake
  <2>5. CASE Open(t)
    BY <2>5 DEF Open
  <2>6. CASE Work(t)
    BY <2>6 DEF Work
  <2>7. CASE LockRetire(t)
    BY <2>7 DEF LockRetire
  <2>8. CASE MyTurn(t)
    BY <2>8 DEF MyTurn
  <2>9. CASE Wait(t)
    BY <2>9 DEF Wait
  <2>10. CASE Reacquire(t)
    BY <2>10 DEF Reacquire
  <2>11. CASE PrintOutput(t)
    BY <2>11 DEF PrintOutput
  <2>12. CASE Retire(t)
    BY <2>12 DEF Retire
  <2>13. CASE Broadcast(t)
    BY <2>13 DEF Broadcast
  <2>14. CASE UnlockRetire(t)
    BY <2>14 DEF UnlockRetire
  <2>15. QED
    BY <1>7, <2>1, <2>2, <2>3, <2>4, <2>5, <2>6, <2>7, <2>8, <2>9, <2>10,
       <2>11, <2>12, <2>13, <2>14 DEF Worker
<1>8. ASSUME NEW t \in Threads, Disturbance(t) PROVE ExhaustedInv'
  <2> USE DEF Goto
  <2>1. CASE OpenFails(t)
    BY <2>1 DEF OpenFails
  <2>2. CASE MutexFails(t)
    BY <2>2 DEF MutexFails
  <2>3. CASE WaitFails(t)
    BY <2>3 DEF WaitFails
  <2>4. CASE SpuriousWakeup(t)
    BY <2>4 DEF SpuriousWakeup
  <2>5. QED
    BY <1>8, <2>1, <2>2, <2>3, <2>4 DEF Disturbance
<1>9. CASE UNCHANGED vars
  BY <1>9 DEF vars
<1>10. QED
  BY <1>1, <1>2, <1>3, <1>4, <1>5, <1>7, <1>8, <1>9 DEF Next, Main

(* Nothing is printed before it has been worked on. *)
LEMMA WorkedStep == AInv /\ [Next]_vars => WorkedInv'
<1> SUFFICES ASSUME AInv, [Next]_vars PROVE WorkedInv'
  OBVIOUS
<1> USE ParallelAssumption, NrThreadsType
    DEF ParallelAssumption, AInv, IInv, shared, work, caller, luck, TypeOK, PCs,
        Threads
<1> USE DEF WorkedInv, WorkedFirst, CallerInv
<1>1. CASE Start
  BY <1>1 DEF Start
<1>2. CASE Create
  BY <1>2 DEF Create
<1>3. CASE CreateFails
  BY <1>3 DEF CreateFails
<1>4. CASE Join
  BY <1>4 DEF Join
<1>5. CASE Return
  BY <1>5 DEF Return
<1>7. ASSUME NEW t \in Threads, Worker(t) PROVE WorkedInv'
  <2> USE DEF Goto
  <2>1. CASE LockTake(t)
    BY <2>1 DEF LockTake
  <2>2. CASE Take(t)
    BY <2>2 DEF Take
  <2>3. CASE Bump(t)
    BY <2>3 DEF Bump
  <2>4. CASE UnlockTake(t)
    BY <2>4 DEF UnlockTake
  <2>5. CASE Open(t)
    BY <2>5 DEF Open
  <2>6. CASE Work(t)
    BY <2>6 DEF Work
  <2>7. CASE LockRetire(t)
    BY <2>7 DEF LockRetire
  <2>8. CASE MyTurn(t)
    BY <2>8 DEF MyTurn
  <2>9. CASE Wait(t)
    BY <2>9 DEF Wait
  <2>10. CASE Reacquire(t)
    BY <2>10 DEF Reacquire
  <2>11. CASE PrintOutput(t)
    BY <2>11 DEF PrintOutput
  <2>12. CASE Retire(t)
    BY <2>12 DEF Retire
  <2>13. CASE Broadcast(t)
    BY <2>13 DEF Broadcast
  <2>14. CASE UnlockRetire(t)
    BY <2>14 DEF UnlockRetire
  <2>15. QED
    BY <1>7, <2>1, <2>2, <2>3, <2>4, <2>5, <2>6, <2>7, <2>8, <2>9, <2>10,
       <2>11, <2>12, <2>13, <2>14 DEF Worker
<1>8. ASSUME NEW t \in Threads, Disturbance(t) PROVE WorkedInv'
  <2> USE DEF Goto
  <2>1. CASE OpenFails(t)
    BY <2>1 DEF OpenFails
  <2>2. CASE MutexFails(t)
    BY <2>2 DEF MutexFails
  <2>3. CASE WaitFails(t)
    BY <2>3 DEF WaitFails
  <2>4. CASE SpuriousWakeup(t)
    BY <2>4 DEF SpuriousWakeup
  <2>5. QED
    BY <1>8, <2>1, <2>2, <2>3, <2>4 DEF Disturbance
<1>9. CASE UNCHANGED vars
  BY <1>9 DEF vars
<1>10. QED
  BY <1>1, <1>2, <1>3, <1>4, <1>5, <1>7, <1>8, <1>9 DEF Next, Main

(* No step works on a domain a second time. *)
LEMMA OnceStep == AInv /\ [Next]_vars => OnceInv'
<1> SUFFICES ASSUME AInv, [Next]_vars PROVE OnceInv'
  OBVIOUS
<1> USE ParallelAssumption, NrThreadsType
    DEF ParallelAssumption, AInv, IInv, shared, work, caller, luck, TypeOK, PCs,
        Threads
<1> USE DEF OnceInv, TakenInv, OneWorkerPerDomain, Owning, CallerInv
<1>1. CASE Start
  BY <1>1 DEF Start
<1>2. CASE Create
  BY <1>2 DEF Create
<1>3. CASE CreateFails
  BY <1>3 DEF CreateFails
<1>4. CASE Join
  BY <1>4 DEF Join
<1>5. CASE Return
  BY <1>5 DEF Return
<1>7. ASSUME NEW t \in Threads, Worker(t) PROVE OnceInv'
  <2> USE DEF Goto
  <2>1. CASE LockTake(t)
    BY <2>1 DEF LockTake
  <2>2. CASE Take(t)
    BY <2>2 DEF Take
  <2>3. CASE Bump(t)
    <3>1. dom[t] = next_domain_to_take /\ next_domain_to_take' = next_domain_to_take + 1
      BY <2>3 DEF Bump
    <3>2. worked \subseteq Nat
      BY DEF Domains
    <3>3. dom[t] \notin worked /\ \A d \in worked : d < next_domain_to_take'
      BY <3>1, <3>2
    <3>4. QED
      BY <2>3, <3>3 DEF Bump
  <2>4. CASE UnlockTake(t)
    BY <2>4 DEF UnlockTake
  <2>5. CASE Open(t)
    BY <2>5 DEF Open
  <2>6. CASE Work(t)
    BY <2>6 DEF Work
  <2>7. CASE LockRetire(t)
    BY <2>7 DEF LockRetire
  <2>8. CASE MyTurn(t)
    BY <2>8 DEF MyTurn
  <2>9. CASE Wait(t)
    BY <2>9 DEF Wait
  <2>10. CASE Reacquire(t)
    BY <2>10 DEF Reacquire
  <2>11. CASE PrintOutput(t)
    BY <2>11 DEF PrintOutput
  <2>12. CASE Retire(t)
    BY <2>12 DEF Retire
  <2>13. CASE Broadcast(t)
    BY <2>13 DEF Broadcast
  <2>14. CASE UnlockRetire(t)
    BY <2>14 DEF UnlockRetire
  <2>15. QED
    BY <1>7, <2>1, <2>2, <2>3, <2>4, <2>5, <2>6, <2>7, <2>8, <2>9, <2>10,
       <2>11, <2>12, <2>13, <2>14 DEF Worker
<1>8. ASSUME NEW t \in Threads, Disturbance(t) PROVE OnceInv'
  <2> USE DEF Goto
  <2>1. CASE OpenFails(t)
    BY <2>1 DEF OpenFails
  <2>2. CASE MutexFails(t)
    BY <2>2 DEF MutexFails
  <2>3. CASE WaitFails(t)
    BY <2>3 DEF WaitFails
  <2>4. CASE SpuriousWakeup(t)
    BY <2>4 DEF SpuriousWakeup
  <2>5. QED
    BY <1>8, <2>1, <2>2, <2>3, <2>4 DEF Disturbance
<1>9. CASE UNCHANGED vars
  BY <1>9 DEF vars
<1>10. QED
  BY <1>1, <1>2, <1>3, <1>4, <1>5, <1>7, <1>8, <1>9 DEF Next, Main

(* The error count and the result follow the workers joined. *)
LEMMA ErrorsStep == AInv /\ [Next]_vars => (ErrorsInv /\ ResultInv)'
<1> SUFFICES ASSUME AInv, [Next]_vars PROVE (ErrorsInv /\ ResultInv)'
  OBVIOUS
<1> USE ParallelAssumption, NrThreadsType
    DEF ParallelAssumption, AInv, IInv, shared, work, caller, luck, TypeOK, PCs,
        Threads
<1> USE NrThreadsBounds DEF ErrorsInv, ResultInv, CallerInv
<1>1. CASE Start
  BY <1>1 DEF Start
<1>2. CASE Create
  BY <1>2 DEF Create
<1>3. CASE CreateFails
  BY <1>3 DEF CreateFails
<1>4. CASE Join
  BY <1>4 DEF Join
<1>5. CASE Return
  BY <1>5 DEF Return
<1>7. ASSUME NEW t \in Threads, Worker(t) PROVE (ErrorsInv /\ ResultInv)'
  <2> USE DEF Goto
  <2>1. CASE LockTake(t)
    BY <2>1 DEF LockTake
  <2>2. CASE Take(t)
    BY <2>2 DEF Take
  <2>3. CASE Bump(t)
    BY <2>3 DEF Bump
  <2>4. CASE UnlockTake(t)
    BY <2>4 DEF UnlockTake
  <2>5. CASE Open(t)
    BY <2>5 DEF Open
  <2>6. CASE Work(t)
    BY <2>6 DEF Work
  <2>7. CASE LockRetire(t)
    BY <2>7 DEF LockRetire
  <2>8. CASE MyTurn(t)
    BY <2>8 DEF MyTurn
  <2>9. CASE Wait(t)
    BY <2>9 DEF Wait
  <2>10. CASE Reacquire(t)
    BY <2>10 DEF Reacquire
  <2>11. CASE PrintOutput(t)
    BY <2>11 DEF PrintOutput
  <2>12. CASE Retire(t)
    BY <2>12 DEF Retire
  <2>13. CASE Broadcast(t)
    BY <2>13 DEF Broadcast
  <2>14. CASE UnlockRetire(t)
    BY <2>14 DEF UnlockRetire
  <2>15. QED
    BY <1>7, <2>1, <2>2, <2>3, <2>4, <2>5, <2>6, <2>7, <2>8, <2>9, <2>10,
       <2>11, <2>12, <2>13, <2>14 DEF Worker
<1>8. ASSUME NEW t \in Threads, Disturbance(t) PROVE (ErrorsInv /\ ResultInv)'
  <2> USE DEF Goto
  <2>1. CASE OpenFails(t)
    BY <2>1 DEF OpenFails
  <2>2. CASE MutexFails(t)
    BY <2>2 DEF MutexFails
  <2>3. CASE WaitFails(t)
    BY <2>3 DEF WaitFails
  <2>4. CASE SpuriousWakeup(t)
    BY <2>4 DEF SpuriousWakeup
  <2>5. QED
    BY <1>8, <2>1, <2>2, <2>3, <2>4 DEF Disturbance
<1>9. CASE UNCHANGED vars
  BY <1>9 DEF vars
<1>10. QED
  BY <1>1, <1>2, <1>3, <1>4, <1>5, <1>7, <1>8, <1>9 DEF Next, Main

(* Once every worker has been joined, no error means that every domain was   *)
(* worked on and printed.                                                    *)
Joined == main # "exited" /\ joined = NrThreads

LEMMA JoinedWithoutError ==
  AInv /\ Joined /\ (NrDomains > 0 => errors = 0) =>
    worked = Domains /\ bad = {} /\ failures + pthread_failures = 0 /\ Len(stdout) = NrDomains
<1> SUFFICES ASSUME AInv, Joined, NrDomains > 0 => errors = 0
    PROVE worked = Domains /\ bad = {} /\ failures + pthread_failures = 0
          /\ Len(stdout) = NrDomains
  OBVIOUS
<1> USE ParallelAssumption, NrThreadsType, NrThreadsBounds
    DEF ParallelAssumption, AInv, IInv, Threads, Joined
<1>1. \A t \in Threads : pc[t] = "exited" /\ t < joined
  BY DEF CallerInv
<1>2. /\ Len(stdout) \in Nat
      /\ \A k \in 1 .. Len(stdout) : stdout[k] \in Domains /\ stdout[k] = k - 1
      /\ Len(stdout) = next_domain_to_retire
  BY <1>1 DEF TypeOK, OutputInOrder, OrderInv
<1>3. Len(stdout) <= NrDomains
  <2>1. CASE Len(stdout) = 0
    BY <2>1
  <2>2. CASE Len(stdout) > 0
    BY <1>2, <2>2 DEF Domains
  <2>3. QED
    BY <1>2, <2>1, <2>2
<1>4. \A t \in Threads : r[t] = 0
  BY <1>1 DEF ErrorsInv
<1>5. bad = {} /\ failures + pthread_failures = 0
  BY <1>4 DEF FailureInv, TypeOK
<1>6. CASE NrDomains = 0
  BY <1>2, <1>3, <1>5, <1>6 DEF TypeOK, Domains
<1>7. CASE NrDomains > 0
  <2>1. next_domain_to_take >= NrDomains
    BY <1>1, <1>4, <1>7 DEF ExhaustedInv
  <2>2. \A d \in Domains : d < Len(stdout)
    <3>1. \A d \in Domains : d < next_domain_to_take
      BY <2>1 DEF Domains, TypeOK
    <3>2. \A u \in Threads : pc[u] \notin Owning
      BY <1>1 DEF Owning
    <3>3. QED
      BY <1>2, <1>4, <3>1, <3>2 DEF AccountedInv
  <2>3. Len(stdout) = NrDomains
    BY <1>2, <1>3, <1>7, <2>2 DEF Domains
  <2>4. \A d \in Domains : stdout[d + 1] = d /\ d + 1 \in 1 .. Len(stdout)
    BY <1>2, <2>3 DEF Domains
  <2>5. Domains \subseteq worked
    BY <2>4 DEF WorkedInv
  <2>6. QED
    BY <1>5, <2>3, <2>5 DEF TypeOK
<1>8. QED
  BY <1>6, <1>7

LEMMA JoinedWithError ==
  AInv /\ Joined /\ errors # 0 => bad # {} \/ failures + pthread_failures > 0
BY DEF AInv, FailureInv, ErrorsInv

(* In a state where start_threads has returned, the invariant gives the      *)
(* answer its documentation promises.                                        *)
LEMMA AnswerFromInv == AInv => AnswerIsHonest
<1> SUFFICES ASSUME AInv, main = "returned"
    PROVE IF result = 0
          THEN worked = Domains /\ bad = {} /\ Len(stdout) = NrDomains
          ELSE bad # {} \/ failures + pthread_failures > 0
  BY DEF AnswerIsHonest
<1>1. Joined
  BY DEF Joined, AInv, IInv, CallerInv
<1>2. NrDomains > 0 => (result = 0 <=> errors = 0)
  BY ParallelAssumption DEF ParallelAssumption, AInv, ResultInv
<1>3. NrDomains = 0 => result = 0
  BY DEF AInv, ResultInv
<1>4. NrDomains > 0 \/ NrDomains = 0
  BY ParallelAssumption DEF ParallelAssumption
<1>5. QED
  BY <1>1, <1>2, <1>3, <1>4, JoinedWithoutError, JoinedWithError

LEMMA AInvariance == Spec => []AInv
<1>1. IInv /\ [Next]_vars => IInv'
  BY TypeStep, MutexStep, OwnerStep, OrderStep, CallerStep DEF IInv
<1>2. AInv /\ [Next]_vars => AInv'
  BY <1>1, FailureStep, AccountedStep, ExhaustedStep,
     WorkedStep, OnceStep, ErrorsStep DEF AInv
<1>3. QED
  BY InitAInv, <1>2, PTL DEF Spec

(* start_threads returns 0 only when every domain was worked on without an   *)
(* error and printed, and -1 only when something failed.                     *)
THEOREM AnswerCorrect == Spec => []AnswerIsHonest
BY AInvariance, AnswerFromInv, PTL

-----------------------------------------------------------------------------
(* The thread pool implements the abstract in-order worker pool.             *)

LEMMA InitRefines == Init => Abstract!Init
BY DEF Init, Abstract!Init

LEMMA StepRefines == AInv /\ [Next]_vars => [Abstract!Next]_(Abstract!vars)
<1> SUFFICES ASSUME AInv, [Next]_vars
    PROVE Abstract!Next \/ UNCHANGED Abstract!vars
  BY DEF Abstract!vars
<1> USE ParallelAssumption, NrThreadsType
    DEF ParallelAssumption, shared, work, caller, luck, Abstract!vars
<1>1. CASE Start
  <2>1. CASE NrDomains > 0
    BY <1>1, <2>1 DEF Start
  <2>2. CASE NrDomains = 0
    <3>1. Joined
      BY <1>1, <2>2, NrThreadsBounds DEF Start, Joined, AInv, IInv, CallerInv
    <3>2. bad = {} /\ failures + pthread_failures = 0 /\ Len(stdout) = NrDomains
      BY <2>2, <3>1, JoinedWithoutError
    <3>3. result = 0
      BY <1>1 DEF Start, AInv, ResultInv
    <3>4. QED
      BY <1>1, <2>2, <3>2, <3>3 DEF Start, Abstract!Next, Abstract!Answer
  <2>3. QED
    BY <2>1, <2>2
<1>2. CASE Create
  BY <1>2 DEF Create
<1>3. CASE CreateFails
  BY <1>3 DEF CreateFails, AInv, IInv, TypeOK, Abstract!Next, Abstract!Lose
<1>4. CASE Join
  BY <1>4 DEF Join
<1>5. CASE Return
  <2>1. Joined
    BY <1>5 DEF Return, Joined
  <2>2. CASE errors = 0
    BY <1>5, <2>1, <2>2, JoinedWithoutError DEF Return, Abstract!Next, Abstract!Answer
  <2>3. CASE errors # 0
    BY <1>5, <2>1, <2>3, JoinedWithError DEF Return, Abstract!Next, Abstract!Answer
  <2>4. QED
    BY <2>2, <2>3
<1>7. ASSUME NEW t \in Threads, Worker(t) PROVE Abstract!Next \/ UNCHANGED Abstract!vars
  <2>1. CASE Work(t)
    <3>1. dom[t] \in 0 .. (NrDomains - 1) /\ dom[t] \notin worked
      BY <2>1 DEF Work, Goto, AInv, IInv, OnceInv, TakenInv, Owning, Domains
    <3>2. Abstract!Complete(dom[t])
      BY <2>1, <3>1 DEF Work, Abstract!Complete
    <3>3. QED
      BY <3>1, <3>2 DEF Abstract!Next
  <2>2. CASE PrintOutput(t)
    <3>1. \A u \in Threads : pc[u] # "retire"
      BY <2>2, ParallelAssumption
         DEF PrintOutput, Goto, AInv, IInv, MutexInv, RetireSection
    <3>2. dom[t] = Len(stdout) /\ dom[t] \in worked
      BY <2>2, <3>1 DEF PrintOutput, Goto, AInv, IInv, OrderInv, WorkedInv, WorkedFirst
    <3>3. Abstract!Retire
      BY <2>2, <3>2 DEF PrintOutput, Abstract!Retire
    <3>4. QED
      BY <3>3 DEF Abstract!Next
  <2>3. CASE ~Work(t) /\ ~PrintOutput(t)
    BY <1>7, <2>3 DEF Worker, LockTake, Take, Bump, UnlockTake, Open, LockRetire,
       MyTurn, Wait, Reacquire, Retire, Broadcast, UnlockRetire
  <2>4. QED
    BY <2>1, <2>2, <2>3
<1>8. ASSUME NEW t \in Threads, Disturbance(t) PROVE Abstract!Next \/ UNCHANGED Abstract!vars
  <2> USE DEF AInv, IInv, TypeOK, Abstract!Next, Abstract!Lose
  <2>1. CASE OpenFails(t)
    BY <2>1 DEF OpenFails
  <2>2. CASE MutexFails(t)
    BY <2>2 DEF MutexFails
  <2>3. CASE WaitFails(t)
    BY <2>3 DEF WaitFails
  <2>4. CASE SpuriousWakeup(t)
    BY <2>4 DEF SpuriousWakeup
  <2>5. QED
    BY <1>8, <2>1, <2>2, <2>3, <2>4 DEF Disturbance
<1>9. CASE UNCHANGED vars
  BY <1>9 DEF vars
<1>10. QED
  BY <1>1, <1>2, <1>3, <1>4, <1>5, <1>7, <1>8, <1>9 DEF Next, Main

(* start_threads implements the in-order worker pool: each of its steps is a *)
(* step of InOrder or leaves the mapped variables alone.                     *)
THEOREM RefinesInOrder == Spec => ImplementsInOrder
<1>1. AInv /\ [Next]_vars => [Abstract!Next]_(Abstract!vars)
  BY StepRefines
<1>2. Spec => []AInv
  BY AInvariance
<1>3. QED
  BY InitRefines, <1>1, <1>2, PTL DEF Spec, ImplementsInOrder, Abstract!Spec
=============================================================================
