------------------------------ MODULE SysVIpc ------------------------------
(***************************************************************************)
(* The System V IPC objects that pc/product.c and pc/consume.c share: a    *)
(* family of one-member semaphore sets and one shared-memory segment.      *)
(* This is the Linux kernel seen through the calls the two programs make   *)
(* (semctl SETVAL, semop with SEM_UNDO, shmget, process exit); it is not   *)
(* code of the repository.                                                 *)
(*                                                                         *)
(* The objects outlive the processes.  Every semop of the programs carries *)
(* SEM_UNDO, so the kernel keeps, per process and semaphore, the sum to be *)
(* added back when the process exits.                                      *)
(***************************************************************************)
EXTENDS Integers

CONSTANTS
  Proc,      \* the processes
  Sem,       \* the semaphores
  SEMVMX     \* largest semaphore value and largest undo sum (SEMAEM = SEMVMX = 32767)

ASSUME SEMVMXAssumption == SEMVMX \in Nat \ {0}

VARIABLES
  semval,    \* semval[s]: value of semaphore s
  semadj,    \* semadj[p][s]: undo sum of process p on semaphore s
  shm        \* size with which the segment was created, 0 while it does not exist

ipcVars == <<semval, semadj, shm>>

SemTypeOK ==
  /\ semval \in [Sem -> 0..SEMVMX]
  /\ semadj \in [Proc -> [Sem -> -(SEMVMX + 1)..SEMVMX]]
  /\ shm \in Nat

\* semget creates a set with value 0, so an absent set is one whose value is 0.
SemInit ==
  /\ semval = [s \in Sem |-> 0]
  /\ semadj = [p \in Proc |-> [s \in Sem |-> 0]]

-----------------------------------------------------------------------------
\* The undo sum after an operation of `delta' by p on s; semop refuses with
\* ERANGE an operation that would take it out of the range the kernel can keep.
UndoAfter(p, s, delta) == semadj[p][s] - delta
InUndoRange(n) == n \in -(SEMVMX + 1)..SEMVMX

\* Mutant: semop without SEM_UNDO.
SemAdd_NoUndo(p, s, delta) ==
  semval' = [semval EXCEPT ![s] = @ + delta] /\ UNCHANGED semadj

SemAdd(p, s, delta) ==
  /\ semval' = [semval EXCEPT ![s] = @ + delta]
  /\ semadj' = [semadj EXCEPT ![p][s] = @ - delta]

\* semop of -1: blocks at 0; fails (and takes nothing) when the undo sum is full.
SemP(p, s) ==
  /\ semval[s] > 0
  /\ IF InUndoRange(UndoAfter(p, s, -1))
       THEN SemAdd(p, s, -1)
       ELSE UNCHANGED <<semval, semadj>>

\* semop of -1 that was blocked and returns EINTR: a stopped process resumed
\* by SIGCONT gets this even with no handler installed.
SemPInterrupted(s) ==
  /\ semval[s] = 0
  /\ UNCHANGED <<semval, semadj>>

\* semop of +1: fails when the value or the undo sum would leave its range.
SemV(p, s) ==
  IF semval[s] < SEMVMX /\ InUndoRange(UndoAfter(p, s, 1))
    THEN SemAdd(p, s, 1)
    ELSE UNCHANGED <<semval, semadj>>

\* semctl SETVAL also clears the undo sums every process has on the semaphore.
SemSetVal(s, v) ==
  /\ semval' = [semval EXCEPT ![s] = v]
  /\ semadj' = [p \in Proc |-> [semadj[p] EXCEPT ![s] = 0]]

\* What the kernel does when p exits: it adds p's undo sums, capped to the range.
Capped(n) == IF n < 0 THEN 0 ELSE IF n > SEMVMX THEN SEMVMX ELSE n
SemExit(p) ==
  /\ semval' = [s \in Sem |-> Capped(semval[s] + semadj[p][s])]
  /\ semadj' = [semadj EXCEPT ![p] = [s \in Sem |-> 0]]

-----------------------------------------------------------------------------
\* shmget(key, size) finds a segment of at least this size or fails with EINVAL;
\* with IPC_CREAT it creates the segment when there is none.
ShmFits(size) == shm = 0 \/ shm >= size
ShmGet(size) ==
  /\ ShmFits(size)
  /\ shm' = IF shm = 0 THEN size ELSE shm
=============================================================================
