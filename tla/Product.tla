------------------------------ MODULE Product ------------------------------
(***************************************************************************)
(* pc/product.c: the producer process.  It sets the three semaphores,      *)
(* attaches and clears the pool, then for ever reads a product from        *)
(* producerN.txt, waits for a permit and scans the pool for a free buffer. *)
(***************************************************************************)
EXTENDS BufferPool

CONSTANT IpcStatFaults  \* outcomes of IPC_STAT on init_sem's half-initialised union

ASSUME IpcStatFaultsAssumption == IpcStatFaults \in SUBSET BOOLEAN

\* init_sem writes the int member of the union and passes its pointer member to
\* IPC_STAT, so the high half of the pointer is whatever the stack held.  The
\* call normally fails with EFAULT and SETVAL follows; if the pointer happens to
\* be valid, the semaphore keeps the value it had.
InitSem(p, sem, val, here, there) ==
  /\ pc[p] = here
  /\ \E efault \in IpcStatFaults :
       IF efault THEN SemSetVal(sem, val) ELSE UNCHANGED <<semval, semadj>>
  /\ Goto(p, there)
  /\ UNCHANGED <<shm, poolVars, index, local, sink, history, faults>>

InitVisit(p)     == InitSem(p, "visit_buff", NUM, "initVisit", "initConsumer")
InitConsumer(p)  == InitSem(p, "consumer_info", 0, "initConsumer", "initProductor")
InitProductor(p) == InitSem(p, "productor_info", NUM, "initProductor", "attach")
ProductAttach(p) == AttachTo(p, "clear")

\* memset(shm_ptr, 0, sizeof(BufferPool)) with product.c's own, shorter structure:
\* all the buffers, but only the first NUM flags.
ClearPool(p) ==
  /\ pc[p] = "clear"
  /\ buffer' = [i \in Slot |-> Blank]
  /\ stat' = [i \in Slot |-> IF i < PoolSize(p) THEN 0 ELSE stat[i]]
  /\ Goto(p, "read")
  /\ UNCHANGED <<ipcVars, index, local, sink, history, faults>>

\* open and read producerN.txt, whatever it holds this time.
ReadProduct(p) ==
  /\ pc[p] = "read"
  /\ \E v \in Content : local' = [local EXCEPT ![p] = Whole(v)]
  /\ Goto(p, "waitPermit")
  /\ UNCHANGED <<ipcVars, poolVars, index, sink, history, faults>>

WaitPermit(p) ==
  /\ DoP(p, "productor_info", "waitPermit", "enter")
  /\ UNCHANGED index

\* Mutant: the flag is set when the buffer is chosen, before the copy.
LookForFree_FlagsFirst(p) ==
  /\ pc[p] = "look"
  /\ \/ /\ stat[index[p]] = 0
        /\ stat' = [stat EXCEPT ![index[p]] = 1]
        /\ Goto(p, "copyLo")
        /\ UNCHANGED index
     \/ /\ stat[index[p]] = 1
        /\ Goto(p, "skip")
        /\ index' = [index EXCEPT ![p] = @ + 1]
        /\ UNCHANGED stat
  /\ UNCHANGED <<ipcVars, buffer, local, sink, history, faults>>

\* if (pool->stat[index] == 0) ... else if (pool->stat[index] == 1) index++
LookForFree(p) ==
  /\ pc[p] = "look"
  /\ \/ stat[index[p]] = 0 /\ Goto(p, "copyLo") /\ UNCHANGED index
     \/ /\ stat[index[p]] = 1
        /\ Goto(p, "skip")
        /\ index' = [index EXCEPT ![p] = @ + 1]
  /\ UNCHANGED <<ipcVars, poolVars, local, sink, history, faults>>

\* memcpy(pool->buffer[index], Product, sizeof(Product))
CopyLo(p) ==
  /\ pc[p] = "copyLo"
  /\ buffer' = [buffer EXCEPT ![index[p]] = [lo |-> local[p].lo, hi |-> @.hi]]
  /\ Goto(p, "copyHi")
  /\ UNCHANGED <<ipcVars, stat, index, local, sink, history, faults>>
CopyHi(p) ==
  /\ pc[p] = "copyHi"
  /\ buffer' = [buffer EXCEPT ![index[p]] = [lo |-> @.lo, hi |-> local[p].hi]]
  /\ Goto(p, "notify")
  /\ UNCHANGED <<ipcVars, stat, index, local, sink, history, faults>>

\* Mutant: the consumer is not told.
Notify_Forgotten(p) ==
  /\ pc[p] = "notify" /\ Goto(p, "publish")
  /\ UNCHANGED <<ipcVars, poolVars, index, local, sink, history, faults>>

\* The consumer is told before the flag is set.
Notify(p) == DoV(p, "consumer_info", "notify", "publish")

\* pool->stat[index] = 1; running = 0; index++
Publish(p) ==
  /\ pc[p] = "publish"
  /\ stat' = [stat EXCEPT ![index[p]] = 1]
  /\ older' = [i \in Slot |-> IF i = index[p] THEN Undelivered \ {i}
                                             ELSE older[i] \ {index[p]}]
  /\ passed' = [passed EXCEPT ![index[p]] = 0]
  /\ written' = [written EXCEPT ![index[p]] = 0]
  /\ index' = [index EXCEPT ![p] = @ + 1]
  /\ Goto(p, "leave")
  /\ UNCHANGED <<ipcVars, buffer, local, sink, faults>>

ProductLeave(p) == DoV(p, "visit_buff", "leave", "read")

ProductStep(p) ==
  \/ InitVisit(p) \/ InitConsumer(p) \/ InitProductor(p)
  \/ ProductAttach(p) \/ ClearPool(p)
  \/ ReadProduct(p) \/ WaitPermit(p)
  \/ Enter(p) \/ LookForFree(p) \/ LeaveScanning(p)
  \/ CopyLo(p) \/ CopyHi(p) \/ Notify(p) \/ Publish(p) \/ ProductLeave(p)

Writing(p) == p \in Producers /\ pc[p] \in {"copyLo", "copyHi"}
=============================================================================
