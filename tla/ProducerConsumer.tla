-------------------------- MODULE ProducerConsumer --------------------------
(***************************************************************************)
(* Producer and consumer processes over one pool, started, killed (both    *)
(* programs loop for ever, so a signal is how they end) and started again  *)
(* by an operator, and the correctness properties of pc/.                  *)
(***************************************************************************)
EXTENDS Product, Consume, FiniteSets

CONSTANT Restartable   \* processes the operator starts again after a kill

ASSUME RestartAssumption == Restartable \subseteq Proc

\* Locals are those of a new process; a killed one's indeterminate arrays are
\* not carried over.
Start(p) ==
  /\ pc[p] = "off" \/ (pc[p] = "killed" /\ p \in Restartable)
  /\ Goto(p, IF p \in Producers THEN "initVisit" ELSE "attach")
  /\ index' = [index EXCEPT ![p] = 0]
  /\ local' = [local EXCEPT ![p] = Blank]
  /\ UNCHANGED <<ipcVars, poolVars, sink, history, faults>>

\* A signal ends the process wherever it is; the kernel applies its undo sums.
Kill(p) ==
  /\ pc[p] \notin NotRunning
  /\ faults.kills < MaxKills
  /\ faults' = [faults EXCEPT !.kills = @ + 1]
  /\ SemExit(p)
  /\ Goto(p, "killed")
  /\ UNCHANGED <<shm, poolVars, index, local, sink, history>>

\* The process is stopped while blocked in semop and resumed: the call fails
\* with EINTR and main, which ignores the result, goes on.
Interrupt(p) ==
  /\ faults.stops < MaxStops
  /\ faults' = [faults EXCEPT !.stops = @ + 1]
  /\ \/ /\ pc[p] = "waitPermit" /\ SemPInterrupted("productor_info") /\ Goto(p, "enter")
        /\ UNCHANGED index
     \/ /\ pc[p] = "waitItem" /\ SemPInterrupted("consumer_info") /\ Goto(p, "enter")
        /\ UNCHANGED index
     \/ /\ pc[p] = "enter" /\ SemPInterrupted("visit_buff") /\ Goto(p, "look")
        /\ index' = [index EXCEPT ![p] = @ % BUFFER_NUM]
  /\ UNCHANGED <<shm, poolVars, local, sink, history>>

Init == PoolInit /\ shm = 0

Next ==
  \/ \E p \in Producers : ProductStep(p)
  \/ \E c \in Consumers : ConsumeStep(c)
  \/ \E p \in Proc : Start(p) \/ AttachFails(p) \/ Kill(p) \/ Interrupt(p)

Spec == Init /\ [][Next]_vars

\* A process that can run is scheduled: the kernel's scheduler starves neither.
\* Nothing is assumed of the operator, who starts and kills processes at will.
Fairness ==
  /\ \A p \in Producers : WF_vars(ProductStep(p))
  /\ \A c \in Consumers : WF_vars(ConsumeStep(c))

FairSpec == Spec /\ Fairness

-----------------------------------------------------------------------------
Full == {i \in Slot : stat[i] = 1}

\* The consumer has written the product of buffer i out, its flag still is 1.
Claimed(i) == \E c \in Consumers : pc[c] \in {"signal", "release"} /\ index[c] = i

Product == {Whole(v) : v \in Content}

\* The abstract cell of a buffer: empty until the flag is set, and again once the
\* product has been written out.
Cells == [i \in Slot |-> IF stat[i] = 1 /\ ~Claimed(i) THEN buffer[i] ELSE Blank]

H == INSTANCE Handoff
       WITH Cell <- Slot, Item <- Product, Empty <- Blank, cells <- Cells, delivered <- sink

-----------------------------------------------------------------------------
(* Safety *)

\* product.c:23 calls a buffer with stat = 1 "not allocatable": the flag read by
\* LookForFree is still 0 while the product is copied in.
AllocatesOnlyFree == \A p \in Producers : Writing(p) => stat[index[p]] = 0

\* consume.c:23 calls a buffer with stat = 0 "not consumable": the flag read by
\* LookForFull is still 1 while the product is copied out.
ConsumesOnlyFull == \A c \in Consumers : Reading(c) => stat[index[c]] = 1

\* No two processes touch the bytes of one buffer at once, unless both read:
\* the flags, not the semaphore visit_buff, which admits NUM, keep them apart.
SlotExclusive ==
  \A p \in Producers, q \in Proc :
    p # q /\ Writing(p) /\ (Writing(q) \/ Reading(q)) => index[p] # index[q]

\* What a consumer writes to consumeN.txt is one product, not halves of two.
DeliveredWhole == \A c \in Consumers : pc[c] = "signal" => sink \in Product

\* All this together: the flags alone keep the processes out of each other's buffers and
\* every product in one piece, whatever the semaphores do.
FlagsExclude == AllocatesOnlyFree /\ ConsumesOnlyFull /\ SlotExclusive /\ DeliveredWhole

\* Products may be delivered out of order, because the consumer is notified
\* before the flag is set and may scan past the buffer; but a product is
\* overtaken by fewer than BUFFER_NUM younger ones, one turn of the pool.
BoundedOvertaking == \A i \in Slot : passed[i] < BUFFER_NUM

\* productor_info lets at most NUM of the BUFFER_NUM buffers be full (not counting
\* one whose return the consumer has already signalled), for as long as the
\* producer's undo sum on it has room: the P that no longer fits takes nothing.
Outstanding ==
  {i \in Full : ~\E c \in Consumers : pc[c] = "release" /\ index[c] = i}
FlowControl ==
  (\A p \in Producers : semadj[p]["productor_info"] < SEMVMX)
    => Cardinality(Outstanding) <= NUM

\* consume.c:114: a consumer scans the pool only after a producer's notification,
\* so there is a product in it or about to be flagged.
Scanning(c) == pc[c] \in {"enter", "look", "skip"}
ScansOnlyWhenNotified ==
  \A c \in Consumers : Scanning(c) => Full # {} \/ \E p \in Producers : pc[p] = "publish"

\* The same, for as long as the consumer's undo sum on consumer_info has room.
NoVainScan ==
  (\A c \in Consumers : semadj[c]["consumer_info"] < SEMVMX) => ScansOnlyWhenNotified

\* The semaphores keep the two programs in step, though each is told before the flags
\* are set: no more than NUM products out, no scan in vain, none overtaken by a turn.
SemaphoresInStep == FlowControl /\ NoVainScan /\ BoundedOvertaking

\* A permit of visit_buff is either in the semaphore or with a process inside the
\* inner loop, even when that process is killed; an interrupted P that lets a process
\* in without a permit adds at most the one it later puts back.  (There is no permit
\* before the initialisation, and none after one that IPC_STAT has cut short.)
PermitsConserved ==
  LET permits == semval["visit_buff"] + Cardinality({q \in Proc : Inside(q)})
  IN  \E n \in {0, NUM} : permits \in n..n + faults.stops

\* A product is written out twice only if a consumer was killed between its write
\* and the clearing of the flag.
RepeatsOnlyAfterKills == \A i \in Slot : written[i] <= 1 + faults.kills

\* consume.c:93 takes it that the producer has run first: a consumer finds the
\* segment the producer made.
ConsumerAttaches == \A c \in Consumers : pc[c] # "exited"

\* product.c:23: stat = 1 says that a producer has used the buffer.
FlaggedMeansProduced == \A i \in Full : buffer[i] # Blank

(* Action properties *)

\* A full buffer is released only once its product has been written out.
NothingLost ==
  [][\A i \in Slot : stat[i] = 1 /\ stat'[i] = 0 => written[i] > 0]_vars

\* A kill costs no product, and each kill repeats a product at most once more.
NothingLostOrRepeated == NothingLost /\ []RepeatsOnlyAfterKills

\* The pool implements the hand-off: whole products, each delivered exactly once.
ImplementsHandoff == H!Spec

(* Liveness *)

\* With a consumer attached (the segment has its size), every full buffer is
\* eventually emptied, though the consumer may scan past it.
EveryBufferDrained ==
  \A i \in Slot : (stat[i] = 1 /\ shm = BUFFER_NUM) ~> (stat[i] = 0)

\* A producer that waits for a permit eventually gets rid of its product.
ProducerProceeds ==
  \A p \in Producers : (pc[p] = "waitPermit" /\ shm = BUFFER_NUM) ~> (pc[p] = "read")

\* The pool never stalls, neither full nor empty.
PoolDrains == EveryBufferDrained /\ ProducerProceeds
=============================================================================
