----------------------------- MODULE BufferPool -----------------------------
(***************************************************************************)
(* What pc/product.c and pc/consume.c have in common: the three            *)
(* semaphores, the BufferPool structure in the shared segment, and the     *)
(* control state of each process.  Product and Consume extend this module  *)
(* with the steps of the two programs, ProducerConsumer puts them together.*)
(*                                                                         *)
(* A 27-byte product is abstracted to a value of Content, and a memcpy of  *)
(* it to two steps, one per half, so that a torn copy can be told from a   *)
(* whole one.                                                              *)
(***************************************************************************)
EXTENDS SysVIpc

CONSTANTS
  Producers,    \* processes running product.c
  Consumers,    \* processes running consume.c
  NUM,          \* permits, and length of stat[] as product.c declares it
  BUFFER_NUM,   \* buffers, and length of stat[] as consume.c declares it
  Content,      \* what producerN.txt may hold
  Zero,         \* zeroed bytes
  MaxKills,     \* bound: how many processes are killed
  MaxStops      \* bound: how many blocked calls are interrupted

ASSUME ProcAssumption ==
  /\ Producers \cap Consumers = {}
  /\ Proc = Producers \cup Consumers
ASSUME SemAssumption == Sem = {"visit_buff", "consumer_info", "productor_info"}
ASSUME SizeAssumption ==
  /\ NUM \in Nat \ {0} /\ BUFFER_NUM \in Nat
  /\ NUM <= BUFFER_NUM /\ NUM <= SEMVMX
ASSUME ContentAssumption == Zero \notin Content
ASSUME BoundAssumption == MaxKills \in Nat /\ MaxStops \in Nat

VARIABLES
  buffer,     \* buffer[i]: the two halves of the i-th buffer of the pool
  stat,       \* stat[i]: 1 when buffer i holds a product nobody has taken
  pc,         \* pc[p]: where process p is
  index,      \* index[p]: its local variable index
  local,      \* local[p]: its 27-byte array (Product, consumer)
  sink,       \* the contents of consumeN.txt, rewritten from its start each time
  older,      \* history: older[i]: buffers with an undelivered product older than that of i
  passed,     \* history: passed[i]: younger products delivered before that of buffer i
  written,    \* history: written[i]: times the product in buffer i was delivered, until it is released
  faults      \* history: processes killed and calls interrupted so far

poolVars == <<buffer, stat>>
history  == <<older, passed, written>>
vars == <<ipcVars, poolVars, pc, index, local, sink, history, faults>>

Slot == 0..BUFFER_NUM - 1
Halves == [lo : Content \cup {Zero}, hi : Content \cup {Zero}]
Whole(v) == [lo |-> v, hi |-> v]
Blank == Whole(Zero)

\* product.c declares stat[NUM], consume.c stat[BUFFER_NUM]: sizeof(BufferPool)
\* differs, and the model measures it in the number of flags it spans.
PoolSize(p) == IF p \in Producers THEN NUM ELSE BUFFER_NUM

ProducerPc == {"initVisit", "initConsumer", "initProductor", "attach", "clear", "read",
               "waitPermit", "enter", "look", "copyLo", "copyHi", "notify", "publish",
               "skip", "leave"}
ConsumerPc == {"attach", "waitItem", "enter", "look", "takeLo", "takeHi", "deliver",
               "signal", "release", "skip", "leave"}
NotRunning == {"off", "exited", "killed"}

\* Where index designates a buffer of the pool, and where a permit is held.
AtBuffer == {"look", "copyLo", "copyHi", "notify", "publish",
             "takeLo", "takeHi", "deliver", "signal", "release"}
Inside(p) == pc[p] \in AtBuffer \cup {"skip", "leave"}

\* The buffers whose product no consumer has written out.
Undelivered == {i \in Slot : stat[i] = 1 /\ written[i] = 0}

Goto(p, there) == pc' = [pc EXCEPT ![p] = there]

ControlTypeOK ==
  /\ pc \in [Proc -> ProducerPc \cup ConsumerPc \cup NotRunning]
  /\ \A p \in Producers : pc[p] \in ProducerPc \cup NotRunning
  /\ \A c \in Consumers : pc[c] \in ConsumerPc \cup NotRunning
  /\ index \in [Proc -> 0..BUFFER_NUM]
  /\ \A p \in Proc : pc[p] \in AtBuffer => index[p] \in Slot

DataTypeOK ==
  /\ buffer \in [Slot -> Halves]
  /\ stat \in [Slot -> {0, 1}]
  /\ local \in [Proc -> Halves]
  /\ sink \in Halves
  /\ older \in [Slot -> SUBSET Slot]
  /\ passed \in [Slot -> Nat]
  /\ written \in [Slot -> Nat]
  /\ faults \in [kills : 0..MaxKills, stops : 0..MaxStops]

PoolTypeOK == SemTypeOK /\ ControlTypeOK /\ DataTypeOK

\* A fresh segment is zero-filled by the kernel.
PoolInit ==
  /\ SemInit
  /\ buffer = [i \in Slot |-> Blank]
  /\ stat = [i \in Slot |-> 0]
  /\ pc = [p \in Proc |-> "off"]
  /\ index = [p \in Proc |-> 0]
  /\ local = [p \in Proc |-> Blank]
  /\ older = [i \in Slot |-> {}]
  /\ passed = [i \in Slot |-> 0]
  /\ written = [i \in Slot |-> 0]
  /\ sink = Blank
  /\ faults = [kills |-> 0, stops |-> 0]

-----------------------------------------------------------------------------
\* Steps both programs make, from the same text.

\* shmget: first an existing segment, then IPC_CREAT.  The segment is never
\* removed, so what the second call finds decides, and one step stands for both.
AttachTo(p, there) ==
  /\ pc[p] = "attach"
  /\ ShmGet(PoolSize(p))
  /\ Goto(p, there)
  /\ UNCHANGED <<semval, semadj, poolVars, index, local, sink, history, faults>>

\* Both shmget calls fail: main returns before it has touched a semaphore.
AttachFails(p) ==
  /\ pc[p] = "attach"
  /\ ~ShmFits(PoolSize(p))
  /\ Goto(p, "exited")
  /\ UNCHANGED <<ipcVars, poolVars, index, local, sink, history, faults>>

\* semaphore_p(sem, 0) at `here'; main ignores its result, so that a failing
\* semop lets the process through.
DoP(p, sem, here, there) ==
  /\ pc[p] = here
  /\ SemP(p, sem)
  /\ Goto(p, there)
  /\ UNCHANGED <<shm, poolVars, local, sink, history, faults>>

DoV(p, sem, here, there) ==
  /\ pc[p] = here
  /\ SemV(p, sem)
  /\ Goto(p, there)
  /\ UNCHANGED <<shm, poolVars, index, local, sink, history, faults>>

\* index %= BUFFER_NUM; semaphore_p(visit_buff, 0)
Enter(p) ==
  /\ DoP(p, "visit_buff", "enter", "look")
  /\ index' = [index EXCEPT ![p] = @ % BUFFER_NUM]

\* semaphore_v(visit_buff, 0) at the bottom of the inner loop, with running = 1.
LeaveScanning(p) == DoV(p, "visit_buff", "skip", "enter")
=============================================================================
