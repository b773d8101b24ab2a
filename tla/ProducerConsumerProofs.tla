----------------------- MODULE ProducerConsumerProofs -----------------------
(***************************************************************************)
(* What is proved of pc/product.c and pc/consume.c for every pool size,    *)
(* number of permits, semaphore range, product and fault bound: types, and *)
(* for one producer and one consumer that the flags keep them apart, that  *)
(* what is delivered is whole and nothing is lost, that the permits of     *)
(* visit_buff are conserved, and that the semaphores keep the two in step. *)
(***************************************************************************)
EXTENDS ProducerConsumer, FiniteSetTheorems, TLAPS

(* Types *)

\* The kernel's operations keep the semaphores in range.
LEMMA SemTypes ==
  /\ SemTypeOK /\ UNCHANGED ipcVars => SemTypeOK'
  /\ SemTypeOK /\ UNCHANGED <<semval, semadj>> /\ shm' \in Nat => SemTypeOK'
  /\ \A p \in Proc, s \in Sem : SemTypeOK /\ SemP(p, s) /\ UNCHANGED shm => SemTypeOK'
  /\ \A p \in Proc, s \in Sem : SemTypeOK /\ SemV(p, s) /\ UNCHANGED shm => SemTypeOK'
  /\ \A s \in Sem, v \in 0..SEMVMX :
       SemTypeOK /\ SemSetVal(s, v) /\ UNCHANGED shm => SemTypeOK'
  /\ \A p \in Proc : SemTypeOK /\ SemExit(p) /\ UNCHANGED shm => SemTypeOK'
<1> USE SEMVMXAssumption DEF SemTypeOK
<1>1. SemTypeOK /\ UNCHANGED ipcVars => SemTypeOK'
  BY DEF ipcVars
<1>2. SemTypeOK /\ UNCHANGED <<semval, semadj>> /\ shm' \in Nat => SemTypeOK'
  OBVIOUS
<1>3. ASSUME NEW p \in Proc, NEW s \in Sem, SemTypeOK, SemP(p, s), UNCHANGED shm
      PROVE  SemTypeOK'
  BY <1>3 DEF SemP, SemAdd, UndoAfter, InUndoRange
<1>4. ASSUME NEW p \in Proc, NEW s \in Sem, SemTypeOK, SemV(p, s), UNCHANGED shm
      PROVE  SemTypeOK'
  BY <1>4 DEF SemV, SemAdd, UndoAfter, InUndoRange
<1>5. ASSUME NEW s \in Sem, NEW v \in 0..SEMVMX, SemTypeOK, SemSetVal(s, v), UNCHANGED shm
      PROVE  SemTypeOK'
  BY <1>5 DEF SemSetVal
<1>6. ASSUME NEW p \in Proc, SemTypeOK, SemExit(p), UNCHANGED shm
      PROVE  SemTypeOK'
  BY <1>6 DEF SemExit, Capped
<1> QED BY <1>1, <1>2, <1>3, <1>4, <1>5, <1>6

LEMMA InitTypes == Init => PoolTypeOK
<1> SUFFICES ASSUME Init PROVE SemTypeOK /\ ControlTypeOK /\ DataTypeOK
  BY DEF PoolTypeOK
<1>1. SemTypeOK
  BY SEMVMXAssumption DEF Init, PoolInit, SemInit, SemTypeOK
<1>2. ControlTypeOK
  BY SizeAssumption, ProcAssumption
     DEF Init, PoolInit, ControlTypeOK, NotRunning, AtBuffer
<1>3. DataTypeOK
  BY BoundAssumption DEF Init, PoolInit, DataTypeOK, Halves, Blank, Whole
<1> QED BY <1>1, <1>2, <1>3

\* The places a program has.
PcOf(p) == (IF p \in Producers THEN ProducerPc ELSE ConsumerPc) \cup NotRunning

\* A step that moves one process and sets only its index keeps the control typed.
LEMMA Moves ==
  ASSUME ControlTypeOK, NEW p \in Proc, NEW there \in PcOf(p), Goto(p, there),
         NEW i \in 0..BUFFER_NUM, index' = [index EXCEPT ![p] = i],
         there \in AtBuffer => i \in Slot
  PROVE  ControlTypeOK'
<1>1. pc' \in [Proc -> ProducerPc \cup ConsumerPc \cup NotRunning]
  BY DEF ControlTypeOK, Goto, PcOf
<1>2. \A q \in Producers : pc'[q] \in ProducerPc \cup NotRunning
  BY ProcAssumption DEF ControlTypeOK, Goto, PcOf
<1>3. \A c \in Consumers : pc'[c] \in ConsumerPc \cup NotRunning
  BY ProcAssumption DEF ControlTypeOK, Goto, PcOf
<1>4. index' \in [Proc -> 0..BUFFER_NUM]
  BY DEF ControlTypeOK
<1>5. \A q \in Proc : pc'[q] \in AtBuffer => index'[q] \in Slot
  BY DEF ControlTypeOK, Goto
<1> QED BY <1>1, <1>2, <1>3, <1>4, <1>5 DEF ControlTypeOK

\* The same when the index stays as it is.
LEMMA MovesOn ==
  ASSUME ControlTypeOK, NEW p \in Proc, NEW there \in PcOf(p), Goto(p, there),
         UNCHANGED index, there \in AtBuffer => pc[p] \in AtBuffer
  PROVE  ControlTypeOK'
<1>1. index[p] \in 0..BUFFER_NUM /\ index' = [index EXCEPT ![p] = index[p]]
  BY DEF ControlTypeOK
<1>2. there \in AtBuffer => index[p] \in Slot
  BY DEF ControlTypeOK
<1> QED BY <1>1, <1>2, Moves

\* Data that a step leaves alone keeps its type.
LEMMA SameData ==
  DataTypeOK /\ UNCHANGED <<poolVars, local, sink, history, faults>> => DataTypeOK'
BY DEF DataTypeOK, poolVars, history

\* The steps both programs share.
LEMMA SharedTypes ==
  ASSUME PoolTypeOK, NEW p \in Proc
  PROVE  /\ \A there \in PcOf(p) \ AtBuffer : AttachTo(p, there) => PoolTypeOK'
         /\ AttachFails(p) => PoolTypeOK'
         /\ \A sem \in Sem, here \in PcOf(p), there \in PcOf(p) :
              /\ DoV(p, sem, here, there)
              /\ there \in AtBuffer => here \in AtBuffer
              => PoolTypeOK'
         /\ \A sem \in Sem, here \in PcOf(p), there \in PcOf(p) \ AtBuffer :
              DoP(p, sem, here, there) /\ UNCHANGED index => PoolTypeOK'
         /\ Enter(p) => PoolTypeOK'
<1> USE DEF PoolTypeOK
<1>1. ASSUME NEW there \in PcOf(p) \ AtBuffer, AttachTo(p, there) PROVE PoolTypeOK'
  <2>1. SemTypeOK'
    <3>1. shm' \in Nat
      BY <1>1, SizeAssumption DEF AttachTo, ShmGet, PoolSize, SemTypeOK
    <3> QED BY <1>1, <3>1, SemTypes DEF AttachTo
  <2>2. ControlTypeOK'
    BY <1>1, MovesOn DEF AttachTo
  <2>3. DataTypeOK'
    BY <1>1, SameData DEF AttachTo
  <2> QED BY <2>1, <2>2, <2>3
<1>2. ASSUME AttachFails(p) PROVE PoolTypeOK'
  <2>1. SemTypeOK'
    BY <1>2, SemTypes DEF AttachFails
  <2>2. ControlTypeOK'
    BY <1>2, MovesOn DEF AttachFails, PcOf, NotRunning, AtBuffer
  <2>3. DataTypeOK'
    BY <1>2, SameData DEF AttachFails
  <2> QED BY <2>1, <2>2, <2>3
<1>3. ASSUME NEW sem \in Sem, NEW here \in PcOf(p), NEW there \in PcOf(p),
             DoV(p, sem, here, there), there \in AtBuffer => here \in AtBuffer
      PROVE  PoolTypeOK'
  <2>1. SemTypeOK'
    BY <1>3, SemTypes DEF DoV
  <2>2. ControlTypeOK'
    BY <1>3, MovesOn DEF DoV
  <2>3. DataTypeOK'
    BY <1>3, SameData DEF DoV
  <2> QED BY <2>1, <2>2, <2>3
<1>4. ASSUME NEW sem \in Sem, NEW here \in PcOf(p), NEW there \in PcOf(p) \ AtBuffer,
             DoP(p, sem, here, there), UNCHANGED index
      PROVE  PoolTypeOK'
  <2>1. SemTypeOK'
    BY <1>4, SemTypes DEF DoP
  <2>2. ControlTypeOK'
    BY <1>4, MovesOn DEF DoP
  <2>3. DataTypeOK'
    BY <1>4, SameData DEF DoP
  <2> QED BY <2>1, <2>2, <2>3
<1>5. ASSUME Enter(p) PROVE PoolTypeOK'
  <2>1. SemTypeOK'
    BY <1>5, SemTypes, SemAssumption DEF Enter, DoP
  <2>2. ControlTypeOK'
    <3>1. index[p] % BUFFER_NUM \in 0..BUFFER_NUM /\ index[p] % BUFFER_NUM \in Slot
      BY SizeAssumption DEF ControlTypeOK, Slot
    <3>2. index' = [index EXCEPT ![p] = index[p] % BUFFER_NUM] /\ Goto(p, "look")
      BY <1>5 DEF Enter, DoP
    <3>3. "look" \in PcOf(p)
      BY DEF PcOf, ProducerPc, ConsumerPc
    <3> QED BY <3>1, <3>2, <3>3, Moves
  <2>3. DataTypeOK'
    BY <1>5, SameData DEF Enter, DoP
  <2> QED BY <2>1, <2>2, <2>3
<1> QED BY <1>1, <1>2, <1>3, <1>4, <1>5

\* The steps of product.c.
LEMMA ProductTypes ==
  ASSUME PoolTypeOK, NEW p \in Producers, ProductStep(p)
  PROVE  PoolTypeOK'
<1> USE DEF PoolTypeOK
<1>0. p \in Proc /\ PcOf(p) = ProducerPc \cup NotRunning
  BY ProcAssumption DEF PcOf
<1>1. ASSUME NEW sem \in Sem, NEW v \in 0..SEMVMX, NEW here, NEW there \in ProducerPc \ AtBuffer,
             InitSem(p, sem, v, here, there)
      PROVE  PoolTypeOK'
  <2>1. SemTypeOK'
    <3>1. CASE SemSetVal(sem, v)
      BY <1>1, <3>1, SemTypes DEF InitSem
    <3>2. CASE UNCHANGED <<semval, semadj>>
      BY <1>1, <3>2, SemTypes DEF InitSem, ipcVars
    <3> QED BY <1>1, <3>1, <3>2 DEF InitSem
  <2>2. ControlTypeOK'
    BY <1>0, <1>1, MovesOn DEF InitSem
  <2>3. DataTypeOK'
    BY <1>1, SameData DEF InitSem
  <2> QED BY <2>1, <2>2, <2>3
<1>2. CASE InitVisit(p) \/ InitConsumer(p) \/ InitProductor(p)
  <2>1. NUM \in 0..SEMVMX /\ 0 \in 0..SEMVMX
    BY SizeAssumption, SEMVMXAssumption
  <2>2. {"initConsumer", "initProductor", "attach"} \subseteq ProducerPc \ AtBuffer
    BY DEF ProducerPc, AtBuffer
  <2> QED BY <1>1, <1>2, <2>1, <2>2, SemAssumption DEF InitVisit, InitConsumer, InitProductor
<1>3. CASE ProductAttach(p) \/ Enter(p)
  <2>1. "clear" \in PcOf(p) \ AtBuffer
    BY <1>0 DEF ProducerPc, AtBuffer
  <2> QED BY <1>0, <1>3, <2>1, SharedTypes DEF ProductAttach
<1>4. CASE ClearPool(p)
  <2>1. ControlTypeOK'
    <3>1. "read" \in PcOf(p) \ AtBuffer
      BY <1>0 DEF ProducerPc, AtBuffer
    <3> QED BY <1>0, <1>4, <3>1, MovesOn DEF ClearPool
  <2>2. DataTypeOK'
    <3>1. buffer' \in [Slot -> Halves]
      BY <1>4 DEF ClearPool, Halves, Blank, Whole
    <3>2. stat' \in [Slot -> {0, 1}]
      BY <1>4 DEF ClearPool, DataTypeOK
    <3> QED BY <1>4, <3>1, <3>2 DEF ClearPool, DataTypeOK, history
  <2> QED BY <1>4, <2>1, <2>2, SemTypes DEF ClearPool
<1>5. CASE ReadProduct(p)
  <2>1. ControlTypeOK'
    <3>1. "waitPermit" \in PcOf(p) \ AtBuffer
      BY <1>0 DEF ProducerPc, AtBuffer
    <3> QED BY <1>0, <1>5, <3>1, MovesOn DEF ReadProduct
  <2>2. DataTypeOK'
    <3>1. local' \in [Proc -> Halves]
      BY <1>0, <1>5 DEF ReadProduct, DataTypeOK, Halves, Whole
    <3> QED BY <1>5, <3>1 DEF ReadProduct, DataTypeOK, history, poolVars
  <2> QED BY <1>5, <2>1, <2>2, SemTypes DEF ReadProduct
<1>6. CASE WaitPermit(p)
  <2>1. "waitPermit" \in PcOf(p) /\ "enter" \in PcOf(p) \ AtBuffer
    BY <1>0 DEF ProducerPc, AtBuffer
  <2> QED BY <1>0, <1>6, <2>1, SharedTypes, SemAssumption DEF WaitPermit
<1>7. CASE LookForFree(p)
  <2>1. ControlTypeOK'
    <3>1. {"copyLo", "skip"} \subseteq PcOf(p) /\ "skip" \notin AtBuffer
      BY <1>0 DEF ProducerPc, AtBuffer
    <3>2. index[p] \in Slot /\ pc[p] \in AtBuffer
      BY <1>0, <1>7 DEF LookForFree, ControlTypeOK, AtBuffer
    <3>3. index[p] + 1 \in 0..BUFFER_NUM
      BY <3>2, SizeAssumption DEF Slot
    <3>4. CASE Goto(p, "copyLo") /\ UNCHANGED index
      BY <1>0, <3>1, <3>2, <3>4, MovesOn
    <3>5. CASE Goto(p, "skip") /\ index' = [index EXCEPT ![p] = @ + 1]
      BY <1>0, <3>1, <3>3, <3>5, Moves
    <3> QED BY <1>7, <3>4, <3>5 DEF LookForFree
  <2> QED BY <1>7, <2>1, SemTypes, SameData DEF LookForFree
<1>8. CASE CopyLo(p) \/ CopyHi(p)
  <2>1. index[p] \in Slot /\ pc[p] \in AtBuffer
    BY <1>0, <1>8 DEF CopyLo, CopyHi, ControlTypeOK, AtBuffer
  <2>2. ControlTypeOK'
    <3>1. {"copyHi", "notify"} \subseteq PcOf(p)
      BY <1>0 DEF ProducerPc
    <3> QED BY <1>0, <1>8, <2>1, <3>1, MovesOn DEF CopyLo, CopyHi
  <2>3. DataTypeOK'
    <3>1. local[p] \in Halves /\ buffer[index[p]] \in Halves
      BY <1>0, <2>1 DEF DataTypeOK
    <3>2. buffer' \in [Slot -> Halves]
      BY <1>8, <2>1, <3>1 DEF CopyLo, CopyHi, DataTypeOK, Halves
    <3> QED BY <1>8, <3>2 DEF CopyLo, CopyHi, DataTypeOK, history
  <2> QED BY <1>8, <2>2, <2>3, SemTypes DEF CopyLo, CopyHi
<1>9. CASE Notify(p) \/ LeaveScanning(p) \/ ProductLeave(p)
  <2>1. {"notify", "publish", "skip", "enter", "leave", "read"} \subseteq PcOf(p)
    BY <1>0 DEF ProducerPc
  <2>2. "notify" \in AtBuffer /\ "enter" \notin AtBuffer /\ "read" \notin AtBuffer
    BY DEF AtBuffer
  <2> QED BY <1>0, <1>9, <2>1, <2>2, SharedTypes, SemAssumption
       DEF Notify, LeaveScanning, ProductLeave
<1>10. CASE Publish(p)
  <2>1. index[p] \in Slot
    BY <1>0, <1>10 DEF Publish, ControlTypeOK, AtBuffer
  <2>2. ControlTypeOK'
    <3>1. "leave" \in PcOf(p) \ AtBuffer
      BY <1>0 DEF ProducerPc, AtBuffer
    <3>2. index[p] + 1 \in 0..BUFFER_NUM
      BY <2>1, SizeAssumption DEF Slot
    <3>3. index' = [index EXCEPT ![p] = index[p] + 1] /\ Goto(p, "leave")
      BY <1>10 DEF Publish
    <3> QED BY <1>0, <3>1, <3>2, <3>3, Moves
  <2>3. DataTypeOK'
    <3>1. stat' \in [Slot -> {0, 1}] /\ passed' \in [Slot -> Nat] /\ written' \in [Slot -> Nat]
      BY <1>10, <2>1 DEF Publish, DataTypeOK
    <3>2. older' \in [Slot -> SUBSET Slot]
      BY <1>10, <2>1 DEF Publish, DataTypeOK, Undelivered
    <3> QED BY <1>10, <3>1, <3>2 DEF Publish, DataTypeOK
  <2> QED BY <1>10, <2>2, <2>3, SemTypes DEF Publish
<1> QED BY <1>2, <1>3, <1>4, <1>5, <1>6, <1>7, <1>8, <1>9, <1>10 DEF ProductStep

\* The steps of consume.c.
LEMMA ConsumeTypes ==
  ASSUME PoolTypeOK, NEW c \in Consumers, ConsumeStep(c)
  PROVE  PoolTypeOK'
<1> USE DEF PoolTypeOK
<1>0. c \in Proc /\ PcOf(c) = ConsumerPc \cup NotRunning
  BY ProcAssumption DEF PcOf
<1>1. CASE ConsumeAttach(c) \/ Enter(c)
  <2>1. "waitItem" \in PcOf(c) \ AtBuffer
    BY <1>0 DEF ConsumerPc, AtBuffer
  <2> QED BY <1>0, <1>1, <2>1, SharedTypes DEF ConsumeAttach
<1>2. CASE WaitItem(c)
  <2>1. "waitItem" \in PcOf(c) /\ "enter" \in PcOf(c) \ AtBuffer
    BY <1>0 DEF ConsumerPc, AtBuffer
  <2> QED BY <1>0, <1>2, <2>1, SharedTypes, SemAssumption DEF WaitItem
<1>3. CASE LookForFull(c)
  <2>1. ControlTypeOK'
    <3>1. {"takeLo", "skip"} \subseteq PcOf(c) /\ "skip" \notin AtBuffer
      BY <1>0 DEF ConsumerPc, AtBuffer
    <3>2. index[c] \in Slot /\ pc[c] \in AtBuffer
      BY <1>0, <1>3 DEF LookForFull, ControlTypeOK, AtBuffer
    <3>3. index[c] + 1 \in 0..BUFFER_NUM
      BY <3>2, SizeAssumption DEF Slot
    <3>4. CASE Goto(c, "takeLo") /\ UNCHANGED index
      BY <1>0, <3>1, <3>2, <3>4, MovesOn
    <3>5. CASE Goto(c, "skip") /\ index' = [index EXCEPT ![c] = @ + 1]
      BY <1>0, <3>1, <3>3, <3>5, Moves
    <3> QED BY <1>3, <3>4, <3>5 DEF LookForFull
  <2> QED BY <1>3, <2>1, SemTypes, SameData DEF LookForFull
<1>4. CASE TakeLo(c) \/ TakeHi(c)
  <2>1. index[c] \in Slot /\ pc[c] \in AtBuffer
    BY <1>0, <1>4 DEF TakeLo, TakeHi, ControlTypeOK, AtBuffer
  <2>2. ControlTypeOK'
    <3>1. {"takeHi", "deliver"} \subseteq PcOf(c)
      BY <1>0 DEF ConsumerPc
    <3> QED BY <1>0, <1>4, <2>1, <3>1, MovesOn DEF TakeLo, TakeHi
  <2>3. DataTypeOK'
    <3>1. local[c] \in Halves /\ buffer[index[c]] \in Halves
      BY <1>0, <2>1 DEF DataTypeOK
    <3>2. local' \in [Proc -> Halves]
      BY <1>0, <1>4, <3>1 DEF TakeLo, TakeHi, DataTypeOK, Halves
    <3> QED BY <1>4, <3>2 DEF TakeLo, TakeHi, DataTypeOK, history, poolVars
  <2> QED BY <1>4, <2>2, <2>3, SemTypes DEF TakeLo, TakeHi
<1>5. CASE Deliver(c)
  <2>1. index[c] \in Slot /\ pc[c] \in AtBuffer
    BY <1>0, <1>5 DEF Deliver, ControlTypeOK, AtBuffer
  <2>2. ControlTypeOK'
    <3>1. "signal" \in PcOf(c)
      BY <1>0 DEF ConsumerPc
    <3> QED BY <1>0, <1>5, <2>1, <3>1, MovesOn DEF Deliver
  <2>3. DataTypeOK'
    <3>1. sink' \in Halves
      BY <1>0, <1>5 DEF Deliver, DataTypeOK
    <3>2. older' \in [Slot -> SUBSET Slot]
      BY <1>5, <2>1 DEF Deliver, DataTypeOK
    <3>3. passed' \in [Slot -> Nat]
      BY <1>5, <2>1 DEF Deliver, DataTypeOK
    <3>4. written' \in [Slot -> Nat]
      BY <1>5, <2>1 DEF Deliver, DataTypeOK
    <3> QED BY <1>5, <3>1, <3>2, <3>3, <3>4 DEF Deliver, DataTypeOK, poolVars
  <2> QED BY <1>5, <2>2, <2>3, SemTypes DEF Deliver
<1>6. CASE SignalProductor(c) \/ LeaveScanning(c) \/ ConsumeLeave(c)
  <2>1. {"signal", "release", "skip", "enter", "leave", "waitItem"} \subseteq PcOf(c)
    BY <1>0 DEF ConsumerPc
  <2>2. "signal" \in AtBuffer /\ "enter" \notin AtBuffer /\ "waitItem" \notin AtBuffer
    BY DEF AtBuffer
  <2> QED BY <1>0, <1>6, <2>1, <2>2, SharedTypes, SemAssumption
       DEF SignalProductor, LeaveScanning, ConsumeLeave
<1>7. CASE Release(c)
  <2>1. index[c] \in Slot
    BY <1>0, <1>7 DEF Release, ControlTypeOK, AtBuffer
  <2>2. ControlTypeOK'
    <3>1. "leave" \in PcOf(c) \ AtBuffer
      BY <1>0 DEF ConsumerPc, AtBuffer
    <3>2. index[c] + 1 \in 0..BUFFER_NUM
      BY <2>1, SizeAssumption DEF Slot
    <3>3. index' = [index EXCEPT ![c] = index[c] + 1] /\ Goto(c, "leave")
      BY <1>7 DEF Release
    <3> QED BY <1>0, <3>1, <3>2, <3>3, Moves
  <2>3. DataTypeOK'
    BY <1>7, <2>1 DEF Release, DataTypeOK
  <2> QED BY <1>7, <2>2, <2>3, SemTypes DEF Release
<1> QED BY <1>1, <1>2, <1>3, <1>4, <1>5, <1>6, <1>7 DEF ConsumeStep

\* The steps of the operator and the kernel.
LEMMA OutsideTypes ==
  ASSUME PoolTypeOK, NEW p \in Proc, Start(p) \/ AttachFails(p) \/ Kill(p) \/ Interrupt(p)
  PROVE  PoolTypeOK'
<1> USE DEF PoolTypeOK
<1>1. CASE Start(p)
  <2>1. ControlTypeOK'
    <3> DEFINE there == IF p \in Producers THEN "initVisit" ELSE "attach"
    <3>1. there \in PcOf(p) \ AtBuffer
      BY DEF PcOf, ProducerPc, ConsumerPc, AtBuffer
    <3>2. Goto(p, there) /\ index' = [index EXCEPT ![p] = 0]
      BY <1>1 DEF Start
    <3>3. 0 \in 0..BUFFER_NUM
      BY SizeAssumption
    <3> QED BY <3>1, <3>2, <3>3, Moves
  <2>2. DataTypeOK'
    BY <1>1 DEF Start, DataTypeOK, Blank, Whole, Halves, poolVars, history
  <2> QED BY <1>1, <2>1, <2>2, SemTypes DEF Start
<1>2. CASE AttachFails(p)
  BY <1>2, SharedTypes
<1>3. CASE Kill(p)
  <2>1. ControlTypeOK'
    BY <1>3, MovesOn DEF Kill, PcOf, NotRunning, AtBuffer
  <2>2. DataTypeOK'
    <3>1. faults' \in [kills : 0..MaxKills, stops : 0..MaxStops]
      BY <1>3, BoundAssumption DEF Kill, DataTypeOK
    <3> QED BY <1>3, <3>1 DEF Kill, DataTypeOK, poolVars, history
  <2> QED BY <1>3, <2>1, <2>2, SemTypes DEF Kill
<1>4. CASE Interrupt(p)
  <2>1. ControlTypeOK'
    <3>1. \/ Goto(p, "enter") /\ UNCHANGED index
          \/ Goto(p, "look") /\ index' = [index EXCEPT ![p] = index[p] % BUFFER_NUM]
      BY <1>4 DEF Interrupt
    <3>2. {"enter", "look"} \subseteq PcOf(p) /\ "enter" \notin AtBuffer
      BY DEF PcOf, ProducerPc, ConsumerPc, AtBuffer
    <3>3. index[p] % BUFFER_NUM \in 0..BUFFER_NUM /\ index[p] % BUFFER_NUM \in Slot
      BY SizeAssumption DEF ControlTypeOK, Slot
    <3> QED BY <3>1, <3>2, <3>3, Moves, MovesOn
  <2>2. DataTypeOK'
    <3>1. faults' \in [kills : 0..MaxKills, stops : 0..MaxStops]
      BY <1>4, BoundAssumption DEF Interrupt, DataTypeOK
    <3> QED BY <1>4, <3>1 DEF Interrupt, DataTypeOK, poolVars, history
  <2>3. UNCHANGED <<semval, semadj, shm>>
    BY <1>4 DEF Interrupt, SemPInterrupted
  <2> QED BY <2>1, <2>2, <2>3, SemTypes DEF ipcVars
<1> QED BY <1>1, <1>2, <1>3, <1>4

LEMMA NextTypes == PoolTypeOK /\ [Next]_vars => PoolTypeOK'
<1>1. PoolTypeOK /\ UNCHANGED vars => PoolTypeOK'
  BY SemTypes, SameData DEF PoolTypeOK, ControlTypeOK, vars
<1> QED BY <1>1, ProductTypes, ConsumeTypes, OutsideTypes DEF Next

\* Every variable keeps its type, whatever the number of processes and the faults:
\* no index leaves the pool, no semaphore its range.
THEOREM TypeCorrect == Spec => []PoolTypeOK
BY InitTypes, NextTypes, PTL DEF Spec

-----------------------------------------------------------------------------
(* One producer, one consumer *)

\* The pair the programs were written for; the producer is not run a second time.
OnePair ==
  /\ \A p, q \in Producers : p = q
  /\ \A c, d \in Consumers : c = d
  /\ Producers \cap Restartable = {}

Early == {"off", "initVisit", "initConsumer", "initProductor", "attach", "clear"}
Filling == {"copyLo", "copyHi", "notify", "publish"}
Carrying == {"waitPermit", "enter", "look", "skip"} \cup Filling
Emptying == {"takeLo", "takeHi", "deliver", "signal", "release"}

\* What holds of the producer, of the consumer, and of the pool.
ProducerOK(p) ==
  /\ pc[p] \in Early => \A i \in Slot : stat[i] = 0
  /\ pc[p] \in Filling => stat[index[p]] = 0
  /\ pc[p] \in Carrying => local[p] \in Product
  /\ pc[p] = "copyHi" => buffer[index[p]].lo = local[p].lo
  /\ pc[p] \in {"notify", "publish"} => buffer[index[p]] = local[p]

ConsumerOK(c) ==
  /\ pc[c] \in Emptying => stat[index[c]] = 1
  /\ pc[c] = "takeHi" => local[c].lo = buffer[index[c]].lo
  /\ pc[c] = "deliver" => local[c] = buffer[index[c]]
  /\ pc[c] = "signal" => sink \in Product

FullWhole == \A i \in Slot : stat[i] = 1 => buffer[i] \in Product

PairInv ==
  /\ \A p \in Producers : ProducerOK(p)
  /\ \A c \in Consumers : ConsumerOK(c)
  /\ FullWhole

\* A full buffer and an empty flag in no process's hands stay what they are.
LEMMA ConsumerUndisturbed ==
  ASSUME ControlTypeOK, NEW c \in Consumers, ConsumerOK(c),
         pc'[c] = pc[c], index'[c] = index[c], local'[c] = local[c], sink' = sink,
         \A i \in Slot : stat[i] = 1 => stat'[i] = 1 /\ buffer'[i] = buffer[i]
  PROVE  ConsumerOK(c)'
<1>1. c \in Proc
  BY ProcAssumption
<1>2. pc[c] \in Emptying => index[c] \in Slot
  BY <1>1 DEF ControlTypeOK, Emptying, AtBuffer
<1>3. CASE pc[c] \in Emptying
  BY <1>2, <1>3 DEF ConsumerOK
<1>4. CASE pc[c] \notin Emptying
  BY <1>4 DEF ConsumerOK, Emptying
<1> QED BY <1>3, <1>4

LEMMA ProducerUndisturbed ==
  ASSUME ControlTypeOK, NEW p \in Producers, ProducerOK(p),
         pc'[p] = pc[p], index'[p] = index[p], local'[p] = local[p], buffer' = buffer,
         \A i \in Slot : stat[i] = 0 => stat'[i] = 0
  PROVE  ProducerOK(p)'
<1>1. p \in Proc
  BY ProcAssumption
<1>2. pc[p] \in Filling => index[p] \in Slot
  BY <1>1 DEF ControlTypeOK, Filling, AtBuffer
<1>3. pc[p] \in Early => \A i \in Slot : stat'[i] = 0
  BY DEF ProducerOK
<1>4. pc[p] \in Filling => stat'[index[p]] = 0
  BY <1>2 DEF ProducerOK
<1> QED BY <1>3, <1>4 DEF ProducerOK

\* A step of the producer leaves the consumer to itself, and the other way round.
LEMMA OthersStay ==
  ASSUME ControlTypeOK, NEW p \in Proc, NEW there, Goto(p, there), NEW q \in Proc \ {p}
  PROVE  pc'[q] = pc[q]
BY DEF ControlTypeOK, Goto

\* The producer sets up: the flags are all clear until it has cleared them.
LEMMA SetUpKeeps ==
  ASSUME OnePair, PoolTypeOK, PairInv, NEW p \in Producers,
         NEW there \in Early \cup {"read"}, Goto(p, there), pc[p] \in Early,
         UNCHANGED <<buffer, stat, index, local, sink>>
  PROVE  PairInv'
<1>1. p \in Proc /\ pc'[p] = there /\ \A q \in Proc \ {p} : pc'[q] = pc[q]
  BY ProcAssumption DEF PoolTypeOK, ControlTypeOK, Goto
<1>2. ProducerOK(p)'
  BY <1>1 DEF PairInv, ProducerOK, Early, Filling, Carrying
<1>3. \A c \in Consumers : ConsumerOK(c)'
  BY <1>1, ConsumerUndisturbed, ProcAssumption DEF PoolTypeOK, PairInv
<1> QED BY <1>2, <1>3 DEF PairInv, FullWhole, OnePair

\* A step of the producer that writes neither the pool nor its copy of the product
\* keeps what held of it, if what holds at its new place follows.
LEMMA ProducerMoves ==
  ASSUME OnePair, PoolTypeOK, PairInv, NEW p \in Producers, NEW there, Goto(p, there),
         UNCHANGED <<buffer, stat, local, sink>>,
         \A q \in Proc \ {p} : index'[q] = index[q],
         ProducerOK(p)'
  PROVE  PairInv'
<1>1. p \in Proc /\ \A q \in Proc \ {p} : pc'[q] = pc[q]
  BY ProcAssumption, OthersStay DEF PoolTypeOK
<1>2. \A c \in Consumers : ConsumerOK(c)'
  BY <1>1, ConsumerUndisturbed, ProcAssumption DEF PoolTypeOK, PairInv
<1> QED BY <1>2 DEF PairInv, FullWhole, OnePair

LEMMA ProductSafe ==
  ASSUME OnePair, PoolTypeOK, PoolTypeOK', PairInv, NEW p \in Producers, ProductStep(p)
  PROVE  PairInv'
<1>0. p \in Proc /\ p \notin Consumers /\ \A q \in Producers : q = p
  BY ProcAssumption DEF OnePair
<1>a. ProducerOK(p) /\ FullWhole /\ \A c \in Consumers : ConsumerOK(c)
  BY DEF PairInv
<1>b. \A there : Goto(p, there) => pc'[p] = there
  BY <1>0 DEF PoolTypeOK, ControlTypeOK, Goto
<1>1. CASE InitVisit(p) \/ InitConsumer(p) \/ InitProductor(p) \/ ProductAttach(p)
  BY <1>1, SetUpKeeps
     DEF InitVisit, InitConsumer, InitProductor, InitSem, ProductAttach, AttachTo, Early, poolVars
<1>2. CASE ClearPool(p)
  <2>1. stat' = stat
    <3>1. \A i \in Slot : stat[i] = 0
      BY <1>2, <1>a DEF ClearPool, ProducerOK, Early
    <3> QED BY <1>2, <3>1 DEF ClearPool, PoolTypeOK, DataTypeOK
  <2>2. \A i \in Slot : stat'[i] = 0
    BY <1>2, <1>a, <2>1 DEF ClearPool, ProducerOK, Early
  <2>3. pc'[p] = "read"
    BY <1>2, <1>b DEF ClearPool
  <2>4. ProducerOK(p)'
    BY <2>3 DEF ProducerOK, Early, Filling, Carrying
  <2>5. \A c \in Consumers : ConsumerOK(c)'
    <3> SUFFICES ASSUME NEW c \in Consumers PROVE ConsumerOK(c)'
      OBVIOUS
    <3>1. pc'[c] = pc[c] /\ index'[c] = index[c] /\ local'[c] = local[c] /\ sink' = sink
      BY <1>0, <1>2, OthersStay, ProcAssumption DEF ClearPool, PoolTypeOK
    <3> QED BY <1>a, <2>1, <2>2, <3>1, ConsumerUndisturbed DEF PoolTypeOK
  <2> QED BY <1>0, <2>2, <2>4, <2>5 DEF PairInv, FullWhole
<1>3. CASE ReadProduct(p)
  <2>1. pc'[p] = "waitPermit" /\ local'[p] \in Product
    BY <1>0, <1>3, <1>b DEF ReadProduct, PoolTypeOK, DataTypeOK, Product
  <2>2. ProducerOK(p)'
    BY <2>1 DEF ProducerOK, Early, Filling, Carrying
  <2>3. \A c \in Consumers : ConsumerOK(c)'
    <3> SUFFICES ASSUME NEW c \in Consumers PROVE ConsumerOK(c)'
      OBVIOUS
    <3>1. pc'[c] = pc[c] /\ index'[c] = index[c] /\ local'[c] = local[c]
      BY <1>0, <1>3, OthersStay, ProcAssumption DEF ReadProduct, PoolTypeOK, DataTypeOK
    <3> QED BY <1>3, <1>a, <3>1, ConsumerUndisturbed DEF ReadProduct, PoolTypeOK, poolVars
  <2> QED BY <1>0, <1>3, <1>a, <2>2, <2>3 DEF PairInv, FullWhole, ReadProduct, poolVars
<1>4. CASE WaitPermit(p) \/ Enter(p) \/ LookForFree(p) \/ LeaveScanning(p)
  <2>1. /\ UNCHANGED <<buffer, stat, local, sink>>
        /\ \A q \in Proc \ {p} : index'[q] = index[q]
    BY <1>4 DEF WaitPermit, Enter, LookForFree, LeaveScanning, DoP, DoV, PoolTypeOK,
                ControlTypeOK, poolVars
  <2>2. \/ pc[p] \in Carrying /\ pc'[p] \in {"enter", "look", "skip"}
        \/ /\ pc[p] \in Carrying /\ pc'[p] = "copyLo"
           /\ stat[index[p]] = 0 /\ index' = index
    BY <1>4, <1>b DEF WaitPermit, Enter, LookForFree, LeaveScanning, DoP, DoV, Carrying
  <2>3. ProducerOK(p)'
    BY <1>a, <2>1, <2>2 DEF ProducerOK, Early, Filling, Carrying
  <2>4. \E there : Goto(p, there)
    BY <1>4 DEF WaitPermit, Enter, LookForFree, LeaveScanning, DoP, DoV
  <2> QED BY <2>1, <2>3, <2>4, ProducerMoves
<1>5. CASE CopyLo(p) \/ CopyHi(p)
  <2>1. index[p] \in Slot /\ stat[index[p]] = 0
    BY <1>0, <1>5, <1>a
       DEF CopyLo, CopyHi, ProducerOK, Filling, PoolTypeOK, ControlTypeOK, AtBuffer
  <2>2. buffer[index[p]] \in Halves /\ local[p] \in Halves
    BY <1>0, <2>1 DEF PoolTypeOK, DataTypeOK
  <2>3. ProducerOK(p)'
    <3>1. CASE CopyLo(p)
      <4>1. pc'[p] = "copyHi" /\ buffer'[index[p]].lo = local[p].lo
        BY <3>1, <1>b, <2>1 DEF CopyLo, PoolTypeOK, DataTypeOK
      <4> QED BY <3>1, <4>1, <1>a DEF CopyLo, ProducerOK, Early, Filling, Carrying
    <3>2. CASE CopyHi(p)
      <4>1. buffer'[index[p]] = [lo |-> buffer[index[p]].lo, hi |-> local[p].hi]
        BY <3>2, <2>1 DEF CopyHi, PoolTypeOK, DataTypeOK
      <4>2. buffer[index[p]].lo = local[p].lo
        BY <3>2, <1>a DEF CopyHi, ProducerOK
      <4>3. local[p] = [lo |-> local[p].lo, hi |-> local[p].hi]
        BY <2>2 DEF Halves
      <4>4. pc'[p] = "notify" /\ buffer'[index[p]] = local[p]
        BY <3>2, <1>b, <4>1, <4>2, <4>3 DEF CopyHi
      <4> QED BY <3>2, <4>4, <1>a DEF CopyHi, ProducerOK, Early, Filling, Carrying
    <3> QED BY <1>5, <3>1, <3>2
  <2>4. \A i \in Slot : stat[i] = 1 => stat'[i] = 1 /\ buffer'[i] = buffer[i]
    BY <1>5, <2>1 DEF CopyLo, CopyHi, PoolTypeOK, DataTypeOK
  <2>5. \A c \in Consumers : ConsumerOK(c)'
    <3> SUFFICES ASSUME NEW c \in Consumers PROVE ConsumerOK(c)'
      OBVIOUS
    <3>1. pc'[c] = pc[c] /\ index'[c] = index[c] /\ local'[c] = local[c] /\ sink' = sink
      BY <1>0, <1>5, OthersStay, ProcAssumption DEF CopyLo, CopyHi, PoolTypeOK
    <3> QED BY <1>a, <2>4, <3>1, ConsumerUndisturbed DEF PoolTypeOK
  <2>6. FullWhole'
    BY <1>5, <1>a, <2>4 DEF FullWhole, CopyLo, CopyHi
  <2> QED BY <1>0, <2>3, <2>5, <2>6 DEF PairInv
<1>6. CASE Notify(p) \/ ProductLeave(p)
  <2>1. /\ UNCHANGED <<buffer, stat, index, local, sink>>
        /\ \E there : Goto(p, there)
    BY <1>6 DEF Notify, ProductLeave, DoV, poolVars
  <2>2. (pc[p] = "notify" /\ pc'[p] = "publish") \/ pc'[p] = "read"
    BY <1>6, <1>b DEF Notify, ProductLeave, DoV
  <2>3. ProducerOK(p)'
    BY <1>a, <2>1, <2>2 DEF ProducerOK, Early, Filling, Carrying
  <2> QED BY <2>1, <2>3, ProducerMoves
<1>7. CASE Publish(p)
  <2>1. index[p] \in Slot /\ buffer[index[p]] \in Product
    BY <1>0, <1>7, <1>a
       DEF Publish, ProducerOK, Carrying, Filling, PoolTypeOK, ControlTypeOK, AtBuffer
  <2>2. \A i \in Slot : stat'[i] = IF i = index[p] THEN 1 ELSE stat[i]
    BY <1>7 DEF Publish, PoolTypeOK, DataTypeOK
  <2>3. ProducerOK(p)'
    <3>1. pc'[p] = "leave"
      BY <1>7, <1>b DEF Publish
    <3> QED BY <3>1 DEF ProducerOK, Early, Filling, Carrying
  <2>4. \A c \in Consumers : ConsumerOK(c)'
    <3> SUFFICES ASSUME NEW c \in Consumers PROVE ConsumerOK(c)'
      OBVIOUS
    <3>1. pc'[c] = pc[c] /\ index'[c] = index[c] /\ local'[c] = local[c] /\ sink' = sink
      BY <1>0, <1>7, OthersStay, ProcAssumption DEF Publish, PoolTypeOK, ControlTypeOK
    <3> QED BY <1>7, <1>a, <2>2, <3>1, ConsumerUndisturbed DEF PoolTypeOK, Publish
  <2>5. FullWhole'
    BY <1>7, <1>a, <2>1, <2>2 DEF FullWhole, Publish
  <2> QED BY <1>0, <2>3, <2>4, <2>5 DEF PairInv
<1> QED BY <1>1, <1>2, <1>3, <1>4, <1>5, <1>6, <1>7 DEF ProductStep

LEMMA ConsumeSafe ==
  ASSUME OnePair, PoolTypeOK, PairInv, NEW c \in Consumers, ConsumeStep(c)
  PROVE  PairInv'
<1>0. c \in Proc /\ c \notin Producers /\ \A d \in Consumers : d = c
  BY ProcAssumption DEF OnePair
<1>a. ConsumerOK(c) /\ FullWhole /\ \A p \in Producers : ProducerOK(p)
  BY DEF PairInv
<1>b. \A there : Goto(c, there) => pc'[c] = there
  BY <1>0 DEF PoolTypeOK, ControlTypeOK, Goto
<1>c. buffer' = buffer /\ \A p \in Producers : index'[p] = index[p] /\ local'[p] = local[p]
  BY <1>0, ProcAssumption
     DEF ConsumeStep, ConsumeAttach, WaitItem, Enter, LookForFull, LeaveScanning, TakeLo, TakeHi,
         Deliver, SignalProductor, Release, ConsumeLeave, AttachTo, DoP, DoV, poolVars,
         PoolTypeOK, ControlTypeOK, DataTypeOK
<1>d. \A p \in Producers : pc'[p] = pc[p]
  <2>1. \E there : Goto(c, there)
    BY DEF ConsumeStep, ConsumeAttach, WaitItem, Enter, LookForFull, LeaveScanning, TakeLo,
           TakeHi, Deliver, SignalProductor, Release, ConsumeLeave, AttachTo, DoP, DoV
  <2> QED BY <1>0, <2>1, OthersStay, ProcAssumption DEF PoolTypeOK
<1>e. ASSUME stat' = stat, ConsumerOK(c)' PROVE PairInv'
  <2>1. \A p \in Producers : ProducerOK(p)'
    BY <1>a, <1>c, <1>d, <1>e, ProducerUndisturbed DEF PoolTypeOK
  <2> QED BY <1>0, <1>a, <1>c, <1>e, <2>1 DEF PairInv, FullWhole
<1>1. CASE ConsumeAttach(c) \/ WaitItem(c) \/ Enter(c) \/ LeaveScanning(c) \/ ConsumeLeave(c)
  <2>1. stat' = stat /\ pc'[c] \in {"waitItem", "enter", "look"}
    BY <1>1, <1>b DEF ConsumeAttach, WaitItem, Enter, LeaveScanning, ConsumeLeave, AttachTo,
                      DoP, DoV, poolVars
  <2> QED BY <1>e, <2>1 DEF ConsumerOK, Emptying
<1>2. CASE LookForFull(c)
  <2>1. stat' = stat
    BY <1>2 DEF LookForFull, poolVars
  <2>2. (pc'[c] = "takeLo" /\ stat'[index'[c]] = 1) \/ pc'[c] = "skip"
    BY <1>2, <1>b, <2>1 DEF LookForFull
  <2> QED BY <1>e, <2>1, <2>2 DEF ConsumerOK, Emptying
<1>3. CASE TakeLo(c) \/ TakeHi(c)
  <2>1. stat' = stat /\ index' = index
    BY <1>3 DEF TakeLo, TakeHi, poolVars
  <2>2. index[c] \in Slot /\ stat[index[c]] = 1
    BY <1>0, <1>3, <1>a
       DEF TakeLo, TakeHi, ConsumerOK, Emptying, PoolTypeOK, ControlTypeOK, AtBuffer
  <2>3. ConsumerOK(c)'
    <3>1. CASE TakeLo(c)
      <4>1. pc'[c] = "takeHi" /\ local'[c].lo = buffer[index[c]].lo
        BY <1>0, <3>1, <1>b DEF TakeLo, PoolTypeOK, DataTypeOK
      <4> QED BY <1>c, <2>1, <2>2, <4>1 DEF ConsumerOK, Emptying
    <3>2. CASE TakeHi(c)
      <4>1. local'[c] = [lo |-> local[c].lo, hi |-> buffer[index[c]].hi]
        BY <1>0, <3>2 DEF TakeHi, PoolTypeOK, DataTypeOK
      <4>2. local[c].lo = buffer[index[c]].lo
        BY <3>2, <1>a DEF TakeHi, ConsumerOK
      <4>3. buffer[index[c]] = [lo |-> buffer[index[c]].lo, hi |-> buffer[index[c]].hi]
        BY <2>2 DEF PoolTypeOK, DataTypeOK, Halves
      <4>4. pc'[c] = "deliver" /\ local'[c] = buffer[index[c]]
        BY <3>2, <1>b, <4>1, <4>2, <4>3 DEF TakeHi
      <4> QED BY <1>c, <2>1, <2>2, <4>4 DEF ConsumerOK, Emptying
    <3> QED BY <1>3, <3>1, <3>2
  <2> QED BY <1>e, <2>1, <2>3
<1>4. CASE Deliver(c) \/ SignalProductor(c)
  <2>1. stat' = stat /\ index' = index /\ local' = local
    BY <1>4 DEF Deliver, SignalProductor, DoV, poolVars
  <2>2. index[c] \in Slot /\ stat[index[c]] = 1
    BY <1>0, <1>4, <1>a
       DEF Deliver, SignalProductor, DoV, ConsumerOK, Emptying, PoolTypeOK, ControlTypeOK, AtBuffer
  <2>3. (pc'[c] = "signal" /\ sink' \in Product) \/ pc'[c] = "release"
    <3>1. CASE Deliver(c)
      BY <3>1, <1>a, <1>b, <2>2 DEF Deliver, ConsumerOK, FullWhole
    <3>2. CASE SignalProductor(c)
      BY <3>2, <1>b DEF SignalProductor, DoV
    <3> QED BY <1>4, <3>1, <3>2
  <2>4. ConsumerOK(c)'
    BY <2>1, <2>2, <2>3 DEF ConsumerOK, Emptying
  <2> QED BY <1>e, <2>1, <2>4
<1>5. CASE Release(c)
  <2>1. \A i \in Slot : stat'[i] = IF i = index[c] THEN 0 ELSE stat[i]
    BY <1>5 DEF Release, PoolTypeOK, DataTypeOK
  <2>2. ConsumerOK(c)'
    BY <1>5, <1>b DEF Release, ConsumerOK, Emptying
  <2>3. \A p \in Producers : ProducerOK(p)'
    <3> SUFFICES ASSUME NEW p \in Producers PROVE ProducerOK(p)'
      OBVIOUS
    <3> QED BY <1>a, <1>c, <1>d, <2>1, ProducerUndisturbed DEF PoolTypeOK
  <2> QED BY <1>0, <1>a, <1>c, <2>1, <2>2, <2>3 DEF PairInv, FullWhole
<1> QED BY <1>1, <1>2, <1>3, <1>4, <1>5 DEF ConsumeStep

\* Starting, stopping and killing: a killed producer stays killed, a killed consumer
\* starts anew with nothing in its hands.
LEMMA OutsideSafe ==
  ASSUME OnePair, PoolTypeOK, PairInv, NEW q \in Proc,
         Start(q) \/ AttachFails(q) \/ Kill(q) \/ Interrupt(q)
  PROVE  PairInv'
<1>0. \A r \in Proc \ {q} : pc'[r] = pc[r] /\ index'[r] = index[r] /\ local'[r] = local[r]
  <2>1. \E there : Goto(q, there)
    BY DEF Start, AttachFails, Kill, Interrupt
  <2>2. \A r \in Proc \ {q} : index'[r] = index[r] /\ local'[r] = local[r]
    BY DEF Start, AttachFails, Kill, Interrupt, PoolTypeOK, ControlTypeOK, DataTypeOK
  <2> QED BY <2>1, <2>2, OthersStay DEF PoolTypeOK
<1>1. UNCHANGED <<buffer, stat, sink>>
  BY DEF Start, AttachFails, Kill, Interrupt, poolVars
<1>2. \/ pc'[q] \in {"exited", "killed", "enter", "look"} /\ local' = local
      \/ Start(q) /\ pc'[q] = IF q \in Producers THEN "initVisit" ELSE "attach"
  BY DEF Start, AttachFails, Kill, Interrupt, Goto, PoolTypeOK, ControlTypeOK
<1>3. \A p \in Producers : ProducerOK(p)'
  <2> SUFFICES ASSUME NEW p \in Producers PROVE ProducerOK(p)'
    OBVIOUS
  <2>0. ProducerOK(p) /\ p \in Proc
    BY ProcAssumption DEF PairInv
  <2>1. CASE p # q
    BY <1>0, <1>1, <2>0, <2>1, ProducerUndisturbed DEF PoolTypeOK
  <2>2. CASE p = q /\ Start(q)
    <3>1. pc[p] = "off" /\ pc'[p] = "initVisit"
      BY <2>0, <2>2 DEF Start, OnePair, Goto, PoolTypeOK, ControlTypeOK
    <3> QED BY <1>1, <2>0, <3>1 DEF ProducerOK, Early, Filling, Carrying
  <2>3. CASE p = q /\ Interrupt(q)
    <3>1. pc[p] \in {"waitPermit", "enter"} /\ pc'[p] \in {"enter", "look"} /\ local' = local
      BY <2>3, <2>0 DEF Interrupt, Goto, PoolTypeOK, ControlTypeOK, ProducerPc, NotRunning
    <3> QED BY <2>0, <3>1 DEF ProducerOK, Early, Filling, Carrying
  <2>4. CASE p = q /\ (AttachFails(q) \/ Kill(q))
    <3>1. pc'[p] \in {"exited", "killed"}
      BY <2>4 DEF AttachFails, Kill, Goto, PoolTypeOK, ControlTypeOK
    <3> QED BY <3>1 DEF ProducerOK, Early, Filling, Carrying
  <2> QED BY <2>1, <2>2, <2>3, <2>4
<1>4. \A c \in Consumers : ConsumerOK(c)'
  <2> SUFFICES ASSUME NEW c \in Consumers PROVE ConsumerOK(c)'
    OBVIOUS
  <2>0. ConsumerOK(c) /\ c \in Proc /\ c \notin Producers
    BY ProcAssumption DEF PairInv
  <2>1. CASE c # q
    BY <1>0, <1>1, <2>0, <2>1, ConsumerUndisturbed DEF PoolTypeOK
  <2>2. CASE c = q
    BY <1>2, <2>0, <2>2 DEF ConsumerOK, Emptying
  <2> QED BY <2>1, <2>2
<1> QED BY <1>1, <1>3, <1>4 DEF PairInv, FullWhole

LEMMA InitSafe == Init => PairInv
BY SizeAssumption, ProcAssumption
   DEF Init, PoolInit, PairInv, ProducerOK, ConsumerOK, FullWhole, Early, Filling, Carrying,
       Emptying

LEMMA NextSafe ==
  ASSUME OnePair
  PROVE  PoolTypeOK /\ PoolTypeOK' /\ PairInv /\ [Next]_vars => PairInv'
<1>1. PoolTypeOK /\ PairInv /\ UNCHANGED vars => PairInv'
  BY DEF vars, poolVars, PairInv, ProducerOK, ConsumerOK, FullWhole
<1> QED BY <1>1, ProductSafe, ConsumeSafe, OutsideSafe DEF Next

LEMMA PairInvHolds == ASSUME OnePair PROVE Spec => [](PoolTypeOK /\ PairInv)
<1>1. Init => PoolTypeOK /\ PairInv
  BY InitTypes, InitSafe
<1>2. PoolTypeOK /\ PairInv /\ [Next]_vars => (PoolTypeOK /\ PairInv)'
  BY NextTypes, NextSafe
<1> QED BY <1>1, <1>2, PTL DEF Spec

\* A producer writes only into buffers whose flag is clear (product.c:23).
THEOREM PairAllocatesOnlyFree == ASSUME OnePair PROVE Spec => []AllocatesOnlyFree
<1>1. PairInv => AllocatesOnlyFree
  BY DEF PairInv, ProducerOK, AllocatesOnlyFree, Writing, Filling
<1> QED BY <1>1, PairInvHolds, PTL

\* A consumer reads only buffers whose flag is set (consume.c:23).
THEOREM PairConsumesOnlyFull == ASSUME OnePair PROVE Spec => []ConsumesOnlyFull
<1>1. PairInv => ConsumesOnlyFull
  BY DEF PairInv, ConsumerOK, ConsumesOnlyFull, Reading, Emptying
<1> QED BY <1>1, PairInvHolds, PTL

\* The two never touch one buffer at once, whatever becomes of the semaphores: with
\* kills, interrupted and failing semops, initialised or not.
THEOREM PairSlotExclusive == ASSUME OnePair PROVE Spec => []SlotExclusive
<1>1. OnePair /\ PairInv => SlotExclusive
  BY ProcAssumption
     DEF OnePair, PairInv, ProducerOK, ConsumerOK, SlotExclusive, Writing, Reading, Filling, Emptying
<1> QED BY <1>1, PairInvHolds, PTL

\* What the consumer writes out is one product, never halves of two.
THEOREM PairDeliversWhole == ASSUME OnePair PROVE Spec => []DeliveredWhole
<1>1. PairInv => DeliveredWhole
  BY DEF PairInv, ConsumerOK, DeliveredWhole
<1> QED BY <1>1, PairInvHolds, PTL

\* All of it: the flags exclude, whatever the semaphores do.
THEOREM PairFlagsExclude == ASSUME OnePair PROVE Spec => []FlagsExclude
BY PairAllocatesOnlyFree, PairConsumesOnlyFull, PairSlotExclusive, PairDeliversWhole, PTL DEF FlagsExclude

-----------------------------------------------------------------------------
(* Implementation of Handoff, when nobody is killed *)

\* A cell of the hand-off, written out.
LEMMA CellValue ==
  \A i \in Slot : /\ Cells[i] = IF stat[i] = 1 /\ ~Claimed(i) THEN buffer[i] ELSE Blank
                  /\ Cells'[i] = IF stat'[i] = 1 /\ ~Claimed(i)' THEN buffer'[i] ELSE Blank
BY DEF Cells

\* A step that sets no flag, writes no full buffer and keeps the consumers' claims is
\* not seen in the cells.
LEMMA CellsStay ==
  ASSUME \A i \in Slot : stat'[i] = stat[i],
         \A i \in Slot : stat[i] = 1 => buffer'[i] = buffer[i],
         \A i \in Slot : Claimed(i)' <=> Claimed(i)
  PROVE  Cells' = Cells
<1>1. \A i \in Slot : Cells'[i] = Cells[i]
  BY CellValue
<1> QED BY <1>1 DEF Cells

LEMMA ProductHandsOff ==
  ASSUME OnePair, PoolTypeOK, PoolTypeOK', PairInv, NEW p \in Producers, ProductStep(p)
  PROVE  [H!Next]_<<Cells, sink>>
<1>0. p \in Proc /\ p \notin Consumers
  BY ProcAssumption
<1>a. ProducerOK(p) /\ \A c \in Consumers : ConsumerOK(c)
  BY DEF PairInv
<1>b. sink' = sink /\ \E there : Goto(p, there)
  BY DEF ProductStep, InitVisit, InitConsumer, InitProductor, InitSem, ProductAttach, AttachTo,
         ClearPool, ReadProduct, WaitPermit, Enter, LookForFree, LeaveScanning, CopyLo, CopyHi,
         Notify, Publish, ProductLeave, DoP, DoV
<1>c. \A c \in Consumers : pc'[c] = pc[c] /\ index'[c] = index[c]
  <2>1. \A c \in Consumers : pc'[c] = pc[c]
    BY <1>0, <1>b, OthersStay, ProcAssumption DEF PoolTypeOK
  <2>2. \A c \in Consumers : index'[c] = index[c]
    BY <1>0, ProcAssumption
       DEF ProductStep, InitVisit, InitConsumer, InitProductor, InitSem, ProductAttach, AttachTo,
           ClearPool, ReadProduct, WaitPermit, Enter, LookForFree, LeaveScanning, CopyLo, CopyHi,
           Notify, Publish, ProductLeave, DoP, DoV, PoolTypeOK, ControlTypeOK
  <2> QED BY <2>1, <2>2
<1>d. \A i \in Slot : Claimed(i)' <=> Claimed(i)
  BY <1>c DEF Claimed
<1>1. CASE Publish(p)
  <2> DEFINE i == index[p]
  <2>1. i \in Slot /\ stat[i] = 0 /\ buffer[i] = local[p] /\ local[p] \in Product
    BY <1>0, <1>1, <1>a
       DEF Publish, ProducerOK, Carrying, Filling, PoolTypeOK, ControlTypeOK, AtBuffer
  <2>2. buffer' = buffer /\ \A j \in Slot : stat'[j] = IF j = i THEN 1 ELSE stat[j]
    BY <1>1 DEF Publish, PoolTypeOK, DataTypeOK
  <2>3. ~Claimed(i)
    BY <1>a, <2>1 DEF Claimed, ConsumerOK, Emptying
  <2>4. Cells[i] = Blank /\ Cells'[i] = buffer[i]
    BY <1>d, <2>1, <2>2, <2>3, CellValue
  <2>5. \A j \in Slot \ {i} : Cells'[j] = Cells[j]
    BY <1>d, <2>2, CellValue
  <2>6. Cells' = [Cells EXCEPT ![i] = buffer[i]]
    BY <2>1, <2>4, <2>5 DEF Cells
  <2>7. H!Put(i, buffer[i])
    BY <1>b, <2>4, <2>6 DEF H!Put
  <2> QED BY <2>1, <2>7 DEF H!Next
<1>2. CASE ClearPool(p)
  <2>1. \A i \in Slot : stat[i] = 0 /\ stat'[i] = 0
    BY <1>2, <1>a DEF ClearPool, ProducerOK, Early
  <2> QED BY <1>b, <1>d, <2>1, CellsStay
<1>3. CASE CopyLo(p) \/ CopyHi(p)
  <2>1. index[p] \in Slot /\ stat[index[p]] = 0
    BY <1>0, <1>3, <1>a
       DEF CopyLo, CopyHi, ProducerOK, Filling, PoolTypeOK, ControlTypeOK, AtBuffer
  <2>2. stat' = stat /\ \A i \in Slot : stat[i] = 1 => buffer'[i] = buffer[i]
    BY <1>3, <2>1 DEF CopyLo, CopyHi, PoolTypeOK, DataTypeOK
  <2> QED BY <1>b, <1>d, <2>2, CellsStay
<1>4. CASE ~(Publish(p) \/ ClearPool(p) \/ CopyLo(p) \/ CopyHi(p))
  <2>1. buffer' = buffer /\ stat' = stat
    BY <1>4 DEF ProductStep, InitVisit, InitConsumer, InitProductor, InitSem, ProductAttach,
        AttachTo, ReadProduct, WaitPermit, Enter, LookForFree, LeaveScanning, Notify,
        ProductLeave, DoP, DoV, poolVars
  <2> QED BY <1>b, <1>d, <2>1, CellsStay
<1> QED BY <1>1, <1>2, <1>3, <1>4

LEMMA ConsumeHandsOff ==
  ASSUME OnePair, PoolTypeOK, PoolTypeOK', PairInv, NEW c \in Consumers, ConsumeStep(c)
  PROVE  [H!Next]_<<Cells, sink>>
<1>0. c \in Proc /\ \A d \in Consumers : d = c
  BY ProcAssumption DEF OnePair
<1>a. ConsumerOK(c) /\ FullWhole
  BY DEF PairInv
<1>b. \A there : Goto(c, there) => pc'[c] = there
  BY <1>0 DEF PoolTypeOK, ControlTypeOK, Goto
<1>c. /\ \A i \in Slot : Claimed(i) <=> pc[c] \in {"signal", "release"} /\ index[c] = i
      /\ \A i \in Slot : Claimed(i)' <=> pc'[c] \in {"signal", "release"} /\ index'[c] = i
  BY <1>0 DEF Claimed
<1>1. CASE Deliver(c)
  <2> DEFINE i == index[c]
  <2>1. i \in Slot /\ stat[i] = 1 /\ local[c] = buffer[i] /\ buffer[i] \in Product
    BY <1>0, <1>1, <1>a
       DEF Deliver, ConsumerOK, Emptying, FullWhole, PoolTypeOK, ControlTypeOK, AtBuffer
  <2>2. buffer' = buffer /\ stat' = stat /\ index' = index /\ sink' = buffer[i]
    BY <1>1, <2>1 DEF Deliver, poolVars
  <2>3. pc[c] = "deliver" /\ pc'[c] = "signal"
    BY <1>1, <1>b DEF Deliver
  <2>4. Cells[i] = buffer[i] /\ Cells'[i] = Blank
    BY <1>c, <2>1, <2>2, <2>3, CellValue
  <2>5. \A j \in Slot \ {i} : Cells'[j] = Cells[j]
    BY <1>c, <2>2, <2>3, CellValue
  <2>6. Cells' = [Cells EXCEPT ![i] = Blank]
    BY <2>1, <2>4, <2>5 DEF Cells
  <2>7. buffer[i] # Blank
    <3>1. PICK v \in Content : buffer[i] = Whole(v)
      BY <2>1 DEF Product
    <3>2. Whole(v).lo = v /\ Blank.lo = Zero
      BY DEF Blank, Whole
    <3> QED BY <3>1, <3>2, ContentAssumption
  <2>8. H!Get(i)
    BY <2>2, <2>4, <2>6, <2>7 DEF H!Get
  <2> QED BY <2>1, <2>8 DEF H!Next
<1>2. CASE Release(c)
  <2> DEFINE i == index[c]
  <2>1. pc[c] = "release" /\ pc'[c] = "leave" /\ buffer' = buffer /\ sink' = sink
    BY <1>2, <1>b DEF Release
  <2>2. \A j \in Slot : stat'[j] = IF j = i THEN 0 ELSE stat[j]
    BY <1>2 DEF Release, PoolTypeOK, DataTypeOK
  <2>3. \A j \in Slot : Cells'[j] = Cells[j]
    BY <1>c, <2>1, <2>2, CellValue
  <2>4. Cells' = Cells
    BY <2>3 DEF Cells
  <2> QED BY <2>1, <2>4
<1>3. CASE ~(Deliver(c) \/ Release(c))
  <2>1. buffer' = buffer /\ stat' = stat /\ sink' = sink
    BY <1>3 DEF ConsumeStep, ConsumeAttach, WaitItem, Enter, LookForFull, LeaveScanning, TakeLo,
        TakeHi, SignalProductor, ConsumeLeave, AttachTo, DoP, DoV, poolVars
  <2>2. \/ pc[c] = "signal" /\ pc'[c] = "release" /\ index' = index
        \/ pc[c] \notin {"signal", "release"} /\ pc'[c] \notin {"signal", "release"}
    BY <1>3, <1>b DEF ConsumeStep, ConsumeAttach, WaitItem, Enter, LookForFull, LeaveScanning,
        TakeLo, TakeHi, SignalProductor, ConsumeLeave, AttachTo, DoP, DoV
  <2>3. \A i \in Slot : Claimed(i)' <=> Claimed(i)
    BY <1>c, <2>2
  <2> QED BY <2>1, <2>3, CellsStay
<1> QED BY <1>1, <1>2, <1>3

LEMMA NextHandsOff ==
  ASSUME OnePair, MaxKills = 0
  PROVE  PoolTypeOK /\ PoolTypeOK' /\ PairInv /\ [Next]_vars => [H!Next]_<<Cells, sink>>
<1> SUFFICES ASSUME PoolTypeOK, PoolTypeOK', PairInv, [Next]_vars
             PROVE  [H!Next]_<<Cells, sink>>
  OBVIOUS
<1>1. CASE UNCHANGED vars
  <2>1. UNCHANGED <<buffer, stat, pc, index, sink>>
    BY <1>1 DEF vars, poolVars
  <2> QED BY <2>1, CellsStay DEF Claimed
<1>2. ASSUME NEW q \in Proc, Start(q) \/ AttachFails(q) \/ Interrupt(q)
      PROVE  [H!Next]_<<Cells, sink>>
  <2>1. UNCHANGED <<buffer, stat, sink>> /\ \E there : Goto(q, there)
    BY <1>2 DEF Start, AttachFails, Interrupt, poolVars
  <2>2. pc[q] \notin {"signal", "release"} /\ pc'[q] \notin {"signal", "release"}
    BY <1>2 DEF Start, AttachFails, Interrupt, Goto, PoolTypeOK, ControlTypeOK
  <2>3. \A r \in Proc \ {q} : pc'[r] = pc[r] /\ index'[r] = index[r]
    BY <1>2, <2>1, OthersStay DEF Start, AttachFails, Interrupt, PoolTypeOK, ControlTypeOK
  <2>4. \A i \in Slot : Claimed(i)' <=> Claimed(i)
    BY <2>2, <2>3, ProcAssumption DEF Claimed
  <2> QED BY <2>1, <2>4, CellsStay
<1>3. \A q \in Proc : ~Kill(q)
  BY DEF Kill, PoolTypeOK, DataTypeOK
<1> QED BY <1>1, <1>2, <1>3, ProductHandsOff, ConsumeHandsOff DEF Next

\* One producer and one consumer that nobody kills implement the hand-off: every
\* product put into the pool is delivered whole, and no product more than once.
THEOREM PairImplementsHandoff ==
  ASSUME OnePair, MaxKills = 0
  PROVE  Spec => ImplementsHandoff
<1>1. Init => H!Init
  BY SizeAssumption DEF Init, PoolInit, H!Init, Cells
<1>2. PoolTypeOK /\ PoolTypeOK' /\ PairInv /\ [Next]_vars => [H!Next]_<<Cells, sink>>
  BY NextHandsOff
<1> QED BY <1>1, <1>2, PairInvHolds, PTL DEF Spec, ImplementsHandoff, H!Spec, H!handoffVars

-----------------------------------------------------------------------------
(* Nothing is lost, and repeated only after kills *)

\* A step of one program leaves the places and indices of the others, and the faults.
LEMMA ProductFrame ==
  ASSUME PoolTypeOK, NEW p \in Producers, ProductStep(p)
  PROVE  /\ \A q \in Proc \ {p} : pc'[q] = pc[q] /\ index'[q] = index[q]
         /\ faults' = faults /\ sink' = sink
<1>0. p \in Proc
  BY ProcAssumption
<1>1. /\ faults' = faults /\ sink' = sink /\ \E there : Goto(p, there)
      /\ \A q \in Proc \ {p} : index'[q] = index[q]
  BY <1>0 DEF ProductStep, InitVisit, InitConsumer, InitProductor, InitSem, ProductAttach,
         AttachTo, ClearPool, ReadProduct, WaitPermit, Enter, LookForFree, LeaveScanning, CopyLo,
         CopyHi, Notify, Publish, ProductLeave, DoP, DoV, PoolTypeOK, ControlTypeOK
<1> QED BY <1>0, <1>1, OthersStay DEF PoolTypeOK

LEMMA ConsumeFrame ==
  ASSUME PoolTypeOK, NEW c \in Consumers, ConsumeStep(c)
  PROVE  /\ \A q \in Proc \ {c} : pc'[q] = pc[q] /\ index'[q] = index[q]
         /\ faults' = faults
<1>0. c \in Proc
  BY ProcAssumption
<1>1. /\ faults' = faults /\ \E there : Goto(c, there)
      /\ \A q \in Proc \ {c} : index'[q] = index[q]
  BY <1>0 DEF ConsumeStep, ConsumeAttach, WaitItem, Enter, LookForFull, LeaveScanning, TakeLo,
         TakeHi, Deliver, SignalProductor, Release, ConsumeLeave, AttachTo, DoP, DoV,
         PoolTypeOK, ControlTypeOK
<1> QED BY <1>0, <1>1, OthersStay DEF PoolTypeOK

LEMMA OutsideFrame ==
  ASSUME PoolTypeOK, NEW p \in Proc, Start(p) \/ AttachFails(p) \/ Kill(p) \/ Interrupt(p)
  PROVE  /\ \A q \in Proc \ {p} : pc'[q] = pc[q] /\ index'[q] = index[q]
         /\ pc'[p] \in {"initVisit", "attach", "exited", "killed", "enter", "look"}
         /\ UNCHANGED <<buffer, stat, older, passed, written, sink>>
         /\ faults'.kills = faults.kills + (IF Kill(p) THEN 1 ELSE 0)
<1>1. /\ \E there \in {"initVisit", "attach", "exited", "killed", "enter", "look"} : Goto(p, there)
      /\ \A q \in Proc \ {p} : index'[q] = index[q]
      /\ UNCHANGED <<buffer, stat, older, passed, written, sink>>
  BY DEF Start, AttachFails, Kill, Interrupt, PoolTypeOK, ControlTypeOK, poolVars, history
<1>2. pc'[p] \in {"initVisit", "attach", "exited", "killed", "enter", "look"}
  BY <1>1 DEF Goto, PoolTypeOK, ControlTypeOK
<1>3. faults'.kills = faults.kills + (IF Kill(p) THEN 1 ELSE 0)
  <2>1. faults \in [kills : Nat, stops : Nat]
    BY BoundAssumption DEF PoolTypeOK, DataTypeOK
  <2>2. CASE Kill(p)
    BY <2>1, <2>2 DEF Kill
  <2>3. CASE ~Kill(p)
    <3>1. faults'.kills = faults.kills
      BY <2>1, <2>3 DEF Start, AttachFails, Interrupt
    <3> QED BY <2>1, <2>3, <3>1
  <2> QED BY <2>2, <2>3
<1> QED BY <1>1, <1>2, <1>3, OthersStay DEF PoolTypeOK

\* Between its write and the clearing of the flag the consumer's buffer counts as
\* written; every other count was left behind by a kill.
Finishing == {"signal", "release"}
WrittenOK ==
  /\ \A c \in Consumers : pc[c] \in Finishing => written[index[c]] > 0
  /\ \A i \in Slot : written[i] <= faults.kills + (IF Claimed(i) THEN 1 ELSE 0)

LEMMA ProductWritten ==
  ASSUME OnePair, PoolTypeOK, PairInv, WrittenOK, NEW p \in Producers, ProductStep(p)
  PROVE  /\ WrittenOK'
         /\ \A i \in Slot : stat[i] = 1 => stat'[i] = 1
<1>0. p \in Proc /\ p \notin Consumers /\ ProducerOK(p) /\ faults.kills \in Nat
      /\ \A c \in Consumers : c \in Proc /\ ConsumerOK(c)
  BY ProcAssumption, BoundAssumption DEF PairInv, PoolTypeOK, DataTypeOK
<1>1. /\ \A c \in Consumers : pc'[c] = pc[c] /\ index'[c] = index[c]
      /\ faults' = faults /\ \A i \in Slot : Claimed(i)' <=> Claimed(i)
  BY <1>0, ProductFrame DEF Claimed
<1>2. CASE Publish(p)
  <2>1. index[p] \in Slot /\ stat[index[p]] = 0
    BY <1>0, <1>2 DEF Publish, ProducerOK, Filling, PoolTypeOK, ControlTypeOK, AtBuffer
  <2>2. \A i \in Slot : /\ written'[i] = IF i = index[p] THEN 0 ELSE written[i]
                        /\ stat'[i] = IF i = index[p] THEN 1 ELSE stat[i]
    BY <1>2 DEF Publish, PoolTypeOK, DataTypeOK
  <2>3. \A c \in Consumers : pc[c] \in Finishing => index[c] \in Slot /\ index[c] # index[p]
    BY <1>0, <2>1
       DEF ConsumerOK, Emptying, Finishing, PoolTypeOK, ControlTypeOK, AtBuffer
  <2> QED BY <1>0, <1>1, <2>2, <2>3 DEF WrittenOK
<1>3. CASE ~Publish(p)
  <2>1. written' = written
    BY <1>3 DEF ProductStep, InitVisit, InitConsumer, InitProductor, InitSem, ProductAttach,
       AttachTo, ClearPool, ReadProduct, WaitPermit, Enter, LookForFree, LeaveScanning, CopyLo,
       CopyHi, Notify, ProductLeave, DoP, DoV, history
  <2>2. \A i \in Slot : stat[i] = 1 => stat'[i] = 1
    <3>1. CASE ClearPool(p)
      BY <3>1, <1>0 DEF ClearPool, ProducerOK, Early
    <3>2. CASE ~ClearPool(p)
      BY <1>3, <3>2 DEF ProductStep, InitVisit, InitConsumer, InitProductor, InitSem,
         ProductAttach, AttachTo, ReadProduct, WaitPermit, Enter, LookForFree, LeaveScanning,
         CopyLo, CopyHi, Notify, ProductLeave, DoP, DoV, poolVars
    <3> QED BY <3>1, <3>2
  <2> QED BY <1>1, <2>1, <2>2 DEF WrittenOK
<1> QED BY <1>2, <1>3

LEMMA ConsumeWritten ==
  ASSUME OnePair, PoolTypeOK, WrittenOK, NEW c \in Consumers, ConsumeStep(c)
  PROVE  /\ WrittenOK'
         /\ \A i \in Slot : stat[i] = 1 /\ stat'[i] = 0 => written[i] > 0
<1>0. c \in Proc /\ faults.kills \in Nat /\ \A d \in Consumers : d = c
  BY ProcAssumption, BoundAssumption DEF OnePair, PoolTypeOK, DataTypeOK
<1>1. /\ faults' = faults
      /\ \A i \in Slot : Claimed(i) <=> pc[c] \in Finishing /\ index[c] = i
      /\ \A i \in Slot : Claimed(i)' <=> pc'[c] \in Finishing /\ index'[c] = i
  BY <1>0, ConsumeFrame DEF Claimed, Finishing
<1>2. \A there : Goto(c, there) => pc'[c] = there
  BY <1>0 DEF PoolTypeOK, ControlTypeOK, Goto
<1>3. CASE Deliver(c)
  <2>1. index[c] \in Slot /\ index' = index /\ pc[c] = "deliver" /\ pc'[c] = "signal"
    BY <1>0, <1>2, <1>3 DEF Deliver, PoolTypeOK, ControlTypeOK, AtBuffer
  <2>2. \A i \in Slot : /\ written[i] \in Nat /\ stat'[i] = stat[i]
                        /\ written'[i] = written[i] + (IF i = index[c] THEN 1 ELSE 0)
    BY <1>3 DEF Deliver, PoolTypeOK, DataTypeOK, poolVars
  <2> QED BY <1>0, <1>1, <2>1, <2>2 DEF WrittenOK, Finishing
<1>4. CASE Release(c)
  <2>1. index[c] \in Slot /\ pc[c] = "release" /\ pc'[c] = "leave" /\ written[index[c]] > 0
    BY <1>0, <1>2, <1>4 DEF Release, PoolTypeOK, ControlTypeOK, AtBuffer, WrittenOK, Finishing
  <2>2. \A i \in Slot : /\ written[i] \in Nat
                        /\ written'[i] = IF i = index[c] THEN 0 ELSE written[i]
                        /\ i # index[c] => stat'[i] = stat[i]
    BY <1>4 DEF Release, PoolTypeOK, DataTypeOK
  <2> QED BY <1>0, <1>1, <2>1, <2>2 DEF WrittenOK, Finishing
<1>5. CASE ~(Deliver(c) \/ Release(c))
  <2>1. written' = written /\ stat' = stat
    BY <1>5 DEF ConsumeStep, ConsumeAttach, WaitItem, Enter, LookForFull, LeaveScanning, TakeLo,
        TakeHi, SignalProductor, ConsumeLeave, AttachTo, DoP, DoV, poolVars, history
  <2>2. \/ pc[c] = "signal" /\ pc'[c] = "release" /\ index' = index
        \/ pc[c] \notin Finishing /\ pc'[c] \notin Finishing
    BY <1>2, <1>5 DEF ConsumeStep, ConsumeAttach, WaitItem, Enter, LookForFull, LeaveScanning,
        TakeLo, TakeHi, SignalProductor, ConsumeLeave, AttachTo, DoP, DoV, Finishing
  <2> QED BY <1>0, <1>1, <2>1, <2>2 DEF WrittenOK, Finishing
<1> QED BY <1>3, <1>4, <1>5

LEMMA OutsideWritten ==
  ASSUME OnePair, PoolTypeOK, WrittenOK, NEW q \in Proc,
         Start(q) \/ AttachFails(q) \/ Kill(q) \/ Interrupt(q)
  PROVE  WrittenOK' /\ stat' = stat
<1>0. faults.kills \in Nat /\ \A c \in Consumers : c \in Proc /\ \A d \in Consumers : d = c
  BY ProcAssumption, BoundAssumption DEF OnePair, PoolTypeOK, DataTypeOK
<1>1. /\ \A r \in Proc \ {q} : pc'[r] = pc[r] /\ index'[r] = index[r]
      /\ pc'[q] \notin Finishing /\ written' = written /\ stat' = stat
      /\ faults'.kills = faults.kills + (IF Kill(q) THEN 1 ELSE 0)
  BY OutsideFrame DEF Finishing
<1>2. \A c \in Consumers : pc'[c] \in Finishing => written'[index'[c]] > 0
  BY <1>0, <1>1 DEF WrittenOK
<1>3. ASSUME NEW i \in Slot
      PROVE  written'[i] <= faults'.kills + (IF Claimed(i)' THEN 1 ELSE 0)
  <2>1. written[i] \in Nat /\ written[i] <= faults.kills + (IF Claimed(i) THEN 1 ELSE 0)
    BY DEF WrittenOK, PoolTypeOK, DataTypeOK
  <2>2. CASE Kill(q)
    BY <1>0, <1>1, <2>1, <2>2
  <2>3. CASE ~Kill(q)
    <3>1. pc[q] \notin Finishing
      BY <2>3 DEF Start, AttachFails, Interrupt, Finishing
    <3>2. Claimed(i) => Claimed(i)'
      BY <1>0, <1>1, <3>1 DEF Claimed, Finishing
    <3> QED BY <1>0, <1>1, <2>1, <2>3, <3>2
  <2> QED BY <2>2, <2>3
<1> QED BY <1>1, <1>2, <1>3 DEF WrittenOK

LEMMA NextWritten ==
  ASSUME OnePair
  PROVE  PoolTypeOK /\ PairInv /\ WrittenOK /\ [Next]_vars
           => /\ WrittenOK'
              /\ \A i \in Slot : stat[i] = 1 /\ stat'[i] = 0 => written[i] > 0
<1> SUFFICES ASSUME PoolTypeOK, PairInv, WrittenOK, [Next]_vars
             PROVE  /\ WrittenOK'
                    /\ \A i \in Slot : stat[i] = 1 /\ stat'[i] = 0 => written[i] > 0
  OBVIOUS
<1>1. CASE UNCHANGED vars
  BY <1>1 DEF vars, poolVars, history, WrittenOK, Claimed
<1> QED BY <1>1, ProductWritten, ConsumeWritten, OutsideWritten DEF Next

\* A flag is cleared only when the product has been written out, so that a kill loses
\* none; and a product is written out again at most once for each kill.
THEOREM PairLosesNothing == ASSUME OnePair PROVE Spec => NothingLostOrRepeated
<1>1. Init => WrittenOK
  BY ProcAssumption DEF Init, PoolInit, WrittenOK, Finishing
<1>2. PoolTypeOK /\ PairInv /\ WrittenOK /\ [Next]_vars => WrittenOK'
  BY NextWritten
<1>3. PoolTypeOK /\ PairInv /\ WrittenOK /\ [Next]_vars
        => [\A i \in Slot : stat[i] = 1 /\ stat'[i] = 0 => written[i] > 0]_vars
  BY NextWritten
<1>4. PoolTypeOK /\ WrittenOK => RepeatsOnlyAfterKills
  BY BoundAssumption DEF WrittenOK, RepeatsOnlyAfterKills, PoolTypeOK, DataTypeOK
<1> QED BY <1>1, <1>2, <1>3, <1>4, PairInvHolds, PTL
    DEF Spec, NothingLostOrRepeated, NothingLost

-----------------------------------------------------------------------------
(* The permits of visit_buff *)

\* The two processes, by name.
Pair(p, c) == Producers = {p} /\ Consumers = {c} /\ p \notin Restartable

\* What the kernel would take back from q, and whether q is in the inner loop.
Undo(q) == semadj[q]["visit_buff"]
In(q) == IF Inside(q) THEN 1 ELSE 0

Uninitialised == {"off", "initVisit"}

\* With n permits handed out: a process is in the loop with a permit, but for the
\* interrupted calls; what is in the semaphore and in the undo sums makes up the n.
PermitsOK(p, c, n) ==
  /\ pc[p] \in Uninitialised => n = 0
  /\ In(p) - Undo(p) \in 0..faults.stops
  /\ In(c) - Undo(c) \in 0..faults.stops
  /\ n <= semval["visit_buff"] + Undo(p) + Undo(c)
  /\ semval["visit_buff"] + In(p) + In(c) <= n + faults.stops
PermitsInv(p, c) == \E n \in {0, NUM} : PermitsOK(p, c, n)

\* The step of a process q, the other being r, as the semaphore sees it.
SamePlace(q, r) ==
  /\ semval'["visit_buff"] = semval["visit_buff"]
  /\ Undo(q)' = Undo(q) /\ Undo(r)' = Undo(r)
  /\ In(q)' = In(q) /\ In(r)' = In(r) /\ faults' = faults

LEMMA PairTypes ==
  ASSUME NEW p, NEW c, Pair(p, c), PoolTypeOK
  PROVE  /\ p # c /\ Proc = {p, c} /\ p \in Proc /\ c \in Proc
         /\ semval["visit_buff"] \in 0..SEMVMX /\ "visit_buff" \in Sem
         /\ Undo(p) \in -(SEMVMX + 1)..SEMVMX /\ Undo(c) \in -(SEMVMX + 1)..SEMVMX
         /\ In(p) \in {0, 1} /\ In(c) \in {0, 1}
         /\ faults.stops \in 0..MaxStops /\ NUM \in Nat \ {0} /\ NUM <= SEMVMX
         /\ SEMVMX \in Nat /\ MaxStops \in Nat
<1>1. p # c /\ Proc = {p, c} /\ p \in Proc /\ c \in Proc
  BY ProcAssumption DEF Pair
<1>2. /\ "visit_buff" \in Sem /\ semval["visit_buff"] \in 0..SEMVMX
      /\ semadj[p]["visit_buff"] \in -(SEMVMX + 1)..SEMVMX
      /\ semadj[c]["visit_buff"] \in -(SEMVMX + 1)..SEMVMX
  BY <1>1, SemAssumption DEF PoolTypeOK, SemTypeOK
<1>3. In(p) \in {0, 1} /\ In(c) \in {0, 1}
  BY DEF In
<1>4. faults.stops \in 0..MaxStops
  BY DEF PoolTypeOK, DataTypeOK
<1> QED BY <1>1, <1>2, <1>3, <1>4, SizeAssumption, BoundAssumption, SEMVMXAssumption DEF Undo

\* The permits are what the theorem counts.
LEMMA CountInside ==
  ASSUME NEW p, NEW c, Pair(p, c), PoolTypeOK
  PROVE  Cardinality({q \in Proc : Inside(q)}) = In(p) + In(c)
<1> DEFINE I == {q \in Proc : Inside(q)}
<1>0. p # c /\ Proc = {p, c}
  BY PairTypes
<1>1. /\ Inside(p) /\ Inside(c) => I = {p} \cup {c}
      /\ Inside(p) /\ ~Inside(c) => I = {p}
      /\ ~Inside(p) /\ Inside(c) => I = {c}
      /\ ~Inside(p) /\ ~Inside(c) => I = {}
  BY <1>0
<1>2. /\ Cardinality({}) = 0 /\ \A x : IsFiniteSet({x}) /\ Cardinality({x}) = 1
  BY FS_EmptySet, FS_Singleton, Zenon
<1>3. Cardinality({p} \cup {c}) = Cardinality({p}) + 1
  BY <1>0, <1>2, FS_AddElement
<1> HIDE DEF I
<1>4. Cardinality(I) = In(p) + In(c)
  BY <1>1, <1>2, <1>3 DEF In
<1> QED BY <1>4 DEF I

\* What a step of q, the other being r, may do to the permits.
TakeStep(q, r) ==
  /\ semval["visit_buff"] > 0 /\ In(q) = 0 /\ In(q)' = 1
  /\ IF InUndoRange(Undo(q) + 1)
       THEN semval'["visit_buff"] = semval["visit_buff"] - 1 /\ Undo(q)' = Undo(q) + 1
       ELSE semval'["visit_buff"] = semval["visit_buff"] /\ Undo(q)' = Undo(q)
PutStep(q, r) ==
  /\ In(q) = 1 /\ In(q)' = 0
  /\ IF semval["visit_buff"] < SEMVMX /\ InUndoRange(Undo(q) - 1)
       THEN semval'["visit_buff"] = semval["visit_buff"] + 1 /\ Undo(q)' = Undo(q) - 1
       ELSE semval'["visit_buff"] = semval["visit_buff"] /\ Undo(q)' = Undo(q)
DieStep(q, r) ==
  /\ semval'["visit_buff"] = Capped(semval["visit_buff"] + Undo(q))
  /\ Undo(q)' = 0 /\ In(q)' = 0
\* An interrupted call lets q into the loop without a permit, or elsewhere.
StopStep(q, r) ==
  /\ semval'["visit_buff"] = semval["visit_buff"] /\ Undo(q)' = Undo(q)
  /\ In(q) = 0 /\ In(q)' \in {0, 1}
  /\ faults'.stops = faults.stops + 1
SetStep(q, r) ==
  /\ pc[q] = "initVisit" /\ In(q) = 0 /\ In(q)' = 0
  /\ semval'["visit_buff"] = NUM /\ Undo(q)' = 0 /\ Undo(r)' = 0
OtherStays(r) == Undo(r)' = Undo(r) /\ In(r)' = In(r)

\* The arithmetic of each of them, with the room for the permits that interrupted calls
\* add: then no V fails and no undo sum is capped.
LEMMA PermitArithmetic ==
  ASSUME NEW p, NEW c, Pair(p, c), PoolTypeOK, PoolTypeOK', NUM + MaxStops <= SEMVMX,
         NEW q \in {p, c}, NEW r \in {p, c} \ {q}, NEW n \in {0, NUM},
         In(p) - Undo(p) \in 0..faults.stops, In(c) - Undo(c) \in 0..faults.stops,
         n <= semval["visit_buff"] + Undo(p) + Undo(c),
         semval["visit_buff"] + In(p) + In(c) <= n + faults.stops
  PROVE  LET OK(m) == /\ In(p)' - Undo(p)' \in 0..faults'.stops
                      /\ In(c)' - Undo(c)' \in 0..faults'.stops
                      /\ m <= semval'["visit_buff"] + Undo(p)' + Undo(c)'
                      /\ semval'["visit_buff"] + In(p)' + In(c)' <= m + faults'.stops
         IN  /\ SamePlace(q, r) => OK(n)
             /\ OtherStays(r) /\ faults'.stops = faults.stops /\ TakeStep(q, r) => OK(n)
             /\ OtherStays(r) /\ faults'.stops = faults.stops /\ PutStep(q, r) => OK(n)
             /\ OtherStays(r) /\ faults'.stops = faults.stops /\ DieStep(q, r) => OK(n)
             /\ OtherStays(r) /\ StopStep(q, r) => OK(n)
             /\ In(r)' = In(r) /\ faults'.stops = faults.stops /\ n = 0 /\ SetStep(q, r) => OK(NUM)
<1> DEFINE v == semval["visit_buff"]
           w == semval'["visit_buff"]
           s == faults.stops
           t == faults'.stops
           OK(m) == /\ In(q)' - Undo(q)' \in 0..t
                    /\ In(r)' - Undo(r)' \in 0..t
                    /\ m <= w + Undo(q)' + Undo(r)'
                    /\ w + In(q)' + In(r)' <= m + t
<1>1. /\ v \in 0..SEMVMX /\ s \in 0..MaxStops /\ NUM \in Nat \ {0}
      /\ SEMVMX \in Nat /\ MaxStops \in Nat /\ n \in 0..NUM
      /\ In(q) \in {0, 1} /\ In(r) \in {0, 1} /\ Undo(q) \in Int /\ Undo(r) \in Int
  BY PairTypes
<1>a. /\ w \in Int /\ t \in Int
      /\ In(q)' \in Int /\ In(r)' \in Int /\ Undo(q)' \in Int /\ Undo(r)' \in Int
  <2>1. q \in Proc /\ r \in Proc /\ "visit_buff" \in Sem
    BY PairTypes
  <2>2. /\ semval'["visit_buff"] \in Int /\ faults'.stops \in Int
        /\ semadj'[q]["visit_buff"] \in Int /\ semadj'[r]["visit_buff"] \in Int
    BY <2>1, SEMVMXAssumption, BoundAssumption DEF PoolTypeOK, SemTypeOK, DataTypeOK
  <2> QED BY <2>2 DEF Undo, In
<1>2. /\ In(q) - Undo(q) \in 0..s /\ In(r) - Undo(r) \in 0..s
      /\ n <= v + Undo(q) + Undo(r) /\ v + In(q) + In(r) <= n + s
  BY <1>1
<1>3. \A m \in {n, NUM} : OK(m) =>
         /\ In(p)' - Undo(p)' \in 0..faults'.stops
         /\ In(c)' - Undo(c)' \in 0..faults'.stops
         /\ m <= semval'["visit_buff"] + Undo(p)' + Undo(c)'
         /\ semval'["visit_buff"] + In(p)' + In(c)' <= m + faults'.stops
  <2>1. CASE q = p /\ r = c
    BY <2>1
  <2>2. CASE q = c /\ r = p
    BY <2>2, <1>1, <1>a
  <2> QED BY <2>1, <2>2
<1>4. SamePlace(q, r) => OK(n)
  BY <1>2 DEF SamePlace
<1> USE <1>1, <1>2, <1>a
<1>5. OtherStays(r) /\ t = s /\ TakeStep(q, r) => OK(n)
  BY DEF OtherStays, TakeStep, InUndoRange
<1>6. OtherStays(r) /\ t = s /\ PutStep(q, r) => OK(n)
  BY DEF OtherStays, PutStep, InUndoRange
<1>7. OtherStays(r) /\ t = s /\ DieStep(q, r) => OK(n)
  BY DEF OtherStays, DieStep, Capped
<1>8. OtherStays(r) /\ StopStep(q, r) => OK(n)
  BY DEF OtherStays, StopStep
<1>9. In(r)' = In(r) /\ t = s /\ n = 0 /\ SetStep(q, r) => OK(NUM)
  BY DEF SetStep
<1> HIDE DEF OK
<1> QED BY <1>3, <1>4, <1>5, <1>6, <1>7, <1>8, <1>9

\* All of it, for two processes of which p is the producer: nobody comes back to the
\* places before the initialisation.
PermitStep(p, q, r) ==
  /\ pc'[p] \in Uninitialised => pc[p] \in Uninitialised
  /\ In(r)' = In(r)
  /\ \/ SamePlace(q, r)
     \/ /\ OtherStays(r) /\ faults'.stops = faults.stops
        /\ TakeStep(q, r) \/ PutStep(q, r) \/ DieStep(q, r)
     \/ OtherStays(r) /\ StopStep(q, r)
     \/ /\ faults'.stops = faults.stops /\ SetStep(q, r)
        /\ q = p /\ pc'[p] \notin Uninitialised

\* Which of them a step is.
LEMMA PermitSteps ==
  ASSUME NEW p, NEW c, Pair(p, c), PoolTypeOK, Next
  PROVE  \E q \in {p, c} : \E r \in {p, c} \ {q} : PermitStep(p, q, r)
<1>0. p # c /\ Proc = {p, c} /\ p \in Proc /\ c \in Proc /\ "visit_buff" \in Sem
  BY PairTypes
<1>a. ASSUME NEW q \in {p, c}, NEW r \in {p, c} \ {q}, NEW there, Goto(q, there)
      PROVE  pc'[q] = there /\ pc'[r] = pc[r] /\ In(r)' = In(r)
  <2>1. pc'[q] = there /\ pc'[r] = pc[r]
    BY <1>0, <1>a DEF Goto, PoolTypeOK, ControlTypeOK
  <2> QED BY <2>1 DEF In, Inside
<1>b. ASSUME NEW q \in {p, c}, NEW r \in {p, c} \ {q}, NEW there, there \notin Uninitialised, Goto(q, there)
      PROVE  pc'[p] \in Uninitialised => pc[p] \in Uninitialised
  BY <1>a, <1>b DEF Uninitialised
\* Steps that leave visit_buff and the places inside and outside alone.
<1>c. ASSUME NEW q \in {p, c}, NEW r \in {p, c} \ {q}, NEW there, there \notin Uninitialised, Goto(q, there),
             \A x \in {q, r} : semadj'[x]["visit_buff"] = semadj[x]["visit_buff"],
             semval'["visit_buff"] = semval["visit_buff"], faults' = faults,
             In(q)' = In(q)
      PROVE  PermitStep(p, q, r)
  BY <1>a, <1>b, <1>c DEF PermitStep, SamePlace, Undo
<1>d. ASSUME NEW q \in {p, c}, NEW r \in {p, c} \ {q}, NEW sem \in Sem \ {"visit_buff"},
             SemP(q, sem) \/ SemV(q, sem) \/ (\E v \in Nat : SemSetVal(sem, v))
      PROVE  /\ \A x \in {q, r} : semadj'[x]["visit_buff"] = semadj[x]["visit_buff"]
             /\ semval'["visit_buff"] = semval["visit_buff"]
  BY <1>0, <1>d DEF SemP, SemV, SemAdd, SemSetVal, PoolTypeOK, SemTypeOK
<1>1. ASSUME NEW q \in {p, c}, NEW r \in {p, c} \ {q}, Enter(q) PROVE PermitStep(p, q, r)
  <2>1. SemP(q, "visit_buff") /\ faults' = faults /\ Goto(q, "look") /\ pc[q] = "enter"
    BY <1>1 DEF Enter, DoP
  <2>2. In(q) = 0 /\ In(q)' = 1
    BY <2>1, <1>a DEF In, Inside, AtBuffer
  <2>3. TakeStep(q, r) /\ OtherStays(r)
    <3>1. OtherStays(r)
      BY <2>1, <1>0, <1>a DEF OtherStays, SemP, SemAdd, Undo, PoolTypeOK, SemTypeOK
    <3>2. semval["visit_buff"] > 0
      BY <2>1 DEF SemP
    <3>3. UndoAfter(q, "visit_buff", -1) = Undo(q) + 1
      BY <1>0 DEF UndoAfter, Undo, PoolTypeOK, SemTypeOK
    <3>4. SemAdd(q, "visit_buff", -1) => /\ semval'["visit_buff"] = semval["visit_buff"] - 1
                                         /\ Undo(q)' = Undo(q) + 1
      BY <1>0 DEF SemAdd, Undo, PoolTypeOK, SemTypeOK
    <3> QED BY <2>1, <2>2, <3>1, <3>2, <3>3, <3>4 DEF TakeStep, SemP, Undo
  <2> QED BY <2>1, <2>3, <1>a, <1>b DEF PermitStep, Uninitialised
<1>2. ASSUME NEW q \in {p, c}, NEW r \in {p, c} \ {q}, NEW here \in {"skip", "leave"},
             NEW there \in {"enter", "read", "waitItem"}, DoV(q, "visit_buff", here, there)
      PROVE  PermitStep(p, q, r)
  <2>1. SemV(q, "visit_buff") /\ faults' = faults /\ Goto(q, there) /\ pc[q] = here
    BY <1>2 DEF DoV
  <2>2. In(q) = 1 /\ In(q)' = 0
    BY <2>1, <1>a DEF In, Inside, AtBuffer
  <2>3. PutStep(q, r) /\ OtherStays(r)
    <3>1. OtherStays(r)
      BY <2>1, <1>0, <1>a DEF OtherStays, SemV, SemAdd, Undo, PoolTypeOK, SemTypeOK
    <3>3. UndoAfter(q, "visit_buff", 1) = Undo(q) - 1
      BY DEF UndoAfter, Undo
    <3>4. SemAdd(q, "visit_buff", 1) => /\ semval'["visit_buff"] = semval["visit_buff"] + 1
                                        /\ Undo(q)' = Undo(q) - 1
      BY <1>0 DEF SemAdd, Undo, PoolTypeOK, SemTypeOK
    <3> QED BY <2>1, <2>2, <3>1, <3>3, <3>4 DEF PutStep, SemV, Undo
  <2> QED BY <2>1, <2>3, <1>a, <1>b DEF PermitStep, Uninitialised
<1>3. ASSUME ProductStep(p) PROVE PermitStep(p, p, c)
  <2>1. CASE Enter(p)
    BY <2>1, <1>0, <1>1
  <2>2. CASE LeaveScanning(p) \/ ProductLeave(p)
    BY <2>2, <1>0, <1>2 DEF LeaveScanning, ProductLeave
  <2>3. CASE InitVisit(p)
    <3>1. pc[p] = "initVisit" /\ Goto(p, "initConsumer") /\ faults' = faults
      BY <2>3 DEF InitVisit, InitSem
    <3>2. In(p) = 0 /\ In(p)' = 0 /\ pc'[p] = "initConsumer" /\ In(c)' = In(c)
      BY <3>1, <1>0, <1>a DEF In, Inside, AtBuffer
    <3>3. CASE SemSetVal("visit_buff", NUM)
      <4>1. semval'["visit_buff"] = NUM /\ Undo(p)' = 0 /\ Undo(c)' = 0
        BY <3>3, <1>0 DEF SemSetVal, Undo, PoolTypeOK, SemTypeOK
      <4> QED BY <3>1, <3>2, <4>1, <1>0 DEF SetStep, PermitStep, Uninitialised
    <3>4. CASE UNCHANGED <<semval, semadj>>
      BY <3>1, <3>2, <3>4, <1>0, <1>c DEF Uninitialised
    <3> QED BY <2>3, <3>3, <3>4 DEF InitVisit, InitSem
  <2>4. CASE InitConsumer(p) \/ InitProductor(p)
    <3>1. PICK sem \in Sem \ {"visit_buff"}, there \in {"initProductor", "attach"} :
            /\ Goto(p, there) /\ faults' = faults /\ pc[p] \in {"initConsumer", "initProductor"}
            /\ (\E v \in Nat : SemSetVal(sem, v)) \/ UNCHANGED <<semval, semadj>>
      BY <2>4, SemAssumption, SizeAssumption DEF InitConsumer, InitProductor, InitSem
    <3>2. In(p)' = In(p)
      BY <3>1, <1>0, <1>a DEF In, Inside, AtBuffer
    <3>3. /\ \A x \in {p, c} : semadj'[x]["visit_buff"] = semadj[x]["visit_buff"]
          /\ semval'["visit_buff"] = semval["visit_buff"]
      BY <3>1, <1>0, <1>d
    <3> QED BY <3>1, <3>2, <3>3, <1>0, <1>c DEF Uninitialised
  <2>5. CASE WaitPermit(p) \/ Notify(p)
    <3>1. PICK sem \in Sem \ {"visit_buff"}, there \in {"enter", "publish"} :
            /\ Goto(p, there) /\ faults' = faults
            /\ (pc[p] = "waitPermit" /\ there = "enter") \/ (pc[p] = "notify" /\ there = "publish")
            /\ SemP(p, sem) \/ SemV(p, sem)
      BY <2>5, SemAssumption DEF WaitPermit, Notify, DoP, DoV
    <3>2. In(p)' = In(p)
      BY <3>1, <1>0, <1>a DEF In, Inside, AtBuffer
    <3>3. /\ \A x \in {p, c} : semadj'[x]["visit_buff"] = semadj[x]["visit_buff"]
          /\ semval'["visit_buff"] = semval["visit_buff"]
      BY <3>1, <1>0, <1>d
    <3> QED BY <3>1, <3>2, <3>3, <1>0, <1>c DEF Uninitialised
  <2>6. CASE \/ ProductAttach(p) \/ ClearPool(p) \/ ReadProduct(p) \/ LookForFree(p)
             \/ CopyLo(p) \/ CopyHi(p) \/ Publish(p)
    <3>1. PICK there \in {"clear", "read", "waitPermit", "copyLo", "skip", "copyHi", "notify", "leave"} :
            /\ Goto(p, there) /\ UNCHANGED <<semval, semadj, faults>>
            /\ \/ pc[p] \in {"attach", "clear", "read"} /\ there \in {"clear", "read", "waitPermit"}
               \/ pc[p] \in AtBuffer /\ there \notin {"clear", "read", "waitPermit"}
      BY <2>6 DEF ProductAttach, AttachTo, ClearPool, ReadProduct, LookForFree, CopyLo, CopyHi,
                  Publish, ipcVars, AtBuffer
    <3>2. In(p)' = In(p)
      BY <3>1, <1>0, <1>a DEF In, Inside, AtBuffer
    <3> QED BY <3>1, <3>2, <1>0, <1>c DEF Uninitialised
  <2> QED BY <1>3, <2>1, <2>2, <2>3, <2>4, <2>5, <2>6 DEF ProductStep
<1>4. ASSUME ConsumeStep(c) PROVE PermitStep(p, c, p)
  <2>1. CASE Enter(c)
    BY <2>1, <1>0, <1>1
  <2>2. CASE LeaveScanning(c) \/ ConsumeLeave(c)
    BY <2>2, <1>0, <1>2 DEF LeaveScanning, ConsumeLeave
  <2>3. CASE WaitItem(c) \/ SignalProductor(c)
    <3>1. PICK sem \in Sem \ {"visit_buff"}, there \in {"enter", "release"} :
            /\ Goto(c, there) /\ faults' = faults
            /\ (pc[c] = "waitItem" /\ there = "enter") \/ (pc[c] = "signal" /\ there = "release")
            /\ SemP(c, sem) \/ SemV(c, sem)
      BY <2>3, SemAssumption DEF WaitItem, SignalProductor, DoP, DoV
    <3>2. In(c)' = In(c)
      BY <3>1, <1>0, <1>a DEF In, Inside, AtBuffer
    <3>3. /\ \A x \in {c, p} : semadj'[x]["visit_buff"] = semadj[x]["visit_buff"]
          /\ semval'["visit_buff"] = semval["visit_buff"]
      BY <3>1, <1>0, <1>d
    <3> QED BY <3>1, <3>2, <3>3, <1>0, <1>c DEF Uninitialised
  <2>4. CASE \/ ConsumeAttach(c) \/ LookForFull(c) \/ TakeLo(c) \/ TakeHi(c) \/ Deliver(c)
             \/ Release(c)
    <3>1. PICK there \in {"waitItem", "takeLo", "skip", "takeHi", "deliver", "signal", "leave"} :
            /\ Goto(c, there) /\ UNCHANGED <<semval, semadj, faults>>
            /\ \/ pc[c] = "attach" /\ there = "waitItem"
               \/ pc[c] \in AtBuffer /\ there # "waitItem"
      BY <2>4 DEF ConsumeAttach, AttachTo, LookForFull, TakeLo, TakeHi, Deliver, Release, ipcVars,
                  AtBuffer
    <3>2. In(c)' = In(c)
      BY <3>1, <1>0, <1>a DEF In, Inside, AtBuffer
    <3> QED BY <3>1, <3>2, <1>0, <1>c DEF Uninitialised
  <2> QED BY <1>4, <2>1, <2>2, <2>3, <2>4 DEF ConsumeStep
<1>5. ASSUME NEW q \in {p, c}, NEW r \in {p, c} \ {q}, Start(q) \/ AttachFails(q) PROVE PermitStep(p, q, r)
  <2>1. /\ Goto(q, pc'[q]) /\ UNCHANGED <<semval, semadj, faults>>
        /\ pc[q] \in NotRunning \cup {"attach"} /\ pc'[q] \in {"initVisit", "attach", "exited"}
        /\ pc'[q] = "initVisit" => q = p /\ pc[p] = "off"
    BY <1>0, <1>5
       DEF Start, AttachFails, Goto, ipcVars, NotRunning, Pair, PoolTypeOK, ControlTypeOK
  <2>2. In(q)' = In(q)
    BY <2>1 DEF In, Inside, AtBuffer, NotRunning
  <2>3. pc'[r] = pc[r] /\ In(r)' = In(r)
    BY <2>1, <1>a
  <2>4. pc'[p] \in Uninitialised => pc[p] \in Uninitialised
    BY <2>1, <2>3 DEF Uninitialised
  <2> QED BY <2>1, <2>2, <2>3, <2>4 DEF PermitStep, SamePlace, Undo
<1>6. ASSUME NEW q \in {p, c}, NEW r \in {p, c} \ {q}, Kill(q) PROVE PermitStep(p, q, r)
  <2>1. Goto(q, "killed") /\ faults'.stops = faults.stops
    BY <1>6 DEF Kill, PoolTypeOK, DataTypeOK
  <2>2. In(q)' = 0
    BY <2>1, <1>a DEF In, Inside, AtBuffer
  <2>3. /\ semval'["visit_buff"] = Capped(semval["visit_buff"] + Undo(q))
        /\ Undo(q)' = 0 /\ Undo(r)' = Undo(r)
    BY <1>0, <1>6 DEF Kill, SemExit, Undo, PoolTypeOK, SemTypeOK
  <2> QED BY <2>1, <2>2, <2>3, <1>a, <1>b DEF DieStep, OtherStays, PermitStep, Uninitialised
<1>7. ASSUME NEW q \in {p, c}, NEW r \in {p, c} \ {q}, Interrupt(q) PROVE PermitStep(p, q, r)
  <2>1. PICK there \in {"enter", "look"} :
          /\ Goto(q, there) /\ UNCHANGED <<semval, semadj>>
          /\ pc[q] \in {"waitPermit", "waitItem", "enter"}
    BY <1>7 DEF Interrupt, SemPInterrupted
  <2>2. In(q) = 0 /\ In(q)' \in {0, 1}
    BY <2>1 DEF In, Inside, AtBuffer
  <2>3. faults'.stops = faults.stops + 1
    BY <1>7 DEF Interrupt, PoolTypeOK, DataTypeOK
  <2> QED BY <2>1, <2>2, <2>3, <1>a, <1>b DEF StopStep, OtherStays, Undo, PermitStep, Uninitialised
<1>8. \E q \in {p, c} : \E r \in {p, c} \ {q} : PermitStep(p, q, r)
  <2>1. Producers = {p} /\ Consumers = {c}
    BY DEF Pair
  <2> QED BY <1>0, <1>3, <1>4, <1>5, <1>6, <1>7, <2>1 DEF Next
<1> QED BY <1>8

LEMMA PermitsKept ==
  ASSUME NEW p, NEW c, Pair(p, c), NUM + MaxStops <= SEMVMX
  PROVE  PoolTypeOK /\ PoolTypeOK' /\ PermitsInv(p, c) /\ [Next]_vars => PermitsInv(p, c)'
<1> SUFFICES ASSUME PoolTypeOK, PoolTypeOK', PermitsInv(p, c), [Next]_vars PROVE PermitsInv(p, c)'
  OBVIOUS
<1>1. PICK n \in {0, NUM} : PermitsOK(p, c, n)
  BY DEF PermitsInv
<1>2. CASE UNCHANGED vars
  <2>1. UNCHANGED <<semval, semadj, pc, faults>>
    BY <1>2 DEF vars, ipcVars
  <2> QED BY <1>1, <2>1 DEF PermitsInv, PermitsOK, Undo, In, Inside
<1>3. CASE Next
  <2>1. PICK q \in {p, c} : \E r \in {p, c} \ {q} : PermitStep(p, q, r)
    BY <1>3, PermitSteps
  <2>4. PICK r \in {p, c} \ {q} : PermitStep(p, q, r)
    BY <2>1
  <2>2. CASE SetStep(q, r) /\ faults'.stops = faults.stops /\ q = p /\ pc'[p] \notin Uninitialised
    <3>1. n = 0
      BY <1>1, <2>2 DEF SetStep, PermitsOK, Uninitialised
    <3>2. PermitsOK(p, c, NUM)'
      BY <1>1, <2>4, <2>2, <3>1, PermitArithmetic DEF PermitsOK, PermitStep
    <3> QED BY <3>2 DEF PermitsInv
  <2>3. CASE ~(SetStep(q, r) /\ faults'.stops = faults.stops /\ q = p /\ pc'[p] \notin Uninitialised)
    <3>1. PermitsOK(p, c, n)'
      BY <1>1, <2>4, <2>3, PermitArithmetic DEF PermitsOK, PermitStep
    <3> QED BY <3>1 DEF PermitsInv
  <2> QED BY <2>2, <2>3
<1> QED BY <1>2, <1>3

\* A permit is in the semaphore or with a process in the loop, even when processes are
\* killed there, and each interrupted call adds at most one; as long as the semaphore
\* has room for those: where it has not, a V fails and a permit is lost.
THEOREM PairConservesPermits ==
  ASSUME NEW p, NEW c, Pair(p, c), NUM + MaxStops <= SEMVMX
  PROVE  Spec => []PermitsConserved
<1>1. Init => PermitsInv(p, c)
  <2> SUFFICES ASSUME Init PROVE PermitsOK(p, c, 0)
    BY DEF PermitsInv
  <2>1. /\ semval["visit_buff"] = 0 /\ Undo(p) = 0 /\ Undo(c) = 0 /\ faults.stops = 0
        /\ In(p) = 0 /\ In(c) = 0
    BY PairTypes, InitTypes DEF Init, PoolInit, SemInit, Undo, In, Inside, AtBuffer
  <2> QED BY <2>1 DEF PermitsOK
<1>2. PoolTypeOK /\ PoolTypeOK' /\ PermitsInv(p, c) /\ [Next]_vars => PermitsInv(p, c)'
  BY PermitsKept
<1>3. PoolTypeOK /\ PermitsInv(p, c) => PermitsConserved
  <2> SUFFICES ASSUME PoolTypeOK, PermitsInv(p, c) PROVE PermitsConserved
    OBVIOUS
  <2>0. PICK n \in {0, NUM} : PermitsOK(p, c, n)
    BY DEF PermitsInv
  <2>1. Cardinality({q \in Proc : Inside(q)}) = In(p) + In(c)
    BY CountInside, Zenon
  <2>2. /\ n <= semval["visit_buff"] + (In(p) + In(c))
        /\ semval["visit_buff"] + (In(p) + In(c)) <= n + faults.stops
    BY <2>0, PairTypes DEF PermitsOK
  <2>3. n \in Int /\ faults.stops \in Int /\ semval["visit_buff"] + (In(p) + In(c)) \in Int
    BY PairTypes
  <2> QED BY <2>1, <2>2, <2>3 DEF PermitsConserved
<1> QED BY <1>1, <1>2, <1>3, TypeCorrect, PTL DEF Spec

-----------------------------------------------------------------------------
(* The semaphores keep the two in step, when nobody is killed or interrupted *)

\* Sets of buffers can be counted.
LEMMA SlotSets ==
  /\ Cardinality({}) = 0
  /\ \A S \in SUBSET Slot :
       /\ Cardinality(S) \in Nat
       /\ \A x \in Slot \ S : Cardinality(S \cup {x}) = Cardinality(S) + 1
       /\ \A x \in S : Cardinality(S \ {x}) = Cardinality(S) - 1
<1>1. Cardinality({}) = 0
  BY FS_EmptySet
<1>2. ASSUME NEW S \in SUBSET Slot
      PROVE  /\ Cardinality(S) \in Nat
             /\ \A x \in Slot \ S : Cardinality(S \cup {x}) = Cardinality(S) + 1
             /\ \A x \in S : Cardinality(S \ {x}) = Cardinality(S) - 1
  <2>1. IsFiniteSet(Slot)
    BY FS_Interval, SizeAssumption DEF Slot
  <2>2. IsFiniteSet(S)
    BY <2>1, FS_Subset
  <2>3. Cardinality(S) \in Nat
    BY <2>2, FS_CardinalityType
  <2>4. \A x : Cardinality(S \cup {x}) = IF x \in S THEN Cardinality(S) ELSE Cardinality(S) + 1
    BY <2>2, FS_AddElement
  <2>5. \A x : Cardinality(S \ {x}) = IF x \in S THEN Cardinality(S) - 1 ELSE Cardinality(S)
    BY <2>2, FS_RemoveElement
  <2> QED BY <2>3, <2>4, <2>5
<1> QED BY <1>1, <1>2

\* An operation on one semaphore leaves the others alone.
LEMMA OtherSems ==
  ASSUME PoolTypeOK, NEW q \in Proc, NEW s \in Sem, NEW t \in Sem \ {s},
         \/ SemP(q, s) \/ SemV(q, s) \/ (\E v \in Nat : SemSetVal(s, v))
         \/ UNCHANGED <<semval, semadj>>
  PROVE  semval'[t] = semval[t] /\ \A r \in Proc : semadj'[r][t] = semadj[r][t]
BY DEF SemP, SemV, SemAdd, SemSetVal, PoolTypeOK, SemTypeOK

\* From WaitPermit to Publish the producer holds a permit of productor_info.
Holding == {"enter", "look", "skip"} \cup Filling
FlowOK(p) ==
  semadj[p]["productor_info"] < SEMVMX
    => semval["productor_info"] + Cardinality(Outstanding)
         + (IF pc[p] \in Holding THEN 1 ELSE 0) <= NUM

\* A notification not yet taken, or taken by a consumer that scans, is for a full
\* buffer that the consumer has not yet found, or for the one about to be flagged.
Available == {i \in Full : ~\E c \in Consumers : pc[c] \in Emptying /\ index[c] = i}
ScanOK(p, c) ==
  semadj[c]["consumer_info"] < SEMVMX
    => semval["consumer_info"] + (IF Scanning(c) THEN 1 ELSE 0)
         <= Cardinality(Available) + (IF pc[p] = "publish" THEN 1 ELSE 0)
QuietSetUp(p, c) ==
  pc[p] \in Early => semval["consumer_info"] = 0 /\ ~Scanning(c)

\* The next buffer the consumer will look at, how far buffer i is from it, and the
\* order of the products: each delivery that passes i brings the consumer nearer to it.
Wrap(i) == IF i = BUFFER_NUM THEN 0 ELSE i
NextLook(c) == Wrap(IF pc[c] \in Finishing THEN index[c] + 1 ELSE index[c])
Dist(i, from) == IF from <= i THEN i - from ELSE i - from + BUFFER_NUM
OrderOK(c) ==
  /\ pc[c] # "killed" /\ (pc[c] = "off" => index[c] = 0)
  /\ \A i \in Slot : older[i] \subseteq Undelivered
  /\ \A i \in Slot \ Undelivered : passed[i] = 0
  /\ \A i \in Undelivered : passed[i] + Dist(i, NextLook(c)) < BUFFER_NUM

StepInv(p, c) == FlowOK(p) /\ ScanOK(p, c) /\ QuietSetUp(p, c) /\ OrderOK(c)

LEMMA FlowFrame ==
  ASSUME NEW p, NEW c, Pair(p, c), FlowOK(p),
         semval'["productor_info"] = semval["productor_info"],
         semadj'[p]["productor_info"] = semadj[p]["productor_info"],
         stat' = stat,
         pc'[p] \in Holding <=> pc[p] \in Holding,
         \A i \in Slot : pc'[c] = "release" /\ index'[c] = i <=> pc[c] = "release" /\ index[c] = i
  PROVE  FlowOK(p)'
<1>1. Outstanding' = Outstanding
  BY DEF Outstanding, Full, Pair
<1> QED BY <1>1 DEF FlowOK

LEMMA ProductFlow ==
  ASSUME NEW p, NEW c, Pair(p, c), PoolTypeOK, PoolTypeOK', PairInv, FlowOK(p), ProductStep(p)
  PROVE  FlowOK(p)'
<1>0. p # c /\ p \in Proc /\ c \in Proc /\ Producers = {p} /\ Consumers = {c}
      /\ "productor_info" \in Sem /\ NUM \in Nat
  BY PairTypes, SemAssumption DEF Pair
<1>a. /\ pc'[c] = pc[c] /\ index'[c] = index[c]
      /\ \A there : Goto(p, there) => pc'[p] = there
  BY <1>0, ProductFrame DEF Goto, PoolTypeOK, ControlTypeOK
<1>b. /\ \A i : i \in Outstanding <=> i \in Slot /\ stat[i] = 1 /\ ~(pc[c] = "release" /\ index[c] = i)
      /\ \A i : i \in Outstanding'
                  <=> i \in Slot /\ stat'[i] = 1 /\ ~(pc'[c] = "release" /\ index'[c] = i)
  BY <1>0 DEF Outstanding, Full
<1>c. ProducerOK(p) /\ ConsumerOK(c)
  BY <1>0 DEF PairInv
<1>d. /\ Outstanding \in SUBSET Slot /\ Outstanding' \in SUBSET Slot
      /\ Cardinality(Outstanding) \in Nat /\ Cardinality(Outstanding') \in Nat
  BY <1>b, SlotSets
<1>e. /\ semval["productor_info"] \in Nat /\ semval'["productor_info"] \in Nat
      /\ semadj[p]["productor_info"] \in Int /\ semadj'[p]["productor_info"] \in Int
  BY <1>0, SEMVMXAssumption DEF PoolTypeOK, SemTypeOK
<1>1. CASE InitProductor(p)
  <2>1. /\ stat' = stat /\ pc[p] = "initProductor" /\ pc'[p] = "attach"
    BY <1>1, <1>a DEF InitProductor, InitSem, poolVars
  <2>2. Outstanding' = {}
    BY <1>b, <1>c, <2>1 DEF ProducerOK, Early
  <2>3. CASE SemSetVal("productor_info", NUM)
    <3>1. semval'["productor_info"] = NUM
      BY <2>3, <1>0 DEF SemSetVal, PoolTypeOK, SemTypeOK
    <3>2. Cardinality(Outstanding') = 0
      BY <2>2, SlotSets
    <3> QED BY <2>1, <3>1, <3>2, <1>0 DEF FlowOK, Holding, Filling
  <2>4. CASE UNCHANGED <<semval, semadj>>
    BY <2>1, <2>4, <1>0, <1>a, FlowFrame DEF Holding, Filling
  <2> QED BY <1>1, <2>3, <2>4 DEF InitProductor, InitSem
<1>2. CASE WaitPermit(p)
  <2>1. /\ stat' = stat /\ pc[p] = "waitPermit" /\ pc'[p] = "enter" /\ SemP(p, "productor_info")
    BY <1>2, <1>a DEF WaitPermit, DoP, poolVars
  <2>2. Outstanding' = Outstanding
    BY <1>a, <1>b, <2>1
  <2>3. /\ InUndoRange(UndoAfter(p, "productor_info", -1))
             => semval'["productor_info"] = semval["productor_info"] - 1
                /\ semadj'[p]["productor_info"] = semadj[p]["productor_info"] + 1
        /\ ~InUndoRange(UndoAfter(p, "productor_info", -1)) => UNCHANGED <<semval, semadj>>
    BY <2>1, <1>0 DEF SemP, SemAdd, PoolTypeOK, SemTypeOK
  <2>4. UndoAfter(p, "productor_info", -1) = semadj[p]["productor_info"] + 1
        /\ semadj[p]["productor_info"] \in -(SEMVMX + 1)..SEMVMX
    BY <1>0, <1>e DEF UndoAfter, PoolTypeOK, SemTypeOK
  <2>5. pc[p] \notin Holding /\ pc'[p] \in Holding
    BY <2>1 DEF Holding, Filling
  <2>6. CASE InUndoRange(UndoAfter(p, "productor_info", -1))
    BY <1>0, <1>d, <1>e, <2>2, <2>3, <2>5, <2>6, SEMVMXAssumption DEF FlowOK
  <2>7. CASE ~InUndoRange(UndoAfter(p, "productor_info", -1))
    <3>1. semadj'[p]["productor_info"] = SEMVMX
      BY <2>3, <2>4, <2>7, SEMVMXAssumption DEF InUndoRange
    <3> QED BY <3>1, SEMVMXAssumption DEF FlowOK
  <2> QED BY <2>6, <2>7
<1>3. CASE Publish(p)
  <2> DEFINE j == index[p]
  <2>1. /\ UNCHANGED <<semval, semadj>> /\ pc[p] = "publish" /\ pc'[p] = "leave"
        /\ j \in Slot /\ stat[j] = 0 /\ \A i \in Slot : stat'[i] = IF i = j THEN 1 ELSE stat[i]
    BY <1>0, <1>3, <1>a, <1>c
       DEF Publish, ipcVars, ProducerOK, Filling, AtBuffer, PoolTypeOK, ControlTypeOK, DataTypeOK
  <2>2. ~(pc[c] = "release" /\ index[c] = j)
    BY <2>1, <1>c DEF ConsumerOK, Emptying
  <2>3. Outstanding' = Outstanding \cup {j} /\ j \notin Outstanding
    <3>1. \A i : i \in Outstanding' <=> i \in Outstanding \/ i = j
      BY <1>a, <1>b, <2>1, <2>2
    <3> QED BY <3>1, <1>b, <2>1
  <2>4. Cardinality(Outstanding') = Cardinality(Outstanding) + 1
    BY <2>1, <2>3, <1>d, SlotSets
  <2>5. pc[p] \in Holding /\ pc'[p] \notin Holding
    BY <2>1 DEF Holding, Filling
  <2> QED BY <2>1, <2>4, <2>5, <1>0, <1>d, <1>e DEF FlowOK
<1>4. CASE ~(InitProductor(p) \/ WaitPermit(p) \/ Publish(p))
  <2>1. \/ \E s \in Sem \ {"productor_info"} :
             SemP(p, s) \/ SemV(p, s) \/ (\E v \in Nat : SemSetVal(s, v))
        \/ UNCHANGED <<semval, semadj>>
    BY <1>4, SemAssumption, SizeAssumption
       DEF ProductStep, InitVisit, InitConsumer, InitSem, ProductAttach, AttachTo, ClearPool,
           ReadProduct, Enter, LookForFree, LeaveScanning, CopyLo, CopyHi, Notify, ProductLeave,
           DoP, DoV, ipcVars
  <2>2. /\ semval'["productor_info"] = semval["productor_info"]
        /\ semadj'[p]["productor_info"] = semadj[p]["productor_info"]
    BY <1>0, <2>1, OtherSems
  <2>3. stat' = stat
    <3>1. CASE ClearPool(p)
      <4>1. \A i \in Slot : stat[i] = 0
        BY <3>1, <1>c DEF ClearPool, ProducerOK, Early
      <4> QED BY <3>1, <4>1 DEF ClearPool, PoolTypeOK, DataTypeOK
    <3>2. CASE ~ClearPool(p)
      BY <1>4, <3>2
         DEF ProductStep, InitVisit, InitConsumer, InitSem, ProductAttach, AttachTo, ReadProduct,
             Enter, LookForFree, LeaveScanning, CopyLo, CopyHi, Notify, ProductLeave, DoP, DoV,
             poolVars
    <3> QED BY <3>1, <3>2
  <2>4. pc'[p] \in Holding <=> pc[p] \in Holding
    BY <1>4, <1>a
       DEF ProductStep, InitVisit, InitConsumer, InitSem, ProductAttach, AttachTo, ClearPool,
           ReadProduct, Enter, LookForFree, LeaveScanning, CopyLo, CopyHi, Notify, ProductLeave,
           DoP, DoV, Holding, Filling
  <2> QED BY <1>a, <2>2, <2>3, <2>4, FlowFrame
<1> QED BY <1>1, <1>2, <1>3, <1>4

LEMMA ConsumeFlow ==
  ASSUME NEW p, NEW c, Pair(p, c), PoolTypeOK, PoolTypeOK', PairInv, FlowOK(p), ConsumeStep(c)
  PROVE  FlowOK(p)'
<1>0. p # c /\ p \in Proc /\ c \in Proc /\ Producers = {p} /\ Consumers = {c}
      /\ "productor_info" \in Sem /\ NUM \in Nat
  BY PairTypes, SemAssumption DEF Pair
<1>a. /\ pc'[p] = pc[p] /\ index'[p] = index[p]
      /\ \A there : Goto(c, there) => pc'[c] = there
  BY <1>0, ConsumeFrame DEF Goto, PoolTypeOK, ControlTypeOK
<1>b. /\ \A i : i \in Outstanding <=> i \in Slot /\ stat[i] = 1 /\ ~(pc[c] = "release" /\ index[c] = i)
      /\ \A i : i \in Outstanding'
                  <=> i \in Slot /\ stat'[i] = 1 /\ ~(pc'[c] = "release" /\ index'[c] = i)
  BY <1>0 DEF Outstanding, Full
<1>c. ConsumerOK(c)
  BY <1>0 DEF PairInv
<1>d. /\ Outstanding \in SUBSET Slot /\ Cardinality(Outstanding) \in Nat
  BY <1>b, SlotSets
<1>e. /\ semval["productor_info"] \in Nat /\ semval'["productor_info"] \in Nat
  BY <1>0, SEMVMXAssumption DEF PoolTypeOK, SemTypeOK
<1>1. CASE SignalProductor(c)
  <2> DEFINE j == index[c]
  <2>1. /\ stat' = stat /\ index' = index /\ pc[c] = "signal" /\ pc'[c] = "release"
        /\ SemV(c, "productor_info") /\ j \in Slot /\ stat[j] = 1
    BY <1>0, <1>1, <1>a, <1>c
       DEF SignalProductor, DoV, poolVars, ConsumerOK, Emptying, AtBuffer, PoolTypeOK, ControlTypeOK
  <2>2. Outstanding' = Outstanding \ {j} /\ j \in Outstanding
    <3>1. \A i : i \in Outstanding' <=> i \in Outstanding /\ i # j
      BY <1>b, <2>1
    <3> QED BY <3>1, <1>b, <2>1
  <2>3. Cardinality(Outstanding') = Cardinality(Outstanding) - 1
    BY <2>2, <1>d, SlotSets
  <2>4. /\ semval'["productor_info"] <= semval["productor_info"] + 1
        /\ semadj'[p]["productor_info"] = semadj[p]["productor_info"]
    BY <2>1, <1>0, <1>e DEF SemV, SemAdd, PoolTypeOK, SemTypeOK
  <2> QED BY <2>3, <2>4, <1>0, <1>a, <1>d, <1>e DEF FlowOK
<1>2. CASE Release(c)
  <2>1. /\ UNCHANGED <<semval, semadj>> /\ pc[c] = "release" /\ pc'[c] = "leave"
        /\ \A i \in Slot : stat'[i] = IF i = index[c] THEN 0 ELSE stat[i]
    BY <1>2, <1>a DEF Release, ipcVars, PoolTypeOK, DataTypeOK
  <2>2. Outstanding' = Outstanding
    <3>1. \A i : i \in Outstanding' <=> i \in Outstanding
      BY <1>b, <2>1
    <3> QED BY <3>1
  <2> QED BY <2>1, <2>2, <1>a DEF FlowOK
<1>3. CASE ~(SignalProductor(c) \/ Release(c))
  <2>1. \/ \E s \in Sem \ {"productor_info"} : SemP(c, s) \/ SemV(c, s)
        \/ UNCHANGED <<semval, semadj>>
    BY <1>3, SemAssumption
       DEF ConsumeStep, ConsumeAttach, WaitItem, Enter, LookForFull, LeaveScanning, TakeLo, TakeHi,
           Deliver, ConsumeLeave, AttachTo, DoP, DoV, ipcVars
  <2>2. /\ semval'["productor_info"] = semval["productor_info"]
        /\ semadj'[p]["productor_info"] = semadj[p]["productor_info"]
    BY <1>0, <2>1, OtherSems
  <2>3. stat' = stat /\ pc[c] # "release" /\ pc'[c] # "release"
    BY <1>3, <1>a
       DEF ConsumeStep, ConsumeAttach, WaitItem, Enter, LookForFull, LeaveScanning, TakeLo, TakeHi,
           Deliver, ConsumeLeave, AttachTo, DoP, DoV, poolVars
  <2> QED BY <1>a, <2>2, <2>3, FlowFrame
<1> QED BY <1>1, <1>2, <1>3

LEMMA ScanFrame ==
  ASSUME NEW p, NEW c, Pair(p, c), ScanOK(p, c),
         semval'["consumer_info"] = semval["consumer_info"],
         semadj'[c]["consumer_info"] = semadj[c]["consumer_info"],
         Scanning(c)' <=> Scanning(c), pc'[p] = "publish" <=> pc[p] = "publish",
         \A i \in Slot :
           stat'[i] = 1 /\ ~(pc'[c] \in Emptying /\ index'[c] = i)
             <=> stat[i] = 1 /\ ~(pc[c] \in Emptying /\ index[c] = i)
  PROVE  ScanOK(p, c)'
<1>1. Available' = Available
  BY DEF Available, Full, Pair
<1> QED BY <1>1 DEF ScanOK

LEMMA ProductScan ==
  ASSUME NEW p, NEW c, Pair(p, c), PoolTypeOK, PoolTypeOK', PairInv,
         ScanOK(p, c), QuietSetUp(p, c), ProductStep(p)
  PROVE  ScanOK(p, c)' /\ QuietSetUp(p, c)'
<1>0. p # c /\ p \in Proc /\ c \in Proc /\ Producers = {p} /\ Consumers = {c}
      /\ "consumer_info" \in Sem
  BY PairTypes, SemAssumption DEF Pair
<1>a. /\ pc'[c] = pc[c] /\ index'[c] = index[c] /\ (Scanning(c)' <=> Scanning(c))
      /\ \A there : Goto(p, there) => pc'[p] = there
  BY <1>0, ProductFrame DEF Goto, PoolTypeOK, ControlTypeOK, Scanning
<1>b. /\ \A i : i \in Available <=> i \in Slot /\ stat[i] = 1 /\ ~(pc[c] \in Emptying /\ index[c] = i)
      /\ \A i : i \in Available'
                  <=> i \in Slot /\ stat'[i] = 1 /\ ~(pc'[c] \in Emptying /\ index'[c] = i)
  BY <1>0 DEF Available, Full
<1>c. ProducerOK(p) /\ ConsumerOK(c)
  BY <1>0 DEF PairInv
<1>d. /\ Available \in SUBSET Slot /\ Available' \in SUBSET Slot
      /\ Cardinality(Available) \in Nat /\ Cardinality(Available') \in Nat
  BY <1>b, SlotSets
<1>e. /\ semval["consumer_info"] \in Nat /\ semval'["consumer_info"] \in Nat
      /\ semadj[c]["consumer_info"] \in Int
  BY <1>0, SEMVMXAssumption DEF PoolTypeOK, SemTypeOK
<1>1. CASE InitConsumer(p)
  <2>1. /\ stat' = stat /\ pc[p] = "initConsumer" /\ pc'[p] = "initProductor"
    BY <1>1, <1>a DEF InitConsumer, InitSem, poolVars
  <2>2. semval'["consumer_info"] = 0 /\ ~Scanning(c)'
    <3>1. semval["consumer_info"] = 0 /\ ~Scanning(c)
      BY <2>1 DEF QuietSetUp, Early
    <3>2. SemSetVal("consumer_info", 0) => semval'["consumer_info"] = 0
      BY <1>0 DEF SemSetVal, PoolTypeOK, SemTypeOK
    <3> QED BY <1>1, <1>a, <3>1, <3>2 DEF InitConsumer, InitSem
  <2> QED BY <2>1, <2>2, <1>d DEF ScanOK, QuietSetUp
<1>2. CASE Notify(p)
  <2>1. /\ stat' = stat /\ pc[p] = "notify" /\ pc'[p] = "publish" /\ SemV(p, "consumer_info")
    BY <1>2, <1>a DEF Notify, DoV, poolVars
  <2>2. Available' = Available
    BY <1>a, <1>b, <2>1
  <2>3. /\ semval'["consumer_info"] <= semval["consumer_info"] + 1
        /\ semadj'[c]["consumer_info"] = semadj[c]["consumer_info"]
    BY <2>1, <1>0, <1>e DEF SemV, SemAdd, PoolTypeOK, SemTypeOK
  <2>4. ScanOK(p, c)'
    BY <2>1, <2>2, <2>3, <1>a, <1>d, <1>e DEF ScanOK
  <2> QED BY <2>1, <2>4 DEF QuietSetUp, Early
<1>3. CASE Publish(p)
  <2> DEFINE j == index[p]
  <2>1. /\ UNCHANGED <<semval, semadj>> /\ pc[p] = "publish" /\ pc'[p] = "leave"
        /\ j \in Slot /\ stat[j] = 0 /\ \A i \in Slot : stat'[i] = IF i = j THEN 1 ELSE stat[i]
    BY <1>0, <1>3, <1>a, <1>c
       DEF Publish, ipcVars, ProducerOK, Filling, AtBuffer, PoolTypeOK, ControlTypeOK, DataTypeOK
  <2>2. ~(pc[c] \in Emptying /\ index[c] = j)
    BY <2>1, <1>c DEF ConsumerOK
  <2>3. Available' = Available \cup {j} /\ j \notin Available
    <3>1. \A i : i \in Available' <=> i \in Available \/ i = j
      BY <1>a, <1>b, <2>1, <2>2
    <3> QED BY <3>1, <1>b, <2>1
  <2>4. Cardinality(Available') = Cardinality(Available) + 1
    BY <2>1, <2>3, <1>d, SlotSets
  <2>5. ScanOK(p, c)'
    BY <2>1, <2>4, <1>a, <1>d, <1>e DEF ScanOK
  <2> QED BY <2>1, <2>5 DEF QuietSetUp, Early
<1>4. CASE ~(InitConsumer(p) \/ Notify(p) \/ Publish(p))
  <2>1. \/ \E s \in Sem \ {"consumer_info"} :
             SemP(p, s) \/ SemV(p, s) \/ (\E v \in Nat : SemSetVal(s, v))
        \/ UNCHANGED <<semval, semadj>>
    BY <1>4, SemAssumption, SizeAssumption
       DEF ProductStep, InitVisit, InitProductor, InitSem, ProductAttach, AttachTo, ClearPool,
           ReadProduct, WaitPermit, Enter, LookForFree, LeaveScanning, CopyLo, CopyHi,
           ProductLeave, DoP, DoV, ipcVars
  <2>2. /\ semval'["consumer_info"] = semval["consumer_info"]
        /\ semadj'[c]["consumer_info"] = semadj[c]["consumer_info"]
    BY <1>0, <2>1, OtherSems
  <2>3. stat' = stat
    <3>1. CASE ClearPool(p)
      <4>1. \A i \in Slot : stat[i] = 0
        BY <3>1, <1>c DEF ClearPool, ProducerOK, Early
      <4> QED BY <3>1, <4>1 DEF ClearPool, PoolTypeOK, DataTypeOK
    <3>2. CASE ~ClearPool(p)
      BY <1>4, <3>2
         DEF ProductStep, InitVisit, InitProductor, InitSem, ProductAttach, AttachTo, ReadProduct,
             WaitPermit, Enter, LookForFree, LeaveScanning, CopyLo, CopyHi, ProductLeave, DoP, DoV,
             poolVars
    <3> QED BY <3>1, <3>2
  <2>4. pc[p] # "publish" /\ pc'[p] # "publish" /\ (pc'[p] \in Early => pc[p] \in Early)
    BY <1>4, <1>a
       DEF ProductStep, InitVisit, InitProductor, InitSem, ProductAttach, AttachTo, ClearPool,
           ReadProduct, WaitPermit, Enter, LookForFree, LeaveScanning, CopyLo, CopyHi,
           ProductLeave, DoP, DoV, Early
  <2>5. ScanOK(p, c)'
    BY <1>a, <2>2, <2>3, <2>4, ScanFrame
  <2> QED BY <1>a, <2>2, <2>4, <2>5 DEF QuietSetUp
<1> QED BY <1>1, <1>2, <1>3, <1>4

LEMMA ConsumeScan ==
  ASSUME NEW p, NEW c, Pair(p, c), PoolTypeOK, PoolTypeOK', PairInv,
         ScanOK(p, c), QuietSetUp(p, c), ConsumeStep(c)
  PROVE  ScanOK(p, c)' /\ QuietSetUp(p, c)'
<1>0. p # c /\ p \in Proc /\ c \in Proc /\ Producers = {p} /\ Consumers = {c}
      /\ "consumer_info" \in Sem
  BY PairTypes, SemAssumption DEF Pair
<1>a. /\ pc'[p] = pc[p]
      /\ \A there : Goto(c, there) => pc'[c] = there
  BY <1>0, ConsumeFrame DEF Goto, PoolTypeOK, ControlTypeOK
<1>b. /\ \A i : i \in Available <=> i \in Slot /\ stat[i] = 1 /\ ~(pc[c] \in Emptying /\ index[c] = i)
      /\ \A i : i \in Available'
                  <=> i \in Slot /\ stat'[i] = 1 /\ ~(pc'[c] \in Emptying /\ index'[c] = i)
  BY <1>0 DEF Available, Full
<1>d. /\ Available \in SUBSET Slot /\ Cardinality(Available) \in Nat
  BY <1>b, SlotSets
<1>e. /\ semval["consumer_info"] \in Nat /\ semval'["consumer_info"] \in Nat
      /\ semadj[c]["consumer_info"] \in Int /\ semadj'[c]["consumer_info"] \in Int
  BY <1>0, SEMVMXAssumption DEF PoolTypeOK, SemTypeOK
<1>1. CASE WaitItem(c)
  <2>1. /\ stat' = stat /\ pc[c] = "waitItem" /\ pc'[c] = "enter" /\ SemP(c, "consumer_info")
    BY <1>1, <1>a DEF WaitItem, DoP, poolVars
  <2>2. Available' = Available
    <3>1. \A i : i \in Available' <=> i \in Available
      BY <1>b, <2>1 DEF Emptying
    <3> QED BY <3>1
  <2>3. /\ InUndoRange(UndoAfter(c, "consumer_info", -1))
             => semval'["consumer_info"] = semval["consumer_info"] - 1
                /\ semadj'[c]["consumer_info"] = semadj[c]["consumer_info"] + 1
        /\ ~InUndoRange(UndoAfter(c, "consumer_info", -1)) => UNCHANGED <<semval, semadj>>
    BY <2>1, <1>0 DEF SemP, SemAdd, PoolTypeOK, SemTypeOK
  <2>4. UndoAfter(c, "consumer_info", -1) = semadj[c]["consumer_info"] + 1
        /\ semadj[c]["consumer_info"] \in -(SEMVMX + 1)..SEMVMX
    BY <1>0, <1>e DEF UndoAfter, PoolTypeOK, SemTypeOK
  <2>5. ~Scanning(c) /\ Scanning(c)'
    BY <2>1 DEF Scanning
  <2>6. ScanOK(p, c)'
    <3>1. CASE InUndoRange(UndoAfter(c, "consumer_info", -1))
      BY <1>a, <1>d, <1>e, <2>2, <2>3, <2>5, <3>1, SEMVMXAssumption DEF ScanOK
    <3>2. CASE ~InUndoRange(UndoAfter(c, "consumer_info", -1))
      <4>1. semadj'[c]["consumer_info"] = SEMVMX
        BY <2>3, <2>4, <3>2, SEMVMXAssumption DEF InUndoRange
      <4> QED BY <4>1, SEMVMXAssumption DEF ScanOK
    <3> QED BY <3>1, <3>2
  <2>7. pc[p] \notin Early
    BY <2>1, <1>e DEF QuietSetUp, SemP
  <2> QED BY <1>a, <2>6, <2>7 DEF QuietSetUp
<1>2. CASE LookForFull(c) /\ stat[index[c]] = 1
  <2> DEFINE j == index[c]
  <2>1. /\ stat' = stat /\ pc[c] = "look" /\ pc'[c] = "takeLo" /\ index' = index
        /\ UNCHANGED <<semval, semadj>> /\ j \in Slot
    BY <1>0, <1>2, <1>a DEF LookForFull, poolVars, ipcVars, AtBuffer, PoolTypeOK, ControlTypeOK
  <2>2. Available' = Available \ {j} /\ j \in Available
    <3>1. \A i : i \in Available' <=> i \in Available /\ i # j
      BY <1>b, <2>1 DEF Emptying
    <3> QED BY <3>1, <1>b, <1>2, <2>1 DEF Emptying
  <2>3. Cardinality(Available') = Cardinality(Available) - 1
    BY <2>2, <1>d, SlotSets
  <2>4. Scanning(c) /\ ~Scanning(c)'
    BY <2>1 DEF Scanning
  <2> QED BY <2>1, <2>3, <2>4, <1>a, <1>d, <1>e DEF ScanOK, QuietSetUp
<1>3. CASE Release(c)
  <2>1. /\ UNCHANGED <<semval, semadj>> /\ pc[c] = "release" /\ pc'[c] = "leave"
        /\ \A i \in Slot : stat'[i] = IF i = index[c] THEN 0 ELSE stat[i]
    BY <1>3, <1>a DEF Release, ipcVars, PoolTypeOK, DataTypeOK
  <2>2. ~Scanning(c) /\ ~Scanning(c)'
    BY <2>1 DEF Scanning
  <2>3. ScanOK(p, c)'
    BY <2>1, <2>2, <1>a, ScanFrame DEF Emptying
  <2> QED BY <2>1, <2>2, <2>3, <1>a DEF QuietSetUp
<1>4. CASE ~(WaitItem(c) \/ Release(c) \/ (LookForFull(c) /\ stat[index[c]] = 1))
  <2>1. \/ \E s \in Sem \ {"consumer_info"} : SemP(c, s) \/ SemV(c, s)
        \/ UNCHANGED <<semval, semadj>>
    BY <1>4, SemAssumption
       DEF ConsumeStep, ConsumeAttach, Enter, LookForFull, LeaveScanning, TakeLo, TakeHi,
           Deliver, SignalProductor, ConsumeLeave, AttachTo, DoP, DoV, ipcVars
  <2>2. /\ semval'["consumer_info"] = semval["consumer_info"]
        /\ semadj'[c]["consumer_info"] = semadj[c]["consumer_info"]
    BY <1>0, <2>1, OtherSems
  <2>3. /\ stat' = stat
        /\ \/ pc[c] \in Emptying /\ pc'[c] \in Emptying /\ index' = index
           \/ pc[c] \notin Emptying /\ pc'[c] \notin Emptying
    BY <1>4, <1>a
       DEF ConsumeStep, ConsumeAttach, Enter, LookForFull, LeaveScanning, TakeLo, TakeHi,
           Deliver, SignalProductor, ConsumeLeave, AttachTo, DoP, DoV, poolVars, Emptying
  <2>4. Scanning(c)' <=> Scanning(c)
    BY <1>4, <1>a
       DEF ConsumeStep, ConsumeAttach, Enter, LookForFull, LeaveScanning, TakeLo, TakeHi,
           Deliver, SignalProductor, ConsumeLeave, AttachTo, DoP, DoV, Scanning
  <2>5. ScanOK(p, c)'
    BY <1>a, <2>2, <2>3, <2>4, ScanFrame
  <2> QED BY <1>a, <2>2, <2>4, <2>5 DEF QuietSetUp
<1> QED BY <1>1, <1>2, <1>3, <1>4

\* Distances round the pool.
LEMMA Distances ==
  /\ \A j \in 0..BUFFER_NUM : Wrap(j) \in Slot /\ j % BUFFER_NUM = Wrap(j)
  /\ \A i, j \in Slot : Dist(i, j) \in 0..BUFFER_NUM - 1
  /\ \A i, j \in Slot : i # j => Dist(i, Wrap(j + 1)) = Dist(i, j) - 1
BY SizeAssumption DEF Slot, Dist, Wrap

LEMMA NextInPool ==
  ASSUME PoolTypeOK, NEW c \in Proc
  PROVE  NextLook(c) \in Slot
<1>1. index[c] \in 0..BUFFER_NUM /\ (pc[c] \in Finishing => index[c] + 1 \in 0..BUFFER_NUM)
  BY SizeAssumption DEF PoolTypeOK, ControlTypeOK, Finishing, AtBuffer, Slot
<1> QED BY <1>1, Distances DEF NextLook

LEMMA OrderFrame ==
  ASSUME NEW c, OrderOK(c), NextLook(c)' = NextLook(c),
         pc'[c] # "killed" /\ (pc'[c] = "off" => index'[c] = 0),
         UNCHANGED <<stat, older, passed, written>>
  PROVE  OrderOK(c)'
<1>1. Undelivered' = Undelivered
  BY DEF Undelivered
<1> QED BY <1>1 DEF OrderOK, Dist

LEMMA ProductOrder ==
  ASSUME NEW p, NEW c, Pair(p, c), PoolTypeOK, PoolTypeOK', PairInv, WrittenOK, OrderOK(c),
         ProductStep(p)
  PROVE  OrderOK(c)'
<1>0. p # c /\ p \in Proc /\ c \in Proc /\ Producers = {p} /\ Consumers = {c}
  BY PairTypes DEF Pair
<1>a. pc'[c] = pc[c] /\ index'[c] = index[c] /\ NextLook(c)' = NextLook(c)
  BY <1>0, ProductFrame DEF NextLook
<1>b. ProducerOK(p)
  BY <1>0 DEF PairInv
<1>1. CASE Publish(p)
  <2> DEFINE j == index[p]
  <2>1. /\ j \in Slot /\ stat[j] = 0
    BY <1>0, <1>1, <1>b DEF Publish, ProducerOK, Filling, AtBuffer, PoolTypeOK, ControlTypeOK
  <2>2. \A i \in Slot : /\ stat'[i] = IF i = j THEN 1 ELSE stat[i]
                        /\ written'[i] = IF i = j THEN 0 ELSE written[i]
                        /\ passed'[i] = IF i = j THEN 0 ELSE passed[i]
    BY <1>1 DEF Publish, PoolTypeOK, DataTypeOK
  <2>a. \A i \in Slot : older'[i] \subseteq Undelivered \cup older[i]
    BY <1>1 DEF Publish, PoolTypeOK, DataTypeOK
  <2>3. \A i : i \in Undelivered' <=> i \in Undelivered \/ i = j
    BY <2>1, <2>2 DEF Undelivered
  <2>4. \A i \in Slot : older'[i] \subseteq Undelivered'
    BY <2>3, <2>a DEF OrderOK
  <2>5. \A i \in Slot \ Undelivered' : passed'[i] = 0
    BY <2>2, <2>3 DEF OrderOK
  <2>6. Dist(j, NextLook(c)) \in 0..BUFFER_NUM - 1
    BY <1>0, <2>1, NextInPool, Distances
  <2>7. ASSUME NEW i \in Undelivered' PROVE passed'[i] + Dist(i, NextLook(c)) < BUFFER_NUM
    <3>1. CASE i = j
      BY <2>1, <2>2, <2>6, <3>1, SizeAssumption
    <3>2. CASE i # j
      BY <2>2, <2>3, <3>2 DEF OrderOK, Undelivered
    <3> QED BY <3>1, <3>2
  <2>8. \A i \in Undelivered' : passed'[i] + Dist(i, NextLook(c)') < BUFFER_NUM
    BY <1>a, <2>7
  <2>9. pc'[c] # "killed" /\ (pc'[c] = "off" => index'[c] = 0)
    BY <1>a DEF OrderOK
  <2> QED BY <2>4, <2>5, <2>8, <2>9 DEF OrderOK, Dist
<1>2. CASE ~Publish(p)
  <2>1. UNCHANGED <<older, passed, written>>
    BY <1>2
       DEF ProductStep, InitVisit, InitConsumer, InitProductor, InitSem, ProductAttach, AttachTo,
           ClearPool, ReadProduct, WaitPermit, Enter, LookForFree, LeaveScanning, CopyLo, CopyHi,
           Notify, ProductLeave, DoP, DoV, history
  <2>2. stat' = stat
    <3>1. CASE ClearPool(p)
      <4>1. \A i \in Slot : stat[i] = 0
        BY <3>1, <1>b DEF ClearPool, ProducerOK, Early
      <4> QED BY <3>1, <4>1 DEF ClearPool, PoolTypeOK, DataTypeOK
    <3>2. CASE ~ClearPool(p)
      BY <1>2, <3>2
         DEF ProductStep, InitVisit, InitConsumer, InitProductor, InitSem, ProductAttach, AttachTo,
             ReadProduct, WaitPermit, Enter, LookForFree, LeaveScanning, CopyLo, CopyHi,
             Notify, ProductLeave, DoP, DoV, poolVars
    <3> QED BY <3>1, <3>2
  <2>3. pc'[c] # "killed" /\ (pc'[c] = "off" => index'[c] = 0)
    BY <1>a DEF OrderOK
  <2> QED BY <1>a, <2>1, <2>2, <2>3, OrderFrame
<1> QED BY <1>1, <1>2

LEMMA ConsumeOrder ==
  ASSUME NEW p, NEW c, Pair(p, c), PoolTypeOK, PoolTypeOK', PairInv, WrittenOK, OrderOK(c),
         ConsumeStep(c)
  PROVE  OrderOK(c)'
<1>0. c \in Proc /\ Consumers = {c}
  BY PairTypes DEF Pair
<1>a. \A there : Goto(c, there) => pc'[c] = there
  BY <1>0 DEF Goto, PoolTypeOK, ControlTypeOK
<1>b. ConsumerOK(c) /\ index[c] \in 0..BUFFER_NUM
  BY <1>0 DEF PairInv, PoolTypeOK, ControlTypeOK
<1>1. CASE Deliver(c)
  <2> DEFINE j == index[c]
  <2>1. /\ j \in Slot /\ stat[j] = 1 /\ pc[c] = "deliver" /\ pc'[c] = "signal"
        /\ index' = index /\ stat' = stat
    BY <1>0, <1>1, <1>a, <1>b
       DEF Deliver, ConsumerOK, Emptying, AtBuffer, PoolTypeOK, ControlTypeOK, poolVars
  <2>2. \A i \in Slot : /\ passed[i] \in Nat /\ written[i] \in Nat
                        /\ written'[i] = IF i = j THEN written[i] + 1 ELSE written[i]
    BY <1>1 DEF Deliver, PoolTypeOK, DataTypeOK
  <2>a. \A i \in Slot : older'[i] \subseteq older[i] /\ j \notin older'[i]
    BY <1>1 DEF Deliver, PoolTypeOK, DataTypeOK
  <2>3. \A i \in Slot : passed'[i] = IF i = j THEN 0
                                     ELSE IF i \in older[j] THEN passed[i] + 1 ELSE passed[i]
    BY <1>1 DEF Deliver
  <2>4. \A i : i \in Undelivered' <=> i \in Undelivered /\ i # j
    <3>1. written'[j] # 0
      BY <2>1, <2>2
    <3> QED BY <2>1, <2>2, <3>1 DEF Undelivered
  <2>5. \A i \in Slot : older'[i] \subseteq Undelivered'
    <3>1. \A i \in Slot : older[i] \subseteq Undelivered
      BY DEF OrderOK
    <3> QED BY <2>4, <2>a, <3>1
  <2>6. \A i \in Slot \ Undelivered' : passed'[i] = 0
    BY <2>1, <2>3, <2>4 DEF OrderOK
  <2>7. NextLook(c) = j /\ NextLook(c)' = Wrap(j + 1)
    BY <2>1, SizeAssumption DEF NextLook, Finishing, Slot, Wrap
  <2>8. ASSUME NEW i \in Undelivered' PROVE passed'[i] + Dist(i, NextLook(c)') < BUFFER_NUM
    <3>1. i \in Slot /\ i # j /\ i \in Undelivered
      BY <2>4 DEF Undelivered
    <3>2. passed[i] + Dist(i, j) < BUFFER_NUM
      BY <2>7, <3>1 DEF OrderOK
    <3>3. Dist(i, Wrap(j + 1)) = Dist(i, j) - 1 /\ Dist(i, j) \in 0..BUFFER_NUM - 1
      BY <2>1, <3>1, Distances
    <3>4. passed'[i] <= passed[i] + 1 /\ passed'[i] \in Nat /\ passed[i] \in Nat
      <4>1. passed'[i] = passed[i] \/ passed'[i] = passed[i] + 1
        BY <2>3, <3>1
      <4> QED BY <2>2, <3>1, <4>1
    <3> QED BY <2>7, <3>2, <3>3, <3>4, SizeAssumption
  <2> QED BY <2>1, <2>5, <2>6, <2>8 DEF OrderOK, Dist
<1>2. CASE Release(c)
  <2> DEFINE j == index[c]
  <2>1. /\ j \in Slot /\ pc[c] = "release" /\ pc'[c] = "leave"
        /\ index'[c] = j + 1 /\ older' = older /\ passed' = passed
    BY <1>0, <1>2, <1>a DEF Release, AtBuffer, PoolTypeOK, ControlTypeOK
  <2>2. \A i \in Slot : /\ stat'[i] = IF i = j THEN 0 ELSE stat[i]
                        /\ written'[i] = IF i = j THEN 0 ELSE written[i]
    BY <1>2 DEF Release, PoolTypeOK, DataTypeOK
  <2>3. written[j] > 0 /\ written[j] \in Nat
    BY <1>0, <2>1 DEF WrittenOK, Finishing, PoolTypeOK, DataTypeOK
  <2>4. Undelivered' = Undelivered
    <3>1. \A i : i \in Undelivered' <=> i \in Undelivered
      BY <2>1, <2>2, <2>3 DEF Undelivered
    <3> QED BY <3>1
  <2>5. NextLook(c)' = NextLook(c)
    BY <2>1 DEF NextLook, Finishing
  <2> QED BY <2>1, <2>4, <2>5 DEF OrderOK
<1>3. CASE LookForFull(c) /\ stat[index[c]] = 0
  <2> DEFINE j == index[c]
  <2>1. /\ j \in Slot /\ pc[c] = "look" /\ pc'[c] = "skip" /\ index'[c] = j + 1
        /\ UNCHANGED <<stat, older, passed, written>>
    BY <1>0, <1>3, <1>a
       DEF LookForFull, AtBuffer, PoolTypeOK, ControlTypeOK, poolVars, history
  <2>2. Undelivered' = Undelivered
    BY <2>1 DEF Undelivered
  <2>3. NextLook(c) = j /\ NextLook(c)' = Wrap(j + 1)
    BY <2>1, SizeAssumption DEF NextLook, Finishing, Slot, Wrap
  <2>4. ASSUME NEW i \in Undelivered PROVE passed[i] + Dist(i, NextLook(c)') < BUFFER_NUM
    <3>1. i \in Slot /\ i # j
      BY <1>3, <2>1 DEF Undelivered
    <3>2. passed[i] + Dist(i, j) < BUFFER_NUM /\ passed[i] \in Nat
      BY <2>3, <3>1 DEF OrderOK, PoolTypeOK, DataTypeOK
    <3>3. Dist(i, Wrap(j + 1)) = Dist(i, j) - 1 /\ Dist(i, j) \in 0..BUFFER_NUM - 1
      BY <2>1, <3>1, Distances
    <3> QED BY <2>3, <3>2, <3>3, SizeAssumption
  <2> QED BY <2>1, <2>2, <2>4 DEF OrderOK, Dist
<1>4. CASE ~(Deliver(c) \/ Release(c) \/ (LookForFull(c) /\ stat[index[c]] = 0))
  <2>1. UNCHANGED <<stat, older, passed, written>> /\ pc'[c] \notin {"off", "killed"}
    BY <1>4, <1>a
       DEF ConsumeStep, ConsumeAttach, WaitItem, Enter, LookForFull, LeaveScanning, TakeLo, TakeHi,
           SignalProductor, ConsumeLeave, AttachTo, DoP, DoV, poolVars, history
  <2>2. NextLook(c)' = NextLook(c)
    <3>1. CASE Enter(c)
      <4>1. index'[c] = index[c] % BUFFER_NUM /\ pc[c] = "enter" /\ pc'[c] = "look"
        BY <1>0, <1>a, <3>1 DEF Enter, DoP, PoolTypeOK, ControlTypeOK
      <4>2. index[c] % BUFFER_NUM = Wrap(index[c]) /\ Wrap(index[c]) \in Slot
        BY <1>b, Distances
      <4>3. \A i \in Slot : Wrap(i) = i
        BY SizeAssumption DEF Wrap, Slot
      <4> QED BY <4>1, <4>2, <4>3 DEF NextLook, Finishing
    <3>2. CASE ~Enter(c)
      <4>1. index' = index /\ (pc'[c] \in Finishing <=> pc[c] \in Finishing)
        BY <1>4, <1>a, <3>2
           DEF ConsumeStep, ConsumeAttach, WaitItem, LookForFull, LeaveScanning, TakeLo, TakeHi,
               SignalProductor, ConsumeLeave, AttachTo, DoP, DoV, Finishing
      <4> QED BY <4>1 DEF NextLook
    <3> QED BY <3>1, <3>2
  <2> QED BY <2>1, <2>2, OrderFrame
<1> QED BY <1>1, <1>2, <1>3, <1>4


\* Starting a process, or one that finds no segment: there is nothing else outside.
LEMMA OutsideInStep ==
  ASSUME NEW p, NEW c, Pair(p, c), PoolTypeOK, PoolTypeOK', StepInv(p, c),
         MaxKills = 0, MaxStops = 0, NEW q \in Proc,
         Start(q) \/ AttachFails(q) \/ Kill(q) \/ Interrupt(q)
  PROVE  StepInv(p, c)'
<1>0. p # c /\ p \in Proc /\ c \in Proc /\ Producers = {p} /\ Consumers = {c} /\ q \in {p, c}
      /\ p \notin Restartable
  BY PairTypes DEF Pair
<1>1. Start(q) \/ AttachFails(q)
  BY DEF Kill, Interrupt, PoolTypeOK, DataTypeOK
<1>2. /\ UNCHANGED <<semval, semadj, stat, older, passed, written>>
      /\ \A r \in Proc \ {q} : pc'[r] = pc[r] /\ index'[r] = index[r]
  BY <1>1, OutsideFrame DEF Start, AttachFails, ipcVars, poolVars, history
<1>3. /\ pc[q] = "off" \/ pc[q] = "attach"
      /\ pc'[q] \in {"initVisit", "attach", "exited"}
      /\ pc'[q] = "initVisit" => pc[q] = "off"
      /\ pc'[q] = "attach" => index'[q] = 0 /\ pc[q] = "off"
      /\ pc'[q] # "attach" /\ q = c => index'[q] = index[q]
  BY <1>0, <1>1
     DEF Start, AttachFails, Goto, StepInv, OrderOK, PoolTypeOK, ControlTypeOK
<1>4. FlowOK(p)'
  BY <1>0, <1>2, <1>3, FlowFrame DEF StepInv, Holding, Filling
<1>5. Scanning(c)' <=> Scanning(c)
  BY <1>0, <1>2, <1>3 DEF Scanning
<1>6. ScanOK(p, c)'
  BY <1>0, <1>2, <1>3, <1>5, ScanFrame DEF StepInv, Emptying
<1>7. QuietSetUp(p, c)'
  <2>1. pc'[p] \in Early => pc[p] \in Early
    BY <1>0, <1>2, <1>3 DEF Early
  <2> QED BY <2>1, <1>2, <1>5 DEF QuietSetUp, StepInv
<1>8. OrderOK(c)'
  <2>1. index'[c] = index[c] /\ (pc'[c] \in Finishing <=> pc[c] \in Finishing)
    BY <1>0, <1>2, <1>3 DEF StepInv, OrderOK, Finishing
  <2>2. NextLook(c)' = NextLook(c)
    BY <2>1 DEF NextLook
  <2>3. pc'[c] # "killed" /\ (pc'[c] = "off" => index'[c] = 0)
    BY <1>0, <1>2, <1>3 DEF StepInv, OrderOK
  <2> QED BY <1>2, <2>2, <2>3, OrderFrame DEF StepInv
<1> QED BY <1>4, <1>6, <1>7, <1>8 DEF StepInv

LEMMA StepsKept ==
  ASSUME NEW p, NEW c, Pair(p, c), MaxKills = 0, MaxStops = 0
  PROVE  /\ PoolTypeOK /\ PoolTypeOK' /\ PairInv /\ WrittenOK /\ StepInv(p, c) /\ [Next]_vars
              => StepInv(p, c)'
<1> SUFFICES ASSUME PoolTypeOK, PoolTypeOK', PairInv, WrittenOK, StepInv(p, c), [Next]_vars
             PROVE  StepInv(p, c)'
  OBVIOUS
<1>0. Producers = {p} /\ Consumers = {c}
  BY DEF Pair
<1>1. CASE UNCHANGED vars
  <2>1. UNCHANGED <<semval, semadj, stat, pc, index, older, passed, written>>
    BY <1>1 DEF vars, ipcVars, poolVars, history
  <2>2. FlowOK(p)' /\ ScanOK(p, c)' /\ QuietSetUp(p, c)'
    BY <2>1, FlowFrame, ScanFrame DEF StepInv, QuietSetUp, Scanning
  <2>3. OrderOK(c)'
    <3>1. NextLook(c)' = NextLook(c)
      BY <2>1 DEF NextLook
    <3> QED BY <2>1, <3>1, OrderFrame DEF StepInv, OrderOK
  <2> QED BY <2>2, <2>3 DEF StepInv
<1>2. CASE ProductStep(p)
  BY <1>2, ProductFlow, ProductScan, ProductOrder DEF StepInv
<1>3. CASE ConsumeStep(c)
  BY <1>3, ConsumeFlow, ConsumeScan, ConsumeOrder DEF StepInv
<1>4. CASE \E q \in Proc : Start(q) \/ AttachFails(q) \/ Kill(q) \/ Interrupt(q)
  BY <1>4, OutsideInStep
<1> QED BY <1>0, <1>1, <1>2, <1>3, <1>4 DEF Next

LEMMA InStepImplied ==
  ASSUME NEW p, NEW c, Pair(p, c)
  PROVE  PoolTypeOK /\ StepInv(p, c) => SemaphoresInStep
<1> SUFFICES ASSUME PoolTypeOK, StepInv(p, c) PROVE SemaphoresInStep
  OBVIOUS
<1>0. p \in Proc /\ c \in Proc /\ Producers = {p} /\ Consumers = {c} /\ Sem # {}
      /\ {"productor_info", "consumer_info"} \subseteq Sem /\ NUM \in Nat
  BY PairTypes, SemAssumption DEF Pair
<1>1. semval["productor_info"] \in Nat /\ semval["consumer_info"] \in Nat
  BY <1>0, SEMVMXAssumption DEF PoolTypeOK, SemTypeOK
<1>2. Outstanding \in SUBSET Slot /\ Available \in SUBSET Slot /\ Available \subseteq Full
  BY DEF Outstanding, Available, Full
<1>3. Cardinality(Outstanding) \in Nat /\ Cardinality(Available) \in Nat
  BY <1>2, SlotSets
<1>4. FlowControl
  BY <1>0, <1>1, <1>3 DEF StepInv, FlowOK, FlowControl
<1>5. NoVainScan
  <2>1. Full = {} => Cardinality(Available) = 0
    BY <1>2, SlotSets
  <2> QED BY <1>0, <1>1, <1>3, <2>1
          DEF StepInv, ScanOK, NoVainScan, ScansOnlyWhenNotified
<1>6. BoundedOvertaking
  <2> SUFFICES ASSUME NEW i \in Slot PROVE passed[i] < BUFFER_NUM
    BY DEF BoundedOvertaking
  <2>1. BUFFER_NUM > 0 /\ BUFFER_NUM \in Nat /\ passed[i] \in Nat
    BY SizeAssumption DEF PoolTypeOK, DataTypeOK
  <2>2. CASE i \notin Undelivered
    BY <2>1, <2>2 DEF StepInv, OrderOK
  <2>3. CASE i \in Undelivered
    <3>1. Dist(i, NextLook(c)) \in 0..BUFFER_NUM - 1
      BY <1>0, NextInPool, Distances
    <3>2. passed[i] + Dist(i, NextLook(c)) < BUFFER_NUM
      BY <2>3 DEF StepInv, OrderOK
    <3> QED BY <2>1, <3>1, <3>2
  <2> QED BY <2>2, <2>3
<1> QED BY <1>4, <1>5, <1>6 DEF SemaphoresInStep

\* Undisturbed, the semaphores keep the two in step although each is told before the
\* flags are set: at most NUM products out, no scan in vain, none overtaken by a turn.
THEOREM PairInStep ==
  ASSUME NEW p, NEW c, Pair(p, c), MaxKills = 0, MaxStops = 0
  PROVE  Spec => []SemaphoresInStep
<1>0. OnePair
  BY DEF Pair, OnePair
<1>1. Init => WrittenOK /\ StepInv(p, c)
  <2> SUFFICES ASSUME Init PROVE WrittenOK /\ StepInv(p, c)
    OBVIOUS
  <2>1. WrittenOK
    BY ProcAssumption DEF Init, PoolInit, WrittenOK, Finishing
  <2>2. p \in Proc /\ c \in Proc /\ {"productor_info", "consumer_info"} \subseteq Sem
    BY PairTypes, InitTypes, SemAssumption
  <2>3. Outstanding = {} /\ Available = {} /\ Undelivered = {}
    BY DEF Init, PoolInit, Outstanding, Available, Full, Undelivered
  <2>4. /\ semval["productor_info"] = 0 /\ semval["consumer_info"] = 0
        /\ pc[p] = "off" /\ pc[c] = "off" /\ index[c] = 0
    BY <2>2 DEF Init, PoolInit, SemInit
  <2>5. FlowOK(p) /\ ScanOK(p, c) /\ QuietSetUp(p, c)
    BY <2>3, <2>4, SlotSets, SizeAssumption
       DEF FlowOK, ScanOK, QuietSetUp, Scanning, Holding, Filling
  <2>6. OrderOK(c)
    BY <2>3, <2>4 DEF OrderOK, Init, PoolInit
  <2> QED BY <2>1, <2>5, <2>6 DEF StepInv
<1>2. PoolTypeOK /\ PairInv /\ WrittenOK /\ [Next]_vars => WrittenOK'
  BY <1>0, NextWritten
<1>3. PoolTypeOK /\ PoolTypeOK' /\ PairInv /\ WrittenOK /\ StepInv(p, c) /\ [Next]_vars
        => StepInv(p, c)'
  BY StepsKept
<1>4. PoolTypeOK /\ StepInv(p, c) => SemaphoresInStep
  BY InStepImplied
<1> QED BY <1>0, <1>1, <1>2, <1>3, <1>4, PairInvHolds, PTL DEF Spec
=============================================================================
