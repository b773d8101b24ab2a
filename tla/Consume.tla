------------------------------ MODULE Consume ------------------------------
(***************************************************************************)
(* pc/consume.c: the consumer process.  It attaches the pool without       *)
(* initialising anything, then for ever waits for a notification, scans    *)
(* the pool for a full buffer, copies it out and writes it to              *)
(* consumeN.txt.                                                           *)
(***************************************************************************)
EXTENDS BufferPool

ConsumeAttach(c) == AttachTo(c, "waitItem")

WaitItem(c) ==
  /\ DoP(c, "consumer_info", "waitItem", "enter")
  /\ UNCHANGED index

\* if (pool->stat[index] == 1) ... else if (pool->stat[index] == 0) index++
LookForFull(c) ==
  /\ pc[c] = "look"
  /\ \/ stat[index[c]] = 1 /\ Goto(c, "takeLo") /\ UNCHANGED index
     \/ /\ stat[index[c]] = 0
        /\ Goto(c, "skip")
        /\ index' = [index EXCEPT ![c] = @ + 1]
  /\ UNCHANGED <<ipcVars, poolVars, local, sink, history, faults>>

\* memcpy(consumer, pool->buffer[index], sizeof(consumer))
TakeLo(c) ==
  /\ pc[c] = "takeLo"
  /\ local' = [local EXCEPT ![c] = [lo |-> buffer[index[c]].lo, hi |-> @.hi]]
  /\ Goto(c, "takeHi")
  /\ UNCHANGED <<ipcVars, poolVars, index, sink, history, faults>>
\* Mutant: the product is copied but not written out.
TakeHi_NoWrite(c) ==
  /\ pc[c] = "takeHi"
  /\ local' = [local EXCEPT ![c] = [lo |-> @.lo, hi |-> buffer[index[c]].hi]]
  /\ Goto(c, "signal")
  /\ UNCHANGED <<ipcVars, poolVars, index, sink, history, faults>>

TakeHi(c) ==
  /\ pc[c] = "takeHi"
  /\ local' = [local EXCEPT ![c] = [lo |-> @.lo, hi |-> buffer[index[c]].hi]]
  /\ Goto(c, "deliver")
  /\ UNCHANGED <<ipcVars, poolVars, index, sink, history, faults>>

\* write(fd, consumer, sizeof(consumer)); close(fd)
Deliver(c) ==
  /\ pc[c] = "deliver"
  /\ sink' = local[c]
  /\ older' = [i \in Slot |-> IF i = index[c] THEN {} ELSE older[i] \ {index[c]}]
  /\ passed' = [i \in Slot |-> IF i = index[c] THEN 0
                               ELSE IF i \in older[index[c]] THEN passed[i] + 1 ELSE passed[i]]
  /\ written' = [written EXCEPT ![index[c]] = @ + 1]
  /\ Goto(c, "signal")
  /\ UNCHANGED <<ipcVars, poolVars, index, local, faults>>

\* The producer is told before the flag is cleared.
SignalProductor(c) == DoV(c, "productor_info", "signal", "release")

\* Mutant: index stays at the buffer just emptied.
Release_KeepsIndex(c) ==
  /\ pc[c] = "release"
  /\ stat' = [stat EXCEPT ![index[c]] = 0]
  /\ written' = [written EXCEPT ![index[c]] = 0]
  /\ Goto(c, "leave")
  /\ UNCHANGED <<ipcVars, buffer, index, local, sink, older, passed, faults>>

\* pool->stat[index] = 0; running = 0; index++
Release(c) ==
  /\ pc[c] = "release"
  /\ stat' = [stat EXCEPT ![index[c]] = 0]
  /\ index' = [index EXCEPT ![c] = @ + 1]
  /\ Goto(c, "leave")
  /\ written' = [written EXCEPT ![index[c]] = 0]
  /\ UNCHANGED <<ipcVars, buffer, local, sink, older, passed, faults>>

ConsumeLeave(c) == DoV(c, "visit_buff", "leave", "waitItem")

ConsumeStep(c) ==
  \/ ConsumeAttach(c) \/ WaitItem(c)
  \/ Enter(c) \/ LookForFull(c) \/ LeaveScanning(c)
  \/ TakeLo(c) \/ TakeHi(c) \/ Deliver(c) \/ SignalProductor(c)
  \/ Release(c) \/ ConsumeLeave(c)

Reading(c) == c \in Consumers /\ pc[c] \in {"takeLo", "takeHi"}
=============================================================================
