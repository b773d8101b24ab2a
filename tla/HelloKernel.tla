---------------------------- MODULE HelloKernel ----------------------------
(***************************************************************************)
(* kernal/hellokernel.c, a character device with one shared buffer, and    *)
(* the processes that use it, which run kernal/test.c (write, then read)   *)
(* or only read, while run.sh loads and unloads the module.                *)
(*                                                                         *)
(* The kernel around the module is seen through what it returns: every     *)
(* allocation may fail, class_create and device_create report that with an *)
(* error pointer and never with NULL, open takes a reference on the module *)
(* (file_operations.owner) and rmmod waits for there to be none.           *)
(* The buffer is copied byte by byte, as copy_from_user and copy_to_user   *)
(* interleave on two processors; no lock is taken.                         *)
(***************************************************************************)
EXTENDS Integers, Sequences, FiniteSets

CONSTANTS
  User,       \* processes that use the device
  Char,       \* bytes other than the terminator
  Size,       \* bytes of the buffer (1024 in the source)
  NUL, Junk,  \* the terminator; what fresh memory holds
  MaxLoads    \* bound: how many times the module is loaded

ASSUME SizeAssumption == Size \in Nat \ {0}
ASSUME CharAssumption == Char \cap {NUL, Junk} = {} /\ NUL # Junk
ASSUME MaxLoadsAssumption == MaxLoads \in Nat

VARIABLES
  loader,    \* where hello_init is, or what it has come to
  loads,     \* times the module was loaded
  registered, \* what the kernel knows of the device: its number under DEV_NAME, m_cdev,
             \* lyh_dev, and /dev/lyh_dev_2
  shared_buffer,  \* the buffer, or <<>> for the null pointer
  pc,        \* pc[u]: where user u is
  local,     \* local[u]: what u writes and reads, and where its copies are
  disturbed  \* history: others changed the buffer since u's write began

vars == <<loader, loads, registered, shared_buffer, pc, local, disturbed>>

Null == <<>>
Cell == 0..Size - 1
Byte == Char \cup {NUL, Junk}
\* What a user writes: it fits into the buffer with its terminator.
Message == UNION {[1..n -> Char] : n \in 1..Size - 1}
Loading == {"alloc", "add", "class", "device", "kmalloc", "memset"}
InCall == {"writing", "reading"}

Registration ==
  [regions : 0..MaxLoads, cdev : BOOLEAN, class : {"none", "valid", "error"}, node : BOOLEAN]

TypeOK ==
  /\ loader \in {"out", "live", "oopsed"} \cup Loading
  /\ loads \in 0..MaxLoads
  /\ registered \in Registration
  /\ shared_buffer \in [Cell -> Byte] \cup {Null}
  /\ pc \in [User -> {"idle", "opened", "written", "done", "oopsed"} \cup InCall]
  /\ local \in [User -> [name : Message \cup {<<>>}, pos : 0..Size, len : 0..Size,
                         out : Seq(Byte), num : 0..Size]]
  /\ \A u \in User : Len(local[u].out) <= local[u].len
  /\ disturbed \in [User -> BOOLEAN]

Unregistered == [regions |-> 0, cdev |-> FALSE, class |-> "none", node |-> FALSE]
\* name and out are those of test.c, num is what the last call returned; pos counts the
\* bytes a write has copied, len is the length fp_read took when it was called.
NewProcess == [name |-> <<>>, pos |-> 0, len |-> 0, out |-> <<>>, num |-> 0]

Init ==
  /\ loader = "out" /\ loads = 0
  /\ registered = Unregistered /\ shared_buffer = Null
  /\ pc = [u \in User |-> "idle"]
  /\ local = [u \in User |-> NewProcess]
  /\ disturbed = [u \in User |-> FALSE]

-----------------------------------------------------------------------------
(* hello_init and hello_exit *)

Insmod ==
  /\ loader = "out" /\ loads < MaxLoads
  /\ loader' = "alloc" /\ loads' = loads + 1
  /\ UNCHANGED <<registered, shared_buffer, pc, local, disturbed>>

\* A step of hello_init that registers something, or fails to.
Registers(here) == loader = here /\ UNCHANGED <<loads, shared_buffer, pc, local, disturbed>>

\* alloc_chrdev_region; when it fails init returns -1 and the module is thrown out.
AllocRegion ==
  /\ Registers("alloc")
  /\ \/ loader' = "add" /\ registered' = [registered EXCEPT !.regions = @ + 1]
     \/ loader' = "out" /\ UNCHANGED registered

\* cdev_alloc, whose NULL cdev_init would write through, and cdev_add, after whose
\* failure init returns -1 with the device number still registered.
AddCdev ==
  /\ Registers("add")
  /\ \/ loader' = "class" /\ registered' = [registered EXCEPT !.cdev = TRUE]
     \/ loader' \in {"out", "oopsed"} /\ UNCHANGED registered

\* class_create fails with an error pointer, which "== NULL" does not recognise.
CreateClass ==
  /\ Registers("class") /\ loader' = "device"
  /\ \E class \in {"valid", "error"} : registered' = [registered EXCEPT !.class = class]

\* device_create fails, for an erroneous class always, with an error pointer too.
CreateDevice ==
  /\ Registers("device") /\ loader' = "kmalloc"
  /\ \E node \in {registered.class = "valid", FALSE} : registered' = [registered EXCEPT !.node = node]

\* Mutant: init does not wait for the buffer.
Kmalloc_Skipped ==
  loader = "kmalloc" /\ loader' = "live" /\ UNCHANGED <<loads, registered, shared_buffer, pc, local, disturbed>>

\* kmalloc, whose NULL memset would write through; fresh memory is not cleared.
Kmalloc ==
  /\ loader = "kmalloc"
  /\ \/ loader' = "memset" /\ shared_buffer' = [i \in Cell |-> Junk]
     \/ loader' = "oopsed" /\ UNCHANGED shared_buffer
  /\ UNCHANGED <<loads, registered, pc, local, disturbed>>

\* Users of the buffer, who do not know of a store that is not theirs; it is noted.
Disturb(others) ==
  disturbed' = [u \in User |-> disturbed[u] \/ (u \in others /\ pc[u] \in InCall \cup {"written"})]

\* Mutant: the buffer is not cleared.
Memset_Forgotten ==
  loader = "memset" /\ loader' = "live" /\ UNCHANGED <<loads, registered, shared_buffer, pc, local, disturbed>>

Memset ==
  /\ loader = "memset" /\ loader' = "live"
  /\ shared_buffer' = [i \in Cell |-> NUL]
  /\ Disturb(User)
  /\ UNCHANGED <<loads, registered, pc, local>>

\* The users that hold a reference on the module: `owner' makes open take one,
\* and a process that died in a handler never gives it back.
Holders == {u \in User : pc[u] # "idle"}

\* rmmod and hello_exit.  From here on open fails, so that nobody sees the order of the
\* calls.  The buffer is not freed, but the only pointer to it goes with the module.
Rmmod ==
  /\ loader = "live" /\ Holders = {}
  /\ loader' = "out"
  /\ registered' = [Unregistered EXCEPT !.regions = registered.regions - 1]
  /\ shared_buffer' = Null
  /\ UNCHANGED <<loads, pc, local, disturbed>>

-----------------------------------------------------------------------------
(* test.c, and the file operations it calls *)

Goto(u, there) == pc' = [pc EXCEPT ![u] = there]
StrLen(b) ==
  IF \E i \in Cell : b[i] = NUL
    THEN CHOOSE i \in Cell : b[i] = NUL /\ \A j \in 0..i - 1 : b[j] # NUL
    ELSE Size

\* open("/dev/lyh_dev_2"): the node leads to the device.  (When it fails, test.c ends.)
Open(u) ==
  /\ pc[u] = "idle" /\ registered.node /\ registered.cdev
  /\ Goto(u, "opened")
  /\ UNCHANGED <<loader, loads, registered, shared_buffer, local, disturbed>>

\* fp_write: copy_from_user to the null pointer kills the caller in the kernel.
Write(u) ==
  /\ pc[u] = "opened"
  /\ Goto(u, IF shared_buffer = Null THEN "oopsed" ELSE "writing")
  /\ \E m \in Message : local' = [local EXCEPT ![u].name = m]
  /\ disturbed' = [disturbed EXCEPT ![u] = FALSE]
  /\ UNCHANGED <<loader, loads, registered, shared_buffer>>

\* What copy_from_user stores at i: the message, then its terminator.
Source(u, i) == IF i < Len(local[u].name) THEN local[u].name[i + 1] ELSE NUL

CopySize(u) == Len(local[u].name) + 1

StoreByte(u) ==
  /\ pc[u] = "writing" /\ local[u].pos < CopySize(u)
  /\ shared_buffer' = [shared_buffer EXCEPT ![local[u].pos] = Source(u, local[u].pos)]
  /\ local' = [local EXCEPT ![u].pos = @ + 1]
  /\ Disturb(User \ {u})
  /\ UNCHANGED <<loader, loads, registered, pc>>

WriteReturns(u) ==
  /\ pc[u] = "writing" /\ local[u].pos = CopySize(u)
  /\ local' = [local EXCEPT ![u].num = StrLen(shared_buffer)]
  /\ Goto(u, "written")
  /\ UNCHANGED <<loader, loads, registered, shared_buffer, disturbed>>

\* fp_read: without a buffer it returns 0; otherwise the length is taken once for the
\* copy and once more for the result.  (strlen of memory not yet cleared runs past its
\* end; Size stands for what it finds there.)
Read(u) ==
  /\ pc[u] \in {"opened", "written"}
  /\ IF shared_buffer = Null
       THEN Goto(u, "done") /\ local' = [local EXCEPT ![u].num = 0]
       ELSE Goto(u, "reading") /\ local' = [local EXCEPT ![u].len = StrLen(shared_buffer)]
  /\ UNCHANGED <<loader, loads, registered, shared_buffer, disturbed>>

LoadByte(u) ==
  /\ pc[u] = "reading" /\ Len(local[u].out) < local[u].len
  /\ local' = [local EXCEPT ![u].out = Append(@, shared_buffer[Len(@)])]
  /\ UNCHANGED <<loader, loads, registered, shared_buffer, pc, disturbed>>

ReadReturns(u) ==
  /\ pc[u] = "reading" /\ Len(local[u].out) = local[u].len
  /\ local' = [local EXCEPT ![u].num = StrLen(shared_buffer)]
  /\ Goto(u, "done")
  /\ UNCHANGED <<loader, loads, registered, shared_buffer, disturbed>>

\* close, and the process ends; another may start.
Close(u) ==
  /\ pc[u] = "done"
  /\ Goto(u, "idle")
  /\ local' = [local EXCEPT ![u] = NewProcess]
  /\ disturbed' = [disturbed EXCEPT ![u] = FALSE]
  /\ UNCHANGED <<loader, loads, registered, shared_buffer>>

HelloInit == AllocRegion \/ AddCdev \/ CreateClass \/ CreateDevice \/ Kmalloc \/ Memset
TestStep(u) ==
  \/ Open(u) \/ Write(u) \/ StoreByte(u) \/ WriteReturns(u)
  \/ Read(u) \/ LoadByte(u) \/ ReadReturns(u) \/ Close(u)

Next == Insmod \/ HelloInit \/ Rmmod \/ \E u \in User : TestStep(u)
Spec == Init /\ [][Next]_vars

-----------------------------------------------------------------------------
\* No device the kernel can still find leads to functions of a module thrown out,
\* although no failing path of hello_init undoes anything: the two failures that
\* come after cdev_add are exactly those its tests against NULL overlook.
NothingOutlivesModule ==
  loader = "out" =>
    ~registered.cdev /\ ~registered.node /\ registered.class = "none" /\ shared_buffer = Null

\* The device is there before its buffer is: a write can find the null pointer, but
\* only while the module is being loaded (or loading has crashed).
CrashesOnlyWhileLoading ==
  [][\A u \in User : pc[u] # "oopsed" /\ pc'[u] = "oopsed"
       => loader \in Loading \cup {"oopsed"}]_vars

\* strlen(shared_buffer) ends inside the buffer, whatever writers interleave.
TerminatedWhenLive ==
  loader = "live" => \E i \in Cell : shared_buffer[i] = NUL

\* test.c: what is read is what was written, and that many bytes, unless someone else
\* has written meanwhile, whatever was in the buffer before.
ReadsBackWhatItWrote ==
  \A u \in User : pc[u] = "done" /\ local[u].name \in Message /\ ~disturbed[u]
    => local[u].out = local[u].name /\ local[u].num = Len(local[u].name)

\* The module is there as a whole or not at all, and its buffer always ends.
DeviceSound == TypeOK /\ NothingOutlivesModule /\ TerminatedWhenLive

\* Users of one device, with no lock between them, read what they wrote, and none
\* crashes the kernel but while the module is loaded.
UsersServed == []ReadsBackWhatItWrote /\ CrashesOnlyWhileLoading
=============================================================================
