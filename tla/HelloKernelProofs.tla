------------------------- MODULE HelloKernelProofs -------------------------
(***************************************************************************)
(* What is proved of kernal/hellokernel.c and test.c for every number of   *)
(* processes, buffer size, set of bytes and bound on loads: that the       *)
(* module is there as a whole or not at all, that its buffer always ends,  *)
(* that only loading can crash a user, and that an undisturbed user reads  *)
(* back what it wrote.                                                     *)
(***************************************************************************)
EXTENDS HelloKernel, SequenceTheorems, WellFoundedInduction, TLAPS

\* How far hello_init has come, by what it has made.
BeforeCdev == {"out", "alloc", "add"}
BeforeNode == BeforeCdev \cup {"class", "device"}
BeforeBuffer == BeforeNode \cup {"kmalloc"}

\* What hello_init has made at each place, and the device numbers it has taken.
LoaderOK ==
  /\ loader \in BeforeCdev => ~registered.cdev /\ registered.class = "none"
  /\ loader \in BeforeNode => ~registered.node /\ \A u \in User : pc[u] = "idle"
  /\ loader \in BeforeBuffer => shared_buffer = Null
  /\ loader \in {"memset", "live"} => shared_buffer # Null
  /\ registered.regions <= loads
  /\ loader = "alloc" => registered.regions < loads
  /\ loader \notin {"out", "alloc", "oopsed"} => registered.regions > 0

\* The terminator no write can overwrite with anything else.
LastIsNUL == loader = "live" => shared_buffer[Size - 1] = NUL

\* What a process has where it is.
UserOK(u) ==
  /\ pc[u] \in InCall \cup {"written"} => shared_buffer # Null
  /\ pc[u] \in {"idle", "opened"} => local[u] = NewProcess
  /\ pc[u] = "writing" => /\ local[u].name \in Message
                          /\ local[u].pos <= CopySize(u)
  /\ pc[u] \in {"writing", "written"} => local[u].out = <<>>

\* The first n bytes of the buffer are those u has written, and nobody else's.
Holds(u, n) == \A i \in 0..n - 1 : shared_buffer[i] = Source(u, i)

\* An undisturbed writer: its copy is in the buffer as far as it has come, and what it
\* has read of it is the beginning of the message.
UndisturbedOK(u) ==
  ~disturbed[u] /\ local[u].name \in Message =>
    /\ pc[u] = "writing" => Holds(u, local[u].pos)
    /\ pc[u] \in {"written", "reading"} => Holds(u, CopySize(u))
    /\ pc[u] = "reading" => /\ local[u].len = Len(local[u].name)
                            /\ \A i \in 1..Len(local[u].out) : local[u].out[i] = local[u].name[i]
    /\ pc[u] = "done" => local[u].out = local[u].name /\ local[u].num = Len(local[u].name)

DeviceInv ==
  /\ TypeOK /\ LoaderOK /\ LastIsNUL
  /\ \A u \in User : UserOK(u) /\ UndisturbedOK(u)

-----------------------------------------------------------------------------
(* The library functions *)

Below == {p \in Nat \X Nat : p[1] < p[2]}

\* A set of natural numbers that is not empty has a least element.
LEMMA LeastOf ==
  ASSUME NEW T, T \subseteq Nat, T # {}
  PROVE  \E x \in T : \A y \in T : x <= y
<1>1. Below = OpToRel(<, Nat)
  BY Zenon DEF Below, OpToRel
<1>2. IsWellFoundedOn(Below, Nat)
  BY <1>1, NatLessThanWellFounded, Zenon
<1>3. PICK x \in T : \A y \in T : ~ (<<y, x>> \in Below)
  BY <1>2, WFMin, Zenon
<1>4. ASSUME NEW y \in T PROVE x <= y
  <2>1. <<y, x>> \in Nat \X Nat /\ <<y, x>>[1] = y /\ <<y, x>>[2] = x
    OBVIOUS
  <2>2. ~(y < x)
    BY <2>1, <1>3, Zenon DEF Below
  <2> QED BY <2>2
<1> QED BY <1>4

\* strlen stops at the first terminator.
LEMMA StrLenIs ==
  ASSUME NEW b, NEW n \in Cell, b[n] = NUL, \A j \in 0..n - 1 : b[j] # NUL
  PROVE  StrLen(b) = n
<1>1. \A i \in Cell : b[i] = NUL /\ (\A j \in 0..i - 1 : b[j] # NUL) => i = n
  <2>1. ASSUME NEW i \in Cell, b[i] = NUL, \A j \in 0..i - 1 : b[j] # NUL
        PROVE  i = n
    <3>1. ~(i < n) /\ ~(n < i)
      BY <2>1, SizeAssumption DEF Cell
    <3> QED BY <3>1, SizeAssumption DEF Cell
  <2> QED BY <2>1
<1> QED BY <1>1, Zenon DEF StrLen

\* In the buffer it is a number of bytes of the buffer.
LEMMA StrLenType ==
  ASSUME NEW b
  PROVE  StrLen(b) \in 0..Size
<1>1. CASE \E i \in Cell : b[i] = NUL
  <2> DEFINE T == {i \in Cell : b[i] = NUL}
  <2>1. T \subseteq Nat /\ T # {}
    BY <1>1 DEF Cell
  <2> HIDE DEF T
  <2>2. PICK n \in T : \A y \in T : n <= y
    BY <2>1, LeastOf
  <2>3. n \in Cell /\ b[n] = NUL
    BY DEF T
  <2>4. \A j \in 0..n - 1 : b[j] # NUL
    <3>1. ASSUME NEW j \in 0..n - 1, b[j] = NUL PROVE FALSE
      <4>1. j \in Cell
        BY <2>3, SizeAssumption DEF Cell
      <4>2. j \in T
        BY <3>1, <4>1 DEF T
      <4> QED BY <2>2, <2>3, <4>2 DEF Cell
    <3> QED BY <3>1
  <2>5. StrLen(b) = n
    BY <2>3, <2>4, StrLenIs
  <2> QED BY <2>3, <2>5, SizeAssumption DEF Cell
<1>2. CASE ~ \E i \in Cell : b[i] = NUL
  BY <1>2, SizeAssumption DEF StrLen
<1> QED BY <1>1, <1>2

\* The messages, and the bytes that are in none.
LEMMA MessageFacts ==
  /\ Message \subseteq Seq(Char) /\ \A m \in Message : Len(m) \in 1..Size - 1
  /\ Char \cap {NUL, Junk} = {} /\ NUL # Junk
<1>1. ASSUME NEW n \in 1..Size - 1, NEW m \in [1..n -> Char]
      PROVE  m \in Seq(Char) /\ Len(m) = n
  BY SizeAssumption
<1> QED BY <1>1, CharAssumption DEF Message

\* A message fits with its terminator, which is none of its bytes.
LEMMA SourceBytes ==
  ASSUME TypeOK, NEW u \in User, local[u].name \in Message
  PROVE  /\ Len(local[u].name) \in 1..Size - 1 /\ CopySize(u) \in 2..Size
         /\ \A i \in 0..CopySize(u) - 1 :
              /\ i \in Cell /\ Source(u, i) \in Byte
              /\ Source(u, i) = NUL <=> i = Len(local[u].name)
<1>1. local[u].name \in Seq(Char) /\ Len(local[u].name) \in 1..Size - 1
  BY MessageFacts
<1>2. \A i \in 1..Len(local[u].name) : local[u].name[i] \in Char
  BY <1>1, ElementOfSeq
<1> QED BY <1>1, <1>2, SizeAssumption, MessageFacts DEF CopySize, Source, Cell, Byte

\* A buffer that holds a message ends where the message does.
LEMMA HeldLength ==
  ASSUME TypeOK, NEW u \in User, local[u].name \in Message, Holds(u, CopySize(u))
  PROVE  StrLen(shared_buffer) = Len(local[u].name)
<1>1. /\ Len(local[u].name) \in 1..Size - 1 /\ CopySize(u) = Len(local[u].name) + 1
      /\ \A i \in 0..CopySize(u) - 1 : Source(u, i) = NUL <=> i = Len(local[u].name)
  BY SourceBytes DEF CopySize
<1>2. \A i \in 0..Len(local[u].name) : shared_buffer[i] = NUL <=> i = Len(local[u].name)
  BY <1>1 DEF Holds
<1>3. Len(local[u].name) \in Cell
  BY <1>1, SizeAssumption DEF Cell
<1> QED BY <1>1, <1>2, <1>3, StrLenIs

-----------------------------------------------------------------------------
(* The module *)

LEMMA InitDevice == Init => DeviceInv
<1> SUFFICES ASSUME Init PROVE DeviceInv
  OBVIOUS
<1>1. NewProcess \in [name : Message \cup {<<>>}, pos : 0..Size, len : 0..Size,
                      out : Seq(Byte), num : 0..Size] /\ Len(NewProcess.out) = 0
  BY SizeAssumption, EmptySeq DEF NewProcess
<1>2. TypeOK
  BY <1>1, MaxLoadsAssumption DEF Init, TypeOK, Unregistered, NewProcess, Registration
<1> QED BY <1>2, MaxLoadsAssumption
        DEF Init, DeviceInv, LoaderOK, LastIsNUL, UserOK, UndisturbedOK, BeforeCdev,
            BeforeNode, BeforeBuffer, Unregistered, InCall

\* Users whom a step leaves alone, and whose buffer it leaves alone.
LEMMA SameUser ==
  ASSUME NEW v \in User, UserOK(v), UndisturbedOK(v),
         pc'[v] = pc[v], local'[v] = local[v], disturbed'[v] = disturbed[v],
         pc[v] \in InCall \cup {"written"} => UNCHANGED shared_buffer
  PROVE  UserOK(v)' /\ UndisturbedOK(v)'
BY DEF UserOK, UndisturbedOK, Holds, CopySize, Source, InCall

\* A step of hello_init that leaves the buffer and the users alone.
LEMMA LoadingKeepsUsers ==
  ASSUME DeviceInv, UNCHANGED <<shared_buffer, pc, local, disturbed>>
  PROVE  \A u \in User : UserOK(u)' /\ UndisturbedOK(u)'
BY SameUser DEF DeviceInv

LEMMA LoadingKeeps ==
  ASSUME DeviceInv, Insmod \/ AllocRegion \/ AddCdev \/ CreateClass \/ CreateDevice
  PROVE  DeviceInv'
<1> USE DEF DeviceInv
<1>1. UNCHANGED <<shared_buffer, pc, local, disturbed>>
  BY DEF Insmod, AllocRegion, AddCdev, CreateClass, CreateDevice, Registers
<1>2. /\ loader \in {"out", "alloc", "add", "class", "device"}
      /\ loader' \in {"alloc", "add", "out", "class", "oopsed", "device", "kmalloc"}
  BY DEF Insmod, AllocRegion, AddCdev, CreateClass, CreateDevice, Registers
<1>3. registered' \in Registration /\ loads' \in 0..MaxLoads
  <2>1. registered \in Registration /\ loads \in 0..MaxLoads /\ MaxLoads \in Nat
    BY MaxLoadsAssumption DEF TypeOK
  <2>2. CASE Insmod
    BY <2>1, <2>2 DEF Insmod
  <2>3. CASE AllocRegion
    <3>1. registered.regions + 1 \in 0..MaxLoads
      BY <2>1, <2>3 DEF AllocRegion, Registers, LoaderOK, Registration
    <3> QED BY <2>1, <2>3, <3>1 DEF AllocRegion, Registers, Registration
  <2>4. CASE AddCdev \/ CreateClass \/ CreateDevice
    BY <2>1, <2>4 DEF AddCdev, CreateClass, CreateDevice, Registers, Registration
  <2> QED BY <2>2, <2>3, <2>4
<1>4. TypeOK'
  BY <1>1, <1>2, <1>3 DEF TypeOK, Loading
<1>5. LoaderOK'
  <2>1. registered \in Registration /\ loads \in 0..MaxLoads /\ MaxLoads \in Nat
    BY MaxLoadsAssumption DEF TypeOK
  <2>2. CASE Insmod
    BY <1>1, <2>1, <2>2 DEF LoaderOK, Insmod, Registration, BeforeCdev, BeforeNode, BeforeBuffer
  <2>3. CASE AllocRegion
    <3>1. /\ loader = "alloc" /\ UNCHANGED loads /\ registered.regions < loads
          /\ registered.regions \in Nat
      BY <2>1, <2>3 DEF LoaderOK, AllocRegion, Registers, Registration
    <3>2. /\ ~registered'.cdev /\ registered'.class = "none" /\ ~registered'.node
          /\ \/ registered'.regions = registered.regions + 1 /\ loader' = "add"
             \/ registered'.regions = registered.regions /\ loader' = "out"
      BY <2>1, <2>3 DEF LoaderOK, AllocRegion, Registers, Registration, BeforeCdev, BeforeNode
    <3>3. shared_buffer = Null /\ \A u \in User : pc[u] = "idle"
      BY <3>1 DEF LoaderOK, BeforeCdev, BeforeNode, BeforeBuffer
    <3> QED BY <1>1, <2>1, <3>1, <3>2, <3>3 DEF LoaderOK
  <2>4. CASE AddCdev
    BY <1>1, <2>1, <2>4 DEF LoaderOK, AddCdev, Registers, Registration, BeforeCdev,
                            BeforeNode, BeforeBuffer
  <2>5. CASE CreateClass
    BY <1>1, <2>1, <2>5 DEF LoaderOK, CreateClass, Registers, Registration, BeforeCdev,
                            BeforeNode, BeforeBuffer
  <2>6. CASE CreateDevice
    BY <1>1, <2>1, <2>6 DEF LoaderOK, CreateDevice, Registers, Registration, BeforeCdev,
                            BeforeNode, BeforeBuffer
  <2> QED BY <2>2, <2>3, <2>4, <2>5, <2>6
<1>6. LastIsNUL'
  BY <1>2 DEF LastIsNUL
<1> QED BY <1>1, <1>4, <1>5, <1>6, LoadingKeepsUsers

\* kmalloc and memset: the buffer is there, and all of it is cleared before the module
\* is live.
LEMMA BufferMadeKeeps ==
  ASSUME DeviceInv, Kmalloc \/ Memset
  PROVE  DeviceInv'
<1> USE DEF DeviceInv
<1>1. 0 \in Cell /\ Size - 1 \in Cell
  BY SizeAssumption DEF Cell
<1>2. \A x : [i \in Cell |-> x] # Null /\ [i \in Cell |-> x][Size - 1] = x
  <2>1. ASSUME NEW x, [i \in Cell |-> x] = Null PROVE FALSE
    <3>1. DOMAIN Null = {}
      BY DEF Null
    <3> QED BY <2>1, <3>1, <1>1
  <2> QED BY <2>1, <1>1
<1>3. TypeOK'
  BY DEF TypeOK, Kmalloc, Memset, Byte, Disturb, Loading
<1>4. LoaderOK'
  BY <1>2 DEF LoaderOK, Kmalloc, Memset, BeforeCdev, BeforeNode, BeforeBuffer
<1>5. LastIsNUL'
  BY <1>2 DEF LastIsNUL, Kmalloc, Memset
<1>6. ASSUME NEW u \in User PROVE UserOK(u)' /\ UndisturbedOK(u)'
  <2>1. CASE Kmalloc
    <3>1. pc[u] \notin InCall \cup {"written"}
      BY <2>1 DEF UserOK, LoaderOK, Kmalloc, BeforeBuffer
    <3> QED BY <2>1, <3>1, SameUser DEF Kmalloc
  <2>2. CASE Memset
    <3>1. pc'[u] = pc[u] /\ local'[u] = local[u] /\ shared_buffer' # Null
      BY <2>2, <1>2 DEF Memset
    <3>2. disturbed'[u] = (disturbed[u] \/ pc[u] \in InCall \cup {"written"})
      BY <2>2 DEF Memset, Disturb
    <3>3. UserOK(u)'
      BY <3>1 DEF UserOK, CopySize
    <3>4. UndisturbedOK(u)'
      BY <3>1, <3>2 DEF UndisturbedOK, InCall
    <3> QED BY <3>3, <3>4
  <2> QED BY <2>1, <2>2
<1> QED BY <1>3, <1>4, <1>5, <1>6

LEMMA RmmodKeeps == DeviceInv /\ Rmmod => DeviceInv'
<1> SUFFICES ASSUME DeviceInv, Rmmod PROVE DeviceInv'
  OBVIOUS
<1> USE DEF DeviceInv
<1>1. \A u \in User : pc[u] = "idle"
  BY DEF Rmmod, Holders
<1>2. registered.regions \in 1..MaxLoads /\ registered.regions <= loads /\ loads \in 0..MaxLoads
  BY MaxLoadsAssumption DEF Rmmod, TypeOK, LoaderOK, Registration
<1>3. registered' = [regions |-> registered.regions - 1, cdev |-> FALSE, class |-> "none",
                     node |-> FALSE]
  BY DEF Rmmod, Unregistered
<1>4. TypeOK'
  <2>1. registered' \in Registration
    BY <1>2, <1>3, MaxLoadsAssumption DEF Registration
  <2> QED BY <2>1 DEF Rmmod, TypeOK
<1>5. LoaderOK'
  BY <1>1, <1>2, <1>3, MaxLoadsAssumption DEF Rmmod, LoaderOK
<1>6. \A u \in User : UserOK(u)' /\ UndisturbedOK(u)'
  BY <1>1, SameUser DEF Rmmod, InCall
<1> QED BY <1>4, <1>5, <1>6 DEF Rmmod, LastIsNUL

-----------------------------------------------------------------------------
(* The users *)

\* The loader's part of the invariant, for a step of a user that is or gets beyond open.
LEMMA LoaderKept ==
  ASSUME DeviceInv, NEW u \in User, pc[u] # "idle" \/ registered.node,
         UNCHANGED <<loader, loads, registered>>,
         shared_buffer' = Null <=> shared_buffer = Null
  PROVE  LoaderOK'
BY DEF DeviceInv, LoaderOK, BeforeCdev, BeforeNode, BeforeBuffer

\* The type of what a user has.
LocalType == [name : Message \cup {<<>>}, pos : 0..Size, len : 0..Size,
              out : Seq(Byte), num : 0..Size]

\* The steps of test.c that store nothing in the buffer: what is left to show of each is
\* its own user's part.
LEMMA UserStep ==
  ASSUME DeviceInv, NEW u \in User, pc[u] # "idle" \/ registered.node,
         UNCHANGED <<loader, loads, registered, shared_buffer>>,
         NEW there \in {"idle", "opened", "written", "done", "oopsed"} \cup InCall,
         pc' = [pc EXCEPT ![u] = there],
         NEW l \in LocalType, local' = [local EXCEPT ![u] = l], Len(l.out) <= l.len,
         NEW d \in BOOLEAN, disturbed' = [disturbed EXCEPT ![u] = d],
         UserOK(u)', UndisturbedOK(u)'
  PROVE  DeviceInv'
<1> USE DEF DeviceInv
<1>1. TypeOK'
  <2>1. local' \in [User -> LocalType] /\ \A v \in User : Len(local'[v].out) <= local'[v].len
    BY DEF TypeOK, LocalType
  <2> QED BY <2>1 DEF TypeOK, LocalType
<1>2. LoaderOK'
  BY LoaderKept
<1>3. LastIsNUL'
  BY DEF LastIsNUL
<1>4. ASSUME NEW v \in User, v # u PROVE UserOK(v)' /\ UndisturbedOK(v)'
  BY <1>4, SameUser DEF TypeOK
<1> QED BY <1>1, <1>2, <1>3, <1>4

LEMMA OpenKeeps ==
  ASSUME DeviceInv, NEW u \in User, Open(u)
  PROVE  DeviceInv'
<1>1. local' = [local EXCEPT ![u] = local[u]] /\ disturbed' = [disturbed EXCEPT ![u] = disturbed[u]]
      /\ local[u] \in LocalType /\ Len(local[u].out) <= local[u].len /\ disturbed[u] \in BOOLEAN
  BY DEF Open, DeviceInv, TypeOK, LocalType
<1>2. local'[u] = local[u] /\ pc'[u] = "opened" /\ pc[u] = "idle"
  BY DEF Open, Goto, DeviceInv, TypeOK
<1>3. UserOK(u)' /\ UndisturbedOK(u)'
  BY <1>2 DEF DeviceInv, UserOK, UndisturbedOK, InCall
<1> QED BY <1>1, <1>3, UserStep DEF Open, Goto

LEMMA WriteKeeps ==
  ASSUME DeviceInv, NEW u \in User, Write(u)
  PROVE  DeviceInv'
<1>1. PICK m \in Message : local' = [local EXCEPT ![u].name = m]
  BY DEF Write
<1> DEFINE l == [local[u] EXCEPT !.name = m]
           there == IF shared_buffer = Null THEN "oopsed" ELSE "writing"
<1>2. local[u] = NewProcess /\ pc[u] = "opened"
  BY DEF Write, DeviceInv, UserOK
<1>3. l = [name |-> m, pos |-> 0, len |-> 0, out |-> <<>>, num |-> 0]
  BY <1>2 DEF NewProcess
<1>4. l \in LocalType /\ Len(l.out) <= l.len
  <2> HIDE DEF l
  <2> QED BY <1>3, EmptySeq, SizeAssumption DEF LocalType
<1>5. local' = [local EXCEPT ![u] = l]
  BY <1>1 DEF DeviceInv, TypeOK
<1>6. local'[u] = l /\ pc'[u] = there
  BY <1>5 DEF Write, Goto, DeviceInv, TypeOK
<1>7. UserOK(u)'
  <2>1. l.name = m /\ l.pos = 0 /\ l.out = <<>> /\ Len(m) \in Nat
    BY <1>3, MessageFacts
  <2>2. local'[u].name = m /\ local'[u].pos = 0 /\ local'[u].out = <<>>
    BY <1>6, <2>1
  <2> QED BY <1>6, <2>1, <2>2 DEF UserOK, CopySize, Write, InCall
<1>8. UndisturbedOK(u)'
  <2>1. local'[u].pos = 0
    BY <1>3, <1>6
  <2> QED BY <1>6, <2>1 DEF UndisturbedOK, Holds
<1> HIDE DEF l, there
<1>9. there \in {"oopsed", "writing"}
  BY DEF there
<1> QED BY <1>2, <1>4, <1>5, <1>7, <1>8, <1>9, UserStep DEF Write, Goto, there, InCall

LEMMA WriteReturnsKeeps ==
  ASSUME DeviceInv, NEW u \in User, WriteReturns(u)
  PROVE  DeviceInv'
<1> DEFINE l == [local[u] EXCEPT !.num = StrLen(shared_buffer)]
<1>1. local[u] \in LocalType /\ Len(local[u].out) <= local[u].len /\ disturbed[u] \in BOOLEAN
      /\ disturbed' = [disturbed EXCEPT ![u] = disturbed[u]]
  BY DEF DeviceInv, TypeOK, LocalType, WriteReturns
<1>2. l \in LocalType /\ Len(l.out) <= l.len
  BY <1>1, StrLenType DEF LocalType
<1>3. local' = [local EXCEPT ![u] = l]
  BY DEF WriteReturns, DeviceInv, TypeOK
<1>4. local'[u] = l /\ pc'[u] = "written" /\ pc[u] = "writing" /\ local[u].pos = CopySize(u)
  BY <1>3 DEF WriteReturns, Goto, DeviceInv, TypeOK
<1>5. UserOK(u)'
  BY <1>1, <1>4 DEF DeviceInv, UserOK, WriteReturns, InCall, LocalType
<1>6. UndisturbedOK(u)'
  BY <1>1, <1>4 DEF DeviceInv, UndisturbedOK, Holds, CopySize, Source, WriteReturns, LocalType
<1> HIDE DEF l
<1> QED BY <1>1, <1>2, <1>3, <1>4, <1>5, <1>6, UserStep DEF WriteReturns, Goto

LEMMA ReadKeeps ==
  ASSUME DeviceInv, NEW u \in User, Read(u)
  PROVE  DeviceInv'
<1>1. local[u] \in LocalType /\ Len(local[u].out) <= local[u].len /\ disturbed[u] \in BOOLEAN
      /\ disturbed' = [disturbed EXCEPT ![u] = disturbed[u]] /\ local[u].out = <<>>
      /\ pc[u] \in {"opened", "written"}
  BY DEF DeviceInv, TypeOK, LocalType, Read, UserOK, NewProcess
<1>2. CASE shared_buffer = Null
  <2> DEFINE l == [local[u] EXCEPT !.num = 0]
  <2>1. local[u] = NewProcess
    BY <1>1, <1>2 DEF DeviceInv, UserOK
  <2>2. l \in LocalType /\ Len(l.out) <= l.len
    BY <1>1, SizeAssumption DEF LocalType
  <2>3. local' = [local EXCEPT ![u] = l]
    BY <1>2 DEF Read, DeviceInv, TypeOK
  <2>4. local'[u] = l /\ pc'[u] = "done" /\ l.name = <<>>
    BY <1>2, <2>1, <2>3 DEF Read, Goto, DeviceInv, TypeOK, NewProcess
  <2>5. <<>> \notin Message
    BY MessageFacts
  <2>6. UserOK(u)' /\ UndisturbedOK(u)'
    BY <2>4, <2>5 DEF UserOK, UndisturbedOK, InCall
  <2> HIDE DEF l
  <2> QED BY <1>1, <1>2, <2>2, <2>3, <2>6, UserStep DEF Read, Goto
<1>3. CASE shared_buffer # Null
  <2> DEFINE l == [local[u] EXCEPT !.len = StrLen(shared_buffer)]
  <2>1. StrLen(shared_buffer) \in 0..Size
    BY StrLenType
  <2>2. l \in LocalType /\ Len(l.out) <= l.len
    BY <1>1, <2>1 DEF LocalType
  <2>3. local' = [local EXCEPT ![u] = l]
    BY <1>3 DEF Read, DeviceInv, TypeOK
  <2>4. /\ local'[u] = l /\ pc'[u] = "reading"
        /\ l.name = local[u].name /\ l.out = <<>> /\ l.len = StrLen(shared_buffer)
    BY <1>1, <1>3, <2>3 DEF Read, Goto, DeviceInv, TypeOK, LocalType
  <2>5. UserOK(u)'
    BY <1>3, <2>4 DEF UserOK, Read
  <2>6. UndisturbedOK(u)'
    <3>1. SUFFICES ASSUME ~disturbed[u], local[u].name \in Message
                   PROVE  Holds(u, CopySize(u)) /\ StrLen(shared_buffer) = Len(local[u].name)
      BY <2>4 DEF UndisturbedOK, Holds, CopySize, Source, Read
    <3>2. pc[u] = "written"
      BY <1>1, <3>1, MessageFacts DEF DeviceInv, UserOK, NewProcess
    <3>3. Holds(u, CopySize(u))
      BY <3>1, <3>2 DEF DeviceInv, UndisturbedOK
    <3> QED BY <3>1, <3>3, HeldLength DEF DeviceInv
  <2> HIDE DEF l
  <2> QED BY <1>1, <1>3, <2>2, <2>3, <2>5, <2>6, UserStep DEF Read, Goto, InCall
<1> QED BY <1>2, <1>3

LEMMA LoadByteKeeps ==
  ASSUME DeviceInv, NEW u \in User, LoadByte(u)
  PROVE  DeviceInv'
<1> DEFINE o == local[u].out
           l == [local[u] EXCEPT !.out = Append(o, shared_buffer[Len(o)])]
<1>1. local[u] \in LocalType /\ disturbed[u] \in BOOLEAN /\ pc[u] = "reading" /\ pc'[u] = "reading"
      /\ disturbed' = [disturbed EXCEPT ![u] = disturbed[u]]
  BY DEF DeviceInv, TypeOK, LocalType, LoadByte
<1>2. o \in Seq(Byte) /\ Len(o) \in Nat /\ Len(o) < local[u].len /\ local[u].len \in 0..Size
  BY <1>1 DEF LoadByte, LocalType
<1>3. Len(o) \in Cell /\ shared_buffer[Len(o)] \in Byte
  <2>1. Len(o) \in Cell
    BY <1>2, SizeAssumption DEF Cell
  <2>2. shared_buffer \in [Cell -> Byte]
    BY <1>1 DEF DeviceInv, TypeOK, UserOK, InCall
  <2> QED BY <2>1, <2>2
<1>4. /\ l.out \in Seq(Byte) /\ Len(l.out) = Len(o) + 1
      /\ \A i \in 1..Len(o) : l.out[i] = o[i]
      /\ l.out[Len(o) + 1] = shared_buffer[Len(o)]
      /\ l.name = local[u].name /\ l.len = local[u].len
  <2>1. l.out = Append(o, shared_buffer[Len(o)]) /\ l.name = local[u].name /\ l.len = local[u].len
    BY <1>1 DEF LocalType
  <2> HIDE DEF l, o
  <2> QED BY <2>1, <1>2, <1>3, AppendProperties
<1>5. l \in LocalType /\ Len(l.out) <= l.len
  <2>1. \A x \in Seq(Byte) : [local[u] EXCEPT !.out = x] \in LocalType
    BY <1>1 DEF LocalType
  <2>2. l.out = Append(o, shared_buffer[Len(o)])
    BY <1>1 DEF LocalType
  <2>3. l \in LocalType
    BY <2>1, <2>2, <1>4
  <2> HIDE DEF l
  <2> QED BY <1>2, <1>4, <2>3
<1>6. local' = [local EXCEPT ![u] = l] /\ pc' = [pc EXCEPT ![u] = "reading"]
  BY <1>1 DEF LoadByte, DeviceInv, TypeOK
<1>7. local'[u] = l
  BY <1>6 DEF DeviceInv, TypeOK
<1> HIDE DEF l
<1>8. UserOK(u)'
  BY <1>1, <1>7 DEF DeviceInv, UserOK, LoadByte, InCall
<1>9. UndisturbedOK(u)'
  <2>1. SUFFICES ASSUME ~disturbed[u], local[u].name \in Message
                 PROVE  /\ Holds(u, CopySize(u)) /\ l.len = Len(local[u].name)
                        /\ \A i \in 1..Len(l.out) : l.out[i] = local[u].name[i]
    BY <1>1, <1>4, <1>7 DEF UndisturbedOK, Holds, CopySize, Source, LoadByte
  <2>2. /\ Holds(u, CopySize(u)) /\ local[u].len = Len(local[u].name)
        /\ \A i \in 1..Len(o) : o[i] = local[u].name[i]
    BY <1>1, <2>1 DEF DeviceInv, UndisturbedOK
  <2>3. shared_buffer[Len(o)] = local[u].name[Len(o) + 1]
    BY <1>2, <2>2 DEF Holds, CopySize, Source
  <2>4. ASSUME NEW i \in 1..Len(l.out) PROVE l.out[i] = local[u].name[i]
    BY <1>2, <1>4, <2>2, <2>3
  <2> QED BY <1>4, <2>2, <2>4
<1> QED BY <1>1, <1>5, <1>6, <1>8, <1>9, UserStep DEF LoadByte, InCall

LEMMA ReadReturnsKeeps ==
  ASSUME DeviceInv, NEW u \in User, ReadReturns(u)
  PROVE  DeviceInv'
<1> DEFINE l == [local[u] EXCEPT !.num = StrLen(shared_buffer)]
<1>1. local[u] \in LocalType /\ Len(local[u].out) <= local[u].len /\ disturbed[u] \in BOOLEAN
      /\ disturbed' = [disturbed EXCEPT ![u] = disturbed[u]]
  BY DEF DeviceInv, TypeOK, LocalType, ReadReturns
<1>2. l \in LocalType /\ Len(l.out) <= l.len
  BY <1>1, StrLenType DEF LocalType
<1>3. local' = [local EXCEPT ![u] = l]
  BY DEF ReadReturns, DeviceInv, TypeOK
<1>4. /\ local'[u] = l /\ pc'[u] = "done" /\ pc[u] = "reading" /\ Len(local[u].out) = local[u].len
      /\ l.name = local[u].name /\ l.out = local[u].out /\ l.num = StrLen(shared_buffer)
  BY <1>1, <1>3 DEF ReadReturns, Goto, DeviceInv, TypeOK, LocalType
<1> HIDE DEF l
<1>5. UserOK(u)'
  BY <1>4 DEF UserOK, InCall
<1>6. UndisturbedOK(u)'
  <2>1. SUFFICES ASSUME ~disturbed[u], local[u].name \in Message
                 PROVE  local[u].out = local[u].name /\ StrLen(shared_buffer) = Len(local[u].name)
    BY <1>4 DEF UndisturbedOK, ReadReturns
  <2>2. /\ Holds(u, CopySize(u)) /\ local[u].len = Len(local[u].name)
        /\ \A i \in 1..Len(local[u].out) : local[u].out[i] = local[u].name[i]
    BY <1>4, <2>1 DEF DeviceInv, UndisturbedOK
  <2>3. local[u].out \in Seq(Byte) /\ local[u].name \in Seq(Byte)
    BY <1>1, <2>1, MessageFacts, SeqMonotonic DEF LocalType, Byte
  <2>4. local[u].out = local[u].name
    BY <1>4, <2>2, <2>3, SeqEqual
  <2> QED BY <2>1, <2>2, <2>4, HeldLength DEF DeviceInv
<1> QED BY <1>1, <1>2, <1>3, <1>4, <1>5, <1>6, UserStep DEF ReadReturns, Goto

LEMMA CloseKeeps ==
  ASSUME DeviceInv, NEW u \in User, Close(u)
  PROVE  DeviceInv'
<1>1. NewProcess \in LocalType /\ Len(NewProcess.out) <= NewProcess.len
  BY SizeAssumption, EmptySeq DEF NewProcess, LocalType
<1>2. local'[u] = NewProcess /\ pc'[u] = "idle" /\ pc[u] = "done"
  BY DEF Close, Goto, DeviceInv, TypeOK
<1>3. UserOK(u)' /\ UndisturbedOK(u)'
  BY <1>2 DEF UserOK, UndisturbedOK, InCall
<1> QED BY <1>1, <1>2, <1>3, UserStep DEF Close, Goto

\* A byte stored: the writer's copy has grown, and every other user of the buffer is
\* disturbed.
LEMMA StoreByteKeeps ==
  ASSUME DeviceInv, NEW u \in User, StoreByte(u)
  PROVE  DeviceInv'
<1> USE DEF DeviceInv
<1> DEFINE i == local[u].pos
<1>1. /\ local[u] \in LocalType /\ local[u].name \in Message /\ pc[u] = "writing"
      /\ i < CopySize(u) /\ i \in 0..Size /\ shared_buffer \in [Cell -> Byte]
  BY DEF StoreByte, TypeOK, LocalType, UserOK, InCall
<1>2. /\ i \in Cell /\ Source(u, i) \in Byte /\ CopySize(u) \in 2..Size /\ i \in 0..CopySize(u) - 1
      /\ i = Size - 1 => Source(u, i) = NUL
  BY <1>1, SourceBytes, SizeAssumption DEF CopySize
<1>3. /\ shared_buffer' \in [Cell -> Byte] /\ shared_buffer'[i] = Source(u, i)
      /\ \A j \in Cell : j # i => shared_buffer'[j] = shared_buffer[j]
  BY <1>1, <1>2 DEF StoreByte
<1>4. shared_buffer' # Null /\ shared_buffer # Null
  <2>1. DOMAIN shared_buffer' = Cell /\ DOMAIN shared_buffer = Cell /\ DOMAIN Null = {}
    BY <1>1, <1>3 DEF Null
  <2> QED BY <2>1, <1>2
<1>5. local'[u] = [local[u] EXCEPT !.pos = i + 1] /\ \A v \in User : v # u => local'[v] = local[v]
  BY DEF StoreByte, TypeOK
<1>6. /\ local'[u] \in LocalType /\ local'[u].pos = i + 1 /\ local'[u].out = local[u].out
      /\ local'[u].len = local[u].len /\ local'[u].name = local[u].name
  <2>1. i + 1 \in 0..Size
    BY <1>1, <1>2, SizeAssumption
  <2>2. \A x \in 0..Size : \A r : r = [local[u] EXCEPT !.pos = x] =>
          /\ r \in LocalType /\ r.pos = x /\ r.out = local[u].out
          /\ r.len = local[u].len /\ r.name = local[u].name
    BY <1>1 DEF LocalType
  <2> HIDE DEF i
  <2> QED BY <2>1, <2>2, <1>5
<1>7. /\ disturbed' \in [User -> BOOLEAN] /\ disturbed'[u] = disturbed[u]
      /\ \A v \in User : v # u => disturbed'[v] = (disturbed[v] \/ pc[v] \in InCall \cup {"written"})
  BY DEF StoreByte, Disturb, TypeOK
<1>8. TypeOK'
  <2>1. local' \in [User -> LocalType]
    BY <1>6 DEF StoreByte, TypeOK, LocalType
  <2>2. \A v \in User : Len(local'[v].out) <= local'[v].len
    BY <1>5, <1>6 DEF TypeOK
  <2> QED BY <1>3, <1>7, <2>1, <2>2 DEF StoreByte, TypeOK, LocalType
<1>9. LoaderOK'
  BY <1>1, <1>4, LoaderKept DEF StoreByte
<1>10. LastIsNUL'
  <2>1. Size - 1 \in Cell
    BY SizeAssumption DEF Cell
  <2> QED BY <2>1, <1>2, <1>3 DEF LastIsNUL, StoreByte
<1>11. UserOK(u)' /\ UndisturbedOK(u)'
  <2>1. UserOK(u)'
    BY <1>1, <1>2, <1>4, <1>6 DEF UserOK, CopySize, StoreByte
  <2>2. UndisturbedOK(u)'
    <3>1. SUFFICES ASSUME ~disturbed[u]
                   PROVE  \A j \in 0..i : shared_buffer'[j] = Source(u, j)
      BY <1>1, <1>2, <1>6, <1>7 DEF UndisturbedOK, Holds, Source, StoreByte
    <3>2. \A j \in 0..i - 1 : shared_buffer[j] = Source(u, j)
      BY <1>1, <3>1 DEF UndisturbedOK, Holds
    <3> QED BY <1>2, <1>3, <3>2, SizeAssumption DEF Cell
  <2> QED BY <2>1, <2>2
<1>12. ASSUME NEW v \in User, v # u PROVE UserOK(v)' /\ UndisturbedOK(v)'
  <2>1. pc'[v] = pc[v] /\ local'[v] = local[v]
    BY <1>12, <1>5 DEF StoreByte
  <2>2. UserOK(v)'
    BY <2>1, <1>4 DEF UserOK, CopySize
  <2>3. UndisturbedOK(v)'
    BY <2>1, <1>7, <1>12 DEF UndisturbedOK, InCall
  <2> QED BY <2>2, <2>3
<1> QED BY <1>8, <1>9, <1>10, <1>11, <1>12

-----------------------------------------------------------------------------
\* Every step of the loader or of a user keeps the invariant.
LEMMA NextKeeps == DeviceInv /\ [Next]_vars => DeviceInv'
<1> SUFFICES ASSUME DeviceInv, [Next]_vars PROVE DeviceInv'
  OBVIOUS
<1>1. CASE Insmod \/ HelloInit
  BY <1>1, LoadingKeeps, BufferMadeKeeps DEF HelloInit
<1>2. CASE Rmmod
  BY <1>2, RmmodKeeps
<1>3. ASSUME NEW u \in User, TestStep(u) PROVE DeviceInv'
  BY <1>3, OpenKeeps, WriteKeeps, StoreByteKeeps, WriteReturnsKeeps, ReadKeeps,
     LoadByteKeeps, ReadReturnsKeeps, CloseKeeps DEF TestStep
<1>4. CASE UNCHANGED vars
  BY <1>4 DEF vars, DeviceInv, TypeOK, LoaderOK, LastIsNUL, UserOK, UndisturbedOK, Holds,
     CopySize, Source
<1> QED BY <1>1, <1>2, <1>3, <1>4 DEF Next

LEMMA DeviceInvariant == Spec => []DeviceInv
BY InitDevice, NextKeeps, PTL DEF Spec

\* The module is there as a whole or not at all, though hello_init undoes nothing, and
\* once it is live a terminator ends the buffer, whatever fp_write and fp_read interleave.
THEOREM DeviceIsSound == Spec => []DeviceSound
<1>1. DeviceInv => DeviceSound
  <2>1. ASSUME DeviceInv PROVE NothingOutlivesModule
    BY <2>1 DEF DeviceInv, LoaderOK, NothingOutlivesModule, BeforeCdev, BeforeNode, BeforeBuffer
  <2>2. ASSUME DeviceInv PROVE TerminatedWhenLive
    BY <2>2, SizeAssumption DEF DeviceInv, LastIsNUL, TerminatedWhenLive, Cell
  <2> QED BY <2>1, <2>2 DEF DeviceInv, DeviceSound
<1> QED BY <1>1, DeviceInvariant, PTL

\* A call of fp_write finds the null pointer only before hello_init has made the buffer.
LEMMA OnlyLoadingCrashes ==
  ASSUME DeviceInv, [Next]_vars, NEW u \in User, pc[u] # "oopsed", pc'[u] = "oopsed"
  PROVE  loader \in Loading \cup {"oopsed"}
<1>1. Write(u) /\ shared_buffer = Null
  <2>1. PICK v \in User : TestStep(v)
    BY DEF Next, vars, Insmod, HelloInit, AllocRegion, AddCdev, CreateClass, CreateDevice,
           Registers, Kmalloc, Memset, Rmmod
  <2>2. CASE v # u
    BY <2>1, <2>2 DEF DeviceInv, TypeOK, TestStep, Open, Write, StoreByte, WriteReturns, Read,
                      LoadByte, ReadReturns, Close, Goto
  <2>3. CASE v = u
    BY <2>1, <2>3 DEF DeviceInv, TypeOK, TestStep, Open, Write, StoreByte, WriteReturns, Read,
                      LoadByte, ReadReturns, Close, Goto
  <2> QED BY <2>2, <2>3
<1> QED BY <1>1 DEF DeviceInv, TypeOK, LoaderOK, Write, BeforeCdev, BeforeNode, Loading

\* test.c reads back what it has written and its length, unless another user has written
\* meanwhile; and a user dies in the kernel only while the module is being loaded.
THEOREM UsersAreServed == Spec => UsersServed
<1>1. DeviceInv => ReadsBackWhatItWrote
  BY DEF DeviceInv, UndisturbedOK, ReadsBackWhatItWrote
<1>2. DeviceInv /\ [Next]_vars
        => [\A u \in User : pc[u] # "oopsed" /\ pc'[u] = "oopsed"
              => loader \in Loading \cup {"oopsed"}]_vars
  BY OnlyLoadingCrashes
<1> QED BY <1>1, <1>2, DeviceInvariant, PTL DEF Spec, UsersServed, CrashesOnlyWhileLoading
=============================================================================
