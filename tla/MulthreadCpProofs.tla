------------------------- MODULE MulthreadCpProofs -------------------------
(***************************************************************************)
(* What is proved of cp/cp.c and cp/multhread_cp.c, for every file tree,   *)
(* every source and destination and every bound on paths and files: only   *)
(* the destination changes, and the copy is complete.  Paths, sequences    *)
(* and trees come first, then types, contents, the walkers of multi_cp and *)
(* the calls of DirToDir.                                                  *)
(***************************************************************************)
EXTENDS MulthreadCp, SequenceTheorems, TLAPS

(* Paths *)

\* A path is a short sequence of names.
LEMMA PathSeq ==
  /\ \A p \in Path : /\ p \in Seq(Name) /\ Len(p) \in 0..MaxDepth
                     /\ \A i \in 1..Len(p) : p[i] \in Name
  /\ \A p \in Seq(Name) : Len(p) <= MaxDepth => p \in Path
<1>1. ASSUME NEW n \in 0..MaxDepth, NEW p \in [1..n -> Name]
      PROVE  p \in Seq(Name) /\ Len(p) = n /\ \A i \in 1..n : p[i] \in Name
  BY BoundAssumption
<1>2. \A p \in Seq(Name) : Len(p) \in Nat /\ p \in [1..Len(p) -> Name]
  BY LenProperties
<1> QED BY <1>1, <1>2, BoundAssumption DEF Path

\* One path begins another when the other has its names in the same places.
LEMMA PrefixIff ==
  ASSUME NEW p \in Path, NEW q \in Path
  PROVE  IsPrefix(p, q) <=> /\ Len(p) <= Len(q)
                            /\ \A i \in 1..Len(p) : p[i] = q[i]
<1>1. p \in Seq(Name) /\ q \in Seq(Name) /\ Len(p) \in Nat /\ Len(q) \in Nat
  BY PathSeq
<1>2. SubSeq(p, 1, Len(p)) = p
  BY <1>1, SubSeqFull
<1>3. ASSUME Len(p) <= Len(q)
      PROVE  /\ SubSeq(q, 1, Len(p)) \in Seq(Name) /\ Len(SubSeq(q, 1, Len(p))) = Len(p)
             /\ \A i \in 1..Len(p) : SubSeq(q, 1, Len(p))[i] = q[i]
  <2>1. \A i \in 1..Len(p) : q[i] \in Name
    BY <1>1, <1>3, PathSeq
  <2>2. /\ SubSeq(q, 1, Len(p)) \in Seq(Name)
        /\ Len(SubSeq(q, 1, Len(p))) = IF 1 <= Len(p) THEN Len(p) - 1 + 1 ELSE 0
        /\ \A i \in 1..Len(p) - 1 + 1 : SubSeq(q, 1, Len(p))[i] = q[1 + i - 1]
    <3> HIDE DEF Path
    <3> QED BY <1>1, <2>1, SubSeqProperties
  <2> QED BY <1>1, <2>2
<1>4. ASSUME Len(p) <= Len(q), \A i \in 1..Len(p) : p[i] = q[i]
      PROVE  SubSeq(q, 1, Len(p)) = p
  BY <1>1, <1>3, <1>4, SeqEqual
<1> QED BY <1>1, <1>2, <1>3, <1>4 DEF IsPrefix

\* Two paths are the same when their names are.
LEMMA PathEqual ==
  ASSUME NEW p \in Path, NEW q \in Path, Len(p) = Len(q), \A i \in 1..Len(p) : p[i] = q[i]
  PROVE  p = q
BY PathSeq, SeqEqual

\* A path with one more name.
LEMMA AppendPath ==
  ASSUME NEW p \in Path, NEW n, Append(p, n) \in Path
  PROVE  /\ n \in Name /\ Len(Append(p, n)) = Len(p) + 1 /\ Append(p, n)[Len(p) + 1] = n
         /\ \A i \in 1..Len(p) : Append(p, n)[i] = p[i]
         /\ IsPrefix(p, Append(p, n))
<1>1. p \in Seq(Name) /\ Len(p) \in Nat
  BY PathSeq
<1>2. /\ Len(Append(p, n)) = Len(p) + 1 /\ Append(p, n)[Len(p) + 1] = n
      /\ \A i \in 1..Len(p) : Append(p, n)[i] = p[i]
  BY <1>1
<1> DEFINE q == Append(p, n)
<1>3. q \in Path /\ Len(q) = Len(p) + 1 /\ q[Len(p) + 1] = n /\ \A i \in 1..Len(p) : q[i] = p[i]
  BY <1>2
<1> HIDE DEF q
<1>4. n \in Name
  <2>1. Len(p) + 1 \in 1..Len(q)
    BY <1>1, <1>3
  <2>2. q[Len(p) + 1] \in Name
    BY <1>3, <2>1, PathSeq
  <2> QED BY <1>3, <2>2
<1>5. IsPrefix(p, q)
  BY <1>1, <1>3, PrefixIff
<1> QED BY <1>2, <1>4, <1>5 DEF q

\* Being a prefix is reflexive and transitive, and two prefixes of one path are
\* prefixes of one another.
LEMMA PrefixOrder ==
  ASSUME NEW p \in Path, NEW q \in Path, NEW r \in Path
  PROVE  /\ IsPrefix(p, p)
         /\ IsPrefix(p, q) /\ IsPrefix(q, r) => IsPrefix(p, r)
         /\ IsPrefix(p, r) /\ IsPrefix(q, r) => IsPrefix(p, q) \/ IsPrefix(q, p)
         /\ IsPrefix(p, q) /\ IsPrefix(q, p) => p = q
<1>1. Len(p) \in Nat /\ Len(q) \in Nat /\ Len(r) \in Nat
  BY PathSeq
<1>2. IsPrefix(p, p)
  BY <1>1, PrefixIff
<1>3. IsPrefix(p, q) /\ IsPrefix(q, r) => IsPrefix(p, r)
  BY <1>1, PrefixIff
<1>4. IsPrefix(p, r) /\ IsPrefix(q, r) => IsPrefix(p, q) \/ IsPrefix(q, p)
  <2>1. CASE Len(p) <= Len(q)
    BY <1>1, <2>1, PrefixIff
  <2>2. CASE Len(q) <= Len(p)
    BY <1>1, <2>2, PrefixIff
  <2> QED BY <1>1, <2>1, <2>2
<1>5. IsPrefix(p, q) /\ IsPrefix(q, p) => p = q
  BY <1>1, PrefixIff, PathEqual
<1> QED BY <1>2, <1>3, <1>4, <1>5

\* What is below a path stays below with one more name.
LEMMA PrefixAppend ==
  ASSUME NEW p \in Path, NEW q \in Path, NEW n, Append(q, n) \in Path, IsPrefix(p, q)
  PROVE  IsPrefix(p, Append(q, n))
BY AppendPath, PrefixOrder

(* Sequences *)

\* A sequence is its front and its last element.
LEMMA FrontLast ==
  ASSUME NEW S, NEW s \in Seq(S), s # <<>>
  PROVE  /\ Len(s) \in Nat /\ Len(s) >= 1 /\ Last(s) = s[Len(s)] /\ Last(s) \in S
         /\ Front(s) \in Seq(S) /\ Len(Front(s)) = Len(s) - 1
         /\ \A i \in 1..Len(s) - 1 : Front(s)[i] = s[i]
<1>1. Len(s) \in Nat \ {0}
  BY EmptySeq
<1>2. PICK n \in Nat \ {0} : n = Len(s)
  BY <1>1, Zenon
<1>3. n >= 1 /\ \A i \in 1..n - 1 : s[i] \in S
  BY <1>2
<1> DEFINE front == SubSeq(s, 1, n - 1)
<1>4. /\ front \in Seq(S)
      /\ Len(front) = IF 1 <= n - 1 THEN n - 1 - 1 + 1 ELSE 0
      /\ \A i \in 1..n - 1 - 1 + 1 : front[i] = s[1 + i - 1]
  BY <1>3, SubSeqProperties
<1>5. Len(front) = n - 1 /\ \A i \in 1..n - 1 : front[i] = s[i]
  BY <1>3, <1>4
<1>6. front = Front(s)
  BY <1>2 DEF Front
<1>7. Last(s) = s[Len(s)] /\ Last(s) \in S
  BY <1>2, <1>3, ElementOfSeq DEF Last
<1> HIDE DEF front
<1> QED BY <1>2, <1>3, <1>4, <1>5, <1>6, <1>7

\* A sequence with one more element.
LEMMA AppendFacts ==
  ASSUME NEW S, NEW s \in Seq(S), NEW e \in S
  PROVE  /\ Append(s, e) \in Seq(S) /\ Append(s, e) # <<>>
         /\ Len(Append(s, e)) = Len(s) + 1 /\ Append(s, e)[Len(s) + 1] = e
         /\ \A i \in 1..Len(s) : Append(s, e)[i] = s[i]
         /\ Last(Append(s, e)) = e
<1>1. Len(s) \in Nat
  OBVIOUS
<1>2. /\ Append(s, e) \in Seq(S) /\ Len(Append(s, e)) = Len(s) + 1
      /\ Append(s, e)[Len(s) + 1] = e /\ \A i \in 1..Len(s) : Append(s, e)[i] = s[i]
  BY <1>1
<1> QED BY <1>1, <1>2, EmptySeq DEF Last

\* A sequence is what Append makes of its front and its last element.
LEMMA FrontAppend ==
  ASSUME NEW S, NEW s \in Seq(S), s # <<>>
  PROVE  s = Append(Front(s), Last(s))
<1> DEFINE u == Append(Front(s), Last(s))
<1>1. PICK k \in Nat : k >= 1 /\ k = Len(s)
  BY FrontLast
<1>2. /\ Last(s) \in S /\ Last(s) = s[k] /\ Front(s) \in Seq(S)
      /\ Len(Front(s)) = k - 1 /\ \A i \in 1..k - 1 : Front(s)[i] = s[i]
  BY <1>1, FrontLast
<1>3. /\ u \in Seq(S) /\ Len(u) = k - 1 + 1 /\ u[k - 1 + 1] = Last(s)
      /\ \A i \in 1..k - 1 : u[i] = Front(s)[i]
  BY <1>2, AppendFacts
<1> HIDE DEF u
<1>4. \A i \in 1..k : i \in 1..k - 1 \/ i = k
  BY <1>1
<1>5. Len(u) = k /\ u[k] = s[k] /\ \A i \in 1..k - 1 : u[i] = s[i]
  BY <1>1, <1>2, <1>3
<1>6. \A i \in 1..k : u[i] = s[i]
  BY <1>4, <1>5
<1>7. u = s
  BY <1>1, <1>3, <1>5, <1>6, SeqEqual
<1> QED BY <1>7 DEF u

\* The directory a path lies in.
LEMMA FrontPath ==
  ASSUME NEW p \in Path, p # <<>>
  PROVE  /\ Front(p) \in Path /\ IsPrefix(Front(p), p) /\ Front(p) # p
         /\ \A q \in Path : IsPrefix(q, p) /\ q # p => IsPrefix(q, Front(p))
<1>1. /\ p \in Seq(Name) /\ Len(p) \in 1..MaxDepth /\ Front(p) \in Seq(Name)
      /\ Len(Front(p)) = Len(p) - 1 /\ \A i \in 1..Len(p) - 1 : Front(p)[i] = p[i]
  BY PathSeq, FrontLast
<1>2. Front(p) \in Path
  BY <1>1, PathSeq, BoundAssumption
<1>3. IsPrefix(Front(p), p)
  BY <1>1, <1>2, PrefixIff
<1>4. ASSUME NEW q \in Path, IsPrefix(q, p), q # p PROVE IsPrefix(q, Front(p))
  <2>1. Len(q) \in Nat /\ Len(q) <= Len(p) /\ \A i \in 1..Len(q) : q[i] = p[i]
    BY <1>4, PathSeq, PrefixIff
  <2>2. Len(q) # Len(p)
    BY <1>4, <2>1, PathEqual
  <2>3. Len(q) <= Len(Front(p)) /\ \A i \in 1..Len(q) : q[i] = Front(p)[i]
    BY <1>1, <2>1, <2>2
  <2> QED BY <1>2, <2>3, PrefixIff
<1> QED BY <1>1, <1>2, <1>3, <1>4

(* File trees *)

Entries == Blocks \cup {Dir, NoEntry}

\* A file tree stays one when a file changes or something is made in a directory.
LEMMA TreeWithEntry ==
  ASSUME NEW t, IsTree(t), NEW d \in Path, NEW e \in Entries, e # NoEntry,
         t[d] # Dir, t[d] = NoEntry => d = <<>> \/ t[Front(d)] = Dir
  PROVE  IsTree([t EXCEPT ![d] = e])
<1> DEFINE u == [t EXCEPT ![d] = e]
<1>1. /\ u \in [Path -> Entries] /\ u[d] = e
      /\ \A p \in Path : p # d => u[p] = t[p]
  BY DEF IsTree, Entries
<1>2. \A p, q \in Path : IsPrefix(q, p) /\ q # p /\ t[p] # NoEntry => t[q] = Dir
  BY DEF IsTree
<1> HIDE DEF u
<1>3. ASSUME NEW p \in Path, NEW q \in Path, IsPrefix(q, p), q # p, u[p] # NoEntry
      PROVE  u[q] = Dir
  <2>1. q # d
    BY <1>1, <1>2, <1>3
  <2>2. CASE p # d \/ t[d] # NoEntry
    BY <1>1, <1>2, <1>3, <2>1, <2>2
  <2>3. CASE p = d /\ t[d] = NoEntry
    <3>1. d # <<>>
      <4>1. CASE d = <<>>
        <5>1. Len(q) = 0 /\ Len(d) = 0
          BY <1>3, <2>3, <4>1, PathSeq, PrefixIff, EmptySeq
        <5> QED BY <1>3, <2>3, <5>1, PathEqual
      <4> QED BY <4>1
    <3>2. t[Front(d)] = Dir /\ Front(d) \in Path /\ IsPrefix(q, Front(d))
      BY <1>3, <2>3, <3>1, FrontPath
    <3>3. t[q] = Dir
      BY <1>2, <3>2, EntryAssumption
    <3> QED BY <1>1, <2>1, <3>3
  <2> QED BY <2>2, <2>3
<1>4. IsTree(u)
  BY <1>1, <1>3 DEF IsTree, Entries
<1> QED BY <1>4 DEF u

\* Appending a block, or changing one.
LEMMA BlocksFacts ==
  /\ <<>> \in Blocks
  /\ \A f \in Blocks : Len(f) \in 0..MaxBlocks /\ f \in Seq(Block)
  /\ \A f \in Blocks, b \in Block : Len(f) < MaxBlocks => Append(f, b) \in Blocks
  /\ \A f \in Blocks, b \in Block, i \in 1..MaxBlocks : i <= Len(f) => [f EXCEPT ![i] = b] \in Blocks
<1>1. ASSUME NEW n \in 0..MaxBlocks, NEW f \in [1..n -> Block]
      PROVE  f \in Seq(Block) /\ Len(f) = n
  BY BoundAssumption
<1>2. \A f \in Blocks : Len(f) \in 0..MaxBlocks /\ f \in Seq(Block)
  BY <1>1 DEF Blocks
<1>3. \A f \in Seq(Block) : Len(f) <= MaxBlocks => f \in Blocks
  <2>1. \A f \in Seq(Block) : f \in [1..Len(f) -> Block] /\ Len(f) \in Nat
    BY LenProperties
  <2> QED BY <2>1, BoundAssumption DEF Blocks
<1>4. <<>> \in Blocks
  <2> DEFINE none == <<>>
  <2>1. none \in Seq(Block) /\ Len(none) <= MaxBlocks
    BY EmptySeq, BoundAssumption
  <2> HIDE DEF none
  <2>2. none \in Blocks
    BY <1>3, <2>1, BoundAssumption
  <2> QED BY <2>2 DEF none
<1>5. ASSUME NEW f \in Blocks, NEW b \in Block, Len(f) < MaxBlocks PROVE Append(f, b) \in Blocks
  <2> DEFINE g == Append(f, b)
  <2>1. f \in Seq(Block) /\ Len(f) \in 0..MaxBlocks
    BY <1>2
  <2>2. g \in Seq(Block) /\ Len(g) = Len(f) + 1
    BY <2>1, AppendFacts
  <2> HIDE DEF g
  <2>3. g \in Blocks
    BY <1>3, <1>5, <2>1, <2>2, BoundAssumption
  <2> QED BY <2>3 DEF g
<1>6. ASSUME NEW f \in Blocks, NEW b \in Block, NEW i \in 1..MaxBlocks, i <= Len(f)
      PROVE  [f EXCEPT ![i] = b] \in Blocks
  <2>1. i \in 1..Len(f)
    BY <1>2, <1>6, BoundAssumption
  <2> QED BY <1>2, <1>3, <2>1, ExceptSeq
<1> QED BY <1>2, <1>4, <1>5, <1>6

(* Types, and the destination *)

Frame == [src : Path, dst : Path, seen : SUBSET Name, must : SUBSET Name]
Job == [from : Path, to : Path, mode : {"plain", "cover", "cat", "drop"}, before : Entries]
WalkerType == [dir : Path, seen : SUBSET Name, must : SUBSET Name]
InToFile == {"check", "open", "copy", "close"}

CpInv ==
  /\ args \in [src : Path, dst : Path, recursive : BOOLEAN, slash : BOOLEAN]
  /\ pc \in {"idle", "main", "walk", "finished", "exited", "runaway"} \cup InToFile
  /\ frames \in Seq(Frame)
  /\ pc = "walk" => frames # <<>>
  /\ pc \in {"idle", "main", "finished"} => frames = <<>>
  /\ job \in Job
  /\ off \in 0..MaxBlocks
  /\ pc = "copy" => tree[job.to] \in Blocks

WalkInv ==
  /\ walkers \in Seq(WalkerType)
  /\ installed \subseteq Programs
  /\ started \in {"cp", "multhread_cp"}
  /\ copies \in [Path -> Nat]
  /\ IsTree(start.tree) /\ start.src \in Path /\ start.dst \in Path
  /\ started = "cp" => walkers = <<>> /\ pc # "idle"
  /\ started = "multhread_cp" => start.dst = DST /\ ~args.recursive /\ frames = <<>>

\* Every call writes below the destination that the copy was started with.
DestinationInv ==
  /\ args.dst = start.dst
  /\ \A i \in 1..Len(frames) : IsPrefix(start.dst, frames[i].dst)
  /\ pc \in InToFile => IsPrefix(start.dst, job.to)

TypeInv == IsTree(tree) /\ CpInv /\ WalkInv /\ DestinationInv

\* Only entries below the destination differ between the two trees.
SameOutside == \A p \in Path : ~IsPrefix(start.dst, p) => tree'[p] = tree[p]

LEMMA NoJobType == NoJob \in Job
<1>1. <<>> \in Path
  <2> DEFINE none == <<>>
  <2>1. none \in Seq(Name) /\ Len(none) <= MaxDepth
    BY EmptySeq, BoundAssumption
  <2> HIDE DEF none
  <2>2. none \in Path
    BY <2>1, PathSeq
  <2> QED BY <2>2 DEF none
<1> QED BY <1>1 DEF NoJob, Job, Entries

LEMMA InitTypes == Init => TypeInv
<1> SUFFICES ASSUME Init PROVE TypeInv
  OBVIOUS
<1>1. IsTree(tree)
  BY TreesAssumption DEF Init
<1>2. args \in Arguments /\ args.src \in Path /\ args.dst \in Path
  BY NamedAssumption DEF Init, Arguments
<1>3. args \in [src : Path, dst : Path, recursive : BOOLEAN, slash : BOOLEAN]
  BY <1>2, NamedAssumption DEF Arguments
<1>4. frames \in Seq(Frame) /\ walkers \in Seq(WalkerType) /\ frames = <<>> /\ walkers = <<>>
  BY EmptySeq DEF Init
<1>5. pc \in {"main", "idle"} /\ started \in {"cp", "multhread_cp"} /\ (started = "cp" <=> pc = "main")
  BY DEF Init
<1>6. CpInv
  BY <1>3, <1>4, <1>5, NoJobType, BoundAssumption DEF Init, CpInv, InToFile
<1>7. start.tree = tree /\ start.src = args.src /\ start.dst = args.dst
  BY DEF Init
<1>8. WalkInv
  BY <1>1, <1>2, <1>4, <1>5, <1>7 DEF Init, WalkInv
<1>9. DestinationInv
  <2>1. \A i \in 1..Len(frames) : IsPrefix(start.dst, frames[i].dst)
    BY <1>4, EmptySeq
  <2> QED BY <1>5, <1>7, <2>1 DEF DestinationInv, InToFile
<1> QED BY <1>1, <1>6, <1>8, <1>9 DEF TypeInv

\* cp changes neither its arguments nor what belongs to the walkers, and for one of
\* them it calls DirToDir never.
LEMMA CpKeepsWalkers ==
  ASSUME TypeInv, RunningCp
  PROVE  WalkInv' /\ args' = args /\ start' = start /\ started' = started /\ pc' # "idle"
         /\ UNCHANGED <<walkers, installed, copies>>
<1>1. UNCHANGED <<walkers, installed, copies, started, start>>
  BY DEF RunningCp, walkVars
<1>2. args' = args
  BY DEF RunningCp, CpStep, Main, Entry, EndOfDir, Check, Open, Copy, Close, DirToDir, ToFile, Stop
<1>3. pc' # "idle"
  <2>1. CASE Main
    BY <2>1 DEF Main, DirToDir, ToFile, Stop
  <2>2. CASE Entry
    BY <2>2 DEF Entry, DirToDir, ToFile
  <2>3. CASE EndOfDir
    BY <2>3 DEF EndOfDir
  <2>4. CASE Check
    BY <2>4 DEF Check, Stop
  <2>5. CASE Open
    BY <2>5 DEF Open, Stop
  <2>6. CASE Copy
    <3>1. pc = "copy" /\ pc' \in {"close", "runaway", pc}
      BY <2>6 DEF Copy, Stop
    <3> QED BY <3>1
  <2>7. CASE Close
    BY <2>7 DEF Close, Returned
  <2> QED BY <2>1, <2>2, <2>3, <2>4, <2>5, <2>6, <2>7 DEF RunningCp, CpStep
<1>4. started = "multhread_cp" => frames' = <<>>
  <2> SUFFICES ASSUME started = "multhread_cp" PROVE frames' = <<>>
    OBVIOUS
  <2>1. frames = <<>> /\ ~args.recursive /\ pc # "walk"
    BY DEF TypeInv, WalkInv, CpInv
  <2>2. ~Entry /\ ~EndOfDir
    BY <2>1 DEF Entry, EndOfDir
  <2>3. Main => UNCHANGED frames
    BY <2>1 DEF Main, Stop
  <2>4. Check \/ Open \/ Copy \/ Close => UNCHANGED frames
    BY DEF Check, Open, Copy, Close, Stop
  <2> QED BY <2>1, <2>2, <2>3, <2>4 DEF RunningCp, CpStep
<1> QED BY <1>1, <1>2, <1>3, <1>4 DEF TypeInv, WalkInv

\* The call of ToFile on something below the destination.
LEMMA ToFileKeeps ==
  ASSUME TypeInv, NEW from \in Path, NEW to, ToFile(from, to),
         to \in Path => IsPrefix(start.dst, to),
         frames' \in Seq(Frame), \A i \in 1..Len(frames') : IsPrefix(start.dst, frames'[i].dst),
         start' = start
  PROVE  CpInv' /\ DestinationInv' /\ UNCHANGED tree
<1>1. UNCHANGED <<tree, args, off>>
  BY DEF ToFile
<1>2. CASE to \in Path
  <2>1. pc' = "check" /\ job' = [NoJob EXCEPT !.from = from, !.to = to]
    BY <1>2 DEF ToFile
  <2>2. job' \in Job /\ job'.to = to
    BY <1>2, <2>1, NoJobType DEF Job
  <2>3. CpInv'
    BY <1>1, <2>1, <2>2 DEF TypeInv, CpInv, InToFile
  <2>4. DestinationInv'
    BY <1>1, <1>2, <2>2 DEF TypeInv, DestinationInv
  <2> QED BY <1>1, <2>3, <2>4
<1>3. CASE to \notin Path
  <2>1. pc' = "runaway" /\ UNCHANGED job
    BY <1>3 DEF ToFile
  <2>2. CpInv'
    BY <1>1, <2>1 DEF TypeInv, CpInv, InToFile
  <2>3. DestinationInv'
    BY <1>1, <2>1 DEF TypeInv, DestinationInv, InToFile
  <2> QED BY <1>1, <2>2, <2>3
<1> QED BY <1>2, <1>3

\* One new entry below the destination leaves the rest alone.
LEMMA OneEntry ==
  ASSUME TypeInv, NEW d \in Path, IsPrefix(start.dst, d), NEW e, tree' = [tree EXCEPT ![d] = e]
  PROVE  SameOutside
BY DEF SameOutside, TypeInv, IsTree

\* The call of DirToDir on something below the destination.
LEMMA DirToDirKeeps ==
  ASSUME TypeInv, NEW src \in Path, NEW dst, NEW above \in Seq(Frame), DirToDir(src, dst, above),
         dst \in Path => IsPrefix(start.dst, dst),
         \A i \in 1..Len(above) : IsPrefix(start.dst, above[i].dst),
         start' = start
  PROVE  IsTree(tree') /\ CpInv' /\ DestinationInv' /\ SameOutside
<1>1. UNCHANGED <<args, job, off>>
  BY DEF DirToDir
<1>2. CASE dst \in Path
  <2> DEFINE f == [src |-> src, dst |-> dst, seen |-> {}, must |-> Visible(src)]
  <2>1. pc' = "walk" /\ frames' = Append(above, f)
    BY <1>2 DEF DirToDir
  <2>2. f \in Frame /\ f.dst = dst
    BY <1>2, NameAssumption DEF Frame, Visible
  <2> HIDE DEF f
  <2>3. /\ frames' \in Seq(Frame) /\ frames' # <<>> /\ Len(frames') = Len(above) + 1
        /\ frames'[Len(above) + 1] = f /\ \A i \in 1..Len(above) : frames'[i] = above[i]
    BY <2>1, <2>2, AppendFacts
  <2>4. \A i \in 1..Len(frames') : IsPrefix(start.dst, frames'[i].dst)
    <3>1. Len(above) \in Nat
      OBVIOUS
    <3>2. \A i \in 1..Len(frames') : i = Len(above) + 1 \/ i \in 1..Len(above)
      BY <2>3, <3>1
    <3> QED BY <1>2, <2>2, <2>3, <3>2
  <2>5. CpInv' /\ DestinationInv'
    <3>1. CpInv'
      BY <1>1, <2>1, <2>3 DEF TypeInv, CpInv, InToFile
    <3>2. DestinationInv'
      BY <1>1, <2>1, <2>4 DEF TypeInv, DestinationInv, InToFile
    <3> QED BY <3>1, <3>2
  <2>6. CASE tree[dst] = NoEntry /\ InDirectory(dst)
    <3>1. tree' = [tree EXCEPT ![dst] = Dir]
      BY <1>2, <2>6 DEF DirToDir
    <3>2. Dir \in Entries /\ Dir # NoEntry
      BY EntryAssumption DEF Entries
    <3>3. IsTree(tree')
      BY <1>2, <2>6, <3>1, <3>2, TreeWithEntry DEF InDirectory, TypeInv
    <3>4. SameOutside
      BY <1>2, <3>1, OneEntry
    <3> QED BY <2>5, <3>3, <3>4
  <2>7. CASE ~(tree[dst] = NoEntry /\ InDirectory(dst))
    <3>1. UNCHANGED tree
      BY <1>2, <2>7 DEF DirToDir
    <3> QED BY <2>5, <3>1 DEF TypeInv, SameOutside
  <2> QED BY <2>6, <2>7
<1>3. CASE dst \notin Path
  <2>1. pc' = "runaway" /\ UNCHANGED <<frames, tree>>
    BY <1>3 DEF DirToDir
  <2>2. CpInv'
    BY <1>1, <2>1 DEF TypeInv, CpInv, InToFile
  <2>3. DestinationInv'
    BY <1>1, <2>1 DEF TypeInv, DestinationInv, InToFile
  <2> QED BY <2>1, <2>2, <2>3 DEF TypeInv, SameOutside
<1> QED BY <1>2, <1>3

\* The innermost call, and the calls once it has read one more entry.
LEMMA TopFacts ==
  ASSUME TypeInv, pc = "walk"
  PROVE  /\ Top \in Frame /\ Len(frames) \in Nat /\ Len(frames) >= 1 /\ Top = frames[Len(frames)]
         /\ IsPrefix(start.dst, Top.dst)
         /\ Front(frames) \in Seq(Frame) /\ Len(Front(frames)) = Len(frames) - 1
         /\ \A i \in 1..Len(frames) - 1 : Front(frames)[i] = frames[i]
<1>1. frames \in Seq(Frame) /\ frames # <<>>
  BY DEF TypeInv, CpInv
<1>2. /\ Top \in Frame /\ Len(frames) \in Nat /\ Len(frames) >= 1 /\ Top = frames[Len(frames)]
      /\ Front(frames) \in Seq(Frame) /\ Len(Front(frames)) = Len(frames) - 1
      /\ \A i \in 1..Len(frames) - 1 : Front(frames)[i] = frames[i]
  BY <1>1, FrontLast DEF Top
<1> QED BY <1>2 DEF TypeInv, DestinationInv

LEMMA AboveFacts ==
  ASSUME TypeInv, pc = "walk", NEW n \in Name
  PROVE  /\ Above(n) \in Seq(Frame) /\ Len(Above(n)) = Len(frames) /\ Above(n) # <<>>
         /\ \A i \in 1..Len(frames) - 1 : Above(n)[i] = frames[i]
         /\ Above(n)[Len(frames)] = [Top EXCEPT !.seen = @ \cup {n}]
         /\ \A i \in 1..Len(frames) : /\ Above(n)[i].dst = frames[i].dst
                                      /\ IsPrefix(start.dst, Above(n)[i].dst)
<1> DEFINE f == [Top EXCEPT !.seen = @ \cup {n}]
<1>1. Top \in Frame
  BY TopFacts
<1>2. f \in Frame /\ f.dst = Top.dst
  BY <1>1 DEF Frame
<1> HIDE DEF f
<1>3. Above(n) = Append(Front(frames), f)
  BY DEF Above, f
<1>4. /\ Above(n) \in Seq(Frame) /\ Above(n) # <<>> /\ Len(Above(n)) = Len(Front(frames)) + 1
      /\ Above(n)[Len(Front(frames)) + 1] = f
      /\ \A i \in 1..Len(Front(frames)) : Above(n)[i] = Front(frames)[i]
  BY <1>2, <1>3, TopFacts, AppendFacts
<1>5. /\ Len(Above(n)) = Len(frames) /\ Above(n)[Len(frames)] = f
      /\ \A i \in 1..Len(frames) - 1 : Above(n)[i] = frames[i]
  BY <1>4, TopFacts
<1>6. \A i \in 1..Len(frames) : Above(n)[i].dst = frames[i].dst
  BY <1>2, <1>5, TopFacts
<1>7. \A i \in 1..Len(frames) : IsPrefix(start.dst, Above(n)[i].dst)
  BY <1>6 DEF TypeInv, DestinationInv
<1> QED BY <1>4, <1>5, <1>6, <1>7 DEF f

LEMMA MainKeeps ==
  ASSUME TypeInv, Main, start' = start
  PROVE  IsTree(tree') /\ CpInv' /\ DestinationInv' /\ SameOutside
<1>1. args.src \in Path /\ args.dst \in Path /\ args.dst = start.dst /\ IsPrefix(start.dst, args.dst)
  BY PrefixOrder DEF TypeInv, CpInv, WalkInv, DestinationInv
<1>2. frames = <<>> /\ frames \in Seq(Frame) /\ pc = "main"
  BY DEF Main, TypeInv, CpInv
<1>3. /\ \A i \in 1..Len(frames) : IsPrefix(start.dst, frames[i].dst)
      /\ \A i \in 1..Len(<<>>) : IsPrefix(start.dst, <<>>[i].dst)
  BY <1>2, EmptySeq DEF TypeInv, DestinationInv
<1>4. CASE DirToDir(args.src, args.dst, <<>>)
  BY <1>1, <1>3, <1>4, DirToDirKeeps, EmptySeq
<1>5. ASSUME NEW to, ToFile(args.src, to), UNCHANGED frames, to \in Path => IsPrefix(start.dst, to)
      PROVE  IsTree(tree') /\ CpInv' /\ DestinationInv' /\ SameOutside
  <2>1. CpInv' /\ DestinationInv' /\ UNCHANGED tree
    BY <1>1, <1>2, <1>3, <1>5, ToFileKeeps
  <2> QED BY <2>1 DEF TypeInv, SameOutside
<1>6. CASE ToFile(args.src, Append(args.dst, Last(args.src))) /\ UNCHANGED frames
  <2>1. Append(args.dst, Last(args.src)) \in Path
          => IsPrefix(start.dst, Append(args.dst, Last(args.src)))
    BY <1>1, AppendPath
  <2> QED BY <1>5, <1>6, <2>1
<1>7. CASE Stop("finished")
  <2>1. pc' = "finished" /\ UNCHANGED <<tree, args, frames, job, off>>
    BY <1>7 DEF Stop
  <2> QED BY <1>2, <2>1 DEF TypeInv, CpInv, DestinationInv, InToFile, SameOutside
<1>8. CASE ToFile(args.src, args.dst) /\ UNCHANGED frames
  BY <1>1, <1>5, <1>8
<1> QED BY <1>4, <1>6, <1>7, <1>8 DEF Main

LEMMA EntryKeeps ==
  ASSUME TypeInv, Entry, start' = start
  PROVE  IsTree(tree') /\ CpInv' /\ DestinationInv' /\ SameOutside
<1>1. pc = "walk"
  BY DEF Entry
<1>2. PICK n \in Visible(Top.src) \ Top.seen :
        IF tree[Append(Top.src, n)] = Dir
          THEN DirToDir(Append(Top.src, n), Target(n), Above(n))
          ELSE ToFile(Append(Top.src, n), Target(n)) /\ frames' = Above(n)
  BY DEF Entry
<1>3. n \in Name /\ Append(Top.src, n) \in Path
  BY <1>2 DEF Visible
<1>4. Target(n) \in Path => IsPrefix(start.dst, Target(n))
  BY <1>1, TopFacts, PrefixAppend DEF Target, Frame, TypeInv, WalkInv
<1>5. CASE DirToDir(Append(Top.src, n), Target(n), Above(n))
  <2>1. Above(n) \in Seq(Frame) /\ \A i \in 1..Len(Above(n)) : IsPrefix(start.dst, Above(n)[i].dst)
    BY <1>1, <1>3, AboveFacts
  <2> QED BY <1>3, <1>4, <1>5, <2>1, DirToDirKeeps
<1>6. CASE ToFile(Append(Top.src, n), Target(n)) /\ frames' = Above(n)
  <2>1. frames' \in Seq(Frame) /\ \A i \in 1..Len(frames') : IsPrefix(start.dst, frames'[i].dst)
    BY <1>1, <1>3, <1>6, AboveFacts
  <2>2. CpInv' /\ DestinationInv' /\ UNCHANGED tree
    BY <1>3, <1>4, <1>6, <2>1, ToFileKeeps
  <2> QED BY <2>2 DEF TypeInv, SameOutside
<1> QED BY <1>2, <1>5, <1>6

LEMMA EndOfDirKeeps ==
  ASSUME TypeInv, EndOfDir, start' = start
  PROVE  IsTree(tree') /\ CpInv' /\ DestinationInv' /\ SameOutside
<1>1. /\ pc = "walk" /\ frames' = Front(frames) /\ UNCHANGED <<tree, args, job, off>>
      /\ pc' = IF Len(frames) = 1 THEN "finished" ELSE "walk"
  BY DEF EndOfDir
<1>2. /\ frames' \in Seq(Frame) /\ Len(frames') = Len(frames) - 1
      /\ \A i \in 1..Len(frames') : frames'[i] = frames[i]
  BY <1>1, TopFacts
<1>3. IF Len(frames) = 1 THEN frames' = <<>> ELSE frames' # <<>>
  <2>1. Len(frames) \in Nat
    BY <1>1, TopFacts
  <2>2. CASE Len(frames) = 1
    <3>1. Front(frames) = <<>>
      BY <2>2, SubSeqEmpty DEF Front
    <3> QED BY <1>1, <2>2, <3>1
  <2>3. CASE Len(frames) # 1
    BY <1>2, <2>1, <2>3, EmptySeq
  <2> QED BY <2>2, <2>3
<1>4. CpInv'
  BY <1>1, <1>2, <1>3 DEF TypeInv, CpInv, InToFile
<1>5. DestinationInv'
  <2>1. \A i \in 1..Len(frames') : i \in 1..Len(frames)
    BY <1>1, <1>2, TopFacts
  <2> QED BY <1>1, <1>2, <2>1 DEF TypeInv, DestinationInv, InToFile
<1> QED BY <1>1, <1>4, <1>5 DEF TypeInv, SameOutside

LEMMA CheckKeeps ==
  ASSUME TypeInv, Check, start' = start
  PROVE  IsTree(tree') /\ CpInv' /\ DestinationInv' /\ SameOutside
<1>1. pc = "check" /\ UNCHANGED <<tree, args, frames, off>>
  BY DEF Check, Stop
<1>2. CASE pc' = "exited" /\ job' = job
  BY <1>1, <1>2 DEF TypeInv, CpInv, DestinationInv, InToFile, SameOutside
<1>3. ASSUME NEW mode \in {"plain", "cover", "cat", "drop"},
             job' = [job EXCEPT !.mode = mode, !.before = tree[job.to]], pc' \in {"open", "close"}
      PROVE  IsTree(tree') /\ CpInv' /\ DestinationInv' /\ SameOutside
  <2>1. job \in Job /\ tree[job.to] \in Entries
    BY DEF TypeInv, CpInv, IsTree, Entries, Job
  <2>2. job' \in Job /\ job'.to = job.to
    BY <1>3, <2>1 DEF Job
  <2>3. CpInv'
    BY <1>1, <1>3, <2>2 DEF TypeInv, CpInv, InToFile
  <2>4. DestinationInv'
    BY <1>1, <1>3, <2>2 DEF TypeInv, DestinationInv, InToFile
  <2> QED BY <1>1, <2>3, <2>4 DEF TypeInv, SameOutside
<1>4. \/ pc' = "exited" /\ job' = job
      \/ \E mode \in {"plain", "cover", "cat", "drop"} :
           /\ job' = [job EXCEPT !.mode = mode, !.before = tree[job.to]]
           /\ pc' \in {"open", "close"}
  BY DEF Check, Stop
<1> QED BY <1>2, <1>3, <1>4

LEMMA OpenKeeps ==
  ASSUME TypeInv, Open, start' = start
  PROVE  IsTree(tree') /\ CpInv' /\ DestinationInv' /\ SameOutside
<1>1. pc = "open" /\ UNCHANGED <<args, frames, job>>
  BY DEF Open, Stop
<1>2. CASE tree[job.to] = Dir \/ ~InDirectory(job.to)
  <2>1. pc' \in {"exited", "close"} /\ UNCHANGED <<tree, off>>
    BY <1>2 DEF Open, Stop
  <2> QED BY <1>1, <2>1 DEF TypeInv, CpInv, DestinationInv, InToFile, SameOutside
<1>3. CASE tree[job.to] # Dir /\ InDirectory(job.to)
  <2>1. tree' = [tree EXCEPT ![job.to] = Opened] /\ off' = 0 /\ pc' = "copy"
    BY <1>3 DEF Open
  <2>2. job.to \in Path /\ tree \in [Path -> Entries] /\ IsPrefix(start.dst, job.to)
    BY <1>1 DEF TypeInv, CpInv, IsTree, Entries, Job, DestinationInv, InToFile
  <2>3. Opened \in Blocks
    BY <1>3, <2>2, BlocksFacts DEF Opened, Entries
  <2>4. Opened \in Entries /\ Opened # NoEntry
    BY <2>3, EntryAssumption DEF Entries
  <2>5. IsTree(tree')
    BY <1>3, <2>1, <2>2, <2>4, TreeWithEntry DEF InDirectory, TypeInv
  <2>6. tree'[job.to] \in Blocks
    BY <2>1, <2>2, <2>3
  <2>7. CpInv'
    BY <1>1, <2>1, <2>6, BoundAssumption DEF TypeInv, CpInv, InToFile
  <2>8. DestinationInv'
    BY <1>1, <2>1 DEF TypeInv, DestinationInv, InToFile
  <2> QED BY <2>1, <2>2, <2>5, <2>7, <2>8, OneEntry
<1> QED BY <1>2, <1>3

\* The block that is read, and what writing it makes of the destination.
Written == LET block == tree[job.from][off + 1]
           IN  IF Appends THEN Append(tree[job.to], block)
               ELSE [tree[job.to] EXCEPT ![off + 1] = block]

LEMMA CopyCases ==
  ASSUME TypeInv, Copy
  PROVE  /\ pc = "copy" /\ UNCHANGED <<args, frames, job>> /\ job.from \in Path /\ job.to \in Path
         /\ tree[job.to] \in Blocks
         /\ \/ pc' \in {"close", "runaway"} /\ UNCHANGED <<tree, off>>
            \/ /\ tree[job.from] \in Blocks /\ off < Len(tree[job.from])
               /\ tree[job.from][off + 1] \in Block
               /\ Written \in Blocks
               /\ tree' = [tree EXCEPT ![job.to] = Written]
               /\ off' = off + 1 /\ off' \in 0..MaxBlocks /\ pc' = pc
<1>1. pc = "copy" /\ UNCHANGED <<args, frames, job>>
  BY DEF Copy, Stop
<1>2. /\ job.from \in Path /\ job.to \in Path /\ tree[job.to] \in Blocks /\ off \in 0..MaxBlocks
      /\ tree \in [Path -> Blocks \cup {Dir, NoEntry}]
  BY <1>1 DEF TypeInv, CpInv, Job, IsTree
<1>3. CASE ~IsFile(job.from) \/ off >= Len(tree[job.from])
  <2>1. pc' = "close" /\ UNCHANGED <<tree, off>>
    BY <1>3 DEF Copy, Stop
  <2> QED BY <1>1, <1>2, <2>1
<1>4. CASE ~(~IsFile(job.from) \/ off >= Len(tree[job.from]))
  <2>1. tree[job.from] \in Blocks
    BY <1>2, <1>4 DEF IsFile
  <2> DEFINE s == tree[job.from]
             t == tree[job.to]
  <2>2. /\ s \in Seq(Block) /\ Len(s) \in 0..MaxBlocks /\ t \in Seq(Block) /\ Len(t) \in 0..MaxBlocks
    BY <1>2, <2>1, BlocksFacts
  <2>3. off < Len(s) /\ off + 1 \in 1..Len(s) /\ off + 1 \in 1..MaxBlocks
    <3> HIDE DEF s
    <3>1. ~(off >= Len(s)) /\ Len(s) \in Nat /\ Len(s) <= MaxBlocks /\ off \in Nat
      BY <1>2, <1>4, <2>2, BoundAssumption DEF s
    <3> QED BY <3>1, BoundAssumption
  <2>4. s[off + 1] \in Block
    BY <2>2, <2>3, ElementOfSeq
  <2>5. CASE Appends /\ Len(t) = MaxBlocks
    <3>1. pc' = "runaway" /\ UNCHANGED <<tree, off>>
      BY <1>4, <2>5 DEF Copy, Stop
    <3> QED BY <1>1, <1>2, <3>1
  <2>6. CASE ~(Appends /\ Len(t) = MaxBlocks)
    <3>1. /\ tree' = [tree EXCEPT ![job.to] =
                        IF Appends THEN Append(@, s[off + 1]) ELSE [@ EXCEPT ![off + 1] = s[off + 1]]]
          /\ off' = off + 1 /\ pc' = pc
      BY <1>4, <2>6 DEF Copy
    <3>2. tree' = [tree EXCEPT ![job.to] = Written]
      BY <3>1 DEF Written
    <3>3. CASE Appends
      <4>1. Len(t) < MaxBlocks
        BY <2>2, <2>6, <3>3, BoundAssumption
      <4>2. Append(t, s[off + 1]) \in Blocks
        BY <1>2, <2>4, <4>1, BlocksFacts
      <4> QED BY <1>1, <1>2, <2>1, <2>3, <2>4, <3>1, <3>2, <3>3, <4>2, BoundAssumption DEF Written
    <3>4. CASE ~Appends
      <4>1. off + 1 <= Len(t)
        BY <1>2, <2>2, <3>4 DEF Appends
      <4>2. [t EXCEPT ![off + 1] = s[off + 1]] \in Blocks
        BY <1>2, <2>3, <2>4, <4>1, BlocksFacts
      <4> QED BY <1>1, <1>2, <2>1, <2>3, <2>4, <3>1, <3>2, <3>4, <4>2, BoundAssumption DEF Written
    <3> QED BY <3>3, <3>4
  <2> QED BY <2>5, <2>6
<1> QED BY <1>3, <1>4

LEMMA CopyKeeps ==
  ASSUME TypeInv, Copy, start' = start
  PROVE  IsTree(tree') /\ CpInv' /\ DestinationInv' /\ SameOutside
<1>1. /\ pc = "copy" /\ UNCHANGED <<args, frames, job>> /\ job.to \in Path /\ tree[job.to] \in Blocks
      /\ IsPrefix(start.dst, job.to)
  BY CopyCases DEF TypeInv, DestinationInv, InToFile
<1>2. CASE pc' \in {"close", "runaway"} /\ UNCHANGED <<tree, off>>
  BY <1>1, <1>2 DEF TypeInv, CpInv, DestinationInv, InToFile, SameOutside
<1>3. CASE /\ Written \in Blocks /\ tree' = [tree EXCEPT ![job.to] = Written]
           /\ off' \in 0..MaxBlocks /\ pc' = pc
  <2>1. tree[job.to] # Dir /\ tree[job.to] # NoEntry /\ Written # NoEntry /\ Written \in Entries
    BY <1>1, <1>3, EntryAssumption DEF Entries
  <2>2. IsTree(tree')
    BY <1>1, <1>3, <2>1, TreeWithEntry DEF TypeInv
  <2>3. tree'[job.to] \in Blocks
    BY <1>1, <1>3 DEF TypeInv, IsTree
  <2>4. CpInv'
    BY <1>1, <1>3, <2>3 DEF TypeInv, CpInv, InToFile
  <2>5. DestinationInv'
    BY <1>1, <1>3 DEF TypeInv, DestinationInv, InToFile
  <2> QED BY <1>1, <1>3, <2>2, <2>4, <2>5, OneEntry
<1> QED BY <1>2, <1>3, CopyCases

LEMMA CloseKeeps ==
  ASSUME TypeInv, Close, start' = start
  PROVE  IsTree(tree') /\ CpInv' /\ DestinationInv' /\ SameOutside
<1>1. pc' = Returned /\ off' = 0 /\ job' = NoJob /\ UNCHANGED <<tree, args, frames>>
  BY DEF Close
<1>2. CpInv'
  BY <1>1, NoJobType, BoundAssumption DEF TypeInv, CpInv, InToFile, Returned
<1>3. DestinationInv'
  BY <1>1 DEF TypeInv, DestinationInv, InToFile, Returned
<1> QED BY <1>1, <1>2, <1>3 DEF TypeInv, SameOutside

\* An execl of cp for a path, to the same destination.
LEMMA RunCpKeeps ==
  ASSUME TypeInv, started = "multhread_cp", NEW p \in Path, RunCp(p), UNCHANGED <<tree, start>>
  PROVE  /\ CpInv' /\ DestinationInv' /\ copies' \in [Path -> Nat] /\ frames' = <<>>
         /\ ~args'.recursive
<1>1. start.dst = DST /\ start.dst \in Path
  BY DEF TypeInv, WalkInv
<1>2. /\ args' = [src |-> p, dst |-> DST, recursive |-> FALSE, slash |-> TRUE]
      /\ pc' = "main" /\ frames' = <<>> /\ job' = NoJob /\ off' = 0
      /\ copies' = [copies EXCEPT ![p] = @ + 1]
  BY DEF RunCp
<1>3. /\ args' \in [src : Path, dst : Path, recursive : BOOLEAN, slash : BOOLEAN]
      /\ args'.dst = DST /\ ~args'.recursive
  BY <1>1, <1>2
<1>4. frames' \in Seq(Frame) /\ \A i \in 1..Len(frames') : IsPrefix(start.dst, frames'[i].dst)
  BY <1>2, EmptySeq
<1>5. copies' \in [Path -> Nat]
  BY <1>2 DEF TypeInv, WalkInv
<1>6. CpInv'
  BY <1>2, <1>3, <1>4, NoJobType, BoundAssumption DEF CpInv, InToFile
<1>7. DestinationInv'
  BY <1>1, <1>2, <1>3, <1>4 DEF DestinationInv, InToFile
<1> QED BY <1>2, <1>3, <1>5, <1>6, <1>7

LEMMA WalkerTyped == ASSUME NEW p \in Path PROVE Walker(p) \in WalkerType
BY NameAssumption DEF Walker, WalkerType, Visible

LEMMA StartKeeps ==
  ASSUME TypeInv, Start
  PROVE  TypeInv' /\ UNCHANGED tree
<1>1. /\ started = "multhread_cp" /\ UNCHANGED <<tree, installed, started, start>> /\ pc = "idle"
      /\ args.src \in Path /\ walkers = <<>>
  BY DEF Start, TypeInv, CpInv
<1>2. CASE walkers' = <<Walker(args.src)>> /\ UNCHANGED <<cpVars, copies>>
  <2>1. walkers' \in Seq(WalkerType)
    BY <1>1, <1>2, WalkerTyped
  <2> QED BY <1>1, <1>2, <2>1 DEF TypeInv, CpInv, WalkInv, DestinationInv, cpVars, InToFile
<1>3. CASE UNCHANGED walkers /\ RunCp(args.src)
  <2>1. CpInv' /\ DestinationInv' /\ copies' \in [Path -> Nat] /\ frames' = <<>> /\ ~args'.recursive
    BY <1>1, <1>3, RunCpKeeps
  <2> QED BY <1>1, <1>3, <2>1 DEF TypeInv, WalkInv
<1>4. CASE UNCHANGED walkers /\ pc' = "finished" /\ UNCHANGED <<args, frames, job, off, copies>>
  BY <1>1, <1>4 DEF TypeInv, CpInv, WalkInv, DestinationInv, InToFile
<1> QED BY <1>1, <1>2, <1>3, <1>4 DEF Start

\* The entry a walker reads, and the walker once it has read it.
Entered(n) == [Running EXCEPT !.seen = @ \cup {n}]
Rest(n) == Append(Front(walkers), Entered(n))

LEMMA RestFacts ==
  ASSUME TypeInv, walkers # <<>>, NEW n \in Name
  PROVE  /\ Running \in WalkerType /\ Len(walkers) \in Nat /\ Len(walkers) >= 1
         /\ Running = walkers[Len(walkers)] /\ Entered(n) \in WalkerType
         /\ Rest(n) \in Seq(WalkerType) /\ Len(Rest(n)) = Len(walkers)
         /\ \A i \in 1..Len(walkers) - 1 : Rest(n)[i] = walkers[i]
         /\ Rest(n)[Len(walkers)] = Entered(n)
<1>1. walkers \in Seq(WalkerType)
  BY DEF TypeInv, WalkInv
<1>2. /\ Running \in WalkerType /\ Len(walkers) \in Nat /\ Len(walkers) >= 1
      /\ Running = walkers[Len(walkers)]
      /\ Front(walkers) \in Seq(WalkerType) /\ Len(Front(walkers)) = Len(walkers) - 1
      /\ \A i \in 1..Len(walkers) - 1 : Front(walkers)[i] = walkers[i]
  BY <1>1, FrontLast DEF Running
<1>3. Entered(n) \in WalkerType
  BY <1>2 DEF Entered, WalkerType
<1>4. /\ Rest(n) \in Seq(WalkerType) /\ Len(Rest(n)) = Len(Front(walkers)) + 1
      /\ Rest(n)[Len(Front(walkers)) + 1] = Entered(n)
      /\ \A i \in 1..Len(Front(walkers)) : Rest(n)[i] = Front(walkers)[i]
  BY <1>2, <1>3, AppendFacts DEF Rest
<1>5. /\ Len(Rest(n)) = Len(walkers) /\ Rest(n)[Len(walkers)] = Entered(n)
      /\ \A i \in 1..Len(walkers) - 1 : Rest(n)[i] = walkers[i]
  BY <1>2, <1>4
<1> QED BY <1>2, <1>3, <1>4, <1>5

\* What a fork can come to.
LEMMA ForkCases ==
  ASSUME TypeInv, Fork
  PROVE  /\ CpOver /\ walkers # <<>> /\ started = "multhread_cp"
         /\ UNCHANGED <<tree, installed, started, start>>
         /\ \E n \in Visible(Running.dir) \ Running.seen :
              /\ n \in Name /\ Append(Running.dir, n) \in Path
              /\ \/ /\ tree[Append(Running.dir, n)] = Dir /\ UNCHANGED <<cpVars, copies>>
                    /\ walkers' = Append(Rest(n), ForDirectory(Append(Running.dir, n), Entered(n)))
                 \/ /\ tree[Append(Running.dir, n)] # Dir /\ "cp" \in installed
                    /\ walkers' = Rest(n) /\ RunCp(Append(Running.dir, n))
                 \/ /\ tree[Append(Running.dir, n)] # Dir /\ "cp" \notin installed
                    /\ UNCHANGED <<cpVars, copies>>
                    /\ walkers' = Append(Rest(n), Entered(n))
<1>1. started = "multhread_cp"
  BY DEF Fork, TypeInv, WalkInv
<1>2. \A n \in Visible(Running.dir) : n \in Name /\ Append(Running.dir, n) \in Path
  BY DEF Visible
<1> QED BY <1>1, <1>2 DEF Fork, Rest, Entered, ForFileWithoutCp

LEMMA ForkKeeps ==
  ASSUME TypeInv, Fork
  PROVE  TypeInv' /\ UNCHANGED tree
<1>1. CpOver /\ walkers # <<>> /\ started = "multhread_cp" /\ UNCHANGED <<tree, installed, started, start>>
  BY ForkCases
<1>2. PICK n \in Name :
        /\ Append(Running.dir, n) \in Path
        /\ \/ /\ UNCHANGED <<cpVars, copies>>
              /\ walkers' = Append(Rest(n), ForDirectory(Append(Running.dir, n), Entered(n)))
           \/ walkers' = Rest(n) /\ RunCp(Append(Running.dir, n))
           \/ UNCHANGED <<cpVars, copies>> /\ walkers' = Append(Rest(n), Entered(n))
  BY ForkCases
<1>3. Rest(n) \in Seq(WalkerType) /\ Entered(n) \in WalkerType
  BY <1>1, RestFacts
<1>4. ASSUME NEW w \in WalkerType, UNCHANGED <<cpVars, copies>>, walkers' = Append(Rest(n), w)
      PROVE  TypeInv'
  <2>1. walkers' \in Seq(WalkerType)
    BY <1>3, <1>4, AppendFacts
  <2> QED BY <1>1, <1>4, <2>1 DEF TypeInv, CpInv, WalkInv, DestinationInv, cpVars, InToFile
<1>5. ForDirectory(Append(Running.dir, n), Entered(n)) \in WalkerType
  BY <1>2, <1>3, WalkerTyped DEF ForDirectory
<1>6. CASE walkers' = Rest(n) /\ RunCp(Append(Running.dir, n))
  <2>1. CpInv' /\ DestinationInv' /\ copies' \in [Path -> Nat] /\ frames' = <<>> /\ ~args'.recursive
    BY <1>1, <1>2, <1>6, RunCpKeeps
  <2> QED BY <1>1, <1>3, <1>6, <2>1 DEF TypeInv, WalkInv
<1> QED BY <1>1, <1>2, <1>3, <1>4, <1>5, <1>6

LEMMA WalkerEndsKeeps ==
  ASSUME TypeInv, WalkerEnds
  PROVE  TypeInv' /\ UNCHANGED tree
<1>1. /\ UNCHANGED <<tree, args, frames, job, off, installed, started, start, copies>>
      /\ walkers' = Front(walkers) /\ walkers # <<>> /\ pc' \in {"finished", pc}
      /\ pc \in {"idle", "finished", "exited"}
  BY DEF WalkerEnds, CpOver
<1>2. started = "multhread_cp" /\ frames = <<>>
  BY <1>1 DEF TypeInv, WalkInv
<1>3. walkers' \in Seq(WalkerType)
  BY <1>1, FrontLast DEF TypeInv, WalkInv
<1> QED BY <1>1, <1>2, <1>3 DEF TypeInv, CpInv, WalkInv, DestinationInv, InToFile

\* Every step keeps types and destinations, and changes only what is below one.
LEMMA StepKeepsTypes ==
  ASSUME TypeInv, [Next]_vars
  PROVE  TypeInv' /\ SameOutside
<1>1. CASE RunningCp
  <2>1. WalkInv' /\ start' = start
    BY <1>1, CpKeepsWalkers
  <2>2. IsTree(tree') /\ CpInv' /\ DestinationInv' /\ SameOutside
    BY <1>1, <2>1, MainKeeps, EntryKeeps, EndOfDirKeeps, CheckKeeps, OpenKeeps, CopyKeeps, CloseKeeps
       DEF RunningCp, CpStep
  <2> QED BY <2>1, <2>2 DEF TypeInv, IsTree
<1>2. CASE Start \/ Fork \/ WalkerEnds
  BY <1>2, StartKeeps, ForkKeeps, WalkerEndsKeeps DEF SameOutside
<1>3. CASE UNCHANGED vars
  BY <1>3 DEF vars, cpVars, walkVars, TypeInv, CpInv, WalkInv, DestinationInv, InToFile, SameOutside, IsTree
<1> QED BY <1>1, <1>2, <1>3 DEF Next

\* Nothing outside the destination is ever changed, whatever the user answers, however
\* source and destination overlap and whichever program runs.
THEOREM DestinationOnly == Spec => OnlyDestinationChanges
<1>1. TypeInv /\ [Next]_vars => [\A p \in Path : ~IsPrefix(start.dst, p) => tree'[p] = tree[p]]_vars
  BY StepKeepsTypes DEF SameOutside
<1> QED BY <1>1, InitTypes, StepKeepsTypes, PTL DEF Spec, OnlyDestinationChanges

(* The content of what is copied *)

\* What has been read, and what the destination holds then.
Source == Content(job.from)
Copied == After(job.mode, job.before, SubSeq(Source, 1, off))

ContentInv ==
  /\ pc \in {"open", "copy"} => job.mode # "drop" /\ (job.before = NoEntry => job.mode = "plain")
  /\ pc = "open" => job.before = tree[job.to]
  /\ pc = "copy" => job.before # Dir
  /\ pc = "copy" /\ job.from # job.to => off <= Len(Source) /\ tree[job.to] = Copied
  /\ CopiesContent

\* A sequence laid over another one.
LaidOver(S, new, old, t) ==
  /\ t \in Seq(S) /\ Len(t) \in Nat
  /\ Len(new) < Len(old) => Len(t) = Len(old)
  /\ Len(old) <= Len(new) => Len(t) = Len(new)
  /\ \A i \in 1..Len(t) : t[i] = IF i <= Len(new) THEN new[i] ELSE old[i]

LEMMA Overlay ==
  ASSUME NEW S, NEW new \in Seq(S), NEW old \in Seq(S), NEW k \in Nat, k = Len(new),
         NEW n \in Nat, n = Len(old), NEW t, t = new \o SubSeq(old, k + 1, n)
  PROVE  LaidOver(S, new, old, t)
<1> DEFINE rest == SubSeq(old, k + 1, n)
<1>1. \A i \in k + 1..n : old[i] \in S
  OBVIOUS
<1>2. /\ rest \in Seq(S) /\ Len(rest) = IF k + 1 <= n THEN n - (k + 1) + 1 ELSE 0
      /\ \A i \in 1..n - (k + 1) + 1 : rest[i] = old[k + 1 + i - 1]
  BY <1>1, SubSeqProperties
<1>3. CASE n <= k
  <2>1. rest = <<>>
    BY <1>3, SubSeqEmpty
  <2>2. t = new
    BY <2>1, ConcatEmptySeq
  <2>3. \A i \in 1..Len(new) : i <= Len(new)
    OBVIOUS
  <2> HIDE DEF rest
  <2> QED BY <1>3, <2>2, <2>3 DEF LaidOver
<1>4. CASE k < n
  <2>1. /\ Len(rest) = n - k /\ \A i \in 1..n - k : rest[i] = old[k + i]
    BY <1>2, <1>4
  <2>2. t = new \o rest
    OBVIOUS
  <2> HIDE DEF rest
  <2>3. /\ t \in Seq(S) /\ Len(t) = k + (n - k)
        /\ \A i \in 1..k + (n - k) : t[i] = IF i <= k THEN new[i] ELSE rest[i - k]
    BY <1>2, <2>1, <2>2, ConcatProperties
  <2>4. Len(t) = n /\ k + (n - k) = n
    BY <2>3
  <2>5. ASSUME NEW i \in 1..n PROVE t[i] = IF i <= k THEN new[i] ELSE old[i]
    <3>1. CASE i <= k
      BY <2>3, <2>4, <3>1
    <3>2. CASE i > k
      <4>1. i - k \in 1..n - k /\ k + (i - k) = i
        BY <3>2
      <4>2. rest[i - k] = old[i]
        BY <2>1, <4>1
      <4>3. i \in 1..k + (n - k) /\ ~(i <= k)
        BY <2>4, <3>2
      <4> QED BY <2>3, <4>2, <4>3
    <3> QED BY <3>1, <3>2
  <2> QED BY <1>4, <2>3, <2>4, <2>5 DEF LaidOver
<1> QED BY <1>3, <1>4

\* One block more, appended or stored at its offset.
LEMMA OverlayNext ==
  ASSUME NEW S, NEW old \in Seq(S), NEW a \in Seq(S), NEW x \in S, NEW k \in Nat, k = Len(a),
         NEW t, LaidOver(S, a, old, t), NEW u, LaidOver(S, Append(a, x), old, u)
  PROVE  u = IF k >= Len(t) THEN Append(t, x) ELSE [t EXCEPT ![k + 1] = x]
<1> DEFINE b == Append(a, x)
<1>0. b \in Seq(S) /\ Len(b) = k + 1 /\ b[k + 1] = x /\ \A i \in 1..k : b[i] = a[i]
  BY AppendFacts
<1> HIDE DEF b
<1>1. PICK n \in Nat : n = Len(old)
  OBVIOUS
<1>2. PICK l \in Nat : /\ t \in Seq(S) /\ l = Len(t) /\ (k < n => l = n) /\ (n <= k => l = k)
                       /\ \A i \in 1..l : t[i] = IF i <= k THEN a[i] ELSE old[i]
  BY <1>1 DEF LaidOver
<1>3. PICK m \in Nat : /\ u \in Seq(S) /\ m = Len(u) /\ (k + 1 < n => m = n) /\ (n <= k + 1 => m = k + 1)
                       /\ \A i \in 1..m : u[i] = IF i <= k + 1 THEN b[i] ELSE old[i]
  BY <1>0, <1>1 DEF LaidOver, b
<1>4. CASE k >= l
  <2> DEFINE v == Append(t, x)
  <2>1. n <= k /\ l = k /\ m = k + 1
    BY <1>2, <1>3, <1>4
  <2>2. v \in Seq(S) /\ Len(v) = k + 1 /\ v[k + 1] = x /\ \A i \in 1..k : v[i] = t[i]
    <3>1. t \in Seq(S) /\ Len(t) = k
      BY <1>2, <2>1
    <3> QED BY <3>1, AppendFacts
  <2> HIDE DEF v
  <2>3. \A i \in 1..k : v[i] = u[i]
    <3> SUFFICES ASSUME NEW i \in 1..k PROVE v[i] = u[i]
      OBVIOUS
    <3>1. v[i] = t[i] /\ b[i] = a[i]
      BY <1>0, <2>2
    <3>2. t[i] = a[i]
      BY <1>2, <2>1
    <3>3. u[i] = b[i]
      BY <1>3, <2>1
    <3> QED BY <3>1, <3>2, <3>3
  <2>4. v[k + 1] = u[k + 1]
    BY <1>0, <1>3, <2>1, <2>2
  <2>5. \A i \in 1..k + 1 : i \in 1..k \/ i = k + 1
    OBVIOUS
  <2>6. \A i \in 1..Len(v) : u[i] = v[i]
    BY <2>2, <2>3, <2>4, <2>5
  <2>7. u = v
    BY <1>3, <2>1, <2>2, <2>6, SeqEqual
  <2> QED BY <1>2, <1>4, <2>7 DEF v
<1>5. CASE k < l
  <2>1. k + 1 \in 1..l /\ k < n /\ l = n /\ m = n
    BY <1>2, <1>3, <1>5
  <2> DEFINE v == [t EXCEPT ![k + 1] = x]
  <2>2. v \in Seq(S) /\ Len(v) = l /\ \A i \in 1..l : v[i] = IF i = k + 1 THEN x ELSE t[i]
    <3>1. PICK j \in 1..Len(t) : j = k + 1
      BY <1>2, <2>1
    <3>2. t \in Seq(S) /\ v = [t EXCEPT ![j] = x]
      BY <1>2, <3>1
    <3>3. /\ v \in Seq(S) /\ Len(v) = Len(t)
          /\ \A i \in 1..Len(t) : v[i] = IF i = j THEN x ELSE t[i]
      BY <3>1, <3>2, ExceptSeq
    <3> HIDE DEF v
    <3> QED BY <1>2, <3>1, <3>3
  <2> HIDE DEF v
  <2>3. \A i \in 1..m : u[i] = v[i]
    <3> SUFFICES ASSUME NEW i \in 1..n PROVE u[i] = v[i]
      BY <2>1
    <3>1. u[i] = IF i <= k + 1 THEN b[i] ELSE old[i]
      BY <1>3, <2>1
    <3>2. v[i] = IF i = k + 1 THEN x ELSE IF i <= k THEN a[i] ELSE old[i]
      BY <1>2, <2>1, <2>2
    <3>3. i <= k => b[i] = a[i]
      BY <1>0
    <3> QED BY <1>0, <3>1, <3>2, <3>3
  <2>4. u = v
    BY <1>3, <2>1, <2>2, <2>3, SeqEqual
  <2>5. ~(k >= Len(t))
    BY <1>2, <1>5
  <2> QED BY <2>4, <2>5, Zenon DEF v
<1>6. k >= l \/ k < l
  OBVIOUS
<1> QED BY <1>4, <1>5, <1>6, Zenon

\* What has been read, and that with one block more.
LEMMA ReadFacts ==
  ASSUME NEW S, NEW s \in Seq(S), NEW k \in Nat, k <= Len(s)
  PROVE  /\ SubSeq(s, 1, k) \in Seq(S) /\ Len(SubSeq(s, 1, k)) = k
         /\ k < Len(s) => SubSeq(s, 1, k + 1) = Append(SubSeq(s, 1, k), s[k + 1])
<1>1. Len(s) \in Nat /\ \A i \in 1..Len(s) : s[i] \in S
  OBVIOUS
<1>2. SubSeq(s, 1, k) \in Seq(S) /\ Len(SubSeq(s, 1, k)) = k /\ \A i \in 1..k : SubSeq(s, 1, k)[i] = s[i]
  BY <1>1
<1>3. ASSUME k < Len(s) PROVE SubSeq(s, 1, k + 1) = Append(SubSeq(s, 1, k), s[k + 1])
  <2> DEFINE a == SubSeq(s, 1, k)
             b == SubSeq(s, 1, k + 1)
             c == Append(a, s[k + 1])
  <2>1. b \in Seq(S) /\ Len(b) = k + 1 /\ \A i \in 1..k + 1 : b[i] = s[i]
    BY <1>1, <1>3
  <2>2. a \in Seq(S) /\ Len(a) = k /\ (\A i \in 1..k : a[i] = s[i]) /\ s[k + 1] \in S
    BY <1>1, <1>2, <1>3
  <2> HIDE DEF a, b
  <2>3. c \in Seq(S) /\ Len(c) = k + 1 /\ c[k + 1] = s[k + 1] /\ \A i \in 1..k : c[i] = a[i]
    BY <2>2, AppendFacts
  <2> HIDE DEF c
  <2>4. \A i \in 1..k + 1 : i \in 1..k \/ i = k + 1
    OBVIOUS
  <2>5. \A i \in 1..Len(b) : b[i] = c[i]
    BY <2>1, <2>2, <2>3, <2>4
  <2>6. b = c
    BY <2>1, <2>3, <2>5, SeqEqual
  <2> QED BY <2>6 DEF a, b, c
<1> QED BY <1>2, <1>3

\* What writing block x makes of a file t, once k blocks have been copied.
WriteBlock(mode, k, t, x) ==
  IF mode = "cat" \/ k >= Len(t) THEN Append(t, x) ELSE [t EXCEPT ![k + 1] = x]

\* The step of the loop: with one block more read, the destination holds what it should.
LEMMA AfterNext ==
  ASSUME NEW a \in Seq(Block), NEW x \in Block, NEW k \in Nat, k = Len(a),
         NEW old \in Entries, old # Dir,
         NEW mode \in {"plain", "cover", "cat"}, old = NoEntry => mode = "plain",
         NEW t, t = After(mode, old, a)
  PROVE  After(mode, old, Append(a, x))
           = IF mode = "cat" \/ k >= Len(t) THEN Append(t, x) ELSE [t EXCEPT ![k + 1] = x]
<1>1. CASE mode = "cover" \/ old = NoEntry
  <2>1. mode # "cat" /\ t = a /\ After(mode, old, Append(a, x)) = Append(a, x)
    BY <1>1 DEF After
  <2>2. k >= Len(t)
    BY <2>1
  <2> QED BY <2>1, <2>2
<1>2. CASE mode = "cat" /\ old # NoEntry
  <2>1. old \in Seq(Block)
    BY <1>2, BlocksFacts DEF Entries
  <2> DEFINE b == Append(a, x)
  <2>2. t = old \o a /\ After(mode, old, b) = old \o b
    BY <1>2 DEF After
  <2>3. b = a \o <<x>> /\ <<x>> \in Seq(Block)
    OBVIOUS
  <2>4. t \in Seq(Block)
    BY <2>1, <2>2, ConcatProperties
  <2>5. Append(t, x) = t \o <<x>>
    BY <2>4
  <2>6. (old \o a) \o <<x>> = old \o (a \o <<x>>)
    BY <2>1, <2>3, ConcatAssociative
  <2>7. Append(t, x) = old \o b
    BY <2>2, <2>3, <2>5, <2>6, Zenon
  <2> QED BY <1>2, <2>2, <2>7
<1>3. CASE mode = "plain" /\ old # NoEntry
  <2> DEFINE b == Append(a, x)
  <2> DEFINE u == b \o SubSeq(old, Len(b) + 1, Len(old))
  <2>1. old \in Seq(Block) /\ Len(old) \in Nat /\ b \in Seq(Block) /\ Len(b) \in Nat
    BY <1>3, BlocksFacts, AppendFacts DEF Entries
  <2>2. t = a \o SubSeq(old, Len(a) + 1, Len(old)) /\ After(mode, old, b) = u
    BY <1>3 DEF After
  <2>3. LaidOver(Block, a, old, t)
    BY <2>1, <2>2, Overlay
  <2> HIDE DEF b
  <2>4. LaidOver(Block, b, old, u)
    BY <2>1, Overlay
  <2> HIDE DEF u
  <2>5. u = IF k >= Len(t) THEN Append(t, x) ELSE [t EXCEPT ![k + 1] = x]
    <3>1. LaidOver(Block, Append(a, x), old, u)
      BY <2>4 DEF b
    <3> QED BY <2>1, <2>3, <3>1, OverlayNext
  <2>6. mode # "cat"
    BY <1>3
  <2> QED BY <2>2, <2>5, <2>6 DEF b
<1> QED BY <1>1, <1>2, <1>3

LEMMA WrittenIsCopied ==
  ASSUME NEW s \in Seq(Block), NEW k \in Nat, k < Len(s), NEW old \in Entries, old # Dir,
         NEW mode \in {"plain", "cover", "cat"}, old = NoEntry => mode = "plain",
         NEW t, t = After(mode, old, SubSeq(s, 1, k))
  PROVE  After(mode, old, SubSeq(s, 1, k + 1)) = WriteBlock(mode, k, t, s[k + 1])
<1> DEFINE a == SubSeq(s, 1, k)
           x == s[k + 1]
<1>1. a \in Seq(Block) /\ k = Len(a) /\ SubSeq(s, 1, k + 1) = Append(a, x) /\ x \in Block
  <2>1. k + 1 \in 1..Len(s)
    OBVIOUS
  <2> QED BY <2>1, ReadFacts
<1>2. t = After(mode, old, a)
  OBVIOUS
<1> HIDE DEF a, x
<1>3. After(mode, old, Append(a, x)) = WriteBlock(mode, k, t, x)
  BY <1>1, <1>2, AfterNext DEF WriteBlock
<1> QED BY <1>1, <1>3 DEF x

\* Where nothing is being copied, nothing is to be shown.
LEMMA ContentElsewhere ==
  ASSUME pc' \notin {"open", "copy", "close"}
  PROVE  ContentInv'
BY DEF ContentInv, CopiesContent

LEMMA CheckContent ==
  ASSUME TypeInv, Check
  PROVE  ContentInv'
<1>1. CASE pc' = "exited"
  BY <1>1, ContentElsewhere
<1>2. CASE \E mode \in IF tree[job.to] = NoEntry THEN {"plain"} ELSE {"cover", "cat", "drop", "plain"} :
             /\ job' = [job EXCEPT !.mode = mode, !.before = tree[job.to]]
             /\ pc' = IF mode = "drop" THEN "close" ELSE "open"
  <2>1. PICK mode \in {"cover", "cat", "drop", "plain"} :
             /\ job' = [job EXCEPT !.mode = mode, !.before = tree[job.to]]
             /\ pc' = IF mode = "drop" THEN "close" ELSE "open"
             /\ tree[job.to] = NoEntry => mode = "plain"
    BY <1>2
  <2>2. /\ job'.mode = mode /\ job'.before = tree[job.to] /\ job'.from = job.from /\ job'.to = job.to
    BY <2>1 DEF TypeInv, CpInv, Job
  <2>3. tree' = tree
    BY DEF Check, Stop
  <2>4. CASE mode = "drop"
    BY <2>1, <2>2, <2>3, <2>4 DEF ContentInv, CopiesContent, After
  <2>5. CASE mode # "drop"
    BY <2>1, <2>2, <2>3, <2>5 DEF ContentInv, CopiesContent
  <2> QED BY <2>4, <2>5
<1> QED BY <1>1, <1>2 DEF Check, Stop

LEMMA OpenContent ==
  ASSUME TypeInv, ContentInv, Open
  PROVE  ContentInv'
<1>1. /\ pc = "open" /\ job' = job /\ job.mode # "drop" /\ (job.before = NoEntry => job.mode = "plain")
      /\ job.before = tree[job.to] /\ job.to \in Path /\ job.from \in Path
      /\ tree \in [Path -> Entries] /\ job.mode \in {"plain", "cover", "cat"}
  BY DEF Open, Stop, ContentInv, TypeInv, CpInv, Job, IsTree, Entries
<1>2. CASE tree[job.to] = Dir \/ ~InDirectory(job.to)
  <2>1. pc' = (IF job.mode = "plain" THEN "exited" ELSE "close") /\ UNCHANGED tree
    BY <1>2 DEF Open, Stop
  <2>2. tree[job.to] # NoEntry => InDirectory(job.to)
    BY <1>1, FrontPath DEF InDirectory, TypeInv, IsTree
  <2>3. CASE job.mode = "plain"
    BY <2>1, <2>3, ContentElsewhere
  <2>4. CASE job.mode # "plain"
    <3>1. tree[job.to] = Dir
      BY <1>1, <1>2, <2>2, <2>4
    <3> QED BY <1>1, <2>1, <2>4, <3>1 DEF ContentInv, CopiesContent, After
  <2> QED BY <2>3, <2>4
<1>3. CASE tree[job.to] # Dir /\ InDirectory(job.to)
  <2>1. tree' = [tree EXCEPT ![job.to] = Opened] /\ off' = 0 /\ pc' = "copy"
    BY <1>3 DEF Open
  <2>2. tree'[job.to] = Opened
    BY <1>1, <2>1
  <2>3. SubSeq(Source', 1, 0) = <<>>
    BY SubSeqEmpty
  <2>4. Opened = After(job.mode, job.before, <<>>)
    <3>1. CASE job.mode = "cover" \/ job.before = NoEntry
      BY <1>1, <1>3, <3>1 DEF After, Opened
    <3>2. CASE job.mode # "cover" /\ job.before # NoEntry
      <4>1. job.before \in Seq(Block) /\ Opened = job.before
        BY <1>1, <1>3, <3>2, BlocksFacts DEF Opened, Entries
      <4>2. job.before \o <<>> = job.before /\ <<>> \o job.before = job.before
        BY <4>1, ConcatEmptySeq
      <4>3. SubSeq(job.before, Len(<<>>) + 1, Len(job.before)) = job.before
        <5>1. SubSeq(job.before, 1, Len(job.before)) = job.before
          BY <4>1, SubSeqFull
        <5> QED BY <5>1
      <4> QED BY <1>1, <1>3, <3>2, <4>1, <4>2, <4>3 DEF After
    <3> QED BY <3>1, <3>2
  <2>5. 0 <= Len(Source')
    <3>1. Source' \in Blocks
      <4>1. tree' \in [Path -> Entries]
        BY <1>1, <1>3, <2>1, BlocksFacts DEF Opened, Entries
      <4> QED BY <1>1, <4>1, BlocksFacts DEF Source, Content, IsFile, Entries
    <3> QED BY <3>1, BlocksFacts
  <2> QED BY <1>1, <1>3, <2>1, <2>2, <2>3, <2>4, <2>5 DEF ContentInv, CopiesContent, Copied
<1> QED BY <1>2, <1>3

LEMMA CopyContent ==
  ASSUME TypeInv, ContentInv, Copy
  PROVE  ContentInv'
<1>1. /\ pc = "copy" /\ job' = job /\ job.from \in Path /\ job.to \in Path /\ tree[job.to] \in Blocks
      /\ job.mode \in {"plain", "cover", "cat"} /\ job.before \in Entries /\ job.before # Dir
      /\ job.before = NoEntry => job.mode = "plain"
      /\ job.from # job.to => off <= Len(Source) /\ tree[job.to] = Copied
      /\ off \in Nat
  BY CopyCases, BoundAssumption DEF ContentInv, TypeInv, CpInv, Job
<1>2. CASE pc' = "runaway"
  BY <1>2, ContentElsewhere
<1>3. CASE pc' = "close" /\ UNCHANGED <<tree, off>>
  <2>1. ~IsFile(job.from) \/ off >= Len(tree[job.from])
    BY <1>1, <1>3 DEF Copy, Stop
  <2>2. Source \in Seq(Block) /\ Len(Source) \in Nat
    <3>1. Source \in Blocks
      BY <1>1, BlocksFacts DEF Source, Content, IsFile, TypeInv, IsTree
    <3> QED BY <3>1, BlocksFacts
  <2>3. off >= Len(Source)
    <3>1. CASE IsFile(job.from)
      BY <2>1, <3>1 DEF Source, Content
    <3>2. CASE ~IsFile(job.from)
      <4>1. Len(<<>>) <= off
        BY <1>1
      <4> QED BY <3>2, <4>1 DEF Source, Content
    <3> QED BY <3>1, <3>2
  <2>4. job.from # job.to => SubSeq(Source, 1, off) = Source
    <3>1. job.from # job.to => off = Len(Source)
      BY <1>1, <2>2, <2>3
    <3> QED BY <2>2, <3>1, SubSeqFull
  <2> QED BY <1>1, <1>3, <2>4 DEF ContentInv, CopiesContent, Copied, Source, Content, IsFile
<1>4. CASE /\ tree[job.from] \in Blocks /\ off < Len(tree[job.from])
           /\ tree' = [tree EXCEPT ![job.to] = Written]
           /\ off' = off + 1 /\ pc' = pc
  <2>1. CASE job.from = job.to
    BY <1>1, <1>4, <2>1 DEF ContentInv, CopiesContent
  <2>2. CASE job.from # job.to
    <3> DEFINE s == tree[job.from]
               t == tree[job.to]
    <3>1. Source = s /\ s \in Seq(Block) /\ Len(s) \in Nat
      BY <1>4, EntryAssumption, BlocksFacts DEF Source, Content, IsFile
    <3>2. tree'[job.from] = s /\ tree'[job.to] = Written
      BY <1>1, <1>4, <2>2 DEF TypeInv, IsTree
    <3>3. Source' = s
      BY <1>1, <1>4, <3>2, EntryAssumption DEF Source, Content, IsFile
    <3>4. t = After(job.mode, job.before, SubSeq(s, 1, off)) /\ t \in Blocks
      BY <1>1, <2>2, <3>1 DEF Copied
    <3>5. After(job.mode, job.before, SubSeq(s, 1, off + 1)) = Written
      <4>1. off < Len(s) /\ Written = WriteBlock(job.mode, off, t, s[off + 1])
        BY <1>4 DEF Written, Appends, WriteBlock
      <4> HIDE DEF s, t
      <4>2. /\ s \in Seq(Block) /\ off \in Nat /\ off < Len(s) /\ job.before \in Entries /\ job.before # Dir
            /\ job.mode \in {"plain", "cover", "cat"} /\ (job.before = NoEntry => job.mode = "plain")
            /\ t = After(job.mode, job.before, SubSeq(s, 1, off))
        BY <1>1, <3>1, <3>4, <4>1
      <4> QED BY <4>1, <4>2, WrittenIsCopied
    <3>6. off + 1 <= Len(s)
      BY <1>1, <1>4, <3>1
    <3>7. off' <= Len(Source') /\ tree'[job.to] = Copied'
      BY <1>1, <1>4, <3>2, <3>3, <3>5, <3>6 DEF Copied
    <3> QED BY <1>1, <1>4, <3>7 DEF ContentInv, CopiesContent
  <2> QED BY <2>1, <2>2
<1> QED BY <1>2, <1>3, <1>4, CopyCases

LEMMA StepKeepsContent ==
  ASSUME TypeInv, ContentInv, [Next]_vars
  PROVE  ContentInv'
<1>1. CASE RunningCp
  <2>1. CASE Main \/ Entry \/ EndOfDir
    <3>1. pc' \notin {"open", "copy", "close"}
      BY <2>1 DEF Main, Entry, EndOfDir, DirToDir, ToFile, Stop
    <3> QED BY <3>1, ContentElsewhere
  <2>2. CASE Close
    <3>1. pc' \notin {"open", "copy", "close"}
      BY <2>2 DEF Close, Returned
    <3> QED BY <3>1, ContentElsewhere
  <2> QED BY <1>1, <2>1, <2>2, CheckContent, OpenContent, CopyContent DEF RunningCp, CpStep
<1>2. CASE Start \/ Fork \/ WalkerEnds
  <2>1. pc \in {"idle", "finished", "exited"}
    BY <1>2 DEF Start, Fork, WalkerEnds, CpOver
  <2>2. pc' \in {"main", "finished", pc}
    BY <1>2 DEF Start, Fork, WalkerEnds, RunCp, cpVars
  <2> QED BY <2>1, <2>2, ContentElsewhere
<1>3. CASE UNCHANGED vars
  BY <1>3 DEF vars, cpVars, ContentInv, CopiesContent, Copied, Source, Content, IsFile
<1> QED BY <1>1, <1>2, <1>3 DEF Next

LEMMA InitContent == Init => ContentInv
BY DEF Init, ContentInv, CopiesContent

\* The loop over blocks of ToFile does what the user chose, whatever was at the
\* destination, unless a file is copied onto itself.
THEOREM ContentIsCopied == Spec => []CopiesContent
<1>1. ContentInv => CopiesContent
  BY DEF ContentInv
<1> QED BY <1>1, InitTypes, InitContent, StepKeepsTypes, StepKeepsContent, PTL DEF Spec

(* What has to be copied *)

\* The entries below a path, in a given tree.
VisibleIn(t, p) == {n \in Name \ Hidden : Append(p, n) \in Path /\ t[Append(p, n)] # NoEntry}

\* The step from a path towards one below it.
NextName(q, p) == p[Len(q) + 1]
Below(q, p) == IsPrefix(q, p) /\ q # p

LEMMA TowardsBelow ==
  ASSUME NEW q \in Path, NEW p \in Path, Below(q, p)
  PROVE  /\ NextName(q, p) \in Name /\ Append(q, NextName(q, p)) \in Path
         /\ IsPrefix(Append(q, NextName(q, p)), p)
         /\ Len(q) < Len(p)
<1> DEFINE n == NextName(q, p)
           r == Append(q, n)
<1>1. /\ q \in Seq(Name) /\ p \in Seq(Name) /\ Len(q) \in Nat /\ Len(p) \in 0..MaxDepth
      /\ Len(q) <= Len(p) /\ \A i \in 1..Len(q) : q[i] = p[i]
  BY PathSeq, PrefixIff DEF Below
<1>2. Len(q) # Len(p)
  BY <1>1, PathEqual DEF Below
<1>3. Len(q) < Len(p)
  BY <1>1, <1>2, BoundAssumption
<1>4. Len(q) + 1 \in 1..Len(p)
  BY <1>1, <1>3, BoundAssumption
<1>5. n \in Name
  BY <1>1, <1>4, ElementOfSeq DEF NextName
<1>6. r \in Seq(Name) /\ Len(r) = Len(q) + 1 /\ r[Len(q) + 1] = n /\ \A i \in 1..Len(q) : r[i] = q[i]
  BY <1>1, <1>5, AppendFacts
<1>7. n = p[Len(q) + 1]
  BY DEF NextName
<1> HIDE DEF r, n
<1>8. r \in Path
  BY <1>1, <1>3, <1>6, PathSeq, BoundAssumption
<1>9. \A i \in 1..Len(r) : i \in 1..Len(q) \/ i = Len(q) + 1
  BY <1>1, <1>6
<1>10. \A i \in 1..Len(r) : r[i] = p[i]
  BY <1>1, <1>6, <1>7, <1>9
<1>11. Len(r) <= Len(p)
  BY <1>1, <1>3, <1>6, BoundAssumption
<1>12. IsPrefix(r, p)
  BY <1>8, <1>10, <1>11, PrefixIff
<1> QED BY <1>3, <1>5, <1>8, <1>12 DEF r, n

LEMMA BelowEntry ==
  ASSUME NEW q \in Path, NEW n, Append(q, n) \in Path, NEW p \in Path, IsPrefix(Append(q, n), p)
  PROVE  Below(q, p) /\ NextName(q, p) = n
<1> DEFINE r == Append(q, n)
<1>1. /\ r \in Path /\ Len(r) = Len(q) + 1 /\ r[Len(q) + 1] = n /\ IsPrefix(q, r) /\ IsPrefix(r, p)
      /\ Len(q) \in Nat /\ Len(p) \in Nat
  BY AppendPath, PathSeq
<1> HIDE DEF r
<1>2. IsPrefix(q, p)
  BY <1>1, PrefixOrder
<1>3. Len(r) <= Len(p) /\ \A i \in 1..Len(r) : r[i] = p[i]
  BY <1>1, PrefixIff
<1>4. q # p
  BY <1>1, <1>3
<1>5. p[Len(q) + 1] = n
  BY <1>1, <1>3
<1> QED BY <1>2, <1>4, <1>5 DEF Below, NextName

\* On the way from s to a visible file below it there are only directories, and each of
\* them shows the next step.
LEMMA WayToFile ==
  ASSUME NEW t, IsTree(t), NEW s \in Path, NEW p \in VisibleFiles(t, s),
         NEW q \in Path, IsPrefix(s, q), Below(q, p)
  PROVE  /\ p \in Path /\ t[q] = Dir /\ NextName(q, p) \in VisibleIn(t, q)
         /\ Append(q, NextName(q, p)) = p \/ t[Append(q, NextName(q, p))] = Dir
<1> DEFINE n == NextName(q, p)
           r == Append(q, n)
<1>1. /\ p \in Path /\ t[p] \notin {Dir, NoEntry} /\ IsPrefix(s, p)
      /\ \A i \in Len(s) + 1..Len(p) : p[i] \notin Hidden
  BY DEF VisibleFiles
<1>2. n \in Name /\ r \in Path /\ IsPrefix(r, p) /\ Len(q) < Len(p)
  BY <1>1, TowardsBelow
<1>3. t[q] = Dir
  BY <1>1 DEF IsTree, Below
<1>4. r = p \/ t[r] = Dir
  BY <1>1, <1>2 DEF IsTree
<1>5. t[r] # NoEntry
  BY <1>1, <1>4, EntryAssumption
<1>6. n \notin Hidden
  <2>1. Len(s) \in Nat /\ Len(q) \in Nat /\ Len(p) \in Nat /\ Len(s) <= Len(q)
    BY <1>1, PathSeq, PrefixIff
  <2>2. Len(q) + 1 \in Len(s) + 1..Len(p)
    BY <1>2, <2>1
  <2> QED BY <1>1, <2>2 DEF NextName
<1> QED BY <1>1, <1>2, <1>3, <1>4, <1>5, <1>6 DEF VisibleIn

\* A visible file is all there is at its own place.
LEMMA FileAlone ==
  ASSUME NEW t, IsTree(t), NEW s \in Path, NEW p \in VisibleFiles(t, s), t[s] # Dir
  PROVE  p = s
BY DEF VisibleFiles, IsTree

\* The source stays as it was, unless source and destination overlap.
SourceInv ==
  /\ started = "cp" \/ pc = "idle" => args.src = start.src
  /\ ~Overlap => \A p \in Path : IsPrefix(start.src, p) => tree[p] = start.tree[p]

LEMMA SourceStays ==
  ASSUME TypeInv, SourceInv, [Next]_vars
  PROVE  SourceInv' /\ start' = start /\ started' = started /\ installed' = installed
<1>1. start' = start /\ started' = started /\ installed' = installed
  BY DEF Next, RunningCp, Start, Fork, WalkerEnds, vars, walkVars
<1>2. started = "cp" \/ pc' = "idle" => args' = args /\ (started = "cp" \/ pc = "idle")
  <2>1. CASE RunningCp
    BY <2>1, CpKeepsWalkers
  <2>2. CASE Start \/ Fork \/ WalkerEnds
    <3>1. started = "multhread_cp"
      BY <2>2, ForkCases DEF Start, WalkerEnds, TypeInv, WalkInv
    <3>2. pc' = "idle" => args' = args /\ pc = "idle"
      BY <2>2 DEF Start, Fork, WalkerEnds, RunCp, cpVars
    <3> QED BY <3>1, <3>2
  <2>3. CASE UNCHANGED vars
    BY <2>3 DEF vars, cpVars
  <2> QED BY <2>1, <2>2, <2>3 DEF Next
<1>3. ASSUME ~Overlap, NEW p \in Path, IsPrefix(start.src, p) PROVE tree'[p] = tree[p]
  <2>1. start.src \in Path /\ start.dst \in Path
    BY DEF TypeInv, WalkInv
  <2>2. ~IsPrefix(start.dst, p)
    BY <1>3, <2>1, PrefixOrder DEF Overlap
  <2> QED BY <2>2, StepKeepsTypes DEF SameOutside
<1>4. Overlap' = Overlap
  BY <1>1 DEF Overlap
<1> QED BY <1>1, <1>2, <1>3, <1>4 DEF SourceInv

LEMMA InitSource == Init => SourceInv
BY DEF Init, SourceInv

\* What is seen below the source is what was there.
LEMMA SourceSeen ==
  ASSUME TypeInv, SourceInv, ~Overlap, NEW q \in Path, IsPrefix(start.src, q)
  PROVE  Visible(q) = VisibleIn(start.tree, q) /\ tree[q] = start.tree[q]
<1>1. start.src \in Path
  BY DEF TypeInv, WalkInv
<1>2. \A n : Append(q, n) \in Path => tree[Append(q, n)] = start.tree[Append(q, n)]
  BY <1>1, PrefixAppend DEF SourceInv
<1>3. Visible(q) = VisibleIn(start.tree, q)
  BY <1>2 DEF Visible, VisibleIn
<1> QED BY <1>3 DEF SourceInv

\* Nothing that exists is ever removed.
LEMMA NothingRemoved ==
  ASSUME TypeInv, [Next]_vars, NEW p \in Path, tree[p] # NoEntry
  PROVE  tree'[p] # NoEntry
<1>1. tree \in [Path -> Entries]
  BY DEF TypeInv, IsTree, Entries
<1>2. ASSUME NEW d, NEW e, e # NoEntry, tree' = [tree EXCEPT ![d] = e] PROVE tree'[p] # NoEntry
  BY <1>1, <1>2
<1>3. CASE UNCHANGED tree
  BY <1>3
<1>4. CASE Main \/ Entry
  <2>1. UNCHANGED tree \/ \E d : tree' = [tree EXCEPT ![d] = Dir]
    BY <1>4 DEF Main, Entry, DirToDir, ToFile, Stop
  <2> QED BY <1>2, <1>3, <2>1, EntryAssumption
<1>5. CASE Open
  <2>1. CASE UNCHANGED tree
    BY <1>3, <2>1
  <2>2. CASE tree' = [tree EXCEPT ![job.to] = Opened] /\ tree[job.to] # Dir
    <3>1. job.to \in Path
      BY DEF TypeInv, CpInv, Job
    <3>2. Opened \in Blocks
      BY <1>1, <2>2, <3>1, BlocksFacts DEF Opened, Entries
    <3> QED BY <1>2, <2>2, <3>2, EntryAssumption
  <2> QED BY <1>5, <2>1, <2>2 DEF Open, Stop
<1>6. CASE Copy
  BY <1>2, <1>3, <1>6, CopyCases, EntryAssumption
<1>7. CASE EndOfDir \/ Check \/ Close \/ Start \/ Fork \/ WalkerEnds \/ UNCHANGED vars
  BY <1>3, <1>7 DEF EndOfDir, Check, Close, Start, Fork, WalkerEnds, vars, Stop
<1> QED BY <1>4, <1>5, <1>6, <1>7 DEF Next, RunningCp, CpStep

(* Each file once *)

\* With both programs where they are looked for and nothing overlapping.
Walk == started = "multhread_cp" /\ installed = {"cp", "multhread_cp"} /\ ~Overlap

\* A walker will still come to p; it has gone on towards d.
Awaits(v, p) == Below(v.dir, p) /\ NextName(v.dir, p) \notin v.seen
Passed(v, d) == Below(v.dir, d) /\ NextName(v.dir, d) \in v.seen
Ahead(w, p) == \E i \in 1..Len(w) : Awaits(w[i], p)

\* A walker is in a directory of the source that no dot hides, and will not miss an
\* entry of it.
WalkerOK(v) ==
  /\ IsPrefix(start.src, v.dir)
  /\ \A k \in Len(start.src) + 1..Len(v.dir) : v.dir[k] \notin Hidden
  /\ VisibleIn(start.tree, v.dir) \subseteq v.must

\* Each walker is where all the ones before it have already gone.
ChainOK(w) ==
  /\ \A i \in 1..Len(w) : WalkerOK(w[i])
  /\ \A i, j \in 1..Len(w) : i < j => Passed(w[i], w[j].dir)

Begun == ~(pc = "idle" /\ walkers = <<>>)

\* The files that are to be copied, and how often each has been given to cp.
Sought == VisibleFiles(start.tree, start.src)
Count(w, c) == \A p \in Path : c[p] = IF p \in Sought /\ ~Ahead(w, p) THEN 1 ELSE 0

OnceInv ==
  Walk => /\ ChainOK(walkers)
          /\ IF Begun THEN Count(walkers, copies) ELSE \A p \in Path : copies[p] = 0

LEMMA AheadAppend ==
  ASSUME NEW w \in Seq(WalkerType), NEW v \in WalkerType, NEW p
  PROVE  Ahead(Append(w, v), p) <=> Ahead(w, p) \/ Awaits(v, p)
<1> DEFINE u == Append(w, v)
<1>1. /\ Len(w) \in Nat /\ Len(u) = Len(w) + 1 /\ u[Len(w) + 1] = v
      /\ \A i \in 1..Len(w) : u[i] = w[i]
  BY AppendFacts
<1> HIDE DEF u
<1>2. \A i \in 1..Len(u) : i \in 1..Len(w) \/ i = Len(w) + 1
  BY <1>1
<1>3. (\A i \in 1..Len(w) : i \in 1..Len(u)) /\ Len(w) + 1 \in 1..Len(u)
  BY <1>1
<1>4. Ahead(u, p) <=> Ahead(w, p) \/ Awaits(v, p)
  BY <1>1, <1>2, <1>3 DEF Ahead
<1> QED BY <1>4 DEF u

LEMMA ChainAppend ==
  ASSUME NEW w \in Seq(WalkerType), NEW v \in WalkerType
  PROVE  ChainOK(Append(w, v)) <=> /\ ChainOK(w) /\ WalkerOK(v)
                                   /\ \A i \in 1..Len(w) : Passed(w[i], v.dir)
<1> DEFINE u == Append(w, v)
<1>1. PICK k \in Nat : /\ k = Len(w) /\ Len(u) = k + 1 /\ u[k + 1] = v
                       /\ \A i \in 1..k : u[i] = w[i]
  BY AppendFacts
<1> HIDE DEF u
<1>2. \A i \in 1..k + 1 : i \in 1..k \/ i = k + 1
  BY <1>1
<1>3. (\A i \in 1..k : i \in 1..k + 1 /\ i < k + 1) /\ k + 1 \in 1..k + 1
  BY <1>1
<1>4. ASSUME ChainOK(u)
      PROVE  ChainOK(w) /\ WalkerOK(v) /\ \A i \in 1..Len(w) : Passed(w[i], v.dir)
  BY <1>1, <1>3, <1>4 DEF ChainOK
<1>5. ASSUME ChainOK(w), WalkerOK(v), \A i \in 1..Len(w) : Passed(w[i], v.dir)
      PROVE  ChainOK(u)
  <2>1. \A i \in 1..k + 1 : WalkerOK(u[i])
    BY <1>1, <1>2, <1>5 DEF ChainOK
  <2>2. ASSUME NEW i \in 1..k + 1, NEW j \in 1..k + 1, i < j PROVE Passed(u[i], u[j].dir)
    <3>1. i \in 1..k
      BY <1>1, <2>2
    <3>2. CASE j \in 1..k
      BY <1>1, <1>5, <2>2, <3>1, <3>2 DEF ChainOK
    <3>3. CASE j = k + 1
      BY <1>1, <1>5, <2>2, <3>1, <3>3
    <3> QED BY <1>2, <3>2, <3>3
  <2> QED BY <1>1, <2>1, <2>2 DEF ChainOK
<1>6. ChainOK(u) <=> ChainOK(w) /\ WalkerOK(v) /\ \A i \in 1..Len(w) : Passed(w[i], v.dir)
  BY <1>4, <1>5
<1> QED BY <1>6 DEF u

\* The walkers are those before the running one, and that one.
LEMMA FrontRunning ==
  ASSUME TypeInv, walkers # <<>>
  PROVE  /\ Front(walkers) \in Seq(WalkerType) /\ Running \in WalkerType
         /\ walkers = Append(Front(walkers), Running)
<1>1. walkers \in Seq(WalkerType)
  BY DEF TypeInv, WalkInv
<1> QED BY <1>1, FrontLast, FrontAppend DEF Running

\* Going on below does not change what the next step is.
LEMMA SameWay ==
  ASSUME NEW q \in Path, NEW r \in Path, NEW p \in Path, Below(q, r), IsPrefix(r, p)
  PROVE  Below(q, p) /\ NextName(q, p) = NextName(q, r)
<1>1. Len(q) \in Nat /\ Len(r) \in Nat /\ Len(q) < Len(r)
  BY PathSeq, TowardsBelow
<1>2. IsPrefix(q, p)
  BY PrefixOrder DEF Below
<1>3. q # p
  BY PrefixOrder DEF Below
<1>4. Len(q) + 1 \in 1..Len(r)
  BY <1>1
<1>5. r[Len(q) + 1] = p[Len(q) + 1]
  BY <1>4, PrefixIff
<1> QED BY <1>2, <1>3, <1>5 DEF Below, NextName

\* A walker that has seen all it must awaits no file.
LEMMA NothingMissed ==
  ASSUME TypeInv, NEW v \in WalkerType, WalkerOK(v), v.must \subseteq v.seen,
         NEW p \in VisibleFiles(start.tree, start.src)
  PROVE  ~Awaits(v, p)
<1>1. v.dir \in Path /\ IsTree(start.tree) /\ start.src \in Path
  BY DEF WalkerType, TypeInv, WalkInv
<1> SUFFICES ASSUME Awaits(v, p) PROVE FALSE
  OBVIOUS
<1>2. NextName(v.dir, p) \in VisibleIn(start.tree, v.dir)
  BY <1>1, WayToFile DEF Awaits, WalkerOK
<1> QED BY <1>2 DEF Awaits, WalkerOK

\* Once an entry is read, its walker awaits what it awaited that is not the entry or
\* below it.
LEMMA AwaitsEntered ==
  ASSUME TypeInv, walkers # <<>>, NEW n \in Name, NEW q \in Path, q = Append(Running.dir, n),
         NEW p \in Path
  PROVE  Awaits(Entered(n), p) <=> Awaits(Running, p) /\ ~IsPrefix(q, p)
<1>1. Running \in WalkerType /\ Running.dir \in Path
  BY FrontRunning DEF WalkerType
<1>2. Entered(n).dir = Running.dir /\ Entered(n).seen = Running.seen \cup {n}
  BY <1>1 DEF Entered, WalkerType
<1>3. IsPrefix(q, p) => NextName(Running.dir, p) = n
  BY <1>1, BelowEntry
<1>4. Below(Running.dir, p) /\ NextName(Running.dir, p) = n => IsPrefix(q, p)
  BY <1>1, TowardsBelow
<1> QED BY <1>2, <1>3, <1>4 DEF Awaits

LEMMA InitOnce == Init => OnceInv
<1> SUFFICES ASSUME Init, Walk PROVE ChainOK(walkers) /\ ~Begun /\ \A p \in Path : copies[p] = 0
  BY DEF OnceInv
<1>1. walkers = <<>> /\ pc = "idle" /\ \A p \in Path : copies[p] = 0
  BY DEF Init, Walk
<1>2. ChainOK(walkers)
  BY <1>1, EmptySeq DEF ChainOK
<1> QED BY <1>1, <1>2 DEF Begun

LEMMA OnceFrom ==
  ASSUME UNCHANGED <<start, started, installed>>,
         Walk => ChainOK(walkers') /\ Begun' /\ Count(walkers', copies')
  PROVE  OnceInv'
<1>1. Walk' <=> Walk
  BY DEF Walk, Overlap
<1>2. ChainOK(walkers)' <=> ChainOK(walkers')
  BY DEF ChainOK, WalkerOK
<1>3. Count(walkers, copies)' <=> Count(walkers', copies')
  BY DEF Count, Sought
<1> QED BY <1>1, <1>2, <1>3 DEF OnceInv

\* A single walker, as main starts it.
LEMMA OneWalker ==
  ASSUME NEW v, NEW w, w = <<v>>
  PROVE  /\ ChainOK(w) <=> WalkerOK(v)
         /\ \A p : Ahead(w, p) <=> Awaits(v, p)
<1>1. Len(w) = 1 /\ w[1] = v /\ \A i : i \in 1..1 <=> i = 1
  OBVIOUS
<1> QED BY <1>1 DEF ChainOK, Ahead

LEMMA StartOnce ==
  ASSUME TypeInv, SourceInv, OnceInv, Walk, Start
  PROVE  ChainOK(walkers') /\ Begun' /\ Count(walkers', copies')
<1> DEFINE s == start.src
<1>1. /\ walkers = <<>> /\ pc = "idle" /\ args.src = s /\ s \in Path /\ ~Overlap
      /\ "cp" \in installed /\ IsTree(start.tree)
  BY DEF Start, SourceInv, TypeInv, WalkInv, Walk
<1>2. IsPrefix(s, s)
  BY <1>1, PrefixOrder
<1>3. Visible(s) = VisibleIn(start.tree, s) /\ tree[s] = start.tree[s]
  BY <1>1, <1>2, SourceSeen
<1>4. ~Begun /\ (\A p \in Path : copies[p] = 0) /\ copies \in [Path -> Nat]
  BY <1>1 DEF OnceInv, Begun, TypeInv, WalkInv
<1>5. start.tree[s] # Dir => \A p \in Sought : p = s
  BY <1>1, FileAlone DEF Sought
<1>6. \A k : k \notin Len(s) + 1..Len(s)
  <2>1. Len(s) \in Nat
    BY <1>1, PathSeq
  <2> QED BY <2>1
<1>7. ASSUME walkers' = <<>> PROVE ChainOK(walkers') /\ \A p : ~Ahead(walkers', p)
  BY <1>7, EmptySeq DEF ChainOK, Ahead
<1>8. CASE tree[s] = Dir
  <2>1. walkers' = <<Walker(s)>> /\ copies' = copies
    BY <1>1, <1>8 DEF Start
  <2>2. WalkerOK(Walker(s))
    BY <1>2, <1>3, <1>6 DEF WalkerOK, Walker
  <2>3. \A p \in Sought : Awaits(Walker(s), p)
    BY <1>3, <1>8 DEF Awaits, Below, Walker, Sought, VisibleFiles
  <2>4. ChainOK(walkers') /\ \A p \in Sought : Ahead(walkers', p)
    BY <2>1, <2>2, <2>3, OneWalker
  <2>5. walkers' # <<>>
    BY <2>1
  <2> QED BY <1>4, <2>1, <2>4, <2>5 DEF Begun, Count
<1>9. CASE IsFile(s)
  <2>1. walkers' = <<>> /\ RunCp(s)
    BY <1>1, <1>9 DEF Start, IsFile
  <2>2. pc' = "main" /\ copies' = [copies EXCEPT ![s] = @ + 1]
    BY <2>1 DEF RunCp
  <2>3. s \in Sought
    BY <1>1, <1>2, <1>3, <1>6, <1>9 DEF Sought, VisibleFiles, IsFile
  <2>4. \A p \in Path : copies'[p] = IF p = s THEN 1 ELSE 0
    BY <1>1, <1>4, <2>2
  <2>5. start.tree[s] # Dir
    BY <1>3, <1>9 DEF IsFile
  <2>6. \A p \in Path : p \in Sought /\ ~Ahead(walkers', p) <=> p = s
    BY <1>5, <1>7, <2>1, <2>3, <2>5
  <2>7. Begun'
    BY <2>2 DEF Begun
  <2> QED BY <1>7, <2>1, <2>4, <2>6, <2>7 DEF Count
<1>10. CASE tree[s] # Dir /\ ~IsFile(s)
  <2>1. walkers' = <<>> /\ pc' = "finished" /\ copies' = copies
    BY <1>1, <1>10 DEF Start
  <2>2. tree[s] = NoEntry
    BY <1>10 DEF IsFile
  <2>3. \A p \in Path : p \notin Sought
    BY <1>3, <1>5, <1>10, <2>2 DEF Sought, VisibleFiles
  <2>4. Begun'
    BY <2>1 DEF Begun
  <2> QED BY <1>4, <1>7, <2>1, <2>3, <2>4 DEF Count
<1> QED BY <1>8, <1>9, <1>10

\* When a walker reads its next entry, those before it have passed that entry too, and
\* only what is at the entry or below it is awaited no longer.
LEMMA RestOnce ==
  ASSUME TypeInv, walkers # <<>>, ChainOK(walkers), NEW n \in Name, n \notin Hidden,
         n \notin Running.seen, NEW q \in Path, q = Append(Running.dir, n)
  PROVE  /\ ChainOK(Rest(n)) /\ IsPrefix(start.src, q)
         /\ \A k \in Len(start.src) + 1..Len(q) : q[k] \notin Hidden
         /\ \A i \in 1..Len(Rest(n)) : Passed(Rest(n)[i], q)
         /\ \A p \in Path : IF IsPrefix(q, p) THEN Ahead(walkers, p) /\ ~Ahead(Rest(n), p)
                            ELSE Ahead(Rest(n), p) <=> Ahead(walkers, p)
<1> DEFINE before == Front(walkers)
<1>1. /\ before \in Seq(WalkerType) /\ Running \in WalkerType /\ Running.dir \in Path
      /\ walkers = Append(before, Running)
  BY FrontRunning DEF WalkerType
<1>2. Entered(n) \in WalkerType /\ Rest(n) = Append(before, Entered(n)) /\ Rest(n) \in Seq(WalkerType)
  BY RestFacts DEF Rest
<1>3. /\ Entered(n).dir = Running.dir /\ Entered(n).must = Running.must
      /\ Entered(n).seen = Running.seen \cup {n}
  BY <1>1 DEF Entered, WalkerType
<1>4. start.src \in Path
  BY DEF TypeInv, WalkInv
<1> HIDE DEF before
<1>5. \A i \in 1..Len(before) : before[i] \in WalkerType /\ before[i].dir \in Path
  <2>1. \A i \in 1..Len(before) : before[i] \in WalkerType
    BY <1>1, ElementOfSeq
  <2> QED BY <2>1 DEF WalkerType
<1>6. /\ ChainOK(before) /\ WalkerOK(Running)
      /\ \A i \in 1..Len(before) : Passed(before[i], Running.dir)
  BY <1>1, ChainAppend
<1>7. WalkerOK(Entered(n))
  BY <1>3, <1>6 DEF WalkerOK
<1>8. \A i \in 1..Len(before) : Passed(before[i], Entered(n).dir)
  BY <1>3, <1>6
<1>9. ChainOK(Rest(n))
  BY <1>1, <1>2, <1>6, <1>7, <1>8, ChainAppend
<1>10. IsPrefix(Running.dir, q) /\ IsPrefix(start.src, q)
  BY <1>1, <1>4, <1>6, AppendPath, PrefixAppend DEF WalkerOK
<1>11. \A k \in Len(start.src) + 1..Len(q) : q[k] \notin Hidden
  <2>1. /\ Len(q) = Len(Running.dir) + 1 /\ q[Len(Running.dir) + 1] = n
        /\ \A k \in 1..Len(Running.dir) : q[k] = Running.dir[k]
        /\ Len(Running.dir) \in Nat /\ Len(start.src) \in Nat
    BY <1>1, <1>4, AppendPath, PathSeq
  <2> SUFFICES ASSUME NEW k \in Len(start.src) + 1..Len(q) PROVE q[k] \notin Hidden
    OBVIOUS
  <2>2. CASE k = Len(Running.dir) + 1
    BY <2>1, <2>2
  <2>3. CASE k # Len(Running.dir) + 1
    <3>1. k \in 1..Len(Running.dir) /\ k \in Len(start.src) + 1..Len(Running.dir)
      BY <2>1, <2>3
    <3> QED BY <1>6, <2>1, <3>1 DEF WalkerOK
  <2> QED BY <2>2, <2>3
<1>12. ASSUME NEW i \in 1..Len(before) PROVE Passed(before[i], q)
  <2>1. Below(before[i].dir, Running.dir) /\ NextName(before[i].dir, Running.dir) \in before[i].seen
    BY <1>6 DEF Passed
  <2>2. Below(before[i].dir, q) /\ NextName(before[i].dir, q) = NextName(before[i].dir, Running.dir)
    BY <1>1, <1>5, <1>10, <2>1, SameWay
  <2> QED BY <2>1, <2>2 DEF Passed
<1>13. Passed(Entered(n), q)
  <2>1. IsPrefix(q, q)
    BY PrefixOrder
  <2>2. Below(Running.dir, q) /\ NextName(Running.dir, q) = n
    BY <1>1, <2>1, BelowEntry
  <2> QED BY <1>3, <2>2 DEF Passed
<1>14. \A i \in 1..Len(Rest(n)) : Passed(Rest(n)[i], q)
  <2>1. /\ Len(before) \in Nat /\ Len(Rest(n)) = Len(before) + 1 /\ Rest(n)[Len(before) + 1] = Entered(n)
        /\ \A i \in 1..Len(before) : Rest(n)[i] = before[i]
    BY <1>1, <1>2, AppendFacts
  <2>2. \A i \in 1..Len(Rest(n)) : i \in 1..Len(before) \/ i = Len(before) + 1
    BY <2>1
  <2> QED BY <1>12, <1>13, <2>1, <2>2
<1>15. ASSUME NEW p \in Path
       PROVE  IF IsPrefix(q, p) THEN Ahead(walkers, p) /\ ~Ahead(Rest(n), p)
              ELSE Ahead(Rest(n), p) <=> Ahead(walkers, p)
  <2>1. Ahead(walkers, p) <=> Ahead(before, p) \/ Awaits(Running, p)
    BY <1>1, AheadAppend
  <2>2. Ahead(Rest(n), p) <=> Ahead(before, p) \/ Awaits(Entered(n), p)
    BY <1>1, <1>2, AheadAppend
  <2>3. Awaits(Entered(n), p) <=> Awaits(Running, p) /\ ~IsPrefix(q, p)
    BY AwaitsEntered
  <2>4. ASSUME IsPrefix(q, p) PROVE ~Ahead(before, p) /\ Awaits(Running, p)
    <3>1. ASSUME NEW i \in 1..Len(before) PROVE ~Awaits(before[i], p)
      <4>1. Below(before[i].dir, q) /\ NextName(before[i].dir, q) \in before[i].seen
        BY <1>12 DEF Passed
      <4>2. NextName(before[i].dir, p) = NextName(before[i].dir, q)
        BY <1>5, <2>4, <4>1, SameWay
      <4> QED BY <4>1, <4>2 DEF Awaits
    <3>2. Below(Running.dir, p) /\ NextName(Running.dir, p) = n
      BY <1>1, <2>4, BelowEntry
    <3> QED BY <3>1, <3>2 DEF Ahead, Awaits
  <2> QED BY <2>1, <2>2, <2>3, <2>4
<1> QED BY <1>9, <1>10, <1>11, <1>14, <1>15

LEMMA ForkOnce ==
  ASSUME TypeInv, SourceInv, OnceInv, Walk, Fork
  PROVE  ChainOK(walkers') /\ Begun' /\ Count(walkers', copies')
<1>1. /\ walkers # <<>> /\ ~Overlap /\ start.src \in Path /\ IsTree(start.tree)
      /\ "cp" \in installed /\ "multhread_cp" \in installed /\ copies \in [Path -> Nat]
  BY ForkCases DEF Walk, TypeInv, WalkInv
<1>2. ChainOK(walkers) /\ Count(walkers, copies)
  BY <1>1 DEF OnceInv, Begun
<1>3. PICK n \in Visible(Running.dir) \ Running.seen :
        /\ n \in Name /\ Append(Running.dir, n) \in Path
        /\ \/ /\ tree[Append(Running.dir, n)] = Dir /\ UNCHANGED copies
              /\ walkers' = Append(Rest(n), Walker(Append(Running.dir, n)))
           \/ /\ tree[Append(Running.dir, n)] # Dir
              /\ walkers' = Rest(n) /\ RunCp(Append(Running.dir, n))
  BY <1>1, ForkCases DEF ForDirectory
<1> DEFINE q == Append(Running.dir, n)
<1>4. q \in Path /\ n \in Name /\ n \notin Hidden /\ n \notin Running.seen /\ tree[q] # NoEntry
  BY <1>3 DEF Visible
<1>5. /\ \/ tree[q] = Dir /\ UNCHANGED copies /\ walkers' = Append(Rest(n), Walker(q))
         \/ tree[q] # Dir /\ walkers' = Rest(n) /\ RunCp(q)
      /\ q = Append(Running.dir, n)
  BY <1>3
<1> HIDE DEF q
<1>6. /\ ChainOK(Rest(n)) /\ IsPrefix(start.src, q)
      /\ \A k \in Len(start.src) + 1..Len(q) : q[k] \notin Hidden
      /\ \A i \in 1..Len(Rest(n)) : Passed(Rest(n)[i], q)
      /\ \A p \in Path : IF IsPrefix(q, p) THEN Ahead(walkers, p) /\ ~Ahead(Rest(n), p)
                         ELSE Ahead(Rest(n), p) <=> Ahead(walkers, p)
  BY <1>1, <1>2, <1>4, <1>5, RestOnce
<1>7. Visible(q) = VisibleIn(start.tree, q) /\ tree[q] = start.tree[q]
  BY <1>1, <1>4, <1>6, SourceSeen
<1>8. Rest(n) \in Seq(WalkerType) /\ Len(Rest(n)) >= 1
  BY <1>1, <1>4, RestFacts
<1>9. CASE tree[q] = Dir /\ UNCHANGED copies /\ walkers' = Append(Rest(n), Walker(q))
  <2>1. WalkerOK(Walker(q)) /\ Walker(q) \in WalkerType /\ Walker(q).dir = q /\ Walker(q).seen = {}
    BY <1>4, <1>6, <1>7, WalkerTyped DEF WalkerOK, Walker
  <2>2. ChainOK(walkers')
    BY <1>6, <1>8, <1>9, <2>1, ChainAppend
  <2>3. Begun'
    BY <1>8, <1>9, <2>1, AppendFacts DEF Begun
  <2>4. ASSUME NEW p \in Sought PROVE Ahead(walkers', p) <=> Ahead(walkers, p)
    <3>1. p \in Path /\ p # q
      BY <1>7, <1>9 DEF Sought, VisibleFiles
    <3>2. Ahead(walkers', p) <=> Ahead(Rest(n), p) \/ Awaits(Walker(q), p)
      BY <1>8, <1>9, <2>1, AheadAppend
    <3>3. Awaits(Walker(q), p) <=> IsPrefix(q, p)
      BY <2>1, <3>1 DEF Awaits, Below
    <3> QED BY <1>6, <3>1, <3>2, <3>3
  <2>5. Count(walkers', copies')
    BY <1>2, <1>9, <2>4 DEF Count
  <2> QED BY <2>2, <2>3, <2>5
<1>10. CASE tree[q] # Dir /\ walkers' = Rest(n) /\ RunCp(q)
  <2>1. pc' = "main" /\ copies' = [copies EXCEPT ![q] = @ + 1]
    BY <1>10 DEF RunCp
  <2>2. q \in Sought /\ \A p \in Sought : p \in Path /\ (IsPrefix(q, p) => p = q)
    BY <1>1, <1>4, <1>6, <1>7, <1>10 DEF Sought, VisibleFiles, IsTree
  <2>3. IsPrefix(q, q)
    BY <1>4, PrefixOrder
  <2>4. copies[q] = 0
    BY <1>2, <1>4, <1>6, <2>3 DEF Count
  <2>5. copies'[q] = 1 /\ ~Ahead(walkers', q)
    BY <1>1, <1>4, <1>6, <1>10, <2>1, <2>3, <2>4
  <2>6. ASSUME NEW p \in Path, p # q
        PROVE  copies'[p] = IF p \in Sought /\ ~Ahead(walkers', p) THEN 1 ELSE 0
    <3>1. copies'[p] = copies[p]
      BY <1>1, <1>4, <2>1, <2>6
    <3>2. p \in Sought => (Ahead(walkers', p) <=> Ahead(walkers, p))
      BY <1>6, <1>10, <2>2, <2>6
    <3> QED BY <1>2, <3>1, <3>2 DEF Count
  <2>7. Count(walkers', copies')
    BY <2>2, <2>5, <2>6 DEF Count
  <2> QED BY <1>6, <1>10, <2>1, <2>7 DEF Begun
<1> QED BY <1>5, <1>9, <1>10

LEMMA WalkerEndsOnce ==
  ASSUME TypeInv, OnceInv, Walk, WalkerEnds
  PROVE  ChainOK(walkers') /\ Begun' /\ Count(walkers', copies')
<1>1. /\ walkers # <<>> /\ walkers' = Front(walkers) /\ UNCHANGED copies
      /\ Running.must \subseteq Running.seen
      /\ Len(walkers) = 1 => pc' = "finished"
  BY DEF WalkerEnds
<1>2. ChainOK(walkers) /\ Count(walkers, copies)
  BY <1>1 DEF OnceInv, Begun
<1> DEFINE before == Front(walkers)
<1>3. /\ before \in Seq(WalkerType) /\ Running \in WalkerType /\ walkers = Append(before, Running)
      /\ walkers' = before
  BY <1>1, FrontRunning
<1>4. Begun'
  <2>1. Len(walkers) \in Nat /\ Len(walkers) >= 1 /\ Len(before) = Len(walkers) - 1
    BY <1>1, FrontLast DEF TypeInv, WalkInv
  <2>2. CASE Len(walkers) = 1
    BY <1>1, <2>2 DEF Begun
  <2>3. CASE Len(walkers) # 1
    <3>1. before # <<>>
      BY <2>1, <2>3, EmptySeq
    <3> QED BY <1>1, <3>1 DEF Begun
  <2> QED BY <2>2, <2>3
<1> HIDE DEF before
<1>5. ChainOK(before) /\ WalkerOK(Running)
  BY <1>2, <1>3, ChainAppend
<1>6. ASSUME NEW p \in Sought PROVE Ahead(before, p) <=> Ahead(walkers, p)
  <2>1. ~Awaits(Running, p)
    BY <1>1, <1>3, <1>5, NothingMissed DEF Sought
  <2> QED BY <1>3, <2>1, AheadAppend
<1>7. Count(walkers', copies')
  BY <1>1, <1>2, <1>3, <1>6 DEF Count
<1> QED BY <1>3, <1>4, <1>5, <1>7

\* Between one file and the next, cp leaves the walkers alone.
LEMMA CpOnce ==
  ASSUME TypeInv, OnceInv, Walk, RunningCp
  PROVE  ChainOK(walkers') /\ Begun' /\ Count(walkers', copies')
<1>1. pc # "idle"
  <2>1. Main => pc = "main"
    BY DEF Main
  <2>2. Check => pc = "check"
    BY DEF Check
  <2>3. Open => pc = "open"
    BY DEF Open
  <2>4. Entry \/ EndOfDir \/ Close => pc # "idle"
    BY DEF Entry, EndOfDir, Close
  <2>5. Copy => pc = "copy"
    BY DEF Copy
  <2> QED BY <2>1, <2>2, <2>3, <2>4, <2>5 DEF RunningCp, CpStep
<1>2. UNCHANGED <<walkers, copies>> /\ pc' # "idle"
  BY CpKeepsWalkers
<1> QED BY <1>1, <1>2 DEF OnceInv, Begun

LEMMA StepKeepsOnce ==
  ASSUME TypeInv, SourceInv, OnceInv, [Next]_vars
  PROVE  OnceInv'
<1>1. UNCHANGED <<start, started, installed>>
  BY SourceStays
<1>2. CASE Next
  BY <1>1, <1>2, StartOnce, ForkOnce, WalkerEndsOnce, CpOnce, OnceFrom DEF Next
<1>3. CASE UNCHANGED vars
  <2>1. UNCHANGED <<walkers, copies, pc, start, started, installed>>
    BY <1>3 DEF vars, cpVars, walkVars
  <2> QED BY <2>1 DEF OnceInv, Walk, Overlap, ChainOK, WalkerOK, Begun, Count, Sought
<1> QED BY <1>2, <1>3

\* When multhread_cp is over, every file has been given to cp exactly once.
THEOREM EveryFileOnce == Spec => []EachFileOnce
<1>1. TypeInv /\ OnceInv => EachFileOnce
  <2> SUFFICES ASSUME TypeInv, OnceInv, Over, Walk, NEW p \in Path
               PROVE  copies[p] = IF p \in Sought THEN 1 ELSE 0
    BY DEF EachFileOnce, Walk, Sought
  <2>1. walkers = <<>> /\ Begun
    BY DEF Over, Begun
  <2>2. ~Ahead(walkers, p)
    BY <2>1, EmptySeq DEF Ahead
  <2> QED BY <2>1, <2>2 DEF OnceInv, Count
<1> QED BY <1>1, InitTypes, InitSource, InitOnce, StepKeepsTypes, SourceStays, StepKeepsOnce, PTL DEF Spec

(* Nothing left out *)

\* A copy of a directory with -r, source and destination apart.
Recursion == started = "cp" /\ args.recursive /\ start.tree[start.src] = Dir /\ ~Overlap

\* The place of p in the copy.
Image(p) == start.dst \o SubSeq(p, Len(start.src) + 1, Len(p))
Placed(p) == Image(p) \in Path /\ tree[Image(p)] # NoEntry

\* A call of DirToDir will still come to p.
Expects(f, p) == Below(f.src, p) /\ NextName(f.src, p) \notin f.seen
Expected(s, p) == \E i \in 1..Len(s) : Expects(s[i], p)

\* A call is for a directory of the source and its place, and will not miss an entry.
FrameOK(f) ==
  /\ IsPrefix(start.src, f.src) /\ f.dst = Image(f.src)
  /\ VisibleIn(start.tree, f.src) \subseteq f.must

FramesOK(s) == \A i \in 1..Len(s) : FrameOK(s[i])

PlaceInv ==
  Recursion => /\ FramesOK(frames)
               /\ pc \in InToFile => frames # <<>> /\ job.to = Image(job.from)
               /\ pc = "close" => tree[job.to] # NoEntry
               /\ pc \notin {"main", "exited", "runaway"} =>
                    \A p \in Sought : \/ Placed(p) \/ Expected(frames, p)
                                      \/ pc \in InToFile /\ job.from = p

\* What a sequence with one more element ends with.
LEMMA EndOfAppend ==
  ASSUME NEW S, NEW q \in Seq(S), NEW n \in S, NEW k \in Nat, k <= Len(q)
  PROVE  /\ SubSeq(q, k + 1, Len(q)) \in Seq(S)
         /\ SubSeq(Append(q, n), k + 1, Len(q) + 1) = SubSeq(q, k + 1, Len(q)) \o <<n>>
<1>1. PICK r : r = Append(q, n)
  OBVIOUS
<1>2. /\ Len(q) \in Nat /\ r \in Seq(S) /\ Len(r) = Len(q) + 1 /\ r[Len(q) + 1] = n
      /\ \A i \in 1..Len(q) : r[i] = q[i]
  BY <1>1, AppendFacts
<1>3. k + 1 \in 1..Len(r) /\ Len(q) + 1 \in k + 1..Len(r)
  BY <1>2
<1>4. SubSeq(r, k + 1, Len(q) + 1) = SubSeq(r, k + 1, Len(q)) \o <<r[Len(q) + 1]>>
  <2>1. PICK i \in Nat, j \in Nat : /\ i = k + 1 /\ j = Len(q) + 1 /\ j - 1 = Len(q)
                                     /\ i \in 1..Len(r) /\ j \in i..Len(r)
    BY <1>2, <1>3
  <2>2. r \in Seq(S)
    BY <1>2
  <2>3. SubSeq(r, i, j) = SubSeq(r, i, j - 1) \o <<r[j]>>
    BY <2>1, <2>2, SubSeqRecursiveSecond
  <2> QED BY <2>1, <2>3
<1>6. SubSeq(r, k + 1, Len(q)) = SubSeq(q, k + 1, Len(q))
  <2>1. CASE k = Len(q)
    <3>1. SubSeq(r, k + 1, Len(q)) = <<>> /\ SubSeq(q, k + 1, Len(q)) = <<>>
      BY <1>2, <2>1, SubSeqEmpty
    <3> QED BY <3>1
  <2>2. CASE k # Len(q)
    <3>1. r = q \o <<n>> /\ <<n>> \in Seq(S)
      BY <1>1, AppendIsConcat
    <3>2. k + 1 \in 1..Len(q) /\ Len(q) \in 1..Len(q)
      BY <1>2, <2>2
    <3> QED BY <3>1, <3>2, SubSeqOfConcat1
  <2> QED BY <2>1, <2>2
<1>7. SubSeq(q, k + 1, Len(q)) \in Seq(S)
  <2>1. \A i \in k + 1..Len(q) : q[i] \in S
    BY <1>2
  <2> QED BY <1>2, <2>1, SubSeqProperties
<1> QED BY <1>1, <1>2, <1>4, <1>6, <1>7

LEMMA ConcatAppend ==
  ASSUME NEW S, NEW a \in Seq(S), NEW b \in Seq(S), NEW n \in S
  PROVE  a \o (b \o <<n>>) = Append(a \o b, n)
<1>1. <<n>> \in Seq(S) /\ a \o b \in Seq(S)
  BY ConcatProperties
<1>2. a \o (b \o <<n>>) = (a \o b) \o <<n>>
  BY <1>1, ConcatAssociative
<1>3. (a \o b) \o <<n>> = Append(a \o b, n)
  BY <1>1, AppendIsConcat
<1> QED BY <1>2, <1>3

\* The source itself goes to the destination, and an entry of a directory to an entry of
\* the directory's place.
LEMMA ImageOfSource ==
  ASSUME TypeInv
  PROVE  Image(start.src) = start.dst
<1>1. start.src \in Path /\ start.dst \in Path
  BY DEF TypeInv, WalkInv
<1>2. start.dst \in Seq(Name) /\ Len(start.src) \in Nat
  BY <1>1, PathSeq
<1>3. SubSeq(start.src, Len(start.src) + 1, Len(start.src)) = <<>>
  BY <1>2, SubSeqEmpty
<1> QED BY <1>2, <1>3, ConcatEmptySeq DEF Image

LEMMA ImageOfEntry ==
  ASSUME TypeInv, NEW q \in Path, IsPrefix(start.src, q), NEW n, NEW r \in Path, r = Append(q, n)
  PROVE  Image(r) = Append(Image(q), n)
<1>1. start.src \in Path /\ start.dst \in Path
  BY DEF TypeInv, WalkInv
<1>2. /\ q \in Seq(Name) /\ n \in Name /\ Len(r) = Len(q) + 1 /\ start.dst \in Seq(Name)
      /\ Len(start.src) \in Nat /\ Len(start.src) <= Len(q)
  BY <1>1, AppendPath, PathSeq, PrefixIff
<1>3. PICK rest \in Seq(Name) : /\ rest = SubSeq(q, Len(start.src) + 1, Len(q))
                                /\ SubSeq(r, Len(start.src) + 1, Len(q) + 1) = rest \o <<n>>
  <2>1. PICK k \in Nat : k = Len(start.src) /\ k <= Len(q)
    BY <1>2
  <2>2. /\ SubSeq(q, k + 1, Len(q)) \in Seq(Name)
        /\ SubSeq(Append(q, n), k + 1, Len(q) + 1) = SubSeq(q, k + 1, Len(q)) \o <<n>>
    BY <1>2, <2>1, EndOfAppend
  <2> QED BY <2>1, <2>2
<1>4. Image(r) = start.dst \o (rest \o <<n>>) /\ Image(q) = start.dst \o rest
  BY <1>2, <1>3 DEF Image
<1>5. start.dst \o (rest \o <<n>>) = Append(start.dst \o rest, n)
  <2>1. start.dst \in Seq(Name) /\ n \in Name
    BY <1>2
  <2>2. ASSUME NEW d \in Seq(Name), NEW m \in Name PROVE d \o (rest \o <<m>>) = Append(d \o rest, m)
    BY ConcatAppend
  <2> QED BY <2>1, <2>2
<1> QED BY <1>4, <1>5

LEMMA FrameAppend ==
  ASSUME NEW s \in Seq(Frame), NEW f \in Frame
  PROVE  /\ FramesOK(Append(s, f)) <=> FramesOK(s) /\ FrameOK(f)
         /\ \A p : Expected(Append(s, f), p) <=> Expected(s, p) \/ Expects(f, p)
<1> DEFINE u == Append(s, f)
<1>1. PICK k \in Nat : /\ k = Len(s) /\ Len(u) = k + 1 /\ u[k + 1] = f
                       /\ \A i \in 1..k : u[i] = s[i]
  BY AppendFacts
<1> HIDE DEF u
<1>2. (\A i \in 1..k + 1 : i \in 1..k \/ i = k + 1) /\ k + 1 \in 1..k + 1 /\ \A i \in 1..k : i \in 1..k + 1
  OBVIOUS
<1>3. FramesOK(u) <=> FramesOK(s) /\ FrameOK(f)
  BY <1>1, <1>2 DEF FramesOK
<1>4. ASSUME NEW p PROVE Expected(u, p) <=> Expected(s, p) \/ Expects(f, p)
  BY <1>1, <1>2 DEF Expected
<1> QED BY <1>3, <1>4 DEF u

LEMMA NoFrames == FramesOK(<<>>) /\ \A p : ~Expected(<<>>, p)
BY DEF FramesOK, Expected

\* When a call reads its next entry, it still comes to all but what is there or below.
LEMMA EntryRead ==
  ASSUME TypeInv, pc = "walk", FramesOK(frames),
         NEW n \in Name, NEW q \in Path, q = Append(Top.src, n)
  PROVE  /\ Above(n) \in Seq(Frame) /\ Above(n) # <<>> /\ FramesOK(Above(n))
         /\ IsPrefix(start.src, q) /\ Target(n) = Image(q)
         /\ \A p \in Path : Expected(frames, p) => Expected(Above(n), p) \/ IsPrefix(q, p)
<1> DEFINE f == [Top EXCEPT !.seen = @ \cup {n}]
           before == Front(frames)
<1>1. frames \in Seq(Frame) /\ frames # <<>> /\ start.src \in Path
  BY DEF TypeInv, CpInv, WalkInv
<1>2. before \in Seq(Frame) /\ Top \in Frame /\ frames = Append(before, Top) /\ Top.src \in Path
  BY <1>1, FrontLast, FrontAppend DEF Top, Frame
<1>3. f \in Frame /\ f.src = Top.src /\ f.dst = Top.dst /\ f.must = Top.must /\ f.seen = Top.seen \cup {n}
  BY <1>2 DEF Frame
<1>4. Above(n) = Append(before, f)
  BY DEF Above
<1> HIDE DEF f, before
<1>5. FramesOK(before) /\ FrameOK(Top)
  BY <1>2, FrameAppend
<1>6. FrameOK(f)
  BY <1>3, <1>5 DEF FrameOK
<1>7. Above(n) \in Seq(Frame) /\ Above(n) # <<>> /\ FramesOK(Above(n))
  BY <1>2, <1>3, <1>4, <1>5, <1>6, FrameAppend, AppendFacts
<1>8. IsPrefix(start.src, Top.src) /\ Top.dst = Image(Top.src)
  BY <1>5 DEF FrameOK
<1>9. IsPrefix(start.src, q) /\ Target(n) = Image(q)
  <2>1. IsPrefix(start.src, q)
    BY <1>1, <1>2, <1>8, PrefixAppend
  <2>2. Image(q) = Append(Image(Top.src), n)
    BY <1>2, <1>8, ImageOfEntry
  <2> QED BY <1>8, <2>1, <2>2 DEF Target
<1>10. ASSUME NEW p \in Path, Expected(frames, p), ~IsPrefix(q, p) PROVE Expected(Above(n), p)
  <2>1. Expected(before, p) \/ Expects(Top, p)
    BY <1>2, <1>10, FrameAppend
  <2>2. Expects(Top, p) => Expects(f, p)
    <3>1. Below(Top.src, p) => NextName(Top.src, p) # n
      BY <1>2, <1>10, TowardsBelow
    <3> QED BY <1>3, <3>1 DEF Expects
  <2> QED BY <1>2, <1>3, <1>4, <2>1, <2>2, FrameAppend
<1> QED BY <1>7, <1>9, <1>10

\* What a step of cp has to see to.
PlaceNext ==
  /\ FramesOK(frames')
  /\ pc' \in InToFile => frames' # <<>> /\ job'.to = Image(job'.from)
  /\ pc' = "close" => tree'[job'.to] # NoEntry
  /\ pc' \notin {"main", "exited", "runaway"} =>
       \A p \in Sought : \/ Placed(p) \/ Expected(frames', p)
                         \/ pc' \in InToFile /\ job'.from = p

\* Every file is below the source, and not the source itself when that is a directory.
LEMMA SoughtFacts ==
  ASSUME TypeInv, NEW p \in Sought
  PROVE  p \in Path /\ IsPrefix(start.src, p) /\ start.tree[p] # Dir
BY DEF Sought, VisibleFiles

LEMMA MainPlace ==
  ASSUME TypeInv, SourceInv, PlaceInv, Recursion, Main
  PROVE  PlaceNext
<1>1. start.src \in Path /\ start.dst \in Path /\ args.src = start.src /\ args.dst = start.dst /\ ~Overlap
  BY DEF TypeInv, WalkInv, DestinationInv, SourceInv, Recursion
<1>2. IsPrefix(start.src, start.src)
  BY <1>1, PrefixOrder
<1>3. tree[start.src] = Dir /\ Visible(start.src) = VisibleIn(start.tree, start.src)
  BY <1>1, <1>2, SourceSeen DEF Recursion
<1>4. DirToDir(start.src, start.dst, <<>>)
  BY <1>1, <1>3 DEF Main, Recursion
<1> DEFINE f == [src |-> start.src, dst |-> start.dst, seen |-> {}, must |-> Visible(start.src)]
<1>5. pc' = "walk" /\ frames' = Append(<<>>, f)
  BY <1>1, <1>4 DEF DirToDir
<1>6. f \in Frame /\ FrameOK(f) /\ f.src = start.src /\ f.seen = {}
  BY <1>1, <1>2, <1>3, ImageOfSource, NameAssumption DEF Frame, Visible, FrameOK
<1> HIDE DEF f
<1>7. <<>> \in Seq(Frame)
  BY EmptySeq
<1>8. FramesOK(frames')
  BY <1>5, <1>6, <1>7, FrameAppend, NoFrames
<1>9. ASSUME NEW p \in Sought PROVE Expected(frames', p)
  <2>1. Expects(f, p)
    BY <1>6, SoughtFacts DEF Expects, Below, Recursion
  <2> QED BY <1>5, <1>6, <1>7, <2>1, FrameAppend
<1> QED BY <1>5, <1>8, <1>9 DEF PlaceNext, InToFile

LEMMA EntryPlace ==
  ASSUME TypeInv, SourceInv, PlaceInv, Recursion, Entry
  PROVE  PlaceNext
<1>1. pc = "walk" /\ FramesOK(frames) /\ ~Overlap /\ IsTree(start.tree)
  BY DEF Entry, PlaceInv, Recursion, TypeInv, WalkInv
<1>2. \A p \in Sought : Placed(p) \/ Expected(frames, p)
  BY <1>1 DEF PlaceInv, InToFile
<1>3. PICK n \in Visible(Top.src) \ Top.seen :
        IF tree[Append(Top.src, n)] = Dir
          THEN DirToDir(Append(Top.src, n), Target(n), Above(n))
          ELSE ToFile(Append(Top.src, n), Target(n)) /\ frames' = Above(n)
  BY DEF Entry
<1>4. PICK q \in Path : /\ q = Append(Top.src, n) /\ n \in Name
                        /\ IF tree[q] = Dir THEN DirToDir(q, Target(n), Above(n))
                           ELSE ToFile(q, Target(n)) /\ frames' = Above(n)
  BY <1>3 DEF Visible
<1>5. /\ Above(n) \in Seq(Frame) /\ Above(n) # <<>> /\ FramesOK(Above(n))
      /\ IsPrefix(start.src, q) /\ Target(n) = Image(q)
      /\ \A p \in Path : Expected(frames, p) => Expected(Above(n), p) \/ IsPrefix(q, p)
  BY <1>1, <1>4, EntryRead
<1>6. Visible(q) = VisibleIn(start.tree, q) /\ tree[q] = start.tree[q]
  BY <1>1, <1>5, SourceSeen
<1>7. \A p \in Sought : Placed(p) \/ Expected(Above(n), p) \/ IsPrefix(q, p)
  BY <1>2, <1>5, SoughtFacts
<1>8. CASE tree[q] = Dir
  <2> DEFINE f == [src |-> q, dst |-> Image(q), seen |-> {}, must |-> Visible(q)]
  <2>1. DirToDir(q, Image(q), Above(n))
    BY <1>4, <1>5, <1>8
  <2>2. CASE Image(q) \in Path
    <3>1. pc' = "walk" /\ frames' = Append(Above(n), f)
      BY <2>1, <2>2 DEF DirToDir
    <3>2. f \in Frame /\ FrameOK(f) /\ f.src = q /\ f.seen = {}
      BY <1>5, <1>6, <2>2, NameAssumption DEF Frame, Visible, FrameOK
    <3> HIDE DEF f
    <3>3. FramesOK(frames')
      BY <1>5, <3>1, <3>2, FrameAppend
    <3>4. ASSUME NEW p \in Sought PROVE Placed(p) \/ Expected(frames', p)
      <4>1. IsPrefix(q, p) => Expects(f, p)
        BY <1>6, <1>8, <3>2, SoughtFacts DEF Expects, Below
      <4> QED BY <1>5, <1>7, <3>1, <3>2, <4>1, FrameAppend
    <3> QED BY <3>1, <3>3, <3>4 DEF PlaceNext, InToFile
  <2>3. CASE Image(q) \notin Path
    <3>1. pc' = "runaway" /\ frames' = frames
      BY <2>1, <2>3 DEF DirToDir
    <3> QED BY <1>1, <3>1 DEF PlaceNext, InToFile
  <2> QED BY <2>2, <2>3
<1>9. CASE tree[q] # Dir
  <2>1. ToFile(q, Image(q)) /\ frames' = Above(n)
    BY <1>4, <1>5, <1>9
  <2>2. CASE Image(q) \in Path
    <3>1. pc' = "check" /\ job'.from = q /\ job'.to = Image(q)
      BY <2>1, <2>2 DEF ToFile, NoJob
    <3>2. ASSUME NEW p \in Sought, IsPrefix(q, p) PROVE p = q
      BY <1>1, <1>6, <1>9, <3>2, SoughtFacts DEF IsTree, Sought, VisibleFiles
    <3> QED BY <1>5, <1>7, <2>1, <3>1, <3>2 DEF PlaceNext, InToFile
  <2>3. CASE Image(q) \notin Path
    <3>1. pc' = "runaway"
      BY <2>1, <2>3 DEF ToFile
    <3> QED BY <1>5, <2>1, <3>1 DEF PlaceNext, InToFile
  <2> QED BY <2>2, <2>3
<1> QED BY <1>8, <1>9

LEMMA EndOfDirPlace ==
  ASSUME TypeInv, PlaceInv, Recursion, EndOfDir
  PROVE  PlaceNext
<1>1. /\ pc = "walk" /\ FramesOK(frames) /\ IsTree(start.tree) /\ start.src \in Path
      /\ Top.must \subseteq Top.seen /\ frames' = Front(frames) /\ pc' \in {"finished", "walk"}
  BY DEF EndOfDir, PlaceInv, TypeInv, WalkInv
<1>2. \A p \in Sought : Placed(p) \/ Expected(frames, p)
  BY <1>1 DEF PlaceInv, InToFile
<1>3. frames \in Seq(Frame) /\ frames # <<>>
  BY <1>1 DEF TypeInv, CpInv
<1>4. frames' \in Seq(Frame) /\ Top \in Frame /\ frames = Append(frames', Top) /\ Top.src \in Path
  BY <1>1, <1>3, FrontLast, FrontAppend DEF Top, Frame
<1>5. FramesOK(frames') /\ FrameOK(Top)
  BY <1>1, <1>4, FrameAppend
<1>6. ASSUME NEW p \in Sought PROVE ~Expects(Top, p)
  <2> SUFFICES ASSUME Expects(Top, p) PROVE FALSE
    OBVIOUS
  <2>1. NextName(Top.src, p) \in VisibleIn(start.tree, Top.src)
    BY <1>1, <1>4, <1>5, WayToFile DEF Expects, FrameOK, Sought
  <2> QED BY <1>1, <1>5, <2>1 DEF Expects, FrameOK
<1>7. \A p \in Sought : Placed(p) \/ Expected(frames', p)
  BY <1>2, <1>4, <1>6, FrameAppend
<1> QED BY <1>1, <1>5, <1>7 DEF PlaceNext, InToFile

\* Inside ToFile, and back in the loop over the directory.
LEMMA ToFilePlace ==
  ASSUME TypeInv, ContentInv, PlaceInv, Recursion, Check \/ Open \/ Copy \/ Close
  PROVE  PlaceNext
<1>1. /\ pc \in InToFile /\ FramesOK(frames) /\ frames # <<>> /\ job.to = Image(job.from)
      /\ job.from \in Path /\ job.to \in Path
      /\ \A p \in Sought : Placed(p) \/ Expected(frames, p) \/ job.from = p
  <2>1. pc \in InToFile
    BY DEF Check, Open, Copy, Close, InToFile
  <2> QED BY <2>1 DEF PlaceInv, InToFile, TypeInv, CpInv, Job
<1>2. ASSUME UNCHANGED frames, job'.from = job.from, job'.to = job.to, pc' \in InToFile \cup {"exited", "runaway"},
             pc' = "close" => tree'[job.to] # NoEntry
      PROVE  PlaceNext
  BY <1>1, <1>2 DEF PlaceNext, InToFile
<1>3. CASE Check
  <2>1. UNCHANGED <<frames, tree>>
    BY <1>3 DEF Check, Stop
  <2>2. CASE pc' = "exited" /\ job' = job
    BY <1>2, <2>1, <2>2
  <2>3. ASSUME NEW mode \in {"plain", "cover", "cat", "drop"},
               job' = [job EXCEPT !.mode = mode, !.before = tree[job.to]],
               pc' = IF mode = "drop" THEN "close" ELSE "open",
               tree[job.to] = NoEntry => mode = "plain"
        PROVE  PlaceNext
    <3>1. job'.from = job.from /\ job'.to = job.to
      BY <2>3 DEF TypeInv, CpInv, Job
    <3>2. pc' \in InToFile
      BY <2>3 DEF InToFile
    <3>3. pc' = "close" => tree'[job.to] # NoEntry
      BY <2>1, <2>3
    <3> QED BY <1>2, <2>1, <3>1, <3>2, <3>3
  <2>4. \/ pc' = "exited" /\ job' = job
        \/ \E mode \in {"plain", "cover", "cat", "drop"} :
             /\ job' = [job EXCEPT !.mode = mode, !.before = tree[job.to]]
             /\ pc' = IF mode = "drop" THEN "close" ELSE "open"
             /\ tree[job.to] = NoEntry => mode = "plain"
    BY <1>3 DEF Check, Stop
  <2> QED BY <2>2, <2>3, <2>4
<1>4. CASE Open
  <2>1. pc = "open" /\ UNCHANGED <<frames, job>>
    BY <1>4 DEF Open, Stop
  <2>2. CASE tree[job.to] = Dir \/ ~InDirectory(job.to)
    <3>1. pc' = (IF job.mode = "plain" THEN "exited" ELSE "close") /\ UNCHANGED tree
      BY <1>4, <2>2 DEF Open, Stop
    <3>2. job.mode # "plain" => tree[job.to] # NoEntry
      BY <2>1 DEF ContentInv
    <3> QED BY <1>2, <2>1, <3>1, <3>2 DEF InToFile
  <2>3. CASE tree[job.to] # Dir /\ InDirectory(job.to)
    <3>1. pc' = "copy"
      BY <1>4, <2>3 DEF Open
    <3> QED BY <1>2, <2>1, <3>1 DEF InToFile
  <2> QED BY <2>2, <2>3
<1>5. CASE Copy
  <2>1. /\ UNCHANGED <<frames, job>> /\ pc = "copy" /\ tree[job.to] \in Blocks
        /\ (pc' \in {"close", "runaway"} /\ UNCHANGED tree) \/ pc' = pc
    BY <1>5, CopyCases
  <2>2. tree[job.to] # NoEntry
    BY <2>1, EntryAssumption
  <2> QED BY <1>2, <2>1, <2>2 DEF InToFile
<1>6. CASE Close
  <2>1. pc = "close" /\ pc' = "walk" /\ UNCHANGED frames
    BY <1>1, <1>6 DEF Close, Returned
  <2>2. Placed(job.from)
    BY <1>1, <2>1 DEF PlaceInv, Placed
  <2>3. \A p \in Sought : Placed(p) \/ Expected(frames', p)
    BY <1>1, <2>1, <2>2
  <2> QED BY <1>1, <2>1, <2>3 DEF PlaceNext, InToFile
<1> QED BY <1>3, <1>4, <1>5, <1>6

LEMMA PlaceFrom ==
  ASSUME TypeInv, [Next]_vars, start' = start, Recursion', PlaceNext
  PROVE  PlaceInv'
<1>1. \A p : Image(p)' = Image(p)
  BY DEF Image
<1>2. FramesOK(frames)'
  BY <1>1 DEF PlaceNext, FramesOK, FrameOK
<1>3. \A p : Placed(p) => Placed(p)'
  BY <1>1, NothingRemoved DEF Placed
<1>4. Sought' = Sought /\ \A p : Expected(frames, p)' <=> Expected(frames', p)
  BY DEF Sought, Expected
<1>5. pc' \notin {"main", "exited", "runaway"} =>
        \A p \in Sought : Placed(p)' \/ Expected(frames', p) \/ (pc' \in InToFile /\ job'.from = p)
  BY <1>3 DEF PlaceNext
<1>6. (pc \in InToFile => frames # <<>> /\ job.to = Image(job.from))'
  BY DEF PlaceNext, Image, InToFile
<1>7. (pc = "close" => tree[job.to] # NoEntry)'
  BY DEF PlaceNext
<1>8. (pc \notin {"main", "exited", "runaway"} =>
        \A p \in Sought : Placed(p) \/ Expected(frames, p) \/ (pc \in InToFile /\ job.from = p))'
  BY <1>4, <1>5 DEF InToFile
<1> QED BY <1>2, <1>6, <1>7, <1>8 DEF PlaceInv

LEMMA StepKeepsPlace ==
  ASSUME TypeInv, SourceInv, ContentInv, PlaceInv, [Next]_vars
  PROVE  PlaceInv'
<1>1. start' = start /\ started' = started
  BY SourceStays
<1>2. started = "cp" => RunningCp \/ UNCHANGED vars
  BY ForkCases DEF Next, Start, WalkerEnds, TypeInv, WalkInv
<1>3. Recursion' <=> Recursion
  <2>1. started = "cp" => args' = args
    BY <1>2, CpKeepsWalkers DEF vars, cpVars
  <2> QED BY <1>1, <2>1 DEF Recursion, Overlap
<1>4. CASE ~Recursion
  BY <1>3, <1>4 DEF PlaceInv
<1>5. CASE Recursion /\ RunningCp
  BY <1>1, <1>3, <1>5, MainPlace, EntryPlace, EndOfDirPlace, ToFilePlace, PlaceFrom
     DEF RunningCp, CpStep
<1>6. CASE UNCHANGED vars
  <2>1. UNCHANGED <<tree, args, pc, frames, job, start, started>>
    BY <1>6 DEF vars, cpVars
  <2> QED BY <2>1 DEF PlaceInv, Recursion, Overlap, FramesOK, FrameOK, Image, Placed, Expected, Sought
<1> QED BY <1>2, <1>4, <1>5, <1>6 DEF Recursion

LEMMA InitPlace == Init => PlaceInv
<1> SUFFICES ASSUME Init, Recursion PROVE pc = "main" /\ frames = <<>>
  BY NoFrames DEF PlaceInv, InToFile
<1> QED BY DEF Init, Recursion

LEMMA NothingIsLeftOut == TypeInv /\ PlaceInv => NothingLeftOut
<1> SUFFICES ASSUME TypeInv, PlaceInv, Over, Recursion, pc = "finished", NEW p \in Sought
             PROVE  tree[Image(p)] # NoEntry
  BY DEF NothingLeftOut, Recursion, Sought, Image
<1>1. frames = <<>>
  BY DEF TypeInv, CpInv
<1> QED BY <1>1, NoFrames DEF PlaceInv, InToFile, Placed

LEMMA TypesAreOK == TypeInv => TypeOK
<1> SUFFICES ASSUME TypeInv PROVE TypeOK
  OBVIOUS
<1>1. \A p \in Path : tree[p] \in {Dir, NoEntry} \/ tree[p] \in Blocks
  BY DEF TypeInv, IsTree
<1>2. \A i \in DOMAIN frames : frames[i].src \in Path /\ frames[i].dst \in Path
  <2>1. \A i \in DOMAIN frames : frames[i] \in Frame
    BY DEF TypeInv, CpInv
  <2> QED BY <2>1 DEF Frame
<1>3. \A i \in DOMAIN walkers : walkers[i].dir \in Path
  <2>1. \A i \in DOMAIN walkers : walkers[i] \in WalkerType
    BY DEF TypeInv, WalkInv
  <2> QED BY <2>1 DEF WalkerType
<1>4. job.from \in Path /\ job.to \in Path
  BY DEF TypeInv, CpInv, Job
<1>5. CpTypeOK
  BY <1>1, <1>2, <1>4 DEF CpTypeOK, TypeInv, CpInv, InToFile
<1> QED BY <1>3, <1>5 DEF TypeOK, TypeInv, WalkInv

\* What is to be copied is copied, whichever of the two programs started and whatever the
\* user answers: each file with the content the user chose, every visible file of a
\* directory that cp -r goes through, and by multhread_cp each exactly once.
THEOREM CopyIsComplete == Spec => []CopyComplete
<1> DEFINE Inv == TypeInv /\ ContentInv /\ SourceInv /\ PlaceInv
<1>1. Init => Inv
  BY InitTypes, InitContent, InitSource, InitPlace
<1>2. Inv /\ [Next]_vars => Inv'
  BY StepKeepsTypes, StepKeepsContent, SourceStays, StepKeepsPlace
<1>3. Inv => TypeOK /\ CopiesContent /\ NothingLeftOut
  BY TypesAreOK, NothingIsLeftOut DEF ContentInv
<1>4. TypeOK /\ CopiesContent /\ NothingLeftOut /\ EachFileOnce => CopyComplete
  BY DEF CopyComplete
<1> QED BY <1>1, <1>2, <1>3, <1>4, EveryFileOnce, PTL DEF Spec
=============================================================================
