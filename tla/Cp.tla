--------------------------------- MODULE Cp ---------------------------------
(***************************************************************************)
(* cp/cp.c: copies a file, or with -r a directory, asking on the terminal  *)
(* what to do with a file that is already there.                           *)
(*                                                                         *)
(* A path is a sequence of names, a file the sequence of the blocks of 512 *)
(* bytes it holds; a block is read and written in one step, so that a file *)
(* copied onto itself is seen to change under the copy.  Permissions are   *)
(* left out: whatever exists can be read and written.                      *)
(***************************************************************************)
EXTENDS Integers, Sequences, SequencesExt, FiniteSets

CONSTANTS
  Named,          \* the paths a user may give as arguments
  Name, Hidden,   \* names of directory entries, and those that begin with a dot
  MaxDepth,       \* bound: longest path (the source has arrays of 1024 bytes)
  Block, MaxBlocks, \* what a block may hold; bound: longest file
  Trees,          \* the file trees to begin with
  Dir, NoEntry    \* what is at a path that holds no file

ASSUME NameAssumption == Hidden \subseteq Name

ASSUME BoundAssumption == MaxDepth \in Nat /\ MaxBlocks \in Nat

VARIABLES
  tree,    \* tree[p]: the blocks of the file at p, Dir or NoEntry
  args,    \* the arguments of the process
  pc,      \* where it is
  frames,  \* the calls of DirToDir, the innermost last
  job,     \* the arguments and the choice of ToFile
  off      \* blocks read so far

cpVars == <<args, pc, frames, job, off>>

Path == UNION {[1..n -> Name] : n \in 0..MaxDepth}
IsFile(p) == tree[p] \notin {Dir, NoEntry}
Blocks == UNION {[1..n -> Block] : n \in 0..MaxBlocks}

\* In a file tree whatever exists lies in a directory.
IsTree(t) ==
  /\ t \in [Path -> Blocks \cup {Dir, NoEntry}]
  /\ \A p, q \in Path : IsPrefix(q, p) /\ q # p /\ t[p] # NoEntry => t[q] = Dir

ASSUME NamedAssumption == Named \subseteq Path
ASSUME TreesAssumption == \A t \in Trees : IsTree(t)
ASSUME EntryAssumption == Dir # NoEntry /\ {Dir, NoEntry} \cap Blocks = {}

\* The entries readdir returns and DirToDir does not pass over.
Visible(p) == {n \in Name \ Hidden : Append(p, n) \in Path /\ tree[Append(p, n)] # NoEntry}
InDirectory(p) == p = <<>> \/ tree[Front(p)] = Dir

CpTypeOK ==
  /\ \A p \in Path : tree[p] \in {Dir, NoEntry} \/ tree[p] \in Blocks
  /\ args.src \in Path /\ args.dst \in Path
  /\ pc \in {"idle", "main", "walk", "check", "open", "copy", "close", "finished", "exited", "runaway"}
  /\ \A i \in DOMAIN frames : frames[i].src \in Path /\ frames[i].dst \in Path
  /\ pc = "walk" => frames # <<>>
  /\ pc \in {"idle", "main", "finished"} => frames = <<>>
  /\ pc \in {"check", "open", "copy", "close"} => job.from \in Path /\ job.to \in Path
  /\ off \in 0..MaxBlocks

NoJob == [from |-> <<>>, to |-> <<>>, mode |-> "plain", before |-> NoEntry]

Stop(how) == pc' = how /\ UNCHANGED <<tree, args, frames, job, off>>

-----------------------------------------------------------------------------
\* The call of ToFile(from, to).
ToFile(from, to) ==
  /\ IF to \in Path
       THEN pc' = "check" /\ job' = [NoJob EXCEPT !.from = from, !.to = to]
       ELSE pc' = "runaway" /\ UNCHANGED job
  /\ UNCHANGED <<tree, args, off>>

\* The call of DirToDir(src, dst) from the calls `above': opendir, then mkdir if there
\* is nothing at dst, whose failure goes unnoticed; stat(dst, NULL) always fails, so
\* that a dst that is a file goes unnoticed too.
DirToDir(src, dst, above) ==
  /\ IF dst \in Path
       THEN /\ pc' = "walk"
            /\ frames' = Append(above, [src |-> src, dst |-> dst, seen |-> {}, must |-> Visible(src)])
            /\ tree' = IF tree[dst] = NoEntry /\ InDirectory(dst) THEN [tree EXCEPT ![dst] = Dir] ELSE tree
       ELSE pc' = "runaway" /\ UNCHANGED <<frames, tree>>
  /\ UNCHANGED <<args, job, off>>

\* main: a file goes into a directory under its own name, if its path has a slash.
Main ==
  /\ pc = "main"
  /\ \/ tree[args.src] = Dir /\ args.recursive /\ DirToDir(args.src, args.dst, <<>>)
     \/ /\ tree[args.src] # Dir /\ tree[args.dst] = Dir
        /\ IF args.slash
             THEN ToFile(args.src, Append(args.dst, Last(args.src))) /\ UNCHANGED frames
             ELSE Stop("finished")
     \/ /\ IF tree[args.src] = Dir THEN ~args.recursive ELSE tree[args.dst] # Dir
        /\ ToFile(args.src, args.dst) /\ UNCHANGED frames

Top == Last(frames)
\* Mutant: the copy of an entry is put under the source's own directory.
Target_InSource(n) == Append(Top.src, n)

Target(n) == Append(Top.dst, n)

\* Mutant: the same entry is read again.
Above_Unread(n) == frames

\* The calls below the one for entry n: its own, with n read.
Above(n) == Append(Front(frames), [Top EXCEPT !.seen = @ \cup {n}])

\* readdir: an entry made since opendir may be returned, or not.
Entry ==
  /\ pc = "walk"
  /\ \E n \in Visible(Top.src) \ Top.seen :
       IF tree[Append(Top.src, n)] = Dir
         THEN DirToDir(Append(Top.src, n), Target(n), Above(n))
         ELSE ToFile(Append(Top.src, n), Target(n)) /\ frames' = Above(n)

Returned == IF frames = <<>> THEN "finished" ELSE "walk"

\* readdir returns NULL.
EndOfDir ==
  /\ pc = "walk" /\ Top.must \subseteq Top.seen
  /\ frames' = Front(frames)
  /\ pc' = IF Len(frames) = 1 THEN "finished" ELSE "walk"
  /\ UNCHANGED <<tree, args, job, off>>

\* ToFile: without a source the process exits; over an existing destination the user
\* chooses, and an answer that is neither yes nor no falls through to a plain copy.
Check ==
  /\ pc = "check"
  /\ \/ tree[job.from] = NoEntry /\ Stop("exited")
     \/ /\ tree[job.from] # NoEntry
        /\ \E mode \in IF tree[job.to] = NoEntry THEN {"plain"} ELSE {"cover", "cat", "drop", "plain"} :
             /\ job' = [job EXCEPT !.mode = mode, !.before = tree[job.to]]
             /\ pc' = IF mode = "drop" THEN "close" ELSE "open"
        /\ UNCHANGED <<tree, args, frames, off>>

\* Mutant: O_TRUNC is left out.
Opened_NotTruncated == IF tree[job.to] = NoEntry THEN <<>> ELSE tree[job.to]

\* What is in the destination when it has been opened.
Opened == IF job.mode = "cover" \/ tree[job.to] = NoEntry THEN <<>> ELSE tree[job.to]

\* Only a plain copy looks whether open has failed; the others write nowhere.
Open ==
  /\ pc = "open"
  /\ IF tree[job.to] = Dir \/ ~InDirectory(job.to)
       THEN Stop(IF job.mode = "plain" THEN "exited" ELSE "close")
       ELSE /\ tree' = [tree EXCEPT ![job.to] = Opened]
            /\ off' = 0 /\ pc' = "copy"
            /\ UNCHANGED <<args, frames, job>>

\* write appends at the end of the file, or stores at the offset of the copy.
Appends == job.mode = "cat" \/ off >= Len(tree[job.to])
Copy ==
  /\ pc = "copy"
  /\ IF ~IsFile(job.from) \/ off >= Len(tree[job.from])
       THEN Stop("close")
       ELSE LET block == tree[job.from][off + 1]
            IN  IF Appends /\ Len(tree[job.to]) = MaxBlocks
                  THEN Stop("runaway")
                  ELSE /\ tree' = [tree EXCEPT ![job.to] =
                             IF Appends THEN Append(@, block) ELSE [@ EXCEPT ![off + 1] = block]]
                       /\ off' = off + 1
                       /\ UNCHANGED <<args, pc, frames, job>>

\* ToFile returns.
Close ==
  /\ pc = "close"
  /\ pc' = Returned /\ off' = 0 /\ job' = NoJob
  /\ UNCHANGED <<tree, args, frames>>

CpStep == Main \/ Entry \/ EndOfDir \/ Check \/ Open \/ Copy \/ Close
=============================================================================
