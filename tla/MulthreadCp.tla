----------------------------- MODULE MulthreadCp -----------------------------
(***************************************************************************)
(* cp/multhread_cp.c: walks a directory and forks a process for every      *)
(* entry, which executes cp on a file and the program itself on a          *)
(* directory; each time it waits for the process to end, so that at any    *)
(* time only the last process of a chain runs.  A process whose execl      *)
(* fails goes on with its parent's loop.                                   *)
(*                                                                         *)
(* It puts the two programs together: the processes that run cp make the   *)
(* steps of Cp, on their own (no walkers) or as children of a walker.      *)
(***************************************************************************)
EXTENDS Cp

CONSTANTS
  DST,       \* where everything is copied to
  Programs   \* the programs that may be found where the source says

ASSUME ProgramsAssumption == Programs \subseteq {"cp", "multhread_cp"}

VARIABLES
  walkers,   \* the processes that run multi_cp, each the parent of the next
  installed, \* the programs that execl finds
  started,   \* what was started: "cp" or "multhread_cp"
  start,     \* history: the tree and the arguments at that time
  copies     \* history: copies[p]: how many processes were to copy p

walkVars == <<walkers, installed, copies>>
vars == <<tree, cpVars, walkVars, started, start>>

CpOver == pc \in {"idle", "finished", "exited"}

TypeOK ==
  /\ CpTypeOK
  /\ \A i \in DOMAIN walkers : walkers[i].dir \in Path
  /\ installed \subseteq Programs
  /\ started \in {"cp", "multhread_cp"}
  /\ copies \in [Path -> Nat]

Arguments == [src : Named, dst : Named, recursive : BOOLEAN, slash : BOOLEAN]

Init ==
  /\ tree \in Trees
  /\ started \in {"cp", "multhread_cp"}
  /\ args \in {a \in Arguments : Len(a.src) > 1 => a.slash}
  /\ started = "multhread_cp" => args.dst = DST /\ args.slash /\ ~args.recursive
  /\ pc = IF started = "cp" THEN "main" ELSE "idle"
  /\ frames = <<>> /\ job = NoJob /\ off = 0
  /\ walkers = <<>>
  /\ installed \in SUBSET Programs
  /\ start = [tree |-> tree, src |-> args.src, dst |-> args.dst]
  /\ copies = [p \in Path |-> 0]

-----------------------------------------------------------------------------
Walker(dir) == [dir |-> dir, seen |-> {}, must |-> Visible(dir)]

\* execl(MYCP, p, DST): cp sees p and DST as its last two arguments.
RunCp(p) ==
  /\ args' = [src |-> p, dst |-> DST, recursive |-> FALSE, slash |-> TRUE]
  /\ pc' = "main" /\ frames' = <<>> /\ job' = NoJob /\ off' = 0
  /\ copies' = [copies EXCEPT ![p] = @ + 1]

\* multi_cp of the directory main found in argv, and of what is no directory.
Start ==
  /\ started = "multhread_cp" /\ pc = "idle" /\ walkers = <<>>
  /\ IF tree[args.src] = Dir
       THEN walkers' = <<Walker(args.src)>> /\ UNCHANGED <<cpVars, copies>>
       ELSE /\ UNCHANGED walkers
            /\ IF IsFile(args.src) /\ "cp" \in installed
                 THEN RunCp(args.src)
                 ELSE pc' = "finished" /\ UNCHANGED <<args, frames, job, off, copies>>
  /\ UNCHANGED <<tree, installed, started, start>>

Running == Last(walkers)

\* What the processes forked for a directory and, when cp is missing, for a file run.
ForDirectory(p, parent) == IF "multhread_cp" \in installed THEN Walker(p) ELSE parent
ForFileWithoutCp(parent) == parent

\* The next entry: fork, execl, waitpid.
Fork ==
  /\ CpOver /\ walkers # <<>>
  /\ \E n \in Visible(Running.dir) \ Running.seen :
       LET p      == Append(Running.dir, n)
           parent == [Running EXCEPT !.seen = @ \cup {n}]
           rest   == Append(Front(walkers), parent)
       IN  \/ tree[p] = Dir /\ walkers' = Append(rest, ForDirectory(p, parent)) /\ UNCHANGED <<cpVars, copies>>
           \/ tree[p] # Dir /\ "cp" \in installed /\ walkers' = rest /\ RunCp(p)
           \/ /\ tree[p] # Dir /\ "cp" \notin installed
              /\ walkers' = Append(rest, ForFileWithoutCp(parent)) /\ UNCHANGED <<cpVars, copies>>
  /\ UNCHANGED <<tree, installed, started, start>>

\* multi_cp returns, and the process ends.
WalkerEnds ==
  /\ CpOver /\ walkers # <<>> /\ Running.must \subseteq Running.seen
  /\ walkers' = Front(walkers)
  /\ pc' = IF Len(walkers) = 1 THEN "finished" ELSE pc
  /\ UNCHANGED <<tree, args, frames, job, off, installed, started, start, copies>>

RunningCp == CpStep /\ UNCHANGED <<walkVars, started, start>>

Next == RunningCp \/ Start \/ Fork \/ WalkerEnds
Spec == Init /\ [][Next]_vars

\* The processes are scheduled and the user answers.
FairSpec == Spec /\ WF_vars(Next)

-----------------------------------------------------------------------------
Over == pc \in {"finished", "exited"} /\ walkers = <<>>

\* One of source and destination lies in the other.
Overlap == IsPrefix(start.src, start.dst) \/ IsPrefix(start.dst, start.src)

\* The regular files under s in tree t that no dot hides.
VisibleFiles(t, s) ==
  {p \in Path : IsPrefix(s, p) /\ t[p] \notin {Dir, NoEntry}
                 /\ \A i \in Len(s) + 1..Len(p) : p[i] \notin Hidden}

\* Nothing outside the destination is ever changed, however the two overlap.
OnlyDestinationChanges ==
  [][\A p \in Path : ~IsPrefix(start.dst, p) => tree'[p] = tree[p]]_vars

\* What is at a destination after ToFile, by the user's choice; a plain copy over a
\* longer file keeps that file's tail.
Content(p) == IF IsFile(p) THEN tree[p] ELSE <<>>
After(mode, old, new) ==
  IF mode = "drop" \/ old = Dir THEN old
  ELSE IF mode = "cover" \/ old = NoEntry THEN new
  ELSE IF mode = "cat" THEN old \o new
  ELSE new \o SubSeq(old, Len(new) + 1, Len(old))

\* The loop over blocks does what the choice says, unless a file is copied onto itself.
CopiesContent ==
  pc = "close" /\ job.from # job.to
    => tree[job.to] = After(job.mode, job.before, Content(job.from))

\* cp -r that returns normally has put something at the place of every visible file
\* of the source, although DirToDir looks at the result of neither mkdir nor stat.
NothingLeftOut ==
  Over /\ started = "cp" /\ pc = "finished" /\ args.recursive /\ start.tree[start.src] = Dir /\ ~Overlap
    => \A p \in VisibleFiles(start.tree, start.src) :
         tree[start.dst \o SubSeq(p, Len(start.src) + 1, Len(p))] # NoEntry

\* With both programs where they are looked for, every visible file under the start
\* is given to cp exactly once.
EachFileOnce ==
  Over /\ started = "multhread_cp" /\ installed = {"cp", "multhread_cp"} /\ ~Overlap
    => \A p \in Path : copies[p] = IF p \in VisibleFiles(start.tree, start.src) THEN 1 ELSE 0

\* The copy feeds itself: the destination lies in the source, or a file is appended to itself.
FeedsItself == IsPrefix(start.src, start.dst) \/ (job.mode = "cat" /\ job.from = job.to)

\* What is to be copied is copied: each file with the content the user chose, none left
\* out and none twice, whichever of the two programs started.
CopyComplete == TypeOK /\ CopiesContent /\ NothingLeftOut /\ EachFileOnce

\* A copy ends, or grows beyond the bounds because it feeds itself.
EndsUnlessOverlapping == <>(Over \/ (pc = "runaway" /\ FeedsItself))
=============================================================================
