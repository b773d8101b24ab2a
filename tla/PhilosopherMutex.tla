-------------------------- MODULE PhilosopherMutex --------------------------
(***************************************************************************)
(* philospher/philospher_mutex.c: one thread per philosopher, one mutex    *)
(* per chopstick, and four eating functions of which philospher() calls    *)
(* one, `eat' here (the source calls eat_change_lock and has the other     *)
(* calls in comments).                                                     *)
(*                                                                         *)
(* A spin on pthread_mutex_trylock and a pthread_mutex_lock both wait for  *)
(* the mutex and take it, so Take stands for both; the failed tries are a  *)
(* step only in eat(), which counts them.  The mutexes are of the default  *)
(* kind: a thread that locks one it owns waits for itself.                 *)
(***************************************************************************)
EXTENDS Table

CONSTANTS
  Functions,  \* the eating functions that philospher() may be built to call
  MaxTries    \* failed tries eat() accepts (120 in the source)

ASSUME FunctionsAssumption ==
  Functions \subseteq {"eat_with_trylock", "eat_with_lock", "eat_change_lock", "eat"}
ASSUME MaxTriesAssumption == MaxTries \in Nat

VARIABLES
  mut,       \* mut[c]: the philosopher that has locked chopstick c, or Nobody
  pc,        \* pc[p]: where philosopher p is
  tries,     \* tries[p]: its delay_flag in eat()
  running,   \* FALSE once main has returned, which ends every thread
  eat        \* the eating function this build calls

vars == <<mut, pc, tries, running, eat>>

Nobody == 0
Waiting == {"first", "second", "relock"}
Phases == Waiting \cup {"absent", "thinking", "eating", "putRight"}

TypeOK ==
  /\ mut \in [Chopstick -> Phil \cup {Nobody}]
  /\ pc \in [Phil -> Phases]
  /\ tries \in [Phil -> 0..MaxTries]
  /\ running \in BOOLEAN
  /\ eat \in Functions

Init ==
  /\ mut = [c \in Chopstick |-> Nobody]
  /\ pc = [p \in Phil |-> "absent"]
  /\ tries = [p \in Phil |-> 0]
  /\ running = TRUE
  /\ eat \in Functions

-----------------------------------------------------------------------------
\* Which chopstick is taken first depends on the function and on the parity of x.
LeftFirst(x) ==
  \/ eat \in {"eat_with_lock", "eat"}
  \/ eat = "eat_with_trylock" /\ x % 2 = 1
  \/ eat = "eat_change_lock" /\ x % 2 = 0

First(x)  == IF LeftFirst(x) THEN Left(x) ELSE Right(x)
Second(x) == IF LeftFirst(x) THEN Right(x) ELSE Left(x)

\* The mutex a waiting philosopher waits for; eat() ends by locking mut[x] again.
Want(p) ==
  IF pc[p] = "first" THEN First(p) ELSE IF pc[p] = "second" THEN Second(p) ELSE Left(p)

Goto(p, there) == pc' = [pc EXCEPT ![p] = there]

\* main creates the threads in order; when pthread_create fails it returns.
Create(p) ==
  /\ pc[p] = "absent" /\ \A q \in 1..p - 1 : pc[q] # "absent"
  /\ Goto(p, "thinking")
  /\ UNCHANGED <<mut, tries, running, eat>>
CreateFails ==
  /\ \E p \in Phil : pc[p] = "absent"
  /\ running' = FALSE
  /\ UNCHANGED <<mut, pc, tries, eat>>

\* think() is over.
Hunger(p) ==
  /\ pc[p] = "thinking"
  /\ Goto(p, "first")
  /\ tries' = [tries EXCEPT ![p] = 0]
  /\ UNCHANGED <<mut, running, eat>>

Take(p) ==
  /\ pc[p] \in Waiting
  /\ mut[Want(p)] = Nobody
  /\ mut' = [mut EXCEPT ![Want(p)] = p]
  /\ Goto(p, IF pc[p] = "first" THEN "second" ELSE "eating")
  /\ UNCHANGED <<tries, running, eat>>

\* eat(): another failed try on the second chopstick, and the one too many.
Fails(p) == eat = "eat" /\ pc[p] = "second" /\ mut[Second(p)] # Nobody
TryAgain(p) ==
  /\ Fails(p) /\ tries[p] < MaxTries
  /\ tries' = [tries EXCEPT ![p] = @ + 1]
  /\ UNCHANGED <<mut, pc, running, eat>>

\* Mutant: giving up unlocks the chopstick not obtained.
GiveUp_UnlocksOther(p) ==
  /\ Fails(p) /\ tries[p] = MaxTries
  /\ mut' = [mut EXCEPT ![Right(p)] = Nobody]
  /\ Goto(p, "thinking")
  /\ UNCHANGED <<tries, running, eat>>

GiveUp(p) ==
  /\ Fails(p) /\ tries[p] = MaxTries
  /\ mut' = [mut EXCEPT ![Left(p)] = Nobody]
  /\ Goto(p, "thinking")
  /\ UNCHANGED <<tries, running, eat>>

\* eat() does not unlock: it goes on to lock mut[x].
Relock(p) ==
  /\ pc[p] = "eating" /\ eat = "eat"
  /\ Goto(p, "relock")
  /\ UNCHANGED <<mut, tries, running, eat>>

PutLeft(p) ==
  /\ pc[p] = "eating" /\ eat # "eat"
  /\ mut' = [mut EXCEPT ![Left(p)] = Nobody]
  /\ Goto(p, "putRight")
  /\ UNCHANGED <<tries, running, eat>>
\* Mutant: chopstick (x + 1) % NUM stays locked after eating.
PutRight_Forgotten(p) ==
  /\ pc[p] = "putRight"
  /\ Goto(p, "thinking")
  /\ UNCHANGED <<mut, tries, running, eat>>

PutRight(p) ==
  /\ pc[p] = "putRight"
  /\ mut' = [mut EXCEPT ![Right(p)] = Nobody]
  /\ Goto(p, "thinking")
  /\ UNCHANGED <<tries, running, eat>>

Step(p) ==
  /\ running
  /\ \/ Hunger(p) \/ Take(p) \/ TryAgain(p) \/ GiveUp(p)
     \/ Relock(p) \/ PutLeft(p) \/ PutRight(p)
Main == running /\ (CreateFails \/ \E p \in Phil : Create(p))

Next == Main \/ \E p \in Phil : Step(p)
Spec == Init /\ [][Next]_vars

\* Every thread that can run is scheduled, and a mutex that stays free is taken.
\* A mutex is not granted in any order, so nothing stronger is assumed.
Fairness == WF_vars(Main) /\ \A p \in Phil : WF_vars(Step(p))
FairSpec == Spec /\ Fairness

-----------------------------------------------------------------------------
\* The chopsticks a philosopher must have locked where it is.
Held(p) == {c \in Reach(p) :
  \/ pc[p] = "second" /\ c = First(p)
  \/ pc[p] \in {"eating", "relock"}
  \/ pc[p] = "putRight" /\ c = Right(p)}

Eating == {p \in Phil : pc[p] \in {"eating", "relock"}}

D == INSTANCE Dining WITH eating <- Eating

\* Philosophers that use a common chopstick never eat at the same time, in any of
\* the four functions: they implement Dining.
ImplementsDining == D!Spec

\* Every chopstick is locked by the philosopher whose place in the code says so, and
\* by nobody else: none is left locked by eat()'s giving up or after eating.
LocksMatchCode == \A c \in Chopstick, p \in Phil : mut[c] = p <=> c \in Held(p)

\* Philosophers that wait only for chopsticks those same philosophers have locked.
CircularWait ==
  \E W \in SUBSET Phil :
    /\ W # {}
    /\ \A p \in W : pc[p] \in Waiting /\ mut[Want(p)] \in W

\* The three functions that unlock what they lock never lead to a circular wait; that
\* includes eat_with_lock, which takes the chopsticks in no order by parity.
NoCircularWait == eat # "eat" => ~CircularWait

\* philospher_mutex.c:103: eat() solves deadlock by giving way.
EatSolvesDeadlock == eat = "eat" => ~CircularWait

\* In those three, while someone is hungry someone goes on to eat, unless main returns:
\* no deadlock and no livelock, though a given philosopher may be passed over for ever.
SomeoneEats ==
  (eat # "eat" /\ \E p \in Phil : pc[p] = "first") ~> (~running \/ \E p \in Phil : pc[p] = "eating")
=============================================================================
