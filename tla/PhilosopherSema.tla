-------------------------- MODULE PhilosopherSema --------------------------
(***************************************************************************)
(* philospher/philospher_sema.c: one thread per philosopher, one POSIX     *)
(* semaphore per chopstick.  main initialises chopstick[0..NUM-1] to 1;    *)
(* the one philosopher NUM reaches past the end of the array is zeroed     *)
(* memory, which is a semaphore with value 0.                              *)
(***************************************************************************)
EXTENDS Table, FiniteSets

VARIABLES
  chopstick,  \* chopstick[c]: value of the semaphore
  pc,         \* pc[x]: where philosopher x is
  running     \* FALSE once the process has ended

vars == <<chopstick, pc, running>>

Phases == {"absent", "missing", "thinking", "first", "second", "eating", "putRight"}

TypeOK ==
  /\ chopstick \in [Chopstick -> {0, 1}]
  /\ pc \in [Phil -> Phases]
  /\ running \in BOOLEAN

\* sem_init(&chopstick[i], 0, 1) for i < NUM.
Init ==
  /\ chopstick = [c \in Chopstick |-> IF c < NUM THEN 1 ELSE 0]
  /\ pc = [x \in Phil |-> "absent"]
  /\ running = TRUE

Goto(x, there) == pc' = [pc EXCEPT ![x] = there]
SemWait(c) == chopstick[c] > 0 /\ chopstick' = [chopstick EXCEPT ![c] = @ - 1]
SemPost(c) == chopstick' = [chopstick EXCEPT ![c] = @ + 1]

\* The result of pthread_create is ignored: a philosopher may be missing.
Create(x) ==
  /\ pc[x] = "absent" /\ \A y \in 1..x - 1 : pc[y] # "absent"
  /\ Goto(x, "thinking") \/ Goto(x, "missing")
  /\ UNCHANGED <<chopstick, running>>

\* main waits for philosopher 1 for ever; if that one is missing the handle it
\* joins is indeterminate, and the process may end there.
MainEnds ==
  /\ \A x \in Phil : pc[x] # "absent"
  /\ pc[1] = "missing"
  /\ running' = FALSE
  /\ UNCHANGED <<chopstick, pc>>

Hunger(x) ==
  /\ pc[x] = "thinking"
  /\ Goto(x, "first")
  /\ UNCHANGED <<chopstick, running>>

\* sem_wait(&chopstick[x]); then, after a delay, sem_wait(&chopstick[(x + 1) % NUM])
WaitLeft(x) ==
  /\ pc[x] = "first" /\ SemWait(Left(x))
  /\ Goto(x, "second")
  /\ UNCHANGED running
WaitRight(x) ==
  /\ pc[x] = "second" /\ SemWait(Right(x))
  /\ Goto(x, "eating")
  /\ UNCHANGED running

\* Mutant: chopstick x is not put back.
PostLeft_Forgotten(x) ==
  /\ pc[x] = "eating"
  /\ Goto(x, "putRight")
  /\ UNCHANGED <<chopstick, running>>

PostLeft(x) ==
  /\ pc[x] = "eating" /\ SemPost(Left(x))
  /\ Goto(x, "putRight")
  /\ UNCHANGED running
PostRight(x) ==
  /\ pc[x] = "putRight" /\ SemPost(Right(x))
  /\ Goto(x, "thinking")
  /\ UNCHANGED running

Step(x) ==
  /\ running
  /\ Hunger(x) \/ WaitLeft(x) \/ WaitRight(x) \/ PostLeft(x) \/ PostRight(x)
Main == running /\ (MainEnds \/ \E x \in Phil : Create(x))

Next == Main \/ \E x \in Phil : Step(x)
Spec == Init /\ [][Next]_vars

\* The threads that can run are scheduled; whether main's join of an indeterminate
\* handle ends the process is left open.
Fairness ==
  /\ \A x \in Phil : WF_vars(running /\ Create(x))
  /\ \A x \in Phil : WF_vars(Step(x))
FairSpec == Spec /\ Fairness

-----------------------------------------------------------------------------
Held(x) == {c \in Reach(x) :
  \/ pc[x] = "second" /\ c = Left(x)
  \/ pc[x] = "eating"
  \/ pc[x] = "putRight" /\ c = Right(x)}

Eating == {x \in Phil : pc[x] = "eating"}

D == INSTANCE Dining WITH eating <- Eating

\* Philosophers that use a common chopstick never eat at the same time.
ImplementsDining == D!Spec

\* Every chopstick main has initialised is on the table or with one philosopher,
\* so that no post is lost and none is made twice.
ChopsticksConserved ==
  \A c \in 0..NUM - 1 :
    chopstick[c] + Cardinality({x \in Phil : c \in Held(x)}) = 1

\* Philosopher NUM's first chopstick lies beyond what main initialises: nobody posts
\* it, the philosopher never gets past the first wait and blocks nobody else.
LastPhilosopherShutOut ==
  pc[NUM] \in {"absent", "missing", "thinking", "first"} /\ chopstick[NUM] = 0

\* While one of the other philosophers is hungry someone goes on to eat.
SomeoneEats ==
  (\E x \in Phil : x # NUM /\ pc[x] = "first")
    ~> (~running \/ \E x \in Phil : pc[x] = "eating")
=============================================================================
