------------------------ MODULE PhilosopherSemaProofs ------------------------
(***************************************************************************)
(* What is proved of philospher/philospher_sema.c for every number of      *)
(* philosophers: types, that no chopstick is lost or doubled, that         *)
(* philosopher NUM is shut out, and the implementation of Dining.          *)
(***************************************************************************)
EXTENDS PhilosopherSema, FiniteSetTheorems, TLAPS

\* A philosopher's two chopsticks are different ones; all but the left one of
\* philosopher NUM lie in the array.
LEMMA ReachInArray ==
  ASSUME NEW x \in Phil
  PROVE  /\ Left(x) \in Chopstick /\ Right(x) \in 0..NUM - 1
         /\ Left(x) # Right(x)
         /\ x # NUM => Left(x) \in 0..NUM - 1
<1>1. CASE x = NUM - 1
  BY <1>1, NumAssumption DEF Left, Right, Phil, Chopstick
<1>2. CASE x = NUM
  BY <1>2, NumAssumption DEF Left, Right, Phil, Chopstick
<1>3. CASE x < NUM - 1
  BY <1>3, NumAssumption DEF Left, Right, Phil, Chopstick
<1> QED BY <1>1, <1>2, <1>3, NumAssumption DEF Phil

\* What a philosopher holds at each place, before and after a step.
LEMMA HeldValue ==
  ASSUME NEW x \in Phil
  PROVE  /\ pc[x] = "second" => Held(x) = {Left(x)}
         /\ pc[x] = "eating" => Held(x) = {Left(x), Right(x)}
         /\ pc[x] = "putRight" => Held(x) = {Right(x)}
         /\ pc[x] \notin {"second", "eating", "putRight"} => Held(x) = {}
         /\ pc'[x] = "second" => Held(x)' = {Left(x)}
         /\ pc'[x] = "eating" => Held(x)' = {Left(x), Right(x)}
         /\ pc'[x] = "putRight" => Held(x)' = {Right(x)}
         /\ pc'[x] \notin {"second", "eating", "putRight"} => Held(x)' = {}
BY DEF Held, Reach

\* A chopstick of the array has value 0 exactly when one philosopher holds it.
Exclusive == \A x, y \in Phil : Held(x) \cap Held(y) # {} => x = y
ZeroIffHeld == \A c \in 0..NUM - 1 : chopstick[c] = 0 <=> \E x \in Phil : c \in Held(x)

IndInv == TypeOK /\ LastPhilosopherShutOut /\ Exclusive /\ ZeroIffHeld

LEMMA InitIndInv == Init => IndInv
<1> SUFFICES ASSUME Init PROVE IndInv
  OBVIOUS
<1>1. \A x \in Phil : pc[x] = "absent"
  BY DEF Init
<1>2. \A x \in Phil : Held(x) = {}
  BY <1>1, HeldValue
<1>3. TypeOK
  BY NumAssumption DEF Init, TypeOK, Phases, Chopstick
<1>4. LastPhilosopherShutOut
  BY NumAssumption DEF Init, LastPhilosopherShutOut, Phil, Chopstick
<1>5. ZeroIffHeld
  BY <1>2, NumAssumption DEF Init, ZeroIffHeld, Chopstick
<1> QED BY <1>2, <1>3, <1>4, <1>5 DEF IndInv, Exclusive

\* Moving on without touching a chopstick.
LEMMA MovesKeep ==
  ASSUME IndInv, NEW x \in Phil, NEW there \in {"thinking", "missing", "first"},
         pc[x] \in {"absent", "thinking"}, Goto(x, there), UNCHANGED <<chopstick, running>>
  PROVE  IndInv'
<1>1. \A y \in Phil : pc'[y] = IF y = x THEN there ELSE pc[y]
  BY DEF IndInv, TypeOK, Goto
<1>2. \A y \in Phil : Held(y)' = Held(y)
  <2> SUFFICES ASSUME NEW y \in Phil PROVE Held(y)' = Held(y)
    OBVIOUS
  <2>1. CASE y = x
    BY <1>1, <2>1, HeldValue
  <2>2. CASE y # x
    BY <1>1, <2>2 DEF Held
  <2> QED BY <2>1, <2>2
<1>3. TypeOK'
  BY DEF IndInv, TypeOK, Goto, Phases
<1>4. LastPhilosopherShutOut'
  BY <1>1, NumAssumption DEF IndInv, LastPhilosopherShutOut, Phil
<1>5. Exclusive' /\ ZeroIffHeld'
  BY <1>2 DEF IndInv, Exclusive, ZeroIffHeld
<1> QED BY <1>3, <1>4, <1>5 DEF IndInv

\* Taking and putting back one chopstick of the array.
LEMMA TakeKeeps ==
  ASSUME IndInv, NEW x \in Phil, x # NUM, NEW c \in 0..NUM - 1, SemWait(c), UNCHANGED running,
         NEW there \in Phases, Goto(x, there), Held(x)' = Held(x) \cup {c}
  PROVE  IndInv'
<1>1. \A y \in Phil \ {x} : pc'[y] = pc[y] /\ Held(y)' = Held(y)
  BY DEF IndInv, TypeOK, Goto, Held
<1>2. c \in Chopstick /\ chopstick[c] = 1 /\ chopstick' = [chopstick EXCEPT ![c] = 0]
  <2>1. c \in Chopstick
    BY NumAssumption DEF Chopstick
  <2>2. chopstick[c] \in {0, 1} /\ chopstick[c] > 0
    BY <2>1 DEF IndInv, TypeOK, SemWait
  <2>3. chopstick[c] = 1 /\ chopstick[c] - 1 = 0
    BY <2>2
  <2> QED BY <2>1, <2>3 DEF SemWait
<1>3. \A y \in Phil : c \notin Held(y)
  BY <1>2 DEF IndInv, ZeroIffHeld
<1>4. TypeOK'
  BY <1>2 DEF IndInv, TypeOK, Goto
<1>5. LastPhilosopherShutOut'
  BY <1>1, <1>2, NumAssumption DEF IndInv, LastPhilosopherShutOut, TypeOK, Phil, Chopstick
<1>6. Exclusive'
  BY <1>1, <1>3 DEF IndInv, Exclusive
<1>7. ZeroIffHeld'
  <2> SUFFICES ASSUME NEW d \in 0..NUM - 1
               PROVE  chopstick'[d] = 0 <=> \E y \in Phil : d \in Held(y)'
    BY DEF ZeroIffHeld
  <2>1. CASE d = c
    BY <1>2, <2>1 DEF IndInv, TypeOK
  <2>2. CASE d # c
    <3>1. chopstick'[d] = chopstick[d] /\ \A y \in Phil : d \in Held(y)' <=> d \in Held(y)
      BY <1>1, <1>2, <2>2, NumAssumption DEF IndInv, TypeOK, Chopstick
    <3> QED BY <3>1 DEF IndInv, ZeroIffHeld
  <2> QED BY <2>1, <2>2
<1> QED BY <1>4, <1>5, <1>6, <1>7 DEF IndInv

LEMMA PutKeeps ==
  ASSUME IndInv, NEW x \in Phil, x # NUM, NEW c \in 0..NUM - 1, SemPost(c), UNCHANGED running,
         NEW there \in Phases, Goto(x, there), c \in Held(x), Held(x)' = Held(x) \ {c}
  PROVE  IndInv'
<1>1. \A y \in Phil \ {x} : pc'[y] = pc[y] /\ Held(y)' = Held(y)
  BY DEF IndInv, TypeOK, Goto, Held
<1>2. c \in Chopstick /\ chopstick[c] = 0 /\ chopstick' = [chopstick EXCEPT ![c] = 1]
  <2>1. c \in Chopstick
    BY NumAssumption DEF Chopstick
  <2>2. chopstick[c] = 0
    BY DEF IndInv, ZeroIffHeld
  <2>3. chopstick[c] + 1 = 1
    BY <2>2
  <2> QED BY <2>1, <2>2, <2>3 DEF SemPost
<1>3. \A y \in Phil \ {x} : c \notin Held(y)
  BY DEF IndInv, Exclusive
<1>4. TypeOK'
  BY <1>2 DEF IndInv, TypeOK, Goto
<1>5. LastPhilosopherShutOut'
  BY <1>1, <1>2, NumAssumption DEF IndInv, LastPhilosopherShutOut, TypeOK, Phil, Chopstick
<1>6. Exclusive'
  BY <1>1 DEF IndInv, Exclusive
<1>7. ZeroIffHeld'
  <2> SUFFICES ASSUME NEW d \in 0..NUM - 1
               PROVE  chopstick'[d] = 0 <=> \E y \in Phil : d \in Held(y)'
    BY DEF ZeroIffHeld
  <2>1. CASE d = c
    BY <1>1, <1>2, <1>3, <2>1 DEF IndInv, TypeOK
  <2>2. CASE d # c
    <3>1. chopstick'[d] = chopstick[d] /\ \A y \in Phil : d \in Held(y)' <=> d \in Held(y)
      BY <1>1, <1>2, <2>2, NumAssumption DEF IndInv, TypeOK, Chopstick
    <3> QED BY <3>1 DEF IndInv, ZeroIffHeld
  <2> QED BY <2>1, <2>2
<1> QED BY <1>4, <1>5, <1>6, <1>7 DEF IndInv

LEMMA NextIndInv == IndInv /\ [Next]_vars => IndInv'
<1> SUFFICES ASSUME IndInv, [Next]_vars PROVE IndInv'
  OBVIOUS
<1>1. CASE UNCHANGED vars
  <2>1. \A y \in Phil : Held(y)' = Held(y)
    BY <1>1 DEF vars, Held
  <2>2. Exclusive' /\ ZeroIffHeld'
    BY <1>1, <2>1 DEF vars, IndInv, Exclusive, ZeroIffHeld
  <2> QED BY <1>1, <2>2 DEF vars, IndInv, TypeOK, LastPhilosopherShutOut
<1>2. CASE MainEnds
  <2>1. \A y \in Phil : Held(y)' = Held(y)
    BY <1>2 DEF MainEnds, Held
  <2>2. Exclusive' /\ ZeroIffHeld'
    BY <1>2, <2>1 DEF MainEnds, IndInv, Exclusive, ZeroIffHeld
  <2> QED BY <1>2, <2>2 DEF MainEnds, IndInv, TypeOK, LastPhilosopherShutOut
<1>3. ASSUME NEW x \in Phil, Create(x) \/ Hunger(x) PROVE IndInv'
  BY <1>3, MovesKeep DEF Create, Hunger
\* Philosopher NUM has no further step.
<1>4. ASSUME NEW x \in Phil, WaitLeft(x) \/ WaitRight(x) \/ PostLeft(x) \/ PostRight(x)
      PROVE  /\ x # NUM
             /\ Left(x) \in 0..NUM - 1 /\ Right(x) \in 0..NUM - 1 /\ Left(x) # Right(x)
             /\ \A there : Goto(x, there) => pc'[x] = there
  <2>1. x # NUM
    BY <1>4 DEF WaitLeft, WaitRight, PostLeft, PostRight, SemWait, IndInv,
                LastPhilosopherShutOut, Left
  <2> QED BY <2>1, ReachInArray DEF IndInv, TypeOK, Goto
<1>5. ASSUME NEW x \in Phil, WaitLeft(x) PROVE IndInv'
  <2>1. pc[x] = "first" /\ pc'[x] = "second"
    BY <1>4, <1>5 DEF WaitLeft
  <2>2. Held(x) = {} /\ Held(x)' = {Left(x)}
    BY <2>1, HeldValue
  <2> QED BY <1>4, <1>5, <2>2, TakeKeeps DEF WaitLeft, Phases
<1>6. ASSUME NEW x \in Phil, WaitRight(x) PROVE IndInv'
  <2>1. pc[x] = "second" /\ pc'[x] = "eating"
    BY <1>4, <1>6 DEF WaitRight
  <2>2. Held(x) = {Left(x)} /\ Held(x)' = {Left(x), Right(x)}
    BY <2>1, HeldValue
  <2> QED BY <1>4, <1>6, <2>2, TakeKeeps DEF WaitRight, Phases
<1>7. ASSUME NEW x \in Phil, PostLeft(x) PROVE IndInv'
  <2>1. pc[x] = "eating" /\ pc'[x] = "putRight"
    BY <1>4, <1>7 DEF PostLeft
  <2>2. Held(x) = {Left(x), Right(x)} /\ Held(x)' = {Right(x)}
    BY <2>1, HeldValue
  <2> QED BY <1>4, <1>7, <2>2, PutKeeps DEF PostLeft, Phases
<1>8. ASSUME NEW x \in Phil, PostRight(x) PROVE IndInv'
  <2>1. pc[x] = "putRight" /\ pc'[x] = "thinking"
    BY <1>4, <1>8 DEF PostRight
  <2>2. Held(x) = {Right(x)} /\ Held(x)' = {}
    BY <2>1, HeldValue
  <2> QED BY <1>4, <1>8, <2>2, PutKeeps DEF PostRight, Phases
<1> QED BY <1>1, <1>2, <1>3, <1>5, <1>6, <1>7, <1>8 DEF Next, Main, Step

LEMMA IndInvHolds == Spec => []IndInv
BY InitIndInv, NextIndInv, PTL DEF Spec

\* Every semaphore stays 0 or 1.
THEOREM TypeCorrect == Spec => []TypeOK
<1>1. IndInv => TypeOK
  BY DEF IndInv
<1> QED BY <1>1, IndInvHolds, PTL

\* A chopstick of the array is on the table or with one philosopher.
THEOREM NoneLost == Spec => []ChopsticksConserved
<1>1. IndInv => ChopsticksConserved
  <2> SUFFICES ASSUME IndInv, NEW c \in 0..NUM - 1
               PROVE  chopstick[c] + Cardinality({x \in Phil : c \in Held(x)}) = 1
    BY DEF ChopsticksConserved
  <2>1. chopstick[c] \in {0, 1}
    BY NumAssumption DEF IndInv, TypeOK, Chopstick
  <2>2. CASE chopstick[c] = 1
    <3>1. {x \in Phil : c \in Held(x)} = {}
      BY <2>2 DEF IndInv, ZeroIffHeld
    <3> QED BY <2>2, <3>1, FS_EmptySet
  <2>3. CASE chopstick[c] = 0
    <3>1. PICK x \in Phil : c \in Held(x)
      BY <2>3 DEF IndInv, ZeroIffHeld
    <3>2. {y \in Phil : c \in Held(y)} = {x}
      BY <3>1 DEF IndInv, Exclusive
    <3>3. Cardinality({x}) = 1
      BY FS_Singleton
    <3>4. Cardinality({y \in Phil : c \in Held(y)}) = 1
      BY <3>2, <3>3, Zenon
    <3> QED BY <2>3, <3>4
  <2> QED BY <2>1, <2>2, <2>3
<1> QED BY <1>1, IndInvHolds, PTL

\* Philosopher NUM waits for a semaphore that nobody initialises or posts.
THEOREM LastIsShutOut == Spec => []LastPhilosopherShutOut
<1>1. IndInv => LastPhilosopherShutOut
  BY DEF IndInv
<1> QED BY <1>1, IndInvHolds, PTL

-----------------------------------------------------------------------------
EatersAreNoRivals == \A x, y \in Eating : <<x, y>> \notin Rivals

LEMMA EatersApart == IndInv => EatersAreNoRivals
<1> SUFFICES ASSUME IndInv, NEW x \in Eating, NEW y \in Eating, <<x, y>> \in Rivals
             PROVE  FALSE
  BY DEF EatersAreNoRivals
<1>1. x \in Phil /\ y \in Phil /\ x # y
  BY DEF Rivals, Eating
<1>2. Held(x) = Reach(x) /\ Held(y) = Reach(y)
  BY <1>1 DEF Held, Eating
<1> QED BY <1>1, <1>2 DEF IndInv, Exclusive, Rivals

LEMMA StepDines == TypeOK /\ EatersAreNoRivals' /\ [Next]_vars => [D!Next]_Eating
<1> SUFFICES ASSUME TypeOK, EatersAreNoRivals', [Next]_vars PROVE [D!Next]_Eating
  OBVIOUS
<1>1. CASE UNCHANGED vars \/ MainEnds
  BY <1>1 DEF vars, MainEnds, Eating
<1>2. ASSUME NEW x \in Phil, NEW there, Goto(x, there) PROVE
        \A y \in Phil : pc'[y] = IF y = x THEN there ELSE pc[y]
  BY <1>2 DEF Goto, TypeOK
<1>3. ASSUME NEW x \in Phil, Create(x) \/ Hunger(x) \/ WaitLeft(x) \/ PostRight(x)
      PROVE  [D!Next]_Eating
  BY <1>2, <1>3 DEF Create, Hunger, WaitLeft, PostRight, Eating
<1>4. ASSUME NEW x \in Phil, WaitRight(x) PROVE [D!Next]_Eating
  <2>1. x \notin Eating /\ Eating' = Eating \cup {x}
    BY <1>2, <1>4 DEF WaitRight, Eating
  <2>2. \A y \in Eating : <<x, y>> \notin Rivals
    BY <2>1 DEF EatersAreNoRivals
  <2> QED BY <2>1, <2>2 DEF D!Next, D!Begin, Eating
<1>5. ASSUME NEW x \in Phil, PostLeft(x) PROVE [D!Next]_Eating
  <2>1. x \in Eating /\ Eating' = Eating \ {x}
    BY <1>2, <1>5 DEF PostLeft, Eating
  <2> QED BY <2>1 DEF D!Next, D!End, Eating
<1> QED BY <1>1, <1>3, <1>4, <1>5 DEF Next, Main, Step

\* Philosophers that use a common chopstick never eat at the same time.
THEOREM DiningImplemented == Spec => ImplementsDining
<1>1. IndInv => TypeOK /\ EatersAreNoRivals
  BY EatersApart DEF IndInv
<1>2. TypeOK /\ EatersAreNoRivals' /\ [Next]_vars => [D!Next]_Eating
  BY StepDines
<1>3. Init => D!Init
  BY DEF Init, D!Init, Eating
<1> QED BY <1>1, <1>2, <1>3, IndInvHolds, PTL DEF Spec, ImplementsDining, D!Spec
=============================================================================
