----------------------- MODULE PhilosopherMutexProofs -----------------------
(***************************************************************************)
(* What is proved of philospher/philospher_mutex.c, for every number of    *)
(* philosophers and each of the eating functions: types, the               *)
(* agreement of locks and code, the implementation of Dining, and the      *)
(* absence of circular waits in the functions that lock in an order.       *)
(***************************************************************************)
EXTENDS PhilosopherMutex, WellFoundedInduction, TLAPS

(* The table *)

\* The right chopsticks, without the remainder.
LEMMA RightValue ==
  ASSUME NEW x \in Phil
  PROVE  Right(x) = IF x = NUM - 1 THEN 0 ELSE IF x = NUM THEN 1 ELSE x + 1
<1>1. CASE x = NUM - 1
  BY <1>1, NumAssumption DEF Right, Phil
<1>2. CASE x = NUM
  BY <1>2, NumAssumption DEF Right, Phil
<1>3. CASE x < NUM - 1
  BY <1>3, NumAssumption DEF Right, Phil
<1> QED BY <1>1, <1>2, <1>3, NumAssumption DEF Phil

\* A philosopher uses two different chopsticks, in one order or the other.
LEMMA TwoChopsticks ==
  ASSUME NEW x \in Phil
  PROVE  /\ Left(x) \in Chopstick /\ Right(x) \in Chopstick
         /\ Left(x) # Right(x)
         /\ First(x) \in Chopstick /\ Second(x) \in Chopstick
         /\ First(x) # Second(x)
         /\ Reach(x) = {First(x), Second(x)}
<1>1. Left(x) \in Chopstick /\ Right(x) \in Chopstick /\ Left(x) # Right(x)
  BY RightValue, NumAssumption DEF Left, Phil, Chopstick
<1> QED BY <1>1 DEF First, Second, Reach

\* No step changes the eating function, nor therefore the order of the chopsticks.
LEMMA OrderIsFixed ==
  ASSUME [Next]_vars
  PROVE  /\ eat' = eat
         /\ \A x \in Phil : First(x)' = First(x)
<1>1. eat' = eat
  BY DEF Next, Main, Step, Create, CreateFails, Hunger, Take, TryAgain, GiveUp, Relock,
         PutLeft, PutRight, vars
<1> QED BY <1>1 DEF First, LeftFirst

\* What a philosopher holds at each place.
LEMMA HeldValue ==
  ASSUME NEW x \in Phil
  PROVE  /\ pc[x] = "second" => Held(x) = {First(x)}
         /\ pc[x] \in {"eating", "relock"} => Held(x) = {Left(x), Right(x)}
         /\ pc[x] = "putRight" => Held(x) = {Right(x)}
         /\ pc[x] \notin {"second", "eating", "relock", "putRight"} => Held(x) = {}
<1>1. First(x) \in Reach(x) /\ Reach(x) = {Left(x), Right(x)}
  BY DEF Reach, First
<1> QED BY <1>1 DEF Held

\* The same after a step.
LEMMA HeldNext ==
  ASSUME NEW x \in Phil, First(x)' = First(x)
  PROVE  /\ pc'[x] = "second" => Held(x)' = {First(x)}
         /\ pc'[x] \in {"eating", "relock"} => Held(x)' = {Left(x), Right(x)}
         /\ pc'[x] = "putRight" => Held(x)' = {Right(x)}
         /\ pc'[x] \notin {"second", "eating", "relock", "putRight"} => Held(x)' = {}
<1>1. First(x) \in Reach(x) /\ Reach(x) = {Left(x), Right(x)}
  BY DEF Reach, First
<1> QED BY <1>1 DEF Held

\* Nobody is no philosopher.
LEMMA NobodyEats == Nobody \notin Phil
BY DEF Nobody, Phil

-----------------------------------------------------------------------------
(* Types, and the agreement of the locks with the code *)

IndInv == TypeOK /\ LocksMatchCode

LEMMA InitIndInv == Init => IndInv
<1> SUFFICES ASSUME Init PROVE IndInv
  OBVIOUS
<1>1. TypeOK
  BY MaxTriesAssumption DEF Init, TypeOK, Phases, Waiting
<1>2. LocksMatchCode
  BY NobodyEats DEF Init, LocksMatchCode, Held
<1> QED BY <1>1, <1>2 DEF IndInv

LEMMA NextIndInv == IndInv /\ [Next]_vars => IndInv'
<1> SUFFICES ASSUME IndInv, [Next]_vars PROVE IndInv'
  OBVIOUS
<1> USE DEF IndInv
<1>0. eat' = eat /\ \A x \in Phil : First(x)' = First(x)
  BY OrderIsFixed
<1> USE <1>0
<1>1. CASE UNCHANGED vars
  <2>1. TypeOK'
    BY <1>1 DEF vars, TypeOK
  <2>2. \A q \in Phil : Held(q)' = Held(q)
    BY <1>1 DEF vars, Held
  <2> QED BY <1>1, <2>1, <2>2 DEF vars, LocksMatchCode
<1>2. ASSUME NEW p \in Phil, Create(p) PROVE IndInv'
  <2>1. TypeOK'
    BY <1>2 DEF Create, Goto, TypeOK, Phases
  <2>2. \A q \in Phil : Held(q)' = Held(q)
    BY <1>2 DEF Create, Goto, TypeOK, Held
  <2> QED BY <1>2, <2>1, <2>2 DEF Create, LocksMatchCode
<1>3. CASE CreateFails
  <2>1. TypeOK'
    BY <1>3 DEF CreateFails, TypeOK
  <2>2. \A q \in Phil : Held(q)' = Held(q)
    BY <1>3 DEF CreateFails, Held
  <2> QED BY <1>3, <2>1, <2>2 DEF CreateFails, LocksMatchCode
<1>4. ASSUME NEW p \in Phil, Hunger(p) PROVE IndInv'
  <2>1. TypeOK'
    BY <1>4, MaxTriesAssumption DEF Hunger, Goto, TypeOK, Phases, Waiting
  <2>2. \A q \in Phil : Held(q)' = Held(q)
    BY <1>4 DEF Hunger, Goto, TypeOK, Held
  <2> QED BY <1>4, <2>1, <2>2 DEF Hunger, LocksMatchCode
<1>5. ASSUME NEW p \in Phil, Take(p) PROVE IndInv'
  <2>0. pc[p] # "relock"
    <3> SUFFICES ASSUME pc[p] = "relock" PROVE FALSE
      OBVIOUS
    <3>1. mut[Left(p)] = p
      BY TwoChopsticks, HeldValue DEF LocksMatchCode
    <3>2. Want(p) = Left(p)
      BY DEF Want
    <3> QED BY <1>5, <3>1, <3>2, NobodyEats DEF Take
  <2>1. /\ Want(p) \in Chopstick /\ mut[Want(p)] = Nobody
        /\ mut' = [mut EXCEPT ![Want(p)] = p]
    <3>1. Want(p) \in Chopstick
      BY <1>5, <2>0, TwoChopsticks DEF Take, Want, Waiting
    <3> QED BY <1>5, <3>1 DEF Take
  <2>2. TypeOK'
    <3>1. pc' \in [Phil -> Phases]
      BY <1>5 DEF Take, Goto, TypeOK, Phases, Waiting
    <3>2. mut' \in [Chopstick -> Phil \cup {Nobody}]
      BY <2>1 DEF TypeOK
    <3> QED BY <1>5, <3>1, <3>2 DEF Take, TypeOK
  <2>3. Held(p)' = Held(p) \cup {Want(p)}
    <3>1. CASE pc[p] = "first"
      <4>1. Want(p) = First(p) /\ pc'[p] = "second"
        BY <1>5, <3>1 DEF Take, Goto, TypeOK, Want
      <4> QED BY <3>1, <4>1, HeldValue, HeldNext
    <3>2. CASE pc[p] = "second"
      <4>1. Want(p) = Second(p) /\ pc'[p] = "eating"
        BY <1>5, <3>2 DEF Take, Goto, TypeOK, Want
      <4>2. {Left(p), Right(p)} = {First(p), Second(p)}
        BY TwoChopsticks DEF Reach
      <4> QED BY <3>2, <4>1, <4>2, HeldValue, HeldNext
    <3> QED BY <1>5, <2>0, <3>1, <3>2 DEF Take, Waiting
  <2>4. \A q \in Phil \ {p} : Held(q)' = Held(q)
    BY <1>5 DEF Take, Goto, TypeOK, Held
  <2>5. LocksMatchCode'
    <3> SUFFICES ASSUME NEW c \in Chopstick, NEW q \in Phil
                 PROVE  mut'[c] = q <=> c \in Held(q)'
      BY DEF LocksMatchCode
    <3>1. mut[c] = q <=> c \in Held(q)
      BY DEF LocksMatchCode
    <3>2. CASE c = Want(p)
      BY <2>1, <2>3, <2>4, <3>1, <3>2, NobodyEats DEF TypeOK
    <3>3. CASE c # Want(p)
      BY <2>1, <2>3, <2>4, <3>1, <3>3 DEF TypeOK
    <3> QED BY <3>2, <3>3
  <2> QED BY <2>2, <2>5
<1>6. ASSUME NEW p \in Phil, TryAgain(p) PROVE IndInv'
  <2>1. TypeOK'
    BY <1>6, MaxTriesAssumption DEF TryAgain, TypeOK
  <2> QED BY <1>6, <2>1 DEF TryAgain, LocksMatchCode, Held
<1>7. ASSUME NEW p \in Phil, GiveUp(p) PROVE IndInv'
  <2>1. TypeOK'
    BY <1>7, TwoChopsticks DEF GiveUp, Goto, TypeOK, Phases
  <2>2. Held(p) = {Left(p)} /\ Held(p)' = {}
    <3>1. First(p) = Left(p) /\ pc[p] = "second" /\ pc'[p] = "thinking"
      BY <1>7 DEF GiveUp, Fails, Goto, TypeOK, First, LeftFirst
    <3> QED BY <3>1, HeldValue, HeldNext
  <2>3. \A q \in Phil \ {p} : Held(q)' = Held(q)
    BY <1>7 DEF GiveUp, Goto, TypeOK, Held
  <2> QED BY <1>7, <2>1, <2>2, <2>3, TwoChopsticks, NobodyEats
       DEF GiveUp, LocksMatchCode, TypeOK
<1>8. ASSUME NEW p \in Phil, Relock(p) PROVE IndInv'
  <2>1. TypeOK'
    BY <1>8 DEF Relock, Goto, TypeOK, Phases, Waiting
  <2>2. \A q \in Phil : Held(q)' = Held(q)
    BY <1>8 DEF Relock, Goto, TypeOK, Held
  <2> QED BY <1>8, <2>1, <2>2 DEF Relock, LocksMatchCode
<1>9. ASSUME NEW p \in Phil, PutLeft(p) PROVE IndInv'
  <2>1. TypeOK'
    BY <1>9, TwoChopsticks DEF PutLeft, Goto, TypeOK, Phases
  <2>2. Held(p) = {Left(p), Right(p)} /\ Held(p)' = {Right(p)}
    BY <1>9, HeldValue, HeldNext DEF PutLeft, Goto, TypeOK
  <2>3. \A q \in Phil \ {p} : Held(q)' = Held(q)
    BY <1>9 DEF PutLeft, Goto, TypeOK, Held
  <2> QED BY <1>9, <2>1, <2>2, <2>3, TwoChopsticks, NobodyEats
       DEF PutLeft, LocksMatchCode, TypeOK
<1>10. ASSUME NEW p \in Phil, PutRight(p) PROVE IndInv'
  <2>1. TypeOK'
    BY <1>10, TwoChopsticks DEF PutRight, Goto, TypeOK, Phases
  <2>2. Held(p) = {Right(p)} /\ Held(p)' = {}
    BY <1>10, HeldValue, HeldNext DEF PutRight, Goto, TypeOK
  <2>3. \A q \in Phil \ {p} : Held(q)' = Held(q)
    BY <1>10 DEF PutRight, Goto, TypeOK, Held
  <2> QED BY <1>10, <2>1, <2>2, <2>3, TwoChopsticks, NobodyEats
       DEF PutRight, LocksMatchCode, TypeOK
<1> QED BY <1>1, <1>2, <1>3, <1>4, <1>5, <1>6, <1>7, <1>8, <1>9, <1>10
     DEF Next, Main, Step

\* Every variable keeps its type.
THEOREM TypeCorrect == Spec => []TypeOK
<1>1. Init => IndInv
  BY InitIndInv
<1>2. IndInv /\ [Next]_vars => IndInv'
  BY NextIndInv
<1>3. IndInv => TypeOK
  BY DEF IndInv
<1> QED BY <1>1, <1>2, <1>3, PTL DEF Spec

\* A chopstick is locked by exactly the philosopher whose place in the code says
\* so: no eating function leaves one locked, eat()'s giving up included.
THEOREM LocksCorrect == Spec => []LocksMatchCode
<1>1. Init => IndInv
  BY InitIndInv
<1>2. IndInv /\ [Next]_vars => IndInv'
  BY NextIndInv
<1>3. IndInv => LocksMatchCode
  BY DEF IndInv
<1> QED BY <1>1, <1>2, <1>3, PTL DEF Spec

-----------------------------------------------------------------------------
(* Implementation of Dining *)

EatersAreNoRivals == \A p, q \in Eating : <<p, q>> \notin Rivals

\* Two philosophers that eat hold all they reach for, so they are no rivals.
LEMMA EatersApart == LocksMatchCode => EatersAreNoRivals
<1> SUFFICES ASSUME LocksMatchCode, NEW p \in Eating, NEW q \in Eating, <<p, q>> \in Rivals
             PROVE  FALSE
  BY DEF EatersAreNoRivals
<1>1. p \in Phil /\ q \in Phil /\ p # q
  BY DEF Rivals, Eating
<1>2. PICK c : c \in {Left(p), Right(p)} /\ c \in {Left(q), Right(q)}
  BY DEF Rivals, Reach
<1>3. c \in Held(p) /\ c \in Held(q)
  BY <1>1, <1>2, HeldValue DEF Eating
<1>4. c \in Chopstick
  BY <1>1, <1>2, TwoChopsticks
<1> QED BY <1>1, <1>3, <1>4 DEF LocksMatchCode

\* A step begins a meal, ends one, or changes nothing Dining sees.
LEMMA StepDines == TypeOK /\ EatersAreNoRivals' /\ [Next]_vars => [D!Next]_Eating
<1> SUFFICES ASSUME TypeOK, EatersAreNoRivals', [Next]_vars PROVE [D!Next]_Eating
  OBVIOUS
<1>1. CASE UNCHANGED vars
  BY <1>1 DEF vars, Eating
<1>2. CASE CreateFails
  BY <1>2 DEF CreateFails, Eating
<1>3. ASSUME NEW p \in Phil, Create(p) \/ Hunger(p) \/ GiveUp(p) \/ PutRight(p)
      PROVE  [D!Next]_Eating
  <2>1. pc[p] \notin {"eating", "relock"} /\ pc'[p] \notin {"eating", "relock"}
    BY <1>3 DEF Create, Hunger, GiveUp, Fails, PutRight, Goto, TypeOK
  <2>2. \A q \in Phil \ {p} : pc'[q] = pc[q]
    BY <1>3 DEF Create, Hunger, GiveUp, PutRight, Goto, TypeOK
  <2> QED BY <2>1, <2>2 DEF Eating
<1>4. ASSUME NEW p \in Phil, TryAgain(p) PROVE [D!Next]_Eating
  BY <1>4 DEF TryAgain, Eating
<1>5. ASSUME NEW p \in Phil, Take(p) PROVE [D!Next]_Eating
  <2>1. \A q \in Phil \ {p} : pc'[q] = pc[q]
    BY <1>5 DEF Take, Goto, TypeOK
  <2>2. CASE pc[p] = "first"
    <3>1. pc'[p] = "second"
      BY <1>5, <2>2 DEF Take, Goto, TypeOK
    <3> QED BY <2>1, <2>2, <3>1 DEF Eating
  <2>3. CASE pc[p] = "second"
    <3>1. pc'[p] = "eating"
      BY <1>5, <2>3 DEF Take, Goto, TypeOK
    <3>2. p \notin Eating /\ Eating' = Eating \cup {p}
      BY <2>1, <2>3, <3>1 DEF Eating
    <3>3. \A q \in Eating : <<p, q>> \notin Rivals
      BY <3>2 DEF EatersAreNoRivals
    <3> QED BY <3>2, <3>3 DEF D!Next, D!Begin
  <2>4. CASE pc[p] = "relock"
    <3>1. pc'[p] = "eating"
      BY <1>5, <2>4 DEF Take, Goto, TypeOK
    <3> QED BY <2>1, <2>4, <3>1 DEF Eating
  <2> QED BY <1>5, <2>2, <2>3, <2>4 DEF Take, Waiting
<1>6. ASSUME NEW p \in Phil, Relock(p) PROVE [D!Next]_Eating
  <2>1. pc[p] = "eating" /\ pc'[p] = "relock" /\ \A q \in Phil \ {p} : pc'[q] = pc[q]
    BY <1>6 DEF Relock, Goto, TypeOK
  <2> QED BY <2>1 DEF Eating
<1>7. ASSUME NEW p \in Phil, PutLeft(p) PROVE [D!Next]_Eating
  <2>1. pc[p] = "eating" /\ pc'[p] = "putRight" /\ \A q \in Phil \ {p} : pc'[q] = pc[q]
    BY <1>7 DEF PutLeft, Goto, TypeOK
  <2>2. p \in Eating /\ Eating' = Eating \ {p}
    BY <2>1 DEF Eating
  <2> QED BY <2>2 DEF D!Next, D!End, Eating
<1> QED BY <1>1, <1>2, <1>3, <1>4, <1>5, <1>6, <1>7 DEF Next, Main, Step

\* Whatever the eating function and the number of philosophers, two that use a
\* common chopstick never eat at the same time: the program implements Dining.
THEOREM DiningImplemented == Spec => ImplementsDining
<1>1. Init => IndInv
  BY InitIndInv
<1>2. IndInv /\ [Next]_vars => IndInv'
  BY NextIndInv
<1>3. IndInv => TypeOK /\ EatersAreNoRivals
  BY EatersApart DEF IndInv
<1>4. TypeOK /\ EatersAreNoRivals' /\ [Next]_vars => [D!Next]_Eating
  BY StepDines
<1>5. Init => D!Init
  BY DEF Init, D!Init, Eating
<1> QED BY <1>1, <1>2, <1>3, <1>4, <1>5, PTL DEF Spec, ImplementsDining, D!Spec

-----------------------------------------------------------------------------
(* No circular waits *)

\* Only eat() locks a chopstick it has.
RelockOnlyInEat == \A p \in Phil : pc[p] = "relock" => eat = "eat"

\* No step of another function leads there.
LEMMA NextRelock == TypeOK /\ RelockOnlyInEat /\ [Next]_vars => RelockOnlyInEat'
<1> SUFFICES ASSUME TypeOK, RelockOnlyInEat, [Next]_vars, NEW q \in Phil, pc'[q] = "relock"
             PROVE  eat = "eat"
  BY OrderIsFixed DEF RelockOnlyInEat
<1>1. CASE pc'[q] = pc[q]
  BY <1>1 DEF RelockOnlyInEat
<1>2. CASE pc'[q] # pc[q]
  BY <1>2 DEF Next, Main, Step, Create, CreateFails, Hunger, Take, TryAgain, GiveUp, Relock,
              PutLeft, PutRight, Goto, TypeOK, vars
<1> QED BY <1>1, <1>2

\* A circle of philosophers each waiting for the next, seen from the chopsticks: the
\* second chopstick of everyone is the first of someone else in it.
Circle(S) == S # {} /\ S \subseteq Phil /\ \A q \in S : \E r \in S : Second(q) = First(r)

\* A circular wait contains such a circle.
LEMMA WaitersMakeCircle ==
  ASSUME LocksMatchCode, RelockOnlyInEat, eat # "eat", CircularWait
  PROVE  \E S : Circle(S)
<1>1. PICK W \in SUBSET Phil :
        W # {} /\ \A p \in W : pc[p] \in Waiting /\ mut[Want(p)] \in W
  BY DEF CircularWait
<1>2. \A p \in W : pc[p] \in {"first", "second"}
  BY <1>1 DEF RelockOnlyInEat, Waiting
<1>3. \A p \in W : pc[mut[Want(p)]] = "second" /\ Want(p) = First(mut[Want(p)])
  <2> SUFFICES ASSUME NEW p \in W, NEW q \in W, mut[Want(p)] = q
               PROVE  pc[q] = "second" /\ Want(p) = First(q)
    BY <1>1
  <2>1. Want(p) \in Chopstick
    BY <1>2, TwoChopsticks DEF Want
  <2>2. Want(p) \in Held(q)
    BY <2>1 DEF LocksMatchCode
  <2> QED BY <1>2, <2>2, HeldValue
<1> DEFINE S == {q \in W : pc[q] = "second"}
<1>4. S # {}
  BY <1>1, <1>3
<1>5. \A q \in S : \E r \in S : Second(q) = First(r)
  <2> SUFFICES ASSUME NEW q \in S PROVE \E r \in S : Second(q) = First(r)
    OBVIOUS
  <2>1. Want(q) = Second(q) /\ mut[Want(q)] \in S
    BY <1>1, <1>3 DEF Want
  <2> QED BY <1>3, <2>1
<1> QED BY <1>4, <1>5 DEF Circle

\* Locking in an order that alternates from neighbour to neighbour: in a circle two
\* neighbours would start on different sides of the chopstick they share.
LEMMA AlternatingHasNoCircle ==
  ASSUME eat \in {"eat_change_lock", "eat_with_trylock"}, NEW S, Circle(S)
  PROVE  FALSE
<1>1. PICK q \in S : TRUE
  BY DEF Circle
<1>2. PICK r \in S : Second(q) = First(r)
  BY <1>1 DEF Circle
<1>3. PICK t \in S : Second(r) = First(t)
  BY <1>2 DEF Circle
<1>4. q \in Phil /\ r \in Phil /\ t \in Phil
  BY DEF Circle
<1>5. CASE eat = "eat_change_lock"
  <2>1. \A x \in Phil : /\ x % 2 = 0 => First(x) = x /\ Second(x) = Right(x)
                        /\ x % 2 = 1 => First(x) = Right(x) /\ Second(x) = x
    BY <1>5 DEF First, Second, LeftFirst, Left
  <2> QED BY <1>2, <1>3, <1>4, <2>1, RightValue, NumAssumption, SMTT(30) DEF Phil
<1>6. CASE eat = "eat_with_trylock"
  <2>1. \A x \in Phil : /\ x % 2 = 1 => First(x) = x /\ Second(x) = Right(x)
                        /\ x % 2 = 0 => First(x) = Right(x) /\ Second(x) = x
    BY <1>6 DEF First, Second, LeftFirst, Left, Phil
  <2> QED BY <1>2, <1>3, <1>4, <2>1, RightValue, NumAssumption, SMTT(30) DEF Phil
<1> QED BY <1>5, <1>6

\* Locking the left chopstick first: philosopher x < NUM - 1 waits for x + 1,
\* philosopher NUM for 1, and NUM - 1 for chopstick 0, which nobody starts with; so
\* the one nearest to NUM - 1 breaks the circle.
LEMMA LeftFirstHasNoCircle ==
  ASSUME eat = "eat_with_lock", NEW S, Circle(S)
  PROVE  FALSE
<1>1. \A x \in Phil : First(x) = x /\ Second(x) = Right(x)
  BY DEF First, Second, LeftFirst, Left
<1>2. \A x \in S : Right(x) \in S
  BY <1>1 DEF Circle
<1>3. \A x \in S : x # NUM - 1
  <2> SUFFICES ASSUME NUM - 1 \in S PROVE FALSE
    OBVIOUS
  <2>1. NUM - 1 \in Phil /\ Right(NUM - 1) \in Phil
    BY <1>2 DEF Circle
  <2> QED BY <2>1, RightValue DEF Phil
<1> DEFINE T == {n \in Nat : \E x \in S : x < NUM - 1 /\ n = NUM - 1 - x}
<1>4. T # {}
  <2>1. PICK x \in S : x \in Phil
    BY DEF Circle
  <2>2. CASE x < NUM - 1
    <3>1. NUM - 1 - x \in Nat
      BY <2>1, <2>2, NumAssumption DEF Phil
    <3> QED BY <2>2, <3>1
  <2>3. CASE x = NUM
    <3>1. 1 \in S
      BY <1>2, <2>1, <2>3, RightValue, NumAssumption DEF Phil
    <3>2. 1 < NUM - 1 /\ NUM - 1 - 1 \in Nat
      BY <1>3, <3>1, NumAssumption
    <3> QED BY <3>1, <3>2
  <2> QED BY <1>3, <2>1, <2>2, <2>3, NumAssumption DEF Phil
<1>5. PICK n \in T : \A m \in T : ~(m < n)
  <2>1. PICK n \in T : \A m \in T : <<m, n>> \notin OpToRel(<, Nat)
    BY <1>4, NatLessThanWellFounded, WFMin
  <2>2. \A m \in T : m < n => <<m, n>> \in OpToRel(<, Nat)
    BY DEF OpToRel
  <2> QED BY <2>1, <2>2
<1>6. PICK x \in S : x < NUM - 1 /\ n = NUM - 1 - x
  BY <1>5
<1>7. x \in Phil /\ x + 1 \in S
  BY <1>2, <1>6, RightValue, NumAssumption DEF Circle, Phil
<1>8. x + 1 < NUM - 1 /\ NUM - 1 - (x + 1) \in Nat
  BY <1>3, <1>6, <1>7, NumAssumption DEF Phil
<1>9. NUM - 1 - (x + 1) \in T
  BY <1>7, <1>8
<1> QED BY <1>5, <1>6, <1>7, <1>9, NumAssumption DEF Phil

\* In the three eating functions that unlock what they have locked, no philosophers
\* ever wait for one another in a circle, however many there are; that includes
\* eat_with_lock, of which philospher_mutex.c:78 says that it will deadlock.
THEOREM NoCircles == Spec => []NoCircularWait
<1>1. Init => IndInv /\ RelockOnlyInEat
  BY InitIndInv DEF Init, RelockOnlyInEat
<1>2. IndInv /\ [Next]_vars => IndInv'
  BY NextIndInv
<1>3. IndInv /\ RelockOnlyInEat /\ [Next]_vars => RelockOnlyInEat'
  BY NextRelock DEF IndInv
<1>4. IndInv /\ RelockOnlyInEat => NoCircularWait
  <2> SUFFICES ASSUME IndInv, RelockOnlyInEat, eat # "eat", CircularWait PROVE FALSE
    BY DEF NoCircularWait
  <2>1. PICK S : Circle(S)
    BY WaitersMakeCircle DEF IndInv
  <2>2. eat \in {"eat_change_lock", "eat_with_trylock"} \/ eat = "eat_with_lock"
    BY FunctionsAssumption DEF IndInv, TypeOK
  <2> QED BY <2>1, <2>2, AlternatingHasNoCircle, LeftFirstHasNoCircle
<1> QED BY <1>1, <1>2, <1>3, <1>4, PTL DEF Spec
=============================================================================
