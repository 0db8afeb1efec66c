----------------------------- MODULE CallLevels -----------------------------
(***************************************************************************)
(* What a recursive procedure comes to: the set of the arguments of its    *)
(* calls at each depth, where Step gives the calls that those of one depth *)
(* make.  The procedure may be anything, so its recursion is a parameter;  *)
(* that the levels are what the recursion says is proved once and for all. *)
(***************************************************************************)
EXTENDS Naturals, WellFoundedInduction, TLAPS

CONSTANT Step(_, _)

CallsAt(first) ==
    LET calls[depth \in Nat] ==
          IF depth = 0 THEN first ELSE Step(calls[depth - 1], depth - 1)
    IN calls

-----------------------------------------------------------------------------
LEMMA LeastDepth ==
  ASSUME NEW T \in SUBSET Nat, T # {}
  PROVE  \E x \in T : \A y \in T : x <= y
<1> DEFINE R == OpToRel(<, Nat)
<1>1. IsWellFoundedOn(R, Nat)
  BY NatLessThanWellFounded
<1>2. \A x, y \in Nat : <<y, x>> \in R <=> y < x
  BY DEF OpToRel
<1> HIDE DEF R
<1>3. PICK x \in T : \A y \in T : <<y, x>> \notin R
  BY <1>1, WFMin
<1>4. ASSUME NEW y \in T PROVE x <= y
  <2>1. x \in Nat /\ y \in Nat
    OBVIOUS
  <2>2. ~(y < x)
    BY <1>2, <1>3, <2>1
  <2> QED
    BY <2>1, <2>2
<1> QED
  BY <1>4

(* Induction over the depth, as a fact about sets: what holds of the first  *)
(* call and passes from each depth to the next holds at every depth.        *)
THEOREM DepthInduction ==
  ASSUME NEW S, 0 \in S, \A n \in Nat : n \in S => n + 1 \in S
  PROVE  Nat \subseteq S
<1> DEFINE T == Nat \ S
<1> SUFFICES ASSUME T # {} PROVE FALSE
  OBVIOUS
<1>1. PICK x \in T : \A y \in T : x <= y
  BY LeastDepth
<1>2. x \in Nat /\ x # 0
  BY <1>1
<1>3. x - 1 \in Nat /\ ~(x <= x - 1) /\ (x - 1) + 1 = x
  BY <1>2
<1>4. x - 1 \in S
  BY <1>1, <1>3
<1> QED
  BY <1>1, <1>3, <1>4

(* The levels down to a depth, and no further.                              *)
Unrolled(first, n, calls) ==
    /\ calls[0] = first
    /\ \A d \in Nat : d < n => calls[d + 1] = Step(calls[d], d)

LEMMA UnrolledExists ==
  ASSUME NEW first
  PROVE  \A n \in Nat : \E calls : Unrolled(first, n, calls)
<1> DEFINE S == {n \in Nat : \E calls : Unrolled(first, n, calls)}
<1>1. 0 \in S
  <2>1. Unrolled(first, 0, [d \in Nat |-> first])
    BY DEF Unrolled
  <2> QED
    BY <2>1
<1>2. ASSUME NEW n \in Nat, n \in S PROVE n + 1 \in S
  <2>1. PICK calls : Unrolled(first, n, calls)
    BY <1>2
  <2> DEFINE more == [d \in Nat |-> IF d <= n THEN calls[d] ELSE Step(calls[n], n)]
  <2>2. more[0] = first
    BY <2>1 DEF Unrolled
  <2>3. ASSUME NEW d \in Nat, d < n + 1 PROVE more[d + 1] = Step(more[d], d)
    <3>1. d + 1 \in Nat /\ d <= n /\ more[d] = calls[d]
      BY <2>3
    <3>2. CASE d < n
      <4>1. more[d + 1] = calls[d + 1]
        BY <3>1, <3>2
      <4> QED
        BY <2>1, <3>1, <3>2, <4>1 DEF Unrolled
    <3>3. CASE d = n
      <4>1. more[d + 1] = Step(calls[n], n)
        BY <3>1, <3>3
      <4> QED
        BY <3>1, <3>3, <4>1
    <3> QED
      BY <3>1, <3>2, <3>3
  <2> HIDE DEF more
  <2>4. Unrolled(first, n + 1, more)
    BY <2>2, <2>3 DEF Unrolled
  <2> QED
    BY <2>4
<1> HIDE DEF S
<1>3. Nat \subseteq S
  BY <1>1, <1>2, DepthInduction
<1> QED
  BY <1>3 DEF S

LEMMA UnrolledAgree ==
  ASSUME NEW first, NEW m \in Nat, NEW n \in Nat, m <= n, NEW f, NEW g,
         Unrolled(first, m, f), Unrolled(first, n, g)
  PROVE  f[m] = g[m]
<1> DEFINE S == {d \in Nat : d <= m => f[d] = g[d]}
<1>1. 0 \in S
  BY DEF Unrolled
<1>2. ASSUME NEW d \in Nat, d \in S PROVE d + 1 \in S
  <2> SUFFICES ASSUME d + 1 <= m PROVE f[d + 1] = g[d + 1]
    OBVIOUS
  <2>1. d < m /\ d < n /\ d <= m
    OBVIOUS
  <2>2. f[d] = g[d]
    BY <1>2, <2>1
  <2> QED
    BY <2>1, <2>2 DEF Unrolled
<1> HIDE DEF S
<1>3. m \in S
  BY <1>1, <1>2, DepthInduction
<1> QED
  BY <1>3 DEF S

(* The levels exist and are what the recursion says, whatever the calls     *)
(* are: the first call alone at depth 0, and then what each level calls.    *)
LEMMA LevelsOfCalls ==
  ASSUME NEW first
  PROVE  /\ CallsAt(first)[0] = first
         /\ \A d \in Nat : CallsAt(first)[d + 1] = Step(CallsAt(first)[d], d)
<1> DEFINE Upto(n) == CHOOSE calls : Unrolled(first, n, calls)
           Body(calls) == [d \in Nat |-> IF d = 0 THEN first ELSE Step(calls[d - 1], d - 1)]
           f == [d \in Nat |-> Upto(d)[d]]
<1>1. ASSUME NEW n \in Nat PROVE Unrolled(first, n, Upto(n))
  BY UnrolledExists
<1> HIDE DEF Upto
<1>2. ASSUME NEW d \in Nat PROVE f[d] = IF d = 0 THEN first ELSE Step(f[d - 1], d - 1)
  <2>1. CASE d = 0
    BY <1>1, <2>1 DEF Unrolled
  <2>2. CASE d # 0
    <3>1. d - 1 \in Nat /\ d - 1 < d /\ d - 1 <= d /\ (d - 1) + 1 = d
      BY <2>2
    <3>2. Upto(d)[d] = Step(Upto(d)[d - 1], d - 1)
      BY <1>1, <3>1 DEF Unrolled
    <3>3. Upto(d - 1)[d - 1] = Upto(d)[d - 1]
      BY <1>1, <3>1, UnrolledAgree
    <3>4. f[d] = Upto(d)[d] /\ f[d - 1] = Upto(d - 1)[d - 1]
      BY <3>1
    <3> QED
      BY <2>2, <3>2, <3>3, <3>4
  <2> QED
    BY <2>1, <2>2
<1>3. f = Body(f)
  BY <1>2
<1>4. CallsAt(first) = CHOOSE calls : calls = Body(calls)
  BY DEF CallsAt
<1> HIDE DEF f, Body
<1>5. CallsAt(first) = Body(CallsAt(first))
  BY <1>3, <1>4
<1>6. ASSUME NEW d \in Nat
      PROVE  CallsAt(first)[d] = IF d = 0 THEN first
                                 ELSE Step(CallsAt(first)[d - 1], d - 1)
  BY <1>5 DEF Body
<1>7. ASSUME NEW d \in Nat PROVE CallsAt(first)[d + 1] = Step(CallsAt(first)[d], d)
  <2>1. d + 1 \in Nat /\ d + 1 # 0 /\ (d + 1) - 1 = d
    OBVIOUS
  <2> QED
    BY <1>6, <2>1
<1> QED
  BY <1>6, <1>7
=============================================================================
