---------------------------- MODULE BroadcastProofs ----------------------------
(***************************************************************************)
(* Theorems about Broadcast, for any number of operations and validators,  *)
(* of either protocol, and any limits.                                     *)
(***************************************************************************)
EXTENDS BroadcastProperties, WellFoundedInduction, TLAPS

-----------------------------------------------------------------------------
(* Induction: the installed provers cannot instantiate the induction       *)
(* theorems of the library, whose parameter is an operator.  A set of      *)
(* numbers takes its place.                                                *)

Less == {ss \in Nat \X Nat : ss[1] < ss[2]}

\* The order of the numbers, as the set of pairs the library speaks of
LEMMA LessIsWellFounded == IsWellFoundedOn(Less, Nat)
  BY NatLessThanWellFounded DEF OpToRel, Less

\* A set with 0 that is closed under successor has all numbers.
LEMMA InductionOnNat ==
  ASSUME NEW A, A \subseteq Nat, 0 \in A, \A n \in A : n + 1 \in A
  PROVE  A = Nat
<1>. DEFINE B == Nat \ A
<1>. SUFFICES ASSUME B # {} PROVE FALSE
  OBVIOUS
<1>1. \E x \in B : \A y \in B : ~(<<y, x>> \in Less)
  <2>1. B \subseteq Nat
    OBVIOUS
  <2>. HIDE DEF B
  <2>. QED
    BY <2>1, LessIsWellFounded, WFMin
<1>2. \E x \in B : \A y \in B : ~(y < x)
  <2>1. \A x, y \in Nat : y < x => <<y, x>> \in Less
    BY DEF Less
  <2>. QED
    BY <1>1, <2>1
<1>3. PICK x \in B : \A y \in B : ~(y < x)
  BY <1>2
<1>4. x - 1 \in A /\ x = (x - 1) + 1
  BY <1>3
<1>. QED
  BY <1>3, <1>4

-----------------------------------------------------------------------------
(* AttemptsWithin is what its equation says.                               *)

\* f is AttemptsWithin as far as n.
Unfolds(f, n) ==
  /\ f \in [0..n -> Nat]
  /\ f[0] = 0
  /\ \A i \in 1..n : f[i] = 1 + 2 * f[i - 1]

\* The recurrence has a solution as far as any n.
LEMMA UnfoldsExists == \A n \in Nat : \E f : Unfolds(f, n)
<1>. DEFINE A == {n \in Nat : \E f : Unfolds(f, n)}
<1>1. 0 \in A
  <2>1. Unfolds([i \in 0..0 |-> 0], 0)
    BY DEF Unfolds
  <2>. QED
    BY <2>1
<1>2. ASSUME NEW n \in A PROVE n + 1 \in A
  <2>1. PICK f : Unfolds(f, n)
    OBVIOUS
  <2>. DEFINE g == [i \in 0..n + 1 |-> IF i <= n THEN f[i] ELSE 1 + 2 * f[n]]
  <2>2. n \in Nat /\ f \in [0..n -> Nat] /\ f[n] \in Nat
    BY <2>1 DEF Unfolds
  <2>3. g \in [0..n + 1 -> Nat] /\ g[0] = 0
    BY <2>1, <2>2 DEF Unfolds
  <2>4. ASSUME NEW i \in 1..n + 1 PROVE g[i] = 1 + 2 * g[i - 1]
    <3>1. CASE i <= n
      BY <2>1, <2>2, <3>1 DEF Unfolds
    <3>2. CASE i = n + 1
      BY <2>2, <3>2
    <3>. QED
      BY <2>2, <3>1, <3>2
  <2>5. Unfolds(g, n + 1)
    BY <2>3, <2>4 DEF Unfolds
  <2>. QED
    BY <2>2, <2>5
<1>. HIDE DEF A
<1>3. A = Nat
  <2>1. A \subseteq Nat
    BY DEF A
  <2>. QED
    BY <1>1, <1>2, <2>1, InductionOnNat
<1>. QED
  BY <1>3 DEF A

\* Two solutions agree as far as both go.
LEMMA UnfoldsUnique ==
  ASSUME NEW m \in Nat, NEW n \in Nat, NEW f, NEW g, Unfolds(f, m), Unfolds(g, n)
  PROVE  \A i \in Nat : i <= m /\ i <= n => f[i] = g[i]
<1>. DEFINE A == {i \in Nat : i <= m /\ i <= n => f[i] = g[i]}
<1>1. 0 \in A
  BY DEF Unfolds
<1>2. ASSUME NEW i \in A PROVE i + 1 \in A
  <2>. SUFFICES ASSUME i + 1 <= m, i + 1 <= n PROVE f[i + 1] = g[i + 1]
    OBVIOUS
  <2>1. i \in Nat /\ f[i] = g[i] /\ i + 1 \in 1..m /\ i + 1 \in 1..n /\ (i + 1) - 1 = i
    OBVIOUS
  <2>2. f[i + 1] = 1 + 2 * f[i] /\ g[i + 1] = 1 + 2 * g[i]
    BY <2>1 DEF Unfolds
  <2>. QED
    BY <2>1, <2>2
<1>. HIDE DEF A
<1>3. A = Nat
  <2>1. A \subseteq Nat
    BY DEF A
  <2>. QED
    BY <1>1, <1>2, <2>1, InductionOnNat
<1>. QED
  BY <1>3 DEF A

\* So the function that the module defines by the recurrence satisfies it.
LEMMA AttemptsWithinEquation ==
  /\ AttemptsWithin \in [Nat -> Nat]
  /\ AttemptsWithin[0] = 0
  /\ \A n \in Nat : AttemptsWithin[n + 1] = 1 + 2 * AttemptsWithin[n]
<1>. DEFINE Upto(n) == CHOOSE f : Unfolds(f, n)
            whole == [n \in Nat |-> Upto(n)[n]]
<1>1. \A n \in Nat : Unfolds(Upto(n), n)
  BY UnfoldsExists
<1>. HIDE DEF Upto
<1>2. whole \in [Nat -> Nat] /\ whole[0] = 0
  BY <1>1 DEF Unfolds
<1>3. ASSUME NEW n \in Nat PROVE whole[n + 1] = 1 + 2 * whole[n]
  <2>1. Unfolds(Upto(n), n) /\ Unfolds(Upto(n + 1), n + 1)
    BY <1>1
  <2>2. Upto(n + 1)[n] = Upto(n)[n]
    BY <2>1, UnfoldsUnique
  <2>3. n + 1 \in 1..n + 1 /\ (n + 1) - 1 = n
    OBVIOUS
  <2>4. Upto(n + 1)[n + 1] = 1 + 2 * Upto(n + 1)[n]
    BY <2>1, <2>3 DEF Unfolds
  <2>. QED
    BY <2>2, <2>4
<1>. HIDE DEF whole
<1>4. whole = [n \in Nat |-> IF n = 0 THEN 0 ELSE 1 + 2 * whole[n - 1]]
  <2>1. ASSUME NEW n \in Nat, n # 0 PROVE whole[n] = 1 + 2 * whole[n - 1]
    <3>1. n - 1 \in Nat /\ (n - 1) + 1 = n
      BY <2>1
    <3>. QED
      BY <1>3, <3>1
  <2>. QED
    BY <1>2, <2>1
<1>5. AttemptsWithin
        = [n \in Nat |-> IF n = 0 THEN 0 ELSE 1 + 2 * AttemptsWithin[n - 1]]
  <2>. DEFINE P(f) == f = [n \in Nat |-> IF n = 0 THEN 0 ELSE 1 + 2 * f[n - 1]]
  <2>1. P(whole)
    BY <1>4
  <2>2. AttemptsWithin = CHOOSE f : P(f)
    BY DEF AttemptsWithin
  <2>. HIDE DEF P
  <2>3. P(AttemptsWithin)
    BY <2>1, <2>2
  <2>. QED
    BY <2>3 DEF P
<1>. DEFINE A == {n \in Nat : AttemptsWithin[n] \in Nat}
<1>6. \A n \in Nat : AttemptsWithin[n + 1] = 1 + 2 * AttemptsWithin[n]
  <2>. TAKE n \in Nat
  <2>1. n + 1 \in Nat /\ n + 1 # 0 /\ (n + 1) - 1 = n
    OBVIOUS
  <2>. QED
    BY <1>5, <2>1
<1>7. AttemptsWithin[0] = 0
  BY <1>5
<1>8. A = Nat
  <2>1. 0 \in A /\ A \subseteq Nat
    BY <1>7
  <2>2. \A n \in A : n + 1 \in A
    BY <1>6
  <2>. HIDE DEF A
  <2>. QED
    BY <2>1, <2>2, InductionOnNat
<1>9. AttemptsWithin \in [Nat -> Nat]
  BY <1>5, <1>8
<1>. QED
  BY <1>6, <1>7, <1>9

-----------------------------------------------------------------------------
(* The invariant *)

Calls ==
  {Calling(r) : r \in Retry}
    \union {Busy(at, v, r) : at \in {"building", "awaiting", "lost", "legacy"},
                             v \in Validator, r \in 0..MaxRetries}
    \union {Result(value) : value \in BOOLEAN}

Rescue == [to : Validator, retries : 0..MaxRetries]

\* No entry of the pool, nor one that was removed, has used up its quota.
PoolInv ==
  /\ link \subseteq Validator
  /\ pool \in [Validator -> {"out", "in", "dead"}]
  /\ sent \in [Validator -> 0..MessageThreshold - 1]

\* Only a call that returned was answered.
CallsInv ==
  /\ call \in [Operation -> Calls]
  /\ rescues \in [Operation -> Seq(Rescue)]
  /\ attempts \in [Operation -> Nat]
  /\ delivered \subseteq Operation
  /\ answered \subseteq Operation
  /\ appended \subseteq Operation
  /\ SuccessIsReal
  /\ \A o \in answered : call[o].at = "returned"

\* What a call that may retry n - 1 times is worth in attempts
Weight == IF Legacy = {} THEN [n \in Nat |-> n] ELSE AttemptsWithin

\* How many attempts a call and those it will be replaced by still have, not
\* counting the calls that wait for it
Left(c) ==
  CASE c.at \in {"calling", "building"} -> Weight[MaxRetries + 1 - c.retries]
    [] c.at \in {"awaiting", "lost"} -> Weight[MaxRetries - c.retries]
    [] c.at = "legacy" -> 2 * Weight[MaxRetries - c.retries]
    [] OTHER -> 0

\* owed[i] is what the i-th rescue and those outside it will still call for.
Owes(waiting, owed) ==
  /\ owed \in [1..Len(waiting) + 1 -> Nat]
  /\ owed[Len(waiting) + 1] = 0
  /\ \A i \in 1..Len(waiting) :
       owed[i] = Weight[MaxRetries - waiting[i].retries] + owed[i + 1]

\* The attempts made and those still to be expected stay within the bound.
Fits(c, waiting, made) ==
  \E owed : Owes(waiting, owed) /\ made + Left(c) + owed[1] <= Weight[MaxRetries + 1]

BudgetInv == \A o \in Operation : Fits(call[o], rescues[o], attempts[o])

BroadcastInv == PoolInv /\ CallsInv /\ BudgetInv

\* What a step may do to the attempts
AnswersStand == \A o \in Operation : o \in answered => attempts'[o] = attempts[o]

-----------------------------------------------------------------------------
(* Weights and calls *)

\* What the budget of attempts needs of the weights: a retry costs one level, a
\* legacy rescue two calls of the level below.
LEMMA WeightProperties ==
  /\ Weight \in [Nat -> Nat]
  /\ \A n \in Nat : Weight[n + 1] >= Weight[n] + 1
  /\ Legacy # {} => \A n \in Nat : Weight[n + 1] = 1 + 2 * Weight[n]
  /\ Weight[MaxRetries + 1] = IF Legacy = {} THEN MaxRetries + 1
                              ELSE AttemptsWithin[MaxRetries + 1]
<1>1. CASE Legacy = {}
  BY <1>1, LimitAssumption DEF Weight
<1>2. CASE Legacy # {}
  <2>1. Weight = AttemptsWithin
    BY <1>2 DEF Weight
  <2>2. \A n \in Nat : Weight[n] \in Nat /\ Weight[n + 1] = 1 + 2 * Weight[n]
    BY <2>1, AttemptsWithinEquation
  <2>3. \A n \in Nat : Weight[n + 1] >= Weight[n] + 1
    BY <2>2
  <2>4. Weight \in [Nat -> Nat]
    BY <2>1, AttemptsWithinEquation
  <2>. QED
    BY <1>2, <2>1, <2>2, <2>3, <2>4
<1>. QED
  BY <1>1, <1>2

\* The bound is a number.
LEMMA BoundType == Weight[MaxRetries + 1] \in Nat
<1>1. MaxRetries + 1 \in Nat
  BY LimitAssumption
<1>2. Weight \in [Nat -> Nat]
  BY WeightProperties
<1>. QED
  BY <1>1, <1>2

\* Each thing a call can be, with what it has left
LEMMA LeftValues ==
  /\ \A r \in Retry :
       Calling(r) \in Calls /\ Left(Calling(r)) = Weight[MaxRetries + 1 - r]
  /\ \A v \in Validator, r \in 0..MaxRetries :
       /\ \A at \in {"building", "awaiting", "lost", "legacy"} : Busy(at, v, r) \in Calls
       /\ Left(Busy("building", v, r)) = Weight[MaxRetries + 1 - r]
       /\ Left(Busy("awaiting", v, r)) = Weight[MaxRetries - r]
       /\ Left(Busy("lost", v, r)) = Weight[MaxRetries - r]
       /\ Left(Busy("legacy", v, r)) = 2 * Weight[MaxRetries - r]
  /\ \A value \in BOOLEAN : Result(value) \in Calls /\ Left(Result(value)) = 0
<1>1. \A r \in Retry : Calling(r) \in Calls /\ Left(Calling(r)) = Weight[MaxRetries + 1 - r]
  BY DEF Calls, Left, Calling
<1>2. ASSUME NEW v \in Validator, NEW r \in 0..MaxRetries,
             NEW at \in {"building", "awaiting", "lost", "legacy"}
      PROVE  Busy(at, v, r) \in Calls
  BY DEF Calls
<1>3. ASSUME NEW v \in Validator, NEW r \in 0..MaxRetries
      PROVE  /\ Left(Busy("building", v, r)) = Weight[MaxRetries + 1 - r]
             /\ Left(Busy("awaiting", v, r)) = Weight[MaxRetries - r]
             /\ Left(Busy("lost", v, r)) = Weight[MaxRetries - r]
             /\ Left(Busy("legacy", v, r)) = 2 * Weight[MaxRetries - r]
  BY DEF Left, Busy
<1>4. \A value \in BOOLEAN : Result(value) \in Calls /\ Left(Result(value)) = 0
  BY DEF Calls, Left, Result
<1>. QED
  BY <1>1, <1>2, <1>3, <1>4

\* A call that goes on to the next retry
LEMMA Retried ==
  ASSUME NEW r \in 0..MaxRetries
  PROVE  /\ r + 1 \in Retry
         /\ Left(Calling(r + 1)) = Weight[MaxRetries - r]
         /\ Weight[MaxRetries - r] \in Nat
         /\ Weight[MaxRetries + 1 - r] >= Weight[MaxRetries - r] + 1
         /\ Legacy # {} => Weight[MaxRetries + 1 - r] = 1 + 2 * Weight[MaxRetries - r]
<1>1. /\ MaxRetries - r \in Nat /\ r + 1 \in Retry
      /\ MaxRetries + 1 - (r + 1) = MaxRetries - r
      /\ (MaxRetries - r) + 1 = MaxRetries + 1 - r
  BY LimitAssumption DEF Retry
<1>2. Left(Calling(r + 1)) = Weight[MaxRetries - r]
  BY <1>1, LeftValues
<1>3. /\ Weight[MaxRetries - r] \in Nat
      /\ Weight[(MaxRetries - r) + 1] >= Weight[MaxRetries - r] + 1
      /\ Legacy # {} => Weight[(MaxRetries - r) + 1] = 1 + 2 * Weight[MaxRetries - r]
  BY <1>1, WeightProperties
<1>. QED
  BY <1>1, <1>2, <1>3

\* What a call holds at each of its stages
LEMMA CallCases ==
  ASSUME NEW c \in Calls
  PROVE  /\ c.at = "calling" => \E r \in Retry : c = Calling(r) /\ c.retries = r
         /\ c.at \in {"building", "awaiting", "lost", "legacy"} =>
              /\ c.to \in Validator /\ c.retries \in 0..MaxRetries
              /\ c = Busy(c.at, c.to, c.retries)
         /\ c.at = "returned" => \E value \in BOOLEAN : c = Result(value) /\ c.value = value
         /\ c.at \in {"calling", "building", "awaiting", "lost", "legacy", "returned"}
         /\ Left(c) \in Nat
<1>1. CASE c \in {Calling(r) : r \in Retry}
  <2>1. PICK r \in Retry : c = Calling(r)
    BY <1>1
  <2>2. Left(c) = Weight[MaxRetries + 1 - r] /\ MaxRetries + 1 - r \in Nat
    BY <2>1, LeftValues, LimitAssumption DEF Retry
  <2>. QED
    BY <2>1, <2>2, WeightProperties DEF Calling
<1>2. CASE c \in {Busy(at, v, r) : at \in {"building", "awaiting", "lost", "legacy"},
                                   v \in Validator, r \in 0..MaxRetries}
  <2>1. PICK at \in {"building", "awaiting", "lost", "legacy"}, v \in Validator,
             r \in 0..MaxRetries : c = Busy(at, v, r)
    BY <1>2
  <2>2. c.at = at /\ c.to = v /\ c.retries = r
    BY <2>1 DEF Busy
  <2>3. /\ MaxRetries + 1 - r \in Nat /\ MaxRetries - r \in Nat
    BY LimitAssumption
  <2>4. Left(c) \in {Weight[MaxRetries + 1 - r], Weight[MaxRetries - r],
                     2 * Weight[MaxRetries - r]}
    BY <2>1, LeftValues
  <2>. QED
    BY <2>1, <2>2, <2>3, <2>4, WeightProperties
<1>3. CASE c \in {Result(value) : value \in BOOLEAN}
  <2>1. PICK value \in BOOLEAN : c = Result(value)
    BY <1>3
  <2>. QED
    BY <2>1, LeftValues DEF Result
<1>. QED
  BY <1>1, <1>2, <1>3 DEF Calls

-----------------------------------------------------------------------------
(* The budget *)

\* The attempts that waiting calls may still make are a number.
LEMMA OwesType ==
  ASSUME NEW waiting \in Seq(Rescue), NEW owed, Owes(waiting, owed)
  PROVE  owed[1] \in Nat
<1>1. 1 \in 1..Len(waiting) + 1
  OBVIOUS
<1>. QED
  BY <1>1 DEF Owes

\* A call may be replaced by one that has less left by what was used up.
LEMMA FitsLess ==
  ASSUME NEW c \in Calls, NEW d \in Calls, NEW waiting \in Seq(Rescue),
         NEW made \in Nat, NEW more \in Nat,
         Fits(c, waiting, made), more + Left(d) <= made + Left(c)
  PROVE  Fits(d, waiting, more)
<1>1. PICK owed : Owes(waiting, owed) /\ made + Left(c) + owed[1] <= Weight[MaxRetries + 1]
  BY DEF Fits
<1>2. owed[1] \in Nat /\ Weight[MaxRetries + 1] \in Nat
  BY <1>1, OwesType, BoundType
<1>. HIDE DEF Fits
<1>4. Left(c) \in Nat /\ Left(d) \in Nat
  BY CallCases
<1>3. more + Left(d) + owed[1] <= Weight[MaxRetries + 1]
  BY <1>1, <1>2, <1>4
<1>. QED
  BY <1>1, <1>3 DEF Fits

\* A legacy attempt that throws splits what is left between the two calls.
LEMMA FitsThrow ==
  ASSUME NEW v \in Validator, NEW r \in 0..MaxRetries, NEW waiting \in Seq(Rescue),
         NEW made \in Nat, Fits(Busy("legacy", v, r), waiting, made)
  PROVE  Fits(Calling(r + 1), <<[to |-> v, retries |-> r]>> \o waiting, made)
<1>. DEFINE rescue == [to |-> v, retries |-> r]
            longer == <<rescue>> \o waiting
            w == Weight[MaxRetries - r]
<1>1. PICK owed : /\ Owes(waiting, owed)
                  /\ made + Left(Busy("legacy", v, r)) + owed[1] <= Weight[MaxRetries + 1]
  BY DEF Fits
<1>2. Left(Busy("legacy", v, r)) = 2 * w /\ Left(Calling(r + 1)) = w /\ w \in Nat
  BY LeftValues, Retried
<1>3. owed[1] \in Nat /\ Weight[MaxRetries + 1] \in Nat
  BY <1>1, OwesType, BoundType
<1>4. /\ Len(waiting) \in Nat /\ Len(longer) = Len(waiting) + 1
      /\ longer[1] = rescue
      /\ \A i \in 2..Len(waiting) + 1 : longer[i] = waiting[i - 1]
  BY DEF Rescue
<1>. DEFINE more == [i \in 1..Len(longer) + 1 |-> IF i = 1 THEN w + owed[1] ELSE owed[i - 1]]
<1>. HIDE DEF longer, w
<1>5. Owes(longer, more)
  <2>1. \A i \in 2..Len(longer) + 1 : i - 1 \in 1..Len(waiting) + 1 /\ more[i] = owed[i - 1]
    BY <1>4
  <2>2. more[1] = w + owed[1]
    BY <1>4 DEF more
  <2>3. more \in [1..Len(longer) + 1 -> Nat]
    <3>1. ASSUME NEW i \in 1..Len(longer) + 1 PROVE more[i] \in Nat
      <4>1. CASE i = 1
        BY <1>2, <1>3, <2>2, <4>1
      <4>2. CASE i # 1
        <5>1. i \in 2..Len(longer) + 1
          BY <1>4, <4>2
        <5>2. i - 1 \in 1..Len(waiting) + 1 /\ more[i] = owed[i - 1]
          BY <2>1, <5>1
        <5>. QED
          BY <1>1, <5>2 DEF Owes
      <4>. QED
        BY <4>1, <4>2
    <3>. QED
      BY <3>1
  <2>4. more[Len(longer) + 1] = 0
    BY <1>1, <1>4, <2>1 DEF Owes
  <2>5. ASSUME NEW i \in 1..Len(longer)
        PROVE  more[i] = Weight[MaxRetries - longer[i].retries] + more[i + 1]
    <3>1. CASE i = 1
      <4>1. more[2] = owed[1] /\ longer[1].retries = r
        BY <1>4, <2>1
      <4>. QED
        BY <2>2, <3>1, <4>1 DEF w
    <3>2. CASE i # 1
      <4>1. /\ i - 1 \in 1..Len(waiting) /\ more[i] = owed[i - 1] /\ longer[i] = waiting[i - 1]
            /\ i + 1 \in 2..Len(longer) + 1 /\ (i + 1) - 1 = (i - 1) + 1
        BY <1>4, <2>1, <3>2
      <4>2. more[i + 1] = owed[(i - 1) + 1]
        BY <2>1, <4>1
      <4>. QED
        BY <1>1, <4>1, <4>2 DEF Owes
    <3>. QED
      BY <3>1, <3>2
  <2>. HIDE DEF more
  <2>. QED
    BY <2>3, <2>4, <2>5 DEF Owes
<1>6. made + Left(Calling(r + 1)) + more[1] <= Weight[MaxRetries + 1]
  <2>1. more[1] = w + owed[1]
    BY <1>4
  <2>. HIDE DEF more
  <2>. QED
    BY <1>1, <1>2, <1>3, <2>1
<1>. HIDE DEF more
<1>7. Fits(Calling(r + 1), longer, made)
  BY <1>5, <1>6 DEF Fits
<1>. QED
  BY <1>7 DEF longer

\* The innermost rescue gets what was kept for it, if it needs it.
LEMMA FitsReturn ==
  ASSUME NEW waiting \in Seq(Rescue), waiting # <<>>, NEW made \in Nat,
         NEW value \in BOOLEAN, Fits(Result(value), waiting, made)
  PROVE  /\ Fits(Result(value), Tail(waiting), made)
         /\ Fits(Calling(Head(waiting).retries + 1), Tail(waiting), made)
<1>. DEFINE r == Head(waiting).retries
            w == Weight[MaxRetries - r]
<1>1. PICK owed : /\ Owes(waiting, owed)
                  /\ made + Left(Result(value)) + owed[1] <= Weight[MaxRetries + 1]
  BY DEF Fits
<1>2. /\ Len(waiting) \in Nat /\ Len(waiting) >= 1
      /\ Tail(waiting) \in Seq(Rescue) /\ Len(Tail(waiting)) = Len(waiting) - 1
      /\ \A i \in 1..Len(waiting) - 1 : Tail(waiting)[i] = waiting[i + 1]
      /\ Head(waiting) = waiting[1] /\ Head(waiting) \in Rescue
  OBVIOUS
<1>3. r \in 0..MaxRetries
  BY <1>2 DEF Rescue
<1>4. Left(Result(value)) = 0 /\ Left(Calling(r + 1)) = w /\ w \in Nat
  BY <1>3, LeftValues, Retried
<1>5. owed[1] = w + owed[2] /\ owed[2] \in Nat /\ Weight[MaxRetries + 1] \in Nat
  <2>1. 1 \in 1..Len(waiting) /\ 2 \in 1..Len(waiting) + 1 /\ 1 + 1 = 2
    BY <1>2
  <2>2. owed[2] \in Nat
    BY <1>1, <2>1 DEF Owes
  <2>3. owed[1] = Weight[MaxRetries - waiting[1].retries] + owed[1 + 1]
    BY <1>1, <2>1 DEF Owes
  <2>. QED
    BY <1>2, <2>1, <2>2, <2>3, BoundType
<1>. DEFINE less == [i \in 1..Len(waiting) |-> owed[i + 1]]
<1>. HIDE DEF r, w
<1>6. Owes(Tail(waiting), less)
  <2>1. /\ Len(Tail(waiting)) + 1 = Len(waiting)
        /\ \A i \in 1..Len(waiting) : i + 1 \in 1..Len(waiting) + 1
        /\ \A i \in 1..Len(waiting) - 1 : i + 1 \in 1..Len(waiting)
    BY <1>2
  <2>2. less \in [1..Len(Tail(waiting)) + 1 -> Nat]
    BY <1>1, <2>1 DEF Owes
  <2>3. less[Len(Tail(waiting)) + 1] = 0
    BY <1>1, <1>2, <2>1 DEF Owes
  <2>4. ASSUME NEW i \in 1..Len(Tail(waiting))
        PROVE  less[i] = Weight[MaxRetries - Tail(waiting)[i].retries] + less[i + 1]
    <3>1. i \in 1..Len(waiting) - 1 /\ i + 1 \in 1..Len(waiting)
      BY <1>2
    <3>2. owed[i + 1] = Weight[MaxRetries - waiting[i + 1].retries] + owed[(i + 1) + 1]
      BY <1>1, <3>1 DEF Owes
    <3>3. less[i] = owed[i + 1] /\ less[i + 1] = owed[(i + 1) + 1]
      BY <1>2, <3>1
    <3>. QED
      BY <1>2, <3>1, <3>2, <3>3
  <2>. HIDE DEF less
  <2>. QED
    BY <2>2, <2>3, <2>4 DEF Owes
<1>7. less[1] = owed[2]
  BY <1>2
<1>. HIDE DEF less
<1>8. made + Left(Result(value)) + less[1] <= Weight[MaxRetries + 1]
  BY <1>1, <1>4, <1>5, <1>7
<1>9. made + Left(Calling(r + 1)) + less[1] <= Weight[MaxRetries + 1]
  BY <1>1, <1>4, <1>5, <1>7
<1>. QED
  BY <1>6, <1>8, <1>9 DEF Fits, r

-----------------------------------------------------------------------------
(* The invariant is inductive *)

\* At first no operation is being sent.
LEMMA BroadcastInvInit == Init => BroadcastInv
<1>. SUFFICES ASSUME Init PROVE BroadcastInv
  OBVIOUS
<1>. USE DEF Init
<1>1. PoolInv
  BY LimitAssumption DEF PoolInv
<1>2. 0 \in Retry /\ Calling(0) \in Calls /\ Left(Calling(0)) = Weight[MaxRetries + 1]
  <2>1. 0 \in Retry /\ MaxRetries + 1 - 0 = MaxRetries + 1
    BY LimitAssumption DEF Retry
  <2>. QED
    BY <2>1, LeftValues
<1>3. CallsInv
  BY <1>2 DEF CallsInv, SuccessIsReal, Calling, Result
<1>4. Fits(Calling(0), <<>>, 0)
  <2>. DEFINE owed == [i \in {1} |-> 0]
  <2>1. Len(<<>>) = 0 /\ 1..Len(<<>>) + 1 = {1} /\ 1..Len(<<>>) = {}
    OBVIOUS
  <2>2. Owes(<<>>, owed)
    BY <2>1 DEF Owes
  <2>3. 0 + Left(Calling(0)) + owed[1] <= Weight[MaxRetries + 1]
    BY <1>2, BoundType
  <2>. QED
    BY <2>2, <2>3 DEF Fits
<1>5. BudgetInv
  BY <1>4 DEF BudgetInv
<1>. QED
  BY <1>1, <1>3, <1>5 DEF BroadcastInv

\* The steps in which one call becomes another and no rescue is concerned
LEMMA CallReplaced ==
  ASSUME CallsInv, BudgetInv, NEW o \in Operation, NEW d \in Calls,
         call[o].at # "returned", call' = [call EXCEPT ![o] = d],
         UNCHANGED <<rescues, appended>>, delivered' \subseteq Operation,
         NEW more \in Nat, attempts' = [attempts EXCEPT ![o] = more],
         more + Left(d) <= attempts[o] + Left(call[o]),
         d = Result(TRUE) => o \in appended,
         \/ answered' = answered
         \/ answered' = answered \union {o} /\ d.at = "returned"
  PROVE  CallsInv' /\ BudgetInv' /\ AnswersStand
<1>1. o \notin answered
  BY DEF CallsInv
<1>2. CallsInv'
  BY DEF CallsInv, SuccessIsReal
<1>3. Fits(d, rescues[o], more)
  BY FitsLess DEF CallsInv, BudgetInv
<1>4. BudgetInv'
  BY <1>3 DEF CallsInv, BudgetInv
<1>5. AnswersStand
  BY <1>1 DEF AnswersStand, CallsInv
<1>. QED
  BY <1>2, <1>4, <1>5

\* What a removal, a count and no change leave of the pool
LEMMA PoolStep ==
  ASSUME PoolInv, NEW v \in Validator, UNCHANGED link,
         Remove(v) \/ Count(v) \/ KeepPool
  PROVE  PoolInv'
<1>1. CASE Remove(v)
  BY <1>1, LimitAssumption DEF Remove, PoolInv
<1>2. CASE KeepPool
  BY <1>2 DEF KeepPool, PoolInv
<1>3. CASE Count(v)
  <2>1. CASE sent' = [sent EXCEPT ![v] = @ + 1] /\ UNCHANGED pool
             /\ ~(sent[v] + 1 >= MessageThreshold)
    BY <2>1, LimitAssumption DEF PoolInv
  <2>. QED
    BY <1>1, <1>2, <1>3, <2>1 DEF Count
<1>. QED
  BY <1>1, <1>2, <1>3

\* A call that resends in place of one that was under way
LEMMA ResendStep ==
  ASSUME CallsInv, BudgetInv, NEW o \in Operation,
         call[o].at \in {"building", "awaiting", "lost", "legacy"}, Resend(o),
         UNCHANGED <<rescues, delivered, attempts, answered, appended>>
  PROVE  CallsInv' /\ BudgetInv' /\ AnswersStand
<1>. DEFINE r == call[o].retries
            v == call[o].to
<1>1. /\ r \in 0..MaxRetries /\ v \in Validator /\ call[o] = Busy(call[o].at, v, r)
      /\ attempts[o] \in Nat
  BY CallCases DEF CallsInv
<1>2. call' = [call EXCEPT ![o] = Calling(r + 1)] /\ Calling(r + 1) \in Calls
  BY <1>1, Retried, LeftValues DEF Resend
<1>3. Left(Calling(r + 1)) <= Left(call[o]) /\ Left(Calling(r + 1)) \in Nat
      /\ Left(call[o]) \in Nat
  <2>1. /\ Left(Calling(r + 1)) = Weight[MaxRetries - r]
        /\ Weight[MaxRetries - r] \in Nat
        /\ Weight[MaxRetries + 1 - r] >= Weight[MaxRetries - r] + 1
    BY <1>1, Retried
  <2>2. Left(call[o]) \in Nat
    BY CallCases DEF CallsInv
  <2>3. Left(call[o]) \in {Weight[MaxRetries + 1 - r], Weight[MaxRetries - r],
                           2 * Weight[MaxRetries - r]}
    BY <1>1, LeftValues
  <2>. HIDE DEF r
  <2>. QED
    BY <2>1, <2>2, <2>3
<1>4. attempts' = [attempts EXCEPT ![o] = attempts[o]]
  BY DEF CallsInv
<1>5. Calling(r + 1) # Result(TRUE)
  BY DEF Calling, Result
<1>6. attempts[o] + Left(Calling(r + 1)) <= attempts[o] + Left(call[o])
  BY <1>1, <1>3
<1>7. delivered' \subseteq Operation
  BY DEF CallsInv
<1>. HIDE DEF r, v
<1>. QED
  BY <1>1, <1>2, <1>4, <1>5, <1>6, <1>7, CallReplaced

\* A call that is over
LEMMA ResultStep ==
  ASSUME CallsInv, BudgetInv, NEW o \in Operation, call[o].at # "returned",
         NEW value \in BOOLEAN, value => o \in appended,
         call' = [call EXCEPT ![o] = Result(value)],
         UNCHANGED <<rescues, delivered, attempts, appended>>,
         answered' = answered \/ answered' = answered \union {o}
  PROVE  CallsInv' /\ BudgetInv' /\ AnswersStand
<1>1. /\ Result(value) \in Calls /\ Left(Result(value)) = 0
      /\ Result(value).at = "returned" /\ (Result(value) = Result(TRUE) => value)
  BY LeftValues DEF Result
<1>2. attempts[o] \in Nat /\ Left(call[o]) \in Nat
  BY CallCases DEF CallsInv
<1>3. attempts' = [attempts EXCEPT ![o] = attempts[o]] /\ delivered' \subseteq Operation
  BY DEF CallsInv
<1>4. attempts[o] + Left(Result(value)) <= attempts[o] + Left(call[o])
  BY <1>1, <1>2
<1>. QED
  BY <1>1, <1>2, <1>3, <1>4, CallReplaced

\* An attempt is made over the entry of v: what the call had left pays for it.
LEMMA SentStep ==
  ASSUME CallsInv, BudgetInv, NEW o \in Operation, NEW v \in Validator, Send(o, v),
         call[o].at \in {"calling", "building"},
         NEW r \in 0..MaxRetries, call[o].retries = r,
         NEW at \in {"awaiting", "lost", "legacy"}, at = "legacy" => Legacy # {},
         call' = [call EXCEPT ![o] = Busy(at, v, r)],
         UNCHANGED <<rescues, answered, appended>>
  PROVE  CallsInv' /\ BudgetInv' /\ AnswersStand
<1>. DEFINE d == Busy(at, v, r)
            more == attempts[o] + 1
            w == Weight[MaxRetries - r]
<1>1. d \in Calls /\ d # Result(TRUE)
  BY LeftValues DEF Busy, Result
<1>2. attempts[o] \in Nat
  BY DEF CallsInv
<1>3. Left(call[o]) = Weight[MaxRetries + 1 - r]
  BY DEF Left
<1>4. w \in Nat /\ Weight[MaxRetries + 1 - r] >= w + 1
      /\ (Legacy # {} => Weight[MaxRetries + 1 - r] = 1 + 2 * w)
  BY Retried
<1>5. /\ at \in {"awaiting", "lost"} => Left(d) = w
      /\ at = "legacy" => Left(d) = 2 * w
  BY LeftValues
<1>. HIDE DEF d, w
<1>6. more + Left(d) <= attempts[o] + Left(call[o]) /\ more \in Nat
  <2>1. CASE at \in {"awaiting", "lost"}
    <3>1. Left(d) = w /\ w \in Nat /\ Left(call[o]) >= w + 1
      BY <1>3, <1>4, <1>5, <2>1
    <3>2. Left(call[o]) \in Nat
      BY CallCases DEF CallsInv
    <3>. QED
      BY <1>2, <3>1, <3>2
  <2>2. CASE at = "legacy"
    <3>1. Left(d) = 2 * w /\ w \in Nat /\ Left(call[o]) = 1 + 2 * w
      BY <1>3, <1>4, <1>5, <2>2
    <3>. QED
      BY <1>2, <3>1
  <2>. QED
    BY <2>1, <2>2
<1>7. /\ attempts' = [attempts EXCEPT ![o] = more]
      /\ delivered' \subseteq Operation
      /\ answered' = answered
  BY DEF Send, CallsInv
<1>8. call' = [call EXCEPT ![o] = d]
  BY DEF d
<1>. HIDE DEF more
<1>. QED
  BY <1>1, <1>6, <1>7, <1>8, CallReplaced

\* A validator is picked out of the pool, below its quota.
LEMMA PickStep ==
  ASSUME BroadcastInv, NEW o \in Operation, Pick(o)
  PROVE  BroadcastInv' /\ AnswersStand
<1>. USE DEF BroadcastInv
<1>1. /\ call[o].at = "calling" /\ call[o].retries <= MaxRetries
      /\ UNCHANGED <<link, pool, sent, rescues, answered, appended>>
  BY DEF Pick
<1>2. PICK v \in Eligible(o) :
        IF v \in Legacy
        THEN /\ Send(o, v)
             /\ call' = [call EXCEPT ![o] = Busy("legacy", v, @.retries)]
        ELSE /\ call' = [call EXCEPT ![o] = Busy("building", v, @.retries)]
             /\ UNCHANGED <<delivered, attempts>>
  BY DEF Pick
<1>3. v \in Validator
  BY <1>2 DEF Eligible, Connected
<1>. DEFINE r == call[o].retries
<1>4. r \in 0..MaxRetries /\ Left(call[o]) = Weight[MaxRetries + 1 - r]
  <2>1. r \in Retry
    BY <1>1, CallCases DEF CallsInv
  <2>. QED
    BY <1>1, <2>1, LimitAssumption DEF Retry, Left
<1>5. PoolInv'
  BY <1>1 DEF PoolInv
<1>6. CASE v \in Legacy
  <2>1. Send(o, v) /\ call' = [call EXCEPT ![o] = Busy("legacy", v, r)]
    BY <1>2, <1>6 DEF CallsInv
  <2>. HIDE DEF r
  <2>2. call[o].retries = r
    BY DEF r
  <2>. QED
    BY <1>1, <1>3, <1>4, <1>5, <1>6, <2>1, <2>2, SentStep
<1>7. CASE v \notin Legacy
  <2>. DEFINE d == Busy("building", v, r)
  <2>1. call' = [call EXCEPT ![o] = d] /\ UNCHANGED <<delivered, attempts>>
    BY <1>2, <1>7 DEF CallsInv
  <2>2. d \in Calls /\ Left(d) = Left(call[o]) /\ d # Result(TRUE)
    BY <1>3, <1>4, LeftValues DEF Busy, Result
  <2>3. attempts[o] \in Nat /\ attempts' = [attempts EXCEPT ![o] = attempts[o]]
        /\ delivered' \subseteq Operation /\ Left(call[o]) \in Nat
    BY <2>1, CallCases DEF CallsInv
  <2>4. call[o].at # "returned"
    BY <1>1
  <2>. HIDE DEF d
  <2>5. attempts[o] + Left(d) <= attempts[o] + Left(call[o])
    BY <2>2, <2>3
  <2>6. CallsInv' /\ BudgetInv' /\ AnswersStand
    BY <1>1, <2>1, <2>2, <2>3, <2>4, <2>5, CallReplaced
  <2>. QED
    BY <1>5, <2>6
<1>. QED
  BY <1>6, <1>7

\* An attempt is taken from the budget and from the validator's quota.
LEMMA TransmitStep ==
  ASSUME BroadcastInv, NEW o \in Operation, Transmit(o)
  PROVE  BroadcastInv' /\ AnswersStand
<1>. USE DEF BroadcastInv
<1>. DEFINE v == call[o].to
            r == call[o].retries
<1>1. /\ call[o].at = "building" /\ UNCHANGED <<link, rescues, answered, appended>>
      /\ v \in Validator /\ r \in 0..MaxRetries /\ call[o] = Busy("building", v, r)
  BY CallCases DEF Transmit, CallsInv
<1>2. PoolInv'
  <2>1. Remove(v) \/ KeepPool
    BY DEF Transmit
  <2>. HIDE DEF v
  <2>. QED
    BY <1>1, <2>1, PoolStep
<1>3. CASE Resend(o) /\ UNCHANGED <<delivered, attempts>>
  BY <1>1, <1>2, <1>3, ResendStep
<1>4. CASE Send(o, v) /\ call' = [call EXCEPT ![o].at = IF pool[v] = "in" THEN "awaiting" ELSE "lost"]
  <2>. DEFINE at == IF pool[v] = "in" THEN "awaiting" ELSE "lost"
  <2>1. call' = [call EXCEPT ![o] = Busy(at, v, r)]
    <3>1. [call[o] EXCEPT !.at = at] = Busy(at, v, r)
      BY <1>1 DEF Busy
    <3>. QED
      BY <1>4, <3>1 DEF CallsInv
  <2>2. at \in {"awaiting", "lost", "legacy"} /\ at # "legacy" /\ call[o].retries = r
    OBVIOUS
  <2>3. /\ call[o].at \in {"calling", "building"} /\ (at = "legacy" => Legacy # {})
        /\ UNCHANGED <<rescues, answered, appended>> /\ Send(o, v)
    BY <1>1, <1>4
  <2>. HIDE DEF at, v, r
  <2>4. CallsInv' /\ BudgetInv' /\ AnswersStand
    BY <1>1, <2>1, <2>2, <2>3, SentStep
  <2>. QED
    BY <1>2, <2>4
<1>. QED
  BY <1>3, <1>4 DEF Transmit

\* Throw and Return: rescues come and go.
LEMMA ThrowStep ==
  ASSUME BroadcastInv, NEW o \in Operation, Throw(o)
  PROVE  BroadcastInv' /\ AnswersStand
<1>. USE DEF BroadcastInv
<1>. DEFINE v == call[o].to
            r == call[o].retries
            longer == <<[to |-> v, retries |-> r]>> \o rescues[o]
<1>1. /\ call[o].at = "legacy"
      /\ v \in Validator /\ r \in 0..MaxRetries /\ call[o] = Busy("legacy", v, r)
  BY CallCases DEF Throw, CallsInv
<1>2. /\ rescues' = [rescues EXCEPT ![o] = longer]
      /\ call' = [call EXCEPT ![o] = Calling(r + 1)]
      /\ UNCHANGED <<link, pool, sent, delivered, attempts, answered, appended>>
  BY DEF Throw, Resend, CallsInv
<1>3. /\ Calling(r + 1) \in Calls /\ Calling(r + 1) # Result(TRUE)
      /\ longer \in Seq(Rescue)
  <2>. HIDE DEF r, v
  <2>1. Calling(r + 1) \in Calls
    BY <1>1, Retried, LeftValues
  <2>2. Calling(r + 1) # Result(TRUE)
    BY DEF Calling, Result
  <2>3. rescues[o] \in Seq(Rescue) /\ [to |-> v, retries |-> r] \in Rescue
    BY <1>1 DEF CallsInv, Rescue
  <2>4. ASSUME NEW x \in Rescue, NEW s \in Seq(Rescue) PROVE <<x>> \o s \in Seq(Rescue)
    OBVIOUS
  <2>5. longer \in Seq(Rescue)
    BY <2>3, <2>4
  <2>. HIDE DEF longer
  <2>. QED
    BY <2>1, <2>2, <2>5
<1>4. Fits(Calling(r + 1), longer, attempts[o])
  BY <1>1, FitsThrow DEF CallsInv, BudgetInv
<1>. HIDE DEF longer, r, v
<1>5. PoolInv'
  BY <1>2 DEF PoolInv
<1>6. CallsInv'
  <2>1. o \notin answered
    BY <1>1 DEF CallsInv
  <2>. QED
    BY <1>2, <1>3, <2>1 DEF CallsInv, SuccessIsReal
<1>7. BudgetInv'
  BY <1>2, <1>4 DEF CallsInv, BudgetInv
<1>8. AnswersStand
  BY <1>2 DEF AnswersStand
<1>. QED
  BY <1>5, <1>6, <1>7, <1>8

\* An outer call goes on with what it is owed.
LEMMA ReturnStep ==
  ASSUME BroadcastInv, NEW o \in Operation, Return(o)
  PROVE  BroadcastInv' /\ AnswersStand
<1>. USE DEF BroadcastInv
<1>. DEFINE r == Head(rescues[o]).retries
            rest == Tail(rescues[o])
<1>1. /\ call[o].at = "returned" /\ rescues[o] # <<>>
      /\ rescues' = [rescues EXCEPT ![o] = rest]
      /\ UNCHANGED <<link, delivered, attempts, appended>>
      /\ rescues[o] \in Seq(Rescue) /\ attempts[o] \in Nat
  BY DEF Return, CallsInv
<1>2. PICK value \in BOOLEAN : call[o] = Result(value) /\ call[o].value = value
  BY <1>1, CallCases DEF CallsInv
<1>3. Head(rescues[o]) \in Rescue /\ rest \in Seq(Rescue)
  BY <1>1
<1>4. r \in 0..MaxRetries /\ Head(rescues[o]).to \in Validator
  BY <1>3 DEF Rescue
<1>5. Calling(r + 1) \in Calls /\ Calling(r + 1) # Result(TRUE)
  BY <1>4, Retried, LeftValues DEF Calling, Result
<1>6. Fits(call[o], rest, attempts[o]) /\ Fits(Calling(r + 1), rest, attempts[o])
  <2>1. Fits(Result(value), rescues[o], attempts[o])
    BY <1>2 DEF BudgetInv
  <2>. QED
    BY <1>1, <1>2, <2>1, FitsReturn
<1>7. AnswersStand
  BY <1>1 DEF AnswersStand
<1>. HIDE DEF r, rest
<1>8. CASE call[o].value
  <2>1. KeepPool /\ UNCHANGED <<call, answered>>
    BY <1>8 DEF Return
  <2>2. PoolInv'
    BY <1>1, <2>1 DEF PoolInv, KeepPool
  <2>3. CallsInv'
    BY <1>1, <1>3, <2>1 DEF CallsInv, SuccessIsReal
  <2>4. BudgetInv'
    BY <1>1, <1>6, <2>1 DEF CallsInv, BudgetInv
  <2>. QED
    BY <1>7, <2>2, <2>3, <2>4
<1>9. CASE ~call[o].value
  <2>1. /\ Remove(Head(rescues[o]).to) /\ answered' = answered \ {o}
        /\ call' = [call EXCEPT ![o] = Calling(r + 1)]
    BY <1>9 DEF Return, r
  <2>2. PoolInv'
    BY <1>1, <1>4, <2>1, PoolStep
  <2>3. CallsInv'
    BY <1>1, <1>3, <1>5, <2>1 DEF CallsInv, SuccessIsReal
  <2>4. BudgetInv'
    BY <1>1, <1>6, <2>1 DEF CallsInv, BudgetInv
  <2>. QED
    BY <1>7, <2>2, <2>3, <2>4
<1>. QED
  BY <1>8, <1>9

\* Close rejects every request to one peer at once.
LEMMA CloseStep ==
  ASSUME BroadcastInv, NEW v \in Validator, Close(v)
  PROVE  BroadcastInv' /\ AnswersStand
<1>. USE DEF BroadcastInv
<1>. DEFINE Rejected(o) == call[o].at \in {"awaiting", "lost"} /\ call[o].to = v
            After(o) == IF Rejected(o) THEN Calling(call[o].retries + 1) ELSE call[o]
<1>1. /\ link' = link \ {v} /\ Remove(v)
      /\ call' = [o \in Operation |-> After(o)]
      /\ UNCHANGED <<rescues, delivered, attempts, answered, appended>>
  BY DEF Close
<1>2. ASSUME NEW o \in Operation
      PROVE  /\ After(o) \in Calls /\ Left(After(o)) = Left(call[o])
             /\ Left(call[o]) \in Nat
             /\ Rejected(o) => After(o) # Result(TRUE) /\ call[o].at # "returned"
  <2>1. call[o] \in Calls /\ Left(call[o]) \in Nat
    BY CallCases DEF CallsInv
  <2>2. CASE Rejected(o)
    <3>. DEFINE r == call[o].retries
    <3>1. r \in 0..MaxRetries
      BY <2>1, <2>2, CallCases
    <3>2. Left(call[o]) = Weight[MaxRetries - r]
      BY <2>2 DEF Left
    <3>3. After(o) = Calling(r + 1) /\ Calling(r + 1) # Result(TRUE) /\ call[o].at # "returned"
      BY <2>2 DEF Calling, Result
    <3>. HIDE DEF r, After, Rejected
    <3>4. /\ Calling(r + 1) \in Calls /\ Left(Calling(r + 1)) = Weight[MaxRetries - r]
          /\ Weight[MaxRetries - r] \in Nat
      BY <3>1, Retried, LeftValues
    <3>5. Left(After(o)) = Left(call[o])
      BY <3>2, <3>3, <3>4
    <3>. QED
      BY <2>1, <3>3, <3>4, <3>5
  <2>3. CASE ~Rejected(o)
    <3>1. After(o) = call[o]
      BY <2>3
    <3>. HIDE DEF After, Rejected
    <3>. QED
      BY <2>1, <2>3, <3>1
  <2>. QED
    BY <2>2, <2>3
<1>3. \A o \in Operation : ~Rejected(o) => After(o) = call[o]
  OBVIOUS
<1>. HIDE DEF Rejected, After
<1>4. PoolInv'
  BY <1>1, LimitAssumption DEF Remove, PoolInv
<1>5. CallsInv'
  <2>1. \A o \in Operation : call'[o] = After(o)
    BY <1>1
  <2>2. call' \in [Operation -> Calls]
    BY <1>1, <1>2
  <2>3. SuccessIsReal'
    BY <1>1, <1>2, <1>3, <2>1 DEF CallsInv, SuccessIsReal
  <2>4. \A o \in answered' : call'[o].at = "returned"
    BY <1>1, <1>2, <1>3, <2>1 DEF CallsInv
  <2>. QED
    BY <1>1, <2>2, <2>3, <2>4 DEF CallsInv
<1>6. BudgetInv'
  <2>. SUFFICES ASSUME NEW o \in Operation
                PROVE  Fits(After(o), rescues[o], attempts[o])
    BY <1>1 DEF BudgetInv, CallsInv
  <2>1. /\ call[o] \in Calls /\ attempts[o] \in Nat /\ rescues[o] \in Seq(Rescue)
        /\ Fits(call[o], rescues[o], attempts[o])
    BY DEF CallsInv, BudgetInv
  <2>2. After(o) \in Calls /\ Left(After(o)) = Left(call[o]) /\ Left(call[o]) \in Nat
    BY <1>2
  <2>3. attempts[o] + Left(After(o)) <= attempts[o] + Left(call[o])
    BY <2>1, <2>2
  <2>. QED
    BY <2>1, <2>2, <2>3, FitsLess
<1>7. AnswersStand
  BY <1>1 DEF AnswersStand
<1>. QED
  BY <1>4, <1>5, <1>6, <1>7

\* Every step keeps the invariant and takes back no answer.
LEMMA BroadcastInvStep ==
  ASSUME BroadcastInv, [Next]_vars
  PROVE  BroadcastInv' /\ AnswersStand
<1>. USE DEF BroadcastInv
<1>1. ASSUME UNCHANGED <<call, rescues, delivered, attempts, answered, appended>>, PoolInv'
      PROVE  BroadcastInv' /\ AnswersStand
  BY <1>1 DEF CallsInv, SuccessIsReal, BudgetInv, AnswersStand
<1>2. ASSUME NEW v \in Validator, Connect(v) \/ Join(v) \/ JoinDead(v)
      PROVE  BroadcastInv' /\ AnswersStand
  BY <1>1, <1>2 DEF Connect, Join, JoinDead, PoolInv
<1>3. ASSUME NEW v \in Validator, Dismiss(v) PROVE BroadcastInv' /\ AnswersStand
  BY <1>1, <1>3, PoolStep DEF Dismiss
<1>4. ASSUME NEW o \in Operation, GiveUp(o) PROVE BroadcastInv' /\ AnswersStand
  <2>1. CallsInv' /\ BudgetInv' /\ AnswersStand
    BY <1>4, ResultStep DEF GiveUp
  <2>. QED
    BY <1>4, <2>1 DEF GiveUp, PoolInv
<1>5. ASSUME NEW o \in Operation, Answer(o) \/ Appear(o) PROVE BroadcastInv' /\ AnswersStand
  <2>1. /\ call[o].at \in {"awaiting", "legacy"} /\ UNCHANGED link
        /\ Remove(call[o].to) \/ Count(call[o].to) \/ KeepPool
        /\ UNCHANGED <<rescues, delivered, attempts, appended>>
        /\ answered' = answered \/ answered' = answered \union {o}
        /\ \E value \in BOOLEAN :
             call' = [call EXCEPT ![o] = Result(value)] /\ (value => o \in appended)
    BY <1>5 DEF Answer, Appear
  <2>2. call[o].to \in Validator /\ call[o].at # "returned"
    BY <2>1, CallCases DEF CallsInv
  <2>3. PoolInv'
    BY <2>1, <2>2, PoolStep
  <2>4. CallsInv' /\ BudgetInv' /\ AnswersStand
    BY <2>1, <2>2, ResultStep
  <2>. QED
    BY <2>3, <2>4
<1>6. ASSUME NEW o \in Operation, Reject(o) \/ Miss(o) PROVE BroadcastInv' /\ AnswersStand
  <2>1. /\ call[o].at \in {"building", "awaiting", "lost", "legacy"} /\ UNCHANGED link
        /\ Remove(call[o].to) /\ Resend(o)
        /\ UNCHANGED <<rescues, delivered, attempts, answered, appended>>
    BY <1>6 DEF Reject, Miss
  <2>2. call[o].to \in Validator
    BY <2>1, CallCases DEF CallsInv
  <2>3. PoolInv'
    BY <2>1, <2>2, PoolStep
  <2>4. CallsInv' /\ BudgetInv' /\ AnswersStand
    BY <2>1, ResendStep
  <2>. QED
    BY <2>3, <2>4
<1>7. ASSUME NEW o \in Operation, AppendOperation(o) PROVE BroadcastInv' /\ AnswersStand
  BY <1>7 DEF AppendOperation, PoolInv, CallsInv, SuccessIsReal, BudgetInv, AnswersStand
<1>8. CASE UNCHANGED vars
  BY <1>1, <1>8 DEF vars, PoolInv
<1>. QED
  BY <1>2, <1>3, <1>4, <1>5, <1>6, <1>7, <1>8, CloseStep, PickStep, TransmitStep,
     ThrowStep, ReturnStep DEF Next, Step

\* The invariant holds in every reachable state.
LEMMA BroadcastInvariant == Spec => []BroadcastInv
<1>1. BroadcastInv /\ [Next]_vars => BroadcastInv'
  BY BroadcastInvStep
<1>. QED
  BY <1>1, BroadcastInvInit, PTL DEF Spec

-----------------------------------------------------------------------------
(* The theorems *)

\* The state stays of its type: among the rest, no call is under way with more
\* than maxRetries behind it, and no count is above messageThreshold.
THEOREM TypeCorrect == Spec => []TypeOK
<1>1. BroadcastInv => TypeOK
  <2>. SUFFICES ASSUME BroadcastInv PROVE TypeOK
    OBVIOUS
  <2>. USE LimitAssumption DEF BroadcastInv
  <2>1. /\ link \subseteq Validator
        /\ pool \in [Validator -> {"out", "in", "dead"}]
        /\ sent \in [Validator -> 0..MessageThreshold]
    BY DEF PoolInv
  <2>2. ASSUME NEW o \in Operation
        PROVE  call[o] \in {Calling(r) : r \in Retry}
                 \union {Busy(at, v, r) : at \in {"building", "awaiting", "lost", "legacy"},
                                          v \in Validator, r \in Retry}
                 \union {Result(value) : value \in BOOLEAN}
    <3>1. 0..MaxRetries \subseteq Retry
      BY DEF Retry
    <3>2. call[o] \in Calls
      BY DEF CallsInv
    <3>. QED
      BY <3>1, <3>2 DEF Calls
  <2>3. ASSUME NEW o \in Operation, NEW i \in DOMAIN rescues[o]
        PROVE  rescues[o][i] \in [to : Validator, retries : 0..MaxRetries]
    <3>1. rescues[o] \in Seq(Rescue)
      BY DEF CallsInv
    <3>2. rescues[o][i] \in Rescue
      BY <3>1
    <3>. QED
      BY <3>2 DEF Rescue
  <2>. QED
    BY <2>1, <2>2, <2>3 DEF CallsInv, TypeOK
<1>. QED
  BY <1>1, BroadcastInvariant, PTL

\* send only reports what a validator appended, whatever timeouts, closings,
\* answers and thrown reads it went through.
THEOREM SuccessReal == Spec => []SuccessIsReal
<1>1. BroadcastInv => SuccessIsReal
  BY DEF BroadcastInv, CallsInv
<1>. QED
  BY <1>1, BroadcastInvariant, PTL

\* incrementSentCount and shouldRemove keep every entry below messageThreshold.
THEOREM QuotaKept == Spec => []QuotaIsKept
<1>1. BroadcastInv => QuotaIsKept
  BY LimitAssumption DEF BroadcastInv, PoolInv, QuotaIsKept, Connected
<1>. QED
  BY <1>1, BroadcastInvariant, PTL

\* send makes at most maxRetries + 1 attempts, and where legacy attempts may
\* throw, at most those of a full binary tree of that height.
THEOREM AttemptsBounded == Spec => []AttemptsAreBounded
<1>1. BroadcastInv => AttemptsAreBounded
  <2>. SUFFICES ASSUME BroadcastInv, NEW o \in Operation
                PROVE  attempts[o] <= Weight[MaxRetries + 1]
    BY WeightProperties DEF AttemptsAreBounded
  <2>1. /\ call[o] \in Calls /\ attempts[o] \in Nat /\ rescues[o] \in Seq(Rescue)
        /\ Fits(call[o], rescues[o], attempts[o])
    BY DEF BroadcastInv, CallsInv, BudgetInv
  <2>2. PICK owed : /\ Owes(rescues[o], owed)
                    /\ attempts[o] + Left(call[o]) + owed[1] <= Weight[MaxRetries + 1]
    BY <2>1 DEF Fits
  <2>3. Left(call[o]) \in Nat /\ owed[1] \in Nat
    BY <2>1, <2>2, CallCases, OwesType
  <2>. QED
    BY <2>1, <2>2, <2>3, BoundType
<1>. QED
  BY <1>1, BroadcastInvariant, PTL

\* An answered operation is sent again only after a rescue took its answer
\* back.
THEOREM AnswersFinal == Spec => AnswersAreFinal
<1>1. BroadcastInv /\ [Next]_vars => [AnswersStand]_vars
  BY BroadcastInvStep
<1>. QED
  BY <1>1, BroadcastInvariant, PTL DEF Spec, AnswersAreFinal, AnswersStand
=============================================================================
