--------------------------- MODULE MonitorsProofs ---------------------------
(***************************************************************************)
(* What Monitors promises for every size of the windows, every kind of     *)
(* monitor and every bound.                                                *)
(*                                                                         *)
(* A measure is exact unless it was spoilt (MeterInv: the reading of start *)
(* is the one of the time start was called).  The buffer implements the    *)
(* window (BufferInv: it is a rotation of the last observations), and the  *)
(* statistics served are those of the window (CacheInv).  For these and for*)
(* the average of the adaptor (AdaptorInv: its window is a rotation of the *)
(* last evaluations), a loop that adds up gives the same for a sequence and*)
(* its rotation: that is an induction over the elements, and it is made    *)
(* with the least-number principle.  The errors of a goal follow from the  *)
(* arithmetic of the truncated quotient.                                   *)
(***************************************************************************)
EXTENDS Monitors, SequenceTheorems, WellFoundedInduction, TLAPS

----------------------------------------------------------------------------
(* Loops that accumulate: std::accumulate over a buffer and over a window. *)

\* The least-number principle, for a set: a set of numbers that holds 0 and the
\* successor of each of its elements below n holds them all.
LEMMA UpFromZero ==
  ASSUME NEW n \in Nat, NEW T, 0 \in T, \A i \in 0 .. n - 1 : i \in T => i + 1 \in T
  PROVE  0 .. n \subseteq T
<1> DEFINE Rest == (0 .. n) \ T
<1> SUFFICES ASSUME Rest # {} PROVE FALSE OBVIOUS
<1>1. Rest \subseteq Nat OBVIOUS
<1>2. PICK u \in Rest : \A w \in Rest : u <= w
  <2> HIDE DEF Rest
  <2>1. \E u \in Rest : \A w \in Rest : <<w, u>> \notin OpToRel(<, Nat)
    BY <1>1, NatLessThanWellFounded, WFMin, Zenon
  <2>2. \E u \in Rest : \A w \in Rest : w \in Nat /\ u \in Nat => ~(w < u)
    BY <2>1, Zenon DEF OpToRel
  <2> QED BY <1>1, <2>2
<1>3. u # 0 OBVIOUS
<1>4. u - 1 \in 0 .. n - 1 /\ u - 1 \in T BY <1>2, <1>3
<1> QED BY <1>2, <1>4

\* f[i] is what the loop has accumulated after i elements of s.
Accumulates(f, s, n, op, base) ==
  f[0] = base /\ \A i \in 1 .. n : f[i] = op[<<f[i - 1], s[i]>>]

\* A loop over n elements of M that accumulates f.
Loop(M, op, base, f, s, n) ==
  /\ f \in [0 .. n -> M] /\ \A i \in 1 .. n : s[i] \in M
  /\ Accumulates(f, s, n, op, base)

\* op is an operation on M like the addition: what the loop needs to accumulate
\* the same in another order.
Additive(M, op, base) ==
  /\ base \in M /\ op \in [M \X M -> M]
  /\ \A a \in M : op[<<a, base>>] = a
  /\ \A a, b \in M : op[<<a, b>>] = op[<<b, a>>]
  /\ \A a, b, c \in M : op[<<op[<<a, b>>], c>>] = op[<<a, op[<<b, c>>]>>]

\* Such a loop has a value after each element.
LEMMA LoopAccumulates ==
  ASSUME NEW M, NEW op \in [M \X M -> M], NEW base \in M, NEW n \in Nat,
         NEW s, \A i \in 1 .. n : s[i] \in M
  PROVE  \E f \in [0 .. n -> M] : Accumulates(f, s, n, op, base)
<1> DEFINE T == {m \in 0 .. n : \E f \in [0 .. m -> M] : Accumulates(f, s, m, op, base)}
<1>1. 0 \in T
  <2>1. [i \in 0 .. 0 |-> base] \in [0 .. 0 -> M] OBVIOUS
  <2>2. Accumulates([i \in 0 .. 0 |-> base], s, 0, op, base) BY DEF Accumulates
  <2> QED BY <2>1, <2>2
<1>2. ASSUME NEW m \in 0 .. n - 1, m \in T PROVE m + 1 \in T
  <2>1. PICK f \in [0 .. m -> M] : Accumulates(f, s, m, op, base) BY <1>2
  <2> DEFINE g == [i \in 0 .. m + 1 |-> IF i = m + 1 THEN op[<<f[m], s[m + 1]>>] ELSE f[i]]
  <2>2. g \in [0 .. m + 1 -> M]
    <3>1. <<f[m], s[m + 1]>> \in M \X M OBVIOUS
    <3> QED BY <3>1
  <2>3. \A i \in 0 .. m : g[i] = f[i] OBVIOUS
  <2>4. g[m + 1] = op[<<g[m], s[m + 1]>>]
    <3>1. g[m] = f[m] BY <2>3
    <3>2. g[m + 1] = op[<<f[m], s[m + 1]>>] OBVIOUS
    <3> HIDE DEF g
    <3> QED BY <3>1, <3>2
  <2> HIDE DEF g
  <2>5. Accumulates(g, s, m + 1, op, base)
    <3>1. g[0] = base BY <2>1, <2>3 DEF Accumulates
    <3>2. ASSUME NEW i \in 1 .. m + 1 PROVE g[i] = op[<<g[i - 1], s[i]>>]
      <4>1. CASE i = m + 1 BY <2>4, <4>1
      <4>2. CASE i # m + 1
        <5>1. i \in 1 .. m /\ f[i] = op[<<f[i - 1], s[i]>>] BY <2>1, <4>2 DEF Accumulates
        <5>2. g[i] = f[i] /\ g[i - 1] = f[i - 1] BY <2>3, <5>1
        <5> QED BY <5>1, <5>2
      <4> QED BY <4>1, <4>2
    <3> QED BY <3>1, <3>2 DEF Accumulates
  <2> QED BY <2>2, <2>5
<1>3. n \in T
  <2> HIDE DEF T
  <2>1. 0 .. n \subseteq T BY <1>1, <1>2, UpFromZero
  <2> QED BY <2>1
<1> QED BY <1>3

\* A stretch of l elements adds to what was accumulated before it what a loop over
\* these elements alone accumulates.
LEMMA Stretch ==
  ASSUME NEW M, NEW op, NEW base, Additive(M, op, base),
         NEW n \in Nat, NEW m \in Nat, NEW f, NEW g, NEW s, NEW t,
         Loop(M, op, base, f, s, n), Loop(M, op, base, g, t, m)
  PROVE  \A k \in Nat, l \in Nat :
           l <= m /\ k + l <= n /\ (\A i \in 1 .. l : t[i] = s[k + i])
             => f[k + l] = op[<<f[k], g[l]>>]
<1> SUFFICES ASSUME NEW k \in Nat, NEW l \in Nat, l <= m, k + l <= n,
                    \A i \in 1 .. l : t[i] = s[k + i]
             PROVE  f[k + l] = op[<<f[k], g[l]>>]
  OBVIOUS
<1> DEFINE T == {i \in 0 .. l : f[k + i] = op[<<f[k], g[i]>>]}
<1>0. /\ f \in [0 .. n -> M] /\ g \in [0 .. m -> M] /\ \A i \in 1 .. m : t[i] \in M
      /\ Accumulates(f, s, n, op, base) /\ Accumulates(g, t, m, op, base)
  BY DEF Loop
<1>1. 0 \in T
  <2>1. f[k] \in M /\ g[0] = base /\ k + 0 = k BY <1>0 DEF Accumulates
  <2> QED BY <2>1 DEF Additive
<1>2. ASSUME NEW i \in 0 .. l - 1, i \in T PROVE i + 1 \in T
  <2>1. f[k + i] = op[<<f[k], g[i]>>] BY <1>2
  <2>2. /\ k + i + 1 \in 1 .. n /\ (k + i + 1) - 1 = k + i /\ k + (i + 1) = k + i + 1
        /\ i + 1 \in 1 .. l /\ i + 1 \in 1 .. m /\ (i + 1) - 1 = i
    <3> HIDE DEF T
    <3>1. i \in Nat /\ i + 1 <= l OBVIOUS
    <3>2. i + 1 \in 1 .. l /\ (i + 1) - 1 = i BY <3>1
    <3>3. i + 1 \in 1 .. m BY <3>1
    <3>4. k + i + 1 \in 1 .. n BY <3>1
    <3>5. (k + i + 1) - 1 = k + i /\ k + (i + 1) = k + i + 1 BY <3>1
    <3> QED BY <3>2, <3>3, <3>4, <3>5
  <2>3. f[k + i + 1] = op[<<f[k + i], s[k + i + 1]>>] BY <1>0, <2>2 DEF Accumulates
  <2>4. g[i + 1] = op[<<g[i], t[i + 1]>>] BY <1>0, <2>2 DEF Accumulates
  <2>5. t[i + 1] = s[k + i + 1] /\ t[i + 1] \in M BY <1>0, <2>2
  <2>6. f[k] \in M /\ g[i] \in M BY <1>0
  <2>7. op[<<op[<<f[k], g[i]>>], t[i + 1]>>] = op[<<f[k], op[<<g[i], t[i + 1]>>]>>]
    <3>1. \A a, b, c \in M : op[<<op[<<a, b>>], c>>] = op[<<a, op[<<b, c>>]>>] BY DEF Additive
    <3> HIDE DEF T
    <3> QED BY <2>5, <2>6, <3>1
  <2>8. f[k + (i + 1)] = op[<<f[k], g[i + 1]>>] BY <2>1, <2>2, <2>3, <2>4, <2>5, <2>7
  <2> QED BY <2>2, <2>8
<1>3. 0 .. l \subseteq T
  <2> HIDE DEF T
  <2> QED BY <1>1, <1>2, UpFromZero
<1> QED BY <1>3

\* t is s read from the element after the k-th on, round to the k-th.
Rotated(s, t, n, k) ==
  /\ k \in 0 .. n
  /\ \A i \in 1 .. n - k : t[i] = s[k + i]
  /\ \A i \in 1 .. k : t[n - k + i] = s[i]

\* Where a circular buffer starts does not matter to what is accumulated.
LEMMA RotationAccumulates ==
  ASSUME NEW M, NEW op, NEW base, Additive(M, op, base), NEW n \in Nat, NEW k,
         NEW f, NEW g, NEW s, NEW t,
         Loop(M, op, base, f, s, n), Loop(M, op, base, g, t, n), Rotated(s, t, n, k)
  PROVE  f[n] = g[n]
<1> DEFINE l == n - k
<1>1. k \in 0 .. n /\ l \in 0 .. n /\ k \in Nat /\ l \in Nat /\ k + l = n /\ l + k = n
  BY DEF Rotated
<1>2. (\A i \in 1 .. l : t[i] = s[k + i]) /\ (\A i \in 1 .. k : s[i] = t[l + i]) BY DEF Rotated
<1> HIDE DEF l
<1>3. f[k + l] = op[<<f[k], g[l]>>]
  <2>1. l <= n /\ k + l <= n BY <1>1
  <2> QED BY <1>1, <1>2, <2>1, Stretch
<1>4. g[l + k] = op[<<g[l], f[k]>>]
  <2>1. k <= n /\ l + k <= n BY <1>1
  <2> QED BY <1>1, <1>2, <2>1, Stretch
<1>5. f[k] \in M /\ g[l] \in M BY <1>1 DEF Loop
<1> QED BY <1>1, <1>3, <1>4, <1>5 DEF Additive

\* SumOf is such a loop: the one of average.
Add == [p \in Int \X Int |-> p[1] + p[2]]

\* The addition of integers is such an operation.
LEMMA AddIsAdditive == Additive(Int, Add, 0)
<1>1. \A a, b \in Int : Add[<<a, b>>] = a + b /\ a + b \in Int BY DEF Add
<1>2. Add \in [Int \X Int -> Int] BY DEF Add
<1>3. \A a \in Int : Add[<<a, 0>>] = a BY <1>1
<1>4. ASSUME NEW a \in Int, NEW b \in Int PROVE Add[<<a, b>>] = Add[<<b, a>>]
  <2>1. Add[<<a, b>>] = a + b /\ Add[<<b, a>>] = b + a BY <1>1
  <2> QED BY <2>1
<1>5. ASSUME NEW a \in Int, NEW b \in Int, NEW c \in Int
      PROVE  Add[<<Add[<<a, b>>], c>>] = Add[<<a, Add[<<b, c>>]>>]
  <2>1. Add[<<a, b>>] = a + b /\ Add[<<b, c>>] = b + c BY <1>1
  <2>2. Add[<<a + b, c>>] = (a + b) + c /\ Add[<<a, b + c>>] = a + (b + c) BY <1>1
  <2> QED BY <2>1, <2>2
<1> QED BY <1>2, <1>3, <1>4, <1>5 DEF Additive

\* SumOf is the loop of std::accumulate with the addition.
LEMMA SumIsALoop ==
  ASSUME NEW s, Len(s) \in Nat, \A i \in 1 .. Len(s) : s[i] \in Int
  PROVE  \E f : Loop(Int, Add, 0, f, s, Len(s)) /\ SumOf(s) = f[Len(s)]
<1> DEFINE n == Len(s)
           body(g) == [i \in 0 .. n |-> IF i = 0 THEN 0 ELSE g[i - 1] + s[i]]
<1>1. n \in Nat /\ \A i \in 1 .. n : s[i] \in Int OBVIOUS
<1>2. SumOf(s) = (CHOOSE g : g = body(g))[n] BY DEF SumOf
<1> HIDE DEF n
<1>3. \E g : g = body(g)
  <2>1. PICK g \in [0 .. n -> Int] : Accumulates(g, s, n, Add, 0)
    BY <1>1, AddIsAdditive, LoopAccumulates DEF Additive
  <2>2. ASSUME NEW i \in 0 .. n PROVE g[i] = IF i = 0 THEN 0 ELSE g[i - 1] + s[i]
    <3>1. CASE i = 0 BY <2>1, <3>1 DEF Accumulates
    <3>2. CASE i # 0
      <4>1. i \in 1 .. n /\ i - 1 \in 0 .. n BY <1>1, <3>2
      <4>2. g[i] = Add[<<g[i - 1], s[i]>>] BY <2>1, <4>1 DEF Accumulates
      <4>3. g[i - 1] \in Int /\ s[i] \in Int BY <1>1, <4>1
      <4> QED BY <3>2, <4>2, <4>3 DEF Add
    <3> QED BY <3>1, <3>2
  <2> QED BY <2>2
<1> DEFINE sum == CHOOSE g : g = body(g)
<1>4. sum = body(sum) BY <1>3, Zenon
<1>5. SumOf(s) = sum[n] BY <1>2
<1> HIDE DEF sum
<1>6. sum[0] = 0 BY <1>1, <1>4
<1>7. ASSUME NEW i \in 1 .. n PROVE sum[i] = sum[i - 1] + s[i] BY <1>1, <1>4
<1>8. \A i \in 0 .. n : sum[i] \in Int
  <2> DEFINE T == {i \in 0 .. n : sum[i] \in Int}
  <2>1. 0 \in T BY <1>1, <1>6
  <2>2. ASSUME NEW i \in 0 .. n - 1, i \in T PROVE i + 1 \in T
    <3>1. i + 1 \in 1 .. n /\ (i + 1) - 1 = i BY <1>1
    <3>2. sum[i + 1] = sum[i] + s[i + 1] BY <1>7, <3>1
    <3> QED BY <1>1, <2>2, <3>1, <3>2
  <2>3. 0 .. n \subseteq T
    <3> HIDE DEF T
    <3> QED BY <1>1, <2>1, <2>2, UpFromZero
  <2> QED BY <2>3
<1>9. Loop(Int, Add, 0, sum, s, n)
  <2>1. sum \in [0 .. n -> Int] BY <1>4, <1>8
  <2>2. ASSUME NEW i \in 1 .. n PROVE sum[i] = Add[<<sum[i - 1], s[i]>>]
    <3>1. i - 1 \in 0 .. n BY <1>1
    <3>2. sum[i - 1] \in Int /\ s[i] \in Int BY <1>1, <1>8, <3>1
    <3> QED BY <1>7, <3>2 DEF Add
  <2> QED BY <1>1, <1>6, <2>1, <2>2 DEF Loop, Accumulates
<1> QED BY <1>5, <1>9 DEF n

\* The sum does not depend on where the circular buffer starts.
LEMMA SumOfRotation ==
  ASSUME NEW s, NEW t, NEW k, Len(s) \in Nat, Len(t) = Len(s), Rotated(s, t, Len(s), k),
         \A i \in 1 .. Len(s) : s[i] \in Int, \A i \in 1 .. Len(s) : t[i] \in Int
  PROVE  SumOf(t) = SumOf(s) /\ SumOf(s) \in Int
<1>1. PICK f : Loop(Int, Add, 0, f, s, Len(s)) /\ SumOf(s) = f[Len(s)] BY SumIsALoop
<1>2. PICK g : Loop(Int, Add, 0, g, t, Len(t)) /\ SumOf(t) = g[Len(t)] BY SumIsALoop
<1>3. f[Len(s)] = g[Len(s)] BY <1>1, <1>2, AddIsAdditive, RotationAccumulates
<1> QED BY <1>1, <1>2, <1>3 DEF Loop

\* Whole numbers that are not negative add up to one.
LEMMA SumIsNatural ==
  ASSUME NEW s, Len(s) \in Nat, \A i \in 1 .. Len(s) : s[i] \in Nat
  PROVE  SumOf(s) \in Nat
<1>1. PICK f : Loop(Int, Add, 0, f, s, Len(s)) /\ SumOf(s) = f[Len(s)] BY SumIsALoop
<1> DEFINE T == {i \in 0 .. Len(s) : f[i] \in Nat}
<1>2. 0 \in T BY <1>1 DEF Loop, Accumulates
<1>3. ASSUME NEW i \in 0 .. Len(s) - 1, i \in T PROVE i + 1 \in T
  <2>1. i + 1 \in 1 .. Len(s) /\ (i + 1) - 1 = i OBVIOUS
  <2>2. f[i + 1] = Add[<<f[i], s[i + 1]>>] BY <1>1, <2>1 DEF Loop, Accumulates
  <2>3. f[i] \in Nat /\ s[i + 1] \in Nat BY <1>3, <2>1
  <2>4. f[i + 1] = f[i] + s[i + 1] BY <2>2, <2>3 DEF Add
  <2> QED BY <2>1, <2>3, <2>4
<1>4. 0 .. Len(s) \subseteq T
  <2> HIDE DEF T
  <2> QED BY <1>2, <1>3, UpFromZero
<1> QED BY <1>1, <1>4

\* The sum of the two readings of FrequencyMonitor and TemperatureMonitor.
LEMMA SumOfTwo ==
  ASSUME NEW v \in Int, NEW w \in Int
  PROVE  SumOf(<<v, w>>) = v + w
<1> DEFINE s == <<v, w>>
<1>1. Len(s) = 2 /\ s[1] = v /\ s[2] = w OBVIOUS
<1>2. Len(s) \in Nat /\ \A i \in 1 .. Len(s) : s[i] \in Int BY <1>1
<1> HIDE DEF s
<1>3. PICK f : Loop(Int, Add, 0, f, s, Len(s)) /\ SumOf(s) = f[Len(s)] BY <1>2, SumIsALoop
<1>4. f[0] = 0 /\ f[1] = Add[<<f[0], s[1]>>] /\ f[2] = Add[<<f[1], s[2]>>]
  BY <1>1, <1>3 DEF Loop, Accumulates
<1>5. f[1] = v BY <1>1, <1>4 DEF Add
<1>6. f[2] = v + w BY <1>1, <1>4, <1>5 DEF Add
<1> QED BY <1>1, <1>3, <1>6 DEF s

\* AverageError is such a loop too: fractions are added.
Fractions == Int \X Int
AddFractions == [p \in Fractions \X Fractions |-> Plus(p[1], p[2])]

\* The addition of fractions is such an operation too, though they are not reduced.
LEMMA AddFractionsIsAdditive == Additive(Fractions, AddFractions, <<0, 1>>)
<1>1. ASSUME NEW a \in Fractions, NEW b \in Fractions
      PROVE  /\ a = <<a[1], a[2]>> /\ a[1] \in Int /\ a[2] \in Int
             /\ AddFractions[<<a, b>>] = Plus(a, b) /\ Plus(a, b) \in Fractions
             /\ Plus(a, b)[1] = a[1] * b[2] + b[1] * a[2] /\ Plus(a, b)[2] = a[2] * b[2]
  <2>1. a[1] \in Int /\ a[2] \in Int /\ b[1] \in Int /\ b[2] \in Int BY DEF Fractions
  <2>2. a = <<a[1], a[2]>> BY DEF Fractions
  <2>3. AddFractions[<<a, b>>] = Plus(a, b) BY DEF AddFractions
  <2>4. a[1] * b[2] \in Int /\ b[1] * a[2] \in Int /\ a[2] * b[2] \in Int BY <2>1
  <2> QED BY <2>1, <2>2, <2>3, <2>4 DEF Plus, Fractions
<1>2. AddFractions \in [Fractions \X Fractions -> Fractions]
  <2>1. \A p \in Fractions \X Fractions : Plus(p[1], p[2]) \in Fractions
    <3> SUFFICES ASSUME NEW a \in Fractions, NEW b \in Fractions PROVE Plus(a, b) \in Fractions
      OBVIOUS
    <3> QED BY <1>1
  <2> QED BY <2>1 DEF AddFractions
<1>3. ASSUME NEW a \in Fractions PROVE AddFractions[<<a, <<0, 1>>>>] = a
  <2>1. <<0, 1>> \in Fractions BY DEF Fractions
  <2>2. a = <<a[1], a[2]>> /\ a[1] \in Int /\ a[2] \in Int
        /\ AddFractions[<<a, <<0, 1>>>>] = Plus(a, <<0, 1>>)
    BY <1>1, <2>1
  <2>3. a[1] * 1 + 0 * a[2] = a[1] /\ a[2] * 1 = a[2] BY <2>2
  <2> QED BY <2>2, <2>3 DEF Plus
<1>4. ASSUME NEW a \in Fractions, NEW b \in Fractions
      PROVE  AddFractions[<<a, b>>] = AddFractions[<<b, a>>]
  <2>1. a[1] \in Int /\ a[2] \in Int /\ b[1] \in Int /\ b[2] \in Int BY <1>1
  <2>2. a[1] * b[2] + b[1] * a[2] = b[1] * a[2] + a[1] * b[2] /\ a[2] * b[2] = b[2] * a[2]
    BY <2>1
  <2>3. AddFractions[<<a, b>>] = Plus(a, b) /\ AddFractions[<<b, a>>] = Plus(b, a) BY <1>1
  <2> QED BY <2>2, <2>3 DEF Plus
<1>5. ASSUME NEW a \in Fractions, NEW b \in Fractions, NEW c \in Fractions
      PROVE  AddFractions[<<AddFractions[<<a, b>>], c>>] = AddFractions[<<a, AddFractions[<<b, c>>]>>]
  <2>1. a[1] \in Int /\ a[2] \in Int /\ b[1] \in Int /\ b[2] \in Int /\ c[1] \in Int /\ c[2] \in Int
    BY <1>1
  <2>2. \A a1, a2, b1, b2, e1, e2 \in Int :
          /\ (a1 * b2 + b1 * a2) * e2 + e1 * (a2 * b2) = a1 * (b2 * e2) + (b1 * e2 + e1 * b2) * a2
          /\ (a2 * b2) * e2 = a2 * (b2 * e2)
    OBVIOUS
  <2> DEFINE ab == Plus(a, b)  bc == Plus(b, c)
  <2>3. /\ ab \in Fractions /\ bc \in Fractions
        /\ ab[1] = a[1] * b[2] + b[1] * a[2] /\ ab[2] = a[2] * b[2]
        /\ bc[1] = b[1] * c[2] + c[1] * b[2] /\ bc[2] = b[2] * c[2]
    BY <1>1
  <2>4. AddFractions[<<a, b>>] = ab /\ AddFractions[<<b, c>>] = bc BY <1>1
  <2> HIDE DEF ab, bc
  <2>5. AddFractions[<<ab, c>>] = Plus(ab, c) /\ AddFractions[<<a, bc>>] = Plus(a, bc) BY <1>1, <2>3
  <2>6. Plus(ab, c) = Plus(a, bc) BY <2>1, <2>2, <2>3 DEF Plus
  <2> QED BY <2>4, <2>5, <2>6
<1>6. <<0, 1>> \in Fractions BY DEF Fractions
<1> QED BY <1>2, <1>3, <1>4, <1>5, <1>6 DEF Additive

\* AverageError adds up the coefficients with the same loop.
LEMMA ErrorIsALoop ==
  ASSUME NEW s, Len(s) \in Nat, \A i \in 1 .. Len(s) : s[i] \in Fractions
  PROVE  \E f : /\ Loop(Fractions, AddFractions, <<0, 1>>, f, s, Len(s))
                 /\ AverageError(s) = <<f[Len(s)][1], f[Len(s)][2] * Len(s)>>
<1> DEFINE n == Len(s)
           body(g) == [i \in 0 .. n |-> IF i = 0 THEN <<0, 1>> ELSE Plus(g[i - 1], s[i])]
<1>1. n \in Nat /\ \A i \in 1 .. n : s[i] \in Fractions OBVIOUS
<1>2. AverageError(s) = <<(CHOOSE g : g = body(g))[n][1], (CHOOSE g : g = body(g))[n][2] * n>>
  BY DEF AverageError
<1> HIDE DEF n
<1>0. /\ AddFractions \in [Fractions \X Fractions -> Fractions] /\ <<0, 1>> \in Fractions
      /\ \A a, b \in Fractions :
           AddFractions[<<a, b>>] = Plus(a, b) /\ Plus(a, b) \in Fractions
  <2>1. AddFractions \in [Fractions \X Fractions -> Fractions] /\ <<0, 1>> \in Fractions
    BY AddFractionsIsAdditive DEF Additive
  <2>2. ASSUME NEW a \in Fractions, NEW b \in Fractions
        PROVE  AddFractions[<<a, b>>] = Plus(a, b) /\ Plus(a, b) \in Fractions
    <3>1. AddFractions[<<a, b>>] = Plus(a, b) BY DEF AddFractions
    <3>2. AddFractions[<<a, b>>] \in Fractions BY <2>1
    <3> QED BY <3>1, <3>2
  <2> QED BY <2>1, <2>2
<1>3. \E g : g = body(g)
  <2>1. PICK g \in [0 .. n -> Fractions] : Accumulates(g, s, n, AddFractions, <<0, 1>>)
    BY <1>0, <1>1, LoopAccumulates
  <2>2. ASSUME NEW i \in 0 .. n PROVE g[i] = IF i = 0 THEN <<0, 1>> ELSE Plus(g[i - 1], s[i])
    <3>1. CASE i = 0 BY <2>1, <3>1 DEF Accumulates
    <3>2. CASE i # 0
      <4>1. i \in 1 .. n /\ i - 1 \in 0 .. n BY <1>1, <3>2
      <4>2. g[i] = AddFractions[<<g[i - 1], s[i]>>] BY <2>1, <4>1 DEF Accumulates
      <4>3. g[i - 1] \in Fractions /\ s[i] \in Fractions BY <1>1, <4>1
      <4> QED BY <1>0, <3>2, <4>2, <4>3
    <3> QED BY <3>1, <3>2
  <2> QED BY <2>2
<1> DEFINE sum == CHOOSE g : g = body(g)
<1>4. sum = body(sum) BY <1>3, Zenon
<1>5. AverageError(s) = <<sum[n][1], sum[n][2] * n>> BY <1>2
<1> HIDE DEF sum
<1>6. sum[0] = <<0, 1>> BY <1>1, <1>4
<1>7. ASSUME NEW i \in 1 .. n PROVE sum[i] = Plus(sum[i - 1], s[i])
  <2>1. i \in 0 .. n /\ i # 0 BY <1>1
  <2>2. body(sum)[i] = IF i = 0 THEN <<0, 1>> ELSE Plus(sum[i - 1], s[i]) BY <2>1, Zenon
  <2>3. sum[i] = body(sum)[i] BY <1>4, Zenon
  <2> QED BY <2>1, <2>2, <2>3, Zenon
<1>8. \A i \in 0 .. n : sum[i] \in Fractions
  <2> DEFINE T == {i \in 0 .. n : sum[i] \in Fractions}
  <2>1. 0 \in T BY <1>0, <1>1, <1>6
  <2>2. ASSUME NEW i \in 0 .. n - 1, i \in T PROVE i + 1 \in T
    <3>1. i + 1 \in 1 .. n /\ (i + 1) - 1 = i BY <1>1
    <3>2. sum[i + 1] = Plus(sum[i], s[i + 1]) BY <1>7, <3>1
    <3>3. sum[i] \in Fractions /\ s[i + 1] \in Fractions
      <4>1. sum[i] \in Fractions BY <2>2
      <4>2. s[i + 1] \in Fractions BY <1>1, <3>1
      <4> QED BY <4>1, <4>2
    <3>4. Plus(sum[i], s[i + 1]) \in Fractions BY <1>0, <3>3
    <3>5. sum[i + 1] \in Fractions /\ i + 1 \in 0 .. n BY <3>1, <3>2, <3>4
    <3> QED BY <3>5
  <2>3. 0 .. n \subseteq T
    <3> HIDE DEF T
    <3> QED BY <1>1, <2>1, <2>2, UpFromZero
  <2> QED BY <2>3
<1>9. Loop(Fractions, AddFractions, <<0, 1>>, sum, s, n)
  <2>1. sum \in [0 .. n -> Fractions] BY <1>4, <1>8
  <2>2. ASSUME NEW i \in 1 .. n PROVE sum[i] = AddFractions[<<sum[i - 1], s[i]>>]
    <3>1. i - 1 \in 0 .. n BY <1>1
    <3>2. sum[i - 1] \in Fractions /\ s[i] \in Fractions BY <1>1, <1>8, <3>1
    <3> QED BY <1>0, <1>7, <3>2
  <2> QED BY <1>1, <1>6, <2>1, <2>2 DEF Loop, Accumulates
<1> QED BY <1>5, <1>9 DEF n

\* Nor does the average of the coefficients depend on where their window starts.
LEMMA ErrorOfRotation ==
  ASSUME NEW s, NEW t, NEW k, Len(s) \in Nat, Len(t) = Len(s), Rotated(s, t, Len(s), k),
         \A i \in 1 .. Len(s) : s[i] \in Fractions, \A i \in 1 .. Len(s) : t[i] \in Fractions
  PROVE  AverageError(t) = AverageError(s)
<1>1. PICK f : /\ Loop(Fractions, AddFractions, <<0, 1>>, f, s, Len(s))
               /\ AverageError(s) = <<f[Len(s)][1], f[Len(s)][2] * Len(s)>>
  BY ErrorIsALoop
<1>2. PICK g : /\ Loop(Fractions, AddFractions, <<0, 1>>, g, t, Len(t))
               /\ AverageError(t) = <<g[Len(t)][1], g[Len(t)][2] * Len(t)>>
  BY ErrorIsALoop
<1>3. f[Len(s)] = g[Len(s)] BY <1>1, <1>2, AddFractionsIsAdditive, RotationAccumulates
<1> QED BY <1>1, <1>2, <1>3

----------------------------------------------------------------------------
(* Start and stop.                                                         *)

\* What a monitor pushes: a number, or the terms of a ratio.
Observed == Int \cup Fractions

\* The flags have their types.
MeterTypes ==
  /\ started \in BOOLEAN /\ inside \in BOOLEAN /\ spoilt \in BOOLEAN
  /\ resetting \in BOOLEAN /\ (resetting = TRUE => monitor = "odroid_energy")

\* The readings are numbers, and start was not called ahead of the clock.
ReadingTypes ==
  /\ now \in 1 .. MaxNow /\ opened \in Nat /\ opened <= now
  /\ used \in Int /\ lost \in Int /\ begin \in Int /\ begin_used \in Int
  /\ opened_cpu \in Fractions

\* The polling thread has loaded a value below its bound.
PollTypes == total \in 0 .. MaxPolls /\ (poll # None => poll \in 0 .. MaxPolls - 1)

\* The reading at the time t, when l was lost.
ReadingAt(t, l) ==
  CASE monitor = "energy"     -> t % EnergyRange
    [] monitor = "system_cpu" -> t - l
    [] OTHER                  -> t

\* A monitor that is started and not spoilt was started by the last call of start;
\* the energy that was added up is the one of the additions since the reset.
MeterTrue ==
  /\ (monitor \in DOMAIN IntervalMonitors /\ started = TRUE /\ spoilt = FALSE) =>
       /\ inside = TRUE /\ begin = ReadingAt(opened, opened_cpu[2])
       /\ begin_used = opened_cpu[1]
  /\ (monitor = "odroid_energy" /\ spoilt = FALSE) =>
       total = polls /\ (poll # None => poll = total)

\* The inductive invariant of the measures.
MeterInv == MeterTypes /\ ReadingTypes /\ PollTypes /\ MeterTrue /\ MeasureIsExact

\* The monitors with start and stop, by name.
LEMMA IntervalKinds ==
  /\ DOMAIN IntervalMonitors =
       {"time", "process_cpu", "throughput", "energy", "collector", "system_cpu", "odroid_power"}
  /\ IntervalMonitors = [m \in DOMAIN IntervalMonitors |-> IntervalMonitors[m]]
BY DEF IntervalMonitors

\* Which of them may fail in start or stop, and how.
LEMMA IntervalFlags ==
  ASSUME NEW m \in DOMAIN IntervalMonitors
  PROVE  /\ IntervalMonitors[m].flagFirst \in BOOLEAN
         /\ IntervalMonitors[m].keptOnFailure \in BOOLEAN
         /\ IntervalMonitors[m].keptOnZero \in BOOLEAN
<1> DEFINE Good(r) == r.flagFirst \in BOOLEAN /\ r.keptOnFailure \in BOOLEAN /\ r.keptOnZero \in BOOLEAN
<1>1. Good(TimeMonitor) BY DEF TimeMonitor, Failing
<1>2. Good(ProcessCpuMonitor) BY DEF ProcessCpuMonitor, Failing
<1>3. Good(ThroughputMonitor) BY DEF ThroughputMonitor, Failing
<1>4. Good(EnergyMonitor) BY DEF EnergyMonitor, Failing
<1>5. Good(CollectorMonitor) BY DEF CollectorMonitor, Failing
<1>6. Good(SystemCpuMonitor) BY DEF SystemCpuMonitor, Failing
<1>7. Good(OdroidPowerMonitor) BY DEF OdroidPowerMonitor, Failing
<1> HIDE DEF Good
<1>8. IntervalMonitors[m] \in {TimeMonitor, ProcessCpuMonitor, ThroughputMonitor, EnergyMonitor,
                               CollectorMonitor, SystemCpuMonitor, OdroidPowerMonitor}
  BY IntervalKinds DEF IntervalMonitors
<1>9. Good(IntervalMonitors[m]) BY <1>1, <1>2, <1>3, <1>4, <1>5, <1>6, <1>7, <1>8
<1> QED BY <1>9 DEF Good

\* The counter of the energy after one wrap at most.
LEMMA Wrapped ==
  ASSUME NEW t \in Nat, NEW u \in Nat, t <= u, u - t < EnergyRange
  PROVE  /\ u % EnergyRange < t % EnergyRange => EnergyRange - (t % EnergyRange) + (u % EnergyRange) = u - t
         /\ ~(u % EnergyRange < t % EnergyRange) => (u % EnergyRange) - (t % EnergyRange) = u - t
<1> DEFINE R == EnergyRange
<1>1. R \in Nat \ {0} BY MonitorsAssumption
<1>2. ASSUME NEW w \in Nat
      PROVE  w \div R \in Nat /\ w % R \in 0 .. R - 1 /\ w = R * (w \div R) + (w % R)
  BY <1>1
<1> HIDE DEF R
<1>3. PICK p \in Nat, a \in 0 .. R - 1 : t = R * p + a /\ t % R = a BY <1>2
<1>4. PICK q \in Nat, b \in 0 .. R - 1 : u = R * q + b /\ u % R = b BY <1>2
<1>5. q = p \/ q = p + 1
  <2>1. \A x, y \in Nat : x <= y => R * x <= R * y BY <1>1
  <2>2. q < p => FALSE
    <3>1. q < p => R * (q + 1) <= R * p BY <2>1
    <3>2. R * (q + 1) = R * q + R BY <1>1
    <3> QED BY <1>1, <1>3, <1>4, <3>1, <3>2
  <2>3. q > p + 1 => FALSE
    <3>1. q > p + 1 => R * (p + 2) <= R * q BY <2>1
    <3>2. R * (p + 2) = R * p + R + R BY <1>1
    <3> QED BY <1>1, <1>3, <1>4, <3>1, <3>2 DEF R
  <2> QED BY <2>2, <2>3
<1>6. R * (p + 1) = R * p + R BY <1>1
<1> QED BY <1>1, <1>3, <1>4, <1>5, <1>6 DEF R

\* A monitor keeps its kind.
LEMMA KindIsFixed == [MonNext]_monVars => monitor' = monitor /\ readers' = readers
BY DEF MonNext, monVars, fixedVars, Tick, ClearBuffer, Start, Stop, ClearObservations, OdroidStart,
       OdroidReset, OdroidStop, PollLoad, PollStore, Query, Sample, EvaluateError

\* The steps that leave start and stop alone.
Elsewhere ==
  \/ ClearBuffer \/ ClearObservations \/ UNCHANGED monVars
  \/ \E s \in Stats : Query(s)
  \/ \E v, w \in Values : Sample(v, w)
  \/ \E e \in Expected : EvaluateError(e)

\* stop is called, with what the throughput monitor is given.
Stops == \E data \in Values : Stop(data)

\* A step is one of start and stop, or leaves them alone.
LEMMA StepsOfTheMeter ==
  [MonNext]_monVars =>
    \/ Tick \/ Start \/ Stops \/ OdroidStart \/ OdroidReset \/ OdroidStop \/ PollLoad \/ PollStore
    \/ Elsewhere
BY DEF MonNext, Elsewhere, Stops

\* The other steps change neither the clock nor the flags.
LEMMA ElsewhereIsNotHere == Elsewhere => UNCHANGED <<monitor, clockVars, flagVars, pollVars>>
BY DEF Elsewhere, monVars, fixedVars, ClearBuffer, ClearObservations, Query, Sample, EvaluateError

\* A reading is a number.
LEMMA ReadingType ==
  ASSUME ReadingTypes
  PROVE  Reading \in Int /\ Reading = ReadingAt(now, lost)
<1>1. now \in Nat /\ lost \in Int /\ EnergyRange \in Nat \ {0} BY MonitorsAssumption DEF ReadingTypes
<1>2. now % EnergyRange \in Int /\ now - lost \in Int /\ now \in Int BY <1>1
<1>3. CASE monitor = "energy" BY <1>2, <1>3 DEF Reading, ReadingAt
<1>4. CASE monitor = "system_cpu" BY <1>2, <1>4 DEF Reading, ReadingAt
<1>5. CASE monitor # "energy" /\ monitor # "system_cpu" BY <1>2, <1>5 DEF Reading, ReadingAt
<1> QED BY <1>3, <1>4, <1>5

\* The flags keep their types.
LEMMA MeterTypesKept == MeterTypes /\ [MonNext]_monVars => MeterTypes'
<1> SUFFICES ASSUME MeterTypes, [MonNext]_monVars PROVE MeterTypes' OBVIOUS
<1>0. monitor' = monitor BY KindIsFixed
<1> USE DEF MeterTypes, flagVars, pollVars
<1>1. CASE Tick BY <1>0, <1>1 DEF Tick
<1>2. CASE Start
  <2>1. UNCHANGED pollVars /\ inside' = TRUE BY <1>2 DEF Start
  <2>2. IntervalMonitors[monitor].flagFirst \in BOOLEAN BY <1>2, IntervalFlags DEF Start
  <2>3. started' \in BOOLEAN /\ spoilt' \in BOOLEAN BY <1>2, <2>2 DEF Start
  <2> QED BY <1>0, <2>1, <2>3
<1>3. CASE Stops
  <2>0. PICK data \in Values : Stop(data) BY <1>3 DEF Stops
  <2>1. UNCHANGED pollVars /\ inside' = FALSE BY <2>0 DEF Stop
  <2>2. started' \in BOOLEAN /\ spoilt' \in BOOLEAN
    <3>1. CASE StopMeasures(data) BY <3>1 DEF StopMeasures
    <3>2. CASE StopThrows BY <2>0, <3>2, IntervalFlags DEF StopThrows, Stop
    <3>3. CASE ~started /\ UNCHANGED <<bufferVars, started, measured, spoilt>> BY <3>3
    <3> QED BY <2>0, <3>1, <3>2, <3>3 DEF Stop
  <2> QED BY <1>0, <2>1, <2>2
<1>4. CASE OdroidStart BY <1>0, <1>4 DEF OdroidStart
<1>5. CASE OdroidReset BY <1>0, <1>5 DEF OdroidReset
<1>6. CASE OdroidStop BY <1>0, <1>6 DEF OdroidStop
<1>7. CASE PollLoad BY <1>0, <1>7 DEF PollLoad
<1>8. CASE PollStore BY <1>0, <1>8 DEF PollStore
<1>9. CASE Elsewhere BY <1>0, <1>9, ElsewhereIsNotHere
<1> QED BY <1>1, <1>2, <1>3, <1>4, <1>5, <1>6, <1>7, <1>8, <1>9, StepsOfTheMeter

\* A reading is a number.
LEMMA ReadingTypesKept == ReadingTypes /\ [MonNext]_monVars => ReadingTypes'
<1> SUFFICES ASSUME ReadingTypes, [MonNext]_monVars PROVE ReadingTypes' OBVIOUS
<1>a. MaxNow \in Nat /\ EnergyRange \in Nat BY MonitorsAssumption
<1>b. ASSUME UNCHANGED <<now, used, lost, opened, opened_cpu, begin, begin_used>> PROVE ReadingTypes'
  BY <1>b DEF ReadingTypes
<1>1. CASE Tick
  <2>1. now' = now + 1 /\ now < MaxNow /\ UNCHANGED <<opened, opened_cpu, begin, begin_used>>
    BY <1>1 DEF Tick, flagVars
  <2>2. now' \in 1 .. MaxNow /\ opened' \in Nat /\ opened' <= now' BY <1>a, <2>1 DEF ReadingTypes
  <2>3. used' \in Int /\ lost' \in Int BY <1>1 DEF Tick, ReadingTypes
  <2> QED BY <2>1, <2>2, <2>3 DEF ReadingTypes
<1>2. CASE Start
  <2>1. UNCHANGED <<now, used, lost>> /\ opened' = now /\ opened_cpu' = <<used, lost>>
    BY <1>2 DEF Start, clockVars
  <2>2. (begin' = begin \/ begin' = Reading) /\ (begin_used' = begin_used \/ begin_used' = used)
    BY <1>2 DEF Start
  <2>3. now \in Nat /\ now <= now BY <1>a DEF ReadingTypes
  <2>4. begin' \in Int /\ begin_used' \in Int BY <2>2, ReadingType DEF ReadingTypes
  <2>5. opened_cpu' \in Fractions BY <2>1 DEF ReadingTypes, Fractions
  <2> QED BY <2>1, <2>3, <2>4, <2>5 DEF ReadingTypes
<1>3. CASE Stops BY <1>3, <1>b DEF Stops, Stop, clockVars
<1>4. CASE OdroidStart BY <1>4, <1>b DEF OdroidStart, clockVars
<1>5. CASE OdroidReset BY <1>5, <1>b DEF OdroidReset, clockVars
<1>6. CASE OdroidStop BY <1>6, <1>b DEF OdroidStop, clockVars
<1>7. CASE PollLoad BY <1>7, <1>b DEF PollLoad, flagVars, clockVars
<1>8. CASE PollStore BY <1>8, <1>b DEF PollStore, flagVars, clockVars
<1>9. CASE Elsewhere BY <1>9, <1>b, ElsewhereIsNotHere DEF flagVars, clockVars
<1> QED BY <1>1, <1>2, <1>3, <1>4, <1>5, <1>6, <1>7, <1>8, <1>9, StepsOfTheMeter

\* and the polling thread stays below its bound.
LEMMA PollTypesKept == PollTypes /\ [MonNext]_monVars => PollTypes'
<1> SUFFICES ASSUME PollTypes, [MonNext]_monVars PROVE PollTypes' OBVIOUS
<1>a. MaxPolls \in Nat \ {0} BY MonitorsAssumption
<1>b. ASSUME UNCHANGED <<total, poll>> PROVE PollTypes' BY <1>b DEF PollTypes
<1>1. CASE Tick BY <1>1, <1>b DEF Tick, pollVars
<1>2. CASE Start BY <1>2, <1>b DEF Start, pollVars
<1>3. CASE Stops BY <1>3, <1>b DEF Stops, Stop, pollVars
<1>4. CASE OdroidStart BY <1>4, <1>b DEF OdroidStart
<1>5. CASE OdroidReset
  <2>1. total' = 0 /\ poll' = poll BY <1>5 DEF OdroidReset
  <2>2. 0 \in 0 .. MaxPolls BY <1>a
  <2> QED BY <2>1, <2>2 DEF PollTypes
<1>6. CASE OdroidStop BY <1>6, <1>b DEF OdroidStop, pollVars
<1>7. CASE PollLoad
  <2>1. total' = total /\ poll' = total /\ total < MaxPolls BY <1>7 DEF PollLoad
  <2>2. total \in 0 .. MaxPolls /\ total \in 0 .. MaxPolls - 1 BY <1>a, <2>1 DEF PollTypes
  <2> QED BY <2>1, <2>2 DEF PollTypes
<1>8. CASE PollStore
  <2>1. poll # None /\ total' = poll + 1 /\ poll' = None BY <1>8 DEF PollStore
  <2>2. poll + 1 \in 0 .. MaxPolls BY <1>a, <2>1 DEF PollTypes
  <2> QED BY <2>1, <2>2 DEF PollTypes
<1>9. CASE Elsewhere BY <1>9, <1>b, ElsewhereIsNotHere DEF pollVars
<1> QED BY <1>1, <1>2, <1>3, <1>4, <1>5, <1>6, <1>7, <1>8, <1>9, StepsOfTheMeter

\* A monitor that was not spoilt has the reading of its start.
LEMMA MeterTrueKept == MeterInv /\ [MonNext]_monVars => MeterTrue'
<1> SUFFICES ASSUME MeterInv, [MonNext]_monVars PROVE MeterTrue' OBVIOUS
<1>0. monitor' = monitor /\ MeterTypes /\ MeterTrue BY KindIsFixed DEF MeterInv
<1>c. ReadingTypes BY DEF MeterInv
<1>a. monitor \in DOMAIN IntervalMonitors => monitor # "odroid_energy" BY IntervalKinds
<1>b. ASSUME UNCHANGED <<started, spoilt, inside, begin, begin_used, opened, opened_cpu, total, polls, poll>>
      PROVE  MeterTrue'
  BY <1>0, <1>b DEF MeterTrue, ReadingAt
<1>1. CASE Tick BY <1>1, <1>b DEF Tick, flagVars, pollVars
<1>2. CASE Start
  <2>1. /\ monitor \in DOMAIN IntervalMonitors /\ inside' = TRUE /\ inside = FALSE
        /\ opened' = now /\ opened_cpu' = <<used, lost>>
    BY <1>0, <1>2 DEF Start, MeterTypes
  <2>2. (started' = TRUE /\ spoilt' = FALSE) => begin' = Reading /\ begin_used' = used
    <3>1. CASE started /\ UNCHANGED <<started, begin, begin_used, spoilt>>
      BY <1>0, <2>1, <3>1 DEF MeterTrue, MeterTypes
    <3>2. CASE ~started /\ started' = TRUE /\ spoilt' = FALSE /\ begin' = Reading /\ begin_used' = used
      BY <3>2
    <3>3. CASE spoilt' = started' BY <3>3
    <3> QED BY <1>2, <3>1, <3>2, <3>3 DEF Start
  <2>3. Reading = ReadingAt(now, lost) BY <1>c, ReadingType
  <2>4. opened_cpu'[1] = used /\ opened_cpu'[2] = lost BY <2>1
  <2>5. ReadingAt(opened, opened_cpu[2])' = ReadingAt(now, lost) BY <1>0, <2>1, <2>4 DEF ReadingAt
  <2> QED BY <1>0, <1>a, <2>1, <2>2, <2>3, <2>4, <2>5 DEF MeterTrue
<1>3. CASE Stops
  <2>0. PICK data \in Values : Stop(data) BY <1>3 DEF Stops
  <2>1. monitor \in DOMAIN IntervalMonitors BY <2>0 DEF Stop
  <2>2. ~(started' = TRUE /\ spoilt' = FALSE)
    <3>1. CASE StopMeasures(data) BY <3>1 DEF StopMeasures
    <3>2. CASE StopThrows BY <3>2 DEF StopThrows
    <3>3. CASE ~started /\ UNCHANGED <<bufferVars, started, measured, spoilt>> BY <3>3
    <3> QED BY <2>0, <3>1, <3>2, <3>3 DEF Stop
  <2> QED BY <1>0, <1>a, <2>1, <2>2 DEF MeterTrue
<1>4. CASE OdroidStart
  <2>1. monitor = "odroid_energy" /\ UNCHANGED <<spoilt, total, poll, polls>> BY <1>4 DEF OdroidStart
  <2> QED BY <1>0, <1>a, <2>1 DEF MeterTrue
<1>5. CASE OdroidReset
  <2>1. monitor = "odroid_energy" BY <1>0, <1>5 DEF OdroidReset, MeterTypes
  <2> QED BY <1>0, <1>5, <1>a, <2>1 DEF MeterTrue, OdroidReset
<1>6. CASE OdroidStop
  <2>1. monitor = "odroid_energy" /\ UNCHANGED <<spoilt, total, poll, polls>>
    BY <1>6 DEF OdroidStop, pollVars
  <2> QED BY <1>0, <1>a, <2>1 DEF MeterTrue
<1>7. CASE PollLoad
  <2>1. monitor = "odroid_energy" /\ poll' = total /\ UNCHANGED <<spoilt, total, polls>>
    BY <1>7 DEF PollLoad, flagVars
  <2> QED BY <1>0, <1>a, <2>1 DEF MeterTrue
<1>8. CASE PollStore
  <2>1. /\ poll # None /\ total' = poll + 1 /\ poll' = None /\ polls' = polls + 1
        /\ UNCHANGED <<started, spoilt, inside, begin, begin_used, opened, opened_cpu>>
    BY <1>8 DEF PollStore, flagVars
  <2> QED BY <1>0, <1>a, <2>1 DEF MeterTrue, ReadingAt
<1>9. CASE Elsewhere BY <1>9, <1>b, ElsewhereIsNotHere DEF flagVars, pollVars
<1> QED BY <1>1, <1>2, <1>3, <1>4, <1>5, <1>6, <1>7, <1>8, <1>9, StepsOfTheMeter

\* What stop takes is what the counter did since start.
LEMMA StopIsExact ==
  ASSUME MeterInv, monitor \in DOMAIN IntervalMonitors, started = TRUE, spoilt = FALSE, NEW data,
         ~(monitor = "energy" /\ Truth(data) >= EnergyRange)
  PROVE  Measure(data) = Truth(data)
<1>1. /\ now \in Nat /\ opened \in Nat /\ opened <= now /\ used \in Int /\ lost \in Int
      /\ begin = ReadingAt(opened, opened_cpu[2]) /\ begin_used = opened_cpu[1]
      /\ opened_cpu[1] \in Int /\ opened_cpu[2] \in Int
  BY DEF MeterInv, ReadingTypes, MeterTrue, Fractions
<1>2. Reading = ReadingAt(now, lost) BY ReadingType DEF MeterInv
<1>3. CASE monitor = "energy"
  <2>1. begin = opened % EnergyRange /\ Reading = now % EnergyRange BY <1>1, <1>2, <1>3 DEF ReadingAt
  <2>2. Truth(data) = now - opened BY <1>3 DEF Truth
  <2>3. EnergyRange \in Nat BY MonitorsAssumption
  <2>4. now - opened < EnergyRange BY <1>1, <1>3, <2>2, <2>3
  <2>5. Measure(data) = IF Reading < begin THEN EnergyRange - begin + Reading ELSE Reading - begin
    BY <1>3 DEF Measure, Cpus
  <2>6. /\ now % EnergyRange < opened % EnergyRange =>
             EnergyRange - (opened % EnergyRange) + (now % EnergyRange) = now - opened
        /\ ~(now % EnergyRange < opened % EnergyRange) =>
             (now % EnergyRange) - (opened % EnergyRange) = now - opened
    BY <1>1, <2>4, Wrapped
  <2> QED BY <2>1, <2>2, <2>5, <2>6
<1>4. CASE monitor = "odroid_power"
  <2>1. Measure(data) = Reading BY <1>4 DEF Measure, Cpus
  <2>2. Truth(data) = now BY <1>4 DEF Truth
  <2>3. Reading = now BY <1>2, <1>4 DEF ReadingAt
  <2> QED BY <2>1, <2>2, <2>3
<1>5. CASE monitor = "throughput"
  <2>0. Measure(data) = <<data, Reading - begin>> BY <1>5 DEF Measure, Cpus
  <2>1. Measure(data) = <<data, Reading - begin>> /\ Truth(data) = <<data, now - opened>>
    BY <1>5, <2>0 DEF Truth
  <2>2. Reading = now /\ begin = opened BY <1>1, <1>2, <1>5 DEF ReadingAt
  <2> QED BY <2>1, <2>2
<1>6. CASE monitor = "process_cpu"
  <2>1. /\ Measure(data) = <<used - begin_used, Reading - begin>>
        /\ Truth(data) = <<used - opened_cpu[1], now - opened>>
    BY <1>6 DEF Measure, Truth, Cpus
  <2>2. Reading = now /\ begin = opened BY <1>1, <1>2, <1>6 DEF ReadingAt
  <2> QED BY <1>1, <2>1, <2>2
<1>7. CASE monitor = "system_cpu"
  <2>1. /\ Measure(data) = <<used - begin_used, Reading - begin>>
        /\ Truth(data) = <<used - opened_cpu[1], now - opened - (lost - opened_cpu[2])>>
    BY <1>7 DEF Measure, Truth, Cpus
  <2>2. Reading = now - lost /\ begin = opened - opened_cpu[2] BY <1>1, <1>2, <1>7 DEF ReadingAt
  <2>3. Reading - begin = now - opened - (lost - opened_cpu[2]) BY <1>1, <2>2
  <2> QED BY <1>1, <2>1, <2>3
<1>8. CASE monitor \in {"time", "collector"}
  <2>1. Measure(data) = Reading - begin /\ Truth(data) = now - opened BY <1>8 DEF Measure, Truth, Cpus
  <2>2. Reading = now /\ begin = opened BY <1>1, <1>2, <1>8 DEF ReadingAt
  <2> QED BY <2>1, <2>2
<1> QED BY <1>3, <1>4, <1>5, <1>6, <1>7, <1>8, IntervalKinds

\* So a measure that was not spoilt is exact.
LEMMA MeasureKept == MeterInv /\ [MonNext]_monVars => MeasureIsExact'
<1> SUFFICES ASSUME MeterInv, [MonNext]_monVars PROVE MeasureIsExact' OBVIOUS
<1>0. monitor' = monitor /\ MeterTypes /\ MeterTrue /\ MeasureIsExact BY KindIsFixed DEF MeterInv
<1>b. ASSUME measured' = measured PROVE MeasureIsExact' BY <1>0, <1>b DEF MeasureIsExact
<1>1. CASE Tick BY <1>1, <1>b DEF Tick, flagVars
<1>2. CASE Start BY <1>2, <1>b DEF Start
<1>3. CASE Stops
  <2>0. PICK data \in Values : Stop(data) BY <1>3 DEF Stops
  <2>1. CASE StopMeasures(data)
    <3>1. /\ started = TRUE
          /\ measured' = [value |-> Measure(data), truth |-> Truth(data), period |-> now - opened,
                          spoilt |-> spoilt]
      BY <1>0, <2>1 DEF StopMeasures, Measured, MeterTypes
    <3>2. /\ measured'.value = Measure(data) /\ measured'.truth = Truth(data)
          /\ measured'.spoilt = spoilt
      BY <3>1
    <3>3. monitor \in DOMAIN IntervalMonitors BY <2>0 DEF Stop
    <3>4. spoilt = FALSE /\ ~(monitor = "energy" /\ Truth(data) >= EnergyRange)
            => Measure(data) = Truth(data)
      BY <3>1, <3>3, StopIsExact
    <3>5. spoilt \in BOOLEAN BY <1>0 DEF MeterTypes
    <3> QED BY <1>0, <3>2, <3>4, <3>5 DEF MeasureIsExact
  <2>2. CASE StopThrows BY <1>b, <2>2 DEF StopThrows
  <2>3. CASE ~started /\ UNCHANGED <<bufferVars, started, measured, spoilt>> BY <1>b, <2>3
  <2> QED BY <2>0, <2>1, <2>2, <2>3 DEF Stop
<1>4. CASE OdroidStart BY <1>4, <1>b DEF OdroidStart
<1>5. CASE OdroidReset BY <1>5, <1>b DEF OdroidReset
<1>6. CASE OdroidStop
  <2>1. /\ measured' = [value |-> total, truth |-> polls, period |-> 0, spoilt |-> spoilt]
        /\ monitor = "odroid_energy"
    BY <1>6 DEF OdroidStop
  <2>2. measured'.value = total /\ measured'.truth = polls /\ measured'.spoilt = spoilt BY <2>1
  <2>3. spoilt \in BOOLEAN /\ (spoilt = FALSE => total = polls) BY <1>0, <2>1 DEF MeterTypes, MeterTrue
  <2> QED BY <2>2, <2>3 DEF MeasureIsExact
<1>7. CASE PollLoad BY <1>7, <1>b DEF PollLoad, flagVars
<1>8. CASE PollStore BY <1>8, <1>b DEF PollStore, flagVars
<1>9. CASE Elsewhere BY <1>9, <1>b, ElsewhereIsNotHere DEF flagVars
<1> QED BY <1>1, <1>2, <1>3, <1>4, <1>5, <1>6, <1>7, <1>8, <1>9, StepsOfTheMeter

\* The invariant holds initially and in every step.
LEMMA MeterAlways == MonSpec => []MeterInv
<1>1. MonInit => MeterInv
  <2> SUFFICES ASSUME MonInit PROVE MeterInv OBVIOUS
  <2>1. {MaxNow, MaxPolls, EnergyRange} \subseteq Nat \ {0} BY MonitorsAssumption
  <2>2. MeterTypes BY DEF MonInit, MeterTypes
  <2>6. PollTypes BY <2>1 DEF MonInit, PollTypes
  <2>5. ReadingTypes BY <2>1 DEF MonInit, ReadingTypes, Fractions
  <2>3. MeterTrue BY DEF MonInit, MeterTrue
  <2>4. MeasureIsExact BY DEF MonInit, MeasureIsExact
  <2> QED BY <2>2, <2>3, <2>4, <2>5, <2>6 DEF MeterInv
<1>2. MeterInv /\ [MonNext]_monVars => MeterInv'
  BY MeterTypesKept, ReadingTypesKept, PollTypesKept, MeterTrueKept, MeasureKept DEF MeterInv
<1> QED BY <1>1, <1>2, PTL DEF MonSpec

\* What stop pushes is exact: for every monitor, any sequence of starts and stops
\* that throw or not, any interleaving of the polling thread of the odroid monitor,
\* whenever MeasureIsExact does not exempt the measure.
THEOREM MeasuresAreExact == MonSpec => []MeasureIsExact
<1>1. MeterInv => MeasureIsExact BY DEF MeterInv
<1> QED BY <1>1, MeterAlways, PTL

----------------------------------------------------------------------------
(* The circular buffer.                                                    *)

\* The bounds are numbers.
LEMMA BoundsAreNatural ==
  /\ Size \in Nat \ {0} /\ Inertia \in Nat \ {0} /\ MaxNow \in Nat \ {0} /\ MaxPolls \in Nat \ {0}
  /\ EnergyRange \in Nat \ {0} /\ PageSize \in Nat \ {0} /\ MaxValue \in Nat
  /\ PageSize * MaxValue \in Nat /\ MaxValue <= PageSize * MaxValue
<1>1. /\ Size \in Nat \ {0} /\ Inertia \in Nat \ {0} /\ MaxNow \in Nat \ {0} /\ MaxPolls \in Nat \ {0}
      /\ EnergyRange \in Nat \ {0} /\ PageSize \in Nat \ {0} /\ MaxValue \in Nat
  BY MonitorsAssumption
<1>2. PageSize * MaxValue \in Nat /\ MaxValue <= PageSize * MaxValue BY <1>1
<1> QED BY <1>1, <1>2

\* What the monitors push that read a value.
LEMMA SampleIsObserved ==
  ASSUME NEW v \in Values, NEW w \in Values
  PROVE  /\ v \in Nat /\ MemoryMeasure(v) \in Nat
         /\ FrequencyMeasure(<<v, w>>) \in Nat /\ TemperatureMeasure(<<v, w>>) \in Nat
<1>1. v \in Nat /\ w \in Nat BY MonitorsAssumption
<1>3. MemoryMeasure(v) \in Nat BY <1>1, BoundsAreNatural DEF MemoryMeasure
<1>4. FrequencyMeasure(<<v, w>>) \in Nat
  <2> DEFINE r == <<v, w>>
             q == [i \in DOMAIN r |-> r[i] \div Len(r)]
  <2>1. q = <<v \div 2, w \div 2>> OBVIOUS
  <2>2. v \div 2 \in Nat /\ w \div 2 \in Nat BY <1>1
  <2>3. SumOf(<<v \div 2, w \div 2>>) = (v \div 2) + (w \div 2) BY <2>2, SumOfTwo
  <2>4. FrequencyMeasure(<<v, w>>) = SumOf(q) BY DEF FrequencyMeasure
  <2>5. FrequencyMeasure(<<v, w>>) = (v \div 2) + (w \div 2) BY <2>1, <2>3, <2>4
  <2> QED BY <2>2, <2>5
<1>5. TemperatureMeasure(<<v, w>>) \in Nat
  <2>1. SumOf(<<v, w>>) = v + w BY <1>1, SumOfTwo
  <2>2. Len(<<v, w>>) = 2 OBVIOUS
  <2>3. TemperatureMeasure(<<v, w>>) = (v + w) \div 2 BY <2>1, <2>2 DEF TemperatureMeasure
  <2>4. (v + w) \div 2 \in Nat BY <1>1
  <2> QED BY <2>3, <2>4
<1> QED BY <1>1, <1>3, <1>4, <1>5

\* What stop pushes.
LEMMA MeasureIsObserved ==
  ASSUME ReadingTypes, NEW data \in Values
  PROVE  Measure(data) \in Observed
<1>1. Reading \in Int /\ begin \in Int /\ used \in Int /\ begin_used \in Int /\ EnergyRange \in Int
  BY ReadingType, BoundsAreNatural DEF ReadingTypes
<1>2. data \in Int BY MonitorsAssumption
<1>3. /\ Reading - begin \in Int /\ EnergyRange - begin + Reading \in Int
      /\ <<data, Reading - begin>> \in Fractions
      /\ <<used - begin_used, Reading - begin>> \in Fractions
  BY <1>1, <1>2 DEF Fractions
<1>4. \/ Measure(data) \in {Reading, Reading - begin, EnergyRange - begin + Reading}
      \/ Measure(data) \in {<<data, Reading - begin>>, <<used - begin_used, Reading - begin>>}
  <2>1. CASE monitor = "energy" BY <2>1 DEF Measure, Cpus
  <2>2. CASE monitor = "odroid_power" BY <2>2 DEF Measure
  <2>3. CASE monitor = "throughput" BY <2>3 DEF Measure
  <2>4. CASE monitor \in Cpus BY <2>4 DEF Measure, Cpus
  <2>5. CASE monitor \notin {"energy", "odroid_power", "throughput"} /\ monitor \notin Cpus
    BY <2>5 DEF Measure
  <2> QED BY <2>1, <2>2, <2>3, <2>4, <2>5
<1> QED BY <1>1, <1>3, <1>4 DEF Observed

\* Three things can happen to the buffer.
Untouched == UNCHANGED <<buffer, next_element, last_change, collided>>
Cleared   == buffer' = <<>> /\ next_element' = 0 /\ Changed

\* The monitors that are pushed to by hand, whose statistics are read.
Plain == monitor \in {"custom", "adapted"}

\* A step leaves the buffer alone, empties it or pushes a value that can be observed,
\* a number where statistics are read.
LEMMA StepsOfTheBuffer ==
  ASSUME MeterInv, [MonNext]_monVars
  PROVE  \/ Untouched
         \/ (\E v \in Observed : Push(v) /\ (Plain => v \in Nat)) /\ UNCHANGED <<now, statVars>>
         \/ Cleared /\ UNCHANGED <<now, statVars>>
<1> USE DEF Untouched, bufferVars, clockVars
<1>0. Nat \subseteq Observed BY DEF Observed
<1>1. CASE Tick BY <1>1 DEF Tick
<1>2. CASE Start BY <1>2 DEF Start
<1>3. CASE Stops
  <2>0. PICK data \in Values : Stop(data) BY <1>3 DEF Stops
  <2>1. CASE StopMeasures(data)
    <3>1. Push(Measure(data)) /\ UNCHANGED <<now, statVars>>
      BY <2>0, <2>1 DEF Stop, StopMeasures, Measured
    <3>2. ~Plain BY <2>0, IntervalKinds DEF Stop, Plain
    <3> QED BY <3>1, <3>2, MeasureIsObserved DEF MeterInv
  <2>2. CASE StopThrows BY <2>2 DEF StopThrows
  <2>3. CASE ~started /\ UNCHANGED <<bufferVars, started, measured, spoilt>> BY <2>3
  <2> QED BY <2>0, <2>1, <2>2, <2>3 DEF Stop
<1>4. CASE OdroidStart BY <1>4 DEF OdroidStart
<1>5. CASE OdroidReset BY <1>5 DEF OdroidReset
<1>6. CASE OdroidStop
  <2>1. Push(total) /\ UNCHANGED <<now, statVars>> BY <1>6 DEF OdroidStop
  <2>2. total \in Nat BY BoundsAreNatural DEF MeterInv, PollTypes
  <2> QED BY <1>0, <2>1, <2>2
<1>7. CASE PollLoad BY <1>7 DEF PollLoad
<1>8. CASE PollStore BY <1>8 DEF PollStore
<1>9. CASE ClearBuffer BY <1>9 DEF ClearBuffer, Cleared
<1>10. CASE ClearObservations BY <1>10 DEF ClearObservations
<1>11. CASE UNCHANGED monVars BY <1>11 DEF monVars
<1>12. CASE \E s \in Stats : Query(s) BY <1>12 DEF Query
<1>13. CASE \E v, w \in Values : Sample(v, w)
  <2>1. PICK v \in Values, w \in Values : Sample(v, w) BY <1>13
  <2>2. UNCHANGED <<now, statVars>> BY <2>1 DEF Sample
  <2>3. \/ Push(v) \/ Push(MemoryMeasure(v)) \/ Push(FrequencyMeasure(<<v, w>>))
        \/ Push(TemperatureMeasure(<<v, w>>))
    BY <2>1 DEF Sample
  <2> QED BY <1>0, <2>2, <2>3, SampleIsObserved
<1>14. CASE \E e \in Expected : EvaluateError(e) BY <1>14 DEF EvaluateError
<1> QED BY <1>1, <1>2, <1>3, <1>4, <1>5, <1>6, <1>7, <1>8, <1>9, <1>10, <1>11, <1>12, <1>13, <1>14
        DEF MonNext, Stops

\* Elements and next position of a buffer: it fills up before it is overwritten.
WellPlaced(b, n) ==
  /\ b \in Seq(Observed) /\ Len(b) \in Nat /\ Len(b) <= Size
  /\ n \in Nat /\ n < Size /\ (Len(b) < Size => n = 0)

\* It read from the oldest element on.
Ordered(b, n) == IF Len(b) < Size THEN b ELSE SubSeq(b, n + 1, Size) \o SubSeq(b, 1, n)

\* The inductive invariant of the buffer.
BufferInv == WellPlaced(buffer, next_element) /\ (Plain => buffer \in Seq(Nat))

\* Read from the oldest element on, the buffer is rotated.
LEMMA OrderedIsRotated ==
  ASSUME NEW b, NEW n, WellPlaced(b, n)
  PROVE  /\ Ordered(b, n) \in Seq(Observed) /\ Len(Ordered(b, n)) = Len(b)
         /\ Rotated(b, Ordered(b, n), Len(b), n)
<1>1. /\ b \in Seq(Observed) /\ Len(b) \in Nat /\ Len(b) <= Size
      /\ n \in Nat /\ n < Size /\ (Len(b) < Size => n = 0) /\ Size \in Nat
  BY BoundsAreNatural DEF WellPlaced
<1>2. CASE Len(b) < Size
  <2>1. Ordered(b, n) = b /\ n = 0 BY <1>1, <1>2 DEF Ordered
  <2> QED BY <1>1, <2>1 DEF Rotated
<1>3. CASE ~(Len(b) < Size)
  <2>1. Len(b) = Size BY <1>1, <1>3
  <2> DEFINE s1 == SubSeq(b, n + 1, Size)
             s2 == SubSeq(b, 1, n)
  <2>2. \A i \in 1 .. Size : b[i] \in Observed BY <1>1, <2>1, ElementOfSeq
  <2>3. s1 \in Seq(Observed) /\ Len(s1) = Size - n /\ \A i \in 1 .. Size - n : s1[i] = b[n + i]
    <3>1. n + 1 \in Int /\ \A i \in n + 1 .. Size : b[i] \in Observed BY <1>1, <2>2
    <3>2. /\ s1 \in Seq(Observed) /\ Len(s1) = IF n + 1 <= Size THEN Size - (n + 1) + 1 ELSE 0
          /\ \A i \in 1 .. Size - (n + 1) + 1 : s1[i] = b[(n + 1) + i - 1]
      BY <1>1, <3>1, SubSeqProperties
    <3> HIDE DEF s1
    <3>3. Len(s1) = Size - n BY <1>1, <3>2
    <3>4. ASSUME NEW i \in 1 .. Size - n PROVE s1[i] = b[n + i]
      <4>1. i \in 1 .. Size - (n + 1) + 1 /\ (n + 1) + i - 1 = n + i BY <1>1
      <4> QED BY <3>2, <4>1
    <3> QED BY <3>2, <3>3, <3>4
  <2>4. s2 \in Seq(Observed) /\ Len(s2) = n /\ \A i \in 1 .. n : s2[i] = b[i]
    <3>1. \A i \in 1 .. n : b[i] \in Observed BY <1>1, <2>2
    <3>2. /\ s2 \in Seq(Observed) /\ Len(s2) = IF 1 <= n THEN n - 1 + 1 ELSE 0
          /\ \A i \in 1 .. n - 1 + 1 : s2[i] = b[1 + i - 1]
      BY <1>1, <3>1, SubSeqProperties
    <3> HIDE DEF s2
    <3>3. Len(s2) = n BY <1>1, <3>2
    <3>4. ASSUME NEW i \in 1 .. n PROVE s2[i] = b[i]
      <4>1. i \in 1 .. n - 1 + 1 /\ 1 + i - 1 = i BY <1>1
      <4> QED BY <3>2, <4>1
    <3> QED BY <3>2, <3>3, <3>4
  <2>5. Ordered(b, n) = s1 \o s2 BY <1>3 DEF Ordered
  <2> HIDE DEF s1, s2
  <2>6. /\ s1 \o s2 \in Seq(Observed) /\ Len(s1 \o s2) = Len(s1) + Len(s2)
        /\ \A i \in 1 .. Len(s1) + Len(s2) : (s1 \o s2)[i] = IF i <= Len(s1) THEN s1[i] ELSE s2[i - Len(s1)]
    BY <2>3, <2>4, ConcatProperties
  <2>7. Len(s1) + Len(s2) = Size BY <1>1, <2>3, <2>4
  <2>8. ASSUME NEW i \in 1 .. Size - n PROVE (s1 \o s2)[i] = b[n + i]
    <3>1. i \in 1 .. Size /\ i <= Size - n BY <1>1
    <3> QED BY <2>3, <2>6, <2>7, <3>1
  <2>9. ASSUME NEW i \in 1 .. n PROVE (s1 \o s2)[Size - n + i] = b[i]
    <3> DEFINE j == Size - n + i
    <3>1. j \in 1 .. Size /\ ~(j <= Size - n) /\ j - (Size - n) = i BY <1>1
    <3> HIDE DEF j
    <3>2. j \in 1 .. Len(s1) + Len(s2) BY <2>7, <3>1
    <3>3. (s1 \o s2)[j] = s2[j - Len(s1)]
      <4>1. ~(j <= Len(s1)) BY <2>3, <3>1
      <4> QED BY <2>6, <3>2, <4>1
    <3>4. j - Len(s1) = i BY <2>3, <3>1
    <3>5. (s1 \o s2)[j] = b[i] BY <2>4, <3>3, <3>4
    <3> QED BY <3>5 DEF j
  <2>10. n \in 0 .. Size BY <1>1
  <2> QED BY <2>1, <2>5, <2>6, <2>7, <2>8, <2>9, <2>10 DEF Rotated
<1> QED BY <1>2, <1>3

\* The buffer after push, and what is read from it.
LEMMA PushKeepsOrder ==
  ASSUME NEW b, NEW n, WellPlaced(b, n), NEW v \in Observed, NEW b2, NEW n2,
         IF Len(b) < Size THEN b2 = Append(b, v) /\ n2 = n
         ELSE b2 = [b EXCEPT ![n + 1] = v] /\ n2 = (n + 1) % Size
  PROVE  /\ WellPlaced(b2, n2)
         /\ Ordered(b2, n2) = LET all == Append(Ordered(b, n), v)
                              IN  IF Len(all) <= Size THEN all ELSE Tail(all)
<1> DEFINE o == Ordered(b, n)
           all == Append(o, v)
<1>1. /\ b \in Seq(Observed) /\ Len(b) \in Nat /\ Len(b) <= Size
      /\ n \in Nat /\ n < Size /\ (Len(b) < Size => n = 0) /\ Size \in Nat /\ Size # 0
  BY BoundsAreNatural DEF WellPlaced
<1>2. o \in Seq(Observed) /\ Len(o) = Len(b) /\ Rotated(b, o, Len(b), n) BY OrderedIsRotated
<1>3. /\ all \in Seq(Observed) /\ all # <<>> /\ Len(all) = Len(o) + 1
      /\ \A i \in 1 .. Len(o) : all[i] = o[i]
      /\ all[Len(o) + 1] = v
  <2> HIDE DEF o
  <2> QED BY <1>2, AppendProperties
<1>4. CASE Len(b) < Size
  <2>1. b2 = Append(b, v) /\ n2 = 0 BY <1>1, <1>4
  <2>2. b2 \in Seq(Observed) /\ Len(b2) = Len(b) + 1 BY <1>1, <2>1, AppendProperties
  <2>3. WellPlaced(b2, n2) BY <1>1, <1>4, <2>1, <2>2 DEF WellPlaced
  <2>4. o = b BY <1>4 DEF Ordered
  <2>5. Len(all) <= Size BY <1>1, <1>2, <1>3, <1>4
  <2>6. Ordered(b2, n2) = b2
    <3>1. CASE Len(b2) < Size BY <3>1 DEF Ordered
    <3>2. CASE ~(Len(b2) < Size)
      <4>1. Len(b2) = Size BY <1>1, <1>4, <2>2, <3>2
      <4>2. /\ Ordered(b2, n2) \in Seq(Observed) /\ Len(Ordered(b2, n2)) = Len(b2)
            /\ Rotated(b2, Ordered(b2, n2), Len(b2), 0)
        BY <2>1, <2>3, OrderedIsRotated
      <4>3. \A i \in 1 .. Len(b2) : Ordered(b2, n2)[i] = b2[i]
        <5> SUFFICES ASSUME NEW i \in 1 .. Len(b2) PROVE Ordered(b2, n2)[i] = b2[i] OBVIOUS
        <5>1. i \in 1 .. Len(b2) - 0 /\ 0 + i = i BY <1>1, <4>1
        <5>2. \A j \in 1 .. Len(b2) - 0 : Ordered(b2, n2)[j] = b2[0 + j] BY <4>2 DEF Rotated
        <5> QED BY <5>1, <5>2
      <4> DEFINE u == Ordered(b2, n2)
      <4>4. u \in Seq(Observed) /\ Len(u) = Len(b2) /\ \A i \in 1 .. Len(u) : u[i] = b2[i]
        BY <4>2, <4>3
      <4> HIDE DEF u
      <4>5. u = b2 BY <2>2, <4>4, SeqEqual
      <4> QED BY <4>5 DEF u
    <3> QED BY <3>1, <3>2
  <2> QED BY <2>1, <2>3, <2>4, <2>5, <2>6
<1>5. CASE ~(Len(b) < Size)
  <2>1. Len(b) = Size /\ b2 = [b EXCEPT ![n + 1] = v] /\ n2 = (n + 1) % Size BY <1>1, <1>5
  <2>2. n + 1 \in 1 .. Size BY <1>1
  <2>3. /\ b2 \in Seq(Observed) /\ Len(b2) = Size
        /\ \A j \in 1 .. Size : b2[j] = IF j = n + 1 THEN v ELSE b[j]
    BY <1>1, <2>1, <2>2, ExceptSeq
  <2>4. n2 = IF n + 1 = Size THEN 0 ELSE n + 1 BY <1>1, <2>1
  <2>5. WellPlaced(b2, n2) BY <1>1, <2>3, <2>4 DEF WellPlaced
  <2> DEFINE o2 == Ordered(b2, n2)
  <2>6. o2 \in Seq(Observed) /\ Len(o2) = Size /\ Rotated(b2, o2, Size, n2)
    BY <2>3, <2>5, OrderedIsRotated
  <2>7. Len(all) = Size + 1 BY <1>2, <1>3, <2>1
  <2>8. /\ Tail(all) \in Seq(Observed) /\ Len(Tail(all)) = Size
        /\ \A i \in 1 .. Size : Tail(all)[i] = all[i + 1]
    <3> HIDE DEF all
    <3>1. /\ Tail(all) \in Seq(Observed) /\ Len(Tail(all)) = Len(all) - 1
          /\ \A i \in 1 .. Len(Tail(all)) : Tail(all)[i] = all[i + 1]
      BY <1>3, HeadTailProperties
    <3>2. Len(Tail(all)) = Size BY <1>1, <2>7, <3>1
    <3> QED BY <3>1, <3>2
  <2> HIDE DEF o, all, o2
  <2>9. ASSUME NEW i \in 1 .. Size PROVE o2[i] = Tail(all)[i]
    <3>1. Tail(all)[i] = all[i + 1] BY <2>8
    <3>2. CASE i = Size
      <4>1. Tail(all)[i] = v BY <1>2, <1>3, <2>1, <3>1, <3>2
      <4>2. o2[Size] = b2[n + 1]
        <5>1. CASE n + 1 = Size
          <6>1. n2 = 0 /\ Size \in 1 .. Size - n2 /\ n2 + Size = n + 1 BY <1>1, <2>4, <5>1
          <6> QED BY <2>6, <6>1 DEF Rotated
        <5>2. CASE n + 1 # Size
          <6>1. n2 = n + 1 /\ n2 \in 1 .. n2 /\ Size - n2 + n2 = Size BY <1>1, <2>4, <5>2
          <6>2. \A j \in 1 .. n2 : o2[Size - n2 + j] = b2[j] BY <2>6 DEF Rotated
          <6> QED BY <6>1, <6>2
        <5> QED BY <5>1, <5>2
      <4>3. b2[n + 1] = v BY <2>2, <2>3
      <4> QED BY <3>2, <4>1, <4>2, <4>3
    <3>3. CASE i # Size
      <4>1. i + 1 \in 1 .. Size BY <1>1, <3>3
      <4>2. Tail(all)[i] = o[i + 1] BY <1>2, <1>3, <2>1, <3>1, <4>1
      <4>3. CASE i + 1 <= Size - n
        <5>1. o[i + 1] = b[n + (i + 1)]
          <6>1. i + 1 \in 1 .. Size - n BY <1>1, <4>3
          <6> QED BY <1>2, <2>1, <6>1 DEF Rotated
        <5>2. n2 = n + 1 /\ i \in 1 .. Size - n2 /\ n2 + i = n + (i + 1) BY <1>1, <2>4, <4>3
        <5>3. o2[i] = b2[n + (i + 1)] BY <2>6, <5>2 DEF Rotated
        <5>4. n + (i + 1) \in 1 .. Size /\ n + (i + 1) # n + 1 BY <1>1, <4>3
        <5>5. b2[n + (i + 1)] = b[n + (i + 1)] BY <2>3, <5>4
        <5> QED BY <4>2, <5>1, <5>3, <5>5
      <4>4. CASE ~(i + 1 <= Size - n)
        <5> DEFINE j == i + 1 - (Size - n)
        <5>1. j \in 1 .. n /\ Size - n + j = i + 1 BY <1>1, <3>3, <4>4
        <5>2. o[i + 1] = b[j]
          <6>1. \A q \in 1 .. n : o[Size - n + q] = b[q] BY <1>2, <2>1 DEF Rotated
          <6> HIDE DEF j
          <6> QED BY <5>1, <6>1
        <5>3. b2[j] = b[j]
          <6>1. j \in 1 .. Size /\ j # n + 1 BY <1>1, <5>1
          <6> HIDE DEF j
          <6> QED BY <2>3, <6>1
        <5>4. o2[i] = b2[j]
          <6>1. CASE n + 1 = Size
            <7>1. n2 = 0 /\ i \in 1 .. Size - n2 /\ n2 + i = j BY <1>1, <2>4, <6>1
            <7> HIDE DEF j
            <7> QED BY <2>6, <7>1 DEF Rotated
          <6>2. CASE n + 1 # Size
            <7>1. n2 = n + 1 /\ j \in 1 .. n2 /\ Size - n2 + j = i BY <1>1, <2>4, <5>1, <6>2
            <7>2. \A q \in 1 .. n2 : o2[Size - n2 + q] = b2[q] BY <2>6 DEF Rotated
            <7> HIDE DEF j
            <7> QED BY <7>1, <7>2
          <6> QED BY <6>1, <6>2
        <5> HIDE DEF j
        <5> QED BY <4>2, <5>2, <5>3, <5>4
      <4> QED BY <4>3, <4>4
    <3> QED BY <3>2, <3>3
  <2>10. o2 = Tail(all) BY <2>6, <2>8, <2>9, SeqEqual
  <2>11. ~(Len(all) <= Size) BY <1>1, <2>7
  <2> QED BY <2>5, <2>10, <2>11 DEF o, all, o2
<1> QED BY <1>4, <1>5

\* An empty buffer is in order.
LEMMA EmptyIsWellPlaced == WellPlaced(<<>>, 0) /\ Ordered(<<>>, 0) = <<>>
<1>1. <<>> \in Seq(Observed) /\ Len(<<>>) = 0 BY EmptySeq
<1>2. Size \in Nat /\ 0 < Size BY BoundsAreNatural
<1> QED BY <1>1, <1>2 DEF WellPlaced, Ordered

\* A step keeps the buffer in order, and is a step of the window or none.
LEMMA BufferStep ==
  ASSUME MeterInv, BufferInv, [MonNext]_monVars
  PROVE  BufferInv' /\ [Window!Next]_InOrder
<1>1. InOrder = Ordered(buffer, next_element) /\ InOrder' = Ordered(buffer', next_element')
  BY DEF InOrder, Ordered
<1>0. Plain' <=> Plain BY KindIsFixed DEF Plain
<1>2. CASE Untouched
  <2>1. buffer' = buffer /\ next_element' = next_element BY <1>2 DEF Untouched
  <2>2. InOrder' = InOrder BY <1>1, <2>1
  <2> QED BY <1>0, <2>1, <2>2 DEF BufferInv
<1>3. CASE \E v \in Observed : Push(v) /\ (Plain => v \in Nat)
  <2>1. PICK v \in Observed : Push(v) /\ (Plain => v \in Nat) BY <1>3
  <2>2. IF Len(buffer) < Size THEN buffer' = Append(buffer, v) /\ next_element' = next_element
        ELSE /\ buffer' = [buffer EXCEPT ![next_element + 1] = v]
             /\ next_element' = (next_element + 1) % Size
    BY <2>1 DEF Push
  <2>3. /\ WellPlaced(buffer', next_element')
        /\ InOrder' = LET all == Append(InOrder, v) IN IF Len(all) <= Size THEN all ELSE Tail(all)
    BY <1>1, <2>2, PushKeepsOrder DEF BufferInv
  <2>4. Plain => buffer' \in Seq(Nat)
    <3> SUFFICES ASSUME Plain PROVE buffer' \in Seq(Nat) OBVIOUS
    <3>1. buffer \in Seq(Nat) /\ v \in Nat BY <2>1 DEF BufferInv
    <3>2. CASE Len(buffer) < Size BY <2>2, <3>1, <3>2, AppendProperties
    <3>3. CASE ~(Len(buffer) < Size)
      <4>1. next_element + 1 \in 1 .. Len(buffer)
        BY <3>3, BoundsAreNatural DEF BufferInv, WellPlaced
      <4>2. buffer' = [buffer EXCEPT ![next_element + 1] = v] BY <2>2, <3>3
      <4> QED BY <3>1, <4>1, <4>2, ExceptSeq
    <3> QED BY <3>2, <3>3
  <2>5. InOrder' # <<>> /\ InOrder'[Len(InOrder')] = v
    <3> DEFINE all == Append(InOrder, v)
    <3>1. InOrder \in Seq(Observed) BY <1>1, OrderedIsRotated DEF BufferInv
    <3>2. /\ all \in Seq(Observed) /\ all # <<>> /\ Len(all) = Len(InOrder) + 1
          /\ all[Len(InOrder) + 1] = v /\ Len(InOrder) \in Nat
      BY <3>1, AppendProperties, LenProperties
    <3>3. InOrder' = IF Len(all) <= Size THEN all ELSE Tail(all) BY <2>3
    <3> HIDE DEF all
    <3>4. CASE Len(all) <= Size BY <3>2, <3>3, <3>4
    <3>5. CASE ~(Len(all) <= Size)
      <4>1. Len(all) > 1 BY <3>2, <3>5, BoundsAreNatural
      <4>2. /\ Tail(all) \in Seq(Observed) /\ Len(Tail(all)) = Len(all) - 1
            /\ \A i \in 1 .. Len(Tail(all)) : Tail(all)[i] = all[i + 1]
        BY <3>2, HeadTailProperties
      <4>3. Len(Tail(all)) \in 1 .. Len(Tail(all)) /\ Len(Tail(all)) + 1 = Len(InOrder) + 1
        BY <3>2, <4>1, <4>2
      <4>4. Tail(all) # <<>>
        <5>1. Len(Tail(all)) # 0 BY <4>2, <4>3
        <5> QED BY <5>1, EmptySeq
      <4>5. Tail(all)[Len(Tail(all))] = v BY <3>2, <4>2, <4>3
      <4> QED BY <3>3, <3>5, <4>4, <4>5
    <3> QED BY <3>4, <3>5
  <2>6. Window!Record(v) BY <2>3 DEF Window!Record
  <2>7. Window!Next BY <2>5, <2>6 DEF Window!Next
  <2> QED BY <1>0, <2>3, <2>4, <2>7 DEF BufferInv
<1>4. CASE Cleared
  <2>1. buffer' = <<>> /\ next_element' = 0 BY <1>4 DEF Cleared
  <2>2. WellPlaced(buffer', next_element') /\ InOrder' = <<>> BY <1>1, <2>1, EmptyIsWellPlaced
  <2>3. Window!Next BY <2>2 DEF Window!Next, Window!Forget
  <2>4. buffer' \in Seq(Nat) BY <2>1, EmptySeq
  <2> QED BY <2>2, <2>3, <2>4 DEF BufferInv
<1> QED BY <1>2, <1>3, <1>4, StepsOfTheBuffer

\* The first buffer is the first window.
LEMMA BufferInit == MonInit => BufferInv /\ Window!Init
<1> SUFFICES ASSUME MonInit PROVE BufferInv /\ Window!Init OBVIOUS
<1>1. buffer = <<>> /\ next_element = 0 BY DEF MonInit
<1>2. InOrder = Ordered(buffer, next_element) BY DEF InOrder, Ordered
<1> QED BY <1>1, <1>2, EmptyIsWellPlaced, EmptySeq DEF BufferInv, Window!Init

\* The buffer is always in order.
LEMMA BufferAlways == MonSpec => []BufferInv
<1>1. MeterInv /\ BufferInv /\ [MonNext]_monVars => BufferInv' BY BufferStep
<1> QED BY <1>1, BufferInit, MeterAlways, PTL DEF MonSpec

\* The circular buffer, with its position that goes round, implements the window of
\* the last observations, for every size and whatever is pushed.
THEOREM BufferImplementsWindow == MonSpec => ImplementsWindow
<1>1. MonInit => Window!Init BY BufferInit
<1>2. MeterInv /\ BufferInv /\ [MonNext]_monVars => [Window!Next]_InOrder BY BufferStep
<1> QED BY <1>1, <1>2, MeterAlways, BufferAlways, PTL DEF MonSpec, ImplementsWindow, Window!Spec

----------------------------------------------------------------------------
(* The statistics.                                                         *)

\* The element that was pushed last.
LastOf(b, n) == IF n = 0 THEN b[Len(b)] ELSE b[n]

\* No statistic depends on where the circular buffer starts.
LEMMA StatisticsOfOrdered ==
  ASSUME NEW b \in Seq(Nat), NEW n, WellPlaced(b, n), b # <<>>
  PROVE  /\ Average(Ordered(b, n)) = Average(b)
         /\ StandardDeviation(Ordered(b, n), Average(b)) = StandardDeviation(b, Average(b))
         /\ MaximumOf(Ordered(b, n)) = MaximumOf(b) /\ MinimumOf(Ordered(b, n)) = MinimumOf(b)
         /\ Ordered(b, n)[Len(Ordered(b, n))] = LastOf(b, n)
<1> DEFINE o == Ordered(b, n)
           m == Len(b)
<1>1. o \in Seq(Observed) /\ Len(o) = m /\ Rotated(b, o, m, n) BY OrderedIsRotated
<1>2. b \in Seq(Observed) /\ m \in Nat /\ m # 0 /\ n \in Nat /\ n <= m
  BY <1>1, EmptySeq DEF WellPlaced, Rotated
<1>3. \A i \in 1 .. m : b[i] \in Nat BY ElementOfSeq
<1> HIDE DEF o
<1>4. /\ DOMAIN b = 1 .. m /\ DOMAIN o = 1 .. m
      /\ \A i \in 1 .. m : b[i] \in Nat /\ o[i] \in Nat
  <2>1. DOMAIN b = 1 .. m /\ DOMAIN o = 1 .. m BY <1>1, <1>2, LenProperties
  <2>2. ASSUME NEW i \in 1 .. m PROVE o[i] \in Nat
    <3>1. CASE i <= m - n
      <4>1. i \in 1 .. m - n /\ n + i \in 1 .. m BY <1>2, <3>1
      <4> QED BY <1>1, <1>3, <4>1 DEF Rotated
    <3>2. CASE ~(i <= m - n)
      <4> DEFINE j == i - (m - n)
      <4>1. j \in 1 .. n /\ j \in 1 .. m /\ m - n + j = i BY <1>2, <3>2
      <4>2. \A q \in 1 .. n : o[m - n + q] = b[q] BY <1>1 DEF Rotated
      <4> HIDE DEF j
      <4> QED BY <1>3, <4>1, <4>2
    <3> QED BY <3>1, <3>2
  <2> QED BY <1>3, <2>1, <2>2
<1>5. SumOf(o) = SumOf(b) /\ SumOf(b) \in Int
  <2>1. \A i \in 1 .. m : b[i] \in Int /\ o[i] \in Int BY <1>4
  <2> QED BY <1>1, <1>2, <2>1, SumOfRotation
<1>6. Average(o) = Average(b) BY <1>1, <1>5 DEF Average
<1>7. StandardDeviation(o, Average(b)) = StandardDeviation(b, Average(b))
  <2> DEFINE avg == Average(b)
             sq(x) == (avg[2] * x - avg[1]) * (avg[2] * x - avg[1])
             sb == [i \in DOMAIN b |-> sq(b[i])]
             so == [i \in DOMAIN o |-> sq(o[i])]
  <2>1. avg[1] \in Int /\ avg[2] \in Int BY <1>2, <1>5 DEF Average
  <2>2. /\ StandardDeviation(b, avg) = <<SumOf(sb), avg[2] * avg[2] * Max({Len(b) - 1, 1})>>
        /\ StandardDeviation(o, avg) = <<SumOf(so), avg[2] * avg[2] * Max({Len(o) - 1, 1})>>
    BY DEF StandardDeviation
  <2> HIDE DEF avg
  <2>3. ASSUME NEW x \in Nat PROVE sq(x) \in Int
    <3>1. avg[2] * x \in Int BY <2>1
    <3>2. avg[2] * x - avg[1] \in Int BY <2>1, <3>1
    <3> QED BY <3>2
  <2> HIDE DEF sq
  <2>4. sb = [i \in 1 .. m |-> sq(b[i])] /\ so = [i \in 1 .. m |-> sq(o[i])] BY <1>4
  <2>5. \A i \in 1 .. m : sb[i] = sq(b[i]) /\ so[i] = sq(o[i]) BY <1>4
  <2>6. \A i \in 1 .. m : sb[i] \in Int /\ so[i] \in Int BY <1>4, <2>3, <2>5
  <2>7. Len(sb) = m /\ Len(so) = m
    <3>0. \A i \in 1 .. m : sq(b[i]) \in Int /\ sq(o[i]) \in Int BY <1>4, <2>3
    <3>a. sb \in Seq(Int) BY <1>2, <2>4, <3>0, IsASeq
    <3>b. so \in Seq(Int) BY <1>2, <2>4, <3>0, IsASeq
    <3>1. sb \in Seq(Int) /\ DOMAIN sb = 1 .. m /\ so \in Seq(Int) /\ DOMAIN so = 1 .. m
      BY <2>4, <3>a, <3>b
    <3> HIDE DEF sb, so
    <3> QED BY <1>2, <3>1, LenProperties
  <2> HIDE DEF sb, so
  <2>8. Rotated(sb, so, m, n)
    <3>1. n \in 0 .. m BY <1>1 DEF Rotated
    <3>2. ASSUME NEW i \in 1 .. m - n PROVE so[i] = sb[n + i]
      <4>1. i \in 1 .. m /\ n + i \in 1 .. m BY <1>2
      <4>2. o[i] = b[n + i] BY <1>1 DEF Rotated
      <4> QED BY <2>5, <4>1, <4>2
    <3>3. ASSUME NEW i \in 1 .. n PROVE so[m - n + i] = sb[i]
      <4>1. i \in 1 .. m /\ m - n + i \in 1 .. m BY <1>2
      <4>2. o[m - n + i] = b[i] BY <1>1 DEF Rotated
      <4> QED BY <2>5, <4>1, <4>2
    <3> QED BY <3>1, <3>2, <3>3 DEF Rotated
  <2>9. SumOf(so) = SumOf(sb) BY <1>2, <2>6, <2>7, <2>8, SumOfRotation
  <2> QED BY <1>1, <2>2, <2>9 DEF avg
<1>8. {o[i] : i \in DOMAIN o} = {b[i] : i \in DOMAIN b}
  <2>1. ASSUME NEW i \in 1 .. m PROVE \E j \in 1 .. m : o[i] = b[j]
    <3>1. CASE i <= m - n
      <4>1. i \in 1 .. m - n /\ n + i \in 1 .. m BY <1>2, <3>1
      <4> QED BY <1>1, <4>1 DEF Rotated
    <3>2. CASE ~(i <= m - n)
      <4> DEFINE j == i - (m - n)
      <4>1. j \in 1 .. n /\ j \in 1 .. m /\ m - n + j = i BY <1>2, <3>2
      <4>2. \A q \in 1 .. n : o[m - n + q] = b[q] BY <1>1 DEF Rotated
      <4> HIDE DEF j
      <4> QED BY <4>1, <4>2
    <3> QED BY <3>1, <3>2
  <2>2. ASSUME NEW j \in 1 .. m PROVE \E i \in 1 .. m : o[i] = b[j]
    <3>1. CASE j <= n
      <4>1. j \in 1 .. n /\ m - n + j \in 1 .. m BY <1>2, <3>1
      <4> QED BY <1>1, <4>1 DEF Rotated
    <3>2. CASE ~(j <= n)
      <4> DEFINE i == j - n
      <4>1. i \in 1 .. m - n /\ i \in 1 .. m /\ n + i = j BY <1>2, <3>2
      <4>2. \A q \in 1 .. m - n : o[q] = b[n + q] BY <1>1 DEF Rotated
      <4> HIDE DEF i
      <4> QED BY <4>1, <4>2
    <3> QED BY <3>1, <3>2
  <2> DEFINE A == {o[i] : i \in 1 .. m}
             B == {b[i] : i \in 1 .. m}
  <2>3. A \subseteq B BY <2>1
  <2>4. B \subseteq A BY <2>2
  <2>5. A = B BY <2>3, <2>4
  <2> QED BY <1>4, <2>5
<1>9. MaximumOf(o) = MaximumOf(b) /\ MinimumOf(o) = MinimumOf(b) BY <1>8 DEF MaximumOf, MinimumOf
<1>10. o[Len(o)] = LastOf(b, n)
  <2>1. CASE n = 0
    <3>1. m \in 1 .. m - n /\ n + m = m BY <1>2, <2>1
    <3>2. o[m] = b[n + m] BY <1>1, <3>1 DEF Rotated
    <3> QED BY <1>1, <2>1, <3>1, <3>2 DEF LastOf
  <2>2. CASE n # 0
    <3>1. n \in 1 .. n /\ m - n + n = m BY <1>2, <2>2
    <3>2. \A q \in 1 .. n : o[m - n + q] = b[q] BY <1>1 DEF Rotated
    <3>3. o[m] = b[n] BY <3>1, <3>2
    <3> QED BY <1>1, <2>2, <3>3 DEF LastOf
  <2> QED BY <2>1, <2>2
<1> QED BY <1>6, <1>7, <1>9, <1>10 DEF o

\* The largest and the smallest element of a buffer that is not empty.
LEMMA ExtremesExist ==
  ASSUME NEW b \in Seq(Nat), b # <<>>
  PROVE  /\ Max({b[i] : i \in DOMAIN b}) \in Nat
         /\ Min({b[i] : i \in DOMAIN b}) \in Nat
<1> DEFINE n == Len(b)
           Top(i) == \E x \in 1 .. i + 1 : \A y \in 1 .. i + 1 : b[x] >= b[y]
           Low(i) == \E x \in 1 .. i + 1 : \A y \in 1 .. i + 1 : b[x] <= b[y]
           T == {i \in 0 .. n - 1 : Top(i) /\ Low(i)}
<1>1. n \in Nat /\ n # 0 /\ DOMAIN b = 1 .. n /\ \A i \in 1 .. n : b[i] \in Nat
  BY EmptySeq, LenProperties, ElementOfSeq
<1> HIDE DEF n
<1>2. 0 \in T
  <2>1. Top(0) /\ Low(0)
    <3>1. 1 \in 1 .. 0 + 1 /\ \A y \in 1 .. 0 + 1 : y = 1 OBVIOUS
    <3>2. b[1] \in Nat BY <1>1
    <3> QED BY <3>1, <3>2
  <2> QED BY <1>1, <2>1
<1>3. ASSUME NEW i \in 0 .. n - 1 - 1, i \in T PROVE i + 1 \in T
  <2>1. i \in Nat /\ i + 1 \in 0 .. n - 1 /\ (i + 1) + 1 \in 1 .. n /\ i + 1 <= n BY <1>1
  <2> DEFINE z == (i + 1) + 1
  <2>2. ASSUME NEW y \in 1 .. z PROVE y \in 1 .. n /\ (y = z \/ y \in 1 .. i + 1) BY <1>1, <2>1
  <2>3. \A y \in 1 .. z : b[y] \in Nat BY <1>1, <2>2
  <2>4. z \in 1 .. z /\ 1 .. i + 1 \subseteq 1 .. z BY <2>1
  <2>5. Top(i + 1)
    <3>1. PICK x \in 1 .. i + 1 : \A y \in 1 .. i + 1 : b[x] >= b[y] BY <1>3
    <3> HIDE DEF z
    <3>2. CASE b[x] >= b[z]
      <4>1. \A y \in 1 .. z : b[x] >= b[y] BY <2>2, <3>1, <3>2
      <4> QED BY <2>4, <4>1 DEF z
    <3>3. CASE ~(b[x] >= b[z])
      <4>1. b[x] \in Nat /\ b[z] \in Nat BY <2>3, <2>4
      <4>2. \A y \in 1 .. z : b[z] >= b[y] BY <2>2, <2>3, <3>1, <3>3, <4>1
      <4> QED BY <2>4, <4>2 DEF z
    <3> QED BY <3>2, <3>3
  <2>6. Low(i + 1)
    <3>1. PICK x \in 1 .. i + 1 : \A y \in 1 .. i + 1 : b[x] <= b[y] BY <1>3
    <3> HIDE DEF z
    <3>2. CASE b[x] <= b[z]
      <4>1. \A y \in 1 .. z : b[x] <= b[y] BY <2>2, <3>1, <3>2
      <4> QED BY <2>4, <4>1 DEF z
    <3>3. CASE ~(b[x] <= b[z])
      <4>1. b[x] \in Nat /\ b[z] \in Nat BY <2>3, <2>4
      <4>2. \A y \in 1 .. z : b[z] <= b[y] BY <2>2, <2>3, <3>1, <3>3, <4>1
      <4> QED BY <2>4, <4>2 DEF z
    <3> QED BY <3>2, <3>3
  <2> HIDE DEF Top, Low
  <2> QED BY <2>1, <2>5, <2>6
<1>4. n - 1 \in T
  <2>1. n - 1 \in Nat /\ n - 1 \in 0 .. n - 1 BY <1>1
  <2> HIDE DEF T
  <2>2. 0 .. n - 1 \subseteq T BY <1>2, <1>3, <2>1, UpFromZero
  <2> QED BY <2>1, <2>2
<1>5. (n - 1) + 1 = n BY <1>1
<1>6. PICK x \in 1 .. n : \A y \in 1 .. n : b[x] >= b[y] BY <1>4, <1>5
<1>7. PICK w \in 1 .. n : \A y \in 1 .. n : b[w] <= b[y] BY <1>4, <1>5
<1> DEFINE S == {b[i] : i \in DOMAIN b}
<1>8. S \subseteq Nat /\ (\E e \in S : \A y \in S : e >= y) /\ (\E e \in S : \A y \in S : e <= y)
  BY <1>1, <1>6, <1>7
<1> HIDE DEF S
<1>9. Max(S) \in S BY <1>8, Zenon DEF Max
<1>10. Min(S) \in S BY <1>8, Zenon DEF Min
<1> QED BY <1>8, <1>9, <1>10 DEF S

\* The statistic of the elements s, the last of which is given.
StatisticOf(statistic, s, last) ==
  CASE statistic = "average"            -> Average(s)
    [] statistic = "standard_deviation" -> StandardDeviation(s, Average(s))
    [] statistic = "max"                -> MaximumOf(s)
    [] statistic = "min"                -> MinimumOf(s)
    [] statistic = "last"               -> <<last, 1>>

\* A fraction that is not negative.
IsFraction(v) == v = <<v[1], v[2]>> /\ v[1] \in Nat /\ v[2] \in Nat /\ v[2] # 0

\* The statistics whose value is no square.
Averages == {"average", "max", "min"}

\* When the statistics were computed.
TimesInv ==
  /\ last_change \in Nat /\ last_change <= now /\ collided \in BOOLEAN
  /\ \A s \in Stats : computed[s] \in Nat /\ computed[s] <= last_change

\* What is cached since the last change is the statistic of the buffer, and so is
\* what a reader was given since then.
CacheTrue ==
  collided = FALSE =>
    /\ \A s \in Stats : computed[s] = last_change => previous[s] = StatisticOf(s, buffer, LastPushed)
    /\ served # None => /\ served.statistic \in Stats /\ buffer # <<>> /\ Plain
                        /\ served.value = StatisticOf(served.statistic, buffer, LastPushed)

\* What is cached or was given is a fraction, true or not.
CacheTypes ==
  /\ \A s \in Averages : IsFraction(previous[s])
  /\ served # None => (served.statistic \in Averages => IsFraction(served.value))

\* The inductive invariant of the cache.
CacheInv == TimesInv /\ CacheTrue /\ CacheTypes

\* The three things that can happen to the cache.
LEMMA StepsOfTheCache ==
  ASSUME MeterInv, [MonNext]_monVars
  PROVE  \/ Untouched /\ UNCHANGED <<statVars, served>> /\ (now' = now \/ now' = now + 1)
         \/ /\ Untouched /\ now' = now /\ buffer # <<>> /\ Plain
            /\ \E s \in Stats :
                 /\ Cache(s)
                 /\ \/ served' = served
                    \/ served' = [statistic |-> s, value |-> previous'[s]]
         \/ Changed /\ UNCHANGED <<now, statVars>>
<1> USE DEF Untouched, bufferVars, clockVars
<1>1. CASE Tick BY <1>1 DEF Tick
<1>2. CASE Start BY <1>2 DEF Start
<1>3. CASE Stops
  <2>0. PICK data \in Values : Stop(data) BY <1>3 DEF Stops
  <2>1. CASE StopMeasures(data) BY <2>0, <2>1 DEF Stop, StopMeasures, Measured, Push
  <2>2. CASE StopThrows BY <2>0, <2>2 DEF StopThrows, Stop
  <2>3. CASE ~started /\ UNCHANGED <<bufferVars, started, measured, spoilt>> BY <2>0, <2>3 DEF Stop
  <2> QED BY <2>0, <2>1, <2>2, <2>3 DEF Stop
<1>4. CASE OdroidStart BY <1>4 DEF OdroidStart
<1>5. CASE OdroidReset BY <1>5 DEF OdroidReset
<1>6. CASE OdroidStop BY <1>6 DEF OdroidStop, Push
<1>7. CASE PollLoad BY <1>7 DEF PollLoad
<1>8. CASE PollStore BY <1>8 DEF PollStore
<1>9. CASE ClearBuffer BY <1>9 DEF ClearBuffer
<1>10. CASE ClearObservations BY <1>10 DEF ClearObservations
<1>11. CASE UNCHANGED monVars BY <1>11 DEF monVars
<1>12. CASE \E s \in Stats : Query(s) BY <1>12 DEF Query, Plain
<1>13. CASE \E v, w \in Values : Sample(v, w) BY <1>13 DEF Sample, Push
<1>14. CASE \E e \in Expected : EvaluateError(e)
  <2>1. "average" \in Stats BY DEF Stats
  <2>2. Untouched /\ now' = now /\ buffer # <<>> /\ Cache("average") /\ served' = served /\ Plain
    BY <1>14 DEF EvaluateError, Plain
  <2> QED BY <2>1, <2>2
<1> QED BY <1>1, <1>2, <1>3, <1>4, <1>5, <1>6, <1>7, <1>8, <1>9, <1>10, <1>11, <1>12, <1>13, <1>14
        DEF MonNext, Stops

\* A statistic that is not outdated was computed since the last change.
LEMMA NotOutdated ==
  ASSUME TimesInv, NEW s \in Stats, ~Outdated(s)
  PROVE  computed[s] = last_change
<1>1. computed[s] \in Nat /\ computed[s] <= last_change /\ last_change \in Nat BY DEF TimesInv
<1>2. ~(computed[s] < last_change) BY DEF Outdated
<1> QED BY <1>1, <1>2

\* What a query computes, with the average in the cache or not.
LEMMA ComputeIsTrue ==
  ASSUME TimesInv, CacheTrue, collided = FALSE, NEW s \in Stats
  PROVE  Compute(s) = StatisticOf(s, buffer, LastPushed)
<1>1. AverageServed = Average(buffer)
  <2>1. CASE Outdated("average") BY <2>1 DEF AverageServed
  <2>2. CASE ~Outdated("average")
    <3>1. "average" \in Stats BY DEF Stats
    <3>2. computed["average"] = last_change BY <2>2, <3>1, NotOutdated
    <3>3. previous["average"] = StatisticOf("average", buffer, LastPushed) BY <3>1, <3>2 DEF CacheTrue
    <3>4. StatisticOf("average", buffer, LastPushed) = Average(buffer) BY DEF StatisticOf
    <3> QED BY <2>2, <3>3, <3>4 DEF AverageServed
  <2> QED BY <2>1, <2>2
<1>2. CASE s = "average" BY <1>2 DEF Compute, StatisticOf
<1>3. CASE s = "standard_deviation" BY <1>1, <1>3 DEF Compute, StatisticOf
<1>4. CASE s = "max" BY <1>4 DEF Compute, StatisticOf
<1>5. CASE s = "min" BY <1>5 DEF Compute, StatisticOf
<1>6. CASE s = "last" BY <1>6 DEF Compute, StatisticOf
<1> QED BY <1>2, <1>3, <1>4, <1>5, <1>6 DEF Stats

\* What a query computes is a fraction.
LEMMA ComputeIsFraction ==
  ASSUME BufferInv, Plain, buffer # <<>>, NEW s \in Averages
  PROVE  IsFraction(Compute(s))
<1>3. buffer \in Seq(Nat) BY DEF BufferInv
<1>4. Len(buffer) \in Nat /\ Len(buffer) # 0 /\ \A i \in 1 .. Len(buffer) : buffer[i] \in Nat
  BY <1>3, EmptySeq, LenProperties, ElementOfSeq
<1>5. CASE s = "average"
  <2>1. SumOf(buffer) \in Nat BY <1>4, SumIsNatural
  <2>2. Compute(s) = <<SumOf(buffer), Len(buffer)>> BY <1>5 DEF Compute, Average
  <2> QED BY <1>4, <2>1, <2>2 DEF IsFraction
<1>6. CASE s = "max"
  <2>1. Compute(s) = <<Max({buffer[i] : i \in DOMAIN buffer}), 1>> BY <1>6 DEF Compute, MaximumOf
  <2>2. Max({buffer[i] : i \in DOMAIN buffer}) \in Nat BY <1>3, ExtremesExist
  <2> QED BY <2>1, <2>2 DEF IsFraction
<1>7. CASE s = "min"
  <2>1. Compute(s) = <<Min({buffer[i] : i \in DOMAIN buffer}), 1>> BY <1>7 DEF Compute, MinimumOf
  <2>2. Min({buffer[i] : i \in DOMAIN buffer}) \in Nat BY <1>3, ExtremesExist
  <2> QED BY <2>1, <2>2 DEF IsFraction
<1> QED BY <1>5, <1>6, <1>7 DEF Averages

\* What a query leaves in the cache.
LEMMA Cached ==
  ASSUME NEW s \in Stats, Cache(s)
  PROVE  /\ \A r \in Stats :
              \/ previous'[r] = previous[r] /\ computed'[r] = computed[r]
              \/ previous'[r] = Compute(r) /\ computed'[r] = last_change
         /\ Outdated(s) => previous'[s] = Compute(s) /\ computed'[s] = last_change
         /\ ~Outdated(s) => previous'[s] = previous[s] /\ computed'[s] = computed[s]
<1>1. \A r \in Stats :
        /\ previous'[r] = IF r \in Recomputed(s) THEN Compute(r) ELSE previous[r]
        /\ computed'[r] = IF r \in Recomputed(s) THEN last_change ELSE computed[r]
  BY DEF Cache
<1>2. Outdated(s) => s \in Recomputed(s) BY DEF Recomputed
<1>3. ~Outdated(s) => s \notin Recomputed(s) BY DEF Recomputed
<1>4. ASSUME NEW r \in Stats
      PROVE  \/ previous'[r] = previous[r] /\ computed'[r] = computed[r]
             \/ previous'[r] = Compute(r) /\ computed'[r] = last_change
  <2>1. CASE r \in Recomputed(s) BY <1>1, <2>1
  <2>2. CASE r \notin Recomputed(s) BY <1>1, <2>2
  <2> QED BY <2>1, <2>2
<1>5. Outdated(s) => previous'[s] = Compute(s) /\ computed'[s] = last_change BY <1>1, <1>2
<1>6. ~Outdated(s) => previous'[s] = previous[s] /\ computed'[s] = computed[s] BY <1>1, <1>3
<1> QED BY <1>4, <1>5, <1>6

\* The cache stays true: a change outdates what was computed, unless they share a time.
LEMMA CacheStep ==
  ASSUME MeterInv, BufferInv, CacheInv, [MonNext]_monVars
  PROVE  CacheInv'
<1>0. TimesInv /\ CacheTrue /\ CacheTypes BY DEF CacheInv
<1>k. Plain' <=> Plain BY KindIsFixed DEF Plain
<1>1. CASE Untouched /\ UNCHANGED <<statVars, served>> /\ (now' = now \/ now' = now + 1)
  <2>1. UNCHANGED <<buffer, next_element, last_change, collided, computed, previous, served>>
    BY <1>1 DEF Untouched, statVars
  <2>2. now \in Nat BY BoundsAreNatural DEF MeterInv, ReadingTypes
  <2>3. TimesInv' BY <1>0, <1>1, <2>1, <2>2 DEF TimesInv
  <2>4. LastPushed' = LastPushed BY <2>1 DEF LastPushed
  <2>5. CacheTrue' BY <1>0, <1>k, <2>1, <2>4 DEF CacheTrue
  <2>6. CacheTypes' BY <1>0, <2>1 DEF CacheTypes
  <2> QED BY <2>3, <2>5, <2>6 DEF CacheInv
<1>2. CASE /\ Untouched /\ now' = now /\ buffer # <<>> /\ Plain
           /\ \E s \in Stats :
                /\ Cache(s)
                /\ \/ served' = served
                   \/ served' = [statistic |-> s, value |-> previous'[s]]
  <2>1. UNCHANGED <<buffer, next_element, last_change, collided, now>> BY <1>2 DEF Untouched
  <2>2. PICK s \in Stats :
          /\ Cache(s)
          /\ \/ served' = served
             \/ served' = [statistic |-> s, value |-> previous'[s]]
    BY <1>2
  <2>3. \A r \in Stats :
          \/ previous'[r] = previous[r] /\ computed'[r] = computed[r]
          \/ previous'[r] = Compute(r) /\ computed'[r] = last_change
    BY <2>2, Cached
  <2>4. LastPushed' = LastPushed BY <2>1 DEF LastPushed
  <2>5. TimesInv'
    <3>1. \A r \in Stats : computed'[r] \in Nat /\ computed'[r] <= last_change
      BY <1>0, <2>3 DEF TimesInv
    <3> QED BY <1>0, <2>1, <3>1 DEF TimesInv
  <2>6. ASSUME collided = FALSE, NEW r \in Stats, computed'[r] = last_change
        PROVE  previous'[r] = StatisticOf(r, buffer, LastPushed)
    <3>1. CASE previous'[r] = previous[r] /\ computed'[r] = computed[r]
      BY <1>0, <2>6, <3>1 DEF CacheTrue
    <3>2. CASE previous'[r] = Compute(r)
      BY <1>0, <2>6, <3>2, ComputeIsTrue
    <3> QED BY <2>3, <3>1, <3>2
  <2>7. ASSUME collided = FALSE, served' = [statistic |-> s, value |-> previous'[s]]
        PROVE  served'.statistic = s /\ served'.value = StatisticOf(s, buffer, LastPushed)
    <3>1. computed'[s] = last_change
      <4>1. CASE Outdated(s) BY <2>2, <4>1, Cached
      <4>2. CASE ~Outdated(s) BY <1>0, <2>2, <4>2, Cached, NotOutdated
      <4> QED BY <4>1, <4>2
    <3>2. previous'[s] = StatisticOf(s, buffer, LastPushed) BY <2>6, <2>7, <3>1
    <3> QED BY <2>7, <3>2
  <2>8. CacheTrue'
    <3> SUFFICES ASSUME collided = FALSE
                 PROVE  /\ \A r \in Stats : computed'[r] = last_change =>
                             previous'[r] = StatisticOf(r, buffer, LastPushed)
                        /\ served' # None => /\ served'.statistic \in Stats /\ buffer # <<>> /\ Plain
                             /\ served'.value = StatisticOf(served'.statistic, buffer, LastPushed)
      BY <1>k, <2>1, <2>4 DEF CacheTrue
    <3>1. CASE served' = served BY <1>0, <2>6, <3>1 DEF CacheTrue
    <3>2. CASE served' = [statistic |-> s, value |-> previous'[s]]
      <4>1. served'.statistic = s /\ served'.value = StatisticOf(s, buffer, LastPushed) BY <2>7, <3>2
      <4> QED BY <1>2, <2>6, <4>1
    <3> QED BY <2>2, <3>1, <3>2
  <2>9. CacheTypes'
    <3>1. ASSUME NEW r \in Averages PROVE IsFraction(previous'[r])
      <4>1. r \in Stats BY DEF Averages, Stats
      <4>2. CASE previous'[r] = previous[r] BY <1>0, <4>2 DEF CacheTypes
      <4>3. CASE previous'[r] = Compute(r) BY <1>2, <4>3, ComputeIsFraction
      <4> QED BY <2>3, <4>1, <4>2, <4>3
    <3>2. CASE served' = served BY <1>0, <3>1, <3>2 DEF CacheTypes
    <3>3. CASE served' = [statistic |-> s, value |-> previous'[s]]
      <4>1. served'.statistic = s /\ served'.value = previous'[s] BY <3>3
      <4> QED BY <3>1, <4>1 DEF CacheTypes
    <3> QED BY <2>2, <3>2, <3>3
  <2> QED BY <2>5, <2>8, <2>9 DEF CacheInv
<1>3. CASE Changed /\ UNCHANGED <<now, statVars>>
  <2>1. /\ last_change' = now /\ served' = None /\ now' = now /\ computed' = computed
        /\ previous' = previous
        /\ collided' = (now = last_change /\ \E s \in Stats : computed[s] = now)
    BY <1>3 DEF Changed, statVars
  <2>2. now \in Nat BY BoundsAreNatural DEF MeterInv, ReadingTypes
  <2>3. TimesInv'
    <3>1. \A s \in Stats : computed[s] \in Nat /\ computed[s] <= now BY <1>0, <2>2 DEF TimesInv
    <3>2. collided' \in BOOLEAN BY <2>1
    <3>3. last_change' \in Nat /\ last_change' <= now' BY <2>1, <2>2
    <3> QED BY <2>1, <3>1, <3>2, <3>3 DEF TimesInv
  <2>4. ASSUME collided' = FALSE, NEW s \in Stats PROVE computed[s] # now
    <3>1. ~(now = last_change /\ \E r \in Stats : computed[r] = now) BY <2>1, <2>4
    <3>2. computed[s] <= last_change /\ last_change <= now /\ computed[s] \in Nat /\ last_change \in Nat
      BY <1>0 DEF TimesInv
    <3> QED BY <2>2, <3>1, <3>2
  <2>5. CacheTrue' BY <2>1, <2>4 DEF CacheTrue
  <2>6. CacheTypes' BY <1>0, <2>1 DEF CacheTypes
  <2> QED BY <2>3, <2>5, <2>6 DEF CacheInv
<1> QED BY <1>1, <1>2, <1>3, StepsOfTheCache

\* The cache is always true.
LEMMA CacheAlways == MonSpec => []CacheInv
<1>1. MonInit => CacheInv
  <2> SUFFICES ASSUME MonInit PROVE CacheInv OBVIOUS
  <2>1. /\ now = 1 /\ last_change = 1 /\ computed = [s \in Stats |-> 0] /\ served = None
        /\ previous = [s \in Stats |-> <<0, 1>>] /\ collided = FALSE
    BY DEF MonInit
  <2>7. \A s \in Stats : computed[s] = 0 BY <2>1
  <2>8. last_change \in Nat /\ last_change <= now BY <2>1
  <2>9. \A s \in Stats : computed[s] \in Nat /\ computed[s] <= last_change BY <2>1, <2>7
  <2>2. TimesInv BY <2>1, <2>8, <2>9 DEF TimesInv
  <2>3. CacheTrue BY <2>1, <2>7 DEF CacheTrue
  <2>4. \A s \in Averages : previous[s] = <<0, 1>> BY <2>1 DEF Averages, Stats
  <2>5. IsFraction(<<0, 1>>) BY DEF IsFraction
  <2>6. CacheTypes BY <2>1, <2>4, <2>5 DEF CacheTypes
  <2> QED BY <2>2, <2>3, <2>6 DEF CacheInv
<1>2. MeterInv /\ BufferInv /\ CacheInv /\ [MonNext]_monVars => CacheInv' BY CacheStep
<1> QED BY <1>1, <1>2, MeterAlways, BufferAlways, PTL DEF MonSpec

\* A reader is given the statistic of the last observations, whatever was cached,
\* unless a change shares its time with a computation.
THEOREM StatisticsAreTrue == MonSpec => []ServedIsTrue
<1>1. BufferInv /\ CacheInv => ServedIsTrue
  <2> SUFFICES ASSUME BufferInv, CacheInv, served # None, ~collided
               PROVE  SameFraction(served.value,
                        CASE served.statistic = "average" -> Average(InOrder)
                          [] served.statistic = "standard_deviation" ->
                               StandardDeviation(InOrder, Average(InOrder))
                          [] served.statistic = "max"  -> MaximumOf(InOrder)
                          [] served.statistic = "min"  -> MinimumOf(InOrder)
                          [] served.statistic = "last" -> <<InOrder[Len(InOrder)], 1>>)
    BY DEF ServedIsTrue
  <2>1. collided = FALSE BY DEF CacheInv, TimesInv
  <2>2. /\ served.statistic \in Stats /\ buffer # <<>> /\ Plain
        /\ served.value = StatisticOf(served.statistic, buffer, LastPushed)
    BY <2>1 DEF CacheInv, CacheTrue
  <2>3. InOrder = Ordered(buffer, next_element) /\ LastPushed = LastOf(buffer, next_element)
    BY DEF InOrder, Ordered, LastPushed, LastOf
  <2>4. /\ Average(InOrder) = Average(buffer)
        /\ StandardDeviation(InOrder, Average(buffer)) = StandardDeviation(buffer, Average(buffer))
        /\ MaximumOf(InOrder) = MaximumOf(buffer) /\ MinimumOf(InOrder) = MinimumOf(buffer)
        /\ InOrder[Len(InOrder)] = LastPushed
    BY <2>2, <2>3, StatisticsOfOrdered DEF BufferInv
  <2> DEFINE v == StatisticOf(served.statistic, buffer, LastPushed)
             u == CASE served.statistic = "average" -> Average(InOrder)
                    [] served.statistic = "standard_deviation" ->
                         StandardDeviation(InOrder, Average(InOrder))
                    [] served.statistic = "max"  -> MaximumOf(InOrder)
                    [] served.statistic = "min"  -> MinimumOf(InOrder)
                    [] served.statistic = "last" -> <<InOrder[Len(InOrder)], 1>>
  <2>5. u = v
    <3>1. CASE served.statistic = "average" BY <2>4, <3>1 DEF StatisticOf
    <3>2. CASE served.statistic = "standard_deviation" BY <2>4, <3>2 DEF StatisticOf
    <3>3. CASE served.statistic = "max" BY <2>4, <3>3 DEF StatisticOf
    <3>4. CASE served.statistic = "min" BY <2>4, <3>4 DEF StatisticOf
    <3>5. CASE served.statistic = "last" BY <2>4, <3>5 DEF StatisticOf
    <3> QED BY <2>2, <3>1, <3>2, <3>3, <3>4, <3>5 DEF Stats
  <2> HIDE DEF u, v
  <2>6. SameFraction(v, v) BY DEF SameFraction
  <2>7. SameFraction(served.value, u) BY <2>2, <2>5, <2>6 DEF v
  <2> QED BY <2>7 DEF u
<1> QED BY <1>1, BufferAlways, CacheAlways, PTL

----------------------------------------------------------------------------
(* The adaptor.                                                            *)

\* Where the first of n evaluations is when the next one goes after the ne-th.
Oldest(ne, n) == IF ne >= n THEN ne - n ELSE ne + Inertia - n

\* The place of the i-th element of a window that starts after the k-th.
Place(k, i) == IF i <= Inertia - k THEN k + i ELSE i - (Inertia - k)

\* The types of a window of coefficients er, its position ne and the evaluations ev.
WindowTypes(er, ne, ev) ==
  /\ er \in [1 .. Inertia -> Fractions] /\ ne \in Nat /\ ne < Inertia
  /\ ev \in Seq(Fractions) /\ Len(ev) \in Nat /\ Len(ev) <= Inertia

\* The window holds the evaluations, from the place of the oldest on.
InPlace(er, ne, ev) ==
  \A i \in 1 .. Inertia : Padded(ev)[i] = er[Place(Oldest(ne, Len(ev)), i)]

\* The inductive invariant of the adaptor: its coefficient is the average of the window.
AdaptorInv ==
  /\ cleared \in BOOLEAN
  /\ WindowTypes(errors, next_error, Since) /\ InPlace(errors, next_error, Since)
  /\ SameFraction(coefficient, AverageError(Padded(evaluated)))

\* The arithmetic of the places: where the next coefficient goes while the window
\* fills up, and once it is full.
LEMMA NextPlace ==
  ASSUME NEW ne \in Nat, ne < Inertia
  PROVE  (ne + 1) % Inertia = IF ne + 1 = Inertia THEN 0 ELSE ne + 1
<1>1. Inertia \in Nat /\ Inertia # 0 BY BoundsAreNatural
<1> QED BY <1>1

\* While it fills up, the oldest stays where it is and the next one goes behind the last.
LEMMA PlaceWhileFilling ==
  ASSUME NEW ne \in Nat, ne < Inertia, NEW n \in Nat, n < Inertia, NEW ne2,
         ne2 = IF ne + 1 = Inertia THEN 0 ELSE ne + 1
  PROVE  /\ Oldest(ne2, n + 1) = Oldest(ne, n)
         /\ \A i \in 1 .. Inertia : /\ Place(Oldest(ne, n), i) \in 1 .. Inertia
                                    /\ Place(Oldest(ne, n), i) = ne + 1 <=> i = n + 1
<1> DEFINE N == Inertia
<1>1. N \in Nat /\ N # 0 BY BoundsAreNatural
<1>2. CASE ne >= n
  <2>1. Oldest(ne, n) = ne - n BY <1>2 DEF Oldest
  <2>2. Oldest(ne2, n + 1) = ne - n BY <1>1, <1>2 DEF Oldest
  <2>3. ASSUME NEW i \in 1 .. N
        PROVE  Place(ne - n, i) \in 1 .. N /\ (Place(ne - n, i) = ne + 1 <=> i = n + 1)
    <3>1. Place(ne - n, i) = IF i <= N - (ne - n) THEN (ne - n) + i ELSE i - (N - (ne - n))
      BY DEF Place
    <3> QED BY <1>1, <1>2, <3>1
  <2> QED BY <2>1, <2>2, <2>3
<1>3. CASE ~(ne >= n)
  <2>1. Oldest(ne, n) = ne + N - n BY <1>3 DEF Oldest
  <2>2. Oldest(ne2, n + 1) = ne + N - n BY <1>1, <1>3 DEF Oldest
  <2>3. ASSUME NEW i \in 1 .. N
        PROVE  /\ Place(ne + N - n, i) \in 1 .. N
               /\ Place(ne + N - n, i) = ne + 1 <=> i = n + 1
    <3>1. Place(ne + N - n, i) =
            IF i <= N - (ne + N - n) THEN (ne + N - n) + i ELSE i - (N - (ne + N - n))
      BY DEF Place
    <3> QED BY <1>1, <1>3, <3>1
  <2> QED BY <2>1, <2>2, <2>3
<1> QED BY <1>2, <1>3

\* Once it is full, the next one replaces the oldest.
LEMMA PlaceOnceFull ==
  ASSUME NEW ne \in Nat, ne < Inertia, NEW ne2,
         ne2 = IF ne + 1 = Inertia THEN 0 ELSE ne + 1
  PROVE  /\ ne2 \in Nat /\ ne2 < Inertia
         /\ Oldest(ne, Inertia) = ne /\ Oldest(ne2, Inertia) = ne2
         /\ \A i \in 1 .. Inertia : Place(ne2, i) \in 1 .. Inertia
         /\ Place(ne2, Inertia) = ne + 1
         /\ \A i \in 1 .. Inertia - 1 : Place(ne2, i) = Place(ne, i + 1) /\ Place(ne2, i) # ne + 1
<1> DEFINE N == Inertia
<1>1. N \in Nat /\ N # 0 BY BoundsAreNatural
<1>2. ne2 \in Nat /\ ne2 < N BY <1>1
<1>3. ASSUME NEW k \in Nat, k < N, NEW i \in Int
      PROVE  Place(k, i) = IF i <= N - k THEN k + i ELSE i - (N - k)
  BY DEF Place
<1>4. Oldest(ne, N) = ne /\ Oldest(ne2, N) = ne2 BY <1>1, <1>2 DEF Oldest
<1>5. \A i \in 1 .. N : Place(ne2, i) \in 1 .. N BY <1>1, <1>2, <1>3
<1>6. Place(ne2, N) = ne + 1 BY <1>1, <1>2, <1>3
<1>7. ASSUME NEW i \in 1 .. N - 1
      PROVE  Place(ne2, i) = Place(ne, i + 1) /\ Place(ne2, i) # ne + 1
  <2>1. i \in Int /\ i + 1 \in Int BY <1>1
  <2>2. Place(ne2, i) = IF i <= N - ne2 THEN ne2 + i ELSE i - (N - ne2) BY <1>2, <1>3, <2>1
  <2>3. Place(ne, i + 1) = IF i + 1 <= N - ne THEN ne + (i + 1) ELSE (i + 1) - (N - ne)
    BY DEF Place
  <2> QED BY <1>1, <1>2, <2>2, <2>3
<1> QED BY <1>2, <1>4, <1>5, <1>6, <1>7

\* One more coefficient is evaluated.
LEMMA EvaluationKeepsPlace ==
  ASSUME NEW er, NEW ne, NEW ev, WindowTypes(er, ne, ev), InPlace(er, ne, ev),
         NEW new \in Fractions, NEW er2, NEW ne2, NEW ev2,
         er2 = [er EXCEPT ![ne + 1] = new], ne2 = (ne + 1) % Inertia,
         ev2 = IF Len(ev) < Inertia THEN Append(ev, new) ELSE Append(Tail(ev), new)
  PROVE  WindowTypes(er2, ne2, ev2) /\ InPlace(er2, ne2, ev2) /\ ev2 # <<>>
<1> DEFINE N == Inertia
           L == Len(ev)
           k == Oldest(ne, L)
           k2 == Oldest(ne2, Len(ev2))
<1>1. /\ er \in [1 .. N -> Fractions] /\ ne \in Nat /\ ne < N /\ ev \in Seq(Fractions)
      /\ L \in Nat /\ L <= N /\ N \in Nat /\ N # 0
  BY BoundsAreNatural DEF WindowTypes
<1>2. ne2 = IF ne + 1 = N THEN 0 ELSE ne + 1 BY <1>1, NextPlace
<1>3. er2 \in [1 .. N -> Fractions] /\ \A j \in 1 .. N : er2[j] = IF j = ne + 1 THEN new ELSE er[j]
  BY <1>1
<1>4. ASSUME NEW i \in 1 .. N PROVE Padded(ev)[i] = IF i <= L THEN ev[i] ELSE <<1, 1>>
  BY DEF Padded
<1>5. ASSUME NEW i \in 1 .. N PROVE Padded(ev2)[i] = IF i <= Len(ev2) THEN ev2[i] ELSE <<1, 1>>
  BY DEF Padded
<1>6. ASSUME NEW i \in 1 .. N PROVE Padded(ev)[i] = er[Place(k, i)] BY DEF InPlace
<1>7. CASE L < N
  <2>1. ev2 = Append(ev, new) BY <1>7
  <2>2. /\ ev2 \in Seq(Fractions) /\ ev2 # <<>> /\ Len(ev2) = L + 1
        /\ (\A i \in 1 .. L : ev2[i] = ev[i]) /\ ev2[L + 1] = new
    BY <1>1, <2>1, AppendProperties
  <2>3. WindowTypes(er2, ne2, ev2) BY <1>1, <1>2, <1>3, <1>7, <2>2 DEF WindowTypes
  <2>4. /\ k2 = k
        /\ \A i \in 1 .. N : Place(k, i) \in 1 .. N /\ (Place(k, i) = ne + 1 <=> i = L + 1)
    <3> HIDE DEF L
    <3>1. L \in Nat /\ L < N BY <1>1, <1>7
    <3>2. /\ Oldest(ne2, L + 1) = Oldest(ne, L)
          /\ \A i \in 1 .. N : /\ Place(Oldest(ne, L), i) \in 1 .. N
                               /\ Place(Oldest(ne, L), i) = ne + 1 <=> i = L + 1
      BY <1>1, <1>2, <3>1, PlaceWhileFilling
    <3> QED BY <2>2, <3>2
  <2>5. ASSUME NEW i \in 1 .. N PROVE Padded(ev2)[i] = er2[Place(k, i)]
    <3>1. Place(k, i) \in 1 .. N BY <2>4
    <3>2. Place(k, i) = ne + 1 <=> i = L + 1 BY <2>4
    <3>3. CASE i = L + 1
      <4>1. Padded(ev2)[i] = new BY <1>1, <1>5, <2>2, <3>3
      <4> QED BY <1>3, <3>1, <3>2, <3>3, <4>1
    <3>4. CASE i # L + 1
      <4>1. Padded(ev2)[i] = Padded(ev)[i]
        <5>1. CASE i <= L
          <6>1. i \in 1 .. L /\ i <= L + 1 BY <1>1, <5>1
          <6> QED BY <1>4, <1>5, <2>2, <5>1, <6>1
        <5>2. CASE ~(i <= L)
          <6>1. ~(i <= L + 1) BY <1>1, <3>4, <5>2
          <6> QED BY <1>4, <1>5, <2>2, <5>2, <6>1
        <5> QED BY <5>1, <5>2
      <4>2. er2[Place(k, i)] = er[Place(k, i)] BY <1>3, <3>1, <3>2, <3>4
      <4> QED BY <1>6, <4>1, <4>2
    <3> QED BY <3>3, <3>4
  <2> HIDE DEF k, k2
  <2>6. InPlace(er2, ne2, ev2) BY <2>4, <2>5 DEF InPlace, k2
  <2> QED BY <2>2, <2>3, <2>6
<1>8. CASE ~(L < N)
  <2>1. ev2 = Append(Tail(ev), new) /\ L = N /\ ev # <<>> BY <1>1, <1>8, EmptySeq
  <2>2. /\ Tail(ev) \in Seq(Fractions) /\ Len(Tail(ev)) = N - 1
        /\ \A i \in 1 .. N - 1 : Tail(ev)[i] = ev[i + 1]
    <3>1. /\ Tail(ev) \in Seq(Fractions) /\ Len(Tail(ev)) = Len(ev) - 1
          /\ \A i \in 1 .. Len(Tail(ev)) : Tail(ev)[i] = ev[i + 1]
      BY <1>1, <2>1, HeadTailProperties
    <3> QED BY <2>1, <3>1
  <2>3. /\ ev2 \in Seq(Fractions) /\ ev2 # <<>> /\ Len(ev2) = N
        /\ (\A i \in 1 .. N - 1 : ev2[i] = ev[i + 1]) /\ ev2[N] = new
    <3> DEFINE t == Tail(ev)
    <3>1. t \in Seq(Fractions) /\ Len(t) = N - 1 /\ \A i \in 1 .. N - 1 : t[i] = ev[i + 1] BY <2>2
    <3> HIDE DEF t
    <3>2. /\ Append(t, new) \in Seq(Fractions) /\ Append(t, new) # <<>>
          /\ Len(Append(t, new)) = Len(t) + 1
          /\ \A i \in 1 .. Len(t) : Append(t, new)[i] = t[i]
          /\ Append(t, new)[Len(t) + 1] = new
      BY <3>1, AppendProperties
    <3>3. ev2 = Append(t, new) BY <2>1 DEF t
    <3>4. Len(t) + 1 = N BY <1>1, <3>1
    <3> QED BY <3>1, <3>2, <3>3, <3>4
  <2>4. WindowTypes(er2, ne2, ev2) BY <1>1, <1>2, <1>3, <2>3 DEF WindowTypes
  <2>5. /\ k = ne /\ k2 = ne2 /\ ne2 \in Nat /\ ne2 < N
        /\ \A i \in 1 .. N : Place(ne2, i) \in 1 .. N
        /\ Place(ne2, N) = ne + 1
        /\ \A i \in 1 .. N - 1 : Place(ne2, i) = Place(ne, i + 1) /\ Place(ne2, i) # ne + 1
    BY <1>1, <1>2, <2>1, <2>3, PlaceOnceFull
  <2>6. ASSUME NEW i \in 1 .. N PROVE Padded(ev2)[i] = er2[Place(ne2, i)]
    <3>1. Place(ne2, i) \in 1 .. N BY <2>5
    <3>2. Padded(ev2)[i] = ev2[i] BY <1>1, <1>5, <2>3
    <3>3. CASE i = N
      <4>1. Place(ne2, i) = ne + 1 BY <2>5, <3>3
      <4> QED BY <1>3, <2>3, <3>1, <3>2, <3>3, <4>1
    <3>4. CASE i # N
      <4>1. i \in 1 .. N - 1 /\ i + 1 \in 1 .. N /\ i + 1 <= L BY <1>1, <2>1, <3>4
      <4>2. Place(ne2, i) = Place(ne, i + 1) /\ Place(ne2, i) # ne + 1
        BY <2>5, <4>1
      <4>3. Padded(ev2)[i] = ev[i + 1] BY <2>3, <3>2, <4>1
      <4>4. Padded(ev)[i + 1] = ev[i + 1] BY <1>4, <4>1
      <4>5. Padded(ev)[i + 1] = er[Place(ne, i + 1)] BY <1>6, <2>5, <4>1
      <4>6. er2[Place(ne2, i)] = er[Place(ne2, i)] BY <1>3, <3>1, <4>2
      <4> QED BY <4>2, <4>3, <4>4, <4>5, <4>6
    <3> QED BY <3>3, <3>4
  <2> HIDE DEF k, k2
  <2>7. InPlace(er2, ne2, ev2) BY <2>5, <2>6 DEF InPlace, k2
  <2> QED BY <2>3, <2>4, <2>7
<1> QED BY <1>7, <1>8

\* Where the window starts does not matter to its average.
LEMMA PlacesAverage ==
  ASSUME NEW er, NEW ne, NEW ev, WindowTypes(er, ne, ev), InPlace(er, ne, ev)
  PROVE  AverageError(Padded(ev)) = AverageError(er)
<1> DEFINE N == Inertia
           k == Oldest(ne, Len(ev))
           w == Padded(ev)
<1>1. /\ er \in [1 .. N -> Fractions] /\ ne \in Nat /\ ne < N /\ ev \in Seq(Fractions)
      /\ Len(ev) \in Nat /\ Len(ev) <= N /\ N \in Nat /\ N # 0
  BY BoundsAreNatural DEF WindowTypes
<1>2. k \in 0 .. N BY <1>1 DEF Oldest
<1>3. w \in [1 .. N -> Fractions]
  <2>1. <<1, 1>> \in Fractions BY DEF Fractions
  <2>2. ASSUME NEW i \in 1 .. N PROVE (IF i <= Len(ev) THEN ev[i] ELSE <<1, 1>>) \in Fractions
    <3>1. i <= Len(ev) => i \in 1 .. Len(ev) BY <1>1
    <3>2. i <= Len(ev) => ev[i] \in Fractions BY <1>1, <3>1, ElementOfSeq
    <3> QED BY <2>1, <3>2
  <2> QED BY <2>2 DEF Padded
<1>4. Len(er) = N /\ Len(w) = N
  <2>1. ASSUME NEW f \in [1 .. N -> Fractions] PROVE Len(f) = N
    <3>1. f \in Seq(Fractions) BY <1>1, SeqDef
    <3>2. DOMAIN f = 1 .. Len(f) /\ Len(f) \in Nat BY <3>1, LenProperties
    <3>3. DOMAIN f = 1 .. N OBVIOUS
    <3> QED BY <1>1, <3>2, <3>3
  <2> HIDE DEF w
  <2> QED BY <1>1, <1>3, <2>1
<1>5. ASSUME NEW i \in 1 .. N PROVE w[i] = er[Place(k, i)] BY DEF InPlace
<1> HIDE DEF k, w
<1>6. Rotated(er, w, N, k)
  <2>1. ASSUME NEW i \in 1 .. N - k PROVE w[i] = er[k + i]
    <3>1. i \in 1 .. N /\ Place(k, i) = k + i BY <1>1, <1>2 DEF Place
    <3> QED BY <1>5, <3>1
  <2>2. ASSUME NEW i \in 1 .. k PROVE w[N - k + i] = er[i]
    <3>1. N - k + i \in 1 .. N /\ Place(k, N - k + i) = i BY <1>1, <1>2 DEF Place
    <3> QED BY <1>5, <3>1
  <2> QED BY <1>2, <2>1, <2>2 DEF Rotated
<1>7. \A i \in 1 .. N : er[i] \in Fractions /\ w[i] \in Fractions BY <1>1, <1>3
<1> HIDE DEF N
<1>8. AverageError(w) = AverageError(er) BY <1>1, <1>4, <1>6, <1>7, ErrorOfRotation
<1> QED BY <1>8 DEF w

\* After clear_observations, and at first, every place holds a one.
LEMMA OnesAreInPlace ==
  ASSUME NEW ne \in Nat, ne < Inertia
  PROVE  LET ones == [i \in 1 .. Inertia |-> <<1, 1>>]
         IN  WindowTypes(ones, ne, <<>>) /\ InPlace(ones, ne, <<>>)
<1> DEFINE ones == [i \in 1 .. Inertia |-> <<1, 1>>]
<1>1. Inertia \in Nat /\ Inertia # 0 BY BoundsAreNatural
<1>2. <<1, 1>> \in Fractions BY DEF Fractions
<1>3. ones \in [1 .. Inertia -> Fractions] BY <1>2
<1>4. <<>> \in Seq(Fractions) /\ Len(<<>>) = 0 BY EmptySeq
<1>5. WindowTypes(ones, ne, <<>>) BY <1>1, <1>3, <1>4 DEF WindowTypes
<1>6. Oldest(ne, Len(<<>>)) = ne BY <1>4 DEF Oldest
<1>7. ASSUME NEW i \in 1 .. Inertia PROVE Padded(<<>>)[i] = ones[Place(ne, i)]
  <2>1. Place(ne, i) = IF i <= Inertia - ne THEN ne + i ELSE i - (Inertia - ne) BY DEF Place
  <2>2. Place(ne, i) \in 1 .. Inertia BY <1>1, <2>1
  <2>3. ones[Place(ne, i)] = <<1, 1>> BY <2>2
  <2>4. ~(i <= 0) BY <1>1
  <2>5. Padded(<<>>)[i] = <<1, 1>> BY <1>4, <2>4 DEF Padded
  <2> QED BY <2>3, <2>5
<1> HIDE DEF ones
<1>8. InPlace(ones, ne, <<>>) BY <1>6, <1>7 DEF InPlace
<1> QED BY <1>5, <1>8 DEF ones

\* The coefficient for an average that was observed is a fraction.
LEMMA CoefficientIsFraction ==
  ASSUME NEW e \in Expected, NEW v, IsFraction(v)
  PROVE  ErrorCoefficient(e, v) \in Fractions
<1>1. e.mean \in Nat /\ e.sd \in Nat BY MonitorsAssumption
<1>2. v[1] \in Nat /\ v[2] \in Nat BY DEF IsFraction
<1> DEFINE pad == IF v[1] = 0 THEN 1 ELSE 0
<1>3. pad \in Nat OBVIOUS
<1> HIDE DEF pad
<1>4. (e.mean + pad) * v[2] \in Int /\ v[1] + pad * v[2] \in Int
  <2>1. pad * v[2] \in Nat /\ e.mean + pad \in Nat BY <1>1, <1>2, <1>3
  <2> DEFINE a == e.mean + pad
  <2> HIDE DEF a
  <2>2. a * v[2] \in Nat BY <1>2, <2>1 DEF a
  <2> QED BY <1>2, <2>1, <2>2 DEF a
<1>5. <<(e.mean + pad) * v[2], v[1] + pad * v[2]>> \in Fractions BY <1>4 DEF Fractions
<1>6. <<1, 1>> \in Fractions BY DEF Fractions
<1>7. \/ ErrorCoefficient(e, v) = <<(e.mean + pad) * v[2], v[1] + pad * v[2]>>
      \/ ErrorCoefficient(e, v) = <<1, 1>>
  BY DEF ErrorCoefficient, pad
<1> QED BY <1>5, <1>6, <1>7

\* Only the evaluation and the clearing of the observations touch the adaptor.
LEMMA StepsOfTheAdaptor ==
  ASSUME [MonNext]_monVars
  PROVE  \/ UNCHANGED errorVars
         \/ ClearObservations
         \/ \E e \in Expected : EvaluateError(e)
BY DEF MonNext, monVars, Tick, ClearBuffer, Start, Stop, OdroidStart,
       OdroidReset, OdroidStop, PollLoad, PollStore, Query, Sample

\* The average of ones is one.
LEMMA AverageOfOnes ==
  ASSUME NEW w, Len(w) = Inertia, \A i \in 1 .. Inertia : w[i] = <<1, 1>>
  PROVE  AverageError(w) = <<Inertia, Inertia>>
<1> DEFINE N == Inertia
<1>1. N \in Nat BY BoundsAreNatural
<1>2. \A i \in 1 .. N : w[i] \in Fractions BY DEF Fractions
<1>3. PICK f : /\ Loop(Fractions, AddFractions, <<0, 1>>, f, w, N)
               /\ AverageError(w) = <<f[N][1], f[N][2] * N>>
  BY <1>1, <1>2, ErrorIsALoop
<1> DEFINE T == {i \in 0 .. N : f[i] = <<i, 1>>}
<1>4. 0 \in T BY <1>1, <1>3 DEF Loop, Accumulates
<1>5. ASSUME NEW i \in 0 .. N - 1, i \in T PROVE i + 1 \in T
  <2>1. i + 1 \in 1 .. N /\ (i + 1) - 1 = i BY <1>1
  <2>2. f[i + 1] = AddFractions[<<f[i], w[i + 1]>>] BY <1>3, <2>1 DEF Loop, Accumulates
  <2>3. f[i] = <<i, 1>> /\ w[i + 1] = <<1, 1>> BY <1>5, <2>1
  <2>4. <<i, 1>> \in Fractions /\ <<1, 1>> \in Fractions BY <1>1 DEF Fractions
  <2>5. f[i + 1] = Plus(<<i, 1>>, <<1, 1>>) BY <2>2, <2>3, <2>4 DEF AddFractions
  <2>6. Plus(<<i, 1>>, <<1, 1>>) = <<i + 1, 1>> BY <1>1 DEF Plus
  <2> QED BY <1>1, <2>1, <2>5, <2>6
<1>6. 0 .. N \subseteq T
  <2> HIDE DEF T
  <2> QED BY <1>1, <1>4, <1>5, UpFromZero
<1>7. f[N] = <<N, 1>> BY <1>1, <1>6
<1>8. f[N][1] = N /\ f[N][2] * N = N BY <1>1, <1>7
<1> QED BY <1>3, <1>8

\* An evaluation and a clearing keep the window in place.
LEMMA AdaptorStep ==
  ASSUME AdaptorInv, CacheInv', [MonNext]_monVars
  PROVE  AdaptorInv'
<1>1. CASE UNCHANGED errorVars
  <2>1. /\ errors' = errors /\ next_error' = next_error /\ coefficient' = coefficient
        /\ evaluated' = evaluated /\ cleared' = cleared
    BY <1>1 DEF errorVars
  <2>2. Since' = Since BY <2>1 DEF Since
  <2> QED BY <2>1, <2>2 DEF AdaptorInv
<1>2. CASE ClearObservations
  <2>1. /\ errors' = [i \in 1 .. Inertia |-> <<1, 1>>] /\ next_error' = next_error
        /\ cleared' = TRUE /\ evaluated' = evaluated /\ coefficient' = coefficient
    BY <1>2 DEF ClearObservations
  <2>2. next_error \in Nat /\ next_error < Inertia BY DEF AdaptorInv, WindowTypes
  <2>3. Since' = <<>> BY <2>1 DEF Since
  <2>4. WindowTypes(errors', next_error', Since') /\ InPlace(errors', next_error', Since')
    BY <2>1, <2>2, <2>3, OnesAreInPlace
  <2> QED BY <2>1, <2>4 DEF AdaptorInv
<1>3. CASE \E e \in Expected : EvaluateError(e)
  <2>1. PICK e \in Expected : EvaluateError(e) BY <1>3
  <2> DEFINE new == ErrorCoefficient(e, previous'["average"])
  <2>2. new \in Fractions
    <3>1. IsFraction(previous'["average"]) BY DEF CacheInv, CacheTypes, Averages
    <3> QED BY <3>1, CoefficientIsFraction
  <2>3. CASE IsValid
    <3>1. /\ errors' = [errors EXCEPT ![next_error + 1] = new]
          /\ next_error' = (next_error + 1) % Inertia
          /\ coefficient' = AverageError(errors')
          /\ evaluated' = Later(Since, new) /\ cleared' = FALSE
      BY <2>1, <2>3 DEF EvaluateError
    <3> HIDE DEF new
    <3>2. evaluated' = IF Len(Since) < Inertia THEN Append(Since, new) ELSE Append(Tail(Since), new)
      BY <3>1 DEF Later
    <3>3. /\ WindowTypes(errors', next_error', evaluated')
          /\ InPlace(errors', next_error', evaluated')
      BY <2>2, <3>1, <3>2, EvaluationKeepsPlace DEF AdaptorInv
    <3>4. Since' = evaluated' BY <3>1 DEF Since
    <3>5. coefficient' = AverageError(Padded(evaluated')) BY <3>1, <3>3, PlacesAverage
    <3>6. SameFraction(coefficient, AverageError(Padded(evaluated)))' BY <3>5 DEF SameFraction
    <3> QED BY <3>1, <3>3, <3>4, <3>6 DEF AdaptorInv
  <2>4. CASE ~IsValid
    <3>1. UNCHANGED errorVars BY <2>1, <2>4 DEF EvaluateError
    <3> QED BY <1>1, <3>1
  <2> QED BY <2>3, <2>4
<1> QED BY <1>1, <1>2, <1>3, StepsOfTheAdaptor

\* The first window is one of ones.
LEMMA AdaptorInit == MonInit => AdaptorInv
<1> SUFFICES ASSUME MonInit PROVE AdaptorInv OBVIOUS
<1>1. /\ errors = [i \in 1 .. Inertia |-> <<1, 1>>] /\ next_error = 0 /\ evaluated = <<>>
      /\ coefficient = <<1, 1>> /\ cleared = FALSE
  BY DEF MonInit
<1>2. 0 \in Nat /\ 0 < Inertia /\ Inertia \in Nat BY BoundsAreNatural
<1>3. Since = <<>> BY <1>1 DEF Since
<1>4. WindowTypes(errors, next_error, Since) /\ InPlace(errors, next_error, Since)
  BY <1>1, <1>2, <1>3, OnesAreInPlace
<1>5. AverageError(Padded(<<>>)) = <<Inertia, Inertia>>
  <2> DEFINE w == Padded(<<>>)
  <2>1. Len(<<>>) = 0 BY EmptySeq
  <2>2. w = [i \in 1 .. Inertia |-> <<1, 1>>] BY <1>2, <2>1 DEF Padded
  <2>3. <<1, 1>> \in Fractions BY DEF Fractions
  <2>4. w \in Seq(Fractions) /\ DOMAIN w = 1 .. Inertia BY <1>2, <2>2, <2>3, IsASeq
  <2>5. \A i \in 1 .. Inertia : w[i] = <<1, 1>> BY <2>2
  <2> HIDE DEF w
  <2>6. Len(w) = Inertia BY <1>2, <2>4, LenProperties
  <2>7. AverageError(w) = <<Inertia, Inertia>> BY <2>5, <2>6, AverageOfOnes
  <2> QED BY <2>7 DEF w
<1>6. SameFraction(coefficient, AverageError(Padded(evaluated)))
  BY <1>1, <1>2, <1>5 DEF SameFraction
<1> QED BY <1>1, <1>4, <1>6 DEF AdaptorInv

\* The correction an adaptor applies to the knowledge is at any time the average of
\* the last Inertia coefficients, of those since the clear_observations before the last
\* evaluation, ones in the places of those that are missing, wherever in the window
\* they were written.
THEOREM CoefficientsAreAveraged == MonSpec => []CoefficientIsAverage
<1>1. AdaptorInv => CoefficientIsAverage BY DEF AdaptorInv, CoefficientIsAverage
<1>2. AdaptorInv /\ CacheInv' /\ [MonNext]_monVars => AdaptorInv' BY AdaptorStep
<1> QED BY <1>1, <1>2, AdaptorInit, CacheAlways, PTL DEF MonSpec

----------------------------------------------------------------------------
(* The errors of a goal about a monitor.                                   *)

\* A common factor of two sides of an inequation.
LEMMA Cancel ==
  ASSUME NEW x \in Int, NEW y \in Int, NEW d \in Nat, d # 0
  PROVE  /\ x * d <= y * d => x <= y
         /\ x * d < y * d => x < y
         /\ x <= y => x * d <= y * d
         /\ x < y => x * d < y * d
<1>1. ASSUME NEW u \in Int, NEW z \in Int, u < z PROVE u * d < z * d
  <2>1. PICK k \in Nat : z = u + 1 + k
    <3>1. z - u - 1 \in Nat /\ z = u + 1 + (z - u - 1) BY <1>1
    <3> QED BY <3>1
  <2>2. (u + 1 + k) * d = u * d + d + k * d BY <2>1
  <2>3. k * d \in Nat /\ u * d \in Int BY <2>1
  <2> QED BY <2>1, <2>2, <2>3
<1>2. x < y \/ x = y \/ y < x OBVIOUS
<1>3. x * d \in Int /\ y * d \in Int OBVIOUS
<1>4. CASE x < y BY <1>1, <1>3, <1>4
<1>5. CASE x = y BY <1>3, <1>5
<1>6. CASE y < x
  <2>1. y * d < x * d BY <1>1, <1>6
  <2> QED BY <1>3, <1>6, <2>1
<1> QED BY <1>2, <1>4, <1>5, <1>6

\* Where the quotient of a by d, truncated, lies with respect to the fraction n / m.
LEMMA Quotient ==
  ASSUME NEW a \in Nat, NEW d \in Nat, d # 0, NEW n \in Nat, NEW m \in Nat, m # 0
  PROVE  /\ a \div d \in Nat
         /\ a * m < n * d => (a \div d) * m < n
         /\ a * m <= n * d => (a \div d) * m <= n
         /\ n * d <= a * m => n < (a \div d) * m + m
         /\ (n + m) * d <= a * m => n < (a \div d) * m
<1> DEFINE q == a \div d
<1>1. q \in Nat /\ a % d \in 0 .. d - 1 /\ a = d * q + (a % d) OBVIOUS
<1>2. PICK r \in 0 .. d - 1 : a = d * q + r BY <1>1
<1> HIDE DEF q
<1>3. q * d <= a /\ a < (q + 1) * d
  <2>1. d * q \in Nat /\ q * d = d * q /\ (q + 1) * d = d * q + d BY <1>1
  <2> QED BY <1>2, <2>1
<1>4. q * d \in Int /\ (q + 1) * d \in Int /\ q * m \in Int /\ n * d \in Int /\ a * m \in Int
  BY <1>1
<1>5. (q * m) * d <= a * m
  <2>1. (q * d) * m <= a * m BY <1>3, <1>4, Cancel
  <2>2. (q * d) * m = (q * m) * d BY <1>1
  <2> QED BY <2>1, <2>2
<1>6. a * m < (q * m + m) * d
  <2>1. a * m < ((q + 1) * d) * m BY <1>3, <1>4, Cancel
  <2>2. ((q + 1) * d) * m = (q * m + m) * d BY <1>1
  <2> QED BY <2>1, <2>2
<1> DEFINE Q == q * m
<1>7. Q \in Int /\ Q + m \in Int /\ n + m \in Int BY <1>4
<1>8. Q * d <= a * m /\ a * m < (Q + m) * d BY <1>5, <1>6
<1> HIDE DEF Q
<1>9. Q * d \in Int /\ (Q + m) * d \in Int /\ (n + m) * d \in Int BY <1>7
<1>10. a * m < n * d => Q < n
  <2>1. a * m < n * d => Q * d < n * d BY <1>4, <1>8, <1>9
  <2> QED BY <1>7, <2>1, Cancel
<1>11. a * m <= n * d => Q <= n
  <2>1. a * m <= n * d => Q * d <= n * d BY <1>4, <1>8, <1>9
  <2> QED BY <1>7, <2>1, Cancel
<1>12. n * d <= a * m => n < Q + m
  <2>1. n * d <= a * m => n * d < (Q + m) * d BY <1>4, <1>8, <1>9
  <2> QED BY <1>7, <2>1, Cancel
<1>13. (n + m) * d <= a * m => n < Q
  <2>1. (n + m) * d <= a * m => (n + m) * d < (Q + m) * d BY <1>4, <1>8, <1>9
  <2>2. (n + m) * d <= a * m => n + m < Q + m BY <1>7, <2>1, Cancel
  <2> QED BY <1>7, <2>2
<1> QED BY <1>1, <1>10, <1>11, <1>12, <1>13 DEF Q, q

\* The comparison of two fractions.
LEMMA AchievesOf ==
  ASSUME NEW v, NEW g, NEW cf \in GoalKinds,
         v[1] * g[2] \in Int, g[1] * v[2] \in Int
  PROVE  Achieves(cf, v, g) <=>
           \/ cf = "LESS" /\ v[1] * g[2] < g[1] * v[2]
           \/ cf = "LESS_OR_EQUAL" /\ v[1] * g[2] <= g[1] * v[2]
           \/ cf = "GREATER" /\ g[1] * v[2] < v[1] * g[2]
           \/ cf = "GREATER_OR_EQUAL" /\ g[1] * v[2] <= v[1] * g[2]
<1> DEFINE p == g[1] * v[2]
           a == v[1] * g[2]
<1>1. /\ LessFraction(v, g) <=> a < p
      /\ LessFraction(g, v) <=> p < a
  BY DEF LessFraction
<1>2. p \in Int /\ a \in Int OBVIOUS
<1> HIDE DEF p, a
<1>3. (~(p < a) <=> a <= p) /\ (~(a < p) <=> p <= a) BY <1>2
<1>4. Achieves(cf, v, g) <=>
        \/ cf = "LESS" /\ a < p
        \/ cf = "LESS_OR_EQUAL" /\ a <= p
        \/ cf = "GREATER" /\ p < a
        \/ cf = "GREATER_OR_EQUAL" /\ p <= a
  BY <1>1, <1>3, Zenon DEF Achieves
<1> QED BY <1>4 DEF p, a

\* The absolute error of a whole number q, in units of the denominator of the goal.
LEMMA AbsoluteErrorOf ==
  ASSUME NEW q \in Nat, NEW g, IsFraction(g), NEW cf \in GoalKinds
  PROVE  LET s == q * g[2]
             e == AbsoluteError(cf, q, g)
         IN  /\ e[2] = g[2] /\ e[1] \in Int
             /\ Achieves(cf, <<q, 1>>, g) => e[1] = 0
             /\ ~Achieves(cf, <<q, 1>>, g) => e[1] = IF s >= g[1] THEN s - g[1] ELSE g[1] - s
<1> DEFINE s == q * g[2]
           n == g[1]
           hi == Max({s, n})
           lo == Min({s, n})
           e == AbsoluteError(cf, q, g)
<1>0. s \in Int /\ n \in Int BY DEF IsFraction
<1> HIDE DEF s, n
<1>1. hi = IF s >= n THEN s ELSE n
  <2> DEFINE m == IF s >= n THEN s ELSE n
  <2>1. m \in {s, n} /\ \A y \in {s, n} : m >= y BY <1>0
  <2>2. hi \in {s, n} /\ \A y \in {s, n} : hi >= y
    <3> HIDE DEF m
    <3>1. \E x \in {s, n} : \A y \in {s, n} : x >= y BY <2>1
    <3> QED BY <3>1, Zenon DEF Max
  <2> HIDE DEF hi
  <2> QED BY <1>0, <2>2
<1>2. lo = IF s >= n THEN n ELSE s
  <2> DEFINE m == IF s >= n THEN n ELSE s
  <2>1. m \in {s, n} /\ \A y \in {s, n} : m <= y BY <1>0
  <2>2. lo \in {s, n} /\ \A y \in {s, n} : lo <= y
    <3> HIDE DEF m
    <3>1. \E x \in {s, n} : \A y \in {s, n} : x <= y BY <2>1
    <3> QED BY <3>1, Zenon DEF Min
  <2> HIDE DEF lo
  <2> QED BY <1>0, <2>2
<1>3. e = IF Achieves(cf, <<q, 1>>, g) THEN <<0, g[2]>> ELSE <<hi - lo, g[2]>>
  BY DEF AbsoluteError, s, n
<1> HIDE DEF hi, lo, e
<1>4. hi - lo = IF s >= n THEN s - n ELSE n - s BY <1>0, <1>1, <1>2
<1>5. hi - lo \in Int BY <1>0, <1>4
<1>6. CASE Achieves(cf, <<q, 1>>, g)
  <2>1. e = <<0, g[2]>> BY <1>3, <1>6
  <2> QED BY <1>6, <2>1 DEF e, s, n
<1>7. CASE ~Achieves(cf, <<q, 1>>, g)
  <2>1. e = <<hi - lo, g[2]>> BY <1>3, <1>7
  <2>2. e[1] = hi - lo /\ e[2] = g[2] BY <2>1
  <2> QED BY <1>4, <1>5, <1>7, <2>2 DEF e, s, n
<1> QED BY <1>6, <1>7

\* The error of the truncated value: less than a unit where the value itself achieves
\* the goal, some where it misses it by a unit or more.
LEMMA TruncatedError ==
  ASSUME NEW v, IsFraction(v), NEW g, IsFraction(g), NEW cf \in GoalKinds
  PROVE  LET e == AbsoluteError(cf, v[1] \div v[2], g)
         IN  /\ Achieves(cf, v, g) => LessFraction(e, <<1, 1>>)
             /\ ( /\ ~Achieves(cf, v, g)
                  /\ \/ ~LessFraction(g, Plus(v, <<1, 1>>))
                     \/ ~LessFraction(v, Plus(g, <<1, 1>>)) )
                => e[1] > 0
<1> DEFINE a == v[1]
           d == v[2]
           n == g[1]
           m == g[2]
           q == a \div d
           Q == q * m
           e == AbsoluteError(cf, q, g)
           w == <<q, 1>>
<1>1. a \in Nat /\ d \in Nat /\ d # 0 /\ n \in Nat /\ m \in Nat /\ m # 0 BY DEF IsFraction
<1>2. /\ q \in Nat
      /\ a * m < n * d => Q < n
      /\ a * m <= n * d => Q <= n
      /\ n * d <= a * m => n < Q + m
      /\ (n + m) * d <= a * m => n < Q
  <2> HIDE DEF a, d, n, m
  <2> QED BY <1>1, Quotient
<1>3. a * m \in Int /\ n * d \in Int /\ (n + m) * d = n * d + m * d /\ m * d \in Nat BY <1>1
<1> HIDE DEF q
<1>4. Q \in Int BY <1>1, <1>2
<1>5. Achieves(cf, v, g) <=>
        \/ cf = "LESS" /\ a * m < n * d
        \/ cf = "LESS_OR_EQUAL" /\ a * m <= n * d
        \/ cf = "GREATER" /\ n * d < a * m
        \/ cf = "GREATER_OR_EQUAL" /\ n * d <= a * m
  BY <1>3, AchievesOf
<1>6. Achieves(cf, w, g) <=>
        \/ cf = "LESS" /\ Q < n
        \/ cf = "LESS_OR_EQUAL" /\ Q <= n
        \/ cf = "GREATER" /\ n < Q
        \/ cf = "GREATER_OR_EQUAL" /\ n <= Q
  <2>1. w[1] = q /\ w[2] = 1 /\ n * 1 = n BY <1>1
  <2> HIDE DEF w
  <2>2. w[1] * m = Q /\ n * w[2] = n BY <2>1
  <2>3. w[1] * g[2] \in Int /\ g[1] * w[2] \in Int BY <1>1, <1>4, <2>2
  <2> QED BY <2>2, <2>3, AchievesOf
<1>7. /\ e[2] = m /\ e[1] \in Int
      /\ Achieves(cf, w, g) => e[1] = 0
      /\ ~Achieves(cf, w, g) => e[1] = IF Q >= n THEN Q - n ELSE n - Q
  BY <1>2, AbsoluteErrorOf
<1> HIDE DEF e, w
<1> DEFINE achieved == Achieves(cf, v, g)
           truncated == Achieves(cf, w, g)
           missed == ~LessFraction(g, Plus(v, <<1, 1>>)) \/ ~LessFraction(v, Plus(g, <<1, 1>>))
           A == a * m
           B == n * d
<1>8. LessFraction(e, <<1, 1>>) <=> e[1] < e[2]
  <2>1. LessFraction(e, <<1, 1>>) <=> e[1] * 1 < 1 * e[2] BY DEF LessFraction
  <2>2. e[1] * 1 = e[1] /\ 1 * e[2] = e[2] BY <1>1, <1>7
  <2> QED BY <2>1, <2>2
<1>9. missed => A + m * d <= B \/ B + m * d <= A
  <2>1. LessFraction(g, Plus(v, <<1, 1>>)) <=> n * (d * 1) < (a * 1 + 1 * d) * m
    BY DEF LessFraction, Plus
  <2>2. LessFraction(v, Plus(g, <<1, 1>>)) <=> a * (m * 1) < (n * 1 + 1 * m) * d
    BY DEF LessFraction, Plus
  <2>3. n * (d * 1) = B /\ (a * 1 + 1 * d) * m = A + m * d BY <1>1
  <2>4. a * (m * 1) = A /\ (n * 1 + 1 * m) * d = B + m * d BY <1>1
  <2>5. A \in Int /\ B \in Int BY <1>3
  <2> HIDE DEF A, B
  <2> QED BY <1>3, <2>1, <2>2, <2>3, <2>4, <2>5
<1>10. /\ A < B => Q < n
       /\ A <= B => Q <= n
       /\ B <= A => n < Q + m
       /\ B + m * d <= A => n < Q
  BY <1>2, <1>3
<1>11. A \in Int /\ B \in Int BY <1>3
<1>12. /\ achieved <=> \/ cf = "LESS" /\ A < B
                       \/ cf = "LESS_OR_EQUAL" /\ A <= B
                       \/ cf = "GREATER" /\ B < A
                       \/ cf = "GREATER_OR_EQUAL" /\ B <= A
       /\ truncated <=> \/ cf = "LESS" /\ Q < n
                        \/ cf = "LESS_OR_EQUAL" /\ Q <= n
                        \/ cf = "GREATER" /\ n < Q
                        \/ cf = "GREATER_OR_EQUAL" /\ n <= Q
  BY <1>5, <1>6
<1>13. m * d > 0 BY <1>1
<1> HIDE DEF A, B, achieved, truncated, missed, Q
<1>14. achieved => e[1] < e[2]
  <2> SUFFICES ASSUME achieved PROVE e[1] < e[2] OBVIOUS
  <2>1. CASE truncated BY <1>1, <1>7, <2>1 DEF truncated
  <2>2. CASE ~truncated
    <3>1. Q <= n /\ n < Q + m
      <4>1. CASE cf = "LESS" BY <1>10, <1>12, <2>2, <4>1
      <4>2. CASE cf = "LESS_OR_EQUAL" BY <1>10, <1>12, <2>2, <4>2
      <4>3. CASE cf = "GREATER" BY <1>1, <1>4, <1>10, <1>11, <1>12, <2>2, <4>3
      <4>4. CASE cf = "GREATER_OR_EQUAL" BY <1>1, <1>4, <1>10, <1>11, <1>12, <2>2, <4>4
      <4> QED BY <4>1, <4>2, <4>3, <4>4 DEF GoalKinds
    <3>2. e[1] = IF Q >= n THEN Q - n ELSE n - Q BY <1>7, <2>2 DEF truncated
    <3> QED BY <1>1, <1>4, <1>7, <3>1, <3>2
  <2> QED BY <2>1, <2>2
<1>15. ~achieved /\ missed => e[1] > 0
  <2> SUFFICES ASSUME ~achieved, missed PROVE e[1] > 0 OBVIOUS
  <2>0. m * d \in Nat BY <1>3
  <2>1. CASE A + m * d <= B
    <3>1. A < B /\ A <= B
      <4> DEFINE M == m * d
      <4>1. M \in Nat /\ M > 0 /\ A + M <= B BY <1>13, <2>0, <2>1
      <4> HIDE DEF M
      <4> QED BY <1>11, <4>1
    <3>2. Q < n /\ ~(n < Q) /\ ~(n <= Q) BY <1>1, <1>4, <1>10, <3>1
    <3>3. cf # "LESS" /\ cf # "LESS_OR_EQUAL" BY <1>12, <3>1
    <3>4. ~truncated BY <1>12, <3>2, <3>3
    <3>5. e[1] = IF Q >= n THEN Q - n ELSE n - Q BY <1>7, <3>4 DEF truncated
    <3> QED BY <1>1, <1>4, <3>2, <3>5
  <2>2. CASE B + m * d <= A
    <3>1. B < A /\ B <= A
      <4> DEFINE M == m * d
      <4>1. M \in Nat /\ M > 0 /\ B + M <= A BY <1>13, <2>0, <2>2
      <4> HIDE DEF M
      <4> QED BY <1>11, <4>1
    <3>2. n < Q /\ ~(Q < n) /\ ~(Q <= n) BY <1>1, <1>4, <1>10, <2>2
    <3>3. cf # "GREATER" /\ cf # "GREATER_OR_EQUAL" BY <1>12, <3>1
    <3>4. ~truncated BY <1>12, <3>2, <3>3
    <3>5. e[1] = IF Q >= n THEN Q - n ELSE n - Q BY <1>7, <3>4 DEF truncated
    <3> QED BY <1>1, <1>4, <3>2, <3>5
  <2> QED BY <1>9, <2>1, <2>2
<1> QED BY <1>8, <1>14, <1>15 DEF achieved, missed, e, q

\* For every goal, a fraction or a whole number: a goal that a monitor achieves has an
\* absolute error below one unit (none if the goal is whole), and one that it misses by
\* a unit or more has both errors, although absolute_error and relative_error truncate
\* the statistic that check compares.
THEOREM ErrorsFollowTheCheck == MonSpec => []ErrorsAgreeWithCheck
<1>1. CacheInv => ErrorsAgreeWithCheck
  <2> SUFFICES ASSUME CacheInv, served # None, served.statistic \in {"average", "max", "min"},
                      NEW cf \in GoalKinds, NEW goal \in Goals
               PROVE  LET relative == MonitorRelativeError(cf, goal)
                          absolute == MonitorAbsoluteError(cf, goal)
                          v        == served.value
                      IN  /\ Check(cf, goal) => LessFraction(absolute, <<1, 1>>)
                          /\ ( /\ IsValid /\ ~Check(cf, goal)
                               /\ \/ ~LessFraction(goal, Plus(v, <<1, 1>>))
                                  \/ ~LessFraction(v, Plus(goal, <<1, 1>>)) )
                               => relative[1] > 0 /\ absolute[1] > 0
    BY DEF ErrorsAgreeWithCheck
  <2> DEFINE v == served.value
             q == v[1] \div v[2]
             error == AbsoluteError(cf, q, goal)
             achieved == Achieves(cf, v, goal)
             missed == \/ ~LessFraction(goal, Plus(v, <<1, 1>>))
                       \/ ~LessFraction(v, Plus(goal, <<1, 1>>))
  <2>1. IsFraction(v) BY DEF CacheInv, CacheTypes, Averages
  <2>2. IsFraction(goal) BY MonitorsAssumption DEF IsFraction
  <2>3. (achieved => LessFraction(error, <<1, 1>>)) /\ (~achieved /\ missed => error[1] > 0)
    <3> HIDE DEF v
    <3> QED BY <2>1, <2>2, TruncatedError
  <2>4. MonitorAbsoluteError(cf, goal) = error BY DEF MonitorAbsoluteError, Truncated
  <2>5. MonitorRelativeError(cf, goal)[1] = error[1]
    BY DEF MonitorRelativeError, RelativeError, Truncated
  <2>6. Check(cf, goal) <=> (IsValid /\ achieved) BY DEF Check
  <2> HIDE DEF error, achieved, missed
  <2>7. /\ Check(cf, goal) => LessFraction(error, <<1, 1>>)
        /\ IsValid /\ ~Check(cf, goal) /\ missed => error[1] > 0
    BY <2>3, <2>6
  <2> QED BY <2>4, <2>5, <2>7 DEF missed
<1> QED BY <1>1, CacheAlways, PTL

=============================================================================
