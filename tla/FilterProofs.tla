---------------------------- MODULE FilterProofs ----------------------------
(***************************************************************************)
(* The moving average, for every size of the ring, every sequence of       *)
(* integer readings and every size it is reset to that holds samples_idx.  *)
(* Sums are recursive functions, and what they compute is shown by         *)
(* induction in the form of SetInduction.                                  *)
(***************************************************************************)
EXTENDS AveragingFilter, WellFoundedInduction, TLAPS

-----------------------------------------------------------------------------
(* Induction and sums. *)

\* A set that holds zero and the successor of each of its elements is Nat.
LEMMA SetInduction ==
  ASSUME NEW T \in SUBSET Nat, 0 \in T, \A n \in T : n + 1 \in T
  PROVE  T = Nat
<1> SUFFICES ASSUME Nat \ T # {} PROVE FALSE
  OBVIOUS
<1> DEFINE R == OpToRel(<, Nat)
<1>1. IsWellFoundedOn(R, Nat)
  BY NatLessThanWellFounded, Zenon
<1>2. \A x \in Nat, y \in Nat : x < y => <<x, y>> \in R
  BY DEF OpToRel
<1> HIDE DEF R
<1>3. PICK m \in Nat \ T : \A y \in Nat \ T : ~ (<<y, m>> \in R)
  BY <1>1, WFMin
<1>4. m # 0 /\ m - 1 \in Nat
  OBVIOUS
<1>5. <<m - 1, m>> \in R
  BY <1>2, <1>4
<1>6. m - 1 \in T
  BY <1>3, <1>4, <1>5, Zenon
<1> QED
  BY <1>4, <1>6

\* s is the function that total(f, n) defines by recursion.
sums(f, n, s) == s = [i \in 0..n |-> IF i = 0 THEN 0 ELSE s[i - 1] + f[i - 1]]

LEMMA SumsExist == ASSUME NEW f, NEW n \in Nat PROVE \E s : sums(f, n, s)
<1> DEFINE T == {m \in Nat : \E s : sums(f, m, s)}
<1>1. 0 \in T
  <2>1. sums(f, 0, [i \in 0..0 |-> 0])
    BY DEF sums
  <2> QED
    BY <2>1
<1>2. ASSUME NEW m \in T PROVE m + 1 \in T
  <2>1. PICK s : sums(f, m, s)
    BY <1>2
  <2> DEFINE t == [i \in 0..m+1 |-> IF i = m + 1 THEN s[m] + f[m] ELSE s[i]]
  <2>2. sums(f, m + 1, t)
    BY <2>1 DEF sums
  <2> QED
    BY <2>2
<1> HIDE DEF T
<1>3. T \in SUBSET Nat
  BY DEF T
<1>4. T = Nat
  BY <1>1, <1>2, <1>3, SetInduction
<1> QED
  BY <1>4 DEF T

\* The recursive definition has a solution, so that CHOOSE finds one.
LEMMA TotalIsSum ==
  ASSUME NEW f, NEW n \in Nat
  PROVE  \E s : sums(f, n, s) /\ total(f, n) = s[n]
<1> DEFINE s == CHOOSE s : sums(f, n, s)
<1>1. sums(f, n, s)
  BY SumsExist
<1>2. total(f, n) = s[n]
  BY DEF total, sums
<1> QED
  BY <1>1, <1>2

\* Sums over more values begin with the same.
LEMMA SumsAgree ==
  ASSUME NEW f, NEW n \in Nat, NEW m \in Nat, n <= m, NEW s, NEW t,
         sums(f, n, s), sums(f, m, t)
  PROVE  s[n] = t[n]
<1> DEFINE T == {i \in Nat : i <= n => s[i] = t[i]}
<1>1. 0 \in T
  BY DEF sums
<1>2. ASSUME NEW i \in T PROVE i + 1 \in T
  <2> SUFFICES ASSUME i + 1 <= n PROVE s[i + 1] = t[i + 1]
    OBVIOUS
  <2>1. s[i + 1] = s[i] + f[i]
    BY DEF sums
  <2>2. t[i + 1] = t[i] + f[i]
    BY DEF sums
  <2>3. s[i] = t[i]
    BY <1>2
  <2> QED
    BY <2>1, <2>2, <2>3
<1> HIDE DEF T
<1>3. T \in SUBSET Nat
  BY DEF T
<1>4. T = Nat
  BY <1>1, <1>2, <1>3, SetInduction
<1> QED
  BY <1>4 DEF T

\* The equations of total.
LEMMA TotalZero == ASSUME NEW f PROVE total(f, 0) = 0
  BY TotalIsSum DEF sums

LEMMA TotalNext ==
  ASSUME NEW f, NEW n \in Nat
  PROVE  total(f, n + 1) = total(f, n) + f[n]
<1>1. PICK s : sums(f, n, s) /\ total(f, n) = s[n]
  BY TotalIsSum
<1>2. PICK t : sums(f, n + 1, t) /\ total(f, n + 1) = t[n + 1]
  BY TotalIsSum
<1>3. s[n] = t[n]
  <2>1. n <= n + 1 /\ n + 1 \in Nat
    OBVIOUS
  <2> QED
    BY <1>1, <1>2, <2>1, SumsAgree
<1>4. t[n + 1] = t[n] + f[n]
  BY <1>2 DEF sums
<1> QED
  BY <1>1, <1>2, <1>3, <1>4

LEMMA TotalType ==
  ASSUME NEW n \in Nat, NEW f, \A i \in 0..n-1 : f[i] \in Int
  PROVE  total(f, n) \in Int
<1> DEFINE T == {i \in Nat : i <= n => total(f, i) \in Int}
<1>1. 0 \in T
  BY TotalZero
<1>2. ASSUME NEW i \in T PROVE i + 1 \in T
  BY <1>2, TotalNext
<1> HIDE DEF T
<1>3. T \in SUBSET Nat
  BY DEF T
<1>4. T = Nat
  BY <1>1, <1>2, <1>3, SetInduction
<1> QED
  BY <1>4 DEF T

\* A ring filled with one value.
LEMMA TotalConstant ==
  ASSUME NEW n \in Nat, NEW c \in Int, NEW f, \A i \in 0..n-1 : f[i] = c
  PROVE  total(f, n) = n * c
<1> DEFINE T == {i \in Nat : i <= n => total(f, i) = i * c}
<1>1. 0 \in T
  BY TotalZero
<1>2. ASSUME NEW i \in T PROVE i + 1 \in T
  <2> SUFFICES ASSUME i + 1 <= n PROVE total(f, i + 1) = (i + 1) * c
    OBVIOUS
  <2>1. total(f, i) = i * c /\ f[i] = c
    BY <1>2
  <2>2. (i + 1) * c = i * c + c
    OBVIOUS
  <2> QED
    BY <2>1, <2>2, TotalNext
<1> HIDE DEF T
<1>3. T \in SUBSET Nat
  BY DEF T
<1>4. T = Nat
  BY <1>1, <1>2, <1>3, SetInduction
<1> QED
  BY <1>4 DEF T

\* One value of the ring is replaced.
LEMMA TotalReplaced ==
  ASSUME NEW n \in Nat, NEW j \in 0..n-1, NEW f \in [0..n-1 -> Int], NEW v \in Int
  PROVE  total([f EXCEPT ![j] = v], n) = total(f, n) - f[j] + v
<1>1. PICK g : g = [f EXCEPT ![j] = v]
  OBVIOUS
<1>2. /\ \A i \in 0..n-1 : f[i] \in Int /\ g[i] \in Int
      /\ \A i \in 0..n-1 : i # j => g[i] = f[i]
      /\ g[j] = v
  BY <1>1
<1> DEFINE change(i) == IF j < i THEN v - f[j] ELSE 0
           T == {i \in Nat : i <= n => total(g, i) = total(f, i) + change(i)}
<1>3. 0 \in T
  BY TotalZero
<1>4. ASSUME NEW i \in T PROVE i + 1 \in T
  <2> SUFFICES ASSUME i + 1 <= n PROVE total(g, i + 1) = total(f, i + 1) + change(i + 1)
    OBVIOUS
  <2>1. total(g, i) = total(f, i) + change(i)
    BY <1>4
  <2>2. total(f, i) \in Int
    BY <1>2, TotalType
  <2>3. total(f, i + 1) = total(f, i) + f[i] /\ total(g, i + 1) = total(g, i) + g[i]
    BY TotalNext
  <2>4. f[i] \in Int /\ g[i] \in Int /\ f[j] \in Int
    BY <1>2
  <2>5. CASE i = j
    BY <1>2, <2>1, <2>2, <2>3, <2>4, <2>5
  <2>6. CASE i # j
    <3>1. g[i] = f[i] /\ change(i + 1) = change(i)
      BY <1>2, <2>6
    <3>2. change(i) \in Int
      BY <2>4
    <3> HIDE DEF change
    <3> QED
      BY <2>1, <2>2, <2>3, <2>4, <3>1, <3>2
  <2> QED
    BY <2>5, <2>6
<1>5. T \in SUBSET Nat
  OBVIOUS
<1>6. T = Nat
  <2> HIDE DEF T
  <2> QED
    BY <1>3, <1>4, <1>5, SetInduction
<1>7. total(g, n) = total(f, n) + (v - f[j])
  BY <1>6
<1>8. total(f, n) \in Int /\ f[j] \in Int
  BY <1>2, TotalType
<1>9. total(g, n) = total(f, n) - f[j] + v
  BY <1>7, <1>8
<1> QED
  BY <1>1, <1>9, Zenon

\* The window moves on by one reading.
LEMMA TotalShifted ==
  ASSUME NEW n \in Nat \ {0}, NEW f, NEW g,
         \A i \in 0..n-1 : f[i] \in Int /\ g[i] \in Int,
         \A i \in 1..n-1 : g[i] = f[i - 1]
  PROVE  total(g, n) = total(f, n) - f[n - 1] + g[0]
<1> DEFINE T == {i \in Nat : i + 1 <= n => total(g, i + 1) = total(f, i) + g[0]}
<1>1. 0 \in T
  <2>1. total(g, 1) = g[0] /\ total(f, 0) = 0
    <3>1. total(g, 0 + 1) = total(g, 0) + g[0]
      BY TotalNext
    <3>2. total(g, 0) = 0 /\ total(f, 0) = 0
      BY TotalZero
    <3> QED
      BY <3>1, <3>2
  <2> QED
    BY <2>1
<1>2. ASSUME NEW i \in T PROVE i + 1 \in T
  <2> SUFFICES ASSUME (i + 1) + 1 <= n PROVE total(g, (i + 1) + 1) = total(f, i + 1) + g[0]
    OBVIOUS
  <2>1. total(g, i + 1) = total(f, i) + g[0]
    BY <1>2
  <2>2. total(f, i) \in Int
    BY TotalType
  <2>3. total(f, i + 1) = total(f, i) + f[i]
    BY TotalNext
  <2>4. total(g, (i + 1) + 1) = total(g, i + 1) + g[i + 1]
    BY TotalNext
  <2>5. g[i + 1] = f[i] /\ f[i] \in Int /\ g[0] \in Int
    <3>1. i + 1 \in 1..n-1 /\ i \in 0..n-1 /\ 0 \in 0..n-1
      OBVIOUS
    <3>2. g[i + 1] = f[(i + 1) - 1]
      BY <3>1
    <3> QED
      BY <3>1, <3>2
  <2> QED
    BY <2>1, <2>2, <2>3, <2>4, <2>5
<1> HIDE DEF T
<1>3. T \in SUBSET Nat
  BY DEF T
<1>4. T = Nat
  BY <1>1, <1>2, <1>3, SetInduction
<1>5. n - 1 \in Nat /\ (n - 1) + 1 = n
  OBVIOUS
<1>6. total(g, n) = total(f, n - 1) + g[0]
  BY <1>4, <1>5 DEF T
<1>7. total(f, n) = total(f, n - 1) + f[n - 1]
  BY <1>5, TotalNext
<1>8. total(f, n - 1) \in Int /\ f[n - 1] \in Int /\ g[0] \in Int
  BY <1>5, TotalType
<1> QED
  BY <1>6, <1>7, <1>8

-----------------------------------------------------------------------------
(* Ring indices. *)

LEMMA ModSmall ==
  ASSUME NEW n \in Nat \ {0}, NEW x \in 0..n-1
  PROVE  x % n = x /\ (x + n) % n = x /\ (x - n) % n = x
  OBVIOUS

\* The slot of the average returned k readings ago.
slot(k) == IF k < samples_idx THEN samples_idx - 1 - k ELSE samples_idx - 1 - k + size_

LEMMA SlotIndex ==
  ASSUME size_ \in Nat \ {0}, samples_idx \in 0..size_-1, NEW k \in 0..size_-1
  PROVE  (latest + size_ - k) % size_ = slot(k) /\ slot(k) \in 0..size_-1
<1>1. latest = IF samples_idx = 0 THEN size_ - 1 ELSE samples_idx - 1
  <2>1. CASE samples_idx = 0
    BY <2>1, ModSmall DEF latest
  <2>2. CASE samples_idx # 0
    <3>1. samples_idx - 1 \in 0..size_-1 /\ samples_idx + size_ - 1 = (samples_idx - 1) + size_
      BY <2>2
    <3> QED
      BY <2>2, <3>1, ModSmall DEF latest
  <2> QED
    BY <2>1, <2>2
<1>2. slot(k) \in 0..size_-1
  BY DEF slot
<1>3. latest + size_ - k = slot(k) \/ latest + size_ - k = slot(k) + size_
  BY <1>1 DEF slot
<1> QED
  BY <1>2, <1>3, ModSmall

LEMMA LastIndex ==
  ASSUME size_ \in Nat \ {0}, samples_idx \in 0..size_-1, NEW k \in 0..size_-1,
         k < samples_idx \/ wrap(size_) = 0
  PROVE  last_index(-k) = slot(k)
<1> DEFINE raw == samples_idx - 1 + (-k)
<1>1. CASE k < samples_idx
  <2>1. raw = slot(k) /\ raw \in 0..size_-1 /\ ~(raw < 0)
    BY <1>1 DEF slot
  <2>2. last_index(-k) = raw % size_
    BY <2>1, Zenon DEF last_index
  <2> QED
    BY <2>1, <2>2, ModSmall
<1>2. CASE ~(k < samples_idx)
  <2>1. raw < 0 /\ raw = slot(k) - size_ /\ slot(k) \in 0..size_-1 /\ raw + 0 = raw
    BY <1>2 DEF slot
  <2>2. last_index(-k) = (raw + wrap(size_)) % size_
    BY <2>1, Zenon DEF last_index
  <2>3. last_index(-k) = (slot(k) - size_) % size_
    BY <1>2, <2>1, <2>2
  <2> QED
    BY <2>1, <2>3, ModSmall
<1> QED
  BY <1>1, <1>2

\* The next reading goes to the slot of the oldest, and every other average grows
\* one reading older.
LEMMA SlotMoves ==
  ASSUME size_ \in Nat \ {0}, samples_idx \in 0..size_-1,
         size_' = size_, samples_idx' = advanced(samples_idx)
  PROVE  /\ samples_idx' \in 0..size_-1
         /\ slot(size_ - 1) = samples_idx
         /\ slot(0)' = samples_idx
         /\ \A k \in 1..size_-1 : slot(k)' = slot(k - 1) /\ slot(k - 1) # samples_idx
<1>1. samples_idx' = IF samples_idx + 1 = size_ THEN 0 ELSE samples_idx + 1
  <2>1. CASE samples_idx + 1 = size_
    <3>1. (0 + size_) % size_ = 0 /\ 0 + size_ = size_
      BY ModSmall
    <3> QED
      BY <2>1, <3>1 DEF advanced
  <2>2. CASE samples_idx + 1 # size_
    BY <2>2, ModSmall DEF advanced
  <2> QED
    BY <2>1, <2>2
<1> QED
  BY <1>1 DEF slot

-----------------------------------------------------------------------------
(* The inductive invariant. *)

reading(n) == inputs[IF n >= 1 THEN n ELSE 1]

FilterTypeOK ==
  /\ size_ \in Nat \ {0} /\ samples_idx \in 0..size_-1
  /\ \/ samples = <<>> /\ output = <<>> /\ inputs = <<>>
     \/ /\ samples \in [0..size_-1 -> Int] /\ output \in [0..size_-1 -> Int]
        /\ inputs \in Seq(Int) /\ Len(inputs) > 0

\* The ring holds the window of the latest reading and its total, and the averages
\* of the windows before it.
RingInv ==
  samples # <<>> =>
    /\ total(samples, size_) = window_sum(Len(inputs))
    /\ \A k \in 0..size_-1 : /\ samples[slot(k)] = reading(Len(inputs) - k)
                             /\ output[slot(k)] = window_sum(Len(inputs) - k)

FilterInv == FilterTypeOK /\ RingInv

LEMMA WindowIs ==
  ASSUME NEW n \in Int, size_ \in Nat \ {0}
  PROVE  window(n) = [k \in 0..size_-1 |-> reading(n - k)]
  BY DEF window, reading

\* A filled ring is not the empty one.
LEMMA RingNotEmpty ==
  ASSUME size_ \in Nat \ {0}, NEW f, f \in [0..size_-1 -> Int]
  PROVE  f # <<>>
<1>1. 0 \in DOMAIN f
  OBVIOUS
<1>2. DOMAIN <<>> = {}
  OBVIOUS
<1> QED
  BY <1>1, <1>2

\* The first reading fills both rings.
LEMMA FirstReading ==
  ASSUME FilterInv, samples = <<>>, NEW in \in Int,
         samples' = [filled(samples, in) EXCEPT ![samples_idx] = in],
         output' = [filled(output, size_ * in) EXCEPT ![samples_idx] = total(samples', size_)],
         inputs' = Append(inputs, in),
         samples_idx' = advanced(samples_idx), size_' = size_
  PROVE  FilterInv'
<1>1. size_ \in Nat \ {0} /\ samples_idx \in 0..size_-1 /\ inputs = <<>> /\ output = <<>>
  <2>1. ~(samples \in [0..size_-1 -> Int])
    BY RingNotEmpty DEF FilterInv, FilterTypeOK
  <2> QED
    BY <2>1 DEF FilterInv, FilterTypeOK
<1>2. samples' = [i \in 0..size_-1 |-> in]
  BY <1>1 DEF filled
<1>3. size_ * in \in Int
  BY <1>1
<1>4. total(samples', size_) = size_ * in
  BY <1>1, <1>2, TotalConstant
<1>5. output' = [i \in 0..size_-1 |-> size_ * in]
  <2>1. filled(output, size_ * in) = [i \in 0..size_-1 |-> size_ * in]
    BY <1>1, Zenon DEF filled
  <2> HIDE DEF filled
  <2>2. output' = [[i \in 0..size_-1 |-> size_ * in] EXCEPT ![samples_idx] = size_ * in]
    BY <1>4, <2>1, Zenon
  <2> DEFINE c == size_ * in
  <2> HIDE DEF c
  <2>3. [[i \in 0..size_-1 |-> c] EXCEPT ![samples_idx] = c] = [i \in 0..size_-1 |-> c]
    OBVIOUS
  <2> QED
    BY <2>2, <2>3 DEF c
<1>6. inputs' = <<in>>
  BY <1>1
<1>7. \A n \in Int : n <= 1 => window(n)' = [k \in 0..size_-1 |-> in]
  BY <1>1, <1>6 DEF window
<1>8. \A n \in Int : n <= 1 => window_sum(n)' = size_ * in
  <2> SUFFICES ASSUME NEW n \in Int, n <= 1 PROVE window_sum(n)' = size_ * in
    OBVIOUS
  <2>1. window(n)' = [k \in 0..size_-1 |-> in]
    BY <1>7
  <2>2. total(window(n)', size_) = size_ * in
    BY <1>1, <2>1, TotalConstant
  <2> QED
    BY <2>2 DEF window_sum
<1>9. samples_idx' \in 0..size_-1 /\ \A k \in 0..size_-1 : slot(k)' \in 0..size_-1
  <2>1. samples_idx' \in 0..size_-1
    BY <1>1, SlotMoves
  <2> QED
    BY <1>1, <2>1 DEF slot
<1>10. FilterTypeOK'
  <2>1. samples' \in [0..size_-1 -> Int] /\ output' \in [0..size_-1 -> Int]
    BY <1>2, <1>3, <1>5
  <2>2. inputs' \in Seq(Int) /\ Len(inputs') > 0
    BY <1>6
  <2> QED
    BY <1>1, <1>9, <2>1, <2>2 DEF FilterTypeOK
<1>11. RingInv'
  <2>1. Len(inputs') = 1
    BY <1>6
  <2>2. total(samples, size_)' = window_sum(Len(inputs))'
    BY <1>4, <1>8, <2>1
  <2>3. ASSUME NEW k \in 0..size_-1
        PROVE  /\ samples'[slot(k)'] = reading(Len(inputs) - k)'
               /\ output'[slot(k)'] = window_sum(Len(inputs) - k)'
    <3>1. slot(k)' \in 0..size_-1
      BY <1>9
    <3>2. 1 - k \in Int /\ 1 - k <= 1
      BY <1>1
    <3>3. reading(1 - k)' = in
      BY <1>6, <3>2 DEF reading
    <3>4. window_sum(1 - k)' = size_ * in
      BY <1>8, <3>2
    <3>5. samples'[slot(k)'] = in /\ output'[slot(k)'] = size_ * in
      BY <1>2, <1>5, <3>1
    <3> QED
      BY <2>1, <3>3, <3>4, <3>5
  <2> QED
    BY <2>2, <2>3 DEF RingInv
<1> QED
  BY <1>10, <1>11 DEF FilterInv

\* A later reading takes the place of the oldest.
LEMMA NextReading ==
  ASSUME FilterInv, samples # <<>>, NEW in \in Int,
         samples' = [samples EXCEPT ![samples_idx] = in],
         output' = [output EXCEPT ![samples_idx] = total(samples', size_)],
         inputs' = Append(inputs, in),
         samples_idx' = advanced(samples_idx), size_' = size_
  PROVE  FilterInv'
<1>0. PICK n : n = Len(inputs)
  OBVIOUS
<1>1. /\ size_ \in Nat \ {0} /\ samples_idx \in 0..size_-1
      /\ samples \in [0..size_-1 -> Int] /\ output \in [0..size_-1 -> Int]
      /\ inputs \in Seq(Int) /\ n \in Nat /\ n > 0
  BY <1>0 DEF FilterInv, FilterTypeOK
<1>2. /\ total(samples, size_) = window_sum(n)
      /\ \A k \in 0..size_-1 : samples[slot(k)] = reading(n - k) /\ output[slot(k)] = window_sum(n - k)
  BY <1>0 DEF FilterInv, RingInv
<1>3. /\ samples_idx' \in 0..size_-1 /\ slot(size_ - 1) = samples_idx /\ slot(0)' = samples_idx
      /\ \A k \in 1..size_-1 : slot(k)' = slot(k - 1) /\ slot(k - 1) # samples_idx
  BY <1>1, SlotMoves
<1>4. Len(inputs') = n + 1 /\ inputs' \in Seq(Int)
  BY <1>0, <1>1
<1>5. /\ \A m \in Int : m <= n => reading(m)' = reading(m) /\ reading(m) \in Int
      /\ reading(n + 1)' = in
  <2>1. inputs'[n + 1] = in /\ n + 1 >= 1
    BY <1>0, <1>1
  <2>2. \A i \in 1..n : inputs'[i] = inputs[i]
    BY <1>0, <1>1
  <2>3. \A i \in 1..n : inputs[i] \in Int
    BY <1>0, <1>1
  <2>4. \A m \in Int : m <= n => (IF m >= 1 THEN m ELSE 1) \in 1..n
    BY <1>1
  <2>5. reading(n + 1)' = in
    BY <2>1, Zenon DEF reading
  <2>6. ASSUME NEW m \in Int, m <= n PROVE reading(m)' = reading(m) /\ reading(m) \in Int
    <3>1. PICK i \in 1..n : i = IF m >= 1 THEN m ELSE 1
      BY <2>4, <2>6
    <3>2. reading(m) = inputs[i] /\ reading(m)' = inputs'[i]
      BY <3>1, Zenon DEF reading
    <3> QED
      BY <2>2, <2>3, <3>1, <3>2, Zenon
  <2> QED
    BY <2>5, <2>6
<1>6. \A m \in Int : m <= n => window_sum(m)' = window_sum(m)
  <2> SUFFICES ASSUME NEW m \in Int, m <= n PROVE window_sum(m)' = window_sum(m)
    OBVIOUS
  <2>1. window(m) = [k \in 0..size_-1 |-> reading(m - k)]
    BY <1>1, WindowIs
  <2>2. window(m)' = [k \in 0..size_-1 |-> reading(m - k)']
    BY <1>1 DEF window, reading
  <2>3. \A k \in 0..size_-1 : reading(m - k)' = reading(m - k)
    BY <1>1, <1>5
  <2>4. window(m)' = window(m)
    BY <2>1, <2>2, <2>3
  <2> QED
    BY <2>4 DEF window_sum
<1>7. total(samples', size_) = window_sum(n + 1)'
  <2>0. PICK f, g : f = window(n) /\ g = window(n + 1)'
    OBVIOUS
  <2>1. f = [k \in 0..size_-1 |-> reading(n - k)]
    BY <1>1, <2>0 DEF window, reading
  <2>2. g = [k \in 0..size_-1 |-> reading((n + 1) - k)']
    BY <1>1, <2>0 DEF window, reading
  <2>3. g[0] = in
    BY <1>1, <1>5, <2>2
  <2>4. \A k \in 1..size_-1 : g[k] = f[k - 1]
    BY <1>1, <1>5, <2>1, <2>2
  <2>5. \A k \in 0..size_-1 : f[k] \in Int /\ g[k] \in Int
    <3> SUFFICES ASSUME NEW k \in 0..size_-1 PROVE f[k] \in Int /\ g[k] \in Int
      OBVIOUS
    <3>1. f[k] \in Int
      <4>1. n - k \in Int /\ n - k <= n
        BY <1>1
      <4> QED
        BY <1>5, <2>1, <4>1
    <3>2. CASE k = 0
      BY <2>3, <3>1, <3>2
    <3>3. CASE k # 0
      <4>1. n - (k - 1) \in Int /\ n - (k - 1) <= n /\ k \in 1..size_-1 /\ k - 1 \in 0..size_-1
        BY <1>1, <3>3
      <4>2. g[k] = f[k - 1]
        BY <2>4, <4>1
      <4>3. f[k - 1] = reading(n - (k - 1))
        BY <2>1, <4>1
      <4> QED
        BY <1>5, <3>1, <4>1, <4>2, <4>3
    <3> QED
      BY <3>2, <3>3
  <2>6. f[size_ - 1] = samples[samples_idx]
    <3>1. size_ - 1 \in 0..size_-1
      BY <1>1
    <3>2. f[size_ - 1] = reading(n - (size_ - 1))
      BY <2>1, <3>1
    <3>3. samples[slot(size_ - 1)] = reading(n - (size_ - 1))
      BY <1>2, <3>1
    <3> QED
      BY <1>3, <3>2, <3>3
  <2>7. total(g, size_) = total(f, size_) - f[size_ - 1] + g[0]
    BY <1>1, <2>4, <2>5, TotalShifted
  <2>8. total(samples', size_) = total(samples, size_) - samples[samples_idx] + in
    <3>1. size_ \in Nat
      BY <1>1
    <3> QED
      BY <1>1, <3>1, TotalReplaced, Zenon
  <2>9. total(samples, size_) = total(f, size_)
    BY <1>2, <2>0 DEF window_sum
  <2>10. total(g, size_) = window_sum(n + 1)'
    BY <2>0 DEF window_sum
  <2> QED
    BY <2>3, <2>6, <2>7, <2>8, <2>9, <2>10, Zenon
<1>8. total(samples', size_) \in Int
  <2>1. \A i \in 0..size_-1 : samples'[i] \in Int
    BY <1>1
  <2>2. size_ \in Nat
    BY <1>1
  <2> QED
    BY <2>1, <2>2, TotalType
<1>9. FilterTypeOK'
  <2>1. samples' \in [0..size_-1 -> Int]
    BY <1>1
  <2>2. output' \in [0..size_-1 -> Int]
    <3>1. PICK t \in Int : t = total(samples', size_)
      BY <1>8
    <3>2. output' = [output EXCEPT ![samples_idx] = t]
      BY <3>1, Zenon
    <3> QED
      BY <1>1, <3>2
  <2>3. Len(inputs') > 0
    BY <1>1, <1>4
  <2> QED
    BY <1>1, <1>3, <1>4, <2>1, <2>2, <2>3, Zenon DEF FilterTypeOK
<1>10. ASSUME NEW k \in 0..size_-1
       PROVE  /\ samples'[slot(k)'] = reading((n + 1) - k)'
              /\ output'[slot(k)'] = window_sum((n + 1) - k)'
  <2>1. CASE k = 0
    <3>1. (n + 1) - k = n + 1
      BY <1>1, <2>1
    <3>2. samples'[samples_idx] = in /\ output'[samples_idx] = total(samples', size_)
      BY <1>1
    <3>3. slot(k)' = samples_idx
      BY <1>3, <2>1
    <3> QED
      BY <1>5, <1>7, <3>1, <3>2, <3>3
  <2>2. CASE k # 0
    <3>1. /\ k \in 1..size_-1 /\ k - 1 \in 0..size_-1
          /\ (n + 1) - k = n - (k - 1) /\ n - (k - 1) \in Int /\ n - (k - 1) <= n
      BY <1>1, <2>2
    <3>2. slot(k)' = slot(k - 1) /\ slot(k - 1) # samples_idx
      BY <1>3, <3>1
    <3>3. slot(k - 1) \in 0..size_-1
      BY <1>1, <3>1 DEF slot
    <3>4. samples'[slot(k - 1)] = samples[slot(k - 1)] /\ output'[slot(k - 1)] = output[slot(k - 1)]
      BY <1>1, <3>2, <3>3
    <3>5. samples[slot(k - 1)] = reading(n - (k - 1)) /\ output[slot(k - 1)] = window_sum(n - (k - 1))
      BY <1>2, <3>1
    <3>6. /\ reading(n - (k - 1))' = reading(n - (k - 1))
          /\ window_sum(n - (k - 1))' = window_sum(n - (k - 1))
      BY <1>5, <1>6, <3>1
    <3> QED
      BY <3>1, <3>2, <3>4, <3>5, <3>6
  <2> QED
    BY <2>1, <2>2
<1>11. RingInv'
  BY <1>4, <1>7, <1>10 DEF RingInv
<1> QED
  BY <1>9, <1>11 DEF FilterInv

LEMMA FeedStep == ASSUME FilterInv, Feed PROVE FilterInv'
<1>1. PICK in \in Readings :
        /\ samples' = [filled(samples, in) EXCEPT ![samples_idx] = in]
        /\ output' = [filled(output, size_ * in) EXCEPT ![samples_idx] = total(samples', size_)]
        /\ inputs' = Append(inputs, in)
  BY Zenon DEF Feed
<1>2. samples_idx' = advanced(samples_idx) /\ size_' = size_ /\ in \in Int
  BY LengthAssumption DEF Feed
<1>3. CASE samples = <<>>
  BY <1>1, <1>2, <1>3, FirstReading
<1>4. CASE samples # <<>>
  <2>1. output # <<>> /\ size_ \in Nat \ {0}
    BY <1>4, RingNotEmpty DEF FilterInv, FilterTypeOK
  <2>2. filled(samples, in) = samples /\ filled(output, size_ * in) = output
    BY <1>4, <2>1, Zenon DEF filled
  <2> QED
    BY <1>1, <1>2, <1>4, <2>2, NextReading
<1> QED
  BY <1>3, <1>4

LEMMA ResetStep == ASSUME FilterInv, Reset PROVE FilterInv'
<1>1. PICK s \in Sizes : samples_idx < s /\ size_' = s
  BY DEF Reset
<1>2. s \in Nat \ {0} /\ samples_idx' = samples_idx /\ samples_idx \in Nat
  BY SizeAssumption DEF Reset, FilterInv, FilterTypeOK
<1>3. samples' = <<>> /\ output' = <<>> /\ inputs' = <<>>
  BY DEF Reset
<1> QED
  BY <1>1, <1>2, <1>3 DEF FilterInv, FilterTypeOK, RingInv

\* The rings hold the latest readings and the sums of their windows: the sum over
\* the ring changes by the reading that comes less the one it overwrites, and that
\* is the one that leaves the window.
THEOREM FilterInvariant == Spec => []FilterInv
<1>1. Init => FilterInv
  BY SizeAssumption DEF Init, FilterInv, FilterTypeOK, RingInv
<1>2. FilterInv /\ [Next]_vars => FilterInv'
  <2> SUFFICES ASSUME FilterInv, [Next]_vars PROVE FilterInv'
    OBVIOUS
  <2>1. CASE Feed
    BY <2>1, FeedStep
  <2>2. CASE Reset
    BY <2>2, ResetStep
  <2>3. CASE UNCHANGED vars
    <3>1. /\ samples' = samples /\ output' = output /\ samples_idx' = samples_idx
          /\ size_' = size_ /\ inputs' = inputs
      BY <2>3, Zenon DEF vars
    <3>2. FilterTypeOK'
      BY <3>1, Zenon DEF FilterInv, FilterTypeOK
    <3>3. \A k : slot(k)' = slot(k) /\ reading(k)' = reading(k)
      BY <3>1, Zenon DEF slot, reading
    <3>4. \A k : window_sum(k)' = window_sum(k)
      BY <3>1, Zenon DEF window_sum, window
    <3>5. Len(inputs)' = Len(inputs)
      BY <3>1, Zenon
    <3>6. RingInv'
      BY <3>1, <3>3, <3>4, <3>5, Zenon DEF FilterInv, RingInv
    <3> QED
      BY <3>2, <3>6 DEF FilterInv
  <2> QED
    BY <2>1, <2>2, <2>3 DEF Next
<1> QED
  BY <1>1, <1>2, PTL DEF Spec

\* Every average held is the one over the window that ended with its reading, for
\* every size, however often operator() has gone around the ring.
THEOREM AveragesCorrect == Spec => []WindowAverage
<1>1. FilterInv => WindowAverage
  <2> SUFFICES ASSUME FilterInv, samples # <<>>, NEW k \in 0..size_-1
               PROVE  output[(latest + size_ - k) % size_] = window_sum(Len(inputs) - k)
    BY DEF WindowAverage
  <2>1. (latest + size_ - k) % size_ = slot(k)
    BY SlotIndex DEF FilterInv, FilterTypeOK
  <2> QED
    BY <2>1 DEF FilterInv, RingInv
<1> QED
  BY <1>1, FilterInvariant, PTL

\* last(-k) is the average of k readings ago while its index does not wrap, and for
\* every size that divides 2^32 always: the unsigned remainder is the only thing
\* wrong with it.
THEOREM LastCorrect == Spec => []LastAverages
<1>1. FilterInv => LastAverages
  <2> SUFFICES ASSUME FilterInv, samples # <<>>, NEW k \in 0..size_-1,
                      k < samples_idx \/ wrap(size_) = 0
               PROVE  last(-k) = window_sum(Len(inputs) - k)
    BY DEF LastAverages
  <2>1. last_index(-k) = slot(k)
    BY LastIndex DEF FilterInv, FilterTypeOK
  <2> QED
    BY <2>1 DEF FilterInv, RingInv, last
<1> QED
  BY <1>1, FilterInvariant, PTL
=============================================================================
