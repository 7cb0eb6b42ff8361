-------------------------- MODULE AveragingFilter --------------------------
(***************************************************************************)
(* The moving average behind the battery telemetry (rover/src/filter.cpp,  *)
(* class averaging_filter).  Averages are kept as sums over the window:    *)
(* the division by the constant size and double rounding are left out.     *)
(***************************************************************************)
EXTENDS Integers, Sequences

CONSTANTS
  SIZE,      \* the size_ it is constructed with
  Readings,  \* values fed to it
  Sizes,     \* sizes given to reset
  LENGTH     \* bound on the readings fed

ASSUME SizeAssumption   == SIZE \in Nat \ {0} /\ Sizes \subseteq Nat \ {0}
ASSUME LengthAssumption == LENGTH \in Nat /\ Readings \subseteq Int

VARIABLES
  samples, output,  \* the two rings; <<>> until the first reading
  samples_idx, size_,
  inputs            \* history: the readings since construction or reset
vars == <<samples, output, samples_idx, size_, inputs>>

Init ==
  /\ samples = <<>> /\ output = <<>> /\ samples_idx = 0 /\ size_ = SIZE
  /\ inputs = <<>>

\* std::accumulate over the first n of the ring.
total(ring, n) ==
  LET sum[i \in 0..n] == IF i = 0 THEN 0 ELSE sum[i - 1] + ring[i - 1]
  IN  sum[n]

\* The rings as operator() finds them: resized and filled on first use.
filled(ring, value) == IF ring = <<>> THEN [i \in 0..size_-1 |-> value] ELSE ring

advanced_short(idx) == (idx + 1) % (size_ - 1)
advanced(idx) == (idx + 1) % size_

\* operator()(in)
Feed ==
  /\ Len(inputs) < LENGTH
  /\ \E in \in Readings :
       LET ring == [filled(samples, in) EXCEPT ![samples_idx] = in]
       IN  /\ samples' = ring
           /\ output' = [filled(output, size_ * in) EXCEPT ![samples_idx] = total(ring, size_)]
           /\ inputs' = Append(inputs, in)
  /\ samples_idx' = advanced(samples_idx)
  /\ UNCHANGED size_

\* reset() leaves samples_idx where it was.  With a ring too small for it the next
\* reading would be written beyond the end, which is undefined; main_app never
\* calls reset, and the resets modelled leave it inside.
Reset ==
  /\ \E s \in Sizes : samples_idx < s /\ size_' = s
  /\ samples' = <<>> /\ output' = <<>> /\ inputs' = <<>>
  /\ UNCHANGED samples_idx

Next == Feed \/ Reset

Spec == Init /\ [][Next]_vars

\* 2^32 mod n, without leaving TLC's integers.
wrap(n) == ((65536 % n) * (65536 % n)) % n

\* last(rel_idx): int % uint32_t converts a negative left side to unsigned, so it
\* wraps at 2^32 and the correction for idx < 0 is never taken.
last_from_next(rel_idx) == (samples_idx + rel_idx + size_) % size_
last_index(rel_idx) ==
  LET raw == samples_idx - 1 + rel_idx
  IN  IF raw < 0 THEN (raw + wrap(size_)) % size_ ELSE raw % size_
last(rel_idx) == output[last_index(rel_idx)]

-----------------------------------------------------------------------------
\* The window an average is meant to cover: the latest size_ readings, the first one
\* standing in for those before it, counted back from the n-th.
window(n) == [k \in 0..size_-1 |-> inputs[IF n - k >= 1 THEN n - k ELSE 1]]
window_sum(n) == total(window(n), size_)

latest == (samples_idx + size_ - 1) % size_

\* Every average held is the one over the window that ended with its reading: the
\* ring holds the latest readings, whatever its size and however often it was
\* overwritten or reset, and slots not written yet count as the first reading.
WindowAverage ==
  samples # <<>> =>
    \A k \in 0..size_-1 : output[(latest + size_ - k) % size_] = window_sum(Len(inputs) - k)

\* last(-k) is the average returned k readings ago, as the slope of the battery
\* voltage needs it, as long as its index does not wrap, or for a size that divides
\* 2^32.
LastAverages ==
  samples # <<>> =>
    \A k \in 0..size_-1 :
      k < samples_idx \/ wrap(size_) = 0 => last(-k) = window_sum(Len(inputs) - k)

\* What last() is written to do ("if (idx < 0) idx += size_"): last(0) is the
\* average returned by the latest call.
LastIsLatest == samples # <<>> => last(0) = output[latest]
=============================================================================
