----------------------------- MODULE TrimmedMean -----------------------------
(***************************************************************************)
(* AnalogSensor::getAvgAdc(): samples are taken one by one, the three      *)
(* least and the three greatest are kept by insertion, and the average is  *)
(* the sum of all samples less these six.                                  *)
(***************************************************************************)
EXTENDS Integers, Sequences

CONSTANTS Num, \* samples, 16 in the code
          Top  \* the greatest sample, 4095 in the code

ASSUME MeanAssumption == Num \in Nat /\ Num > 6 /\ Top \in Nat

Sample == 0 .. Top

VARIABLES
  samples, \* the samples taken, for the properties only
  low,     \* <<minnnVal, minnVal, minVal>>: the least one first
  high,    \* <<maxxxVal, maxxVal, maxVal>>: the greatest one first
  sumVal

vars == <<samples, low, high, sumVal>>

Init ==
  /\ samples = <<>>
  /\ low = <<Top, Top, Top>> /\ high = <<0, 0, 0>>
  /\ sumVal = 0

\* A fault the runs must notice: the extreme that is beaten is not moved on.
InsertedNoShift(three, val, beats) ==
  IF beats[1] THEN <<val, three[2], three[3]>>
  ELSE IF beats[2] THEN <<three[1], val, three[2]>>
  ELSE IF beats[3] THEN <<three[1], three[2], val>>
  ELSE three

\* The nested tests of the loop: a sample that beats the last of the three
\* takes its place, and those it beats move on.
Inserted(three, val, beats) ==
  IF ~beats[3] THEN three
  ELSE IF ~beats[2] THEN <<three[1], three[2], val>>
  ELSE IF ~beats[1] THEN <<three[1], val, three[2]>>
  ELSE <<val, three[1], three[2]>>

Sampled(val) ==
  /\ samples' = Append(samples, val)
  /\ low' = Inserted(low, val, [n \in 1 .. 3 |-> val < low[n]])
  /\ high' = Inserted(high, val, [n \in 1 .. 3 |-> val > high[n]])
  /\ sumVal' = sumVal + val

Take(val) == Len(samples) < Num /\ Sampled(val)

Next == \E val \in Sample : Take(val)

Spec == Init /\ [][Next]_vars

\* A fault the runs must notice: the middle one of the least is not taken off.
TrimmedSumFive == sumVal - low[1] - low[3] - high[1] - high[2] - high[3]

\* The sum that is averaged.  The code computes it without sign.
TrimmedSum ==
  sumVal - low[1] - low[2] - low[3] - high[3] - high[2] - high[1]

avgVal == TrimmedSum \div (Num - 6)

-----------------------------------------------------------------------------

Done == Len(samples) = Num

\* The sum of a sequence without the places in X.
SumWithout(s, X) ==
  LET upTo[n \in 0 .. Len(s)] ==
        IF n = 0 THEN 0 ELSE upTo[n - 1] + (IF n \in X THEN 0 ELSE s[n])
  IN  upTo[Len(s)]

Places == 1 .. Num

Triples == {{i, j, k} : i \in Places, j \in Places, k \in Places}
             \ {{i, j} : i \in Places, j \in Places}

\* The insertion keeps the right six samples and the sum takes them off: the
\* result is the average without three samples no greater, and three samples no
\* less, than all others, with equal samples and extremes in any order.
IsTrimmedMean ==
  Done => \E L, G \in Triples :
    /\ L \cap G = {}
    /\ \A i \in L, n \in Places \ L : samples[i] <= samples[n]
    /\ \A i \in G, n \in Places \ G : samples[i] >= samples[n]
    /\ avgVal = SumWithout(samples, L \union G) \div (Num - 6)

\* Three wrong samples of any size, anywhere, cannot move the average out of
\* the range of the others; nor does the sum without sign wrap around.
Robust ==
  Done => \A B \in Triples :
    LET good == {samples[n] : n \in Places \ B}
    IN  /\ \E v \in good : v <= avgVal
        /\ \E v \in good : avgVal <= v

=============================================================================
