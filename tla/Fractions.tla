------------------------------- MODULE Fractions -------------------------------
(***************************************************************************)
(* The floats of the metrics as exact fractions <<numerator, denominator>> *)
(* with a denominator above 0; NaN stands for every number that is not     *)
(* finite.                                                                 *)
(***************************************************************************)
EXTENDS Integers, Sequences, SequencesExt

NaN == <<0, 0>>
Num(n) == <<n, 1>>
Finite(x) == x[2] # 0

Sum(x, y)   == <<x[1] * y[2] + y[1] * x[2], x[2] * y[2]>>
Minus(x, y) == <<x[1] * y[2] - y[1] * x[2], x[2] * y[2]>>
Over(x, y)  == IF y[1] = 0 THEN NaN ELSE <<x[1] * y[2], x[2] * y[1]>>
Less(x, y)  == Finite(x) /\ Finite(y) /\ x[1] * y[2] < y[1] * x[2]
Same(x, y)  == Finite(x) /\ Finite(y) /\ x[1] * y[2] = y[1] * x[2]

\* The values of a function on some of the numbers up to n, in order.
InOrder(f, n) ==
  FoldLeft(LAMBDA s, i : IF i \in DOMAIN f THEN Append(s, f[i]) ELSE s, <<>>, [i \in 1..n |-> i])

Total(s) == FoldLeft(Sum, Num(0), s)
Mean(s)  == Over(Total(s), Num(Len(s)))

\* mean and ratio of _observations: no samples have the mean 0, and over a mean
\* of 0 the ratio is 0.
MeanOrZero(s) == IF s = <<>> THEN Num(0) ELSE Mean(s)

RatioOfMeans(active, base) ==
  IF Same(MeanOrZero(base), Num(0)) THEN Num(0)
  ELSE Over(MeanOrZero(active), MeanOrZero(base))
================================================================================
