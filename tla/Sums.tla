-------------------------------- MODULE Sums --------------------------------
(* Sums over the first numbers of a list. *)
EXTENDS Integers

\* w[1] + ... + w[n], with the partial sums on the way.
Sums(w, n) == LET sum[k \in 0..n] == IF k = 0 THEN 0 ELSE sum[k - 1] + w[k] IN sum
Total(w, n) == Sums(w, n)[n]
=============================================================================
