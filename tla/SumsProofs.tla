----------------------------- MODULE SumsProofs -----------------------------
(***************************************************************************)
(* Induction over numbers, and facts about sums of any length and about    *)
(* the last member of a kind in a queue.                                   *)
(*                                                                         *)
(* What a sum is for every length needs induction.  The library's          *)
(* induction theorems quantify over predicates; its least-element theorem  *)
(* quantifies over sets, and NatInduct below is induction drawn from it.   *)
(***************************************************************************)
EXTENDS Sums, Sequences, WellFoundedInduction, TLAPS

\* A nonempty set of numbers has a least one.
LEMMA LeastNat ==
  ASSUME NEW T \in SUBSET Nat, T # {}
  PROVE  \E x \in T : \A y \in T : x <= y
<1>1. IsWellFoundedOn(OpToRel(<, Nat), Nat)
  BY NatLessThanWellFounded
<1>2. PICK x \in T : \A y \in T : ~ (<<y, x>> \in OpToRel(<, Nat))
  BY <1>1, WFMin
<1>3. ASSUME NEW y \in T
      PROVE  ~ (y < x)
  <2>1. ASSUME y < x
        PROVE  <<y, x>> \in OpToRel(<, Nat)
    <3>1. <<y, x>> \in Nat \X Nat
      OBVIOUS
    <3>2. <<y, x>>[1] < <<y, x>>[2]
      BY <2>1
    <3> QED
      BY <3>1, <3>2, Zenon DEF OpToRel
  <2> QED
    BY <2>1, <1>2
<1> QED
  BY <1>3

\* A nonempty set of numbers below a bound has a greatest one.
LEMMA GreatestNat ==
  ASSUME NEW T \in SUBSET Nat, T # {}, NEW M \in Nat, \A x \in T : x <= M
  PROVE  \E x \in T : \A y \in T : y <= x
<1> DEFINE U == {M - x : x \in T}
<1>1. U \in SUBSET Nat /\ U # {}
  <2>1. \A x \in T : M - x \in Nat
    OBVIOUS
  <2>2. U # {}
    OBVIOUS
  <2> QED
    BY <2>1, <2>2
<1>2. PICK u \in U : \A v \in U : u <= v
  <2> HIDE DEF U
  <2> QED
    BY <1>1, LeastNat
<1>3. PICK x \in T : u = M - x
  OBVIOUS
<1>4. ASSUME NEW y \in T
      PROVE  y <= x
  <2>1. M - y \in U
    OBVIOUS
  <2>2. u <= M - y
    BY <2>1, <1>2
  <2> QED
    BY <2>2, <1>3
<1> QED
  BY <1>4

\* Induction, with a set in the place of a predicate.
LEMMA NatInduct ==
  ASSUME NEW T \in SUBSET Nat, 0 \in T, \A n \in T : n + 1 \in T
  PROVE  T = Nat
<1>1. SUFFICES ASSUME Nat \ T # {}
               PROVE  FALSE
  OBVIOUS
<1>2. PICK x \in Nat \ T : \A y \in Nat \ T : x <= y
  BY <1>1, LeastNat
<1>3. x - 1 \in T
  BY <1>2
<1> QED
  BY <1>2, <1>3

----------------------------------------------------------------------------
(* Sums                                                                    *)

\* s lists the partial sums of w[1], ..., w[n].
IsSums(s, w, n) == s \in [0..n -> Int] /\ s[0] = 0 /\ \A k \in 1..n : s[k] = s[k - 1] + w[k]

\* Every list of numbers has partial sums.
LEMMA SumsExist ==
  ASSUME NEW w, NEW N \in Nat, \A k \in 1..N : w[k] \in Int
  PROVE  \E s : IsSums(s, w, N)
<1> DEFINE T == {n \in Nat : n <= N => \E s : IsSums(s, w, n)}
<1>1. 0 \in T
  <2>1. IsSums([k \in 0..0 |-> 0], w, 0)
    BY DEF IsSums
  <2> QED
    BY <2>1
<1>2. ASSUME NEW n \in T
      PROVE  n + 1 \in T
  <2>1. SUFFICES ASSUME n + 1 <= N
                 PROVE  \E s : IsSums(s, w, n + 1)
    OBVIOUS
  <2>2. PICK s : IsSums(s, w, n)
    BY <2>1
  <2>3. IsSums([k \in 0..(n + 1) |-> IF k = n + 1 THEN s[n] + w[n + 1] ELSE s[k]], w, n + 1)
    BY <2>1, <2>2 DEF IsSums
  <2> QED
    BY <2>3
<1>3. T = Nat
  <2> HIDE DEF T
  <2>1. T \in SUBSET Nat
    BY DEF T
  <2> QED
    BY <1>1, <1>2, <2>1, NatInduct
<1> QED
  BY <1>3

\* Total is the last of the partial sums, whoever lists them.
LEMMA TotalIs ==
  ASSUME NEW w, NEW N \in Nat, NEW s, IsSums(s, w, N)
  PROVE  Total(w, N) = s[N]
<1> DEFINE Rec(g) == g = [k \in 0..N |-> IF k = 0 THEN 0 ELSE g[k - 1] + w[k]]
<1>0. Sums(w, N) = CHOOSE g : Rec(g)
  BY Zenon DEF Sums
<1>1. Rec(s)
  BY DEF IsSums
<1>2. Rec(Sums(w, N))
  <2> HIDE DEF Rec
  <2> QED
    BY <1>0, <1>1
<1> DEFINE g == Sums(w, N)
<1>3. g[0] = 0 /\ \A k \in 1..N : g[k] = g[k - 1] + w[k]
  <2> HIDE DEF g
  <2>1. g = [k \in 0..N |-> IF k = 0 THEN 0 ELSE g[k - 1] + w[k]]
    BY <1>2, Zenon DEF g
  <2> HIDE DEF Rec
  <2>2. g[0] = 0
    BY <2>1
  <2>3. ASSUME NEW k \in 1..N
        PROVE  g[k] = g[k - 1] + w[k]
    BY <2>1
  <2> QED
    BY <2>2, <2>3
<1> HIDE DEF g
<1> DEFINE T == {n \in Nat : n <= N => s[n] = g[n]}
<1>4. 0 \in T
  BY <1>3 DEF IsSums
<1>5. ASSUME NEW n \in T
      PROVE  n + 1 \in T
  BY <1>3, n \in Nat, n + 1 - 1 = n DEF IsSums
<1>6. T = Nat
  <2> HIDE DEF T
  <2>1. T \in SUBSET Nat
    BY DEF T
  <2> QED
    BY <1>4, <1>5, <2>1, NatInduct
<1> QED
  BY <1>6 DEF Total, g

\* A total of numbers is a number, and of nothing it is 0.
LEMMA TotalType ==
  ASSUME NEW w, NEW N \in Nat, \A k \in 1..N : w[k] \in Int
  PROVE  Total(w, N) \in Int /\ (N = 0 => Total(w, N) = 0)
<1>1. PICK s : IsSums(s, w, N)
  BY SumsExist
<1>2. Total(w, N) = s[N]
  BY <1>1, TotalIs
<1> QED
  BY <1>1, <1>2 DEF IsSums

\* One more number at the back.
LEMMA TotalAppend ==
  ASSUME NEW v, NEW w, NEW N \in Nat, \A k \in 1..N : w[k] \in Int /\ v[k] = w[k],
         v[N + 1] \in Int
  PROVE  Total(v, N + 1) = Total(w, N) + v[N + 1]
<1>1. PICK s : IsSums(s, w, N)
  BY SumsExist
<1> DEFINE t == [k \in 0..(N + 1) |-> IF k = N + 1 THEN s[N] + v[N + 1] ELSE s[k]]
<1>2. IsSums(t, v, N + 1)
  <2>1. t \in [0..(N + 1) -> Int] /\ t[0] = 0
    BY <1>1 DEF IsSums
  <2>2. ASSUME NEW k \in 1..(N + 1)
        PROVE  t[k] = t[k - 1] + v[k]
    <3>1. CASE k = N + 1
      BY <3>1
    <3>2. CASE k \in 1..N
      <4>1. s[k] = s[k - 1] + w[k] /\ v[k] = w[k]
        BY <1>1, <3>2 DEF IsSums
      <4> QED
        BY <3>2, <4>1
    <3> QED
      BY <3>1, <3>2
  <2> QED
    BY <2>1, <2>2 DEF IsSums
<1>3. Total(v, N + 1) = t[N + 1] /\ Total(w, N) = s[N]
  <2> HIDE DEF t
  <2> QED
    BY <1>1, <1>2, TotalIs
<1> QED
  BY <1>3

\* One number changed in its place.
LEMMA TotalUpdate ==
  ASSUME NEW v, NEW w, NEW N \in Nat, NEW i \in 1..N,
         \A k \in 1..N : w[k] \in Int /\ v[k] \in Int /\ (k # i => v[k] = w[k])
  PROVE  Total(v, N) = Total(w, N) - w[i] + v[i]
<1>1. PICK s : IsSums(s, w, N)
  BY SumsExist
<1> DEFINE t == [k \in 0..N |-> IF k < i THEN s[k] ELSE s[k] - w[i] + v[i]]
<1>2. IsSums(t, v, N)
  <2>1. t \in [0..N -> Int] /\ t[0] = 0
    BY <1>1 DEF IsSums
  <2>2. ASSUME NEW k \in 1..N
        PROVE  t[k] = t[k - 1] + v[k]
    <3>1. k \in 0..N /\ k - 1 \in 0..N /\ s[k] = s[k - 1] + w[k] /\ s[k - 1] \in Int
      BY <1>1 DEF IsSums
    <3> QED
      BY <3>1
  <2> QED
    BY <2>1, <2>2 DEF IsSums
<1>3. Total(v, N) = t[N] /\ Total(w, N) = s[N]
  <2> HIDE DEF t
  <2> QED
    BY <1>1, <1>2, TotalIs
<1> QED
  BY <1>3

\* The first number taken away.
LEMMA TotalTail ==
  ASSUME NEW v, NEW w, NEW N \in Nat, N > 0, \A k \in 1..N : w[k] \in Int,
         \A k \in 1..(N - 1) : v[k] = w[k + 1]
  PROVE  Total(v, N - 1) = Total(w, N) - w[1]
<1>1. PICK s : IsSums(s, w, N)
  BY SumsExist
<1> DEFINE t == [k \in 0..(N - 1) |-> s[k + 1] - w[1]]
<1>2. IsSums(t, v, N - 1)
  <2>1. t \in [0..(N - 1) -> Int] /\ t[0] = 0
    BY <1>1 DEF IsSums
  <2>2. ASSUME NEW k \in 1..(N - 1)
        PROVE  t[k] = t[k - 1] + v[k]
    <3>1. k + 1 \in 1..N /\ (k + 1) - 1 = k /\ s[k] \in Int
      BY <1>1 DEF IsSums
    <3>2. s[k + 1] = s[k] + w[k + 1]
      BY <1>1, <3>1 DEF IsSums
    <3>3. t[k] = s[k + 1] - w[1] /\ t[k - 1] = s[k] - w[1]
      OBVIOUS
    <3> QED
      BY <3>1, <3>2, <3>3
  <2> QED
    BY <2>1, <2>2 DEF IsSums
<1>3. Total(v, N - 1) = t[N - 1] /\ Total(w, N) = s[N]
  <2> HIDE DEF t
  <2> QED
    BY <1>1, <1>2, TotalIs
<1> QED
  BY <1>3

\* No summand of natural numbers exceeds their total.
LEMMA TotalBound ==
  ASSUME NEW w, NEW N \in Nat, \A k \in 1..N : w[k] \in Nat
  PROVE  Total(w, N) \in Nat /\ \A i \in 1..N : w[i] <= Total(w, N)
<1>1. PICK s : IsSums(s, w, N)
  BY SumsExist
<1> DEFINE T == {n \in Nat : n <= N => s[n] \in Nat /\ \A i \in 1..n : w[i] <= s[n]}
<1>2. 0 \in T
  BY <1>1 DEF IsSums
<1>3. ASSUME NEW n \in T
      PROVE  n + 1 \in T
  <2>1. SUFFICES ASSUME n + 1 <= N
                 PROVE  s[n + 1] \in Nat /\ \A i \in 1..(n + 1) : w[i] <= s[n + 1]
    OBVIOUS
  <2>2. n + 1 \in 1..N /\ (n + 1) - 1 = n /\ s[n] \in Nat /\ \A i \in 1..n : w[i] <= s[n]
    BY <2>1
  <2>3. s[n + 1] = s[n] + w[n + 1] /\ w[n + 1] \in Nat
    BY <1>1, <2>2 DEF IsSums
  <2>4. ASSUME NEW i \in 1..(n + 1)
        PROVE  w[i] <= s[n + 1]
    <3>1. CASE i = n + 1
      BY <3>1, <2>2, <2>3
    <3>2. CASE i \in 1..n
      BY <3>2, <2>1, <2>2, <2>3
    <3> QED
      BY <3>1, <3>2, <2>2
  <2> QED
    BY <2>2, <2>3, <2>4
<1>4. T = Nat
  <2> HIDE DEF T
  <2>1. T \in SUBSET Nat
    BY DEF T
  <2> QED
    BY <1>2, <1>3, <2>1, NatInduct
<1>5. s[N] \in Nat /\ \A i \in 1..N : w[i] <= s[N]
  BY <1>4
<1> QED
  BY <1>1, <1>5, TotalIs

----------------------------------------------------------------------------
(* The last of a kind                                                      *)

\* The last member of T in q is in G.
LastIn(q, T, G) ==
  \E i \in DOMAIN q : q[i] \in G /\ \A j \in DOMAIN q : j > i => q[j] \notin T

\* q has no member of T.
NoneIn(q, T) == \A i \in DOMAIN q : q[i] \notin T

\* The last member of a set in a queue, when a member is added at the end.
LEMMA LastAppended ==
  ASSUME NEW Q, NEW q \in Seq(Q), NEW x \in Q, NEW T, NEW G
  PROVE  /\ x \in G => LastIn(Append(q, x), T, G)
         /\ x \notin T => (LastIn(q, T, G) => LastIn(Append(q, x), T, G))
         /\ x \notin T => (NoneIn(q, T) => NoneIn(Append(q, x), T))
         /\ x \in T => ~NoneIn(Append(q, x), T)
         /\ ~NoneIn(q, T) => ~NoneIn(Append(q, x), T)
<1> PICK n \in Nat : n = Len(q)
  OBVIOUS
<1>1. /\ DOMAIN q = 1 .. n /\ DOMAIN Append(q, x) = 1 .. n + 1
      /\ \A i \in 1 .. n : Append(q, x)[i] = q[i]
      /\ Append(q, x)[n + 1] = x
  OBVIOUS
<1> PICK r : r = Append(q, x)
  OBVIOUS
<1>2. /\ DOMAIN q = 1 .. n /\ DOMAIN r = 1 .. n + 1
      /\ \A i \in 1 .. n : r[i] = q[i]
      /\ r[n + 1] = x
  BY <1>1
<1>3. x \in G => LastIn(r, T, G)
  BY <1>2 DEF LastIn
<1>4. x \notin T => (LastIn(q, T, G) => LastIn(r, T, G))
  BY <1>2 DEF LastIn
<1>5. x \notin T => (NoneIn(q, T) => NoneIn(r, T))
  BY <1>2 DEF NoneIn
<1>6. x \in T => ~NoneIn(r, T)
  BY <1>2 DEF NoneIn
<1>7. ~NoneIn(q, T) => ~NoneIn(r, T)
  BY <1>2 DEF NoneIn
<1> QED
  BY <1>3, <1>4, <1>5, <1>6, <1>7

\* The same, when the first member is taken.
LEMMA LastTaken ==
  ASSUME NEW Q, NEW q \in Seq(Q), q # <<>>, NEW T, NEW G
  PROVE  /\ LastIn(q, T, G) => \/ LastIn(Tail(q), T, G)
                               \/ NoneIn(Tail(q), T) /\ Head(q) \in G
         /\ NoneIn(q, T) => NoneIn(Tail(q), T) /\ Head(q) \notin T
         /\ ~NoneIn(q, T) => ~NoneIn(Tail(q), T) \/ Head(q) \in T
         /\ LastIn(Tail(q), T, G) => LastIn(q, T, G)
<1> PICK n \in Nat : n = Len(q)
  OBVIOUS
<1>1. /\ DOMAIN q = 1 .. n /\ n > 0 /\ DOMAIN Tail(q) = 1 .. n - 1
      /\ \A i \in 1 .. n - 1 : Tail(q)[i] = q[i + 1]
      /\ Head(q) = q[1]
  OBVIOUS
<1> PICK r : r = Tail(q)
  OBVIOUS
<1>2. /\ DOMAIN q = 1 .. n /\ n > 0 /\ DOMAIN r = 1 .. n - 1
      /\ \A i \in 1 .. n - 1 : r[i] = q[i + 1]
      /\ Head(q) = q[1]
  BY <1>1
<1>2a. \A i \in 1 .. n : i = 1 \/ (i - 1 \in 1 .. n - 1 /\ r[i - 1] = q[i])
  BY <1>2
<1>3. LastIn(q, T, G) => LastIn(r, T, G) \/ (NoneIn(r, T) /\ q[1] \in G)
  <2> SUFFICES ASSUME NEW i \in 1 .. n, q[i] \in G, \A j \in 1 .. n : j > i => q[j] \notin T
               PROVE  LastIn(r, T, G) \/ (NoneIn(r, T) /\ q[1] \in G)
    BY <1>2 DEF LastIn
  <2>1. \A j \in 1 .. n - 1 : j + 1 > i => r[j] \notin T
    BY <1>2
  <2>2. CASE i = 1
    BY <1>2, <2>1, <2>2 DEF NoneIn
  <2>3. CASE i # 1
    <3>1. i - 1 \in 1 .. n - 1 /\ r[i - 1] = q[i]
      BY <1>2a, <2>3
    <3>2. \A j \in 1 .. n - 1 : j > i - 1 => r[j] \notin T
      BY <2>1
    <3> QED
      BY <1>2, <3>1, <3>2 DEF LastIn
  <2> QED
    BY <2>2, <2>3
<1>4. NoneIn(q, T) => NoneIn(r, T) /\ q[1] \notin T
  BY <1>2 DEF NoneIn
<1>5. ~NoneIn(q, T) => ~NoneIn(r, T) \/ q[1] \in T
  BY <1>2, <1>2a DEF NoneIn
<1>6. LastIn(r, T, G) => LastIn(q, T, G)
  <2> SUFFICES ASSUME NEW i \in 1 .. n - 1, r[i] \in G, \A j \in 1 .. n - 1 : j > i => r[j] \notin T
               PROVE  LastIn(q, T, G)
    BY <1>2 DEF LastIn
  <2>1. i + 1 \in 1 .. n /\ q[i + 1] \in G
    BY <1>2
  <2>2. \A j \in 1 .. n : j > i + 1 => q[j] \notin T
    BY <1>2a
  <2> QED
    BY <1>2, <2>1, <2>2 DEF LastIn
<1> QED
  BY <1>2, <1>3, <1>4, <1>5, <1>6

\* The same, told apart by whether the member taken is of the kind T.
LEMMA EndsTaken ==
  ASSUME NEW Q, NEW q \in Seq(Q), q # <<>>, NEW T, NEW G, G \subseteq T, NEW r, r = Tail(q)
  PROVE  /\ Head(q) \notin T => /\ LastIn(q, T, G) => LastIn(r, T, G)
                                /\ NoneIn(q, T) => NoneIn(r, T)
         /\ Head(q) \in T => /\ ~NoneIn(q, T)
                             /\ LastIn(q, T, G) => \/ LastIn(r, T, G)
                                                   \/ NoneIn(r, T) /\ Head(q) \in G
         /\ ~NoneIn(q, T) => ~NoneIn(r, T) \/ Head(q) \in T
BY LastTaken
=============================================================================
