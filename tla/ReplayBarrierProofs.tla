------------------------ MODULE ReplayBarrierProofs ------------------------
(***************************************************************************)
(* The safety properties of ReplayBarrier for every number of panes, every *)
(* size of the buffers and every length of a replay.                       *)
(*                                                                         *)
(* Frames are queued long before they are shown, so the invariant follows  *)
(* each pane through the frames queued for it (a Chain): from what the     *)
(* client shows now, every frame fits what the frame before it left, and   *)
(* the last one leaves what the server has, unless the pane is due for a   *)
(* replay.  The control frames are followed in the same way.               *)
(***************************************************************************)
EXTENDS ReplayBarrier, SumsProofs, FiniteSetTheorems

Kinds == {"output", "resize", "reset", "replay", "control"}

\* What is queued for a client that may know the panes of D.
Frames(D) ==
  [type : Kinds, pane : D \cup {None}, ver : 0..Versions, geom : 1..2, part : 0..Chunks,
   class : {"Normal", "SeedReplay", "SeedCatchUp"}]

\* What a client shows of a pane, none of it torn.
Screens == [known : BOOLEAN, ver : 0..Versions, part : 0..Chunks, geom : 1..2, torn : {FALSE}]

\* Whether a frame is in the lane of pane c, or of the controls (None); whether it
\* fits where that lane is, and where it leaves it.
InLane(c, f) == IF c = None THEN f.type = "control" ELSE f.pane = c
Meets(c, x, f) == IF c = None THEN After(x.ver) = f.ver ELSE Fits(x, f)
Effect(c, x, f) == IF c = None THEN [x EXCEPT !.ver = f.ver] ELSE Drawn(x, f)

Goes(c, x, f, y) ==
  IF InLane(c, f) THEN Meets(c, x, f) /\ y = Effect(c, x, f) ELSE y = x

\* The frames of q that are in lane c fit one after the other and lead from x to y.
Walk(c, q, st) ==
  /\ st \in [0..Len(q) -> Screens]
  /\ \A i \in 1..Len(q) : Goes(c, st[i - 1], q[i], st[i])

Chain(c, x, q, y) == \E st : Walk(c, q, st) /\ st[0] = x /\ st[Len(q)] = y

----------------------------------------------------------------------------
(* Lists with some places left out                                         *)

\* h lists what is kept of each beginning of q.
Upto(h, q, S, X) ==
  /\ h \in [0..Len(q) -> Seq(X)] /\ h[0] = <<>>
  /\ \A k \in 1..Len(q) : h[k] = IF k \in S THEN Append(h[k - 1], q[k]) ELSE h[k - 1]

LEMMA UptoExists ==
  ASSUME NEW X, NEW q \in Seq(X), NEW S
  PROVE  \E h : Upto(h, q, S, X)
<1> DEFINE N == Len(q)
           Some(h, n) == /\ h \in [0..n -> Seq(X)] /\ h[0] = <<>>
                         /\ \A k \in 1..n : h[k] = IF k \in S THEN Append(h[k - 1], q[k]) ELSE h[k - 1]
           T == {n \in Nat : n <= N => \E h : Some(h, n)}
<1>0. N \in Nat
  OBVIOUS
<1>1. 0 \in T
  <2>1. Some([k \in 0..0 |-> <<>>], 0)
    OBVIOUS
  <2> QED
    BY <2>1
<1>2. ASSUME NEW n \in T
      PROVE  n + 1 \in T
  <2> HIDE DEF Some
  <2>1. SUFFICES ASSUME n + 1 <= N
                 PROVE  \E h : Some(h, n + 1)
    OBVIOUS
  <2>0. n <= N
    BY <1>0, <2>1
  <2>2. PICK h : Some(h, n)
    BY <2>0
  <2> USE DEF Some
  <2>3. PICK y : y = IF n + 1 \in S THEN Append(h[n], q[n + 1]) ELSE h[n]
    OBVIOUS
  <2>4. h[n] \in Seq(X) /\ q[n + 1] \in X
    BY <2>1, <2>2
  <2>5. y \in Seq(X)
    BY <2>3, <2>4
  <2>6. PICK g : g = [k \in 0..(n + 1) |-> IF k = n + 1 THEN y ELSE h[k]]
    OBVIOUS
  <2>7. g \in [0..(n + 1) -> Seq(X)] /\ g[0] = <<>>
    BY <2>2, <2>5, <2>6
  <2>8. ASSUME NEW k \in 1..(n + 1)
        PROVE  g[k] = IF k \in S THEN Append(g[k - 1], q[k]) ELSE g[k - 1]
    <3>1. CASE k = n + 1
      <4>1. g[k] = y /\ g[k - 1] = h[n]
        BY <2>6, <3>1
      <4> QED
        BY <4>1, <3>1, <2>3
    <3>2. CASE k \in 1..n
      <4>1. g[k] = h[k] /\ g[k - 1] = h[k - 1]
        BY <2>6, <3>2
      <4> QED
        BY <4>1, <3>2, <2>2
    <3> QED
      BY <3>1, <3>2
  <2> QED
    BY <2>7, <2>8, Zenon
<1>3. T = Nat
  <2> HIDE DEF T
  <2>1. T \in SUBSET Nat
    BY DEF T
  <2> QED
    BY <1>1, <1>2, <2>1, NatInduct
<1>4. PICK h : Some(h, N)
  BY <1>0, <1>3
<1> QED
  BY <1>4 DEF Upto

LEMMA KeptIs ==
  ASSUME NEW X, NEW q \in Seq(X), NEW S, NEW h, Upto(h, q, S, X)
  PROVE  Kept(q, S) = h[Len(q)]
<1> DEFINE N == Len(q)
           Step(g, k) == IF k = 0 THEN <<>> ELSE IF k \in S THEN Append(g[k - 1], q[k]) ELSE g[k - 1]
           Rec(g) == g = [k \in 0..N |-> Step(g, k)]
           f == CHOOSE g : Rec(g)
<1>0. Kept(q, S) = f[N]
  BY Zenon DEF Kept
<1>1. Rec(h)
  <2>1. N \in Nat /\ h = [k \in 0..N |-> h[k]]
    BY DEF Upto
  <2>2. ASSUME NEW k \in 0..N
        PROVE  h[k] = Step(h, k)
    <3>1. CASE k = 0
      BY <3>1 DEF Upto
    <3>2. CASE k # 0
      <4>1. k \in 1..N
        BY <2>1, <3>2
      <4>2. h[k] = IF k \in S THEN Append(h[k - 1], q[k]) ELSE h[k - 1]
        BY <4>1, Zenon DEF Upto
      <4> QED
        BY <3>2, <4>2
    <3> QED
      BY <3>1, <3>2
  <2> HIDE DEF Step, N
  <2> QED
    BY <2>1, <2>2
<1>2. Rec(f)
  <2> HIDE DEF Rec
  <2> QED
    BY <1>1
<1>3. \A k \in 0..N : f[k] = Step(f, k)
  <2> HIDE DEF f, Step, N
  <2> QED
    BY <1>2
<1> HIDE DEF f
<1> DEFINE T == {n \in Nat : n <= N => h[n] = f[n]}
<1>4. 0 \in T
  <2>1. 0 \in 0..N
    OBVIOUS
  <2>2. f[0] = Step(f, 0)
    BY <1>3, <2>1
  <2> QED
    BY <2>2 DEF Upto
<1>5. ASSUME NEW n \in T
      PROVE  n + 1 \in T
  <2>1. SUFFICES ASSUME n + 1 <= N
                 PROVE  h[n + 1] = f[n + 1]
    OBVIOUS
  <2>2. n + 1 \in 0..N /\ n + 1 \in 1..N /\ n + 1 # 0 /\ (n + 1) - 1 = n /\ h[n] = f[n]
    BY <2>1
  <2>3. f[n + 1] = Step(f, n + 1)
    BY <1>3, <2>2
  <2>4. h[n + 1] = Step(h, n + 1)
    BY <2>2 DEF Upto
  <2> QED
    BY <2>2, <2>3, <2>4
<1>6. T = Nat
  <2> HIDE DEF T
  <2>1. T \in SUBSET Nat
    BY DEF T
  <2> QED
    BY <1>4, <1>5, <2>1, NatInduct
<1> QED
  BY <1>0, <1>6

\* What is true of each beginning of a list, with places left out, is true of it
\* all.  R[n] is the set of lists of which it is true after n places.
LEMMA KeptBy ==
  ASSUME NEW X, NEW q \in Seq(X), NEW S, NEW R, <<>> \in R[0],
         \A n \in 1..Len(q) : \A l \in R[n - 1] \cap Seq(X) :
           IF n \in S THEN Append(l, q[n]) \in R[n] ELSE l \in R[n]
  PROVE  Kept(q, S) \in R[Len(q)] /\ Kept(q, S) \in Seq(X)
<1>1. PICK h : Upto(h, q, S, X)
  BY UptoExists
<1> DEFINE T == {n \in Nat : n <= Len(q) => h[n] \in R[n]}
<1>2. 0 \in T
  BY <1>1 DEF Upto
<1>3. ASSUME NEW n \in T
      PROVE  n + 1 \in T
  <2>1. SUFFICES ASSUME n + 1 <= Len(q)
                 PROVE  h[n + 1] \in R[n + 1]
    OBVIOUS
  <2>2. n + 1 \in 1..Len(q) /\ (n + 1) - 1 = n /\ n \in 0..Len(q) /\ h[n] \in R[n]
    BY <2>1
  <2>3. h[n] \in Seq(X)
    BY <1>1, <2>2 DEF Upto
  <2>4. h[n + 1] = IF n + 1 \in S THEN Append(h[n], q[n + 1]) ELSE h[n]
    BY <1>1, <2>2 DEF Upto
  <2>5. IF n + 1 \in S THEN Append(h[n], q[n + 1]) \in R[n + 1] ELSE h[n] \in R[n + 1]
    BY <2>2, <2>3
  <2> QED
    BY <2>4, <2>5
<1>4. T = Nat
  <2> HIDE DEF T
  <2>1. T \in SUBSET Nat
    BY DEF T
  <2> QED
    BY <1>2, <1>3, <2>1, NatInduct
<1>5. Len(q) \in Nat
  OBVIOUS
<1>6. Kept(q, S) = h[Len(q)]
  BY <1>1, KeptIs
<1>7. h[Len(q)] \in R[Len(q)]
  BY <1>4, <1>5
<1>8. h[Len(q)] \in Seq(X)
  BY <1>1, <1>5 DEF Upto
<1> QED
  BY <1>6, <1>7, <1>8

----------------------------------------------------------------------------
(* Lanes                                                                   *)

Lanes == Pane \cup {None}

\* Where a frame that fits leaves a pane.
LEMMA DrawnFields ==
  ASSUME NEW x \in Screens, NEW f \in Frames(Pane), Fits(x, f)
  PROVE  /\ Drawn(x, f) \in Screens
         /\ Drawn(x, f).known = (x.known \/ f.type = "control")
         /\ f.type = "control" => Drawn(x, f).ver = x.ver /\ Drawn(x, f).part = x.part /\ Drawn(x, f).geom = f.geom
         /\ f.type = "resize" => /\ x.known /\ Drawn(x, f).ver = x.ver /\ Drawn(x, f).part = x.part
                                 /\ Drawn(x, f).geom = f.geom
         /\ f.type = "reset" => x.known /\ Drawn(x, f).ver = 0 /\ Drawn(x, f).part = 0 /\ Drawn(x, f).geom = f.geom
         /\ f.type = "replay" => /\ x.part = f.part - 1 /\ x.ver = (IF f.part = 1 THEN 0 ELSE f.ver)
                                 /\ Drawn(x, f).ver = f.ver /\ Drawn(x, f).geom = x.geom
                                 /\ Drawn(x, f).part = IF f.part = Chunks THEN 0 ELSE f.part
         /\ f.type = "output" => /\ x.known /\ x.part = 0 /\ After(x.ver) = f.ver /\ x.geom = f.geom
                                 /\ Drawn(x, f).ver = f.ver /\ Drawn(x, f).part = 0 /\ Drawn(x, f).geom = x.geom
<1>1. PICK y : y = Drawn(x, f)
  OBVIOUS
<1>2. /\ x.known \in BOOLEAN /\ x.ver \in 0..Versions /\ x.part \in 0..Chunks /\ x.geom \in 1..2 /\ x.torn = FALSE
      /\ f.ver \in 0..Versions /\ f.geom \in 1..2 /\ f.part \in 0..Chunks
  BY DEF Screens, Frames
<1>3. f.type \in Kinds /\ Versions \in Nat /\ Chunks \in Nat
  BY SizesAssumption DEF Frames
<1>4. y.torn = FALSE /\ y.known = (x.known \/ f.type = "control") /\ y.known \in BOOLEAN
  BY <1>1, <1>2 DEF Drawn
<1>5. y = [known |-> y.known, ver |-> y.ver, part |-> y.part, geom |-> y.geom, torn |-> y.torn]
  BY <1>1 DEF Drawn
<1>6. CASE f.type = "control"
  <2>1. y.ver = x.ver /\ y.part = x.part /\ y.geom = f.geom
    BY <1>1, <1>6 DEF Drawn
  <2>2. y \in Screens
    BY <1>2, <1>3, <1>4, <1>5, <2>1 DEF Screens
  <2> QED
    BY <1>1, <1>4, <1>6, <2>1, <2>2
<1>7. CASE f.type = "resize"
  <2>1. x.known /\ y.ver = x.ver /\ y.part = x.part /\ y.geom = f.geom
    BY <1>1, <1>7 DEF Drawn, Fits
  <2>2. y \in Screens
    BY <1>2, <1>3, <1>4, <1>5, <2>1 DEF Screens
  <2> QED
    BY <1>1, <1>4, <1>7, <2>1, <2>2
<1>8. CASE f.type = "reset"
  <2>1. x.known /\ y.ver = 0 /\ y.part = 0 /\ y.geom = f.geom
    BY <1>1, <1>8 DEF Drawn, Fits
  <2>2. y \in Screens
    <3>1. y.ver \in 0..Versions /\ y.part \in 0..Chunks /\ y.geom \in 1..2
      BY <1>2, <1>3, <2>1
    <3> QED
      BY <1>4, <1>5, <3>1 DEF Screens
  <2> QED
    BY <1>1, <1>4, <1>8, <2>1, <2>2
<1>9. CASE f.type = "replay"
  <2>1. /\ x.part = f.part - 1 /\ x.ver = (IF f.part = 1 THEN 0 ELSE f.ver)
        /\ y.ver = f.ver /\ y.geom = x.geom /\ y.part = IF f.part = Chunks THEN 0 ELSE f.part
    BY <1>1, <1>9 DEF Drawn, Fits
  <2>2. y \in Screens
    <3>1. y.ver \in 0..Versions /\ y.part \in 0..Chunks /\ y.geom \in 1..2
      BY <1>2, <1>3, <2>1
    <3> QED
      BY <1>4, <1>5, <3>1 DEF Screens
  <2> QED
    BY <1>1, <1>4, <1>9, <2>1, <2>2
<1>10. CASE f.type = "output"
  <2>1. /\ x.known /\ x.part = 0 /\ After(x.ver) = f.ver /\ x.geom = f.geom
        /\ y.ver = f.ver /\ y.geom = x.geom /\ y.part = x.part
    BY <1>1, <1>10 DEF Drawn, Fits
  <2>2. y \in Screens
    BY <1>2, <1>3, <1>4, <1>5, <2>1 DEF Screens
  <2> QED
    BY <1>1, <1>4, <1>10, <2>1, <2>2
<1> QED
  BY <1>3, <1>6, <1>7, <1>8, <1>9, <1>10 DEF Kinds

\* A lane stays within its type, and what is known stays known.
LEMMA GoesOn ==
  ASSUME NEW c \in Lanes, NEW x \in Screens, NEW f \in Frames(Pane), NEW y, Goes(c, x, f, y)
  PROVE  y \in Screens /\ (x.known => y.known)
<1>1. CASE ~ InLane(c, f)
  BY <1>1 DEF Goes
<1>2. CASE InLane(c, f) /\ c = None
  <2>1. y = [x EXCEPT !.ver = f.ver] /\ f.ver \in 0..Versions
    BY <1>2 DEF Goes, Effect, Frames
  <2> QED
    BY <2>1 DEF Screens
<1>3. CASE InLane(c, f) /\ c # None
  <2>1. y = Drawn(x, f) /\ Fits(x, f)
    BY <1>3 DEF Goes, Effect, Meets
  <2> QED
    BY <2>1, DrawnFields
<1> QED
  BY <1>1, <1>2, <1>3

LEMMA ChainNil ==
  ASSUME NEW c, NEW x \in Screens
  PROVE  Chain(c, x, <<>>, x) /\ \A y : Chain(c, x, <<>>, y) => y = x
<1>1. Len(<<>>) = 0
  OBVIOUS
<1>2. Walk(c, <<>>, [i \in 0..0 |-> x])
  BY <1>1 DEF Walk
<1> QED
  BY <1>1, <1>2 DEF Chain

LEMMA ChainType ==
  ASSUME NEW c, NEW x, NEW D, NEW q \in Seq(Frames(D)), NEW y, Chain(c, x, q, y)
  PROVE  x \in Screens /\ y \in Screens
<1>1. PICK st : Walk(c, q, st) /\ st[0] = x /\ st[Len(q)] = y
  BY DEF Chain
<1>2. Len(q) \in Nat
  OBVIOUS
<1> QED
  BY <1>1, <1>2 DEF Walk

LEMMA ChainAppend ==
  ASSUME NEW c, NEW x, NEW D, NEW q \in Seq(Frames(D)), NEW f, NEW y, NEW z \in Screens,
         Chain(c, x, q, y), Goes(c, y, f, z)
  PROVE  Chain(c, x, Append(q, f), z)
<1>1. PICK st : Walk(c, q, st) /\ st[0] = x /\ st[Len(q)] = y
  BY DEF Chain
<1>2. PICK n \in Nat : n = Len(q)
  OBVIOUS
<1>3. PICK t : t = Append(q, f)
  OBVIOUS
<1>4. Len(t) = n + 1 /\ t[n + 1] = f /\ \A i \in 1..n : t[i] = q[i]
  BY <1>2, <1>3
<1>5. PICK g : g = [i \in 0..(n + 1) |-> IF i = n + 1 THEN z ELSE st[i]]
  OBVIOUS
<1>6. g \in [0..Len(t) -> Screens] /\ g[0] = x /\ g[Len(t)] = z
  BY <1>1, <1>2, <1>4, <1>5 DEF Walk
<1>7. ASSUME NEW i \in 1..Len(t)
      PROVE  Goes(c, g[i - 1], t[i], g[i])
  <2>1. CASE i = n + 1
    <3>1. g[i] = z /\ g[i - 1] = y /\ t[i] = f
      BY <1>1, <1>2, <1>4, <1>5, <2>1
    <3> QED
      BY <3>1
  <2>2. CASE i \in 1..n
    <3>1. g[i] = st[i] /\ g[i - 1] = st[i - 1] /\ t[i] = q[i]
      BY <1>4, <1>5, <2>2
    <3> QED
      BY <1>1, <1>2, <2>2, <3>1 DEF Walk
  <2> QED
    BY <1>4, <2>1, <2>2
<1>8. Walk(c, t, g)
  BY <1>6, <1>7 DEF Walk
<1> QED
  BY <1>3, <1>6, <1>8 DEF Chain

LEMMA ChainTail ==
  ASSUME NEW c, NEW x, NEW D, NEW q \in Seq(Frames(D)), q # <<>>, NEW y, Chain(c, x, q, y)
  PROVE  \E w \in Screens : Goes(c, x, Head(q), w) /\ Chain(c, w, Tail(q), y)
<1>1. PICK st : Walk(c, q, st) /\ st[0] = x /\ st[Len(q)] = y
  BY DEF Chain
<1>2. PICK n \in Nat : n = Len(q)
  OBVIOUS
<1>3. PICK t : t = Tail(q)
  OBVIOUS
<1>4. n >= 1 /\ Len(t) = n - 1 /\ Head(q) = q[1] /\ \A i \in 1..(n - 1) : t[i] = q[i + 1]
  BY <1>2, <1>3
<1>5. PICK g : g = [i \in 0..(n - 1) |-> st[i + 1]]
  OBVIOUS
<1>6. g \in [0..Len(t) -> Screens] /\ g[0] = st[1] /\ g[Len(t)] = y /\ st[1] \in Screens
  BY <1>1, <1>2, <1>4, <1>5 DEF Walk
<1>7. ASSUME NEW i \in 1..Len(t)
      PROVE  Goes(c, g[i - 1], t[i], g[i])
  <2>1. i + 1 \in 1..n /\ (i + 1) - 1 = i /\ (i - 1) + 1 = i /\ i - 1 \in 0..(n - 1) /\ i \in 0..(n - 1)
        /\ i \in 1..(n - 1)
    BY <1>4
  <2>2. g[i] = st[i + 1] /\ g[i - 1] = st[i] /\ t[i] = q[i + 1]
    BY <1>4, <1>5, <2>1
  <2>3. Goes(c, st[(i + 1) - 1], q[i + 1], st[i + 1])
    BY <1>1, <1>2, <2>1 DEF Walk
  <2> QED
    BY <2>1, <2>2, <2>3
<1>8. Walk(c, t, g)
  BY <1>6, <1>7 DEF Walk
<1>9. Goes(c, x, Head(q), st[1])
  <2>1. 1 \in 1..Len(q) /\ 1 - 1 = 0
    BY <1>2, <1>4
  <2>2. Goes(c, st[1 - 1], q[1], st[1])
    BY <1>1, <2>1 DEF Walk
  <2> QED
    BY <1>1, <1>4, <2>1, <2>2
<1> QED
  BY <1>3, <1>6, <1>8, <1>9 DEF Chain

\* Nothing in the lane.
Idle(c, q) == \A i \in 1..Len(q) : ~ InLane(c, q[i])

LEMMA ChainIdle ==
  ASSUME NEW c, NEW x \in Screens, NEW D, NEW q \in Seq(Frames(D)), Idle(c, q)
  PROVE  Chain(c, x, q, x) /\ \A y : Chain(c, x, q, y) => y = x
<1>1. PICK n \in Nat : n = Len(q)
  OBVIOUS
<1>2. Chain(c, x, q, x)
  <2>1. PICK g : g = [i \in 0..n |-> x]
    OBVIOUS
  <2>2. Walk(c, q, g)
    BY <1>1, <2>1 DEF Walk, Idle, Goes
  <2> QED
    BY <1>1, <2>1, <2>2 DEF Chain
<1>3. ASSUME NEW y, Chain(c, x, q, y)
      PROVE  y = x
  <2>1. PICK st : Walk(c, q, st) /\ st[0] = x /\ st[n] = y
    BY <1>1, <1>3 DEF Chain
  <2> DEFINE T == {k \in Nat : k <= n => st[k] = x}
  <2>2. 0 \in T
    BY <2>1
  <2>3. ASSUME NEW k \in T
        PROVE  k + 1 \in T
    <3>1. SUFFICES ASSUME k + 1 <= n
                   PROVE  st[k + 1] = x
      OBVIOUS
    <3>2. k + 1 \in 1..Len(q) /\ (k + 1) - 1 = k /\ st[k] = x
      BY <1>1, <3>1
    <3>3. Goes(c, st[(k + 1) - 1], q[k + 1], st[k + 1]) /\ ~ InLane(c, q[k + 1])
      BY <2>1, <3>2 DEF Walk, Idle
    <3> QED
      BY <3>2, <3>3 DEF Goes
  <2>4. T = Nat
    <3> HIDE DEF T
    <3>1. T \in SUBSET Nat
      BY DEF T
    <3> QED
      BY <2>2, <2>3, <3>1, NatInduct
  <2> QED
    BY <2>1, <2>4
<1> QED
  BY <1>2, <1>3

----------------------------------------------------------------------------
(* What leaving frames out does to a lane                                  *)

LEMMA ScreenEq ==
  ASSUME NEW x \in Screens, NEW y \in Screens, x.known = y.known, x.ver = y.ver, x.part = y.part, x.geom = y.geom
  PROVE  x = y
<1>1. x.torn = y.torn
  BY DEF Screens
<1>2. /\ x = [known |-> x.known, ver |-> x.ver, part |-> x.part, geom |-> x.geom, torn |-> x.torn]
      /\ y = [known |-> y.known, ver |-> y.ver, part |-> y.part, geom |-> y.geom, torn |-> y.torn]
  BY DEF Screens
<1> QED
  BY <1>1, <1>2

\* Nothing, if the frames are of other lanes.
LEMMA KeptLane ==
  ASSUME NEW c \in Lanes, NEW x, NEW q \in Seq(Frames(Pane)), NEW y, Chain(c, x, q, y), NEW S,
         \A i \in 1..Len(q) : i \notin S => ~ InLane(c, q[i])
  PROVE  Chain(c, x, Kept(q, S), y)
<1>1. PICK st : Walk(c, q, st) /\ st[0] = x /\ st[Len(q)] = y
  BY DEF Chain
<1>2. PICK R : R = [n \in 0..Len(q) |-> {l \in Seq(Frames(Pane)) : Chain(c, x, l, st[n])}]
  OBVIOUS
<1>3. Len(q) \in Nat
  OBVIOUS
<1>4. \A n \in 0..Len(q) : st[n] \in Screens
  BY <1>1 DEF Walk
<1>5. <<>> \in R[0]
  <2>1. Chain(c, x, <<>>, x)
    BY <1>1, <1>3, <1>4, ChainNil
  <2> QED
    BY <1>1, <1>2, <1>3, <2>1
<1>6. ASSUME NEW n \in 1..Len(q), NEW l \in R[n - 1] \cap Seq(Frames(Pane))
      PROVE  IF n \in S THEN Append(l, q[n]) \in R[n] ELSE l \in R[n]
  <2>1. n \in 0..Len(q) /\ n - 1 \in 0..Len(q)
    BY <1>3
  <2>2. Chain(c, x, l, st[n - 1]) /\ l \in Seq(Frames(Pane))
    BY <1>2, <2>1
  <2>3. Goes(c, st[n - 1], q[n], st[n]) /\ q[n] \in Frames(Pane)
    BY <1>1 DEF Walk
  <2>4. CASE n \in S
    <3>1. Chain(c, x, Append(l, q[n]), st[n])
      BY <1>4, <2>1, <2>2, <2>3, ChainAppend
    <3>2. Append(l, q[n]) \in Seq(Frames(Pane))
      BY <2>2, <2>3
    <3> QED
      BY <1>2, <2>1, <2>4, <3>1, <3>2
  <2>5. CASE n \notin S
    <3>1. st[n] = st[n - 1]
      BY <2>3, <2>5 DEF Goes
    <3> QED
      BY <1>2, <2>1, <2>2, <2>5, <3>1
  <2> QED
    BY <2>4, <2>5
<1>7. Kept(q, S) \in R[Len(q)]
  <2> DEFINE X == Frames(Pane)
  <2>1. q \in Seq(X)
    OBVIOUS
  <2>2. \A n \in 1..Len(q) : \A l \in R[n - 1] \cap Seq(X) :
           IF n \in S THEN Append(l, q[n]) \in R[n] ELSE l \in R[n]
    BY <1>6
  <2> HIDE DEF X
  <2> QED
    BY <1>5, <2>1, <2>2, KeptBy
<1> QED
  BY <1>1, <1>2, <1>3, <1>7

\* For the pane whose frames are left out: z is where its lane is without them, s
\* where it was with them.  Its replays are left in while a barrier is up.
Like(z, s, up) ==
  /\ z.known = s.known /\ z.geom = s.geom
  /\ up => z = s \/ (s.ver # 0 /\ s.part = 0)

LEMMA LikeDropped ==
  ASSUME NEW p \in Pane, NEW s \in Screens, NEW t \in Screens, NEW z \in Screens, NEW f \in Frames(Pane),
         f.pane = p, Goes(p, s, f, t), NEW up \in BOOLEAN, Like(z, s, up), f.ver # 0,
         f.type = "output" \/ (f.type = "replay" /\ ~ up)
  PROVE  Like(z, t, up)
<1>1. p # None
  BY DEF Pane, None
<1>2. Fits(s, f) /\ t = Drawn(s, f)
  BY <1>1 DEF Goes, InLane, Meets, Effect
<1>3. t.known = s.known /\ t.geom = s.geom
  <2>1. t.known = (s.known \/ f.type = "control") /\ s.known \in BOOLEAN
    BY <1>2, DrawnFields DEF Screens
  <2>2. t.geom = s.geom
    BY <1>2, DrawnFields
  <2> QED
    BY <2>1, <2>2
<1>4. CASE f.type = "output"
  <2>1. t.ver = f.ver /\ t.part = 0
    BY <1>2, <1>4, DrawnFields
  <2> QED
    BY <1>3, <2>1 DEF Like
<1>5. CASE f.type = "replay" /\ ~ up
  BY <1>3, <1>5 DEF Like
<1> QED
  BY <1>4, <1>5

LEMMA LikeKept ==
  ASSUME NEW p \in Pane, NEW s \in Screens, NEW t \in Screens, NEW z \in Screens, NEW f \in Frames(Pane),
         f.pane = p, Goes(p, s, f, t), NEW up \in BOOLEAN, Like(z, s, up),
         f.type \in {"control", "resize", "reset"} \/ (f.type = "replay" /\ up)
  PROVE  \E w \in Screens : Goes(p, z, f, w) /\ Like(w, t, up)
<1>1. p # None
  BY DEF Pane, None
<1>2. Fits(s, f) /\ t = Drawn(s, f)
  BY <1>1 DEF Goes, InLane, Meets, Effect
<1>3. ASSUME Fits(z, f), Like(Drawn(z, f), t, up)
      PROVE  \E w \in Screens : Goes(p, z, f, w) /\ Like(w, t, up)
  <2>1. Drawn(z, f) \in Screens
    BY <1>3, DrawnFields
  <2>2. Goes(p, z, f, Drawn(z, f))
    BY <1>1, <1>3 DEF Goes, InLane, Meets, Effect
  <2> QED
    BY <1>3, <2>1, <2>2
<1>4. CASE z = s
  BY <1>2, <1>3, <1>4 DEF Like
<1>5. CASE z # s
  <2>1. z.known = s.known /\ z.geom = s.geom /\ (up => s.ver # 0 /\ s.part = 0)
    BY <1>5 DEF Like
  <2>2. f.type # "replay"
    <3>1. SUFFICES ASSUME f.type = "replay"
                   PROVE  FALSE
      OBVIOUS
    <3>2. s.part = f.part - 1 /\ s.ver = (IF f.part = 1 THEN 0 ELSE f.ver)
      BY <1>2, <3>1, DrawnFields
    <3>3. s.ver # 0 /\ s.part = 0 /\ f.part \in Nat
      BY <2>1, <3>1, SizesAssumption DEF Frames
    <3> QED
      BY <3>2, <3>3
  <2>3. f.type \in {"control", "resize", "reset"}
    BY <2>2
  <2>4. Fits(z, f)
    BY <1>2, <2>1, <2>3 DEF Fits
  <2>5. PICK w \in Screens : w = Drawn(z, f)
    BY <2>4, DrawnFields
  <2>6. w.known = t.known /\ w.geom = f.geom /\ t.geom = f.geom
    <3>1. w.known = (z.known \/ f.type = "control") /\ t.known = (s.known \/ f.type = "control")
      BY <1>2, <2>4, <2>5, DrawnFields
    <3>2. w.geom = f.geom /\ t.geom = f.geom
      BY <1>2, <2>3, <2>4, <2>5, DrawnFields
    <3> QED
      BY <2>1, <3>1, <3>2
  <2>7. CASE f.type = "reset"
    <3>1. w.ver = 0 /\ w.part = 0 /\ t.ver = 0 /\ t.part = 0
      BY <1>2, <2>4, <2>5, <2>7, DrawnFields
    <3>2. w = t
      BY <2>6, <3>1, ScreenEq
    <3> QED
      BY <1>3, <2>4, <2>5, <3>2 DEF Like
  <2>8. CASE f.type \in {"control", "resize"}
    <3>1. t.ver = s.ver /\ t.part = s.part
      BY <1>2, <2>8, DrawnFields
    <3>2. Like(w, t, up)
      BY <2>1, <2>6, <3>1 DEF Like
    <3> QED
      BY <1>3, <2>4, <2>5, <3>2
  <2> QED
    BY <2>3, <2>7, <2>8
<1> QED
  BY <1>4, <1>5

\* The pane's lane still leads somewhere: to the same place if a replay of it has
\* not ended there.
LEMMA KeptSelf ==
  ASSUME NEW p \in Pane, NEW x, NEW q \in Seq(Frames(Pane)), NEW y, Chain(p, x, q, y), NEW S, NEW up \in BOOLEAN,
         \A i \in 1..Len(q) : i \notin S =>
            /\ q[i].pane = p /\ q[i].ver # 0
            /\ q[i].type = "output" \/ (q[i].type = "replay" /\ ~ up),
         \A i \in 1..Len(q) : i \in S /\ i > 1 /\ q[i].pane = p =>
            q[i].type \in {"control", "resize", "reset"} \/ (q[i].type = "replay" /\ up)
  PROVE  \E z \in Screens : Chain(p, x, Kept(q, S), z) /\ Like(z, y, up)
<1>1. PICK st : Walk(p, q, st) /\ st[0] = x /\ st[Len(q)] = y
  BY DEF Chain
<1> DEFINE OK(l, n) == \E z \in Screens : Chain(p, x, l, z) /\ Like(z, st[n], up) /\ (n = 0 => z = st[0])
<1>2. PICK R : R = [n \in 0..Len(q) |-> {l \in Seq(Frames(Pane)) : OK(l, n)}]
  OBVIOUS
<1>3. Len(q) \in Nat
  OBVIOUS
<1>4. \A n \in 0..Len(q) : st[n] \in Screens
  BY <1>1 DEF Walk
<1>5. <<>> \in R[0]
  <2>1. Chain(p, x, <<>>, x) /\ x \in Screens
    BY <1>1, <1>3, <1>4, ChainNil
  <2>2. OK(<<>>, 0)
    BY <1>1, <2>1 DEF Like
  <2> QED
    BY <1>2, <1>3, <2>2
<1>6. ASSUME NEW n \in 1..Len(q), NEW l \in R[n - 1] \cap Seq(Frames(Pane))
      PROVE  IF n \in S THEN Append(l, q[n]) \in R[n] ELSE l \in R[n]
  <2>1. n \in 0..Len(q) /\ n - 1 \in 0..Len(q) /\ n # 0
    BY <1>3
  <2>2. OK(l, n - 1) /\ l \in Seq(Frames(Pane))
    BY <1>2, <2>1
  <2>3. PICK z \in Screens : Chain(p, x, l, z) /\ Like(z, st[n - 1], up) /\ (n - 1 = 0 => z = st[0])
    BY <2>2
  <2>4. PICK s, t, f : s = st[n - 1] /\ t = st[n] /\ f = q[n]
    OBVIOUS
  <2>5. Goes(p, s, f, t) /\ f \in Frames(Pane) /\ s \in Screens /\ t \in Screens
    BY <1>1, <1>4, <2>1, <2>4 DEF Walk
  <2>6. Append(l, f) \in Seq(Frames(Pane))
    BY <2>2, <2>5
  <2>7. CASE n \notin S
    <3>1. /\ f.pane = p /\ f.ver # 0
          /\ f.type = "output" \/ (f.type = "replay" /\ ~ up)
      BY <2>4, <2>7
    <3>2. Like(z, t, up)
      BY <2>3, <2>4, <2>5, <3>1, LikeDropped
    <3>3. OK(l, n)
      BY <2>1, <2>3, <2>4, <3>2
    <3> QED
      BY <1>2, <2>1, <2>2, <2>7, <3>3
  <2>8. CASE n \in S
    <3>1. SUFFICES \E w \in Screens : Goes(p, z, f, w) /\ Like(w, t, up)
      <4>1. PICK w \in Screens : Goes(p, z, f, w) /\ Like(w, t, up)
        BY <3>1
      <4>2. Chain(p, x, Append(l, f), w)
        BY <2>2, <2>3, <4>1, ChainAppend
      <4>3. OK(Append(l, f), n)
        BY <2>1, <2>4, <4>1, <4>2
      <4> QED
        BY <1>2, <2>1, <2>4, <2>6, <2>8, <4>3
    <3>2. CASE n = 1
      <4>1. z = s
        BY <2>3, <2>4, <3>2
      <4> QED
        BY <2>5, <4>1 DEF Like
    <3>3. CASE f.pane # p
      <4>1. p # None
        BY DEF Pane, None
      <4>2. t = s /\ Goes(p, z, f, z)
        BY <2>5, <3>3, <4>1 DEF Goes, InLane
      <4> QED
        BY <2>3, <2>4, <4>2
    <3>4. CASE n # 1 /\ f.pane = p
      <4>1. n > 1
        BY <3>4
      <4>2. f.type \in {"control", "resize", "reset"} \/ (f.type = "replay" /\ up)
        BY <2>4, <2>8, <3>4, <4>1
      <4> QED
        BY <2>3, <2>4, <2>5, <3>4, <4>2, LikeKept
    <3> QED
      BY <3>2, <3>3, <3>4
  <2> QED
    BY <2>7, <2>8
<1>7. Kept(q, S) \in R[Len(q)]
  <2> DEFINE X == Frames(Pane)
  <2>1. q \in Seq(X)
    OBVIOUS
  <2>2. \A n \in 1..Len(q) : \A l \in R[n - 1] \cap Seq(X) :
           IF n \in S THEN Append(l, q[n]) \in R[n] ELSE l \in R[n]
    BY <1>6
  <2> HIDE DEF X
  <2> QED
    BY <1>5, <2>1, <2>2, KeptBy
<1>8. OK(Kept(q, S), Len(q))
  BY <1>2, <1>3, <1>7
<1> QED
  BY <1>1, <1>8

----------------------------------------------------------------------------
(* How much is kept                                                        *)

LEMMA KeptIn ==
  ASSUME NEW X, NEW q \in Seq(X), NEW S, NEW Y, \A i \in 1..Len(q) : i \in S => q[i] \in Y
  PROVE  Kept(q, S) \in Seq(Y)
<1>1. PICK R : R = [n \in 0..Len(q) |-> Seq(Y)]
  OBVIOUS
<1>2. Len(q) \in Nat
  OBVIOUS
<1>3. <<>> \in R[0]
  BY <1>1, <1>2
<1>4. ASSUME NEW n \in 1..Len(q), NEW l \in R[n - 1] \cap Seq(X)
      PROVE  IF n \in S THEN Append(l, q[n]) \in R[n] ELSE l \in R[n]
  <2>1. n \in 0..Len(q) /\ n - 1 \in 0..Len(q)
    BY <1>2
  <2>2. R[n] = Seq(Y) /\ l \in Seq(Y)
    BY <1>1, <2>1
  <2>3. n \in S => Append(l, q[n]) \in Seq(Y)
    BY <2>2
  <2> QED
    BY <2>2, <2>3
<1>5. Kept(q, S) \in R[Len(q)]
  BY <1>3, <1>4, KeptBy
<1> QED
  BY <1>1, <1>2, <1>5

LEMMA KeptShort ==
  ASSUME NEW X, NEW q \in Seq(X), NEW S
  PROVE  /\ Len(Kept(q, S)) \in Nat /\ Len(Kept(q, S)) <= Len(q)
         /\ (\E i \in 1..Len(q) : i \notin S) => Len(Kept(q, S)) < Len(q)
<1> DEFINE Gap(n) == \E i \in 1..n : i \notin S
           OK(l, n) == Len(l) <= n /\ (Gap(n) => Len(l) < n)
<1>1. PICK R : R = [n \in 0..Len(q) |-> {l \in Seq(X) : OK(l, n)}]
  OBVIOUS
<1>2. Len(q) \in Nat
  OBVIOUS
<1>3. <<>> \in R[0]
  BY <1>1, <1>2
<1>4. ASSUME NEW n \in 1..Len(q), NEW l \in R[n - 1] \cap Seq(X)
      PROVE  IF n \in S THEN Append(l, q[n]) \in R[n] ELSE l \in R[n]
  <2>1. n \in 0..Len(q) /\ n - 1 \in 0..Len(q)
    BY <1>2
  <2>2. OK(l, n - 1) /\ l \in Seq(X) /\ Len(l) \in Nat
    BY <1>1, <2>1
  <2>3. CASE n \in S
    <3>1. Append(l, q[n]) \in Seq(X) /\ Len(Append(l, q[n])) = Len(l) + 1
      BY <2>2
    <3>2. Gap(n) => Gap(n - 1)
      BY <2>3
    <3> HIDE DEF Gap
    <3>3. OK(Append(l, q[n]), n)
      BY <2>2, <3>1, <3>2
    <3> QED
      BY <1>1, <2>1, <2>3, <3>1, <3>3
  <2>4. CASE n \notin S
    <3>1. Len(l) < n
      BY <2>2
    <3>2. OK(l, n)
      BY <2>2, <3>1
    <3> QED
      BY <1>1, <2>1, <2>2, <2>4, <3>2
  <2> QED
    BY <2>3, <2>4
<1>5. Kept(q, S) \in R[Len(q)] /\ Kept(q, S) \in Seq(X)
  BY <1>3, <1>4, KeptBy
<1>6. OK(Kept(q, S), Len(q))
  BY <1>1, <1>2, <1>5
<1> QED
  BY <1>5, <1>6

LEMMA KeptFirst ==
  ASSUME NEW X, NEW q \in Seq(X), NEW S, 1 \in S, q # <<>>
  PROVE  Kept(q, S) # <<>>
<1>1. PICK R : R = [n \in 0..Len(q) |-> {l \in Seq(X) : n # 0 => l # <<>>}]
  OBVIOUS
<1>2. Len(q) \in Nat /\ Len(q) # 0
  OBVIOUS
<1>3. <<>> \in R[0]
  BY <1>1, <1>2
<1>4. ASSUME NEW n \in 1..Len(q), NEW l \in R[n - 1] \cap Seq(X)
      PROVE  IF n \in S THEN Append(l, q[n]) \in R[n] ELSE l \in R[n]
  <2>1. n \in 0..Len(q) /\ n - 1 \in 0..Len(q) /\ l \in Seq(X) /\ (n - 1 # 0 => l # <<>>)
    BY <1>1, <1>2
  <2>2. CASE n \in S
    <3>1. Append(l, q[n]) \in Seq(X) /\ Append(l, q[n]) # <<>>
      BY <2>1
    <3> QED
      BY <1>1, <2>1, <2>2, <3>1
  <2>3. CASE n \notin S
    <3>1. n - 1 # 0
      BY <2>3
    <3> QED
      BY <1>1, <2>1, <2>3, <3>1
  <2> QED
    BY <2>2, <2>3
<1>5. Kept(q, S) \in R[Len(q)]
  BY <1>3, <1>4, KeptBy
<1> QED
  BY <1>1, <1>2, <1>5

\* The places of what was queued from behind the replay.
Behind(q, n) == {i \in 1..n : q[i].class = "SeedCatchUp"}
Count(q) == Cardinality(Behind(q, Len(q)))

LEMMA BehindGrows ==
  ASSUME NEW q, NEW n \in Nat
  PROVE  /\ IsFiniteSet(Behind(q, n)) /\ Cardinality(Behind(q, n)) \in Nat
         /\ Cardinality(Behind(q, 0)) = 0
         /\ q[n + 1].class = "SeedCatchUp" => Cardinality(Behind(q, n + 1)) = Cardinality(Behind(q, n)) + 1
         /\ q[n + 1].class # "SeedCatchUp" => Behind(q, n + 1) = Behind(q, n)
<1>1. IsFiniteSet(Behind(q, n))
  <2>1. IsFiniteSet(1..n)
    BY FS_Interval
  <2>2. Behind(q, n) \in SUBSET (1..n)
    BY DEF Behind
  <2> QED
    BY <2>1, <2>2, FS_Subset
<1>2. Cardinality(Behind(q, n)) \in Nat
  BY <1>1, FS_CardinalityType
<1>3. Cardinality(Behind(q, 0)) = 0
  <2>1. Behind(q, 0) = {}
    BY DEF Behind
  <2> QED
    BY <2>1, FS_EmptySet
<1>4. ASSUME q[n + 1].class = "SeedCatchUp"
      PROVE  Cardinality(Behind(q, n + 1)) = Cardinality(Behind(q, n)) + 1
  <2>1. Behind(q, n + 1) = Behind(q, n) \cup {n + 1} /\ n + 1 \notin Behind(q, n)
    BY <1>4 DEF Behind
  <2> QED
    BY <1>1, <2>1, FS_AddElement
<1>5. ASSUME q[n + 1].class # "SeedCatchUp"
      PROVE  Behind(q, n + 1) = Behind(q, n)
  BY <1>5 DEF Behind
<1> QED
  BY <1>1, <1>2, <1>3, <1>4, <1>5

LEMMA CountType ==
  ASSUME NEW X, NEW q \in Seq(X)
  PROVE  Count(q) \in Nat /\ Count(<<>>) = 0
<1>1. Len(q) \in Nat /\ Len(<<>>) = 0
  OBVIOUS
<1> QED
  BY <1>1, BehindGrows DEF Count

LEMMA CountAppend ==
  ASSUME NEW X, NEW q \in Seq(X), NEW f
  PROVE  /\ f.class = "SeedCatchUp" => Count(Append(q, f)) = Count(q) + 1
         /\ f.class # "SeedCatchUp" => Count(Append(q, f)) = Count(q)
<1>1. PICK n \in Nat : n = Len(q)
  OBVIOUS
<1>2. PICK t : t = Append(q, f)
  OBVIOUS
<1>3. Len(t) = n + 1 /\ t[n + 1] = f /\ \A i \in 1..n : t[i] = q[i]
  BY <1>1, <1>2
<1>4. Behind(t, n) = Behind(q, n)
  BY <1>3 DEF Behind
<1>5. /\ f.class = "SeedCatchUp" => Cardinality(Behind(t, n + 1)) = Cardinality(Behind(q, n)) + 1
      /\ f.class # "SeedCatchUp" => Cardinality(Behind(t, n + 1)) = Cardinality(Behind(q, n))
  BY <1>3, <1>4, BehindGrows
<1> QED
  BY <1>1, <1>2, <1>3, <1>5 DEF Count

LEMMA CountTail ==
  ASSUME NEW X, NEW q \in Seq(X), q # <<>>
  PROVE  Count(Tail(q)) <= Count(q)
<1>1. PICK n \in Nat : n = Len(q)
  OBVIOUS
<1>2. PICK t : t = Tail(q)
  OBVIOUS
<1>3. n >= 1 /\ Len(t) = n - 1 /\ \A i \in 1..(n - 1) : t[i] = q[i + 1]
  BY <1>1, <1>2
<1>4. PICK A, B : A = Behind(t, n - 1) /\ B = Behind(q, n)
  OBVIOUS
<1>5. IsFiniteSet(B)
  BY <1>4, BehindGrows
<1>6. PICK g : g = [i \in A |-> i + 1]
  OBVIOUS
<1>7. A \subseteq Nat /\ \A i \in A : i + 1 \in B
  BY <1>3, <1>4 DEF Behind
<1>8. g \in Injection(A, B)
  BY <1>6, <1>7 DEF Injection, IsInjective
<1>9. Cardinality(A) <= Cardinality(B)
  BY <1>5, <1>8, FS_Injection
<1> QED
  BY <1>1, <1>2, <1>3, <1>4, <1>9 DEF Count

LEMMA KeptCount ==
  ASSUME NEW X, NEW q \in Seq(X), NEW S
  PROVE  /\ Count(Kept(q, S)) \in Nat /\ Count(Kept(q, S)) <= Count(q)
         /\ (\E i \in 1..Len(q) : i \notin S /\ q[i].class = "SeedCatchUp") => Count(Kept(q, S)) < Count(q)
<1> DEFINE C(n) == Cardinality(Behind(q, n))
           Gap(n) == \E i \in 1..n : i \notin S /\ q[i].class = "SeedCatchUp"
           OK(l, n) == Count(l) <= C(n) /\ (Gap(n) => Count(l) < C(n))
<1>1. PICK R : R = [n \in 0..Len(q) |-> {l \in Seq(X) : OK(l, n)}]
  OBVIOUS
<1>2. Len(q) \in Nat
  OBVIOUS
<1>3. <<>> \in R[0]
  <2>1. <<>> \in Seq(X) /\ ~ Gap(0)
    OBVIOUS
  <2>2. Count(<<>>) = 0 /\ C(0) = 0
    BY BehindGrows, CountType
  <2>3. OK(<<>>, 0)
    BY <2>1, <2>2
  <2> QED
    BY <1>1, <1>2, <2>1, <2>3
<1>4. ASSUME NEW n \in 1..Len(q), NEW l \in R[n - 1] \cap Seq(X)
      PROVE  IF n \in S THEN Append(l, q[n]) \in R[n] ELSE l \in R[n]
  <2>1. n \in 0..Len(q) /\ n - 1 \in 0..Len(q) /\ n - 1 \in Nat /\ (n - 1) + 1 = n
    BY <1>2
  <2>2. OK(l, n - 1) /\ l \in Seq(X) /\ Count(l) \in Nat
    BY <1>1, <2>1, CountType
  <2>3. /\ C(n - 1) \in Nat
        /\ q[n].class = "SeedCatchUp" => C(n) = C(n - 1) + 1
        /\ q[n].class # "SeedCatchUp" => C(n) = C(n - 1)
    BY <2>1, BehindGrows
  <2>4. CASE n \in S
    <3>1. Append(l, q[n]) \in Seq(X)
      BY <2>2
    <3>2. /\ q[n].class = "SeedCatchUp" => Count(Append(l, q[n])) = Count(l) + 1
          /\ q[n].class # "SeedCatchUp" => Count(Append(l, q[n])) = Count(l)
      BY <2>2, CountAppend
    <3>3. Gap(n) => Gap(n - 1)
      BY <2>4
    <3> HIDE DEF Gap, C
    <3>4. OK(Append(l, q[n]), n)
      BY <2>2, <2>3, <3>2, <3>3
    <3> QED
      BY <1>1, <2>1, <2>4, <3>1, <3>4
  <2>5. CASE n \notin S
    <3>1. q[n].class # "SeedCatchUp" => (Gap(n) => Gap(n - 1))
      <4>1. SUFFICES ASSUME q[n].class # "SeedCatchUp", NEW i \in 1..n, i \notin S, q[i].class = "SeedCatchUp"
                     PROVE  Gap(n - 1)
        OBVIOUS
      <4>2. i \in 1..(n - 1)
        BY <4>1
      <4> QED
        BY <4>1, <4>2
    <3> HIDE DEF Gap, C
    <3>2. OK(l, n)
      BY <2>2, <2>3, <3>1
    <3> QED
      BY <1>1, <2>1, <2>2, <2>5, <3>2
  <2> QED
    BY <2>4, <2>5
<1>5. Kept(q, S) \in R[Len(q)] /\ Kept(q, S) \in Seq(X)
  BY <1>3, <1>4, KeptBy
<1>6. OK(Kept(q, S), Len(q))
  BY <1>1, <1>2, <1>5
<1>7. Count(Kept(q, S)) \in Nat
  BY <1>5, CountType
<1> QED
  BY <1>6, <1>7 DEF Count

----------------------------------------------------------------------------
(* The invariant                                                           *)

\* What frames look like: only replays are marked as such.
Proper(f) ==
  /\ f.type # "control" => f.pane # None
  /\ f.type \in {"output", "replay"} => f.ver # 0
  /\ f.class = "SeedReplay" <=> f.type \in {"reset", "replay"}

Outgoing(D) == {f \in Frames(D) : Proper(f)}
Delayed(D) == {f \in Outgoing(D) : f.type \in {"output", "resize", "control"}}

\* A replay that has frames left to send.
Replays(D) ==
  {r \in [pane : D, ver : 0..Versions, geom : 1..2, reset : BOOLEAN, sent : 0..Chunks] :
     ~ ReplayDone(r) /\ (r.ver = 0 \/ r.reset => r.sent = 0)}

SeedTypes(D) ==
  [kind : {"none", "Attach", "Resync"},
   manifest : [Pane -> {"absent", "Pending", "Replaying", "CatchingUp", "Live"}],
   pending : Seq(D), replay : Replays(D) \cup {NoReplay}, catch_up : Seq(Delayed(D)),
   baseline_queued : BOOLEAN, outdated : SUBSET D]

\* The panes that wait for their export are those listed.
Listed(sd) ==
  /\ \A i, j \in 1..Len(sd.pending) : sd.pending[i] = sd.pending[j] => i = j
  /\ \A p \in Pane : sd.manifest[p] = "Pending" <=> \E i \in 1..Len(sd.pending) : sd.pending[i] = p

\* What waits behind a replay: nothing of a pane that is to be exported again, and
\* no introduction of a pane the barrier knows.
Orderly(sd) ==
  /\ \A p \in Pane : sd.manifest[p] = "Pending" \/ p \in sd.outdated => Idle(p, sd.catch_up)
  /\ \A i \in 1..Len(sd.catch_up) :
       sd.catch_up[i].type = "control" /\ sd.catch_up[i].pane # None =>
         sd.manifest[sd.catch_up[i].pane] = "absent"

SeedOK(sd, D) ==
  /\ sd \in SeedTypes(D)
  /\ sd.kind = "none" => sd = NoSeed
  /\ sd.baseline_queued =>
       sd.pending = <<>> /\ sd.replay = NoReplay /\ sd.catch_up = <<>> /\ sd.outdated = {}
  /\ \A p \in Pane : sd.manifest[p] # "absent" => p \in D
  /\ sd.replay # NoReplay => sd.manifest[sd.replay.pane] = "Replaying"
  /\ \A p \in sd.outdated : sd.manifest[p] \notin {"absent", "Pending"}
  /\ Listed(sd) /\ Orderly(sd)

Bounded(s) ==
  /\ Len(s.outbox) <= max_backlog
  /\ Len(s.seed.catch_up) + Count(s.outbox) <= SEED_CATCH_UP_LIMIT

ConnOK(s, D) ==
  /\ s \in [outbox : Seq(Outgoing(D)), front_started : BOOLEAN, seed : SeedTypes(D),
            resync_pending : SUBSET D, attached : BOOLEAN]
  /\ SeedOK(s.seed, D) /\ Bounded(s)
  /\ s.front_started => s.outbox # <<>>
  /\ replay_barrier_up(s) => s.resync_pending = {}

\* A pane whose transcript has been cut and that will be exported.
Stale(s, p) == p \in s.resync_pending \/ p \in s.seed.outdated \/ s.seed.manifest[p] = "Pending"

\* Where a lane goes on behind the replay in progress.
Junction(sd, c, y) ==
  IF c # None /\ sd.replay.pane = c
  THEN [y EXCEPT !.ver = sd.replay.ver, !.part = 0, !.geom = sd.replay.geom] ELSE y

\* Where the outbox leaves a pane that the barrier knows or replays.
OnReplay(sd, c, y) ==
  /\ sd.manifest[c] # "absent" => y.known
  /\ sd.replay.pane = c /\ ~ sd.replay.reset =>
       /\ y.geom = sd.replay.geom
       /\ IF sd.replay.sent = 0 THEN y.ver = 0 /\ y.part = 0
          ELSE y.ver = sd.replay.ver /\ y.part = sd.replay.sent

\* What is queued leads lane c from x to z.
Lane(out, sd, c, x, z) ==
  \E y \in Screens :
    /\ Chain(c, x, out, y) /\ Chain(c, Junction(sd, c, y), sd.catch_up, z)
    /\ c \in Pane => OnReplay(sd, c, y)

\* A pane's lane ends where the server is, unless the pane will be exported.
Ends(s, p, pane, z) ==
  /\ pane.state # "none" => z.known
  /\ pane.state # "exited" /\ ~ Stale(s, p) => z.ver = pane.ver /\ z.part = 0 /\ z.geom = pane.geom

Met == {p \in Pane : panes[p].state # "none"}

\* The controls as a lane.
Counter(n) == [known |-> TRUE, ver |-> n, part |-> 0, geom |-> 1, torn |-> FALSE]

\* Every lane, from what the client u shows and has applied to what the server has.
Followed(s, pn, u, cs) ==
  /\ \A p \in Pane : \E z \in Screens : Lane(s.outbox, s.seed, p, u[p], z) /\ Ends(s, p, pn[p], z)
  /\ \E z \in Screens : Lane(s.outbox, s.seed, None, Counter(cs.applied), z) /\ z.ver = cs.sent

Inv ==
  /\ panes \in [Pane -> [state : {"none", "live", "exited"}, ver : 0..Versions, geom : 1..2]]
  /\ \A p \in Pane : panes[p].state = "none" => panes[p].geom = 1
  /\ ui \in [Pane -> Screens]
  /\ controls \in [sent : 0..Versions, applied : 0..Versions, lost : {FALSE}]
  /\ reading \in BOOLEAN /\ inputs \in 0..MaxInputs
  /\ ConnOK(conn, Met)
  /\ conn.attached => Followed(conn, panes, ui, controls)

----------------------------------------------------------------------------
(* Lanes and queues                                                        *)

LEMMA FramesWiden ==
  ASSUME NEW D \in SUBSET Pane
  PROVE  /\ \A q \in Seq(Outgoing(D)) : q \in Seq(Frames(Pane))
         /\ \A q \in Seq(Delayed(D)) : q \in Seq(Frames(Pane)) /\ q \in Seq(Outgoing(D))
<1>1. \A f \in Outgoing(D) : f \in Frames(Pane)
  BY DEF Outgoing, Frames
<1>2. \A f \in Delayed(D) : f \in Outgoing(D)
  BY DEF Delayed
<1>3. ASSUME NEW q \in Seq(Outgoing(D))
      PROVE  q \in Seq(Frames(Pane))
  <2>1. \A i \in 1..Len(q) : q[i] \in Frames(Pane)
    BY <1>1
  <2> QED
    BY <2>1
<1>4. ASSUME NEW q \in Seq(Delayed(D))
      PROVE  q \in Seq(Frames(Pane)) /\ q \in Seq(Outgoing(D))
  <2>1. \A i \in 1..Len(q) : q[i] \in Frames(Pane) /\ q[i] \in Outgoing(D)
    BY <1>1, <1>2
  <2> QED
    BY <2>1
<1> QED
  BY <1>3, <1>4

LEMMA GoesClass ==
  ASSUME NEW c, NEW x, NEW D, NEW f \in Frames(D), NEW class, NEW y
  PROVE  Goes(c, x, f, y) <=> Goes(c, x, [f EXCEPT !.class = class], y)
<1>1. PICK g : g = [f EXCEPT !.class = class]
  OBVIOUS
<1>2. g.type = f.type /\ g.pane = f.pane /\ g.ver = f.ver /\ g.geom = f.geom /\ g.part = f.part
  BY <1>1 DEF Frames
<1>3. InLane(c, g) <=> InLane(c, f)
  BY <1>2 DEF InLane
<1>4. Fits(x, g) <=> Fits(x, f)
  BY <1>2 DEF Fits
<1>5. Drawn(x, g) = Drawn(x, f)
  BY <1>2, <1>4 DEF Drawn
<1>6. (Meets(c, x, g) <=> Meets(c, x, f)) /\ Effect(c, x, g) = Effect(c, x, f)
  BY <1>2, <1>4, <1>5 DEF Meets, Effect
<1> QED
  BY <1>1, <1>3, <1>6 DEF Goes

LEMMA JunctionType ==
  ASSUME NEW D, NEW sd \in SeedTypes(D), NEW c, NEW y \in Screens, D \in SUBSET Pane
  PROVE  /\ Junction(sd, c, y) \in Screens /\ Junction(sd, c, y).known = y.known
         /\ c = None \/ sd.replay.pane # c => Junction(sd, c, y) = y
         /\ c # None /\ sd.replay.pane = c =>
              /\ Junction(sd, c, y).ver = sd.replay.ver /\ Junction(sd, c, y).part = 0
              /\ Junction(sd, c, y).geom = sd.replay.geom
<1>1. CASE c = None \/ sd.replay.pane # c
  BY <1>1 DEF Junction
<1>2. CASE c # None /\ sd.replay.pane = c
  <2>1. sd.replay \in Replays(D)
    <3>1. sd.replay \in Replays(D) \cup {NoReplay} /\ sd.replay # NoReplay
      BY <1>2 DEF SeedTypes, NoReplay
    <3> QED
      BY <3>1
  <2>2. sd.replay.ver \in 0..Versions /\ sd.replay.geom \in 1..2
    BY <2>1 DEF Replays
  <2>3. 0 \in 0..Chunks
    BY SizesAssumption
  <2>4. PICK v, g : v = sd.replay.ver /\ g = sd.replay.geom
    OBVIOUS
  <2>5. Junction(sd, c, y) = [y EXCEPT !.ver = v, !.part = 0, !.geom = g]
    BY <1>2, <2>4 DEF Junction
  <2> QED
    BY <1>2, <2>2, <2>3, <2>4, <2>5 DEF Screens
<1> QED
  BY <1>1, <1>2

\* A frame at the end of the outbox.
LEMMA LaneAppend ==
  ASSUME NEW D \in SUBSET Pane, NEW out \in Seq(Outgoing(D)), NEW sd \in SeedTypes(D), NEW c \in Lanes, NEW x,
         NEW z, Lane(out, sd, c, x, z), NEW f \in Frames(Pane), NEW w, Goes(c, z, f, w),
         InLane(c, f) => Idle(c, sd.catch_up) /\ (c = None \/ sd.replay.pane # c)
  PROVE  Lane(Append(out, f), sd, c, x, w)
<1>1. PICK y \in Screens : /\ Chain(c, x, out, y) /\ Chain(c, Junction(sd, c, y), sd.catch_up, z)
                           /\ c \in Pane => OnReplay(sd, c, y)
  BY DEF Lane
<1>2. out \in Seq(Frames(Pane)) /\ sd.catch_up \in Seq(Frames(Pane))
  BY FramesWiden DEF SeedTypes
<1>3. CASE ~ InLane(c, f)
  <2>1. w = z /\ Goes(c, y, f, y)
    BY <1>3 DEF Goes
  <2>2. Chain(c, x, Append(out, f), y)
    BY <1>1, <1>2, <2>1, ChainAppend
  <2> QED
    BY <1>1, <2>1, <2>2 DEF Lane
<1>4. CASE InLane(c, f)
  <2>1. Junction(sd, c, y) = y
    BY <1>4, JunctionType
  <2>2. z = y
    BY <1>1, <1>2, <1>4, <2>1, ChainIdle
  <2>3. w \in Screens /\ (y.known => w.known)
    BY <2>2, GoesOn
  <2>4. Chain(c, x, Append(out, f), w)
    BY <1>1, <1>2, <2>2, <2>3, ChainAppend
  <2>5. Junction(sd, c, w) = w
    BY <1>4, <2>3, JunctionType
  <2>6. Chain(c, w, sd.catch_up, w)
    BY <1>2, <1>4, <2>3, ChainIdle
  <2>7. c \in Pane => OnReplay(sd, c, w)
    <3>1. c \in Pane => c # None
      BY DEF Pane, None
    <3> QED
      BY <1>1, <1>4, <2>3, <3>1 DEF OnReplay
  <2> QED
    BY <2>3, <2>4, <2>5, <2>6, <2>7 DEF Lane
<1> QED
  BY <1>3, <1>4

\* A frame at the end of what waits behind the replay.
LEMMA LaneRetain ==
  ASSUME NEW D \in SUBSET Pane, NEW out \in Seq(Outgoing(D)), NEW sd \in SeedTypes(D), NEW c \in Lanes, NEW x,
         NEW z, Lane(out, sd, c, x, z), NEW f \in Frames(Pane), NEW w, Goes(c, z, f, w)
  PROVE  Lane(out, [sd EXCEPT !.catch_up = Append(sd.catch_up, f)], c, x, w)
<1>1. PICK y \in Screens : /\ Chain(c, x, out, y) /\ Chain(c, Junction(sd, c, y), sd.catch_up, z)
                           /\ c \in Pane => OnReplay(sd, c, y)
  BY DEF Lane
<1>2. sd.catch_up \in Seq(Frames(Pane))
  BY FramesWiden DEF SeedTypes
<1>3. z \in Screens
  BY <1>1, <1>2, ChainType
<1>4. w \in Screens
  BY <1>3, GoesOn
<1>5. Chain(c, Junction(sd, c, y), Append(sd.catch_up, f), w)
  BY <1>1, <1>2, <1>4, ChainAppend
<1>6. PICK t : t = [sd EXCEPT !.catch_up = Append(sd.catch_up, f)]
  OBVIOUS
<1>7. t.catch_up = Append(sd.catch_up, f) /\ t.replay = sd.replay /\ t.manifest = sd.manifest
  BY <1>6 DEF SeedTypes
<1>8. Junction(t, c, y) = Junction(sd, c, y) /\ (OnReplay(t, c, y) <=> OnReplay(sd, c, y))
  BY <1>7 DEF Junction, OnReplay
<1>9. Lane(out, t, c, x, w)
  BY <1>1, <1>5, <1>7, <1>8 DEF Lane
<1> QED
  BY <1>6, <1>9

----------------------------------------------------------------------------
(* Shedding a pane                                                         *)

\* Without a barrier nothing waits and nothing is to be exported.
LEMMA BarrierDown ==
  ASSUME NEW D \in SUBSET Pane, NEW s, ConnOK(s, D), ~ replay_barrier_up(s)
  PROVE  /\ s.seed.catch_up = <<>> /\ s.seed.replay = NoReplay /\ s.seed.pending = <<>> /\ s.seed.outdated = {}
         /\ \A p \in Pane : s.seed.manifest[p] # "Pending"
<1>1. SeedOK(s.seed, D)
  BY DEF ConnOK
<1>2. CASE s.seed.kind = "none"
  BY <1>1, <1>2 DEF SeedOK, NoSeed
<1>3. CASE s.seed.kind # "none"
  <2>1. s.seed.baseline_queued
    BY <1>3 DEF replay_barrier_up
  <2>2. /\ s.seed.catch_up = <<>> /\ s.seed.replay = NoReplay /\ s.seed.pending = <<>> /\ s.seed.outdated = {}
    BY <1>1, <2>1 DEF SeedOK
  <2>3. \A p \in Pane : s.seed.manifest[p] = "Pending" <=> \E i \in 1..Len(s.seed.pending) : s.seed.pending[i] = p
    BY <1>1 DEF SeedOK, Listed
  <2> QED
    BY <2>2, <2>3
<1> QED
  BY <1>2, <1>3

LEMMA PaneIsPane == \A p \in Pane : p \in Nat /\ p # None
BY SizesAssumption DEF Pane, None

\* The places a purge empties hold output of the pane, and its replays when no
\* barrier is up.
Emptied(s, p) == (DOMAIN s.outbox) \ Droppables(s, p)

LEMMA PurgeDrops ==
  ASSUME NEW D \in SUBSET Pane, NEW s, ConnOK(s, D), NEW p \in Pane
  PROVE  /\ s.outbox \in Seq(Outgoing(D)) /\ s.outbox \in Seq(Frames(Pane)) /\ DOMAIN s.outbox = 1..Len(s.outbox)
         /\ \A i \in 1..Len(s.outbox) : i \notin Emptied(s, p) =>
              /\ s.outbox[i].pane = p /\ s.outbox[i].ver # 0
              /\ \/ s.outbox[i].type = "output"
                 \/ s.outbox[i].type = "replay" /\ ~ replay_barrier_up(s)
         /\ \A i \in 1..Len(s.outbox) : i \in Emptied(s, p) /\ i > 1 /\ s.outbox[i].pane = p =>
              \/ s.outbox[i].type \in {"control", "resize", "reset"}
              \/ s.outbox[i].type = "replay" /\ replay_barrier_up(s)
<1>1. s.outbox \in Seq(Outgoing(D)) /\ s.outbox \in Seq(Frames(Pane)) /\ DOMAIN s.outbox = 1..Len(s.outbox)
  BY FramesWiden DEF ConnOK
<1>2. p # None
  BY PaneIsPane
<1>3. ASSUME NEW i \in 1..Len(s.outbox)
      PROVE  s.outbox[i].type \in Kinds /\ Proper(s.outbox[i])
  BY <1>1 DEF Outgoing, Frames
<1>4. ASSUME NEW i \in 1..Len(s.outbox), i \notin Emptied(s, p)
      PROVE  /\ s.outbox[i].pane = p /\ s.outbox[i].ver # 0
             /\ \/ s.outbox[i].type = "output"
                \/ s.outbox[i].type = "replay" /\ ~ replay_barrier_up(s)
  <2>1. OutputPane(s.outbox[i]) = p /\ Droppable(s, s.outbox[i])
    BY <1>1, <1>4 DEF Emptied, Droppables
  <2>2. s.outbox[i].type \in {"output", "replay"} /\ s.outbox[i].pane = p
    BY <1>2, <2>1 DEF OutputPane
  <2>3. s.outbox[i].ver # 0 /\ (s.outbox[i].type = "replay" => s.outbox[i].class = "SeedReplay")
    BY <1>3, <2>2 DEF Proper
  <2> QED
    BY <2>1, <2>2, <2>3 DEF Droppable
<1>5. ASSUME NEW i \in 1..Len(s.outbox), i \in Emptied(s, p), i > 1, s.outbox[i].pane = p
      PROVE  \/ s.outbox[i].type \in {"control", "resize", "reset"}
             \/ s.outbox[i].type = "replay" /\ replay_barrier_up(s)
  <2>1. ~ (OutputPane(s.outbox[i]) = p /\ Droppable(s, s.outbox[i]))
    BY <1>1, <1>5 DEF Emptied, Droppables, sheddable_outbox
  <2>2. CASE s.outbox[i].type \in {"output", "replay"}
    <3>1. ~ Droppable(s, s.outbox[i])
      BY <1>5, <2>1, <2>2 DEF OutputPane
    <3>2. replay_barrier_up(s) /\ s.outbox[i].class = "SeedReplay"
      BY <3>1 DEF Droppable
    <3> QED
      BY <1>3, <2>2, <3>2 DEF Proper
  <2>3. CASE s.outbox[i].type \notin {"output", "replay"}
    BY <1>3, <2>3 DEF Kinds
  <2> QED
    BY <2>2, <2>3
<1> QED
  BY <1>1, <1>4, <1>5

\* The same for the places behind the replay.
Unwaited(s, p) == (DOMAIN s.seed.catch_up) \ Waiting(s, p)

LEMMA WaitingDrops ==
  ASSUME NEW D \in SUBSET Pane, NEW s, ConnOK(s, D), NEW p \in Pane
  PROVE  /\ s.seed.catch_up \in Seq(Delayed(D)) /\ s.seed.catch_up \in Seq(Frames(Pane))
         /\ DOMAIN s.seed.catch_up = 1..Len(s.seed.catch_up)
         /\ \A i \in 1..Len(s.seed.catch_up) : i \notin Unwaited(s, p) =>
              s.seed.catch_up[i].pane = p /\ s.seed.catch_up[i].type \in {"output", "resize"}
         /\ \A i \in 1..Len(s.seed.catch_up) : i \in Unwaited(s, p) /\ s.seed.catch_up[i].pane = p =>
              s.seed.catch_up[i].type = "control"
<1>1. s.seed.catch_up \in Seq(Delayed(D))
  BY DEF ConnOK, SeedTypes
<1>2. s.seed.catch_up \in Seq(Frames(Pane)) /\ DOMAIN s.seed.catch_up = 1..Len(s.seed.catch_up)
  BY <1>1, FramesWiden
<1>3. p # None
  BY PaneIsPane
<1>4. ASSUME NEW i \in 1..Len(s.seed.catch_up)
      PROVE  s.seed.catch_up[i].type \in {"output", "resize", "control"}
  BY <1>1 DEF Delayed
<1>5. ASSUME NEW i \in 1..Len(s.seed.catch_up), i \notin Unwaited(s, p)
      PROVE  s.seed.catch_up[i].pane = p /\ s.seed.catch_up[i].type \in {"output", "resize"}
  <2>1. DeltaPane(s.seed.catch_up[i]) = p
    BY <1>2, <1>5 DEF Unwaited, Waiting
  <2> QED
    BY <1>3, <2>1 DEF DeltaPane
<1>6. ASSUME NEW i \in 1..Len(s.seed.catch_up), i \in Unwaited(s, p), s.seed.catch_up[i].pane = p
      PROVE  s.seed.catch_up[i].type = "control"
  <2>1. DeltaPane(s.seed.catch_up[i]) # p
    BY <1>2, <1>6 DEF Unwaited, Waiting
  <2> QED
    BY <1>4, <1>6, <2>1 DEF DeltaPane
<1> QED
  BY <1>1, <1>2, <1>5, <1>6

\* The fields after a shed.
ShedTo(s, t, p) ==
  /\ t.outbox = Kept(s.outbox, Emptied(s, p)) /\ t.front_started = s.front_started /\ t.attached = s.attached
  /\ ~ replay_barrier_up(s) => t.seed = s.seed /\ t.resync_pending = s.resync_pending \cup {p}
  /\ replay_barrier_up(s) =>
       /\ t.resync_pending = s.resync_pending
       /\ t.seed.kind = s.seed.kind /\ t.seed.manifest = s.seed.manifest /\ t.seed.pending = s.seed.pending
       /\ t.seed.replay = s.seed.replay /\ t.seed.baseline_queued = s.seed.baseline_queued
       /\ t.seed.catch_up = Kept(s.seed.catch_up, Unwaited(s, p))
       /\ t.seed.outdated = IF s.seed.manifest[p] = "Pending" THEN s.seed.outdated ELSE s.seed.outdated \cup {p}
       /\ t.seed = [kind |-> t.seed.kind, manifest |-> t.seed.manifest, pending |-> t.seed.pending,
                    replay |-> t.seed.replay, catch_up |-> t.seed.catch_up,
                    baseline_queued |-> t.seed.baseline_queued, outdated |-> t.seed.outdated]
  /\ t = [outbox |-> t.outbox, front_started |-> t.front_started, seed |-> t.seed,
          resync_pending |-> t.resync_pending, attached |-> t.attached]

LEMMA ShedFields ==
  ASSUME NEW D \in SUBSET Pane, NEW s, ConnOK(s, D), NEW p \in Pane
  PROVE  ShedTo(s, shed_pane(s, p), p)
<1>1. /\ s \in [outbox : Seq(Outgoing(D)), front_started : BOOLEAN, seed : SeedTypes(D),
                resync_pending : SUBSET D, attached : BOOLEAN]
      /\ s.seed \in SeedTypes(D)
  BY DEF ConnOK
<1>2. PICK k : k = Kept(s.outbox, Emptied(s, p))
  OBVIOUS
<1>3. PICK u : u = [s EXCEPT !.outbox = k]
  OBVIOUS
<1>4. u = purge_outbox_pane(s, p)
  BY <1>2, <1>3 DEF purge_outbox_pane, Emptied
<1>5. /\ u.outbox = k /\ u.front_started = s.front_started /\ u.seed = s.seed
      /\ u.resync_pending = s.resync_pending /\ u.attached = s.attached
      /\ u = [outbox |-> u.outbox, front_started |-> u.front_started, seed |-> u.seed,
              resync_pending |-> u.resync_pending, attached |-> u.attached]
  BY <1>1, <1>3
<1>6. PICK t : t = shed_pane(s, p)
  OBVIOUS
<1>7. CASE ~ replay_barrier_up(s)
  <2>1. t = [u EXCEPT !.resync_pending = s.resync_pending \cup {p}]
    BY <1>4, <1>6, <1>7 DEF shed_pane
  <2>2. /\ t.outbox = k /\ t.front_started = s.front_started /\ t.seed = s.seed
        /\ t.resync_pending = s.resync_pending \cup {p} /\ t.attached = s.attached
        /\ t = [outbox |-> t.outbox, front_started |-> t.front_started, seed |-> t.seed,
                resync_pending |-> t.resync_pending, attached |-> t.attached]
    BY <1>5, <2>1
  <2> QED
    BY <1>2, <1>6, <1>7, <2>2 DEF ShedTo
<1>8. CASE replay_barrier_up(s)
  <2>1. PICK cu, od : /\ cu = Kept(s.seed.catch_up, Unwaited(s, p))
                      /\ od = IF s.seed.manifest[p] = "Pending" THEN s.seed.outdated ELSE s.seed.outdated \cup {p}
    OBVIOUS
  <2>2. PICK sd : sd = [s.seed EXCEPT !.catch_up = cu, !.outdated = od]
    OBVIOUS
  <2>3. t = [u EXCEPT !.seed = sd]
    BY <1>4, <1>6, <1>8, <2>1, <2>2 DEF shed_pane, Unwaited
  <2>4. /\ sd.kind = s.seed.kind /\ sd.manifest = s.seed.manifest /\ sd.pending = s.seed.pending
        /\ sd.replay = s.seed.replay /\ sd.baseline_queued = s.seed.baseline_queued
        /\ sd.catch_up = cu /\ sd.outdated = od
        /\ sd = [kind |-> sd.kind, manifest |-> sd.manifest, pending |-> sd.pending,
                 replay |-> sd.replay, catch_up |-> sd.catch_up,
                 baseline_queued |-> sd.baseline_queued, outdated |-> sd.outdated]
    BY <1>1, <2>2 DEF SeedTypes
  <2>5. /\ t.outbox = k /\ t.front_started = s.front_started /\ t.seed = sd
        /\ t.resync_pending = s.resync_pending /\ t.attached = s.attached
        /\ t = [outbox |-> t.outbox, front_started |-> t.front_started, seed |-> t.seed,
                resync_pending |-> t.resync_pending, attached |-> t.attached]
    BY <1>5, <2>3
  <2> QED
    BY <1>2, <1>6, <1>8, <2>1, <2>4, <2>5 DEF ShedTo
<1> QED
  BY <1>7, <1>8

\* The panes of a set in order: each once.
LEMMA AscendingIs ==
  ASSUME NEW S \in SUBSET Pane
  PROVE  /\ Ascending(S) \in Seq(S)
         /\ \A i, j \in 1..Len(Ascending(S)) : Ascending(S)[i] = Ascending(S)[j] => i = j
         /\ \A p \in S : \E i \in 1..Len(Ascending(S)) : Ascending(S)[i] = p
<1>1. PICK q : q = [p \in Pane |-> p]
  OBVIOUS
<1>2. MaxPanes \in Nat /\ Pane = 1..MaxPanes
  BY SizesAssumption DEF Pane
<1>3. q \in Seq(Pane) /\ Len(q) = MaxPanes /\ \A n \in 1..MaxPanes : q[n] = n
  BY <1>1, <1>2
<1> DEFINE OK(l, n) == /\ \A i \in 1..Len(l) : l[i] \in S /\ l[i] <= n
                       /\ \A i, j \in 1..Len(l) : l[i] = l[j] => i = j
                       /\ \A p \in S : p <= n => \E i \in 1..Len(l) : l[i] = p
<1>4. PICK R : R = [n \in 0..Len(q) |-> {l \in Seq(Pane) : OK(l, n)}]
  OBVIOUS
<1>5. <<>> \in R[0]
  <2>1. OK(<<>>, 0)
    BY <1>2
  <2> QED
    BY <1>2, <1>3, <1>4, <2>1
<1>6. ASSUME NEW n \in 1..Len(q), NEW l \in R[n - 1] \cap Seq(Pane)
      PROVE  IF n \in S THEN Append(l, q[n]) \in R[n] ELSE l \in R[n]
  <2>1. n \in 0..Len(q) /\ n - 1 \in 0..Len(q) /\ q[n] = n /\ n \in Pane
    BY <1>2, <1>3
  <2>2. OK(l, n - 1) /\ l \in Seq(Pane)
    BY <1>4, <2>1
  <2>3. PICK m \in Nat : m = Len(l)
    BY <2>2
  <2>4. S \subseteq Nat /\ n \in Nat
    BY <1>2, <1>3
  <2>5. CASE n \in S
    <3>1. PICK t : t = Append(l, n)
      OBVIOUS
    <3>2. t \in Seq(Pane) /\ Len(t) = m + 1 /\ t[m + 1] = n /\ \A i \in 1..m : t[i] = l[i]
      BY <2>1, <2>2, <2>3, <3>1
    <3>3. \A i \in 1..Len(t) : i \in 1..m \/ i = m + 1
      BY <3>2
    <3>4. \A i \in 1..m : l[i] \in S /\ l[i] <= n - 1 /\ l[i] # n /\ l[i] <= n
      <4>1. \A i \in 1..m : l[i] \in S /\ l[i] <= n - 1
        BY <2>2, <2>3
      <4>2. \A k \in S : k \in Nat /\ (k <= n - 1 => k # n /\ k <= n)
        BY <2>4
      <4> QED
        BY <4>1, <4>2
    <3>5. \A i \in 1..Len(t) : t[i] \in S /\ t[i] <= n
      BY <2>5, <3>2, <3>3, <3>4
    <3>6. \A i, j \in 1..Len(t) : t[i] = t[j] => i = j
      BY <2>2, <2>3, <3>2, <3>3, <3>4
    <3>7. ASSUME NEW p \in S, p <= n
          PROVE  \E i \in 1..Len(t) : t[i] = p
      <4>1. CASE p = n
        <5>1. m + 1 \in 1..Len(t)
          BY <3>2
        <5> QED
          BY <3>2, <4>1, <5>1
      <4>2. CASE p # n
        <5>1. p <= n - 1
          BY <2>4, <3>7, <4>2
        <5>2. PICK i \in 1..m : l[i] = p
          BY <2>2, <2>3, <5>1
        <5>3. i \in 1..Len(t)
          BY <3>2
        <5> QED
          BY <3>2, <5>2, <5>3
      <4> QED
        BY <4>1, <4>2
    <3>8. OK(t, n)
      BY <3>5, <3>6, <3>7
    <3> HIDE DEF OK
    <3>9. t \in R[n]
      BY <1>4, <2>1, <3>2, <3>8
    <3> QED
      BY <2>1, <2>5, <3>1, <3>9
  <2>6. CASE n \notin S
    <3>1. \A i \in 1..Len(l) : l[i] \in S /\ l[i] <= n
      <4>1. \A i \in 1..Len(l) : l[i] \in S /\ l[i] <= n - 1
        BY <2>2
      <4>2. \A k \in S : k \in Nat /\ (k <= n - 1 => k <= n)
        BY <2>4
      <4> QED
        BY <4>1, <4>2
    <3>2. \A p \in S : p <= n => p <= n - 1
      BY <2>4, <2>6
    <3>3. OK(l, n)
      BY <2>2, <3>1, <3>2
    <3> HIDE DEF OK
    <3>4. l \in R[n]
      BY <1>4, <2>1, <2>2, <3>3
    <3> QED
      BY <2>6, <3>4
  <2> QED
    BY <2>5, <2>6
<1> HIDE DEF OK
<1>7. Kept(q, S) \in R[Len(q)] /\ Kept(q, S) \in Seq(Pane)
  BY <1>3, <1>5, <1>6, KeptBy
<1>8. PICK l : l = Ascending(S)
  OBVIOUS
<1>9. OK(l, Len(q)) /\ l \in Seq(Pane)
  BY <1>1, <1>2, <1>3, <1>4, <1>7, <1>8 DEF Ascending
<1>10. l \in Seq(S)
  BY <1>9 DEF OK
<1>11. \A p \in S : p <= Len(q)
  BY <1>2, <1>3
<1> QED
  BY <1>8, <1>9, <1>10, <1>11 DEF OK

\* Some of the pane waits behind the replay, or has just moved on from there.
Retains(s, p) ==
  \/ Waiting(s, p) # {}
  \/ \E i \in sheddable_outbox(s) : s.outbox[i].class = "SeedCatchUp" /\ OutputPane(s.outbox[i]) = p

\* What a shed frees.
Freed(s, t, p) ==
  /\ Len(t.outbox) \in Nat /\ Len(t.outbox) <= Len(s.outbox)
  /\ Droppables(s, p) # {} => Len(t.outbox) < Len(s.outbox)
  /\ Len(t.seed.catch_up) + Count(t.outbox) <= Len(s.seed.catch_up) + Count(s.outbox)
  /\ replay_barrier_up(s) /\ Retains(s, p) =>
       Len(t.seed.catch_up) + Count(t.outbox) < Len(s.seed.catch_up) + Count(s.outbox)

LEMMA ShedFrees ==
  ASSUME NEW D \in SUBSET Pane, NEW s, ConnOK(s, D), NEW p \in Pane, NEW t, ShedTo(s, t, p)
  PROVE  Freed(s, t, p)
<1>1. /\ s.outbox \in Seq(Outgoing(D)) /\ DOMAIN s.outbox = 1..Len(s.outbox)
      /\ s.seed.catch_up \in Seq(Delayed(D)) /\ DOMAIN s.seed.catch_up = 1..Len(s.seed.catch_up)
  BY PurgeDrops, WaitingDrops
<1>2. t.outbox = Kept(s.outbox, Emptied(s, p))
  BY DEF ShedTo
<1>3. /\ Len(t.outbox) \in Nat /\ Len(t.outbox) <= Len(s.outbox)
      /\ (\E i \in 1..Len(s.outbox) : i \notin Emptied(s, p)) => Len(t.outbox) < Len(s.outbox)
  BY <1>1, <1>2, KeptShort
<1>4. /\ Count(t.outbox) \in Nat /\ Count(t.outbox) <= Count(s.outbox) /\ Count(s.outbox) \in Nat
      /\ (\E i \in 1..Len(s.outbox) : i \notin Emptied(s, p) /\ s.outbox[i].class = "SeedCatchUp") =>
           Count(t.outbox) < Count(s.outbox)
  BY <1>1, <1>2, KeptCount, CountType
<1>5. Droppables(s, p) # {} => \E i \in 1..Len(s.outbox) : i \notin Emptied(s, p)
  BY <1>1 DEF Emptied, Droppables, sheddable_outbox
<1>6. (\E i \in sheddable_outbox(s) : s.outbox[i].class = "SeedCatchUp" /\ OutputPane(s.outbox[i]) = p) =>
        \E i \in 1..Len(s.outbox) : i \notin Emptied(s, p) /\ s.outbox[i].class = "SeedCatchUp"
  BY <1>1 DEF Emptied, Droppables, Droppable, sheddable_outbox
<1>7. Waiting(s, p) # {} => \E i \in 1..Len(s.seed.catch_up) : i \notin Unwaited(s, p)
  BY <1>1 DEF Unwaited, Waiting
<1>8. PICK a, b : a = Len(t.seed.catch_up) /\ b = Len(s.seed.catch_up)
  OBVIOUS
<1>9. b \in Nat
  BY <1>1, <1>8
<1>10. CASE ~ replay_barrier_up(s)
  <2>1. a = b
    BY <1>8, <1>10 DEF ShedTo
  <2> QED
    BY <1>3, <1>4, <1>5, <1>8, <1>9, <1>10, <2>1 DEF Freed
<1>11. CASE replay_barrier_up(s)
  <2>1. t.seed.catch_up = Kept(s.seed.catch_up, Unwaited(s, p))
    BY <1>11 DEF ShedTo
  <2>2. a \in Nat /\ a <= b /\ ((\E i \in 1..b : i \notin Unwaited(s, p)) => a < b)
    BY <1>1, <1>8, <2>1, KeptShort
  <2>3. PICK m, n : m = Count(t.outbox) /\ n = Count(s.outbox)
    OBVIOUS
  <2>4. a + m <= b + n
    BY <1>4, <1>9, <2>2, <2>3
  <2>5. a < b \/ m < n => a + m < b + n
    BY <1>4, <1>9, <2>2, <2>3
  <2>6. Retains(s, p) => a < b \/ m < n
    BY <1>4, <1>6, <1>7, <1>8, <2>2, <2>3 DEF Retains
  <2> QED
    BY <1>3, <1>5, <1>8, <1>11, <2>3, <2>4, <2>5, <2>6 DEF Freed
<1> QED
  BY <1>10, <1>11

LEMMA KeptFrom ==
  ASSUME NEW X, NEW q \in Seq(X), NEW S
  PROVE  \A i \in 1..Len(Kept(q, S)) : \E j \in 1..Len(q) : j \in S /\ Kept(q, S)[i] = q[j]
<1>1. PICK Y : Y = {q[j] : j \in (1..Len(q)) \cap S}
  OBVIOUS
<1>2. \A j \in 1..Len(q) : j \in S => q[j] \in Y
  BY <1>1
<1>3. PICK l : l = Kept(q, S)
  OBVIOUS
<1>4. l \in Seq(Y)
  BY <1>2, <1>3, KeptIn
<1>5. \A i \in 1..Len(l) : l[i] \in Y
  BY <1>4
<1> QED
  BY <1>1, <1>3, <1>5

LEMMA ShedOK ==
  ASSUME NEW D \in SUBSET Pane, NEW s, ConnOK(s, D), NEW p \in D, pane_is_sheddable(s, p), NEW t, ShedTo(s, t, p)
  PROVE  /\ ConnOK(t, D) /\ (replay_barrier_up(t) <=> replay_barrier_up(s))
         /\ Stale(t, p) /\ \A c \in Pane : Stale(s, c) => Stale(t, c)
<1>1. /\ s \in [outbox : Seq(Outgoing(D)), front_started : BOOLEAN, seed : SeedTypes(D),
                resync_pending : SUBSET D, attached : BOOLEAN]
      /\ SeedOK(s.seed, D) /\ Bounded(s) /\ (s.front_started => s.outbox # <<>>)
      /\ (replay_barrier_up(s) => s.resync_pending = {})
  BY DEF ConnOK
<1>2. p \in Pane
  OBVIOUS
<1>3. /\ t.outbox = Kept(s.outbox, Emptied(s, p)) /\ t.front_started = s.front_started /\ t.attached = s.attached
      /\ t = [outbox |-> t.outbox, front_started |-> t.front_started, seed |-> t.seed,
              resync_pending |-> t.resync_pending, attached |-> t.attached]
  BY DEF ShedTo
<1>4. s.outbox \in Seq(Outgoing(D)) /\ DOMAIN s.outbox = 1..Len(s.outbox)
  BY <1>2, PurgeDrops
<1>5. t.outbox \in Seq(Outgoing(D))
  <2>1. \A i \in 1..Len(s.outbox) : i \in Emptied(s, p) => s.outbox[i] \in Outgoing(D)
    BY <1>4
  <2> QED
    BY <1>3, <1>4, <2>1, KeptIn
<1>6. t.front_started => t.outbox # <<>>
  <2>1. SUFFICES ASSUME s.front_started
                 PROVE  t.outbox # <<>>
    BY <1>3
  <2>2. s.outbox # <<>>
    BY <1>1, <2>1
  <2>3. 1 \in Emptied(s, p)
    BY <1>4, <2>1, <2>2 DEF Emptied, Droppables, sheddable_outbox
  <2> QED
    BY <1>3, <1>4, <2>2, <2>3, KeptFirst
<1>7. Bounded(t)
  <2>1. Freed(s, t, p)
    BY <1>2, ShedFrees
  <2>2. PICK a, b, m, n : a = Len(t.outbox) /\ b = Len(s.outbox) /\ m = Len(t.seed.catch_up) + Count(t.outbox)
                          /\ n = Len(s.seed.catch_up) + Count(s.outbox)
    OBVIOUS
  <2>3. b \in Nat /\ n \in Nat
    <3>1. s.seed.catch_up \in Seq(Delayed(D))
      BY <1>2, WaitingDrops
    <3>2. Len(s.seed.catch_up) \in Nat /\ Count(s.outbox) \in Nat /\ Len(s.outbox) \in Nat
      BY <1>4, <3>1, CountType
    <3> QED
      BY <2>2, <3>2
  <2>4. Len(t.seed.catch_up) \in Nat /\ Count(t.outbox) \in Nat
    <3>1. Count(t.outbox) \in Nat
      BY <1>5, CountType
    <3>2. CASE ~ replay_barrier_up(s)
      BY <2>3, <3>1, <3>2, <1>1 DEF ShedTo, SeedTypes
    <3>3. CASE replay_barrier_up(s)
      <4>1. t.seed.catch_up = Kept(s.seed.catch_up, Unwaited(s, p))
        BY <3>3 DEF ShedTo
      <4> QED
        BY <1>2, <3>1, <4>1, WaitingDrops, KeptShort
    <3> QED
      BY <3>2, <3>3
  <2>5. a <= b /\ m <= n /\ a \in Nat /\ m \in Nat
    BY <2>1, <2>2, <2>4 DEF Freed
  <2>6. b <= max_backlog /\ n <= SEED_CATCH_UP_LIMIT /\ max_backlog \in Nat /\ SEED_CATCH_UP_LIMIT \in Nat
    BY <1>1, <2>2, SizesAssumption DEF Bounded
  <2>7. a <= max_backlog /\ m <= SEED_CATCH_UP_LIMIT
    BY <2>3, <2>5, <2>6
  <2> QED
    BY <2>2, <2>7 DEF Bounded
<1>8. CASE ~ replay_barrier_up(s)
  <2>1. t.seed = s.seed /\ t.resync_pending = s.resync_pending \cup {p}
    BY <1>8 DEF ShedTo
  <2>2. ~ replay_barrier_up(t)
    BY <1>8, <2>1 DEF replay_barrier_up
  <2>3. /\ t.resync_pending \in SUBSET D /\ t.seed \in SeedTypes(D) /\ t.front_started \in BOOLEAN
        /\ t.attached \in BOOLEAN /\ SeedOK(t.seed, D)
    BY <1>1, <1>3, <2>1
  <2>4. t \in [outbox : Seq(Outgoing(D)), front_started : BOOLEAN, seed : SeedTypes(D),
               resync_pending : SUBSET D, attached : BOOLEAN]
    BY <1>3, <1>5, <2>3
  <2>5. ConnOK(t, D)
    BY <1>6, <1>7, <2>2, <2>3, <2>4 DEF ConnOK
  <2>6. Stale(t, p) /\ \A c \in Pane : Stale(s, c) => Stale(t, c)
    BY <2>1 DEF Stale
  <2> QED
    BY <1>8, <2>2, <2>5, <2>6
<1>9. CASE replay_barrier_up(s)
  <2>1. PICK a, b : a = s.seed /\ b = t.seed
    OBVIOUS
  <2>2. /\ t.resync_pending = s.resync_pending
        /\ b.kind = a.kind /\ b.manifest = a.manifest /\ b.pending = a.pending
        /\ b.replay = a.replay /\ b.baseline_queued = a.baseline_queued
        /\ b.catch_up = Kept(a.catch_up, Unwaited(s, p))
        /\ b.outdated = (IF a.manifest[p] = "Pending" THEN a.outdated ELSE a.outdated \cup {p})
        /\ b = [kind |-> b.kind, manifest |-> b.manifest, pending |-> b.pending,
                replay |-> b.replay, catch_up |-> b.catch_up,
                baseline_queued |-> b.baseline_queued, outdated |-> b.outdated]
    BY <1>9, <2>1 DEF ShedTo
  <2>3. a.manifest[p] # "absent"
    BY <1>9, <2>1 DEF pane_is_sheddable
  <2>4. a.kind # "none" /\ ~ a.baseline_queued /\ SeedOK(a, D) /\ a \in SeedTypes(D)
    BY <1>1, <1>9, <2>1 DEF replay_barrier_up
  <2>5. replay_barrier_up(t)
    BY <2>1, <2>2, <2>4 DEF replay_barrier_up
  <2>6. /\ a.catch_up \in Seq(Delayed(D))
        /\ \A i \in 1..Len(a.catch_up) : i \in Unwaited(s, p) /\ a.catch_up[i].pane = p =>
             a.catch_up[i].type = "control"
    BY <1>2, <2>1, WaitingDrops
  <2>7. \A i \in 1..Len(b.catch_up) : \E j \in 1..Len(a.catch_up) :
          j \in Unwaited(s, p) /\ b.catch_up[i] = a.catch_up[j]
    BY <2>2, <2>6, KeptFrom
  <2>8. b.catch_up \in Seq(Delayed(D))
    <3>1. \A i \in 1..Len(a.catch_up) : i \in Unwaited(s, p) => a.catch_up[i] \in Delayed(D)
      BY <2>6
    <3> QED
      BY <2>2, <2>6, <3>1, KeptIn
  <2>9. b \in SeedTypes(D)
    <3>1. /\ b.kind \in {"none", "Attach", "Resync"} /\ b.pending \in Seq(D) /\ b.replay \in Replays(D) \cup {NoReplay}
          /\ b.manifest \in [Pane -> {"absent", "Pending", "Replaying", "CatchingUp", "Live"}]
          /\ b.baseline_queued \in BOOLEAN
      BY <2>2, <2>4 DEF SeedTypes
    <3>2. b.outdated \in SUBSET D
      BY <2>2, <2>4 DEF SeedTypes
    <3> QED
      BY <2>2, <2>8, <3>1, <3>2 DEF SeedTypes
  <2>10. Orderly(b)
    <3>1. Orderly(a)
      BY <2>4 DEF SeedOK
    <3>2. ASSUME NEW c \in Pane, b.manifest[c] = "Pending" \/ c \in b.outdated
          PROVE  Idle(c, b.catch_up)
      <4>1. SUFFICES ASSUME NEW i \in 1..Len(b.catch_up), InLane(c, b.catch_up[i])
                     PROVE  FALSE
        BY DEF Idle
      <4>2. PICK j \in 1..Len(a.catch_up) : j \in Unwaited(s, p) /\ b.catch_up[i] = a.catch_up[j]
        BY <2>7
      <4>3. InLane(c, a.catch_up[j]) /\ c # None
        BY <4>1, <4>2, PaneIsPane
      <4>4. CASE a.manifest[c] = "Pending" \/ c \in a.outdated
        BY <3>1, <4>3, <4>4 DEF Orderly, Idle
      <4>5. CASE ~ (a.manifest[c] = "Pending" \/ c \in a.outdated)
        <5>1. c = p
          BY <2>2, <3>2, <4>5
        <5>2. a.catch_up[j].pane = p
          BY <4>3, <5>1 DEF InLane
        <5>3. a.catch_up[j].type = "control" /\ a.catch_up[j].pane # None
          BY <2>6, <4>2, <4>3, <5>1, <5>2
        <5>4. a.manifest[p] = "absent"
          BY <3>1, <5>2, <5>3 DEF Orderly
        <5> QED
          BY <2>3, <5>4
      <4> QED
        BY <4>4, <4>5
    <3>3. ASSUME NEW i \in 1..Len(b.catch_up), b.catch_up[i].type = "control", b.catch_up[i].pane # None
          PROVE  b.manifest[b.catch_up[i].pane] = "absent"
      <4>1. PICK j \in 1..Len(a.catch_up) : b.catch_up[i] = a.catch_up[j]
        BY <2>7
      <4> QED
        BY <2>2, <3>1, <3>3, <4>1 DEF Orderly
    <3> QED
      BY <3>2, <3>3 DEF Orderly
  <2>11. Listed(b)
    BY <2>2, <2>4 DEF SeedOK, Listed
  <2>12. SeedOK(b, D)
    <3>1. \A c \in b.outdated : b.manifest[c] \notin {"absent", "Pending"}
      BY <2>2, <2>3, <2>4 DEF SeedOK
    <3>2. b.replay # NoReplay => b.manifest[b.replay.pane] = "Replaying"
      BY <2>2, <2>4 DEF SeedOK
    <3>3. \A c \in Pane : b.manifest[c] # "absent" => c \in D
      BY <2>2, <2>4 DEF SeedOK
    <3>4. b.kind # "none" /\ ~ b.baseline_queued
      BY <2>2, <2>4
    <3> QED
      BY <2>9, <2>10, <2>11, <3>1, <3>2, <3>3, <3>4 DEF SeedOK
  <2>13. t \in [outbox : Seq(Outgoing(D)), front_started : BOOLEAN, seed : SeedTypes(D),
                resync_pending : SUBSET D, attached : BOOLEAN]
    <3>1. t.resync_pending \in SUBSET D /\ t.front_started \in BOOLEAN /\ t.attached \in BOOLEAN
      BY <1>1, <1>3, <2>2
    <3> QED
      BY <1>3, <1>5, <2>1, <2>9, <3>1
  <2>14. t.resync_pending = {}
    BY <1>1, <1>9, <2>2
  <2>15. ConnOK(t, D)
    BY <1>6, <1>7, <2>1, <2>12, <2>13, <2>14 DEF ConnOK
  <2>16. Stale(t, p) /\ \A c \in Pane : Stale(s, c) => Stale(t, c)
    BY <2>1, <2>2 DEF Stale
  <2> QED
    BY <1>9, <2>5, <2>15, <2>16
<1> QED
  BY <1>8, <1>9

\* Lanes of other panes, and the controls, go where they went.
LEMMA ShedLaneOther ==
  ASSUME NEW D \in SUBSET Pane, NEW s, ConnOK(s, D), NEW p \in Pane, NEW t, ShedTo(s, t, p),
         NEW c \in Lanes, c # p, NEW x, NEW z, Lane(s.outbox, s.seed, c, x, z)
  PROVE  Lane(t.outbox, t.seed, c, x, z)
<1>1. PICK y \in Screens : /\ Chain(c, x, s.outbox, y) /\ Chain(c, Junction(s.seed, c, y), s.seed.catch_up, z)
                           /\ c \in Pane => OnReplay(s.seed, c, y)
  BY DEF Lane
<1>2. /\ s.outbox \in Seq(Frames(Pane))
      /\ \A i \in 1..Len(s.outbox) : i \notin Emptied(s, p) =>
           s.outbox[i].pane = p /\ s.outbox[i].type \in {"output", "replay"}
  <2>1. /\ s.outbox \in Seq(Frames(Pane))
        /\ \A i \in 1..Len(s.outbox) : i \notin Emptied(s, p) =>
              /\ s.outbox[i].pane = p /\ s.outbox[i].ver # 0
              /\ \/ s.outbox[i].type = "output"
                 \/ s.outbox[i].type = "replay" /\ ~ replay_barrier_up(s)
    BY PurgeDrops
  <2> QED
    BY <2>1
<1>3. \A i \in 1..Len(s.outbox) : i \notin Emptied(s, p) => ~ InLane(c, s.outbox[i])
  BY <1>2 DEF InLane
<1>4. Chain(c, x, t.outbox, y)
  <2>1. t.outbox = Kept(s.outbox, Emptied(s, p))
    BY DEF ShedTo
  <2> QED
    BY <1>1, <1>2, <1>3, <2>1, KeptLane
<1>5. CASE ~ replay_barrier_up(s)
  <2>1. t.seed = s.seed
    BY <1>5 DEF ShedTo
  <2> QED
    BY <1>1, <1>4, <2>1 DEF Lane
<1>6. CASE replay_barrier_up(s)
  <2>1. /\ t.seed.manifest = s.seed.manifest /\ t.seed.replay = s.seed.replay
        /\ t.seed.catch_up = Kept(s.seed.catch_up, Unwaited(s, p))
    BY <1>6 DEF ShedTo
  <2>2. /\ s.seed.catch_up \in Seq(Frames(Pane))
        /\ \A i \in 1..Len(s.seed.catch_up) : i \notin Unwaited(s, p) =>
             s.seed.catch_up[i].pane = p /\ s.seed.catch_up[i].type \in {"output", "resize"}
    BY WaitingDrops
  <2>3. \A i \in 1..Len(s.seed.catch_up) : i \notin Unwaited(s, p) => ~ InLane(c, s.seed.catch_up[i])
    BY <2>2 DEF InLane
  <2>4. Junction(t.seed, c, y) = Junction(s.seed, c, y) /\ (OnReplay(t.seed, c, y) <=> OnReplay(s.seed, c, y))
    BY <2>1 DEF Junction, OnReplay
  <2>5. Chain(c, Junction(t.seed, c, y), t.seed.catch_up, z)
    BY <1>1, <2>1, <2>2, <2>3, <2>4, KeptLane
  <2> QED
    BY <1>1, <1>4, <2>4, <2>5 DEF Lane
<1> QED
  BY <1>5, <1>6

\* The pane's own lane still leads to a screen the client knows.
LEMMA ShedLaneSelf ==
  ASSUME NEW D \in SUBSET Pane, NEW s, ConnOK(s, D), NEW p \in D, pane_is_sheddable(s, p), NEW t, ShedTo(s, t, p),
         NEW x, NEW z, Lane(s.outbox, s.seed, p, x, z)
  PROVE  \E w \in Screens : Lane(t.outbox, t.seed, p, x, w) /\ (z.known => w.known)
<1>0. p \in Pane /\ p # None /\ p \in Lanes
  BY PaneIsPane DEF Lanes
<1>1. PICK y \in Screens : /\ Chain(p, x, s.outbox, y) /\ Chain(p, Junction(s.seed, p, y), s.seed.catch_up, z)
                           /\ OnReplay(s.seed, p, y)
  BY <1>0 DEF Lane
<1>2. PICK up \in BOOLEAN : up <=> replay_barrier_up(s)
  OBVIOUS
<1>3. PICK w \in Screens : Chain(p, x, t.outbox, w) /\ Like(w, y, up)
  <2>1. /\ s.outbox \in Seq(Frames(Pane))
        /\ \A i \in 1..Len(s.outbox) : i \notin Emptied(s, p) =>
              /\ s.outbox[i].pane = p /\ s.outbox[i].ver # 0
              /\ s.outbox[i].type = "output" \/ (s.outbox[i].type = "replay" /\ ~ up)
        /\ \A i \in 1..Len(s.outbox) : i \in Emptied(s, p) /\ i > 1 /\ s.outbox[i].pane = p =>
              s.outbox[i].type \in {"control", "resize", "reset"} \/ (s.outbox[i].type = "replay" /\ up)
    BY <1>0, <1>2, PurgeDrops
  <2>2. t.outbox = Kept(s.outbox, Emptied(s, p))
    BY DEF ShedTo
  <2> QED
    BY <1>0, <1>1, <2>1, <2>2, KeptSelf
<1>4. w.known = y.known /\ w.geom = y.geom /\ (up => w = y \/ (y.ver # 0 /\ y.part = 0))
  BY <1>3 DEF Like
<1>5. s.seed \in SeedTypes(D) /\ SeedOK(s.seed, D)
  BY DEF ConnOK
<1>6. CASE ~ replay_barrier_up(s)
  <2>1. t.seed = s.seed /\ s.seed.catch_up = <<>> /\ s.seed.replay = NoReplay
    BY <1>6, BarrierDown DEF ShedTo
  <2>2. s.seed.replay.pane # p
    BY <1>0, <2>1 DEF NoReplay
  <2>3. Junction(s.seed, p, y) = y /\ Junction(s.seed, p, w) = w
    BY <1>5, <2>2, JunctionType
  <2>4. z = y
    <3>1. Chain(p, y, <<>>, z)
      BY <1>1, <2>1, <2>3
    <3> QED
      BY <3>1, ChainNil
  <2>5. Chain(p, w, <<>>, w)
    BY ChainNil
  <2>6. OnReplay(t.seed, p, w)
    BY <1>1, <1>4, <2>1, <2>2 DEF OnReplay
  <2>7. Lane(t.outbox, t.seed, p, x, w)
    BY <1>3, <2>1, <2>3, <2>5, <2>6 DEF Lane
  <2> QED
    BY <1>4, <2>4, <2>7
<1>7. CASE replay_barrier_up(s)
  <2>1. t.seed.manifest = s.seed.manifest /\ t.seed.replay = s.seed.replay
    BY <1>7 DEF ShedTo
  <2>2. ConnOK(t, D) /\ Stale(t, p) /\ (replay_barrier_up(t) <=> replay_barrier_up(s))
    BY ShedOK
  <2>3. t.seed \in SeedTypes(D) /\ t.seed.catch_up \in Seq(Frames(Pane)) /\ SeedOK(t.seed, D) /\ t.resync_pending = {}
    BY <1>0, <1>7, <2>2, WaitingDrops DEF ConnOK
  <2>4. Idle(p, t.seed.catch_up)
    BY <1>0, <2>2, <2>3 DEF Stale, SeedOK, Orderly
  <2>5. s.seed.manifest[p] # "absent"
    BY <1>7 DEF pane_is_sheddable
  <2>6. y.known /\ w.known
    BY <1>1, <1>4, <2>5 DEF OnReplay
  <2>7. OnReplay(t.seed, p, w)
    <3>1. SUFFICES ASSUME s.seed.replay.pane = p, ~ s.seed.replay.reset
                   PROVE  /\ w.geom = s.seed.replay.geom
                          /\ IF s.seed.replay.sent = 0 THEN w.ver = 0 /\ w.part = 0
                             ELSE w.ver = s.seed.replay.ver /\ w.part = s.seed.replay.sent
      BY <2>1, <2>6 DEF OnReplay
    <3>2. /\ y.geom = s.seed.replay.geom
          /\ IF s.seed.replay.sent = 0 THEN y.ver = 0 /\ y.part = 0
             ELSE y.ver = s.seed.replay.ver /\ y.part = s.seed.replay.sent
      BY <1>1, <3>1 DEF OnReplay
    <3>3. w = y
      BY <1>2, <1>4, <1>7, <3>2
    <3> QED
      BY <3>2, <3>3
  <2>8. PICK v : v = Junction(t.seed, p, w)
    OBVIOUS
  <2>9. v \in Screens /\ v.known
    BY <2>3, <2>6, <2>8, JunctionType
  <2>10. Chain(p, v, t.seed.catch_up, v)
    BY <2>3, <2>4, <2>9, ChainIdle
  <2>11. Lane(t.outbox, t.seed, p, x, v)
    BY <1>3, <2>7, <2>8, <2>10 DEF Lane
  <2> QED
    BY <2>9, <2>11
<1> QED
  BY <1>6, <1>7

\* Where a lane leads after a shed of p.
Diverted(t, p, c, x, z) ==
  \E w \in Screens : Lane(t.outbox, t.seed, c, x, w) /\ (z.known => w.known) /\ (c # p => w = z)

LEMMA ShedLane ==
  ASSUME NEW D \in SUBSET Pane, NEW s, ConnOK(s, D), NEW p \in D, pane_is_sheddable(s, p), NEW t, ShedTo(s, t, p),
         NEW c \in Lanes, NEW x, NEW z, Lane(s.outbox, s.seed, c, x, z)
  PROVE  Diverted(t, p, c, x, z)
<1>1. CASE c = p
  <2>1. Lane(s.outbox, s.seed, p, x, z)
    BY <1>1
  <2>2. PICK w \in Screens : Lane(t.outbox, t.seed, p, x, w) /\ (z.known => w.known)
    BY <2>1, ShedLaneSelf
  <2> QED
    BY <1>1, <2>2 DEF Diverted
<1>2. CASE c # p
  <2>1. Lane(t.outbox, t.seed, c, x, z)
    BY <1>2, ShedLaneOther
  <2>2. z \in Screens
    <3>1. PICK y : Chain(c, y, s.seed.catch_up, z)
      BY DEF Lane
    <3>2. s.seed.catch_up \in Seq(Frames(Pane))
      BY WaitingDrops
    <3> QED
      BY <3>1, <3>2, ChainType
  <2> QED
    BY <1>2, <2>1, <2>2 DEF Diverted
<1> QED
  BY <1>1, <1>2

----------------------------------------------------------------------------
(* The pane that is shed                                                   *)

LEMMA LargestIs ==
  ASSUME NEW s, NEW totals \in [Pane -> Nat], NEW M \in Nat, \A p \in Pane : totals[p] <= M,
         NEW v, v = largest_sheddable(s, totals), v # None
  PROVE  v \in Pane /\ totals[v] > 0 /\ pane_is_sheddable(s, v)
<1> DEFINE heavy == {p \in Pane : totals[p] > 0 /\ pane_is_sheddable(s, p)}
           Before(p, q) == totals[p] > totals[q] \/ (totals[p] = totals[q] /\ p <= q)
           First(p) == \A q \in heavy : Before(p, q)
<1>1. heavy # {} /\ v = CHOOSE p \in heavy : First(p)
  BY Zenon DEF largest_sheddable
<1>2. \E p \in heavy : First(p)
  <2>1. PICK T : T = {totals[p] : p \in heavy}
    OBVIOUS
  <2>2. T \in SUBSET Nat /\ T # {} /\ \A n \in T : n <= M
    BY <1>1, <2>1
  <2>3. PICK m \in T : \A n \in T : n <= m
    BY <2>2, GreatestNat
  <2>4. PICK U : U = {p \in heavy : totals[p] = m}
    OBVIOUS
  <2>5. U \in SUBSET Nat
    BY <2>4, PaneIsPane
  <2>6. U # {}
    BY <2>1, <2>3, <2>4
  <2>7. PICK p \in U : \A q \in U : p <= q
    BY <2>5, <2>6, LeastNat
  <2>8. ASSUME NEW q \in heavy
        PROVE  Before(p, q)
    <3>1. totals[q] \in T /\ totals[q] <= m /\ totals[p] = m /\ m \in Nat /\ totals[q] \in Nat
      BY <2>1, <2>2, <2>3, <2>4, <2>7, <2>8
    <3>2. CASE totals[q] = m
      BY <2>4, <2>7, <2>8, <3>1, <3>2
    <3>3. CASE totals[q] # m
      BY <3>1, <3>3
    <3> QED
      BY <3>2, <3>3
  <2> QED
    BY <2>4, <2>7, <2>8
<1>3. v \in heavy
  <2> HIDE DEF First, heavy
  <2> QED
    BY <1>1, <1>2
<1> QED
  BY <1>3

\* Sets of places in a list are finite.
LEMMA PlacesFinite ==
  ASSUME NEW n \in Nat, NEW S \in SUBSET (1..n)
  PROVE  IsFiniteSet(S) /\ Cardinality(S) \in Nat /\ Cardinality(S) <= n /\ (Cardinality(S) > 0 => S # {})
<1>1. IsFiniteSet(1..n) /\ Cardinality(1..n) = n
  BY FS_Interval
<1>2. IsFiniteSet(S) /\ Cardinality(S) <= Cardinality(1..n)
  BY <1>1, FS_Subset
<1>3. Cardinality(S) \in Nat
  BY <1>2, FS_CardinalityType
<1>4. Cardinality(S) > 0 => S # {}
  BY FS_EmptySet
<1> QED
  BY <1>1, <1>2, <1>3, <1>4

LEMMA OutboxVictim ==
  ASSUME NEW D \in SUBSET Pane, NEW s, ConnOK(s, D), NEW v, v = largest_outbox_pane(s), v # None
  PROVE  v \in D /\ pane_is_sheddable(s, v) /\ Droppables(s, v) # {}
<1>1. s.outbox \in Seq(Outgoing(D)) /\ DOMAIN s.outbox = 1..Len(s.outbox)
  BY DEF ConnOK
<1>2. PICK n \in Nat : n = Len(s.outbox)
  BY <1>1
<1>3. \A p \in Pane : Droppables(s, p) \in SUBSET (1..n)
  BY <1>1, <1>2 DEF Droppables, sheddable_outbox
<1>4. \A p \in Pane : LET k == Cardinality(Droppables(s, p)) IN k \in Nat /\ k <= n /\ (k > 0 => Droppables(s, p) # {})
  BY <1>3, PlacesFinite
<1>5. PICK totals : totals = [p \in Pane |-> Cardinality(Droppables(s, p))]
  OBVIOUS
<1>6. totals \in [Pane -> Nat] /\ \A p \in Pane : totals[p] <= n
  BY <1>4, <1>5
<1>7. v = largest_sheddable(s, totals)
  BY <1>5 DEF largest_outbox_pane
<1>8. v \in Pane /\ totals[v] > 0 /\ pane_is_sheddable(s, v)
  BY <1>6, <1>7, LargestIs
<1>9. Droppables(s, v) # {}
  BY <1>4, <1>5, <1>8
<1>10. PICK i \in 1..Len(s.outbox) : OutputPane(s.outbox[i]) = v
  BY <1>1, <1>9 DEF Droppables, sheddable_outbox
<1>11. s.outbox[i].pane = v /\ s.outbox[i].pane \in D \cup {None}
  BY <1>1, <1>10 DEF OutputPane, Outgoing, Frames
<1> QED
  BY <1>8, <1>9, <1>11

LEMMA CatchUpVictim ==
  ASSUME NEW D \in SUBSET Pane, NEW s, ConnOK(s, D), NEW v, v = largest_catch_up_pane(s), v # None
  PROVE  v \in D /\ pane_is_sheddable(s, v) /\ Retains(s, v)
<1> DEFINE Moved(p) == {i \in sheddable_outbox(s) :
                          s.outbox[i].class = "SeedCatchUp" /\ OutputPane(s.outbox[i]) = p}
<1>1. /\ s.outbox \in Seq(Outgoing(D)) /\ DOMAIN s.outbox = 1..Len(s.outbox)
      /\ s.seed.catch_up \in Seq(Delayed(D)) /\ DOMAIN s.seed.catch_up = 1..Len(s.seed.catch_up)
  BY DEF ConnOK, SeedTypes
<1>2. PICK n \in Nat : n = Len(s.outbox)
  BY <1>1
<1>3. PICK m \in Nat : m = Len(s.seed.catch_up)
  BY <1>1
<1>4. \A p \in Pane : Waiting(s, p) \in SUBSET (1..m) /\ Moved(p) \in SUBSET (1..n)
  BY <1>1, <1>2, <1>3 DEF Waiting, sheddable_outbox
<1>5. \A p \in Pane : LET k == Cardinality(Waiting(s, p)) IN k \in Nat /\ k <= m /\ (k > 0 => Waiting(s, p) # {})
  BY <1>4, PlacesFinite
<1>6. \A p \in Pane : LET k == Cardinality(Moved(p)) IN k \in Nat /\ k <= n /\ (k > 0 => Moved(p) # {})
  <2> HIDE DEF Moved
  <2> QED
    BY <1>4, PlacesFinite
<1>7. PICK totals : totals = [p \in Pane |-> Cardinality(Waiting(s, p)) + Cardinality(Moved(p))]
  OBVIOUS
<1>8. v = largest_sheddable(s, totals)
  BY <1>7 DEF largest_catch_up_pane
<1> HIDE DEF Moved
<1>9. totals \in [Pane -> Nat] /\ \A p \in Pane : totals[p] <= m + n
  BY <1>5, <1>6, <1>7
<1>10. m + n \in Nat
  OBVIOUS
<1>11. v \in Pane /\ totals[v] > 0 /\ pane_is_sheddable(s, v)
  BY <1>8, <1>9, <1>10, LargestIs
<1>12. Waiting(s, v) # {} \/ Moved(v) # {}
  <2>1. PICK a \in Nat, b \in Nat : a = Cardinality(Waiting(s, v)) /\ b = Cardinality(Moved(v))
    BY <1>5, <1>6, <1>11
  <2>2. a + b > 0
    BY <1>7, <1>11, <2>1
  <2>3. a > 0 \/ b > 0
    BY <2>2
  <2> QED
    BY <1>5, <1>6, <1>11, <2>1, <2>3
<1>13. CASE Waiting(s, v) # {}
  <2>1. PICK i \in 1..Len(s.seed.catch_up) : DeltaPane(s.seed.catch_up[i]) = v
    BY <1>1, <1>13 DEF Waiting
  <2>2. s.seed.catch_up[i].pane = v /\ s.seed.catch_up[i].pane \in D \cup {None}
    BY <1>1, <2>1 DEF DeltaPane, Delayed, Outgoing, Frames
  <2> QED
    BY <1>11, <1>13, <2>2 DEF Retains
<1>14. CASE Moved(v) # {}
  <2>1. PICK i \in sheddable_outbox(s) : s.outbox[i].class = "SeedCatchUp" /\ OutputPane(s.outbox[i]) = v
    BY <1>14 DEF Moved
  <2>2. i \in 1..Len(s.outbox)
    BY <1>1 DEF sheddable_outbox
  <2>3. s.outbox[i].pane = v /\ s.outbox[i].pane \in D \cup {None}
    BY <1>1, <2>1, <2>2 DEF OutputPane, Outgoing, Frames
  <2> QED
    BY <1>11, <2>1, <2>3 DEF Retains
<1> QED
  BY <1>12, <1>13, <1>14

----------------------------------------------------------------------------
(* Routing a frame                                                         *)

\* The frame fits lane c, or is output of a pane that will be exported.
Ready(s, c, z, f) == InLane(c, f) /\ ~ (f.type = "output" /\ Stale(s, c)) => Meets(c, z, f)

\* The frame makes a pane known.
Introduces(c, f) == c # None /\ f.pane = c /\ f.type = "control"

\* The lane goes on with the frame, or is cut and will be exported.
Outcome(t, c, x, z, f) ==
  \E w \in Screens : /\ Lane(t.outbox, t.seed, c, x, w) /\ (z.known \/ Introduces(c, f) => w.known)
                     /\ Goes(c, z, f, w) \/ (c \in Pane /\ Stale(t, c))

Routed(s, t, f, D) ==
  /\ ConnOK(t, D) /\ \A c \in Pane : Stale(s, c) => Stale(t, c)
  /\ t.attached => \A c \in Lanes : \A x, z :
       Lane(s.outbox, s.seed, c, x, z) /\ Ready(s, c, z, f) => Outcome(t, c, x, z, f)

\* What the session sends.
Sent(D) == {f \in Delayed(D) : f.class = "Normal"}

LEMMA GoesKnown ==
  ASSUME NEW c \in Lanes, NEW z \in Screens, NEW f \in Frames(Pane), NEW w, Goes(c, z, f, w)
  PROVE  w \in Screens /\ (z.known \/ Introduces(c, f) => w.known)
<1>1. w \in Screens /\ (z.known => w.known)
  BY GoesOn
<1>2. ASSUME Introduces(c, f)
      PROVE  w.known
  <2>1. Fits(z, f) /\ w = Drawn(z, f) /\ f.type = "control"
    BY <1>2 DEF Introduces, Goes, InLane, Meets, Effect
  <2>2. Drawn(z, f).known = (z.known \/ f.type = "control")
    BY <2>1, DrawnFields
  <2> QED
    BY <2>1, <2>2
<1> QED
  BY <1>1, <1>2

LEMMA LaneType ==
  ASSUME NEW D \in SUBSET Pane, NEW s, ConnOK(s, D), NEW c, NEW x, NEW z, Lane(s.outbox, s.seed, c, x, z)
  PROVE  z \in Screens
<1>1. PICK y : Chain(c, y, s.seed.catch_up, z)
  BY DEF Lane
<1>2. s.seed.catch_up \in Seq(Delayed(D))
  BY DEF ConnOK, SeedTypes
<1>3. s.seed.catch_up \in Seq(Frames(Pane))
  BY <1>2, FramesWiden
<1> QED
  BY <1>1, <1>3, ChainType

LEMMA SentFacts ==
  ASSUME NEW D \in SUBSET Pane, NEW f \in Sent(D)
  PROVE  /\ f \in Outgoing(D) /\ f \in Delayed(D) /\ f \in Frames(Pane) /\ f \in Frames(D) /\ Proper(f)
         /\ f.type \in {"output", "resize", "control"} /\ f.class = "Normal" /\ f.pane \in D \cup {None}
         /\ f.type \in {"output", "resize"} => f.pane \in D /\ DeltaPane(f) = f.pane
         /\ f.type = "control" => DeltaPane(f) = None
         /\ f.type = "output" => OutputPane(f) = f.pane
         /\ f.type # "output" => OutputPane(f) = None
         /\ f = [f EXCEPT !.class = "Normal"]
<1>1. f \in Delayed(D) /\ f \in Outgoing(D) /\ f \in Frames(D) /\ f.class = "Normal"
  BY DEF Sent, Delayed, Outgoing
<1>2. Proper(f) /\ f.type \in {"output", "resize", "control"}
  BY <1>1 DEF Delayed, Outgoing
<1>3. f.pane \in D \cup {None} /\ f \in Frames(Pane)
  BY <1>1 DEF Frames
<1>4. f = [f EXCEPT !.class = "Normal"]
  BY <1>1 DEF Frames
<1>5. f.type \in {"output", "resize"} => f.pane \in D
  BY <1>2, <1>3 DEF Proper
<1> QED
  BY <1>1, <1>2, <1>3, <1>4, <1>5 DEF DeltaPane, OutputPane

\* The frame is not sent: its pane will be exported.
LEMMA UnsentLane ==
  ASSUME NEW D \in SUBSET Pane, NEW s, ConnOK(s, D), NEW f \in Sent(D), f.type \in {"output", "resize"},
         NEW t, t.outbox = s.outbox, t.seed = s.seed, Stale(t, f.pane),
         NEW c \in Lanes, NEW x, NEW z, Lane(s.outbox, s.seed, c, x, z)
  PROVE  Outcome(t, c, x, z, f)
<1>1. z \in Screens
  BY LaneType
<1>2. c # f.pane => Goes(c, z, f, z)
  BY DEF Goes, InLane
<1>3. c = f.pane => c \in Pane /\ Stale(t, c)
  BY SentFacts
<1> QED
  BY <1>1, <1>2, <1>3 DEF Outcome, Introduces

\* Its pane is shed.
LEMMA ShedInsteadLane ==
  ASSUME NEW D \in SUBSET Pane, NEW s, ConnOK(s, D), NEW f \in Sent(D), f.type \in {"output", "resize"},
         pane_is_sheddable(s, f.pane), NEW t, ShedTo(s, t, f.pane),
         NEW c \in Lanes, NEW x, NEW z, Lane(s.outbox, s.seed, c, x, z)
  PROVE  Outcome(t, c, x, z, f)
<1>1. PICK p \in D : p = f.pane
  BY SentFacts
<1>0. pane_is_sheddable(s, p) /\ ShedTo(s, t, p)
  BY <1>1
<1>2. PICK w \in Screens : Lane(t.outbox, t.seed, c, x, w) /\ (z.known => w.known) /\ (c # p => w = z)
  <2>1. Diverted(t, p, c, x, z)
    BY <1>0, ShedLane
  <2> QED
    BY <2>1 DEF Diverted
<1>3. c # p => Goes(c, z, f, z)
  BY <1>1 DEF Goes, InLane
<1>4. Stale(t, p)
  BY <1>0, ShedOK
<1> QED
  BY <1>1, <1>2, <1>3, <1>4 DEF Outcome, Introduces

\* A frame that may overtake what waits: there is nothing of its lane.
Through(s, f) == ~ replay_barrier_up(s) \/ (f.type = "resize" /\ s.seed.manifest[f.pane] = "Pending")

LEMMA ThroughClear ==
  ASSUME NEW D \in SUBSET Pane, NEW s, ConnOK(s, D), NEW f \in Sent(D), Through(s, f), NEW c \in Lanes, InLane(c, f)
  PROVE  Idle(c, s.seed.catch_up) /\ (c = None \/ s.seed.replay.pane # c)
<1>1. CASE ~ replay_barrier_up(s)
  <2>1. s.seed.catch_up = <<>> /\ s.seed.replay = NoReplay
    BY <1>1, BarrierDown
  <2>2. Idle(c, <<>>)
    BY DEF Idle
  <2>3. c = None \/ NoReplay.pane # c
    BY DEF NoReplay
  <2> QED
    BY <2>1, <2>2, <2>3
<1>2. CASE replay_barrier_up(s)
  <2>1. f.type = "resize" /\ s.seed.manifest[f.pane] = "Pending" /\ f.pane \in Pane
    BY <1>2, SentFacts DEF Through
  <2>2. c = f.pane
    BY <2>1 DEF InLane
  <2>3. SeedOK(s.seed, D)
    BY DEF ConnOK
  <2>4. Idle(c, s.seed.catch_up)
    BY <2>1, <2>2, <2>3 DEF SeedOK, Orderly
  <2>5. s.seed.replay.pane # c
    <3>1. c # None
      BY <2>1, <2>2, PaneIsPane
    <3>2. SUFFICES ASSUME s.seed.replay.pane = c
                   PROVE  FALSE
      OBVIOUS
    <3>3. s.seed.replay # NoReplay
      BY <3>1, <3>2 DEF NoReplay
    <3>4. s.seed.manifest[c] = "Replaying"
      BY <2>3, <3>2, <3>3 DEF SeedOK
    <3> QED
      BY <2>1, <2>2, <3>4
  <2> QED
    BY <2>4, <2>5
<1> QED
  BY <1>1, <1>2

LEMMA PushedLane ==
  ASSUME NEW D \in SUBSET Pane, NEW s, ConnOK(s, D), NEW f \in Sent(D), Through(s, f),
         NEW t, t.outbox = Append(s.outbox, f), t.seed = s.seed,
         NEW c \in Lanes, NEW x, NEW z, Lane(s.outbox, s.seed, c, x, z), InLane(c, f) => Meets(c, z, f)
  PROVE  \E w \in Screens : /\ Lane(t.outbox, t.seed, c, x, w) /\ Goes(c, z, f, w)
                            /\ z.known \/ Introduces(c, f) => w.known
<1>1. z \in Screens
  BY LaneType
<1>2. PICK w : Goes(c, z, f, w)
  <2>1. CASE InLane(c, f)
    BY <2>1 DEF Goes
  <2>2. CASE ~ InLane(c, f)
    BY <2>2 DEF Goes
  <2> QED
    BY <2>1, <2>2
<1>3. f \in Frames(Pane)
  BY SentFacts
<1>4. w \in Screens /\ (z.known \/ Introduces(c, f) => w.known)
  BY <1>1, <1>2, <1>3, GoesKnown
<1>5. InLane(c, f) => Idle(c, s.seed.catch_up) /\ (c = None \/ s.seed.replay.pane # c)
  BY ThroughClear
<1>6. s.outbox \in Seq(Outgoing(D)) /\ s.seed \in SeedTypes(D)
  BY DEF ConnOK
<1>7. Lane(Append(s.outbox, f), s.seed, c, x, w)
  BY <1>2, <1>3, <1>5, <1>6, LaneAppend
<1> QED
  BY <1>2, <1>4, <1>7

\* The fields after a frame is queued.
PushTo(s, t, f) ==
  /\ t.outbox = Append(s.outbox, f) /\ t.seed = s.seed /\ t.resync_pending = s.resync_pending
  /\ t.attached = s.attached /\ t.front_started = s.front_started
  /\ t = [outbox |-> t.outbox, front_started |-> t.front_started, seed |-> t.seed,
          resync_pending |-> t.resync_pending, attached |-> t.attached]

LEMMA PushFields ==
  ASSUME NEW D \in SUBSET Pane, NEW s, ConnOK(s, D), NEW f
  PROVE  PushTo(s, [s EXCEPT !.outbox = Append(s.outbox, f)], f)
<1>1. PICK t : t = [s EXCEPT !.outbox = Append(s.outbox, f)]
  OBVIOUS
<1>2. PushTo(s, t, f)
  BY <1>1 DEF ConnOK, PushTo
<1> QED
  BY <1>1, <1>2

LEMMA PushOK ==
  ASSUME NEW D \in SUBSET Pane, NEW s, ConnOK(s, D), Len(s.outbox) < max_backlog, NEW f \in Outgoing(D),
         f.class # "SeedCatchUp", NEW t, PushTo(s, t, f)
  PROVE  ConnOK(t, D) /\ \A c \in Pane : Stale(s, c) <=> Stale(t, c)
<1>1. /\ t.outbox = Append(s.outbox, f) /\ t.seed = s.seed /\ t.resync_pending = s.resync_pending
      /\ t.attached = s.attached /\ t.front_started = s.front_started
      /\ t = [outbox |-> t.outbox, front_started |-> t.front_started, seed |-> t.seed,
              resync_pending |-> t.resync_pending, attached |-> t.attached]
  BY DEF PushTo
<1>2. /\ s.outbox \in Seq(Outgoing(D)) /\ s.seed \in SeedTypes(D) /\ s.front_started \in BOOLEAN
      /\ s.resync_pending \in SUBSET D /\ s.attached \in BOOLEAN /\ SeedOK(s.seed, D) /\ Bounded(s)
      /\ (replay_barrier_up(s) => s.resync_pending = {})
  BY DEF ConnOK
<1>3. t.outbox \in Seq(Outgoing(D)) /\ t.outbox # <<>>
  BY <1>1, <1>2
<1>4. t \in [outbox : Seq(Outgoing(D)), front_started : BOOLEAN, seed : SeedTypes(D),
             resync_pending : SUBSET D, attached : BOOLEAN]
  BY <1>1, <1>2, <1>3
<1>5. Bounded(t)
  <2>1. PICK n \in Nat : n = Len(s.outbox)
    BY <1>2
  <2>2. Len(t.outbox) = n + 1
    BY <1>1, <1>2, <2>1
  <2>3. max_backlog \in Nat
    BY SizesAssumption
  <2>4. Len(t.outbox) <= max_backlog
    BY <2>1, <2>2, <2>3
  <2>5. Count(t.outbox) = Count(s.outbox)
    BY <1>1, <1>2, CountAppend
  <2> QED
    BY <1>1, <1>2, <2>4, <2>5 DEF Bounded
<1>6. replay_barrier_up(t) <=> replay_barrier_up(s)
  BY <1>1 DEF replay_barrier_up
<1>7. ConnOK(t, D)
  BY <1>1, <1>2, <1>3, <1>4, <1>5, <1>6 DEF ConnOK
<1> QED
  BY <1>1, <1>7 DEF Stale

\* A pane is marked, or the client given up.
Marked(s, t, p) ==
  /\ Stale(t, p) /\ t.outbox = s.outbox /\ t.seed = s.seed
  /\ \A c \in Pane : Stale(s, c) => Stale(t, c)

LEMMA MarkOK ==
  ASSUME NEW D \in SUBSET Pane, NEW s, ConnOK(s, D), ~ replay_barrier_up(s), NEW p \in D,
         NEW t, t = [s EXCEPT !.resync_pending = s.resync_pending \cup {p}]
  PROVE  Marked(s, t, p) /\ ConnOK(t, D)
<1>1. /\ s \in [outbox : Seq(Outgoing(D)), front_started : BOOLEAN, seed : SeedTypes(D),
                resync_pending : SUBSET D, attached : BOOLEAN]
      /\ SeedOK(s.seed, D) /\ Bounded(s) /\ (s.front_started => s.outbox # <<>>)
  BY DEF ConnOK
<1>2. /\ t.outbox = s.outbox /\ t.seed = s.seed /\ t.front_started = s.front_started
      /\ t.resync_pending = s.resync_pending \cup {p}
      /\ t \in [outbox : Seq(Outgoing(D)), front_started : BOOLEAN, seed : SeedTypes(D),
                resync_pending : SUBSET D, attached : BOOLEAN]
  BY <1>1
<1>3. ~ replay_barrier_up(t) /\ Bounded(t)
  BY <1>1, <1>2 DEF replay_barrier_up, Bounded
<1>4. ConnOK(t, D)
  BY <1>1, <1>2, <1>3 DEF ConnOK
<1> QED
  BY <1>2, <1>4 DEF Stale, Marked

LEMMA OverflowOK ==
  ASSUME NEW D \in SUBSET Pane, NEW s, ConnOK(s, D), NEW t, t = Overflow(s)
  PROVE  ConnOK(t, D) /\ ~ t.attached /\ \A c \in Pane : Stale(s, c) => Stale(t, c)
<1>1. /\ s \in [outbox : Seq(Outgoing(D)), front_started : BOOLEAN, seed : SeedTypes(D),
                resync_pending : SUBSET D, attached : BOOLEAN]
      /\ SeedOK(s.seed, D) /\ Bounded(s) /\ (s.front_started => s.outbox # <<>>)
      /\ (replay_barrier_up(s) => s.resync_pending = {})
  BY DEF ConnOK
<1>2. /\ t.outbox = s.outbox /\ t.seed = s.seed /\ t.front_started = s.front_started
      /\ t.resync_pending = s.resync_pending /\ t.attached = FALSE
      /\ t \in [outbox : Seq(Outgoing(D)), front_started : BOOLEAN, seed : SeedTypes(D),
                resync_pending : SUBSET D, attached : BOOLEAN]
  BY <1>1 DEF Overflow
<1>3. (replay_barrier_up(t) <=> replay_barrier_up(s)) /\ Bounded(t)
  BY <1>1, <1>2 DEF replay_barrier_up, Bounded
<1>4. ConnOK(t, D)
  BY <1>1, <1>2, <1>3 DEF ConnOK
<1> QED
  BY <1>2, <1>4 DEF Stale

\* Room is made by shedding another pane.
LEMMA ShedThenPush ==
  ASSUME NEW D \in SUBSET Pane, NEW s, ConnOK(s, D), NEW f \in Sent(D), Through(s, f),
         NEW v \in D, pane_is_sheddable(s, v), Droppables(s, v) # {}, OutputPane(f) # v,
         f.type = "output" => f.pane \notin s.resync_pending,
         NEW u, ShedTo(s, u, v), NEW t, PushTo(u, t, f)
  PROVE  Routed(s, t, f, D)
<1>1. ConnOK(u, D) /\ Stale(u, v) /\ \A c \in Pane : Stale(s, c) => Stale(u, c)
  BY ShedOK
<1>2. v \in Pane /\ f \in Outgoing(D) /\ f.class # "SeedCatchUp"
  BY SentFacts
<1>3. Len(u.outbox) < max_backlog
  <2>1. Freed(s, u, v)
    BY <1>2, ShedFrees
  <2>2. PICK a, b : a = Len(u.outbox) /\ b = Len(s.outbox)
    OBVIOUS
  <2>3. a \in Nat /\ a < b
    BY <2>1, <2>2 DEF Freed
  <2>4. b \in Nat /\ b <= max_backlog /\ max_backlog \in Nat
    BY <2>2, SizesAssumption DEF ConnOK, Bounded
  <2>5. a < max_backlog
    BY ONLY <2>3, <2>4
  <2> QED
    BY <2>2, <2>5
<1>4. ConnOK(t, D) /\ \A c \in Pane : Stale(u, c) <=> Stale(t, c)
  BY <1>1, <1>2, <1>3, PushOK
<1>5. Through(u, f)
  <2>1. u.seed.manifest = s.seed.manifest
    BY DEF ShedTo
  <2>2. replay_barrier_up(u) <=> replay_barrier_up(s)
    BY ShedOK
  <2> QED
    BY <2>1, <2>2 DEF Through
<1>6. t.outbox = Append(u.outbox, f) /\ t.seed = u.seed
  BY DEF PushTo
<1>7. ASSUME NEW c \in Lanes, NEW x, NEW z, Lane(s.outbox, s.seed, c, x, z), Ready(s, c, z, f)
      PROVE  Outcome(t, c, x, z, f)
  <2>1. Diverted(u, v, c, x, z)
    BY <1>7, ShedLane
  <2>2. PICK y \in Screens : Lane(u.outbox, u.seed, c, x, y) /\ (z.known => y.known) /\ (c # v => y = z)
    BY <2>1 DEF Diverted
  <2>3. InLane(c, f) => Meets(c, z, f)
    <3>1. SUFFICES ASSUME InLane(c, f), f.type = "output", Stale(s, c)
                   PROVE  FALSE
      BY <1>7 DEF Ready
    <3>2. c = f.pane
      BY <3>1 DEF InLane
    <3>3. ~ replay_barrier_up(s)
      BY <3>1 DEF Through
    <3>4. c \in Pane
      BY <3>1, <3>2, SentFacts
    <3>5. s.seed.outdated = {} /\ s.seed.manifest[c] # "Pending"
      BY <3>3, <3>4, BarrierDown
    <3> QED
      BY <3>1, <3>2, <3>5 DEF Stale
  <2>4. InLane(c, f) => Meets(c, y, f)
    <3>1. CASE c # v
      BY <2>2, <2>3, <3>1
    <3>2. CASE c = v
      <4>1. SUFFICES ASSUME InLane(c, f)
                     PROVE  Meets(c, y, f)
        OBVIOUS
      <4>2. c # None /\ f.pane = v
        BY <1>2, <3>2, <4>1, PaneIsPane DEF InLane
      <4>3. f.type \in {"resize", "control"}
        BY <4>2, SentFacts
      <4>4. f.type = "resize" => z.known
        BY <2>3, <4>1, <4>2 DEF Meets, Fits
      <4>5. Fits(y, f)
        BY <2>2, <4>3, <4>4 DEF Fits
      <4> QED
        BY <4>2, <4>5 DEF Meets
    <3> QED
      BY <3>1, <3>2
  <2>5. PICK w \in Screens : /\ Lane(t.outbox, t.seed, c, x, w) /\ Goes(c, y, f, w)
                             /\ y.known \/ Introduces(c, f) => w.known
    BY <1>1, <1>5, <1>6, <2>2, <2>4, PushedLane
  <2>6. c = v => Stale(t, c)
    BY <1>1, <1>2, <1>4
  <2> QED
    BY <1>2, <2>2, <2>5, <2>6 DEF Outcome
<1> QED
  BY <1>1, <1>4, <1>7 DEF Routed

LEMMA PushLive ==
  ASSUME NEW D \in SUBSET Pane, NEW s, ConnOK(s, D), NEW f \in Sent(D), Through(s, f)
  PROVE  Routed(s, push_live(s, f), f, D)
<1>1. PICK pane, victim, t : pane = OutputPane(f) /\ victim = largest_outbox_pane(s) /\ t = push_live(s, f)
  OBVIOUS
<1>2. /\ f \in Outgoing(D) /\ f.class # "SeedCatchUp" /\ f.type \in {"output", "resize", "control"}
      /\ pane # None => f.type = "output" /\ pane = f.pane /\ pane \in D /\ pane \in Pane
      /\ f.type = "output" => pane = f.pane /\ pane # None
  BY <1>1, SentFacts, PaneIsPane
<1>3. pane # None => ~ replay_barrier_up(s)
  BY <1>2 DEF Through
<1>4. \A u : try_push_class(u, f, "Normal") = [u EXCEPT !.outbox = Append(u.outbox, f)]
  BY SentFacts DEF try_push_class
<1>5. CASE pane # None /\ pane \in s.resync_pending
  <2>1. t = s
    BY <1>1, <1>5 DEF push_live
  <2>2. Stale(s, f.pane)
    BY <1>2, <1>5 DEF Stale
  <2>3. \A c \in Lanes : \A x, z : Lane(s.outbox, s.seed, c, x, z) => Outcome(s, c, x, z, f)
    BY <1>2, <1>5, <2>2, UnsentLane
  <2> QED
    BY <1>1, <2>1, <2>3 DEF Routed
<1>6. CASE ~ (pane # None /\ pane \in s.resync_pending) /\ Len(s.outbox) < max_backlog
  <2>1. t = try_push_class(s, f, "Normal")
    <3>1. ~ (Len(s.outbox) >= max_backlog)
      <4>1. Len(s.outbox) \in Nat /\ max_backlog \in Nat
        BY SizesAssumption DEF ConnOK
      <4> QED
        BY <1>6, <4>1
    <3> QED
      BY <1>1, <1>6, <3>1 DEF push_live
  <2>2. PushTo(s, t, f)
    BY <1>4, <2>1, PushFields
  <2>3. ConnOK(t, D) /\ \A c \in Pane : Stale(s, c) <=> Stale(t, c)
    BY <1>2, <1>6, <2>2, PushOK
  <2>4. t.outbox = Append(s.outbox, f) /\ t.seed = s.seed
    BY <2>2 DEF PushTo
  <2>5. ASSUME NEW c \in Lanes, NEW x, NEW z, Lane(s.outbox, s.seed, c, x, z), Ready(s, c, z, f)
        PROVE  Outcome(t, c, x, z, f)
    <3>1. InLane(c, f) => Meets(c, z, f)
      <4>1. SUFFICES ASSUME InLane(c, f), f.type = "output", Stale(s, c)
                     PROVE  FALSE
        BY <2>5 DEF Ready
      <4>2. c = pane /\ pane # None
        BY <1>2, <4>1 DEF InLane
      <4>3. s.seed.outdated = {} /\ s.seed.manifest[c] # "Pending"
        BY <1>2, <1>3, <4>2, BarrierDown
      <4> QED
        BY <1>6, <4>1, <4>2, <4>3 DEF Stale
    <3>2. PICK w \in Screens : /\ Lane(t.outbox, t.seed, c, x, w) /\ Goes(c, z, f, w)
                               /\ z.known \/ Introduces(c, f) => w.known
      BY <2>4, <2>5, <3>1, PushedLane
    <3> QED
      BY <3>2 DEF Outcome
  <2> QED
    BY <1>1, <2>3, <2>5 DEF Routed
<1>7. CASE ~ (pane # None /\ pane \in s.resync_pending) /\ Len(s.outbox) >= max_backlog /\ victim = None
  <2>1. CASE pane = None
    <3>1. t = Overflow(s)
      BY <1>1, <1>7, <2>1 DEF push_live
    <3> QED
      BY <1>1, <3>1, OverflowOK DEF Routed
  <2>2. CASE pane # None
    <3>1. t = [s EXCEPT !.resync_pending = s.resync_pending \cup {pane}]
      BY <1>1, <1>7, <2>2 DEF push_live
    <3>2. /\ ConnOK(t, D) /\ Stale(t, pane) /\ t.outbox = s.outbox /\ t.seed = s.seed
          /\ \A c \in Pane : Stale(s, c) => Stale(t, c)
      <4>1. pane \in D /\ ~ replay_barrier_up(s)
        BY <1>2, <1>3, <2>2
      <4>2. Marked(s, t, pane) /\ ConnOK(t, D)
        BY <3>1, <4>1, MarkOK, Zenon
      <4> QED
        BY <4>2 DEF Marked
    <3>3. \A c \in Lanes : \A x, z : Lane(s.outbox, s.seed, c, x, z) => Outcome(t, c, x, z, f)
      BY <1>2, <2>2, <3>2, UnsentLane
    <3> QED
      BY <1>1, <3>2, <3>3 DEF Routed
  <2> QED
    BY <2>1, <2>2
<1>8. CASE ~ (pane # None /\ pane \in s.resync_pending) /\ Len(s.outbox) >= max_backlog /\ victim # None
  <2>1. victim \in D /\ pane_is_sheddable(s, victim) /\ Droppables(s, victim) # {}
    BY <1>1, <1>8, OutboxVictim
  <2>2. PICK u : u = shed_pane(s, victim)
    OBVIOUS
  <2>3. ShedTo(s, u, victim)
    BY <2>1, <2>2, ShedFields
  <2>4. ConnOK(u, D) /\ \A c \in Pane : Stale(s, c) => Stale(u, c)
    BY <2>1, <2>3, ShedOK
  <2>5. CASE pane = victim
    <3>1. t = u
      BY <1>1, <1>8, <2>2, <2>5 DEF push_live
    <3>2. f.type = "output" /\ victim = f.pane
      BY <1>2, <1>8, <2>5
    <3>3. pane_is_sheddable(s, f.pane) /\ ShedTo(s, u, f.pane)
      BY <2>1, <2>3, <3>2
    <3>4. \A c \in Lanes : \A x, z : Lane(s.outbox, s.seed, c, x, z) => Outcome(u, c, x, z, f)
      BY <3>2, <3>3, ShedInsteadLane
    <3> QED
      BY <1>1, <2>4, <3>1, <3>4 DEF Routed
  <2>6. CASE pane # victim
    <3>1. t = try_push_class(u, f, "Normal")
      BY <1>1, <1>8, <2>2, <2>6 DEF push_live
    <3>2. PushTo(u, t, f)
      <4>1. t = [u EXCEPT !.outbox = Append(u.outbox, f)]
        BY <1>4, <3>1
      <4> QED
        BY <2>4, <4>1, PushFields
    <3>3. f.type = "output" => f.pane \notin s.resync_pending
      BY <1>2, <1>8
    <3> QED
      BY <1>1, <2>1, <2>3, <2>6, <3>2, <3>3, ShedThenPush
  <2> QED
    BY <2>5, <2>6
<1>9. Len(s.outbox) < max_backlog \/ Len(s.outbox) >= max_backlog
  BY SizesAssumption DEF ConnOK
<1> QED
  BY <1>5, <1>6, <1>7, <1>8, <1>9

\* The fields after a frame joins what waits behind the replay.
RetainTo(s, t, f) ==
  /\ t.outbox = s.outbox /\ t.front_started = s.front_started /\ t.resync_pending = s.resync_pending
  /\ t.attached = s.attached
  /\ t.seed = [s.seed EXCEPT !.catch_up = Append(s.seed.catch_up, f)]
  /\ t.seed.kind = s.seed.kind /\ t.seed.manifest = s.seed.manifest /\ t.seed.pending = s.seed.pending
  /\ t.seed.replay = s.seed.replay /\ t.seed.baseline_queued = s.seed.baseline_queued
  /\ t.seed.outdated = s.seed.outdated /\ t.seed.catch_up = Append(s.seed.catch_up, f)
  /\ t = [outbox |-> t.outbox, front_started |-> t.front_started, seed |-> t.seed,
          resync_pending |-> t.resync_pending, attached |-> t.attached]

LEMMA RetainFields ==
  ASSUME NEW D \in SUBSET Pane, NEW s, ConnOK(s, D), NEW f
  PROVE  RetainTo(s, Retain(s, f), f)
<1>1. PICK t, sd : t = Retain(s, f) /\ sd = [s.seed EXCEPT !.catch_up = Append(s.seed.catch_up, f)]
  OBVIOUS
<1>2. t = [s EXCEPT !.seed = sd]
  BY <1>1 DEF Retain
<1>3. /\ s \in [outbox : Seq(Outgoing(D)), front_started : BOOLEAN, seed : SeedTypes(D),
                resync_pending : SUBSET D, attached : BOOLEAN]
      /\ s.seed \in SeedTypes(D)
  BY DEF ConnOK
<1>4. /\ sd.kind = s.seed.kind /\ sd.manifest = s.seed.manifest /\ sd.pending = s.seed.pending
      /\ sd.replay = s.seed.replay /\ sd.baseline_queued = s.seed.baseline_queued
      /\ sd.outdated = s.seed.outdated /\ sd.catch_up = Append(s.seed.catch_up, f)
  BY <1>1, <1>3 DEF SeedTypes
<1>5. /\ t.outbox = s.outbox /\ t.front_started = s.front_started /\ t.resync_pending = s.resync_pending
      /\ t.attached = s.attached /\ t.seed = sd
      /\ t = [outbox |-> t.outbox, front_started |-> t.front_started, seed |-> t.seed,
              resync_pending |-> t.resync_pending, attached |-> t.attached]
  BY <1>2, <1>3
<1>6. RetainTo(s, t, f)
  BY <1>1, <1>4, <1>5 DEF RetainTo
<1> QED
  BY <1>1, <1>6

\* A frame that may wait there.
Follows(s, f) ==
  /\ replay_barrier_up(s)
  /\ f.type \in {"output", "resize"} => s.seed.manifest[f.pane] # "Pending" /\ f.pane \notin s.seed.outdated
  /\ f.type = "control" /\ f.pane # None => s.seed.manifest[f.pane] = "absent"

LEMMA RetainOK ==
  ASSUME NEW D \in SUBSET Pane, NEW s, ConnOK(s, D), NEW f \in Sent(D), Follows(s, f),
         Len(s.seed.catch_up) + Count(s.outbox) < SEED_CATCH_UP_LIMIT, NEW t, RetainTo(s, t, f)
  PROVE  ConnOK(t, D) /\ \A c \in Pane : Stale(s, c) <=> Stale(t, c)
<1>1. PICK a, b : a = s.seed /\ b = t.seed
  OBVIOUS
<1>2. /\ b = [a EXCEPT !.catch_up = Append(a.catch_up, f)]
      /\ b.kind = a.kind /\ b.manifest = a.manifest /\ b.pending = a.pending
      /\ b.replay = a.replay /\ b.baseline_queued = a.baseline_queued
      /\ b.outdated = a.outdated /\ b.catch_up = Append(a.catch_up, f)
  BY <1>1 DEF RetainTo
<1>3. /\ s.outbox \in Seq(Outgoing(D)) /\ a \in SeedTypes(D) /\ s.front_started \in BOOLEAN
      /\ s.resync_pending \in SUBSET D /\ s.attached \in BOOLEAN /\ SeedOK(a, D) /\ Bounded(s)
      /\ (replay_barrier_up(s) => s.resync_pending = {}) /\ (s.front_started => s.outbox # <<>>)
  BY <1>1 DEF ConnOK
<1>4. f \in Delayed(D)
  BY SentFacts
<1>5. a.catch_up \in Seq(Delayed(D))
  BY <1>3 DEF SeedTypes
<1>6. b.catch_up \in Seq(Delayed(D))
  BY <1>2, <1>4, <1>5
<1>7. b \in SeedTypes(D)
  BY <1>2, <1>3, <1>6 DEF SeedTypes
<1>8. PICK n \in Nat : n = Len(a.catch_up)
  BY <1>5
<1>9. Len(b.catch_up) = n + 1 /\ b.catch_up[n + 1] = f /\ \A i \in 1..n : b.catch_up[i] = a.catch_up[i]
  BY <1>2, <1>5, <1>8
<1>10. \A i \in 1..Len(b.catch_up) : i \in 1..n \/ i = n + 1
  BY <1>9
<1>11. a.kind # "none" /\ ~ a.baseline_queued
  BY <1>1 DEF Follows, replay_barrier_up
<1>12. Orderly(b)
  <2>1. Orderly(a)
    BY <1>3 DEF SeedOK
  <2>2. ASSUME NEW p \in Pane, b.manifest[p] = "Pending" \/ p \in b.outdated
        PROVE  Idle(p, b.catch_up)
    <3>1. Idle(p, a.catch_up)
      BY <1>2, <2>1, <2>2 DEF Orderly
    <3>2. ~ InLane(p, f)
      <4>1. SUFFICES ASSUME f.pane = p
                     PROVE  FALSE
        BY PaneIsPane DEF InLane
      <4>2. p # None
        BY PaneIsPane
      <4>3. a.manifest[p] = "Pending" \/ p \in a.outdated
        BY <1>2, <2>2
      <4>4. f.type = "control"
        BY <1>1, <4>1, <4>3, SentFacts DEF Follows
      <4>5. a.manifest[p] = "absent"
        BY <1>1, <4>1, <4>2, <4>4 DEF Follows
      <4>6. p \notin a.outdated
        BY <1>3, <4>5 DEF SeedOK
      <4> QED
        BY <4>3, <4>5, <4>6
    <3> QED
      BY <1>8, <1>9, <1>10, <3>1, <3>2 DEF Idle
  <2>3. ASSUME NEW i \in 1..Len(b.catch_up), b.catch_up[i].type = "control", b.catch_up[i].pane # None
        PROVE  b.manifest[b.catch_up[i].pane] = "absent"
    <3>1. CASE i = n + 1
      BY <1>1, <1>2, <1>9, <2>3, <3>1 DEF Follows
    <3>2. CASE i \in 1..n
      <4>1. i \in 1..Len(a.catch_up) /\ b.catch_up[i] = a.catch_up[i]
        BY <1>8, <1>9, <3>2
      <4> QED
        BY <1>2, <2>1, <2>3, <4>1 DEF Orderly
    <3> QED
      BY <1>10, <3>1, <3>2
  <2> QED
    BY <2>2, <2>3 DEF Orderly
<1>13. Listed(b)
  BY <1>2, <1>3 DEF SeedOK, Listed
<1>14. SeedOK(b, D)
  <2>1. \A c \in b.outdated : b.manifest[c] \notin {"absent", "Pending"}
    BY <1>2, <1>3 DEF SeedOK
  <2>2. b.replay # NoReplay => b.manifest[b.replay.pane] = "Replaying"
    BY <1>2, <1>3 DEF SeedOK
  <2>3. \A c \in Pane : b.manifest[c] # "absent" => c \in D
    BY <1>2, <1>3 DEF SeedOK
  <2>4. b.kind # "none" /\ ~ b.baseline_queued
    BY <1>2, <1>11
  <2> QED
    BY <1>7, <1>12, <1>13, <2>1, <2>2, <2>3, <2>4 DEF SeedOK
<1>15. /\ t.outbox = s.outbox /\ t.front_started = s.front_started /\ t.resync_pending = s.resync_pending
       /\ t.attached = s.attached
       /\ t = [outbox |-> t.outbox, front_started |-> t.front_started, seed |-> t.seed,
               resync_pending |-> t.resync_pending, attached |-> t.attached]
  BY DEF RetainTo
<1>16. t \in [outbox : Seq(Outgoing(D)), front_started : BOOLEAN, seed : SeedTypes(D),
              resync_pending : SUBSET D, attached : BOOLEAN]
  BY <1>1, <1>3, <1>7, <1>15
<1>17. Bounded(t)
  <2>1. PICK m \in Nat : m = Count(s.outbox)
    BY <1>3, CountType
  <2>2. SEED_CATCH_UP_LIMIT \in Nat /\ n + m < SEED_CATCH_UP_LIMIT
    BY <1>1, <1>8, <2>1, SizesAssumption
  <2>3. (n + 1) + m <= SEED_CATCH_UP_LIMIT
    BY <2>2
  <2> QED
    BY <1>1, <1>3, <1>9, <1>15, <2>1, <2>3 DEF Bounded
<1>18. replay_barrier_up(t) <=> replay_barrier_up(s)
  BY <1>1, <1>2 DEF replay_barrier_up
<1>19. ConnOK(t, D)
  BY <1>1, <1>3, <1>14, <1>15, <1>16, <1>17, <1>18 DEF ConnOK
<1> QED
  BY <1>1, <1>2, <1>15, <1>19 DEF Stale

LEMMA RetainedLane ==
  ASSUME NEW D \in SUBSET Pane, NEW s, ConnOK(s, D), NEW f \in Sent(D), NEW t, RetainTo(s, t, f),
         NEW c \in Lanes, NEW x, NEW z, Lane(s.outbox, s.seed, c, x, z), InLane(c, f) => Meets(c, z, f)
  PROVE  \E w \in Screens : /\ Lane(t.outbox, t.seed, c, x, w) /\ Goes(c, z, f, w)
                            /\ z.known \/ Introduces(c, f) => w.known
<1>1. z \in Screens
  BY LaneType
<1>2. PICK w : Goes(c, z, f, w)
  <2>1. CASE InLane(c, f)
    BY <2>1 DEF Goes
  <2>2. CASE ~ InLane(c, f)
    BY <2>2 DEF Goes
  <2> QED
    BY <2>1, <2>2
<1>3. f \in Frames(Pane)
  BY SentFacts
<1>4. w \in Screens /\ (z.known \/ Introduces(c, f) => w.known)
  BY <1>1, <1>2, <1>3, GoesKnown
<1>5. s.outbox \in Seq(Outgoing(D)) /\ s.seed \in SeedTypes(D)
  BY DEF ConnOK
<1>6. t.outbox = s.outbox /\ t.seed = [s.seed EXCEPT !.catch_up = Append(s.seed.catch_up, f)]
  BY DEF RetainTo
<1>7. Lane(s.outbox, [s.seed EXCEPT !.catch_up = Append(s.seed.catch_up, f)], c, x, w)
  BY <1>2, <1>3, <1>5, LaneRetain
<1> QED
  BY <1>2, <1>4, <1>6, <1>7

LEMMA PushCatchUp ==
  ASSUME NEW D \in SUBSET Pane, NEW s, ConnOK(s, D), NEW f \in Sent(D), replay_barrier_up(s),
         f.type \in {"output", "resize"} => s.seed.manifest[f.pane] # "Pending",
         f.type = "control" /\ f.pane # None => s.seed.manifest[f.pane] = "absent"
  PROVE  Routed(s, push_catch_up(s, f), f, D)
<1> DEFINE pane == DeltaPane(f)
           heaviest == largest_catch_up_pane(s)
           victim == IF heaviest # None THEN heaviest
                     ELSE IF pane # None /\ pane_is_sheddable(s, pane) THEN pane ELSE None
<1>1. PICK t : t = push_catch_up(s, f)
  OBVIOUS
<1>2. t = IF pane # None /\ pane \in s.seed.outdated THEN s
          ELSE IF catch_up_retained(s) < SEED_CATCH_UP_LIMIT THEN Retain(s, f)
          ELSE IF victim = None THEN Overflow(s)
          ELSE IF victim = pane THEN shed_pane(s, victim)
          ELSE Retain(shed_pane(s, victim), f)
  BY <1>1, Zenon DEF push_catch_up
<1>3. /\ f.type \in {"output", "resize", "control"}
      /\ pane # None => f.type \in {"output", "resize"} /\ pane = f.pane /\ pane \in D /\ pane \in Pane
      /\ f.type \in {"output", "resize"} => pane = f.pane /\ pane # None
  BY SentFacts, PaneIsPane
<1>4. PICK n : n = Len(s.seed.catch_up) + Count(s.outbox)
  OBVIOUS
<1>5. catch_up_retained(s) = n /\ n \in Nat /\ n <= SEED_CATCH_UP_LIMIT /\ SEED_CATCH_UP_LIMIT \in Nat
  <2>1. s.outbox \in Seq(Outgoing(D)) /\ DOMAIN s.outbox = 1..Len(s.outbox)
    BY DEF ConnOK
  <2>2. s.seed.catch_up \in Seq(Delayed(D))
    BY DEF ConnOK, SeedTypes
  <2>3. catch_up_retained(s) = n
    BY <1>4, <2>1 DEF catch_up_retained, Count, Behind
  <2>4. Len(s.seed.catch_up) \in Nat /\ Count(s.outbox) \in Nat
    BY <2>1, <2>2, CountType
  <2>5. n \in Nat
    BY <1>4, <2>4
  <2> QED
    BY <1>4, <2>3, <2>5, SizesAssumption DEF ConnOK, Bounded
<1>6. heaviest # None => heaviest \in D /\ pane_is_sheddable(s, heaviest) /\ Retains(s, heaviest)
  BY CatchUpVictim
<1>7. ASSUME ~ (pane # None /\ pane \in s.seed.outdated)
      PROVE  Follows(s, f)
  BY <1>3, <1>7 DEF Follows
<1>8. ASSUME ~ (pane # None /\ pane \in s.seed.outdated), NEW c \in Lanes, NEW x, NEW z, Ready(s, c, z, f)
      PROVE  InLane(c, f) => Meets(c, z, f)
  <2>1. SUFFICES ASSUME InLane(c, f), f.type = "output", Stale(s, c)
                 PROVE  FALSE
    BY <1>8 DEF Ready
  <2>2. c = f.pane
    BY <2>1 DEF InLane
  <2>3. s.resync_pending = {}
    BY DEF ConnOK
  <2> QED
    BY <1>3, <1>8, <2>1, <2>2, <2>3 DEF Stale
<1> HIDE DEF pane, heaviest
<1>9. CASE pane # None /\ pane \in s.seed.outdated
  <2>1. t = s
    BY <1>2, <1>9
  <2>2. Stale(s, f.pane) /\ f.type \in {"output", "resize"}
    BY <1>3, <1>9 DEF Stale
  <2>3. \A c \in Lanes : \A x, z : Lane(s.outbox, s.seed, c, x, z) => Outcome(s, c, x, z, f)
    BY <2>2, UnsentLane
  <2> QED
    BY <1>1, <2>1, <2>3 DEF Routed
<1>10. CASE ~ (pane # None /\ pane \in s.seed.outdated) /\ n < SEED_CATCH_UP_LIMIT
  <2>1. t = Retain(s, f)
    BY <1>2, <1>5, <1>10
  <2>2. RetainTo(s, t, f)
    BY <2>1, RetainFields
  <2>3. Follows(s, f)
    BY <1>7, <1>10
  <2>4. ConnOK(t, D) /\ \A c \in Pane : Stale(s, c) <=> Stale(t, c)
    BY <1>4, <1>10, <2>2, <2>3, RetainOK
  <2>5. ASSUME NEW c \in Lanes, NEW x, NEW z, Lane(s.outbox, s.seed, c, x, z), Ready(s, c, z, f)
        PROVE  Outcome(t, c, x, z, f)
    <3>1. InLane(c, f) => Meets(c, z, f)
      BY <1>8, <1>10, <2>5
    <3>2. PICK w \in Screens : /\ Lane(t.outbox, t.seed, c, x, w) /\ Goes(c, z, f, w)
                               /\ z.known \/ Introduces(c, f) => w.known
      BY <2>2, <2>5, <3>1, RetainedLane
    <3> QED
      BY <3>2 DEF Outcome
  <2> QED
    BY <1>1, <2>4, <2>5 DEF Routed
<1>11. CASE ~ (pane # None /\ pane \in s.seed.outdated) /\ ~ (n < SEED_CATCH_UP_LIMIT) /\ victim = None
  <2>1. t = Overflow(s)
    BY <1>2, <1>5, <1>11
  <2> QED
    BY <1>1, <2>1, OverflowOK DEF Routed
<1>12. CASE ~ (pane # None /\ pane \in s.seed.outdated) /\ ~ (n < SEED_CATCH_UP_LIMIT) /\ victim # None
  <2>1. PICK v : v = victim
    OBVIOUS
  <2>2. v \in D /\ pane_is_sheddable(s, v)
    BY <1>3, <1>6, <1>12, <2>1
  <2>3. PICK u : u = shed_pane(s, v)
    OBVIOUS
  <2>4. ShedTo(s, u, v)
    BY <2>2, <2>3, ShedFields
  <2>5. ConnOK(u, D) /\ Stale(u, v) /\ (replay_barrier_up(u) <=> replay_barrier_up(s))
        /\ \A c \in Pane : Stale(s, c) => Stale(u, c)
    BY <2>2, <2>4, ShedOK
  <2>6. CASE v = pane
    <3>1. t = u
      BY <1>2, <1>5, <1>12, <2>1, <2>3, <2>6
    <3>2. f.type \in {"output", "resize"} /\ v = f.pane
      BY <1>3, <1>12, <2>1, <2>6
    <3>3. pane_is_sheddable(s, f.pane) /\ ShedTo(s, u, f.pane)
      BY <2>2, <2>4, <3>2
    <3>4. \A c \in Lanes : \A x, z : Lane(s.outbox, s.seed, c, x, z) => Outcome(u, c, x, z, f)
      BY <3>2, <3>3, ShedInsteadLane
    <3> QED
      BY <1>1, <2>5, <3>1, <3>4 DEF Routed
  <2>7. CASE v # pane
    <3>1. t = Retain(u, f)
      BY <1>2, <1>5, <1>12, <2>1, <2>3, <2>7
    <3>2. RetainTo(u, t, f)
      BY <2>5, <3>1, RetainFields
    <3>3. Retains(s, v)
      BY <1>6, <1>12, <2>1, <2>7
    <3>4. Len(u.seed.catch_up) + Count(u.outbox) < SEED_CATCH_UP_LIMIT
      <4>1. Freed(s, u, v)
        BY <2>2, <2>4, ShedFrees
      <4>2. PICK m : m = Len(u.seed.catch_up) + Count(u.outbox)
        OBVIOUS
      <4>3. m < n
        BY <1>4, <3>3, <4>1, <4>2 DEF Freed
      <4>4. m \in Nat
        <5>1. u.outbox \in Seq(Outgoing(D)) /\ u.seed.catch_up \in Seq(Delayed(D))
          BY <2>5 DEF ConnOK, SeedTypes
        <5>2. Len(u.seed.catch_up) \in Nat /\ Count(u.outbox) \in Nat
          BY <5>1, CountType
        <5> QED
          BY <4>2, <5>2
      <4>5. m < SEED_CATCH_UP_LIMIT
        BY ONLY <1>5, <4>3, <4>4
      <4> QED
        BY <4>2, <4>5
    <3>5. u.seed.manifest = s.seed.manifest /\ u.seed.outdated \subseteq s.seed.outdated \cup {v}
      BY <2>4 DEF ShedTo
    <3>6. Follows(u, f)
      BY <1>3, <1>12, <2>5, <2>7, <3>5 DEF Follows
    <3>7. ConnOK(t, D) /\ \A c \in Pane : Stale(u, c) <=> Stale(t, c)
      BY <2>5, <3>2, <3>4, <3>6, RetainOK
    <3>8. ASSUME NEW c \in Lanes, NEW x, NEW z, Lane(s.outbox, s.seed, c, x, z), Ready(s, c, z, f)
          PROVE  Outcome(t, c, x, z, f)
      <4>1. Diverted(u, v, c, x, z)
        BY <2>2, <2>4, <3>8, ShedLane
      <4>2. PICK y \in Screens : Lane(u.outbox, u.seed, c, x, y) /\ (z.known => y.known) /\ (c # v => y = z)
        BY <4>1 DEF Diverted
      <4>3. c = v => ~ InLane(c, f)
        <5>1. SUFFICES ASSUME c = v, InLane(v, f)
                       PROVE  FALSE
          OBVIOUS
        <5>2. v # None
          BY <2>2, PaneIsPane
        <5>3. f.pane = v
          BY <5>1, <5>2 DEF InLane
        <5>4. f.type = "control"
          BY <1>3, <2>7, <5>3
        <5>5. s.seed.manifest[v] = "absent"
          BY <5>2, <5>3, <5>4
        <5> QED
          BY <2>2, <5>5 DEF pane_is_sheddable
      <4>4. InLane(c, f) => Meets(c, y, f)
        <5>1. InLane(c, f) => Meets(c, z, f)
          BY <1>8, <1>12, <3>8
        <5> QED
          BY <4>2, <4>3, <5>1
      <4>5. PICK w \in Screens : /\ Lane(t.outbox, t.seed, c, x, w) /\ Goes(c, y, f, w)
                                 /\ y.known \/ Introduces(c, f) => w.known
        BY <2>5, <3>2, <4>2, <4>4, RetainedLane
      <4>6. c = v => c \in Pane /\ Stale(t, c)
        BY <2>2, <2>5, <3>7
      <4> QED
        BY <4>2, <4>5, <4>6 DEF Outcome
    <3> QED
      BY <1>1, <2>5, <3>7, <3>8 DEF Routed
  <2> QED
    BY <2>6, <2>7
<1> QED
  BY <1>9, <1>10, <1>11, <1>12

\* Every frame the session sends.
LEMMA PushDelta ==
  ASSUME NEW D \in SUBSET Pane, NEW s, ConnOK(s, D), NEW f \in Sent(D),
         f.type = "control" /\ f.pane # None => s.seed.manifest[f.pane] = "absent"
  PROVE  Routed(s, push_delta(s, f), f, D)
<1>1. /\ f.type \in {"output", "resize"} => DeltaPane(f) = f.pane /\ f.pane # None
      /\ f.type = "control" => DeltaPane(f) = None
      /\ f.type \in {"output", "resize", "control"}
  BY SentFacts, PaneIsPane
<1>2. CASE ~ replay_barrier_up(s)
  <2>1. push_delta(s, f) = push_live(s, f)
    BY <1>2 DEF push_delta
  <2> QED
    BY <1>2, <2>1, PushLive DEF Through
<1>3. CASE replay_barrier_up(s) /\ output_precedes_snapshot(s, DeltaPane(f))
  <2>1. f.type \in {"output", "resize"} /\ s.seed.manifest[f.pane] = "Pending"
    BY <1>1, <1>3 DEF output_precedes_snapshot
  <2>2. CASE f.type = "output"
    <3>1. push_delta(s, f) = s
      BY <1>3, <2>2 DEF push_delta
    <3>2. Stale(s, f.pane)
      BY <2>1 DEF Stale
    <3>3. \A c \in Lanes : \A x, z : Lane(s.outbox, s.seed, c, x, z) => Outcome(s, c, x, z, f)
      BY <2>1, <3>2, UnsentLane
    <3> QED
      BY <3>1, <3>3 DEF Routed
  <2>3. CASE f.type = "resize"
    <3>1. push_delta(s, f) = push_live(s, f)
      BY <1>3, <2>3 DEF push_delta
    <3> QED
      BY <2>1, <2>3, <3>1, PushLive DEF Through
  <2> QED
    BY <2>1, <2>2, <2>3
<1>4. CASE replay_barrier_up(s) /\ ~ output_precedes_snapshot(s, DeltaPane(f))
  <2>1. push_delta(s, f) = push_catch_up(s, f)
    BY <1>4 DEF push_delta
  <2>2. f.type \in {"output", "resize"} => s.seed.manifest[f.pane] # "Pending"
    BY <1>1, <1>4 DEF output_precedes_snapshot
  <2> QED
    BY <1>4, <2>1, <2>2, PushCatchUp
<1> QED
  BY <1>2, <1>3, <1>4

----------------------------------------------------------------------------
(* What happens in the session                                             *)

LEMMA ConnWiden ==
  ASSUME NEW D \in SUBSET Pane, NEW E \in SUBSET Pane, D \subseteq E, NEW s, ConnOK(s, D)
  PROVE  ConnOK(s, E)
<1>1. /\ s.outbox \in Seq(Outgoing(D)) /\ s.seed \in SeedTypes(D) /\ s.front_started \in BOOLEAN
      /\ s.resync_pending \in SUBSET D /\ s.attached \in BOOLEAN /\ SeedOK(s.seed, D) /\ Bounded(s)
      /\ (replay_barrier_up(s) => s.resync_pending = {}) /\ (s.front_started => s.outbox # <<>>)
      /\ s = [outbox |-> s.outbox, front_started |-> s.front_started, seed |-> s.seed,
              resync_pending |-> s.resync_pending, attached |-> s.attached]
  BY DEF ConnOK
<1>2. \A f \in Outgoing(D) : f \in Outgoing(E)
  BY DEF Outgoing, Frames
<1>3. \A f \in Delayed(D) : f \in Delayed(E)
  BY <1>2 DEF Delayed
<1>4. s.outbox \in Seq(Outgoing(E))
  BY <1>1, <1>2
<1>5. PICK sd : sd = s.seed
  OBVIOUS
<1>6. /\ sd.kind \in {"none", "Attach", "Resync"} /\ sd.pending \in Seq(D) /\ sd.replay \in Replays(D) \cup {NoReplay}
      /\ sd.manifest \in [Pane -> {"absent", "Pending", "Replaying", "CatchingUp", "Live"}]
      /\ sd.baseline_queued \in BOOLEAN /\ sd.catch_up \in Seq(Delayed(D)) /\ sd.outdated \in SUBSET D
      /\ sd = [kind |-> sd.kind, manifest |-> sd.manifest, pending |-> sd.pending,
               replay |-> sd.replay, catch_up |-> sd.catch_up,
               baseline_queued |-> sd.baseline_queued, outdated |-> sd.outdated]
  BY <1>1, <1>5 DEF SeedTypes
<1>7. sd.catch_up \in Seq(Delayed(E))
  BY <1>3, <1>6
<1>8. sd.pending \in Seq(E)
  BY <1>6
<1>9. sd.replay \in Replays(E) \cup {NoReplay}
  BY <1>6 DEF Replays
<1>10. sd.outdated \in SUBSET E
  BY <1>6
<1>11. sd \in SeedTypes(E)
  BY <1>6, <1>7, <1>8, <1>9, <1>10 DEF SeedTypes
<1>12. SeedOK(sd, E)
  BY <1>1, <1>5, <1>11 DEF SeedOK
<1>13. s \in [outbox : Seq(Outgoing(E)), front_started : BOOLEAN, seed : SeedTypes(E),
              resync_pending : SUBSET E, attached : BOOLEAN]
  <2>1. s.resync_pending \in SUBSET E
    BY <1>1
  <2> QED
    BY <1>1, <1>4, <1>5, <1>11, <2>1
<1> QED
  BY <1>1, <1>5, <1>12, <1>13 DEF ConnOK

\* A lane that ended at pane a ends at pane b after the frame.
Lands(s, t, c, f, a, b) ==
  \A z \in Screens : Ends(s, c, a, z) =>
    /\ Ready(s, c, z, f)
    /\ \A w \in Screens : (z.known \/ Introduces(c, f) => w.known) /\ (Goes(c, z, f, w) \/ Stale(t, c)) =>
         Ends(t, c, b, w)

LEMMA LandsOther ==
  ASSUME NEW s, NEW t, NEW c \in Pane, NEW f, f.pane # c, Stale(s, c) => Stale(t, c), NEW a
  PROVE  Lands(s, t, c, f, a, a)
<1>1. ~ InLane(c, f)
  BY PaneIsPane DEF InLane
<1> QED
  BY <1>1 DEF Lands, Ready, Goes, Ends

LEMMA SessionStep ==
  ASSUME NEW D \in SUBSET Pane, NEW s, ConnOK(s, D), NEW f \in Sent(D),
         f.type = "control" /\ f.pane # None => s.seed.manifest[f.pane] = "absent",
         NEW t, t = push_delta(s, f), NEW pn, NEW qn, NEW u, NEW cs, Followed(s, pn, u, cs),
         NEW ds, ds.applied = cs.applied, f.type = "control" => f.ver = After(cs.sent) /\ ds.sent = f.ver,
         f.type # "control" => ds.sent = cs.sent,
         (\A c \in Pane : Stale(s, c) => Stale(t, c)) => \A c \in Pane : Lands(s, t, c, f, pn[c], qn[c])
  PROVE  ConnOK(t, D) /\ (t.attached => Followed(t, qn, u, ds))
<1>1. Routed(s, t, f, D)
  BY PushDelta
<1>2. ConnOK(t, D) /\ \A c \in Pane : Stale(s, c) => Stale(t, c)
  BY <1>1 DEF Routed
<1>3. \A c \in Pane : Lands(s, t, c, f, pn[c], qn[c])
  BY <1>2
<1>4. SUFFICES ASSUME t.attached
               PROVE  Followed(t, qn, u, ds)
  BY <1>2
<1>5. \A c \in Lanes : \A x, z : Lane(s.outbox, s.seed, c, x, z) /\ Ready(s, c, z, f) => Outcome(t, c, x, z, f)
  BY <1>1, <1>4 DEF Routed
<1>6. ASSUME NEW c \in Pane
      PROVE  \E w \in Screens : Lane(t.outbox, t.seed, c, u[c], w) /\ Ends(t, c, qn[c], w)
  <2>1. PICK z \in Screens : Lane(s.outbox, s.seed, c, u[c], z) /\ Ends(s, c, pn[c], z)
    BY DEF Followed
  <2>2. Ready(s, c, z, f)
    BY <1>3, <2>1 DEF Lands
  <2>3. c \in Lanes
    BY DEF Lanes
  <2>4. Outcome(t, c, u[c], z, f)
    BY <1>5, <2>1, <2>2, <2>3
  <2>5. PICK w \in Screens : /\ Lane(t.outbox, t.seed, c, u[c], w) /\ (z.known \/ Introduces(c, f) => w.known)
                             /\ Goes(c, z, f, w) \/ (c \in Pane /\ Stale(t, c))
    BY <2>4 DEF Outcome
  <2>6. Ends(t, c, qn[c], w)
    BY <1>3, <2>1, <2>5 DEF Lands
  <2> QED
    BY <2>5, <2>6
<1>7. \E w \in Screens : Lane(t.outbox, t.seed, None, Counter(ds.applied), w) /\ w.ver = ds.sent
  <2>1. PICK z \in Screens : Lane(s.outbox, s.seed, None, Counter(cs.applied), z) /\ z.ver = cs.sent
    BY DEF Followed
  <2>2. Ready(s, None, z, f)
    BY <2>1 DEF Ready, InLane, Meets
  <2>3. None \in Lanes /\ None \notin Pane
    BY PaneIsPane DEF Lanes
  <2>4. Outcome(t, None, Counter(ds.applied), z, f)
    BY <1>5, <2>1, <2>2, <2>3
  <2>5. PICK w \in Screens : Lane(t.outbox, t.seed, None, Counter(ds.applied), w) /\ Goes(None, z, f, w)
    BY <2>3, <2>4 DEF Outcome
  <2>6. w.ver = ds.sent
    <3>1. CASE f.type = "control"
      <4>1. w = [z EXCEPT !.ver = f.ver]
        BY <2>5, <3>1 DEF Goes, InLane, Effect
      <4> QED
        BY <3>1, <4>1 DEF Screens
    <3>2. CASE f.type # "control"
      BY <2>1, <2>5, <3>2 DEF Goes, InLane
    <3> QED
      BY <3>1, <3>2
  <2> QED
    BY <2>5, <2>6
<1> QED
  BY <1>6, <1>7 DEF Followed

LEMMA AfterType == \A v \in 0..Versions : After(v) \in 0..Versions /\ After(v) # 0
BY SizesAssumption DEF After

LEMMA MetPanes == Met \in SUBSET Pane
BY DEF Met

LEMMA FrameFields ==
  ASSUME NEW type, NEW pane, NEW ver, NEW geom, NEW part, NEW class, NEW f, f = Frame(type, pane, ver, geom, part, class)
  PROVE  f.type = type /\ f.pane = pane /\ f.ver = ver /\ f.geom = geom /\ f.part = part /\ f.class = class
BY DEF Frame

LEMMA SentFrame ==
  ASSUME NEW D \in SUBSET Pane, NEW type \in {"output", "resize", "control"}, NEW pane \in D \cup {None},
         NEW ver \in 0..Versions, NEW geom \in 1..2, type # "control" => pane # None, type = "output" => ver # 0
  PROVE  Frame(type, pane, ver, geom, 0, "Normal") \in Sent(D)
<1>1. PICK f : f = Frame(type, pane, ver, geom, 0, "Normal")
  OBVIOUS
<1>2. f.type = type /\ f.pane = pane /\ f.ver = ver /\ f.geom = geom /\ f.part = 0 /\ f.class = "Normal"
  BY <1>1, FrameFields
<1>3. f \in Frames(D)
  <2>1. 0 \in 0..Chunks
    BY SizesAssumption
  <2> QED
    BY <1>1, <2>1 DEF Frame, Frames, Kinds
<1>4. Proper(f)
  BY <1>2 DEF Proper
<1>5. f \in Sent(D)
  BY <1>2, <1>3, <1>4 DEF Sent, Delayed, Outgoing
<1> QED
  BY <1>1, <1>5

LEMMA OutputStep ==
  ASSUME Inv, NEW p \in Pane, Output(p)
  PROVE  Inv'
<1>1. PICK v, g, f : v = After(panes[p].ver) /\ g = panes[p].geom /\ f = Frame("output", p, v, g, 0, "Normal")
  OBVIOUS
<1>2. /\ panes[p].state = "live" /\ panes' = [panes EXCEPT ![p].ver = v] /\ conn' = push_delta(conn, f)
      /\ ui' = ui /\ controls' = controls /\ reading' = reading /\ conn.attached
      /\ inputs' \in 0..MaxInputs
  <2>1. inputs \in 0..MaxInputs /\ MaxInputs \in Nat
    BY SizesAssumption DEF Inv
  <2> QED
    BY <1>1, <2>1 DEF Output, Input
<1>3. /\ panes \in [Pane -> [state : {"none", "live", "exited"}, ver : 0..Versions, geom : 1..2]]
      /\ v \in 0..Versions /\ v # 0 /\ g \in 1..2
  BY <1>1, AfterType DEF Inv
<1>4. /\ panes' \in [Pane -> [state : {"none", "live", "exited"}, ver : 0..Versions, geom : 1..2]]
      /\ \A c \in Pane : c # p => panes'[c] = panes[c]
      /\ panes'[p].state = "live" /\ panes'[p].ver = v /\ panes'[p].geom = g
      /\ \A c \in Pane : panes'[c].state = panes[c].state /\ panes'[c].geom = panes[c].geom
  BY <1>1, <1>2, <1>3
<1>5. Met' = Met /\ p \in Met
  BY <1>2, <1>4 DEF Met
<1>6. f \in Sent(Met) /\ f.type = "output" /\ f.pane = p /\ f.ver = v /\ f.geom = g
  BY <1>1, <1>3, <1>5, MetPanes, PaneIsPane, SentFrame, FrameFields
<1>7. ConnOK(conn, Met) /\ Followed(conn, panes, ui, controls)
  BY <1>2 DEF Inv
<1>8. ASSUME \A c \in Pane : Stale(conn, c) => Stale(conn', c), NEW c \in Pane
      PROVE  Lands(conn, conn', c, f, panes[c], panes'[c])
  <2>1. CASE c # p
    BY <1>4, <1>6, <1>8, <2>1, LandsOther
  <2>2. CASE c = p
    <3>1. ASSUME NEW z \in Screens, Ends(conn, p, panes[p], z)
          PROVE  /\ Ready(conn, p, z, f)
                 /\ \A w \in Screens : (z.known => w.known) /\ (Goes(p, z, f, w) \/ Stale(conn', p)) =>
                      Ends(conn', p, panes'[p], w)
      <4>1. z.known /\ (~ Stale(conn, p) => z.ver = panes[p].ver /\ z.part = 0 /\ z.geom = g)
        BY <1>1, <1>2, <3>1 DEF Ends
      <4>2. p # None
        BY PaneIsPane
      <4>3. ~ Stale(conn, p) => Fits(z, f)
        BY <1>1, <1>6, <4>1 DEF Fits
      <4>4. Ready(conn, p, z, f)
        BY <1>6, <4>2, <4>3 DEF Ready, Meets
      <4>5. ASSUME NEW w \in Screens, z.known => w.known, Goes(p, z, f, w) \/ Stale(conn', p)
            PROVE  Ends(conn', p, panes'[p], w)
        <5>1. CASE Stale(conn', p)
          BY <4>1, <4>5, <5>1 DEF Ends
        <5>2. CASE ~ Stale(conn', p)
          <6>1. Fits(z, f) /\ w = Drawn(z, f)
            BY <1>6, <4>2, <4>5, <5>2 DEF Goes, InLane, Meets, Effect
          <6>2. f \in Frames(Pane)
            BY <1>6, MetPanes, SentFacts
          <6>3. w.ver = v /\ w.part = 0 /\ w.geom = z.geom /\ z.geom = g
            BY <1>6, <6>1, <6>2, DrawnFields
          <6> QED
            BY <1>4, <4>1, <4>5, <6>3 DEF Ends
        <5> QED
          BY <5>1, <5>2
      <4> QED
        BY <4>4, <4>5
    <3> QED
      BY <2>2, <3>1 DEF Lands
  <2> QED
    BY <2>1, <2>2
<1>9. ConnOK(conn', Met) /\ (conn'.attached => Followed(conn', panes', ui, controls))
  BY <1>2, <1>6, <1>7, <1>8, MetPanes, SessionStep
<1> QED
  BY <1>2, <1>4, <1>5, <1>9 DEF Inv

LEMMA ResizeStep ==
  ASSUME Inv, NEW p \in Pane, Resize(p)
  PROVE  Inv'
<1>1. PICK g, f : g = 3 - panes[p].geom /\ f = Frame("resize", p, 0, g, 0, "Normal")
  OBVIOUS
<1>2. /\ panes[p].state = "live" /\ panes' = [panes EXCEPT ![p].geom = g] /\ conn' = push_delta(conn, f)
      /\ ui' = ui /\ controls' = controls /\ reading' = reading /\ conn.attached
      /\ inputs' \in 0..MaxInputs
  <2>1. inputs \in 0..MaxInputs /\ MaxInputs \in Nat
    BY SizesAssumption DEF Inv
  <2> QED
    BY <1>1, <2>1 DEF Resize, Input
<1>3. panes \in [Pane -> [state : {"none", "live", "exited"}, ver : 0..Versions, geom : 1..2]]
  BY DEF Inv
<1>4. g \in 1..2 /\ 0 \in 0..Versions
  BY <1>1, <1>3, SizesAssumption
<1>5. /\ panes' \in [Pane -> [state : {"none", "live", "exited"}, ver : 0..Versions, geom : 1..2]]
      /\ \A c \in Pane : c # p => panes'[c] = panes[c]
      /\ panes'[p].state = "live" /\ panes'[p].ver = panes[p].ver /\ panes'[p].geom = g
      /\ \A c \in Pane : panes'[c].state = panes[c].state
  BY <1>2, <1>3, <1>4
<1>6. Met' = Met /\ p \in Met /\ \A c \in Pane : panes'[c].state = "none" => panes'[c].geom = 1
  BY <1>2, <1>5 DEF Met, Inv
<1>7. f \in Sent(Met) /\ f.type = "resize" /\ f.pane = p /\ f.geom = g
  BY <1>1, <1>4, <1>6, MetPanes, PaneIsPane, SentFrame, FrameFields
<1>8. ConnOK(conn, Met) /\ Followed(conn, panes, ui, controls)
  BY <1>2 DEF Inv
<1>9. ASSUME \A c \in Pane : Stale(conn, c) => Stale(conn', c), NEW c \in Pane
      PROVE  Lands(conn, conn', c, f, panes[c], panes'[c])
  <2>1. CASE c # p
    BY <1>5, <1>7, <1>9, <2>1, LandsOther
  <2>2. CASE c = p
    <3>1. ASSUME NEW z \in Screens, Ends(conn, p, panes[p], z)
          PROVE  /\ Ready(conn, p, z, f)
                 /\ \A w \in Screens : (z.known => w.known) /\ (Goes(p, z, f, w) \/ Stale(conn', p)) =>
                      Ends(conn', p, panes'[p], w)
      <4>1. z.known /\ (~ Stale(conn, p) => z.ver = panes[p].ver /\ z.part = 0)
        BY <1>2, <3>1 DEF Ends
      <4>2. p # None
        BY PaneIsPane
      <4>3. Fits(z, f)
        BY <1>7, <4>1 DEF Fits
      <4>4. Ready(conn, p, z, f)
        BY <1>7, <4>2, <4>3 DEF Ready, Meets
      <4>5. ASSUME NEW w \in Screens, z.known => w.known, Goes(p, z, f, w) \/ Stale(conn', p)
            PROVE  Ends(conn', p, panes'[p], w)
        <5>1. CASE Stale(conn', p)
          BY <4>1, <4>5, <5>1 DEF Ends
        <5>2. CASE ~ Stale(conn', p)
          <6>1. w = Drawn(z, f)
            BY <1>7, <4>2, <4>5, <5>2 DEF Goes, InLane, Effect
          <6>2. f \in Frames(Pane)
            BY <1>7, MetPanes, SentFacts
          <6>3. w.ver = z.ver /\ w.part = z.part /\ w.geom = g
            BY <1>7, <4>3, <6>1, <6>2, DrawnFields
          <6>4. ~ Stale(conn, p)
            BY <1>9, <5>2
          <6> QED
            BY <1>5, <4>1, <4>5, <6>3, <6>4 DEF Ends
        <5> QED
          BY <5>1, <5>2
      <4> QED
        BY <4>4, <4>5
    <3> QED
      BY <2>2, <3>1 DEF Lands
  <2> QED
    BY <2>1, <2>2
<1>10. ConnOK(conn', Met) /\ (conn'.attached => Followed(conn', panes', ui, controls))
  BY <1>2, <1>7, <1>8, <1>9, MetPanes, SessionStep
<1> QED
  BY <1>2, <1>5, <1>6, <1>10 DEF Inv

\* A control frame, with what Control does to the counter.
LEMMA ControlFields ==
  ASSUME Inv, NEW p \in Pane \cup {None}, Control(p), NEW D \in SUBSET Pane, p \in D \cup {None}
  PROVE  \E f \in Sent(D) :
           /\ conn' = push_delta(conn, f) /\ f.type = "control" /\ f.pane = p /\ f.geom = 1
           /\ f.ver = After(controls.sent) /\ controls'.sent = f.ver /\ controls'.applied = controls.applied
           /\ controls' \in [sent : 0..Versions, applied : 0..Versions, lost : {FALSE}]
<1>1. PICK v, f : v = After(controls.sent) /\ f = Frame("control", p, v, 1, 0, "Normal")
  OBVIOUS
<1>2. controls \in [sent : 0..Versions, applied : 0..Versions, lost : {FALSE}]
  BY DEF Inv
<1>3. v \in 0..Versions /\ 1 \in 1..2
  BY <1>1, <1>2, AfterType
<1>4. conn' = push_delta(conn, f) /\ controls' = [controls EXCEPT !.sent = v]
  BY <1>1 DEF Control
<1>5. f \in Sent(D)
  BY <1>1, <1>3, SentFrame
<1>6. f.type = "control" /\ f.pane = p /\ f.geom = 1 /\ f.ver = v
  BY <1>1, FrameFields
<1>7. /\ controls'.sent = v /\ controls'.applied = controls.applied
      /\ controls' \in [sent : 0..Versions, applied : 0..Versions, lost : {FALSE}]
  BY <1>2, <1>3, <1>4
<1> QED
  BY <1>1, <1>4, <1>5, <1>6, <1>7

LEMMA BroadcastStep ==
  ASSUME Inv, Broadcast
  PROVE  Inv'
<1>1. /\ panes' = panes /\ ui' = ui /\ reading' = reading /\ conn.attached /\ inputs' \in 0..MaxInputs
      /\ Control(None)
  <2>1. inputs \in 0..MaxInputs /\ MaxInputs \in Nat
    BY SizesAssumption DEF Inv
  <2> QED
    BY <2>1 DEF Broadcast, Input
<1>2. PICK f \in Sent(Met) :
           /\ conn' = push_delta(conn, f) /\ f.type = "control" /\ f.pane = None /\ f.geom = 1
           /\ f.ver = After(controls.sent) /\ controls'.sent = f.ver /\ controls'.applied = controls.applied
           /\ controls' \in [sent : 0..Versions, applied : 0..Versions, lost : {FALSE}]
  BY <1>1, MetPanes, ControlFields
<1>3. ConnOK(conn, Met) /\ Followed(conn, panes, ui, controls) /\ Met' = Met
  BY <1>1 DEF Inv, Met
<1>4. ASSUME \A c \in Pane : Stale(conn, c) => Stale(conn', c), NEW c \in Pane
      PROVE  Lands(conn, conn', c, f, panes[c], panes[c])
  BY <1>2, <1>4, PaneIsPane, LandsOther
<1>5. ConnOK(conn', Met) /\ (conn'.attached => Followed(conn', panes, ui, controls'))
  BY <1>2, <1>3, <1>4, MetPanes, SessionStep
<1> QED
  BY <1>1, <1>2, <1>3, <1>5 DEF Inv

LEMMA ExitStep ==
  ASSUME Inv, NEW p \in Pane, Exit(p)
  PROVE  Inv'
<1>1. /\ panes[p].state = "live" /\ panes' = [panes EXCEPT ![p].state = "exited"]
      /\ ui' = ui /\ reading' = reading /\ conn.attached /\ inputs' \in 0..MaxInputs /\ Control(None)
  <2>1. inputs \in 0..MaxInputs /\ MaxInputs \in Nat
    BY SizesAssumption DEF Inv
  <2> QED
    BY <2>1 DEF Exit, Input
<1>2. panes \in [Pane -> [state : {"none", "live", "exited"}, ver : 0..Versions, geom : 1..2]]
  BY DEF Inv
<1>3. /\ panes' \in [Pane -> [state : {"none", "live", "exited"}, ver : 0..Versions, geom : 1..2]]
      /\ \A c \in Pane : c # p => panes'[c] = panes[c]
      /\ panes'[p].state = "exited"
  BY <1>1, <1>2
<1>4. Met' = Met /\ \A c \in Pane : panes'[c].state = "none" => panes'[c].geom = 1
  BY <1>1, <1>3 DEF Met, Inv
<1>5. PICK f \in Sent(Met) :
           /\ conn' = push_delta(conn, f) /\ f.type = "control" /\ f.pane = None /\ f.geom = 1
           /\ f.ver = After(controls.sent) /\ controls'.sent = f.ver /\ controls'.applied = controls.applied
           /\ controls' \in [sent : 0..Versions, applied : 0..Versions, lost : {FALSE}]
  BY <1>1, MetPanes, ControlFields
<1>6. ConnOK(conn, Met) /\ Followed(conn, panes, ui, controls)
  BY <1>1 DEF Inv
<1>7. ASSUME \A c \in Pane : Stale(conn, c) => Stale(conn', c), NEW c \in Pane
      PROVE  Lands(conn, conn', c, f, panes[c], panes'[c])
  <2>1. CASE c # p
    BY <1>3, <1>5, <1>7, <2>1, PaneIsPane, LandsOther
  <2>2. CASE c = p
    <3>1. ~ InLane(p, f)
      BY <1>5, PaneIsPane DEF InLane
    <3>2. \A z \in Screens : Ready(conn, p, z, f)
      BY <3>1 DEF Ready
    <3>3. \A z \in Screens, w \in Screens :
            Ends(conn, p, panes[p], z) /\ (z.known => w.known) => Ends(conn', p, panes'[p], w)
      BY <1>1, <1>3 DEF Ends
    <3> QED
      BY <2>2, <3>2, <3>3 DEF Lands
  <2> QED
    BY <2>1, <2>2
<1>8. ConnOK(conn', Met) /\ (conn'.attached => Followed(conn', panes', ui, controls'))
  BY <1>5, <1>6, <1>7, MetPanes, SessionStep
<1> QED
  BY <1>1, <1>3, <1>4, <1>5, <1>8 DEF Inv

LEMMA SpawnStep ==
  ASSUME Inv, NEW p \in Pane, Spawn(p)
  PROVE  Inv'
<1>1. /\ panes[p].state = "none" /\ panes' = [panes EXCEPT ![p].state = "live"]
      /\ ui' = ui /\ reading' = reading /\ conn.attached /\ inputs' \in 0..MaxInputs /\ Control(p)
  <2>1. inputs \in 0..MaxInputs /\ MaxInputs \in Nat
    BY SizesAssumption DEF Inv
  <2> QED
    BY <2>1 DEF Spawn, Input
<1>2. panes \in [Pane -> [state : {"none", "live", "exited"}, ver : 0..Versions, geom : 1..2]]
  BY DEF Inv
<1>3. /\ panes' \in [Pane -> [state : {"none", "live", "exited"}, ver : 0..Versions, geom : 1..2]]
      /\ \A c \in Pane : c # p => panes'[c] = panes[c]
      /\ panes'[p].state = "live" /\ panes'[p].ver = panes[p].ver /\ panes'[p].geom = panes[p].geom
  BY <1>1, <1>2
<1>4. \A c \in Pane : panes'[c].state = "none" => panes'[c].geom = 1
  BY <1>1, <1>3 DEF Inv
<1>5. PICK E : E = Met \cup {p}
  OBVIOUS
<1>6. Met' = E /\ E \in SUBSET Pane /\ Met \subseteq E /\ p \in E /\ p \notin Met /\ panes[p].geom = 1
  BY <1>1, <1>3, <1>5 DEF Met, Inv
<1>7. PICK f \in Sent(E) :
           /\ conn' = push_delta(conn, f) /\ f.type = "control" /\ f.pane = p /\ f.geom = 1
           /\ f.ver = After(controls.sent) /\ controls'.sent = f.ver /\ controls'.applied = controls.applied
           /\ controls' \in [sent : 0..Versions, applied : 0..Versions, lost : {FALSE}]
  BY <1>1, <1>6, ControlFields
<1>8. ConnOK(conn, Met) /\ Followed(conn, panes, ui, controls)
  BY <1>1 DEF Inv
<1>9. ConnOK(conn, E)
  BY <1>6, <1>8, MetPanes, ConnWiden
<1>10. conn.seed.manifest[p] = "absent"
  BY <1>6, <1>8 DEF ConnOK, SeedOK
<1>11. ASSUME \A c \in Pane : Stale(conn, c) => Stale(conn', c), NEW c \in Pane
       PROVE  Lands(conn, conn', c, f, panes[c], panes'[c])
  <2>1. CASE c # p
    BY <1>3, <1>7, <1>11, <2>1, LandsOther
  <2>2. CASE c = p
    <3>1. ASSUME NEW z \in Screens, Ends(conn, p, panes[p], z)
          PROVE  /\ Ready(conn, p, z, f)
                 /\ \A w \in Screens : (z.known \/ Introduces(p, f) => w.known) /\ (Goes(p, z, f, w) \/ Stale(conn', p)) =>
                      Ends(conn', p, panes'[p], w)
      <4>1. ~ Stale(conn, p)
        BY <1>6, <1>8, <1>10 DEF Stale, ConnOK, SeedTypes
      <4>2. z.ver = panes[p].ver /\ z.part = 0
        BY <1>1, <3>1, <4>1 DEF Ends
      <4>3. p # None
        BY PaneIsPane
      <4>4. Fits(z, f)
        BY <1>7 DEF Fits
      <4>5. Ready(conn, p, z, f)
        BY <1>7, <4>3, <4>4 DEF Ready, Meets
      <4>6. ASSUME NEW w \in Screens, z.known \/ Introduces(p, f) => w.known, Goes(p, z, f, w) \/ Stale(conn', p)
            PROVE  Ends(conn', p, panes'[p], w)
        <5>1. w.known
          BY <1>7, <4>3, <4>6 DEF Introduces
        <5>2. CASE Stale(conn', p)
          BY <1>3, <5>1, <5>2 DEF Ends
        <5>3. CASE ~ Stale(conn', p)
          <6>1. w = Drawn(z, f)
            BY <1>7, <4>3, <4>6, <5>3 DEF Goes, InLane, Effect
          <6>2. f \in Frames(Pane)
            BY <1>6, <1>7, SentFacts
          <6>3. w.ver = z.ver /\ w.part = z.part /\ w.geom = 1
            BY <1>7, <4>4, <6>1, <6>2, DrawnFields
          <6> QED
            BY <1>3, <1>6, <4>2, <5>1, <6>3 DEF Ends
        <5> QED
          BY <5>2, <5>3
      <4> QED
        BY <4>5, <4>6
    <3> QED
      BY <2>2, <3>1 DEF Lands
  <2> QED
    BY <2>1, <2>2
<1>12. ConnOK(conn', E) /\ (conn'.attached => Followed(conn', panes', ui, controls'))
  BY <1>6, <1>7, <1>8, <1>9, <1>10, <1>11, SessionStep
<1> QED
  BY <1>1, <1>3, <1>4, <1>6, <1>7, <1>12 DEF Inv

----------------------------------------------------------------------------
(* The pump                                                                *)

\* The lanes of t lead where those of s do.
Same(s, t) ==
  /\ \A c \in Pane : Stale(s, c) <=> Stale(t, c)
  /\ \A c \in Lanes : \A x, z : Lane(s.outbox, s.seed, c, x, z) => Lane(t.outbox, t.seed, c, x, z)

LEMMA SameFollowed ==
  ASSUME NEW s, NEW t, Same(s, t), NEW pn, NEW u, NEW cs, Followed(s, pn, u, cs)
  PROVE  Followed(t, pn, u, cs)
<1>1. ASSUME NEW c \in Pane
      PROVE  \E z \in Screens : Lane(t.outbox, t.seed, c, u[c], z) /\ Ends(t, c, pn[c], z)
  <2>1. PICK z \in Screens : Lane(s.outbox, s.seed, c, u[c], z) /\ Ends(s, c, pn[c], z)
    BY DEF Followed
  <2>2. Lane(t.outbox, t.seed, c, u[c], z)
    BY <2>1 DEF Same, Lanes
  <2>3. Ends(t, c, pn[c], z)
    BY <2>1 DEF Same, Ends
  <2> QED
    BY <2>2, <2>3
<1>2. \E z \in Screens : Lane(t.outbox, t.seed, None, Counter(cs.applied), z) /\ z.ver = cs.sent
  <2>1. PICK z \in Screens : Lane(s.outbox, s.seed, None, Counter(cs.applied), z) /\ z.ver = cs.sent
    BY DEF Followed
  <2> QED
    BY <2>1 DEF Same, Lanes
<1> QED
  BY <1>1, <1>2 DEF Followed

\* The fields of a connection and of a seed, one by one.
LEMMA ConnFields ==
  ASSUME NEW D \in SUBSET Pane, NEW s, ConnOK(s, D)
  PROVE  /\ s.outbox \in Seq(Outgoing(D)) /\ s.seed \in SeedTypes(D) /\ s.front_started \in BOOLEAN
         /\ s.resync_pending \in SUBSET D /\ s.attached \in BOOLEAN /\ SeedOK(s.seed, D) /\ Bounded(s)
         /\ (replay_barrier_up(s) => s.resync_pending = {}) /\ (s.front_started => s.outbox # <<>>)
         /\ s = [outbox |-> s.outbox, front_started |-> s.front_started, seed |-> s.seed,
                 resync_pending |-> s.resync_pending, attached |-> s.attached]
BY DEF ConnOK

LEMMA SeedFields ==
  ASSUME NEW D \in SUBSET Pane, NEW sd \in SeedTypes(D)
  PROVE  /\ sd.kind \in {"none", "Attach", "Resync"} /\ sd.pending \in Seq(D) /\ sd.replay \in Replays(D) \cup {NoReplay}
         /\ sd.manifest \in [Pane -> {"absent", "Pending", "Replaying", "CatchingUp", "Live"}]
         /\ sd.baseline_queued \in BOOLEAN /\ sd.catch_up \in Seq(Delayed(D)) /\ sd.outdated \in SUBSET D
         /\ sd = [kind |-> sd.kind, manifest |-> sd.manifest, pending |-> sd.pending,
                  replay |-> sd.replay, catch_up |-> sd.catch_up,
                  baseline_queued |-> sd.baseline_queued, outdated |-> sd.outdated]
BY DEF SeedTypes

LEMMA Completed ==
  ASSUME NEW D \in SUBSET Pane, NEW s, ConnOK(s, D), replay_barrier_up(s), NEW t, t = complete_attach_baseline(s)
  PROVE  ConnOK(t, D) /\ Same(s, t) /\ t.attached = s.attached
<1>1. CASE s.seed.pending # <<>> \/ s.seed.replay # NoReplay \/ s.seed.catch_up # <<>>
  <2>1. t = s
    BY <1>1 DEF complete_attach_baseline
  <2> QED
    BY <2>1 DEF Same
<1>2. CASE ~ (s.seed.pending # <<>> \/ s.seed.replay # NoReplay \/ s.seed.catch_up # <<>>)
  <2>1. PICK a : a = s.seed
    OBVIOUS
  <2>2. a.pending = <<>> /\ a.replay = NoReplay /\ a.catch_up = <<>>
    BY <1>2, <2>1
  <2>3. /\ s.outbox \in Seq(Outgoing(D)) /\ a \in SeedTypes(D) /\ s.front_started \in BOOLEAN
        /\ s.resync_pending = {} /\ s.attached \in BOOLEAN /\ SeedOK(a, D) /\ Bounded(s)
        /\ (s.front_started => s.outbox # <<>>)
        /\ s = [outbox |-> s.outbox, front_started |-> s.front_started, seed |-> s.seed,
                resync_pending |-> s.resync_pending, attached |-> s.attached]
    BY <2>1, ConnFields
  <2>4. PICK m : m = [p \in Pane |-> IF a.manifest[p] = "absent" THEN "absent" ELSE "Live"]
    OBVIOUS
  <2>5. PICK b : b = [a EXCEPT !.baseline_queued = TRUE, !.outdated = {}, !.manifest = m]
    OBVIOUS
  <2>6. t = [s EXCEPT !.resync_pending = s.resync_pending \cup a.outdated, !.seed = b]
    BY <1>2, <2>1, <2>4, <2>5 DEF complete_attach_baseline
  <2>7. /\ b.kind = a.kind /\ b.manifest = m /\ b.pending = <<>> /\ b.replay = NoReplay /\ b.catch_up = <<>>
        /\ b.baseline_queued = TRUE /\ b.outdated = {}
        /\ b = [kind |-> b.kind, manifest |-> b.manifest, pending |-> b.pending,
                replay |-> b.replay, catch_up |-> b.catch_up,
                baseline_queued |-> b.baseline_queued, outdated |-> b.outdated]
    BY <2>2, <2>3, <2>5 DEF SeedTypes
  <2>8. /\ t.outbox = s.outbox /\ t.front_started = s.front_started /\ t.seed = b
        /\ t.resync_pending = a.outdated /\ t.attached = s.attached
        /\ t = [outbox |-> t.outbox, front_started |-> t.front_started, seed |-> t.seed,
                resync_pending |-> t.resync_pending, attached |-> t.attached]
    BY <2>3, <2>6
  <2>9. a.kind \in {"none", "Attach", "Resync"} /\ a.outdated \in SUBSET D /\ a.kind # "none"
        /\ a.manifest \in [Pane -> {"absent", "Pending", "Replaying", "CatchingUp", "Live"}]
    BY <2>1, <2>3, SeedFields DEF replay_barrier_up
  <2>10. /\ m \in [Pane -> {"absent", "Pending", "Replaying", "CatchingUp", "Live"}]
         /\ \A p \in Pane : (m[p] = "absent" <=> a.manifest[p] = "absent") /\ m[p] # "Pending"
    BY <2>4
  <2>11. b \in SeedTypes(D)
    <3>1. b.pending \in Seq(D) /\ b.catch_up \in Seq(Delayed(D)) /\ b.outdated \in SUBSET D
      BY <2>7
    <3> QED
      BY <2>7, <2>9, <2>10, <3>1 DEF SeedTypes
  <2>12. Listed(b) /\ Orderly(b)
    <3>1. Len(<<>>) = 0 /\ 1..0 = {}
      OBVIOUS
    <3>2. Listed(b)
      BY <2>7, <2>10, <3>1 DEF Listed
    <3>3. \A p \in Pane : Idle(p, b.catch_up)
      BY <2>7, <3>1 DEF Idle
    <3> QED
      BY <2>7, <3>1, <3>2, <3>3 DEF Orderly
  <2>13. SeedOK(b, D)
    <3>1. \A p \in Pane : b.manifest[p] # "absent" => p \in D
      BY <2>3, <2>7, <2>10 DEF SeedOK
    <3> QED
      BY <2>7, <2>9, <2>11, <2>12, <3>1 DEF SeedOK
  <2>14. Bounded(t)
    BY <2>1, <2>2, <2>3, <2>7, <2>8 DEF Bounded
  <2>15. ~ replay_barrier_up(t)
    BY <2>7, <2>8 DEF replay_barrier_up
  <2>16. t \in [outbox : Seq(Outgoing(D)), front_started : BOOLEAN, seed : SeedTypes(D),
                resync_pending : SUBSET D, attached : BOOLEAN]
    <3>1. /\ t.outbox \in Seq(Outgoing(D)) /\ t.front_started \in BOOLEAN /\ t.seed \in SeedTypes(D)
          /\ t.resync_pending \in SUBSET D /\ t.attached \in BOOLEAN
      BY <2>3, <2>8, <2>9, <2>11
    <3> QED
      BY <2>8, <3>1
  <2>17. ConnOK(t, D)
    BY <2>3, <2>8, <2>13, <2>14, <2>15, <2>16 DEF ConnOK
  <2>18. \A c \in Pane : Stale(s, c) <=> Stale(t, c)
    <3>1. \A c \in Pane : a.manifest[c] # "Pending"
      BY <2>2, <2>3 DEF SeedOK, Listed
    <3> QED
      BY <2>1, <2>3, <2>7, <2>8, <2>10, <3>1 DEF Stale
  <2>19. ASSUME NEW c \in Lanes, NEW x, NEW z, Lane(s.outbox, s.seed, c, x, z)
         PROVE  Lane(t.outbox, t.seed, c, x, z)
    <3>1. PICK y \in Screens : /\ Chain(c, x, s.outbox, y) /\ Chain(c, Junction(a, c, y), <<>>, z)
                               /\ c \in Pane => OnReplay(a, c, y)
      BY <2>1, <2>2, <2>19 DEF Lane
    <3>2. Junction(b, c, y) = Junction(a, c, y)
      BY <2>2, <2>7 DEF Junction
    <3>3. c \in Pane => OnReplay(b, c, y)
      BY <2>2, <2>7, <2>10, <3>1 DEF OnReplay
    <3>4. /\ Chain(c, x, t.outbox, y) /\ Chain(c, Junction(t.seed, c, y), t.seed.catch_up, z)
          /\ c \in Pane => OnReplay(t.seed, c, y)
      BY <2>7, <2>8, <3>1, <3>2, <3>3
    <3> QED
      BY <3>4 DEF Lane
  <2> QED
    BY <2>8, <2>17, <2>18, <2>19 DEF Same
<1> QED
  BY <1>1, <1>2

\* The fields after a frame g of a replay is queued: the replay is at r then, and
\* the manifest at m.
ReplayTo(s, t, g, r, m) ==
  /\ t.outbox = Append(s.outbox, g) /\ t.front_started = s.front_started
  /\ t.resync_pending = s.resync_pending /\ t.attached = s.attached
  /\ t.seed.kind = s.seed.kind /\ t.seed.pending = s.seed.pending /\ t.seed.catch_up = s.seed.catch_up
  /\ t.seed.baseline_queued = s.seed.baseline_queued /\ t.seed.outdated = s.seed.outdated
  /\ t.seed.replay = r /\ t.seed.manifest = m
  /\ t.seed = [kind |-> t.seed.kind, manifest |-> t.seed.manifest, pending |-> t.seed.pending,
               replay |-> t.seed.replay, catch_up |-> t.seed.catch_up,
               baseline_queued |-> t.seed.baseline_queued, outdated |-> t.seed.outdated]
  /\ t = [outbox |-> t.outbox, front_started |-> t.front_started, seed |-> t.seed,
          resync_pending |-> t.resync_pending, attached |-> t.attached]

\* A manifest that waits for the same panes as the seed's, and knows the same.
Marks(a, m) ==
  /\ m \in [Pane -> {"absent", "Pending", "Replaying", "CatchingUp", "Live"}]
  /\ \A c \in Pane : /\ m[c] = "absent" <=> a.manifest[c] = "absent"
                     /\ m[c] = "Pending" <=> a.manifest[c] = "Pending"

\* Frame g takes pane p along its replay, from seed a to seed b.
Passes(a, b, p, g) ==
  \A y \in Screens : OnReplay(a, p, y) =>
    \E w \in Screens : Goes(p, y, g, w) /\ OnReplay(b, p, w) /\ Junction(b, p, w) = Junction(a, p, y)

LEMMA ReplayFrame ==
  ASSUME NEW D \in SUBSET Pane, NEW s, ConnOK(s, D), replay_barrier_up(s), s.seed.replay # NoReplay,
         Len(s.outbox) < max_backlog, NEW g \in Outgoing(D), g.pane = s.seed.replay.pane, g.class = "SeedReplay",
         g.type # "control", NEW t, NEW r \in Replays(D) \cup {NoReplay}, NEW m, ReplayTo(s, t, g, r, m),
         Marks(s.seed, m), r # NoReplay => r.pane = s.seed.replay.pane /\ m[r.pane] = "Replaying",
         Passes(s.seed, t.seed, g.pane, g)
  PROVE  ConnOK(t, D) /\ replay_barrier_up(t) /\ Same(s, t) /\ t.attached = s.attached
<1> /\ m \in [Pane -> {"absent", "Pending", "Replaying", "CatchingUp", "Live"}]
    /\ \A c \in Pane : /\ m[c] = "absent" <=> s.seed.manifest[c] = "absent"
                       /\ m[c] = "Pending" <=> s.seed.manifest[c] = "Pending"
  BY DEF Marks
<1>1. PICK a, b : a = s.seed /\ b = t.seed
  OBVIOUS
<1>2. /\ s.outbox \in Seq(Outgoing(D)) /\ a \in SeedTypes(D) /\ s.front_started \in BOOLEAN
      /\ s.resync_pending \in SUBSET D /\ s.attached \in BOOLEAN /\ SeedOK(a, D) /\ Bounded(s) /\ s.resync_pending = {}
  BY <1>1, ConnFields
<1>3. /\ t.outbox = Append(s.outbox, g) /\ t.front_started = s.front_started
      /\ t.resync_pending = s.resync_pending /\ t.attached = s.attached
      /\ b.kind = a.kind /\ b.pending = a.pending /\ b.catch_up = a.catch_up
      /\ b.baseline_queued = a.baseline_queued /\ b.outdated = a.outdated /\ b.replay = r /\ b.manifest = m
      /\ b = [kind |-> b.kind, manifest |-> b.manifest, pending |-> b.pending,
              replay |-> b.replay, catch_up |-> b.catch_up,
              baseline_queued |-> b.baseline_queued, outdated |-> b.outdated]
      /\ t = [outbox |-> t.outbox, front_started |-> t.front_started, seed |-> t.seed,
              resync_pending |-> t.resync_pending, attached |-> t.attached]
  BY <1>1 DEF ReplayTo
<1>4. a.replay \in Replays(D)
  BY <1>1, <1>2, SeedFields
<1>5. PICK p \in D : p = a.replay.pane /\ p = g.pane
  BY <1>1, <1>4 DEF Replays
<1>6. p \in Pane /\ p # None /\ a.manifest[p] = "Replaying" /\ p \in Lanes
  BY <1>1, <1>2, <1>5, PaneIsPane DEF SeedOK, Lanes
<1>7. a.kind # "none" /\ ~ a.baseline_queued
  BY <1>1 DEF replay_barrier_up
<1>8. replay_barrier_up(t)
  BY <1>1, <1>3, <1>7 DEF replay_barrier_up
<1>9. b \in SeedTypes(D)
  <2>1. /\ a.kind \in {"none", "Attach", "Resync"} /\ a.pending \in Seq(D)
        /\ a.baseline_queued \in BOOLEAN /\ a.catch_up \in Seq(Delayed(D)) /\ a.outdated \in SUBSET D
    BY <1>2, SeedFields
  <2> QED
    BY <1>3, <2>1 DEF SeedTypes
<1>10. SeedOK(b, D)
  <2>1. Listed(b)
    BY <1>1, <1>2, <1>3 DEF SeedOK, Listed
  <2>2. Orderly(b)
    <3>1. Orderly(a)
      BY <1>2 DEF SeedOK
    <3>2. \A c \in Pane : b.manifest[c] = "Pending" \/ c \in b.outdated => Idle(c, b.catch_up)
      BY <1>1, <1>3, <3>1 DEF Orderly
    <3>3. \A i \in 1..Len(b.catch_up) : b.catch_up[i].type = "control" /\ b.catch_up[i].pane # None =>
            b.manifest[b.catch_up[i].pane] = "absent"
      <4>1. \A i \in 1..Len(a.catch_up) : a.catch_up[i].pane \in Pane \cup {None}
        <5>1. a.catch_up \in Seq(Delayed(D))
          BY <1>2, SeedFields
        <5> QED
          BY <5>1 DEF Delayed, Outgoing, Frames
      <4> QED
        BY <1>1, <1>3, <3>1, <4>1 DEF Orderly
    <3> QED
      BY <3>2, <3>3 DEF Orderly
  <2>3. \A c \in Pane : b.manifest[c] # "absent" => c \in D
    BY <1>1, <1>2, <1>3 DEF SeedOK
  <2>4. \A c \in b.outdated : b.manifest[c] \notin {"absent", "Pending"}
    <3>1. a.outdated \subseteq Pane
      BY <1>2, SeedFields
    <3> QED
      BY <1>1, <1>2, <1>3, <3>1 DEF SeedOK
  <2>5. b.replay # NoReplay => b.manifest[b.replay.pane] = "Replaying"
    BY <1>3
  <2> QED
    BY <1>3, <1>7, <1>9, <2>1, <2>2, <2>3, <2>4, <2>5 DEF SeedOK
<1>11. t.outbox \in Seq(Outgoing(D)) /\ t.outbox # <<>>
  BY <1>2, <1>3
<1>12. Bounded(t)
  <2>1. PICK n \in Nat : n = Len(s.outbox)
    BY <1>2
  <2>2. Len(t.outbox) = n + 1
    BY <1>2, <1>3, <2>1
  <2>3. max_backlog \in Nat
    BY SizesAssumption
  <2>4. Len(t.outbox) <= max_backlog
    BY <2>1, <2>2, <2>3
  <2>5. Count(t.outbox) = Count(s.outbox)
    BY <1>2, <1>3, CountAppend
  <2> QED
    BY <1>1, <1>2, <1>3, <2>4, <2>5 DEF Bounded
<1>13. t \in [outbox : Seq(Outgoing(D)), front_started : BOOLEAN, seed : SeedTypes(D),
              resync_pending : SUBSET D, attached : BOOLEAN]
  BY <1>1, <1>2, <1>3, <1>9, <1>11
<1>14. ConnOK(t, D)
  BY <1>1, <1>2, <1>3, <1>10, <1>11, <1>12, <1>13 DEF ConnOK
<1>15. \A c \in Pane : Stale(s, c) <=> Stale(t, c)
  BY <1>1, <1>3 DEF Stale
<1>16. ASSUME NEW c \in Lanes, NEW x, NEW z, Lane(s.outbox, a, c, x, z)
       PROVE  Lane(t.outbox, b, c, x, z)
  <2>0. s.outbox \in Seq(Frames(Pane))
    BY <1>2, FramesWiden
  <2>1. PICK y \in Screens : /\ Chain(c, x, s.outbox, y) /\ Chain(c, Junction(a, c, y), a.catch_up, z)
                             /\ c \in Pane => OnReplay(a, c, y)
    BY <1>16 DEF Lane
  <2>2. CASE c = p
    <3>1. PICK w \in Screens : Goes(p, y, g, w) /\ OnReplay(b, p, w) /\ Junction(b, p, w) = Junction(a, p, y)
      BY <1>1, <1>5, <1>6, <2>1, <2>2 DEF Passes
    <3>2. Chain(p, x, t.outbox, w)
      BY <1>3, <2>0, <2>1, <2>2, <3>1, ChainAppend
    <3>3. Chain(p, Junction(b, p, w), b.catch_up, z)
      BY <1>3, <2>1, <2>2, <3>1
    <3> QED
      BY <2>2, <3>1, <3>2, <3>3 DEF Lane
  <2>3. CASE c # p
    <3>1. Goes(c, y, g, y)
      BY <1>5, <2>3 DEF Goes, InLane
    <3>2. Chain(c, x, t.outbox, y)
      BY <1>3, <2>0, <2>1, <3>1, ChainAppend
    <3>3. a.replay.pane # c /\ (c = None \/ b.replay.pane # c)
      BY <1>1, <1>3, <1>5, <2>3 DEF NoReplay
    <3>4. Junction(b, c, y) = Junction(a, c, y)
      BY <3>3 DEF Junction
    <3>5. c \in Pane => OnReplay(b, c, y)
      BY <1>1, <1>3, <2>1, <3>3, PaneIsPane DEF OnReplay
    <3> QED
      BY <1>3, <2>1, <3>2, <3>4, <3>5 DEF Lane
  <2> QED
    BY <2>2, <2>3
<1> QED
  BY <1>1, <1>3, <1>8, <1>14, <1>15, <1>16 DEF Same

LEMMA SameTrans ==
  ASSUME NEW s, NEW t, NEW u, Same(s, t), Same(t, u)
  PROVE  Same(s, u)
BY DEF Same

\* A frame g of the replay is queued, the replay is at r, and is finished if that
\* was its last.
LEMMA PumpFields ==
  ASSUME NEW D \in SUBSET Pane, NEW s, ConnOK(s, D), NEW g, NEW r, r # NoReplay,
         NEW v, v = [[s EXCEPT !.outbox = Append(s.outbox, g)] EXCEPT !.seed = [s.seed EXCEPT !.replay = r]],
         NEW t, t = [v EXCEPT !.seed = finish_pane_replay(v.seed)]
  PROVE  /\ ReplayDone(r) => ReplayTo(s, t, g, NoReplay, [s.seed.manifest EXCEPT ![r.pane] = "CatchingUp"])
         /\ ~ ReplayDone(r) => ReplayTo(s, t, g, r, s.seed.manifest)
<1>1. PICK a, q : a = s.seed /\ q = Append(s.outbox, g)
  OBVIOUS
<1>2. a \in SeedTypes(D) /\ s = [outbox |-> s.outbox, front_started |-> s.front_started, seed |-> a,
                                 resync_pending |-> s.resync_pending, attached |-> s.attached]
  BY <1>1, ConnFields
<1>3. a = [kind |-> a.kind, manifest |-> a.manifest, pending |-> a.pending,
           replay |-> a.replay, catch_up |-> a.catch_up,
           baseline_queued |-> a.baseline_queued, outdated |-> a.outdated]
  BY <1>2, SeedFields
<1>4. PICK b : b = [a EXCEPT !.replay = r]
  OBVIOUS
<1>5. /\ b.kind = a.kind /\ b.manifest = a.manifest /\ b.pending = a.pending /\ b.replay = r
      /\ b.catch_up = a.catch_up /\ b.baseline_queued = a.baseline_queued /\ b.outdated = a.outdated
      /\ b = [kind |-> b.kind, manifest |-> b.manifest, pending |-> b.pending,
              replay |-> b.replay, catch_up |-> b.catch_up,
              baseline_queued |-> b.baseline_queued, outdated |-> b.outdated]
  BY <1>3, <1>4
<1>6. PICK h : h = [s EXCEPT !.outbox = q]
  OBVIOUS
<1>7. v = [h EXCEPT !.seed = b]
  BY <1>1, <1>4, <1>6
<1>8. /\ h.outbox = q /\ h.front_started = s.front_started /\ h.resync_pending = s.resync_pending
      /\ h.attached = s.attached
      /\ h = [outbox |-> h.outbox, front_started |-> h.front_started, seed |-> h.seed,
              resync_pending |-> h.resync_pending, attached |-> h.attached]
  BY <1>2, <1>6
<1>9. /\ v.outbox = q /\ v.front_started = s.front_started /\ v.resync_pending = s.resync_pending
      /\ v.attached = s.attached /\ v.seed = b
      /\ v = [outbox |-> v.outbox, front_started |-> v.front_started, seed |-> v.seed,
              resync_pending |-> v.resync_pending, attached |-> v.attached]
  BY <1>7, <1>8
<1>10. PICK e : e = finish_pane_replay(b)
  OBVIOUS
<1>11. t = [v EXCEPT !.seed = e]
  BY <1>9, <1>10
<1>12. /\ t.outbox = q /\ t.front_started = s.front_started /\ t.resync_pending = s.resync_pending
       /\ t.attached = s.attached /\ t.seed = e
       /\ t = [outbox |-> t.outbox, front_started |-> t.front_started, seed |-> t.seed,
               resync_pending |-> t.resync_pending, attached |-> t.attached]
  BY <1>9, <1>11
<1>13. CASE ~ ReplayDone(r)
  <2>1. e = b
    BY <1>5, <1>10, <1>13 DEF finish_pane_replay
  <2>2. ReplayTo(s, t, g, r, a.manifest)
    BY <1>1, <1>5, <1>12, <2>1 DEF ReplayTo
  <2> QED
    BY <1>1, <1>13, <2>2
<1>14. CASE ReplayDone(r)
  <2>1. PICK m : m = [a.manifest EXCEPT ![r.pane] = "CatchingUp"]
    OBVIOUS
  <2>2. e = [b EXCEPT !.manifest = m, !.replay = NoReplay]
    BY <1>5, <1>10, <1>14, <2>1 DEF finish_pane_replay
  <2>3. /\ e.kind = a.kind /\ e.manifest = m /\ e.pending = a.pending /\ e.replay = NoReplay
        /\ e.catch_up = a.catch_up /\ e.baseline_queued = a.baseline_queued /\ e.outdated = a.outdated
        /\ e = [kind |-> e.kind, manifest |-> e.manifest, pending |-> e.pending,
                replay |-> e.replay, catch_up |-> e.catch_up,
                baseline_queued |-> e.baseline_queued, outdated |-> e.outdated]
    BY <1>5, <2>2
  <2>4. ReplayTo(s, t, g, NoReplay, m)
    BY <1>1, <1>12, <2>3 DEF ReplayTo
  <2> QED
    BY <1>1, <1>14, <2>1, <2>4
<1> QED
  BY <1>13, <1>14

\* Where a frame g that brings a replay to r takes its pane.
Moves(y, g, r, w) ==
  /\ Goes(r.pane, y, g, w) /\ w.known /\ y.known /\ w.geom = r.geom
  /\ r.sent = 0 => w.ver = 0
  /\ r.sent # 0 => w.ver = r.ver
  /\ r.sent = Chunks => w.part = 0
  /\ r.sent # Chunks => w.part = r.sent

Advances(a, g, r) ==
  \A y \in Screens : OnReplay(a, r.pane, y) => \E w \in Screens : Moves(y, g, r, w)

\* The replay goes on, or ends.
LEMMA PassesOn ==
  ASSUME NEW D \in SUBSET Pane, NEW a \in SeedTypes(D), NEW b \in SeedTypes(D), NEW g, NEW r, Advances(a, g, r),
         r.pane \in Pane, r.ver \in 0..Versions, r.geom \in 1..2, r.sent \in 0..Chunks, ~ r.reset, ~ ReplayDone(r),
         r.ver = 0 => r.sent = 0, a.replay.pane = r.pane, a.replay.ver = r.ver, a.replay.geom = r.geom, b.replay = r
  PROVE  Passes(a, b, r.pane, g)
<1>1. SUFFICES ASSUME NEW y \in Screens, OnReplay(a, r.pane, y)
               PROVE  \E w \in Screens : /\ Goes(r.pane, y, g, w) /\ OnReplay(b, r.pane, w)
                                         /\ Junction(b, r.pane, w) = Junction(a, r.pane, y)
  BY DEF Passes
<1>2. PICK w \in Screens : Moves(y, g, r, w)
  BY <1>1 DEF Advances
<1>3. PICK p \in Pane : p = r.pane
  OBVIOUS
<1>4. p # None /\ Chunks \in Nat /\ Chunks # 0
  BY PaneIsPane, SizesAssumption
<1>5. r.sent # Chunks
  <2>1. r.ver = 0 => r.sent # 0
    BY DEF ReplayDone
  <2>2. r.ver # 0 => r.sent # Chunks
    BY DEF ReplayDone
  <2> QED
    BY <2>1, <2>2
<1>6. /\ Goes(p, y, g, w) /\ w.known /\ y.known /\ w.geom = r.geom
      /\ r.sent = 0 => w.ver = 0
      /\ r.sent # 0 => w.ver = r.ver
      /\ w.part = r.sent
  BY <1>2, <1>3, <1>5 DEF Moves
<1>7. OnReplay(b, p, w)
  BY <1>3, <1>6 DEF OnReplay
<1>8. PICK j, k : j = Junction(b, p, w) /\ k = Junction(a, p, y)
  OBVIOUS
<1>9. k \in Screens /\ k.known = y.known /\ k.ver = r.ver /\ k.part = 0 /\ k.geom = r.geom
  BY <1>3, <1>4, <1>8, JunctionType
<1>10. j \in Screens /\ j.known = w.known /\ j.ver = r.ver /\ j.part = 0 /\ j.geom = r.geom
  BY <1>3, <1>4, <1>8, JunctionType
<1>11. w.known = y.known
  BY <1>6 DEF Screens
<1>12. j = k
  BY <1>9, <1>10, <1>11, ScreenEq
<1> QED
  BY <1>3, <1>6, <1>7, <1>8, <1>12

LEMMA PassesEnd ==
  ASSUME NEW D \in SUBSET Pane, NEW a \in SeedTypes(D), NEW b, NEW g, NEW r, Advances(a, g, r),
         r.pane \in Pane, ReplayDone(r), a.replay.pane = r.pane, a.replay.ver = r.ver, a.replay.geom = r.geom,
         b.replay = NoReplay
  PROVE  Passes(a, b, r.pane, g)
<1>1. SUFFICES ASSUME NEW y \in Screens, OnReplay(a, r.pane, y)
               PROVE  \E w \in Screens : /\ Goes(r.pane, y, g, w) /\ OnReplay(b, r.pane, w)
                                         /\ Junction(b, r.pane, w) = Junction(a, r.pane, y)
  BY DEF Passes
<1>2. PICK w \in Screens : Moves(y, g, r, w)
  BY <1>1 DEF Advances
<1>3. PICK p \in Pane : p = r.pane
  OBVIOUS
<1>4. p # None /\ Chunks \in Nat /\ Chunks # 0
  BY PaneIsPane, SizesAssumption
<1>5. (r.ver = 0 => r.sent = 0) /\ (r.ver # 0 => r.sent = Chunks /\ r.sent # 0)
  BY <1>4 DEF ReplayDone
<1>6. /\ Goes(p, y, g, w) /\ w.known /\ y.known /\ w.geom = r.geom /\ w.ver = r.ver /\ w.part = 0
  BY <1>2, <1>3, <1>4, <1>5 DEF Moves
<1>7. OnReplay(b, p, w)
  BY <1>4, <1>6 DEF OnReplay, NoReplay
<1>8. Junction(b, p, w) = w
  BY <1>4 DEF Junction, NoReplay
<1>9. PICK k : k = Junction(a, p, y)
  OBVIOUS
<1>10. k \in Screens /\ k.known = y.known /\ k.ver = r.ver /\ k.part = 0 /\ k.geom = r.geom
  BY <1>3, <1>4, <1>9, JunctionType
<1>11. w.known = y.known
  BY <1>6 DEF Screens
<1>12. w = k
  BY <1>6, <1>10, <1>11, ScreenEq
<1> QED
  BY <1>3, <1>6, <1>7, <1>8, <1>9, <1>12

\* Frame g is the next of the replay, which is at r after it.
Continues(s, g, r, D) ==
  /\ g \in Outgoing(D) /\ g.class = "SeedReplay" /\ g.type # "control" /\ g.pane = r.pane
  /\ r.reset = FALSE /\ r.sent \in 0..Chunks /\ (r.ver = 0 => r.sent = 0)
  /\ r.pane = s.seed.replay.pane /\ r.ver = s.seed.replay.ver /\ r.geom = s.seed.replay.geom
  /\ r = [pane |-> r.pane, ver |-> r.ver, geom |-> r.geom, reset |-> r.reset, sent |-> r.sent]

Sending(s, g, r) == [[s EXCEPT !.outbox = Append(s.outbox, g)] EXCEPT !.seed = [s.seed EXCEPT !.replay = r]]

\* A frame of the replay is queued, and what the round does after it.
LEMMA ReplayMoves ==
  ASSUME NEW D \in SUBSET Pane, NEW s, ConnOK(s, D), replay_barrier_up(s), s.seed.replay # NoReplay,
         Len(s.outbox) < max_backlog, NEW g, NEW r, Continues(s, g, r, D), Advances(s.seed, g, r),
         NEW t, t = Settled(Sending(s, g, r))
  PROVE  ConnOK(t, D) /\ Same(s, t) /\ t.attached = s.attached
<1> /\ g \in Outgoing(D) /\ g.class = "SeedReplay" /\ g.type # "control" /\ g.pane = r.pane
    /\ ~ r.reset /\ r.reset \in BOOLEAN /\ r.sent \in 0..Chunks /\ (r.ver = 0 => r.sent = 0)
    /\ r.pane = s.seed.replay.pane /\ r.ver = s.seed.replay.ver /\ r.geom = s.seed.replay.geom
    /\ r = [pane |-> r.pane, ver |-> r.ver, geom |-> r.geom, reset |-> r.reset, sent |-> r.sent]
  BY DEF Continues
<1>0. PICK v : v = [[s EXCEPT !.outbox = Append(s.outbox, g)] EXCEPT !.seed = [s.seed EXCEPT !.replay = r]]
  OBVIOUS
<1>1. PICK a, p : a = s.seed /\ p = a.replay.pane
  OBVIOUS
<1>2. a \in SeedTypes(D) /\ SeedOK(a, D)
  BY <1>1, ConnFields
<1>3. a.replay \in Replays(D) /\ a.manifest \in [Pane -> {"absent", "Pending", "Replaying", "CatchingUp", "Live"}]
  BY <1>1, <1>2, SeedFields
<1>4. p \in D /\ p \in Pane /\ p # None /\ a.manifest[p] = "Replaying" /\ p = r.pane /\ p = g.pane
  BY <1>1, <1>2, <1>3, PaneIsPane DEF Replays, SeedOK
<1>5. r.ver \in 0..Versions /\ r.geom \in 1..2
  BY <1>1, <1>3 DEF Replays
<1>6. r # NoReplay
  BY <1>4 DEF NoReplay
<1>7. PICK u : u = [v EXCEPT !.seed = finish_pane_replay(v.seed)]
  OBVIOUS
<1>8. /\ ReplayDone(r) => ReplayTo(s, u, g, NoReplay, [s.seed.manifest EXCEPT ![r.pane] = "CatchingUp"])
      /\ ~ ReplayDone(r) => ReplayTo(s, u, g, r, s.seed.manifest)
  BY <1>0, <1>6, <1>7, PumpFields
<1>9. ConnOK(u, D) /\ replay_barrier_up(u) /\ Same(s, u) /\ u.attached = s.attached
  <2>1. CASE ~ ReplayDone(r)
    <3>1. r \in Replays(D)
      <4>1. r \in [pane : D, ver : 0..Versions, geom : 1..2, reset : BOOLEAN, sent : 0..Chunks]
        BY <1>4, <1>5
      <4> QED
        BY <4>1, <2>1 DEF Replays
    <3>2. ReplayTo(s, u, g, r, a.manifest)
      BY <1>1, <1>8, <2>1
    <3>3. u.seed.replay = r /\ u.seed.manifest = a.manifest
      BY <3>2 DEF ReplayTo
    <3>4. Marks(a, a.manifest)
      BY <1>3 DEF Marks
    <3>5. u.seed \in SeedTypes(D)
      <4>1. PICK b : b = u.seed
        OBVIOUS
      <4>2. /\ a.kind \in {"none", "Attach", "Resync"} /\ a.pending \in Seq(D)
            /\ a.baseline_queued \in BOOLEAN /\ a.catch_up \in Seq(Delayed(D)) /\ a.outdated \in SUBSET D
        BY <1>2, SeedFields
      <4>3. /\ b.kind = a.kind /\ b.pending = a.pending /\ b.catch_up = a.catch_up /\ b.replay = r
            /\ b.baseline_queued = a.baseline_queued /\ b.outdated = a.outdated /\ b.manifest = a.manifest
            /\ b = [kind |-> b.kind, manifest |-> b.manifest, pending |-> b.pending,
                    replay |-> b.replay, catch_up |-> b.catch_up,
                    baseline_queued |-> b.baseline_queued, outdated |-> b.outdated]
        BY <1>1, <3>2, <4>1 DEF ReplayTo
      <4>4. b \in SeedTypes(D)
        BY <1>3, <3>1, <4>2, <4>3 DEF SeedTypes
      <4> QED
        BY <4>1, <4>4
    <3>6. Passes(a, u.seed, r.pane, g)
      BY <1>1, <1>2, <1>4, <1>5, <2>1, <3>3, <3>5, PassesOn
    <3>7. r.pane = s.seed.replay.pane /\ a.manifest[r.pane] = "Replaying" /\ Marks(s.seed, a.manifest)
      BY <1>1, <1>4, <3>4
    <3>8. Passes(s.seed, u.seed, g.pane, g) /\ g.pane = s.seed.replay.pane
      BY <1>1, <1>4, <3>6
    <3> QED
      BY <3>1, <3>2, <3>7, <3>8, ReplayFrame
  <2>2. CASE ReplayDone(r)
    <3>1. PICK m : m = [a.manifest EXCEPT ![p] = "CatchingUp"]
      OBVIOUS
    <3>2. ReplayTo(s, u, g, NoReplay, m)
      BY <1>1, <1>4, <1>8, <2>2, <3>1
    <3>3. u.seed.replay = NoReplay /\ u.seed.manifest = m
      BY <3>2 DEF ReplayTo
    <3>4. Marks(s.seed, m)
      BY <1>1, <1>3, <1>4, <3>1 DEF Marks
    <3>5. Passes(a, u.seed, r.pane, g)
      BY <1>1, <1>2, <1>4, <2>2, <3>3, PassesEnd
    <3>6. Passes(s.seed, u.seed, g.pane, g) /\ g.pane = s.seed.replay.pane
      BY <1>1, <1>4, <3>5
    <3> QED
      BY <3>2, <3>4, <3>6, ReplayFrame
  <2> QED
    BY <2>1, <2>2
<1>10. t = complete_attach_baseline(u)
  BY <1>0, <1>7 DEF Settled, Sending
<1>11. ConnOK(t, D) /\ Same(u, t) /\ t.attached = u.attached
  BY <1>9, <1>10, Completed
<1> QED
  BY <1>9, <1>11, SameTrans

LEMMA ReplayRecord ==
  ASSUME NEW D \in SUBSET Pane, NEW s, ConnOK(s, D), s.seed.replay # NoReplay, NEW r, r = s.seed.replay
  PROVE  /\ r \in Replays(D) /\ r.pane \in D /\ r.pane \in Pane /\ r.pane # None /\ s.seed.manifest[r.pane] = "Replaying"
         /\ r.ver \in 0..Versions /\ r.geom \in 1..2 /\ r.reset \in BOOLEAN /\ r.sent \in 0..Chunks
         /\ r = [pane |-> r.pane, ver |-> r.ver, geom |-> r.geom, reset |-> r.reset, sent |-> r.sent]
         /\ (r.ver = 0 \/ r.reset => r.sent = 0) /\ (~ r.reset => r.ver # 0 /\ r.sent # Chunks)
<1>1. s.seed \in SeedTypes(D) /\ SeedOK(s.seed, D)
  BY ConnFields
<1>2. r \in Replays(D)
  BY <1>1, SeedFields
<1>3. /\ r.pane \in D /\ r.ver \in 0..Versions /\ r.geom \in 1..2 /\ r.reset \in BOOLEAN /\ r.sent \in 0..Chunks
      /\ r = [pane |-> r.pane, ver |-> r.ver, geom |-> r.geom, reset |-> r.reset, sent |-> r.sent]
  BY <1>2 DEF Replays
<1>4. ~ ReplayDone(r) /\ (r.ver = 0 \/ r.reset => r.sent = 0)
  BY <1>2 DEF Replays
<1>5. ~ r.reset => r.ver # 0 /\ r.sent # Chunks
  BY <1>4 DEF ReplayDone
<1>6. r.pane \in Pane /\ r.pane # None /\ s.seed.manifest[r.pane] = "Replaying"
  BY <1>1, <1>3, PaneIsPane DEF SeedOK
<1> QED
  BY <1>2, <1>3, <1>4, <1>5, <1>6

\* The frames of a replay as they are queued.
LEMMA ReplayFrameType ==
  ASSUME NEW D \in SUBSET Pane, NEW type \in {"reset", "replay"}, NEW pane \in D, NEW ver \in 0..Versions,
         NEW geom \in 1..2, NEW part \in 0..Chunks, type = "replay" => ver # 0,
         NEW g, g = Frame(type, pane, ver, geom, part, "SeedReplay")
  PROVE  /\ g \in Outgoing(D) /\ g \in Frames(Pane) /\ g.class = "SeedReplay" /\ g.type = type /\ g.pane = pane
         /\ g.ver = ver /\ g.geom = geom /\ g.part = part
<1>1. g = [type |-> type, pane |-> pane, ver |-> ver, geom |-> geom, part |-> part, class |-> "SeedReplay"]
  BY DEF Frame
<1>2. /\ g.class = "SeedReplay" /\ g.type = type /\ g.pane = pane
      /\ g.ver = ver /\ g.geom = geom /\ g.part = part
  BY FrameFields
<1>3. pane \in Pane /\ pane # None
  BY PaneIsPane
<1>4. g \in Frames(D) /\ g \in Frames(Pane)
  BY <1>1, <1>3 DEF Frames, Kinds
<1>5. Proper(g)
  BY <1>2, <1>3 DEF Proper
<1> QED
  BY <1>2, <1>4, <1>5 DEF Outgoing

LEMMA ResetFrameType ==
  ASSUME NEW D \in SUBSET Pane, NEW pane \in D, NEW ver \in 0..Versions, NEW geom \in 1..2, NEW part \in 0..Chunks,
         NEW g, g = Frame("reset", pane, ver, geom, part, "SeedReplay")
  PROVE  /\ g \in Outgoing(D) /\ g \in Frames(Pane) /\ g.class = "SeedReplay" /\ g.type = "reset" /\ g.pane = pane
         /\ g.ver = ver /\ g.geom = geom /\ g.part = part
<1>1. PICK type \in {"reset", "replay"} : type = "reset"
  OBVIOUS
<1>2. (type = "replay" => ver # 0) /\ g = Frame(type, pane, ver, geom, part, "SeedReplay")
  BY <1>1
<1>3. /\ g \in Outgoing(D) /\ g \in Frames(Pane) /\ g.class = "SeedReplay" /\ g.type = type /\ g.pane = pane
      /\ g.ver = ver /\ g.geom = geom /\ g.part = part
  BY <1>2, ReplayFrameType
<1> QED
  BY <1>1, <1>3

LEMMA FrameClass ==
  ASSUME NEW type, NEW pane, NEW ver, NEW geom, NEW part
  PROVE  Frame(type, pane, ver, geom, part, "SeedReplay")
           = [Frame(type, pane, ver, geom, part, "") EXCEPT !.class = "SeedReplay"]
<1>1. PICK g : g = [Frame(type, pane, ver, geom, part, "") EXCEPT !.class = "SeedReplay"]
  OBVIOUS
<1>2. g = [type |-> type, pane |-> pane, ver |-> ver, geom |-> geom, part |-> part, class |-> "SeedReplay"]
  BY <1>1 DEF Frame
<1>3. g = Frame(type, pane, ver, geom, part, "SeedReplay")
  BY <1>2 DEF Frame
<1> QED
  BY <1>1, <1>3

LEMMA ResetPumped ==
  ASSUME NEW D \in SUBSET Pane, NEW s, ConnOK(s, D), replay_barrier_up(s), s.seed.replay # NoReplay,
         s.seed.replay.reset, Len(s.outbox) < max_backlog, NEW t, t = Settled(pump_replay_reset(s))
  PROVE  ConnOK(t, D) /\ Same(s, t) /\ t.attached = s.attached
<1>1. PICK r : r = s.seed.replay
  OBVIOUS
<1>2. /\ r.pane \in D /\ r.pane \in Pane /\ r.pane # None /\ s.seed.manifest[r.pane] = "Replaying"
      /\ r.ver \in 0..Versions /\ r.geom \in 1..2 /\ r.sent = 0 /\ r.reset \in BOOLEAN
      /\ r = [pane |-> r.pane, ver |-> r.ver, geom |-> r.geom, reset |-> r.reset, sent |-> r.sent]
  BY <1>1, ReplayRecord
<1>3. PICK e : e = [r EXCEPT !.reset = FALSE]
  OBVIOUS
<1>4. /\ e.pane = r.pane /\ e.ver = r.ver /\ e.geom = r.geom /\ e.reset = FALSE /\ e.sent = 0
      /\ e = [pane |-> e.pane, ver |-> e.ver, geom |-> e.geom, reset |-> e.reset, sent |-> e.sent]
  BY <1>2, <1>3
<1>5. PICK g, n : g = Frame("reset", r.pane, n, r.geom, n, "SeedReplay") /\ n = 0
  OBVIOUS
<1>6. n \in 0..Versions /\ n \in 0..Chunks /\ Chunks # 0 /\ 0 \in 0..Chunks
  BY <1>5, SizesAssumption
<1>7. /\ g \in Outgoing(D) /\ g \in Frames(Pane) /\ g.class = "SeedReplay" /\ g.type = "reset" /\ g.pane = r.pane
      /\ g.ver = 0 /\ g.geom = r.geom /\ g.part = 0
  <2>1. /\ g \in Outgoing(D) /\ g \in Frames(Pane) /\ g.class = "SeedReplay" /\ g.type = "reset" /\ g.pane = r.pane
        /\ g.ver = n /\ g.geom = r.geom /\ g.part = n
    <3>1. D \in SUBSET Pane /\ r.pane \in D /\ r.geom \in 1..2
      BY <1>2
    <3> QED
      BY ONLY <1>5, <1>6, <3>1, ResetFrameType
  <2> QED
    BY <1>5, <2>1
<1>9. Sending(s, g, e) = pump_replay_reset(s)
  <2>1. g = [Frame("reset", r.pane, 0, r.geom, 0, "") EXCEPT !.class = "SeedReplay"]
    BY <1>5, FrameClass
  <2> QED
    BY <1>1, <1>3, <2>1 DEF pump_replay_reset, try_push_class, Sending
<1>10. Advances(s.seed, g, e)
  <2>1. SUFFICES ASSUME NEW y \in Screens, OnReplay(s.seed, e.pane, y)
                 PROVE  \E w \in Screens : Moves(y, g, e, w)
    BY DEF Advances
  <2>2. y.known
    BY <1>2, <1>4, <2>1 DEF OnReplay
  <2>3. Fits(y, g)
    BY <1>7, <2>2 DEF Fits
  <2>4. PICK w : w = Drawn(y, g)
    OBVIOUS
  <2>5. w \in Screens /\ w.known = (y.known \/ g.type = "control") /\ w.ver = 0 /\ w.part = 0 /\ w.geom = g.geom
    BY <1>7, <2>3, <2>4, DrawnFields
  <2>6. Goes(e.pane, y, g, w)
    BY <1>2, <1>4, <1>7, <2>3, <2>4 DEF Goes, InLane, Meets, Effect
  <2>7. Moves(y, g, e, w)
    BY <1>4, <1>6, <1>7, <2>2, <2>5, <2>6 DEF Moves
  <2> QED
    BY <2>5, <2>7
<1>11. Continues(s, g, e, D)
  <2>1. e.sent \in 0..Chunks
    BY <1>4, <1>6
  <2> QED
    BY <1>1, <1>4, <1>7, <2>1 DEF Continues
<1>12. t = Settled(Sending(s, g, e))
  BY <1>9
<1> QED
  BY <1>10, <1>11, <1>12, ReplayMoves

LEMMA ChunkPumped ==
  ASSUME NEW D \in SUBSET Pane, NEW s, ConnOK(s, D), replay_barrier_up(s), s.seed.replay # NoReplay,
         ~ s.seed.replay.reset, Len(s.outbox) < max_backlog, NEW t, t = Settled(pump_replay_chunk(s))
  PROVE  ConnOK(t, D) /\ Same(s, t) /\ t.attached = s.attached
<1>1. PICK r : r = s.seed.replay
  OBVIOUS
<1>2. /\ r.pane \in D /\ r.pane \in Pane /\ r.pane # None /\ s.seed.manifest[r.pane] = "Replaying"
      /\ r.ver \in 0..Versions /\ r.geom \in 1..2 /\ r.sent \in 0..Chunks /\ r.reset \in BOOLEAN
      /\ r = [pane |-> r.pane, ver |-> r.ver, geom |-> r.geom, reset |-> r.reset, sent |-> r.sent]
      /\ r.ver # 0 /\ r.sent # Chunks /\ ~ r.reset
  <2>1. ~ r.reset
    BY <1>1
  <2>2. /\ r.pane \in D /\ r.pane \in Pane /\ r.pane # None /\ s.seed.manifest[r.pane] = "Replaying"
        /\ r.ver \in 0..Versions /\ r.geom \in 1..2 /\ r.sent \in 0..Chunks /\ r.reset \in BOOLEAN
        /\ r = [pane |-> r.pane, ver |-> r.ver, geom |-> r.geom, reset |-> r.reset, sent |-> r.sent]
    BY <1>1, ReplayRecord
  <2>3. ~ r.reset => r.ver # 0 /\ r.sent # Chunks
    BY <1>1, ReplayRecord
  <2> QED
    BY <2>1, <2>2, <2>3
<1>3. PICK e, k : e = [r EXCEPT !.sent = k] /\ k = r.sent + 1
  OBVIOUS
<1>4. /\ e.pane = r.pane /\ e.ver = r.ver /\ e.geom = r.geom /\ e.reset = r.reset /\ e.sent = k
      /\ e = [pane |-> e.pane, ver |-> e.ver, geom |-> e.geom, reset |-> e.reset, sent |-> e.sent]
  BY <1>2, <1>3
<1>5. PICK g : g = Frame("replay", r.pane, r.ver, r.geom, k, "SeedReplay")
  OBVIOUS
<1>6. k \in 0..Chunks /\ k # 0 /\ k - 1 = r.sent /\ (k = 1 <=> r.sent = 0)
  BY <1>2, <1>3, SizesAssumption
<1>7. /\ g \in Outgoing(D) /\ g \in Frames(Pane) /\ g.class = "SeedReplay" /\ g.type = "replay" /\ g.pane = r.pane
      /\ g.ver = r.ver /\ g.geom = r.geom /\ g.part = k
  BY <1>2, <1>5, <1>6, ReplayFrameType
<1>9. Sending(s, g, e) = pump_replay_chunk(s)
  <2>1. g = [Frame("replay", r.pane, r.ver, r.geom, k, "") EXCEPT !.class = "SeedReplay"]
    BY <1>5, FrameClass
  <2> QED
    BY <1>1, <1>3, <2>1 DEF pump_replay_chunk, try_push_class, Sending
<1>10. Advances(s.seed, g, e)
  <2>1. SUFFICES ASSUME NEW y \in Screens, OnReplay(s.seed, e.pane, y)
                 PROVE  \E w \in Screens : Moves(y, g, e, w)
    BY DEF Advances
  <2>2. /\ y.known /\ y.geom = r.geom
        /\ r.sent = 0 => y.ver = 0 /\ y.part = 0
        /\ r.sent # 0 => y.ver = r.ver /\ y.part = r.sent
    BY <1>1, <1>2, <1>4, <2>1 DEF OnReplay
  <2>3. y.part = g.part - 1 /\ y.ver = (IF g.part = 1 THEN 0 ELSE g.ver)
    BY <1>6, <1>7, <2>2
  <2>4. Fits(y, g)
    BY <1>7, <2>3 DEF Fits
  <2>5. PICK w : w = Drawn(y, g)
    OBVIOUS
  <2>6. w \in Screens /\ w.known = (y.known \/ g.type = "control") /\ w.ver = g.ver /\ w.geom = y.geom
        /\ w.part = IF g.part = Chunks THEN 0 ELSE g.part
    BY <1>7, <2>4, <2>5, DrawnFields
  <2>7. Goes(e.pane, y, g, w)
    BY <1>2, <1>4, <1>7, <2>4, <2>5 DEF Goes, InLane, Meets, Effect
  <2>8. Moves(y, g, e, w)
    BY <1>4, <1>6, <1>7, <2>2, <2>6, <2>7 DEF Moves
  <2> QED
    BY <2>6, <2>8
<1>11. Continues(s, g, e, D)
  BY <1>1, <1>2, <1>4, <1>6, <1>7 DEF Continues
<1>12. t = Settled(Sending(s, g, e))
  BY <1>9
<1> QED
  BY <1>10, <1>11, <1>12, ReplayMoves

\* The fields after pane p is taken from the list: its replay is r.
BeginTo(s, t, p, m, r) ==
  /\ t.outbox = s.outbox /\ t.front_started = s.front_started
  /\ t.resync_pending = s.resync_pending /\ t.attached = s.attached
  /\ t.seed.kind = s.seed.kind /\ t.seed.pending = Tail(s.seed.pending) /\ t.seed.catch_up = s.seed.catch_up
  /\ t.seed.baseline_queued = s.seed.baseline_queued /\ t.seed.outdated = s.seed.outdated
  /\ t.seed.replay = r /\ t.seed.manifest = [s.seed.manifest EXCEPT ![p] = m]
  /\ t.seed = [kind |-> t.seed.kind, manifest |-> t.seed.manifest, pending |-> t.seed.pending,
               replay |-> t.seed.replay, catch_up |-> t.seed.catch_up,
               baseline_queued |-> t.seed.baseline_queued, outdated |-> t.seed.outdated]
  /\ t = [outbox |-> t.outbox, front_started |-> t.front_started, seed |-> t.seed,
          resync_pending |-> t.resync_pending, attached |-> t.attached]

\* There is none for a pane that has gone; a live one is exported as it is.
Exports(p, pane, m, r, D) ==
  /\ r \in Replays(D) \cup {NoReplay} /\ m \in {"Replaying", "CatchingUp"}
  /\ r = NoReplay => pane.state = "exited"
  /\ r # NoReplay => r.pane = p /\ r.reset /\ m = "Replaying" /\ r.ver = pane.ver /\ r.geom = pane.geom

Distinct(q) == \A i, j \in 1..Len(q) : q[i] = q[j] => i = j
Has(q, c) == \E i \in 1..Len(q) : q[i] = c

LEMMA ListTail ==
  ASSUME NEW X, NEW q \in Seq(X), q # <<>>, Distinct(q)
  PROVE  /\ Tail(q) \in Seq(X) /\ Head(q) \in X /\ Distinct(Tail(q)) /\ Has(q, Head(q)) /\ ~ Has(Tail(q), Head(q))
         /\ \A c : c # Head(q) => (Has(q, c) <=> Has(Tail(q), c))
<1>1. PICK n \in Nat : n = Len(q)
  OBVIOUS
<1>2. PICK t, h : t = Tail(q) /\ h = Head(q)
  OBVIOUS
<1>3. n >= 1 /\ Len(t) = n - 1 /\ h = q[1] /\ t \in Seq(X) /\ h \in X
  BY <1>1, <1>2
<1>4. \A i \in 1..(n - 1) : t[i] = q[i + 1]
  BY <1>1, <1>2
<1>5. \A i \in 1..(n - 1) : i + 1 \in 1..n /\ i + 1 # 1
  BY <1>1
<1>6. 1 \in 1..n
  BY <1>3
<1>7. ASSUME NEW i \in 1..(n - 1), NEW j \in 1..(n - 1), t[i] = t[j]
      PROVE  i = j
  <2>1. q[i + 1] = q[j + 1] /\ i + 1 \in 1..n /\ j + 1 \in 1..n
    BY <1>4, <1>5, <1>7
  <2>2. i + 1 = j + 1
    BY <1>1, <2>1 DEF Distinct
  <2> QED
    BY <2>2
<1>8. ASSUME NEW i \in 1..(n - 1)
      PROVE  t[i] # h
  BY <1>1, <1>3, <1>4, <1>5, <1>6 DEF Distinct
<1>9. ASSUME NEW c, c # h
      PROVE  (\E i \in 1..n : q[i] = c) <=> (\E i \in 1..(n - 1) : t[i] = c)
  <2>1. ASSUME NEW i \in 1..n, q[i] = c
        PROVE  \E k \in 1..(n - 1) : t[k] = c
    <3>1. i # 1
      BY <1>3, <1>9, <2>1
    <3>2. i - 1 \in 1..(n - 1) /\ (i - 1) + 1 = i
      BY <3>1
    <3>3. t[i - 1] = c
      BY <1>4, <2>1, <3>2
    <3> QED
      BY <3>2, <3>3
  <2>2. ASSUME NEW i \in 1..(n - 1), t[i] = c
        PROVE  \E k \in 1..n : q[k] = c
    BY <1>4, <1>5, <2>2
  <2> QED
    BY <2>1, <2>2
<1>10. Distinct(t) /\ ~ Has(t, h)
  BY <1>3, <1>7, <1>8 DEF Distinct, Has
<1>11. \A c : c # h => (Has(q, c) <=> Has(t, c))
  BY <1>1, <1>3, <1>9 DEF Has
<1>12. Has(q, h)
  BY <1>1, <1>3, <1>6 DEF Has
<1> QED
  BY <1>2, <1>3, <1>10, <1>11, <1>12

LEMMA BeginOK ==
  ASSUME NEW D \in SUBSET Pane, NEW s, ConnOK(s, D), replay_barrier_up(s), s.seed.pending # <<>>,
         NEW p, p = Head(s.seed.pending), NEW pane, NEW m, NEW r, Exports(p, pane, m, r, D),
         NEW t, BeginTo(s, t, p, m, r)
  PROVE  ConnOK(t, D) /\ replay_barrier_up(t)
<1>1. PICK a, b : a = s.seed /\ b = t.seed
  OBVIOUS
<1>2. /\ s.outbox \in Seq(Outgoing(D)) /\ a \in SeedTypes(D) /\ s.front_started \in BOOLEAN
      /\ s.resync_pending \in SUBSET D /\ s.attached \in BOOLEAN /\ SeedOK(a, D) /\ Bounded(s) /\ s.resync_pending = {}
      /\ s.front_started => s.outbox # <<>>
  BY <1>1, ConnFields
<1>3. /\ t.outbox = s.outbox /\ t.front_started = s.front_started
      /\ t.resync_pending = s.resync_pending /\ t.attached = s.attached
      /\ b.kind = a.kind /\ b.pending = Tail(a.pending) /\ b.catch_up = a.catch_up
      /\ b.baseline_queued = a.baseline_queued /\ b.outdated = a.outdated /\ b.replay = r
      /\ b.manifest = [a.manifest EXCEPT ![p] = m]
      /\ b = [kind |-> b.kind, manifest |-> b.manifest, pending |-> b.pending,
              replay |-> b.replay, catch_up |-> b.catch_up,
              baseline_queued |-> b.baseline_queued, outdated |-> b.outdated]
      /\ t = [outbox |-> t.outbox, front_started |-> t.front_started, seed |-> t.seed,
              resync_pending |-> t.resync_pending, attached |-> t.attached]
  BY <1>1 DEF BeginTo
<1>4. /\ a.kind \in {"none", "Attach", "Resync"} /\ a.pending \in Seq(D)
      /\ a.manifest \in [Pane -> {"absent", "Pending", "Replaying", "CatchingUp", "Live"}]
      /\ a.baseline_queued \in BOOLEAN /\ a.catch_up \in Seq(Delayed(D)) /\ a.outdated \in SUBSET D
  BY <1>2, SeedFields
<1>5. a.kind # "none" /\ ~ a.baseline_queued
  BY <1>1 DEF replay_barrier_up
<1>6. Listed(a) /\ Orderly(a)
  BY <1>2 DEF SeedOK
<1>7. /\ Tail(a.pending) \in Seq(D) /\ p \in D /\ p \in Pane
      /\ Distinct(Tail(a.pending)) /\ Has(a.pending, p) /\ ~ Has(Tail(a.pending), p)
      /\ \A c : c # p => (Has(a.pending, c) <=> Has(Tail(a.pending), c))
  <2>1. Distinct(a.pending)
    BY <1>6 DEF Listed, Distinct
  <2>2. a.pending # <<>> /\ p = Head(a.pending)
    BY <1>1
  <2> QED
    BY <1>4, <2>1, <2>2, ListTail
<1>8. a.manifest[p] = "Pending"
  BY <1>6, <1>7 DEF Listed, Has
<1>9. m \in {"Replaying", "CatchingUp"} /\ r \in Replays(D) \cup {NoReplay}
      /\ (r # NoReplay => r.pane = p /\ m = "Replaying")
  BY DEF Exports
<1>10. /\ b.manifest \in [Pane -> {"absent", "Pending", "Replaying", "CatchingUp", "Live"}]
       /\ b.manifest[p] = m /\ \A c \in Pane : c # p => b.manifest[c] = a.manifest[c]
       /\ \A c \in Pane : b.manifest[c] = "absent" <=> a.manifest[c] = "absent"
       /\ \A c \in Pane : b.manifest[c] = "Pending" => a.manifest[c] = "Pending"
  BY <1>3, <1>4, <1>7, <1>8, <1>9
<1>11. b \in SeedTypes(D)
  BY <1>3, <1>4, <1>7, <1>9, <1>10 DEF SeedTypes
<1>12. SeedOK(b, D)
  <2>1. Listed(b)
    <3>1. b.manifest[p] # "Pending"
      BY <1>9, <1>10
    <3>2. ASSUME NEW c \in Pane, c # p
          PROVE  b.manifest[c] = "Pending" <=> Has(b.pending, c)
      <4>1. a.manifest[c] = "Pending" <=> Has(a.pending, c)
        BY <1>6 DEF Listed, Has
      <4> QED
        BY <1>3, <1>7, <1>10, <3>2, <4>1
    <3>3. Distinct(b.pending) /\ ~ Has(b.pending, p)
      BY <1>3, <1>7
    <3>4. \A c \in Pane : b.manifest[c] = "Pending" <=> Has(b.pending, c)
      BY <3>1, <3>2, <3>3
    <3> QED
      BY <3>3, <3>4 DEF Listed, Has, Distinct
  <2>2. Orderly(b)
    <3>1. \A c \in Pane : b.manifest[c] = "Pending" \/ c \in b.outdated => Idle(c, b.catch_up)
      BY <1>3, <1>6, <1>10 DEF Orderly
    <3>2. \A i \in 1..Len(b.catch_up) : b.catch_up[i].type = "control" /\ b.catch_up[i].pane # None =>
            b.manifest[b.catch_up[i].pane] = "absent"
      <4>1. \A i \in 1..Len(a.catch_up) : a.catch_up[i].pane \in Pane \cup {None}
        BY <1>4 DEF Delayed, Outgoing, Frames
      <4> QED
        BY <1>3, <1>6, <1>10, <4>1 DEF Orderly
    <3> QED
      BY <3>1, <3>2 DEF Orderly
  <2>3. \A c \in Pane : b.manifest[c] # "absent" => c \in D
    BY <1>2, <1>10 DEF SeedOK
  <2>4. \A c \in b.outdated : b.manifest[c] \notin {"absent", "Pending"}
    <3>1. \A c \in a.outdated : c \in Pane /\ a.manifest[c] \notin {"absent", "Pending"}
      BY <1>2, <1>4 DEF SeedOK
    <3> QED
      BY <1>3, <1>10, <3>1
  <2>5. b.replay # NoReplay => b.manifest[b.replay.pane] = "Replaying"
    BY <1>3, <1>9, <1>10
  <2> QED
    BY <1>3, <1>5, <1>11, <2>1, <2>2, <2>3, <2>4, <2>5 DEF SeedOK
<1>13. Bounded(t)
  BY <1>1, <1>2, <1>3 DEF Bounded
<1>14. t \in [outbox : Seq(Outgoing(D)), front_started : BOOLEAN, seed : SeedTypes(D),
              resync_pending : SUBSET D, attached : BOOLEAN]
  BY <1>1, <1>2, <1>3, <1>11
<1>15. replay_barrier_up(t)
  BY <1>1, <1>3, <1>5 DEF replay_barrier_up
<1> QED
  BY <1>1, <1>2, <1>3, <1>12, <1>13, <1>14, <1>15 DEF ConnOK

\* The pane's lane ends where its export starts, and every other goes on as it was.
LEMMA BeginFollowed ==
  ASSUME NEW D \in SUBSET Pane, NEW s, ConnOK(s, D), replay_barrier_up(s), s.seed.pending # <<>>,
         s.seed.replay = NoReplay, NEW p, p = Head(s.seed.pending), NEW m, NEW r, NEW t, BeginTo(s, t, p, m, r),
         NEW pn, NEW u, NEW cs, Followed(s, pn, u, cs), Exports(p, pn[p], m, r, D)
  PROVE  Followed(t, pn, u, cs)
<1>1. PICK a, b : a = s.seed /\ b = t.seed
  OBVIOUS
<1>2. s.outbox \in Seq(Outgoing(D)) /\ a \in SeedTypes(D) /\ SeedOK(a, D)
  BY <1>1, ConnFields
<1>3. /\ t.outbox = s.outbox /\ t.resync_pending = s.resync_pending /\ b.catch_up = a.catch_up
      /\ b.outdated = a.outdated /\ b.replay = r /\ b.manifest = [a.manifest EXCEPT ![p] = m]
  BY <1>1 DEF BeginTo
<1>4. /\ a.pending \in Seq(D) /\ a.catch_up \in Seq(Delayed(D))
      /\ a.manifest \in [Pane -> {"absent", "Pending", "Replaying", "CatchingUp", "Live"}]
  BY <1>2, SeedFields
<1>5. p \in D /\ p \in Pane /\ p # None /\ a.manifest[p] = "Pending"
  <2>1. Distinct(a.pending) /\ \A c \in Pane : a.manifest[c] = "Pending" <=> Has(a.pending, c)
    BY <1>2 DEF SeedOK, Listed, Distinct, Has
  <2>2. a.pending # <<>> /\ p = Head(a.pending)
    BY <1>1
  <2>3. p \in D /\ Has(a.pending, p)
    BY <1>4, <2>1, <2>2, ListTail
  <2> QED
    BY <2>1, <2>3, PaneIsPane
<1>6. Idle(p, a.catch_up) /\ a.catch_up \in Seq(Frames(Pane))
  <2>1. Idle(p, a.catch_up)
    BY <1>2, <1>5 DEF SeedOK, Orderly
  <2>2. a.catch_up \in Seq(Frames(Pane))
    BY <1>4, FramesWiden
  <2> QED
    BY <2>1, <2>2
<1>7. b.manifest[p] = m /\ \A c \in Pane : c # p => b.manifest[c] = a.manifest[c]
  BY <1>3, <1>4, <1>5
<1>8. /\ m \in {"Replaying", "CatchingUp"} /\ r \in Replays(D) \cup {NoReplay}
      /\ r = NoReplay => pn[p].state = "exited"
      /\ r # NoReplay => r.pane = p /\ r.reset /\ r.ver = pn[p].ver /\ r.geom = pn[p].geom
  BY DEF Exports
<1>9. a.replay = NoReplay /\ NoReplay.pane = None
  BY <1>1 DEF NoReplay
<1>10. ASSUME NEW c \in Lanes, c # p, NEW x, NEW z, Lane(s.outbox, a, c, x, z)
       PROVE  Lane(t.outbox, b, c, x, z)
  <2>1. PICK y \in Screens : /\ Chain(c, x, s.outbox, y) /\ Chain(c, Junction(a, c, y), a.catch_up, z)
                             /\ c \in Pane => OnReplay(a, c, y)
    BY <1>10 DEF Lane
  <2>2. c = None \/ (a.replay.pane # c /\ b.replay.pane # c)
    BY <1>3, <1>8, <1>9, <1>10
  <2>3. Junction(b, c, y) = Junction(a, c, y)
    BY <2>2 DEF Junction
  <2>4. c \in Pane => OnReplay(b, c, y)
    BY <1>7, <1>10, <2>1, <2>2, PaneIsPane DEF OnReplay
  <2> QED
    BY <1>3, <2>1, <2>3, <2>4 DEF Lane
<1>11. ASSUME NEW c \in Pane, c # p
       PROVE  \E z \in Screens : Lane(t.outbox, b, c, u[c], z) /\ Ends(t, c, pn[c], z)
  <2>1. PICK z \in Screens : Lane(s.outbox, a, c, u[c], z) /\ Ends(s, c, pn[c], z)
    BY <1>1 DEF Followed
  <2>2. Lane(t.outbox, b, c, u[c], z)
    BY <1>10, <1>11, <2>1 DEF Lanes
  <2>3. Stale(s, c) <=> Stale(t, c)
    BY <1>1, <1>3, <1>7, <1>11 DEF Stale
  <2> QED
    BY <2>1, <2>2, <2>3 DEF Ends
<1>12. \E z \in Screens : Lane(t.outbox, b, p, u[p], z) /\ Ends(t, p, pn[p], z)
  <2>1. PICK z \in Screens : Lane(s.outbox, a, p, u[p], z) /\ Ends(s, p, pn[p], z)
    BY <1>1, <1>5 DEF Followed
  <2>2. PICK y \in Screens : /\ Chain(p, u[p], s.outbox, y) /\ Chain(p, Junction(a, p, y), a.catch_up, z)
                             /\ OnReplay(a, p, y)
    BY <1>5, <2>1 DEF Lane
  <2>3. Junction(a, p, y) = y
    BY <1>5, <1>9 DEF Junction
  <2>4. z = y
    BY <1>6, <2>2, <2>3, ChainIdle
  <2>5. y.known
    BY <1>5, <2>2 DEF OnReplay
  <2>6. CASE r = NoReplay
    <3>1. Junction(b, p, y) = y
      BY <1>3, <1>5, <1>9, <2>6 DEF Junction
    <3>2. OnReplay(b, p, y)
      BY <1>3, <1>5, <1>9, <2>5, <2>6 DEF OnReplay
    <3>3. Lane(t.outbox, b, p, u[p], y)
      BY <1>3, <2>2, <2>3, <2>4, <3>1, <3>2 DEF Lane
    <3>4. Ends(t, p, pn[p], y)
      BY <1>8, <2>5, <2>6 DEF Ends
    <3> QED
      BY <3>3, <3>4
  <2>7. CASE r # NoReplay
    <3>1. b \in SeedTypes(D)
      <4>1. ConnOK(t, D)
        BY BeginOK
      <4> QED
        BY <1>1, <4>1, ConnFields
    <3>2. PICK w : w = Junction(b, p, y)
      OBVIOUS
    <3>3. w \in Screens /\ w.known = y.known /\ w.ver = r.ver /\ w.part = 0 /\ w.geom = r.geom
      BY <1>3, <1>5, <1>8, <2>7, <3>1, <3>2, JunctionType
    <3>4. OnReplay(b, p, y)
      BY <1>3, <1>8, <2>5, <2>7 DEF OnReplay
    <3>5. Chain(p, w, b.catch_up, w)
      BY <1>3, <1>6, <3>3, ChainIdle
    <3>6. Lane(t.outbox, b, p, u[p], w)
      BY <1>3, <2>2, <3>2, <3>4, <3>5 DEF Lane
    <3>7. Ends(t, p, pn[p], w)
      BY <1>8, <2>5, <2>7, <3>3 DEF Ends
    <3> QED
      BY <3>3, <3>6, <3>7
  <2> QED
    BY <2>6, <2>7
<1>13. \E z \in Screens : Lane(t.outbox, b, None, Counter(cs.applied), z) /\ z.ver = cs.sent
  <2>1. PICK z \in Screens : Lane(s.outbox, a, None, Counter(cs.applied), z) /\ z.ver = cs.sent
    BY <1>1 DEF Followed
  <2>2. None \in Lanes /\ None # p
    BY <1>5 DEF Lanes
  <2> QED
    BY <1>10, <2>1, <2>2
<1>14. \A c \in Pane : \E z \in Screens : Lane(t.outbox, b, c, u[c], z) /\ Ends(t, c, pn[c], z)
  BY <1>11, <1>12
<1> QED
  BY <1>1, <1>13, <1>14 DEF Followed

LEMMA SeedAgain ==
  ASSUME NEW D \in SUBSET Pane, NEW s, ConnOK(s, D)
  PROVE  [s EXCEPT !.seed = s.seed] = s
<1>1. s = [outbox |-> s.outbox, front_started |-> s.front_started, seed |-> s.seed,
           resync_pending |-> s.resync_pending, attached |-> s.attached]
  BY ConnFields
<1>2. PICK t : t = [s EXCEPT !.seed = s.seed]
  OBVIOUS
<1>3. /\ t.outbox = s.outbox /\ t.front_started = s.front_started /\ t.resync_pending = s.resync_pending
      /\ t.attached = s.attached /\ t.seed = s.seed
      /\ t = [outbox |-> t.outbox, front_started |-> t.front_started, seed |-> t.seed,
              resync_pending |-> t.resync_pending, attached |-> t.attached]
  BY <1>1, <1>2
<1>4. t = s
  BY <1>1, <1>3
<1> QED
  BY <1>2, <1>4

\* The round after an export, and the one with nothing to queue.
LEMMA SettledStill ==
  ASSUME NEW D \in SUBSET Pane, NEW s, ConnOK(s, D), replay_barrier_up(s),
         s.seed.replay # NoReplay => s.seed.replay.reset
  PROVE  Settled(s) = complete_attach_baseline(s)
<1>1. finish_pane_replay(s.seed) = s.seed
  BY DEF finish_pane_replay, ReplayDone
<1>2. [s EXCEPT !.seed = finish_pane_replay(s.seed)] = s
  BY <1>1, SeedAgain
<1> QED
  BY <1>2 DEF Settled

LEMMA BeginFields ==
  ASSUME NEW D \in SUBSET Pane, NEW s, ConnOK(s, D), NEW p, p = Head(s.seed.pending), NEW t, t = begin_pane_replay(s),
         NEW m, NEW r, NEW e, e = [pane |-> p, ver |-> panes[p].ver, geom |-> panes[p].geom, reset |-> TRUE, sent |-> 0],
         s.seed.replay = NoReplay,
         panes[p].state # "live" => m = "CatchingUp" /\ r = NoReplay,
         panes[p].state = "live" => m = "Replaying" /\ r = e
  PROVE  BeginTo(s, t, p, m, r)
<1>1. PICK a : a = s.seed
  OBVIOUS
<1>2. a \in SeedTypes(D) /\ s = [outbox |-> s.outbox, front_started |-> s.front_started, seed |-> a,
                                 resync_pending |-> s.resync_pending, attached |-> s.attached]
  BY <1>1, ConnFields
<1>3. a = [kind |-> a.kind, manifest |-> a.manifest, pending |-> a.pending,
           replay |-> a.replay, catch_up |-> a.catch_up,
           baseline_queued |-> a.baseline_queued, outdated |-> a.outdated]
  BY <1>2, SeedFields
<1>4. PICK l, h : l = Tail(a.pending) /\ h = [a.manifest EXCEPT ![p] = m]
  OBVIOUS
<1>5. PICK b : b = [kind |-> a.kind, manifest |-> h, pending |-> l, replay |-> r, catch_up |-> a.catch_up,
                    baseline_queued |-> a.baseline_queued, outdated |-> a.outdated]
  OBVIOUS
<1>6. t = [s EXCEPT !.seed = b]
  <2>1. CASE panes[p].state # "live"
    <3>1. [a EXCEPT !.pending = l, !.manifest = h] = b
      <4>1. a.replay = r
        BY <1>1, <2>1
      <4>2. PICK c : c = [a EXCEPT !.pending = l, !.manifest = h]
        OBVIOUS
      <4>3. /\ c.kind = a.kind /\ c.manifest = h /\ c.pending = l /\ c.replay = a.replay
            /\ c.catch_up = a.catch_up /\ c.baseline_queued = a.baseline_queued /\ c.outdated = a.outdated
            /\ c = [kind |-> c.kind, manifest |-> c.manifest, pending |-> c.pending,
                    replay |-> c.replay, catch_up |-> c.catch_up,
                    baseline_queued |-> c.baseline_queued, outdated |-> c.outdated]
        BY <1>3, <4>2
      <4> QED
        BY <1>5, <4>1, <4>2, <4>3
    <3>2. t = [s EXCEPT !.seed = [a EXCEPT !.pending = l, !.manifest = h]]
      BY <1>1, <1>4, <2>1 DEF begin_pane_replay
    <3> QED
      BY <3>1, <3>2
  <2>2. CASE panes[p].state = "live"
    <3>1. [a EXCEPT !.pending = l, !.manifest = h, !.replay = r] = b
      <4>1. PICK c : c = [a EXCEPT !.pending = l, !.manifest = h, !.replay = r]
        OBVIOUS
      <4>2. /\ c.kind = a.kind /\ c.manifest = h /\ c.pending = l /\ c.replay = r
            /\ c.catch_up = a.catch_up /\ c.baseline_queued = a.baseline_queued /\ c.outdated = a.outdated
            /\ c = [kind |-> c.kind, manifest |-> c.manifest, pending |-> c.pending,
                    replay |-> c.replay, catch_up |-> c.catch_up,
                    baseline_queued |-> c.baseline_queued, outdated |-> c.outdated]
        BY <1>3, <4>1
      <4> QED
        BY <1>5, <4>1, <4>2
    <3>2. t = [s EXCEPT !.seed = [a EXCEPT !.pending = l, !.manifest = h, !.replay = r]]
      BY <1>1, <1>4, <2>2 DEF begin_pane_replay
    <3> QED
      BY <3>1, <3>2
  <2> QED
    BY <2>1, <2>2
<1>7. /\ b.kind = a.kind /\ b.manifest = h /\ b.pending = l /\ b.replay = r
      /\ b.catch_up = a.catch_up /\ b.baseline_queued = a.baseline_queued /\ b.outdated = a.outdated
      /\ b = [kind |-> b.kind, manifest |-> b.manifest, pending |-> b.pending,
              replay |-> b.replay, catch_up |-> b.catch_up,
              baseline_queued |-> b.baseline_queued, outdated |-> b.outdated]
  BY <1>5
<1>8. /\ t.outbox = s.outbox /\ t.front_started = s.front_started /\ t.resync_pending = s.resync_pending
      /\ t.attached = s.attached /\ t.seed = b
      /\ t = [outbox |-> t.outbox, front_started |-> t.front_started, seed |-> t.seed,
              resync_pending |-> t.resync_pending, attached |-> t.attached]
  BY <1>2, <1>6
<1> QED
  BY <1>1, <1>4, <1>7, <1>8 DEF BeginTo

LEMMA BeginPumped ==
  ASSUME Inv, replay_barrier_up(conn), conn.attached, conn.seed.replay = NoReplay, conn.seed.pending # <<>>,
         NEW t, t = Settled(begin_pane_replay(conn))
  PROVE  ConnOK(t, Met) /\ (t.attached => Followed(t, panes, ui, controls))
<1>1. PICK s, p : s = conn /\ p = Head(s.seed.pending)
  OBVIOUS
<1>2. ConnOK(s, Met) /\ Met \in SUBSET Pane /\ Followed(s, panes, ui, controls) /\ replay_barrier_up(s)
      /\ s.seed.replay = NoReplay /\ s.seed.pending # <<>>
  BY <1>1, MetPanes DEF Inv
<1>3. p \in Met /\ p \in Pane /\ p # None
  <2>1. PICK q : q = s.seed.pending
    OBVIOUS
  <2>2. q \in Seq(Met)
    BY <1>2, <2>1, ConnFields, SeedFields
  <2>3. p \in Met
    BY <1>1, <1>2, <2>1, <2>2
  <2> QED
    BY <2>3, MetPanes, PaneIsPane
<1>4. panes[p].state \in {"live", "exited"} /\ panes[p].ver \in 0..Versions /\ panes[p].geom \in 1..2
  BY <1>3 DEF Inv, Met
<1>5. PICK e : e = [pane |-> p, ver |-> panes[p].ver, geom |-> panes[p].geom, reset |-> TRUE, sent |-> 0]
  OBVIOUS
<1>6. PICK m, r : /\ panes[p].state # "live" => m = "CatchingUp" /\ r = NoReplay
                  /\ panes[p].state = "live" => m = "Replaying" /\ r = e
  OBVIOUS
<1>7. PICK v : v = begin_pane_replay(s)
  OBVIOUS
<1>8. BeginTo(s, v, p, m, r)
  BY <1>1, <1>2, <1>5, <1>6, <1>7, BeginFields
<1>9. e # NoReplay /\ e.pane = p /\ e.reset /\ e.ver = panes[p].ver /\ e.geom = panes[p].geom /\ ~ ReplayDone(e)
      /\ e.sent = 0
  BY <1>3, <1>5 DEF NoReplay, ReplayDone
<1>10. e \in Replays(Met)
  <2>1. 0 \in 0..Chunks
    BY SizesAssumption
  <2>2. e \in [pane : Met, ver : 0..Versions, geom : 1..2, reset : BOOLEAN, sent : 0..Chunks]
    BY <1>3, <1>4, <1>5, <2>1
  <2> QED
    BY <1>9, <2>2 DEF Replays
<1>11. Exports(p, panes[p], m, r, Met)
  BY <1>4, <1>6, <1>9, <1>10 DEF Exports
<1>12. ConnOK(v, Met) /\ replay_barrier_up(v)
  BY <1>1, <1>2, <1>8, <1>11, BeginOK
<1>13. Followed(v, panes, ui, controls)
  BY <1>1, <1>2, <1>8, <1>11, BeginFollowed
<1>14. v.seed.replay # NoReplay => v.seed.replay.reset
  BY <1>6, <1>8, <1>9 DEF BeginTo
<1>15. t = complete_attach_baseline(v)
  BY <1>1, <1>2, <1>7, <1>12, <1>14, SettledStill
<1>16. ConnOK(t, Met) /\ Same(v, t)
  BY <1>2, <1>12, <1>15, Completed
<1> QED
  BY <1>13, <1>16, SameFollowed

\* The fields after the first of what waits has been queued, as g.
DrainTo(s, t, g) ==
  /\ t.outbox = Append(s.outbox, g) /\ t.front_started = s.front_started
  /\ t.resync_pending = s.resync_pending /\ t.attached = s.attached
  /\ t.seed.kind = s.seed.kind /\ t.seed.pending = s.seed.pending /\ t.seed.catch_up = Tail(s.seed.catch_up)
  /\ t.seed.baseline_queued = s.seed.baseline_queued /\ t.seed.outdated = s.seed.outdated
  /\ t.seed.replay = s.seed.replay /\ t.seed.manifest = s.seed.manifest
  /\ t.seed = [kind |-> t.seed.kind, manifest |-> t.seed.manifest, pending |-> t.seed.pending,
               replay |-> t.seed.replay, catch_up |-> t.seed.catch_up,
               baseline_queued |-> t.seed.baseline_queued, outdated |-> t.seed.outdated]
  /\ t = [outbox |-> t.outbox, front_started |-> t.front_started, seed |-> t.seed,
          resync_pending |-> t.resync_pending, attached |-> t.attached]

LEMMA DrainFields ==
  ASSUME NEW D \in SUBSET Pane, NEW s, ConnOK(s, D), NEW t, t = pump_seed_catch_up(s),
         NEW g, g = [Head(s.seed.catch_up) EXCEPT !.class = "SeedCatchUp"]
  PROVE  DrainTo(s, t, g)
<1>1. PICK a, q, l : a = s.seed /\ q = Append(s.outbox, g) /\ l = Tail(s.seed.catch_up)
  OBVIOUS
<1>2. a \in SeedTypes(D) /\ s = [outbox |-> s.outbox, front_started |-> s.front_started, seed |-> a,
                                 resync_pending |-> s.resync_pending, attached |-> s.attached]
  BY <1>1, ConnFields
<1>3. a = [kind |-> a.kind, manifest |-> a.manifest, pending |-> a.pending,
           replay |-> a.replay, catch_up |-> a.catch_up,
           baseline_queued |-> a.baseline_queued, outdated |-> a.outdated]
  BY <1>2, SeedFields
<1>4. PICK b : b = [a EXCEPT !.catch_up = l]
  OBVIOUS
<1>5. /\ b.kind = a.kind /\ b.manifest = a.manifest /\ b.pending = a.pending /\ b.replay = a.replay
      /\ b.catch_up = l /\ b.baseline_queued = a.baseline_queued /\ b.outdated = a.outdated
      /\ b = [kind |-> b.kind, manifest |-> b.manifest, pending |-> b.pending,
              replay |-> b.replay, catch_up |-> b.catch_up,
              baseline_queued |-> b.baseline_queued, outdated |-> b.outdated]
  BY <1>3, <1>4
<1>6. PICK h : h = [s EXCEPT !.outbox = q]
  OBVIOUS
<1>7. t = [h EXCEPT !.seed = b]
  BY <1>1, <1>4, <1>6 DEF pump_seed_catch_up, try_push_class
<1>8. /\ h.outbox = q /\ h.front_started = s.front_started /\ h.resync_pending = s.resync_pending
      /\ h.attached = s.attached
      /\ h = [outbox |-> h.outbox, front_started |-> h.front_started, seed |-> h.seed,
              resync_pending |-> h.resync_pending, attached |-> h.attached]
  BY <1>2, <1>6
<1>9. /\ t.outbox = q /\ t.front_started = s.front_started /\ t.resync_pending = s.resync_pending
      /\ t.attached = s.attached /\ t.seed = b
      /\ t = [outbox |-> t.outbox, front_started |-> t.front_started, seed |-> t.seed,
              resync_pending |-> t.resync_pending, attached |-> t.attached]
  BY <1>7, <1>8
<1> QED
  BY <1>1, <1>5, <1>9 DEF DrainTo

LEMMA IdleTail ==
  ASSUME NEW X, NEW q \in Seq(X), q # <<>>, NEW c, Idle(c, q)
  PROVE  Idle(c, Tail(q))
<1>1. PICK n \in Nat : n = Len(q)
  OBVIOUS
<1>2. Len(Tail(q)) = n - 1 /\ \A i \in 1..(n - 1) : Tail(q)[i] = q[i + 1] /\ i + 1 \in 1..n
  BY <1>1
<1> QED
  BY <1>1, <1>2 DEF Idle

LEMMA DrainOK ==
  ASSUME NEW D \in SUBSET Pane, NEW s, ConnOK(s, D), replay_barrier_up(s), s.seed.catch_up # <<>>,
         Len(s.outbox) < max_backlog, NEW t, NEW g, g = [Head(s.seed.catch_up) EXCEPT !.class = "SeedCatchUp"],
         DrainTo(s, t, g)
  PROVE  ConnOK(t, D) /\ replay_barrier_up(t)
<1>1. PICK a, b : a = s.seed /\ b = t.seed
  OBVIOUS
<1>2. /\ s.outbox \in Seq(Outgoing(D)) /\ a \in SeedTypes(D) /\ s.front_started \in BOOLEAN
      /\ s.resync_pending \in SUBSET D /\ s.attached \in BOOLEAN /\ SeedOK(a, D) /\ Bounded(s) /\ s.resync_pending = {}
  BY <1>1, ConnFields
<1>3. /\ t.outbox = Append(s.outbox, g) /\ t.front_started = s.front_started
      /\ t.resync_pending = s.resync_pending /\ t.attached = s.attached
      /\ b.kind = a.kind /\ b.pending = a.pending /\ b.catch_up = Tail(a.catch_up)
      /\ b.baseline_queued = a.baseline_queued /\ b.outdated = a.outdated /\ b.replay = a.replay
      /\ b.manifest = a.manifest
      /\ b = [kind |-> b.kind, manifest |-> b.manifest, pending |-> b.pending,
              replay |-> b.replay, catch_up |-> b.catch_up,
              baseline_queued |-> b.baseline_queued, outdated |-> b.outdated]
      /\ t = [outbox |-> t.outbox, front_started |-> t.front_started, seed |-> t.seed,
              resync_pending |-> t.resync_pending, attached |-> t.attached]
  BY <1>1 DEF DrainTo
<1>4. /\ a.kind \in {"none", "Attach", "Resync"} /\ a.pending \in Seq(D) /\ a.replay \in Replays(D) \cup {NoReplay}
      /\ a.manifest \in [Pane -> {"absent", "Pending", "Replaying", "CatchingUp", "Live"}]
      /\ a.baseline_queued \in BOOLEAN /\ a.catch_up \in Seq(Delayed(D)) /\ a.outdated \in SUBSET D
  BY <1>2, SeedFields
<1>5. a.kind # "none" /\ ~ a.baseline_queued
  BY <1>1 DEF replay_barrier_up
<1>6. PICK q \in Seq(Delayed(D)) : q = a.catch_up /\ q # <<>>
  BY <1>1, <1>4
<1>7. PICK n \in Nat : n = Len(q)
  OBVIOUS
<1>8. /\ Tail(q) \in Seq(Delayed(D)) /\ n >= 1 /\ Len(Tail(q)) = n - 1 /\ Head(q) \in Delayed(D)
      /\ \A i \in 1..(n - 1) : Tail(q)[i] = q[i + 1] /\ i + 1 \in 1..n
  BY <1>6, <1>7
<1>9. g \in Outgoing(D) /\ g.class = "SeedCatchUp"
  <2>1. PICK f : f = Head(q)
    OBVIOUS
  <2>2. f \in Frames(D) /\ Proper(f) /\ f.type \in {"output", "resize", "control"} /\ g = [f EXCEPT !.class = "SeedCatchUp"]
    BY <1>1, <1>6, <1>8, <2>1 DEF Delayed, Outgoing
  <2>3. /\ g \in Frames(D) /\ g.type = f.type /\ g.pane = f.pane /\ g.ver = f.ver /\ g.class = "SeedCatchUp"
    BY <2>2 DEF Frames
  <2>4. Proper(g)
    BY <2>2, <2>3 DEF Proper
  <2> QED
    BY <2>3, <2>4 DEF Outgoing
<1>10. b \in SeedTypes(D)
  BY <1>3, <1>4, <1>6, <1>8 DEF SeedTypes
<1>11. SeedOK(b, D)
  <2>1. Listed(b)
    BY <1>2, <1>3 DEF SeedOK, Listed
  <2>2. Orderly(b)
    <3>1. Orderly(a)
      BY <1>2 DEF SeedOK
    <3>2. \A c \in Pane : b.manifest[c] = "Pending" \/ c \in b.outdated => Idle(c, b.catch_up)
      BY <1>3, <1>6, <3>1, IdleTail DEF Orderly
    <3>3. \A i \in 1..Len(b.catch_up) : b.catch_up[i].type = "control" /\ b.catch_up[i].pane # None =>
            b.manifest[b.catch_up[i].pane] = "absent"
      <4>1. \A i \in 1..n : q[i].type = "control" /\ q[i].pane # None => a.manifest[q[i].pane] = "absent"
        BY <1>6, <1>7, <3>1 DEF Orderly
      <4> QED
        BY <1>3, <1>6, <1>8, <4>1
    <3> QED
      BY <3>2, <3>3 DEF Orderly
  <2>3. \A c \in Pane : b.manifest[c] # "absent" => c \in D
    BY <1>2, <1>3 DEF SeedOK
  <2>4. \A c \in b.outdated : b.manifest[c] \notin {"absent", "Pending"}
    BY <1>2, <1>3 DEF SeedOK
  <2>5. b.replay # NoReplay => b.manifest[b.replay.pane] = "Replaying"
    BY <1>2, <1>3 DEF SeedOK
  <2> QED
    BY <1>3, <1>5, <1>10, <2>1, <2>2, <2>3, <2>4, <2>5 DEF SeedOK
<1>12. t.outbox \in Seq(Outgoing(D)) /\ t.outbox # <<>>
  <2>1. PICK o, X : o = s.outbox /\ X = Outgoing(D)
    OBVIOUS
  <2>2. o \in Seq(X) /\ g \in X /\ t.outbox = Append(o, g)
    BY <1>2, <1>3, <1>9, <2>1
  <2>3. t.outbox \in Seq(X) /\ t.outbox # <<>>
    BY ONLY <2>2
  <2> QED
    BY <2>1, <2>3
<1>13. Bounded(t)
  <2>1. PICK k \in Nat : k = Len(s.outbox)
    BY <1>2
  <2>2. Len(t.outbox) = k + 1 /\ max_backlog \in Nat
    BY <1>2, <1>3, <2>1, SizesAssumption
  <2>3. Len(t.outbox) <= max_backlog
    BY <2>1, <2>2
  <2>4. Count(t.outbox) = Count(s.outbox) + 1 /\ Count(s.outbox) \in Nat
    BY <1>2, <1>3, <1>9, CountAppend, CountType
  <2>5. Len(b.catch_up) = n - 1 /\ n + Count(s.outbox) <= SEED_CATCH_UP_LIMIT
    BY <1>1, <1>2, <1>3, <1>6, <1>7, <1>8 DEF Bounded
  <2>6. Len(b.catch_up) + Count(t.outbox) <= SEED_CATCH_UP_LIMIT
    BY <2>4, <2>5
  <2> QED
    BY <1>1, <2>3, <2>6 DEF Bounded
<1>14. t \in [outbox : Seq(Outgoing(D)), front_started : BOOLEAN, seed : SeedTypes(D),
              resync_pending : SUBSET D, attached : BOOLEAN]
  BY <1>1, <1>2, <1>3, <1>10, <1>12
<1>15. replay_barrier_up(t)
  BY <1>1, <1>3, <1>5 DEF replay_barrier_up
<1> QED
  BY <1>1, <1>2, <1>3, <1>11, <1>12, <1>13, <1>14, <1>15 DEF ConnOK

LEMMA DrainSame ==
  ASSUME NEW D \in SUBSET Pane, NEW s, ConnOK(s, D), s.seed.replay = NoReplay, s.seed.catch_up # <<>>,
         NEW t, NEW g, g = [Head(s.seed.catch_up) EXCEPT !.class = "SeedCatchUp"], DrainTo(s, t, g)
  PROVE  Same(s, t)
<1>1. PICK a, b : a = s.seed /\ b = t.seed
  OBVIOUS
<1>2. /\ t.outbox = Append(s.outbox, g) /\ t.resync_pending = s.resync_pending
      /\ b.catch_up = Tail(a.catch_up) /\ b.outdated = a.outdated /\ b.replay = a.replay /\ b.manifest = a.manifest
  BY <1>1 DEF DrainTo
<1>3. \A c \in Pane : Stale(s, c) <=> Stale(t, c)
  BY <1>1, <1>2 DEF Stale
<1>4. s.outbox \in Seq(Frames(Pane)) /\ a.catch_up \in Seq(Frames(Pane)) /\ a.catch_up # <<>>
  <2>1. s.outbox \in Seq(Outgoing(D)) /\ a \in SeedTypes(D)
    BY <1>1, ConnFields
  <2>2. a.catch_up \in Seq(Delayed(D))
    BY <2>1, SeedFields
  <2> QED
    BY <1>1, <2>1, <2>2, FramesWiden
<1>5. PICK f : f = Head(a.catch_up)
  OBVIOUS
<1>6. f \in Frames(Pane) /\ g = [f EXCEPT !.class = "SeedCatchUp"]
  BY <1>1, <1>4, <1>5
<1>7. a.replay.pane = None /\ b.replay.pane = None
  BY <1>1, <1>2 DEF NoReplay
<1>8. ASSUME NEW c \in Lanes, NEW x, NEW z, Lane(s.outbox, a, c, x, z)
      PROVE  Lane(t.outbox, b, c, x, z)
  <2>1. PICK y \in Screens : /\ Chain(c, x, s.outbox, y) /\ Chain(c, Junction(a, c, y), a.catch_up, z)
                             /\ c \in Pane => OnReplay(a, c, y)
    BY <1>8 DEF Lane
  <2>2. Junction(a, c, y) = y /\ \A w : Junction(b, c, w) = w
    BY <1>7 DEF Junction
  <2>3. PICK w \in Screens : Goes(c, y, f, w) /\ Chain(c, w, Tail(a.catch_up), z)
    BY <1>4, <1>5, <2>1, <2>2, ChainTail
  <2>4. Goes(c, y, g, w)
    BY <1>6, <2>3, GoesClass
  <2>5. Chain(c, x, t.outbox, w)
    BY <1>2, <1>4, <2>1, <2>4, ChainAppend
  <2>6. y.known => w.known
    BY <1>6, <2>3, GoesOn
  <2>7. c \in Pane => OnReplay(b, c, w)
    BY <1>2, <1>7, <2>1, <2>6, PaneIsPane DEF OnReplay
  <2>8. Chain(c, Junction(b, c, w), b.catch_up, z)
    BY <1>2, <2>2, <2>3
  <2> QED
    BY <2>5, <2>7, <2>8 DEF Lane
<1> QED
  BY <1>1, <1>3, <1>8 DEF Same

LEMMA DrainPumped ==
  ASSUME NEW D \in SUBSET Pane, NEW s, ConnOK(s, D), replay_barrier_up(s), s.seed.replay = NoReplay,
         s.seed.catch_up # <<>>, Len(s.outbox) < max_backlog, NEW t, t = Settled(pump_seed_catch_up(s))
  PROVE  ConnOK(t, D) /\ Same(s, t) /\ t.attached = s.attached
<1>1. PICK v, g : v = pump_seed_catch_up(s) /\ g = [Head(s.seed.catch_up) EXCEPT !.class = "SeedCatchUp"]
  OBVIOUS
<1>2. DrainTo(s, v, g)
  BY <1>1, DrainFields
<1>3. ConnOK(v, D) /\ replay_barrier_up(v)
  BY <1>1, <1>2, DrainOK
<1>4. Same(s, v)
  BY <1>1, <1>2, DrainSame
<1>5. v.seed.replay = NoReplay /\ v.attached = s.attached
  BY <1>2 DEF DrainTo
<1>6. t = complete_attach_baseline(v)
  BY <1>1, <1>3, <1>5, SettledStill
<1>7. ConnOK(t, D) /\ Same(v, t) /\ t.attached = v.attached
  BY <1>3, <1>6, Completed
<1> QED
  BY <1>4, <1>5, <1>7, SameTrans

LEMMA PumpStep ==
  ASSUME Inv, pump_client_attach_seed
  PROVE  Inv'
<1>1. PICK s : s = conn
  OBVIOUS
<1>2. /\ ConnOK(s, Met) /\ Met \in SUBSET Pane /\ replay_barrier_up(s) /\ s.attached
      /\ Followed(s, panes, ui, controls) /\ UNCHANGED <<panes, ui, controls, reading, inputs>>
  BY <1>1, MetPanes DEF Inv, pump_client_attach_seed
<1>3. WindowOpen(s) => Len(s.outbox) < max_backlog
  <2>0. s.outbox \in Seq(Outgoing(Met))
    BY <1>2, ConnFields
  <2>1. PICK n \in Nat : n = Len(s.outbox)
    BY <2>0
  <2>2. SEED_SEND_WINDOW \in Nat /\ max_backlog \in Nat /\ SEED_SEND_WINDOW <= max_backlog
    BY SizesAssumption
  <2> QED
    BY <2>1, <2>2 DEF WindowOpen
<1>4. ConnOK(conn', Met) /\ (conn'.attached => Followed(conn', panes, ui, controls))
  <2>1. CASE /\ s.seed.replay # NoReplay /\ s.seed.replay.reset /\ WindowOpen(s)
             /\ conn' = Settled(pump_replay_reset(s))
    <3>1. ConnOK(conn', Met) /\ Same(s, conn')
      BY <1>2, <1>3, <2>1, ResetPumped
    <3> QED
      BY <1>2, <3>1, SameFollowed
  <2>2. CASE /\ s.seed.replay # NoReplay /\ ~ s.seed.replay.reset /\ WindowOpen(s)
             /\ conn' = Settled(pump_replay_chunk(s))
    <3>1. ConnOK(conn', Met) /\ Same(s, conn')
      BY <1>2, <1>3, <2>2, ChunkPumped
    <3> QED
      BY <1>2, <3>1, SameFollowed
  <2>3. CASE /\ s.seed.replay = NoReplay /\ s.seed.pending # <<>> /\ conn' = Settled(begin_pane_replay(s))
    BY <1>1, <1>2, <2>3, BeginPumped
  <2>4. CASE /\ s.seed.replay = NoReplay /\ s.seed.catch_up # <<>> /\ WindowOpen(s)
             /\ conn' = Settled(pump_seed_catch_up(s))
    <3>1. ConnOK(conn', Met) /\ Same(s, conn')
      BY <1>2, <1>3, <2>4, DrainPumped
    <3> QED
      BY <1>2, <3>1, SameFollowed
  <2>5. CASE s.seed.replay = NoReplay /\ conn' = Settled(s)
    <3>1. conn' = complete_attach_baseline(s)
      BY <1>2, <2>5, SettledStill
    <3>2. ConnOK(conn', Met) /\ Same(s, conn')
      BY <1>2, <3>1, Completed
    <3> QED
      BY <1>2, <3>2, SameFollowed
  <2> QED
    BY <1>1, <2>1, <2>2, <2>3, <2>4, <2>5 DEF pump_client_attach_seed
<1>5. Met' = Met
  BY <1>2 DEF Met
<1>6. ConnOK(conn, Met)'
  BY <1>4, <1>5
<1>7. (conn.attached => Followed(conn, panes, ui, controls))'
  BY <1>2, <1>4
<1> QED
  BY <1>2, <1>6, <1>7 DEF Inv

----------------------------------------------------------------------------
(* Barriers go up and come down                                            *)

LEMMA NewSeed ==
  ASSUME NEW D \in SUBSET Pane, NEW stale \in SUBSET D, Live \subseteq D, NEW kind \in {"Attach", "Resync"},
         NEW b, b = Seed(kind, stale)
  PROVE  /\ SeedOK(b, D) /\ b \in SeedTypes(D) /\ b.kind = kind /\ b.catch_up = <<>> /\ b.replay = NoReplay
         /\ b.outdated = {} /\ ~ b.baseline_queued
         /\ \A c \in Pane : b.manifest[c] = "Pending" <=> c \in stale
         /\ \A c \in Pane : b.manifest[c] # "absent" => c \in stale \cup Live
<1>1. PICK m : m = [p \in Pane |-> IF p \in stale THEN "Pending"
                                   ELSE IF kind = "Resync" /\ p \in Live THEN "CatchingUp" ELSE "absent"]
  OBVIOUS
<1>2. PICK l : l = Ascending(stale)
  OBVIOUS
<1>3. b = [NoSeed EXCEPT !.kind = kind, !.manifest = m, !.pending = l]
  BY <1>1, <1>2 DEF Seed
<1>4. /\ b.kind = kind /\ b.manifest = m /\ b.pending = l /\ b.replay = NoReplay
      /\ b.catch_up = <<>> /\ b.baseline_queued = FALSE /\ b.outdated = {}
      /\ b = [kind |-> b.kind, manifest |-> b.manifest, pending |-> b.pending,
              replay |-> b.replay, catch_up |-> b.catch_up,
              baseline_queued |-> b.baseline_queued, outdated |-> b.outdated]
  BY <1>3 DEF NoSeed
<1>5. stale \in SUBSET Pane
  OBVIOUS
<1>6. l \in Seq(stale) /\ Distinct(l) /\ \A p \in stale : Has(l, p)
  BY <1>2, <1>5, AscendingIs DEF Distinct, Has
<1>7. l \in Seq(D) /\ \A i \in 1..Len(l) : l[i] \in stale
  BY <1>6
<1>8. /\ m \in [Pane -> {"absent", "Pending", "Replaying", "CatchingUp", "Live"}]
      /\ \A c \in Pane : m[c] = "Pending" <=> c \in stale
      /\ \A c \in Pane : m[c] # "absent" => c \in stale \cup Live
  BY <1>1
<1>9. b \in SeedTypes(D)
  <2>1. <<>> \in Seq(Delayed(D)) /\ {} \in SUBSET D
    OBVIOUS
  <2> QED
    BY <1>4, <1>7, <1>8, <2>1 DEF SeedTypes
<1>10. Listed(b)
  <2>1. \A p \in Pane : m[p] = "Pending" <=> Has(l, p)
    BY <1>6, <1>7, <1>8 DEF Has
  <2> QED
    BY <1>4, <1>6, <2>1 DEF Listed, Distinct, Has
<1>11. Orderly(b)
  <2>1. Len(b.catch_up) = 0
    BY <1>4
  <2> QED
    BY <2>1 DEF Orderly, Idle
<1>12. SeedOK(b, D)
  BY <1>4, <1>8, <1>9, <1>10, <1>11 DEF SeedOK
<1> QED
  BY <1>4, <1>8, <1>9, <1>12

\* A seed that replays nothing and holds nothing back, and what it knows.
Empty(sd) == sd.catch_up = <<>> /\ sd.replay = NoReplay

\* One such seed takes the place of another.
LEMMA EmptyLanes ==
  ASSUME NEW D \in SUBSET Pane, NEW out \in Seq(Outgoing(D)), NEW a, NEW b, Empty(a), Empty(b),
         NEW c \in Lanes, NEW x, NEW z \in Screens, Lane(out, a, c, x, z),
         c \in Pane => (b.manifest[c] # "absent" => z.known)
  PROVE  Lane(out, b, c, x, z)
<1>1. PICK y \in Screens : Chain(c, x, out, y) /\ Chain(c, Junction(a, c, y), a.catch_up, z)
  BY DEF Lane
<1>2. a.replay.pane = None /\ b.replay.pane = None /\ a.catch_up = <<>> /\ b.catch_up = <<>>
  BY DEF Empty, NoReplay
<1>3. Junction(a, c, y) = y /\ Junction(b, c, y) = y
  BY <1>2 DEF Junction
<1>4. z = y /\ Chain(c, y, <<>>, y)
  <2>1. Chain(c, y, <<>>, z)
    BY <1>1, <1>2, <1>3
  <2>2. Chain(c, y, <<>>, y) /\ \A v : Chain(c, y, <<>>, v) => v = y
    BY <1>1, ChainNil
  <2> QED
    BY <2>1, <2>2
<1>5. c \in Pane => OnReplay(b, c, y)
  BY <1>2, <1>4, PaneIsPane DEF OnReplay
<1> QED
  BY <1>1, <1>2, <1>3, <1>4, <1>5 DEF Lane

\* The panes are marked as such in another way.
Renewed(s, t, pn) ==
  /\ t.outbox = s.outbox /\ Empty(s.seed) /\ Empty(t.seed)
  /\ \A c \in Pane : /\ t.seed.manifest[c] # "absent" => pn[c].state # "none"
                     /\ pn[c].state # "exited" /\ ~ Stale(t, c) => ~ Stale(s, c)

LEMMA RenewedFollowed ==
  ASSUME NEW D \in SUBSET Pane, NEW s, ConnOK(s, D), NEW t, NEW pn, Renewed(s, t, pn), NEW u, NEW cs,
         Followed(s, pn, u, cs)
  PROVE  Followed(t, pn, u, cs)
<1>1. s.outbox \in Seq(Outgoing(D)) /\ t.outbox = s.outbox /\ Empty(s.seed) /\ Empty(t.seed)
  BY ConnFields DEF Renewed
<1>2. ASSUME NEW c \in Pane
      PROVE  \E z \in Screens : Lane(t.outbox, t.seed, c, u[c], z) /\ Ends(t, c, pn[c], z)
  <2>1. PICK z \in Screens : Lane(s.outbox, s.seed, c, u[c], z) /\ Ends(s, c, pn[c], z)
    BY DEF Followed
  <2>2. Ends(t, c, pn[c], z)
    BY <2>1 DEF Ends, Renewed
  <2>3. t.seed.manifest[c] # "absent" => z.known
    BY <2>1 DEF Ends, Renewed
  <2>4. c \in Lanes
    BY DEF Lanes
  <2>5. Lane(t.outbox, t.seed, c, u[c], z)
    BY <1>1, <2>1, <2>3, <2>4, EmptyLanes
  <2> QED
    BY <2>2, <2>5
<1>3. \E z \in Screens : Lane(t.outbox, t.seed, None, Counter(cs.applied), z) /\ z.ver = cs.sent
  <2>1. PICK z \in Screens : Lane(s.outbox, s.seed, None, Counter(cs.applied), z) /\ z.ver = cs.sent
    BY DEF Followed
  <2>2. None \in Lanes /\ None \notin Pane
    BY PaneIsPane DEF Lanes
  <2>3. Lane(t.outbox, t.seed, None, Counter(cs.applied), z)
    BY <1>1, <2>1, <2>2, EmptyLanes
  <2> QED
    BY <2>1, <2>3
<1> QED
  BY <1>2, <1>3 DEF Followed

LEMMA ResyncStep ==
  ASSUME Inv, start_client_resyncs
  PROVE  Inv'
<1>1. PICK s, t : s = conn /\ t = conn'
  OBVIOUS
<1>2. /\ ConnOK(s, Met) /\ Met \in SUBSET Pane /\ s.attached /\ s.seed.kind = "none"
      /\ Followed(s, panes, ui, controls) /\ UNCHANGED <<panes, ui, controls, reading, inputs>>
  BY <1>1, MetPanes DEF Inv, start_client_resyncs
<1>3. PICK stale : stale = s.resync_pending \cap Live
  OBVIOUS
<1>4. PICK b : b = IF stale = {} THEN s.seed ELSE Seed("Resync", stale)
  OBVIOUS
<1>5. t = [s EXCEPT !.resync_pending = {}, !.seed = b]
  BY <1>1, <1>3, <1>4 DEF start_client_resyncs
<1>6. /\ s.outbox \in Seq(Outgoing(Met)) /\ s.seed \in SeedTypes(Met) /\ s.front_started \in BOOLEAN
      /\ s.resync_pending \in SUBSET Met /\ s.attached \in BOOLEAN /\ SeedOK(s.seed, Met) /\ Bounded(s)
      /\ s.front_started => s.outbox # <<>>
      /\ s = [outbox |-> s.outbox, front_started |-> s.front_started, seed |-> s.seed,
              resync_pending |-> s.resync_pending, attached |-> s.attached]
  BY <1>2, ConnFields
<1>7. /\ t.outbox = s.outbox /\ t.front_started = s.front_started /\ t.attached = s.attached
      /\ t.resync_pending = {} /\ t.seed = b
      /\ t = [outbox |-> t.outbox, front_started |-> t.front_started, seed |-> t.seed,
              resync_pending |-> t.resync_pending, attached |-> t.attached]
  BY <1>5, <1>6
<1>8. Live \subseteq Met /\ stale \in SUBSET Met
  BY <1>3, <1>6 DEF Live, Met
<1>9. s.seed.catch_up = <<>> /\ s.seed.replay = NoReplay /\ s.seed.outdated = {}
      /\ \A c \in Pane : s.seed.manifest[c] = "absent"
  BY <1>2, <1>6 DEF SeedOK, NoSeed
<1>10. /\ SeedOK(b, Met) /\ b \in SeedTypes(Met) /\ b.catch_up = <<>> /\ b.replay = NoReplay /\ b.outdated = {}
       /\ \A c \in Pane : b.manifest[c] = "Pending" <=> c \in stale
       /\ \A c \in Pane : b.manifest[c] # "absent" => c \in stale \cup Live
  <2>1. CASE stale = {}
    <3>1. b = s.seed
      BY <1>4, <2>1
    <3> QED
      BY <1>6, <1>9, <2>1, <3>1
  <2>2. CASE stale # {}
    <3>1. b = Seed("Resync", stale)
      BY <1>4, <2>2
    <3>2. PICK kind \in {"Attach", "Resync"} : kind = "Resync"
      OBVIOUS
    <3>3. b = Seed(kind, stale)
      BY <3>1, <3>2
    <3> QED
      BY <1>2, <1>8, <3>3, NewSeed
  <2> QED
    BY <2>1, <2>2
<1>11. t \in [outbox : Seq(Outgoing(Met)), front_started : BOOLEAN, seed : SeedTypes(Met),
              resync_pending : SUBSET Met, attached : BOOLEAN]
  BY <1>6, <1>7, <1>10
<1>12. Bounded(t)
  BY <1>6, <1>7, <1>9, <1>10 DEF Bounded
<1>13. ConnOK(t, Met)
  BY <1>6, <1>7, <1>10, <1>11, <1>12 DEF ConnOK
<1>14. Renewed(s, t, panes)
  <2>1. Empty(s.seed) /\ Empty(t.seed)
    BY <1>7, <1>9, <1>10 DEF Empty
  <2>2. ASSUME NEW c \in Pane
        PROVE  /\ t.seed.manifest[c] # "absent" => panes[c].state # "none"
               /\ panes[c].state # "exited" /\ ~ Stale(t, c) => ~ Stale(s, c)
    <3>1. t.seed.manifest[c] # "absent" => panes[c].state # "none"
      BY <1>3, <1>7, <1>10 DEF Live
    <3>2. ASSUME panes[c].state # "exited", Stale(s, c)
          PROVE  Stale(t, c)
      <4>1. c \in s.resync_pending
        BY <1>9, <3>2 DEF Stale
      <4>2. panes[c].state = "live"
        BY <1>6, <3>2, <4>1 DEF Met, Inv
      <4>3. c \in stale
        BY <1>3, <4>1, <4>2 DEF Live
      <4> QED
        BY <1>7, <1>10, <4>3 DEF Stale
    <3> QED
      BY <3>1, <3>2
  <2> QED
    BY <1>7, <2>1, <2>2 DEF Renewed
<1>15. Followed(t, panes, ui, controls)
  BY <1>2, <1>14, RenewedFollowed
<1>16. Met' = Met
  BY <1>2 DEF Met
<1>17. ConnOK(conn, Met)'
  BY <1>1, <1>13, <1>16
<1>18. (conn.attached => Followed(conn, panes, ui, controls))'
  BY <1>1, <1>2, <1>15
<1> QED
  BY <1>2, <1>17, <1>18 DEF Inv

LEMMA NoSeedOK ==
  ASSUME NEW D \in SUBSET Pane
  PROVE  SeedOK(NoSeed, D) /\ NoSeed \in SeedTypes(D) /\ Empty(NoSeed) /\ NoSeed.kind = "none" /\ NoSeed.catch_up = <<>>
         /\ NoSeed.outdated = {} /\ \A c \in Pane : NoSeed.manifest[c] = "absent"
<1>1. PICK b : b = NoSeed
  OBVIOUS
<1>2. /\ b.kind = "none" /\ b.manifest = [p \in Pane |-> "absent"] /\ b.pending = <<>> /\ b.replay = NoReplay
      /\ b.catch_up = <<>> /\ b.baseline_queued = FALSE /\ b.outdated = {}
      /\ b = [kind |-> b.kind, manifest |-> b.manifest, pending |-> b.pending,
              replay |-> b.replay, catch_up |-> b.catch_up,
              baseline_queued |-> b.baseline_queued, outdated |-> b.outdated]
  BY <1>1 DEF NoSeed
<1>3. /\ b.manifest \in [Pane -> {"absent", "Pending", "Replaying", "CatchingUp", "Live"}]
      /\ \A c \in Pane : b.manifest[c] = "absent"
  BY <1>2
<1>4. <<>> \in Seq(D) /\ <<>> \in Seq(Delayed(D)) /\ {} \in SUBSET D /\ Len(<<>>) = 0
  OBVIOUS
<1>5. b \in SeedTypes(D)
  BY <1>2, <1>3, <1>4 DEF SeedTypes
<1>6. Listed(b) /\ Orderly(b)
  BY <1>2, <1>3, <1>4 DEF Listed, Orderly, Idle
<1>7. SeedOK(b, D)
  BY <1>1, <1>2, <1>3, <1>5, <1>6 DEF SeedOK
<1> QED
  BY <1>1, <1>2, <1>3, <1>5, <1>7 DEF Empty

LEMMA TakenOK ==
  ASSUME NEW D \in SUBSET Pane, NEW s, ConnOK(s, D), NEW t, t = take_completed_seed(s)
  PROVE  /\ ConnOK(t, D) /\ t.attached = s.attached
         /\ \A pn, u, cs : Followed(s, pn, u, cs) => Followed(t, pn, u, cs)
<1>1. CASE s.seed.kind # "none" /\ s.seed.baseline_queued /\ ~ SeedQueued(s.outbox)
  <2>1. t = [s EXCEPT !.seed = NoSeed]
    BY <1>1 DEF take_completed_seed
  <2>2. /\ s.outbox \in Seq(Outgoing(D)) /\ s.seed \in SeedTypes(D) /\ s.front_started \in BOOLEAN
        /\ s.resync_pending \in SUBSET D /\ s.attached \in BOOLEAN /\ SeedOK(s.seed, D) /\ Bounded(s)
        /\ s.front_started => s.outbox # <<>>
        /\ s = [outbox |-> s.outbox, front_started |-> s.front_started, seed |-> s.seed,
                resync_pending |-> s.resync_pending, attached |-> s.attached]
    BY ConnFields
  <2>3. PICK b : b = NoSeed
    OBVIOUS
  <2>4. /\ SeedOK(b, D) /\ b \in SeedTypes(D) /\ Empty(b) /\ b.kind = "none" /\ b.catch_up = <<>>
        /\ b.outdated = {} /\ \A c \in Pane : b.manifest[c] = "absent"
    BY <2>3, NoSeedOK
  <2>5. /\ t.outbox = s.outbox /\ t.front_started = s.front_started /\ t.attached = s.attached
        /\ t.resync_pending = s.resync_pending /\ t.seed = b
        /\ t = [outbox |-> t.outbox, front_started |-> t.front_started, seed |-> t.seed,
                resync_pending |-> t.resync_pending, attached |-> t.attached]
    BY <2>1, <2>2, <2>3
  <2>6. t \in [outbox : Seq(Outgoing(D)), front_started : BOOLEAN, seed : SeedTypes(D),
               resync_pending : SUBSET D, attached : BOOLEAN]
    BY <2>2, <2>4, <2>5
  <2>7. ~ replay_barrier_up(t) /\ ~ replay_barrier_up(s)
    BY <1>1, <2>4, <2>5 DEF replay_barrier_up
  <2>8. s.seed.catch_up = <<>> /\ s.seed.replay = NoReplay /\ s.seed.outdated = {}
        /\ \A c \in Pane : s.seed.manifest[c] # "Pending"
    BY <2>7, BarrierDown
  <2>9. Bounded(t)
    BY <2>2, <2>4, <2>5, <2>8 DEF Bounded
  <2>10. ConnOK(t, D)
    BY <2>2, <2>4, <2>5, <2>6, <2>7, <2>9 DEF ConnOK
  <2>11. ASSUME NEW pn, NEW u, NEW cs, Followed(s, pn, u, cs)
         PROVE  Followed(t, pn, u, cs)
    <3>1. Empty(s.seed) /\ Empty(t.seed)
      BY <2>4, <2>5, <2>8 DEF Empty
    <3>2. \A c \in Pane : Stale(s, c) <=> Stale(t, c)
      BY <2>4, <2>5, <2>8 DEF Stale
    <3>3. Renewed(s, t, pn)
      BY <2>4, <2>5, <3>1, <3>2 DEF Renewed
    <3> QED
      BY <2>11, <3>3, RenewedFollowed
  <2> QED
    BY <2>5, <2>10, <2>11
<1>2. CASE ~ (s.seed.kind # "none" /\ s.seed.baseline_queued /\ ~ SeedQueued(s.outbox))
  <2>1. t = s
    BY <1>2 DEF take_completed_seed
  <2> QED
    BY <2>1
<1> QED
  BY <1>1, <1>2

\* The fields after the front frame has been written, and after it has been begun.
WrittenTo(s, t, q, started) ==
  /\ t.outbox = q /\ t.seed = s.seed /\ t.resync_pending = s.resync_pending
  /\ t.attached = s.attached /\ t.front_started = started
  /\ t = [outbox |-> t.outbox, front_started |-> t.front_started, seed |-> t.seed,
          resync_pending |-> t.resync_pending, attached |-> t.attached]

LEMMA WrittenOK ==
  ASSUME NEW D \in SUBSET Pane, NEW s, ConnOK(s, D), s.outbox # <<>>, NEW t, NEW q, NEW started \in BOOLEAN,
         WrittenTo(s, t, q, started), q = s.outbox \/ (q = Tail(s.outbox) /\ ~ started)
  PROVE  ConnOK(t, D)
<1>1. /\ s.outbox \in Seq(Outgoing(D)) /\ s.seed \in SeedTypes(D) /\ s.front_started \in BOOLEAN
      /\ s.resync_pending \in SUBSET D /\ s.attached \in BOOLEAN /\ SeedOK(s.seed, D) /\ Bounded(s)
      /\ replay_barrier_up(s) => s.resync_pending = {}
  BY ConnFields
<1>2. /\ t.outbox = q /\ t.seed = s.seed /\ t.resync_pending = s.resync_pending
      /\ t.attached = s.attached /\ t.front_started = started
      /\ t = [outbox |-> t.outbox, front_started |-> t.front_started, seed |-> t.seed,
              resync_pending |-> t.resync_pending, attached |-> t.attached]
  BY DEF WrittenTo
<1>3. PICK o \in Seq(Outgoing(D)) : o = s.outbox /\ o # <<>>
  BY <1>1
<1>4. PICK n \in Nat : n = Len(o)
  OBVIOUS
<1>5. Tail(o) \in Seq(Outgoing(D)) /\ Len(Tail(o)) = n - 1
  BY <1>3, <1>4
<1>6. Count(Tail(o)) <= Count(o) /\ Count(o) \in Nat /\ Count(Tail(o)) \in Nat
  BY <1>3, <1>5, CountTail, CountType
<1>7. q \in Seq(Outgoing(D)) /\ Len(q) <= n /\ Len(q) \in Nat /\ Count(q) <= Count(o) /\ Count(q) \in Nat
  <2>1. CASE q = o
    BY <1>4, <1>6, <2>1
  <2>2. CASE q = Tail(o)
    BY <1>4, <1>5, <1>6, <2>2
  <2> QED
    BY <1>3, <2>1, <2>2
<1>8. Bounded(t)
  <2>1. n <= max_backlog /\ max_backlog \in Nat
    BY <1>1, <1>3, <1>4, SizesAssumption DEF Bounded
  <2>2. PICK k : k = Len(s.seed.catch_up)
    OBVIOUS
  <2>3. s.seed.catch_up \in Seq(Delayed(D))
    BY <1>1, SeedFields
  <2>4. k \in Nat /\ k + Count(o) <= SEED_CATCH_UP_LIMIT /\ SEED_CATCH_UP_LIMIT \in Nat
    BY <1>1, <1>3, <2>2, <2>3, SizesAssumption DEF Bounded
  <2>5. Len(q) <= max_backlog
    BY <1>4, <1>7, <2>1
  <2>6. k + Count(q) <= SEED_CATCH_UP_LIMIT
    BY <1>6, <1>7, <2>4
  <2> QED
    BY <1>2, <2>2, <2>5, <2>6 DEF Bounded
<1>9. t \in [outbox : Seq(Outgoing(D)), front_started : BOOLEAN, seed : SeedTypes(D),
             resync_pending : SUBSET D, attached : BOOLEAN]
  BY <1>1, <1>2, <1>7
<1>10. t.front_started => t.outbox # <<>>
  BY <1>2, <1>3
<1>11. replay_barrier_up(t) => t.resync_pending = {}
  BY <1>1, <1>2 DEF replay_barrier_up
<1> QED
  BY <1>1, <1>2, <1>8, <1>9, <1>10, <1>11 DEF ConnOK

LEMMA FrontLane ==
  ASSUME NEW D \in SUBSET Pane, NEW out \in Seq(Outgoing(D)), out # <<>>, NEW sd, NEW c \in Lanes, NEW x, NEW z,
         Lane(out, sd, c, x, z)
  PROVE  \E w \in Screens : Goes(c, x, Head(out), w) /\ Lane(Tail(out), sd, c, w, z)
<1>1. PICK y \in Screens : /\ Chain(c, x, out, y) /\ Chain(c, Junction(sd, c, y), sd.catch_up, z)
                           /\ c \in Pane => OnReplay(sd, c, y)
  BY DEF Lane
<1>2. out \in Seq(Frames(Pane))
  BY FramesWiden
<1>3. PICK w \in Screens : Goes(c, x, Head(out), w) /\ Chain(c, w, Tail(out), y)
  BY <1>1, <1>2, ChainTail
<1>4. Lane(Tail(out), sd, c, w, z)
  BY <1>1, <1>3 DEF Lane
<1> QED
  BY <1>3, <1>4

\* The client shows the frame, or applies it.
LEMMA WrittenStep ==
  ASSUME Inv, conn.attached, Written, UNCHANGED <<panes, reading, inputs>>
  PROVE  Inv'
<1>1. PICK s, f, q : s = conn /\ f = Head(s.outbox) /\ q = Tail(s.outbox)
  OBVIOUS
<1>2. /\ ConnOK(s, Met) /\ Met \in SUBSET Pane /\ s.attached /\ s.outbox # <<>>
      /\ Followed(s, panes, ui, controls)
  BY <1>1, MetPanes DEF Inv, Written
<1>3. PICK v : v = [s EXCEPT !.outbox = q, !.front_started = FALSE]
  OBVIOUS
<1>4. /\ conn' = take_completed_seed(v) /\ ui' = Shown(ui, f)
      /\ controls' = IF f.type # "control" THEN controls
                     ELSE [controls EXCEPT !.applied = f.ver,
                                           !.lost = controls.lost \/ After(controls.applied) # f.ver]
  BY <1>1, <1>3 DEF Written
<1>5. s.outbox \in Seq(Outgoing(Met))
      /\ s = [outbox |-> s.outbox, front_started |-> s.front_started, seed |-> s.seed,
              resync_pending |-> s.resync_pending, attached |-> s.attached]
  BY <1>2, ConnFields
<1>6. WrittenTo(s, v, q, FALSE)
  BY <1>3, <1>5 DEF WrittenTo
<1>7. ConnOK(v, Met)
  BY <1>1, <1>2, <1>6, WrittenOK
<1>8. f \in Outgoing(Met) /\ f \in Frames(Pane) /\ f.pane \in Pane \cup {None} /\ f.ver \in 0..Versions
  <2>1. f \in Outgoing(Met)
    BY <1>1, <1>2, <1>5
  <2>2. s.outbox \in Seq(Frames(Pane))
    BY <1>2, <1>5, FramesWiden
  <2>3. f \in Frames(Pane)
    BY <1>1, <1>2, <2>2
  <2> QED
    BY <2>1, <2>3 DEF Frames
<1>9. /\ v.outbox = q /\ v.seed = s.seed /\ v.attached = s.attached
      /\ \A c \in Pane : Stale(s, c) <=> Stale(v, c)
  BY <1>6 DEF WrittenTo, Stale
<1>10. ui \in [Pane -> Screens] /\ controls \in [sent : 0..Versions, applied : 0..Versions, lost : {FALSE}]
  BY DEF Inv
<1>11. ASSUME NEW c \in Pane
       PROVE  ui'[c] \in Screens /\ \E z \in Screens : Lane(v.outbox, v.seed, c, ui'[c], z) /\ Ends(v, c, panes[c], z)
  <2>1. PICK z \in Screens : Lane(s.outbox, s.seed, c, ui[c], z) /\ Ends(s, c, panes[c], z)
    BY <1>2 DEF Followed
  <2>2. c \in Lanes /\ c # None
    BY PaneIsPane DEF Lanes
  <2>3. PICK w \in Screens : Goes(c, ui[c], f, w) /\ Lane(q, s.seed, c, w, z)
    BY <1>1, <1>2, <1>5, <2>1, <2>2, FrontLane
  <2>4. ui'[c] = w
    <3>1. CASE f.pane = c
      <4>1. w = Drawn(ui[c], f)
        BY <2>2, <2>3, <3>1 DEF Goes, InLane, Effect
      <4>2. ui' = [ui EXCEPT ![c] = Drawn(ui[c], f)]
        BY <1>4, <2>2, <3>1 DEF Shown
      <4> QED
        BY <1>10, <4>1, <4>2
    <3>2. CASE f.pane # c
      <4>1. w = ui[c]
        BY <2>2, <2>3, <3>2 DEF Goes, InLane
      <4>2. ui'[c] = ui[c]
        BY <1>4, <1>10, <3>2 DEF Shown
      <4> QED
        BY <4>1, <4>2
    <3> QED
      BY <3>1, <3>2
  <2>5. Ends(v, c, panes[c], z)
    BY <1>9, <2>1 DEF Ends
  <2> QED
    BY <1>9, <2>3, <2>4, <2>5
<1>12. /\ controls' \in [sent : 0..Versions, applied : 0..Versions, lost : {FALSE}]
       /\ \E z \in Screens : Lane(v.outbox, v.seed, None, Counter(controls'.applied), z) /\ z.ver = controls'.sent
  <2>1. PICK z \in Screens : Lane(s.outbox, s.seed, None, Counter(controls.applied), z) /\ z.ver = controls.sent
    BY <1>2 DEF Followed
  <2>2. None \in Lanes
    BY DEF Lanes
  <2>3. PICK w \in Screens : Goes(None, Counter(controls.applied), f, w) /\ Lane(q, s.seed, None, w, z)
    BY <1>1, <1>2, <1>5, <2>1, <2>2, FrontLane
  <2>4. CASE f.type # "control"
    <3>1. w = Counter(controls.applied) /\ controls' = controls
      BY <1>4, <2>3, <2>4 DEF Goes, InLane
    <3> QED
      BY <1>9, <1>10, <2>1, <2>3, <3>1
  <2>5. CASE f.type = "control"
    <3>1. After(controls.applied) = f.ver /\ w = [Counter(controls.applied) EXCEPT !.ver = f.ver]
      BY <2>3, <2>5 DEF Goes, InLane, Meets, Effect, Counter
    <3>2. w = Counter(f.ver)
      BY <3>1 DEF Counter
    <3>3. controls' = [controls EXCEPT !.applied = f.ver, !.lost = controls.lost \/ After(controls.applied) # f.ver]
      BY <1>4, <2>5
    <3>4. controls'.applied = f.ver /\ controls'.sent = controls.sent
          /\ controls' \in [sent : 0..Versions, applied : 0..Versions, lost : {FALSE}]
      BY <1>8, <1>10, <3>1, <3>3
    <3> QED
      BY <1>9, <2>1, <2>3, <3>2, <3>4
  <2> QED
    BY <2>4, <2>5
<1>13. ui' \in [Pane -> Screens]
  <2>1. ui' = [c \in Pane |-> ui'[c]]
    BY <1>4, <1>10 DEF Shown
  <2> QED
    BY <1>11, <2>1
<1>14. Followed(v, panes, ui', controls')
  BY <1>11, <1>12 DEF Followed
<1>15. ConnOK(conn', Met) /\ Followed(conn', panes, ui', controls')
  <2>1. PICK t, u, ds : t = conn' /\ u = ui' /\ ds = controls'
    OBVIOUS
  <2>2. t = take_completed_seed(v) /\ Followed(v, panes, u, ds)
    BY <1>4, <1>14, <2>1
  <2>3. ConnOK(t, Met) /\ Followed(t, panes, u, ds)
    BY <1>2, <1>7, <2>2, TakenOK
  <2> QED
    BY <2>1, <2>3
<1>16. Met' = Met /\ panes' = panes /\ reading' = reading /\ inputs' = inputs
  BY DEF Met
<1>17. ConnOK(conn, Met)'
  BY <1>15, <1>16
<1>18. (conn.attached => Followed(conn, panes, ui, controls))'
  BY <1>15, <1>16
<1> QED
  BY <1>12, <1>13, <1>16, <1>17, <1>18 DEF Inv

LEMMA FlushStep ==
  ASSUME Inv, flush_client_outbox
  PROVE  Inv'
<1>1. UNCHANGED <<panes, reading, inputs>> /\ conn.attached
  BY DEF flush_client_outbox
<1>2. CASE Written
  BY <1>1, <1>2, WrittenStep
<1>3. ASSUME NEW v, ConnOK(v, Met), Followed(v, panes, ui, controls), conn' = take_completed_seed(v),
             UNCHANGED <<ui, controls>>
      PROVE  Inv'
  <2>1. Met \in SUBSET Pane
    BY MetPanes
  <2>2. ConnOK(conn', Met) /\ Followed(conn', panes, ui, controls)
    BY <1>3, <2>1, TakenOK
  <2>3. Met' = Met
    BY <1>1 DEF Met
  <2>4. ConnOK(conn, Met)'
    BY <2>2, <2>3
  <2>5. (conn.attached => Followed(conn, panes, ui, controls))'
    BY <1>1, <1>3, <2>2
  <2> QED
    BY <1>1, <1>3, <2>4, <2>5 DEF Inv
<1>4. CASE /\ conn.outbox # <<>> /\ conn' = take_completed_seed([conn EXCEPT !.front_started = TRUE])
           /\ UNCHANGED <<ui, controls>>
  <2>1. PICK s : s = conn
    OBVIOUS
  <2>2. ConnOK(s, Met) /\ Met \in SUBSET Pane /\ Followed(s, panes, ui, controls) /\ s.outbox # <<>>
    BY <1>1, <1>4, <2>1, MetPanes DEF Inv
  <2>3. PICK v : v = [s EXCEPT !.front_started = TRUE]
    OBVIOUS
  <2>4. s = [outbox |-> s.outbox, front_started |-> s.front_started, seed |-> s.seed,
             resync_pending |-> s.resync_pending, attached |-> s.attached]
    BY <2>2, ConnFields
  <2>5. WrittenTo(s, v, s.outbox, TRUE)
    BY <2>3, <2>4 DEF WrittenTo
  <2>6. ConnOK(v, Met)
    BY <2>2, <2>5, WrittenOK
  <2>7. Same(s, v)
    BY <2>5 DEF WrittenTo, Same, Stale
  <2>8. Followed(v, panes, ui, controls)
    BY <2>2, <2>7, SameFollowed
  <2> QED
    BY <1>3, <1>4, <2>1, <2>3, <2>6, <2>8
<1>5. CASE conn' = take_completed_seed(conn) /\ UNCHANGED <<ui, controls>>
  <2>1. ConnOK(conn, Met) /\ Followed(conn, panes, ui, controls)
    BY <1>1 DEF Inv
  <2> QED
    BY <1>3, <1>5, <2>1
<1> QED
  BY <1>2, <1>4, <1>5 DEF flush_client_outbox

----------------------------------------------------------------------------
(* The invariant holds                                                     *)

LEMMA WedgeStep ==
  ASSUME Inv, Wedge
  PROVE  Inv'
<1>1. UNCHANGED <<panes, conn, ui, controls>> /\ reading' = FALSE /\ inputs' = inputs + 1 /\ inputs < MaxInputs
  BY DEF Wedge, Input
<1>2. inputs' \in 0..MaxInputs
  BY <1>1, SizesAssumption DEF Inv
<1>3. Met' = Met
  BY <1>1 DEF Met
<1>4. ConnOK(conn, Met)'
  BY <1>1, <1>3 DEF Inv
<1>5. (conn.attached => Followed(conn, panes, ui, controls))'
  BY <1>1 DEF Inv
<1> QED
  BY <1>1, <1>2, <1>4, <1>5 DEF Inv

LEMMA HeartbeatStep ==
  ASSUME Inv, heartbeat
  PROVE  Inv'
<1>1. UNCHANGED <<panes, ui, controls, reading, inputs>> /\ conn' = Overflow(conn)
  BY DEF heartbeat
<1>2. ConnOK(conn', Met) /\ ~ conn'.attached
  BY <1>1, MetPanes, OverflowOK DEF Inv
<1>3. Met' = Met
  BY <1>1 DEF Met
<1>4. ConnOK(conn, Met)'
  BY <1>2, <1>3
<1> QED
  BY <1>1, <1>2, <1>4 DEF Inv

LEMMA StutterStep ==
  ASSUME Inv, UNCHANGED vars
  PROVE  Inv'
<1>1. UNCHANGED <<panes, conn, ui, controls, reading, inputs>>
  BY DEF vars
<1>2. Met' = Met
  BY <1>1 DEF Met
<1>3. ConnOK(conn, Met)'
  BY <1>1, <1>2 DEF Inv
<1>4. (conn.attached => Followed(conn, panes, ui, controls))'
  BY <1>1 DEF Inv
<1> QED
  BY <1>1, <1>3, <1>4 DEF Inv

LEMMA InvStep ==
  ASSUME Inv, [Next]_vars
  PROVE  Inv'
<1>1. ASSUME NEW p \in Pane, Output(p)
      PROVE  Inv'
  BY <1>1, OutputStep
<1>2. ASSUME NEW p \in Pane, Resize(p)
      PROVE  Inv'
  BY <1>2, ResizeStep
<1>3. ASSUME NEW p \in Pane, Spawn(p)
      PROVE  Inv'
  BY <1>3, SpawnStep
<1>4. ASSUME NEW p \in Pane, Exit(p)
      PROVE  Inv'
  BY <1>4, ExitStep
<1>5. CASE Broadcast
  BY <1>5, BroadcastStep
<1>6. CASE start_client_resyncs
  BY <1>6, ResyncStep
<1>7. CASE pump_client_attach_seed
  BY <1>7, PumpStep
<1>8. CASE flush_client_outbox
  BY <1>8, FlushStep
<1>9. CASE Wedge
  BY <1>9, WedgeStep
<1>10. CASE heartbeat
  BY <1>10, HeartbeatStep
<1>11. CASE UNCHANGED vars
  BY <1>11, StutterStep
<1> QED
  BY <1>1, <1>2, <1>3, <1>4, <1>5, <1>6, <1>7, <1>8, <1>9, <1>10, <1>11 DEF Next

LEMMA InvInit ==
  ASSUME Init
  PROVE  Inv
<1>1. 0 \in 0..Versions /\ 0 \in 0..Chunks /\ 0 \in 0..MaxInputs /\ 1 \in 1..2 /\ \A v \in 0..1 : v \in 0..Versions
  BY SizesAssumption
<1>2. /\ panes \in [Pane -> [state : {"none", "live"}, ver : 0..1, geom : {1}]]
      /\ \A p \in Pane : /\ panes[p].state = IF p <= Opened THEN "live" ELSE "none"
                         /\ panes[p].state = "none" => panes[p].ver = 0
  BY DEF Init
<1>3. panes \in [Pane -> [state : {"none", "live", "exited"}, ver : 0..Versions, geom : 1..2]]
  <2>1. ASSUME NEW p \in Pane
        PROVE  panes[p] \in [state : {"none", "live", "exited"}, ver : 0..Versions, geom : 1..2]
    <3>1. PICK a \in [state : {"none", "live"}, ver : 0..1, geom : {1}] : a = panes[p]
      BY <1>2
    <3>2. a.state \in {"none", "live", "exited"} /\ a.ver \in 0..Versions /\ a.geom \in 1..2
          /\ a = [state |-> a.state, ver |-> a.ver, geom |-> a.geom]
      BY <1>1, <3>1
    <3>3. a \in [state : {"none", "live", "exited"}, ver : 0..Versions, geom : 1..2]
      BY <3>2
    <3> QED
      BY <3>1, <3>3
  <2> QED
    BY <1>2, <2>1
<1>4. \A p \in Pane : panes[p].geom = 1 /\ panes[p].state \in {"none", "live"}
  BY <1>2
<1>5. PICK b, s : b = Seed("Attach", Live) /\ s = conn
  OBVIOUS
<1>6. /\ s.outbox = <<>> /\ s.front_started = FALSE /\ s.seed = b /\ s.resync_pending = {} /\ s.attached = TRUE
      /\ s = [outbox |-> s.outbox, front_started |-> s.front_started, seed |-> s.seed,
              resync_pending |-> s.resync_pending, attached |-> s.attached]
  BY <1>5 DEF Init
<1>7. Live = Met /\ Met \in SUBSET Pane
  BY <1>4 DEF Live, Met
<1>8. /\ SeedOK(b, Met) /\ b \in SeedTypes(Met) /\ b.kind = "Attach" /\ b.catch_up = <<>> /\ b.replay = NoReplay
      /\ b.outdated = {} /\ ~ b.baseline_queued
      /\ \A c \in Pane : b.manifest[c] = "Pending" <=> c \in Met
      /\ \A c \in Pane : b.manifest[c] # "absent" => c \in Met \cup Live
  <2>1. PICK kind \in {"Attach", "Resync"} : kind = "Attach"
    OBVIOUS
  <2>2. b = Seed(kind, Met)
    BY <1>5, <1>7, <2>1
  <2>3. Live \subseteq Met /\ Met \in SUBSET Met
    BY <1>7
  <2> QED
    BY <1>7, <2>1, <2>2, <2>3, NewSeed
<1>9. ConnOK(s, Met)
  <2>1. <<>> \in Seq(Outgoing(Met)) /\ {} \in SUBSET Met /\ Len(<<>>) = 0
    OBVIOUS
  <2>2. s \in [outbox : Seq(Outgoing(Met)), front_started : BOOLEAN, seed : SeedTypes(Met),
               resync_pending : SUBSET Met, attached : BOOLEAN]
    BY <1>6, <1>8, <2>1
  <2>3. Count(<<>>) = 0
    BY <2>1, CountType
  <2>4. max_backlog \in Nat /\ SEED_CATCH_UP_LIMIT \in Nat
    BY SizesAssumption
  <2>5. Bounded(s)
    BY <1>6, <1>8, <2>1, <2>3, <2>4 DEF Bounded
  <2> QED
    BY <1>6, <1>8, <2>2, <2>5 DEF ConnOK
<1>10. ASSUME NEW p \in Pane
       PROVE  /\ ui[p] \in Screens /\ ui[p].ver = 0 /\ ui[p].part = 0 /\ ui[p].geom = 1
              /\ panes[p].state = "live" => ui[p].known
  <2>2. PICK x : x = [known |-> p <= Opened, ver |-> 0, part |-> 0, geom |-> 1, torn |-> FALSE]
    OBVIOUS
  <2>3. ui[p] = x
    BY <2>2 DEF Init
  <2>4. x \in Screens
    BY <1>1, <2>2 DEF Screens
  <2>5. x.ver = 0 /\ x.part = 0 /\ x.geom = 1
    BY <2>2
  <2>6. panes[p].state = "live" => p <= Opened
    BY <1>2
  <2>7. p <= Opened => x.known
    BY <2>2
  <2> QED
    BY <2>3, <2>4, <2>5, <2>6, <2>7
<1>11. ui \in [Pane -> Screens]
  <2>1. ui = [p \in Pane |-> ui[p]]
    BY DEF Init
  <2> QED
    BY <1>10, <2>1
<1>12. controls.sent = 0 /\ controls.applied = 0
       /\ controls \in [sent : 0..Versions, applied : 0..Versions, lost : {FALSE}]
  BY <1>1 DEF Init
<1>13. ASSUME NEW c \in Lanes, NEW x \in Screens, c \in Pane => (b.manifest[c] # "absent" => x.known)
       PROVE  Lane(s.outbox, s.seed, c, x, x)
  <2>1. Junction(b, c, x) = x
    BY <1>8 DEF Junction, NoReplay
  <2>2. Chain(c, x, <<>>, x)
    BY ChainNil
  <2>3. c \in Pane => OnReplay(b, c, x)
    BY <1>8, <1>13, PaneIsPane DEF OnReplay, NoReplay
  <2> QED
    BY <1>6, <1>8, <2>1, <2>2, <2>3 DEF Lane
<1>14. ASSUME NEW p \in Pane
       PROVE  \E z \in Screens : Lane(s.outbox, s.seed, p, ui[p], z) /\ Ends(s, p, panes[p], z)
  <2>1. b.manifest[p] # "absent" => ui[p].known
    BY <1>4, <1>7, <1>8, <1>10 DEF Live
  <2>2. p \in Lanes
    BY DEF Lanes
  <2>3. Lane(s.outbox, s.seed, p, ui[p], ui[p])
    BY <1>10, <1>13, <2>1, <2>2
  <2>4. Ends(s, p, panes[p], ui[p])
    <3>1. CASE panes[p].state = "live"
      <4>1. Stale(s, p)
        BY <1>6, <1>7, <1>8, <3>1 DEF Stale, Live
      <4> QED
        BY <1>10, <3>1, <4>1 DEF Ends
    <3>2. CASE panes[p].state = "none"
      BY <1>2, <1>4, <1>10, <3>2 DEF Ends
    <3> QED
      BY <1>4, <3>1, <3>2
  <2> QED
    BY <1>10, <2>3, <2>4
<1>15. \E z \in Screens : Lane(s.outbox, s.seed, None, Counter(controls.applied), z) /\ z.ver = controls.sent
  <2>1. PICK x : x = Counter(controls.applied)
    OBVIOUS
  <2>2. x \in Screens /\ x.ver = controls.sent
    BY <1>1, <1>12, <2>1 DEF Screens, Counter
  <2>3. None \in Lanes /\ None \notin Pane
    BY PaneIsPane DEF Lanes
  <2>4. Lane(s.outbox, s.seed, None, x, x)
    BY <1>13, <2>2, <2>3
  <2> QED
    BY <2>1, <2>2, <2>4
<1>16. Followed(s, panes, ui, controls)
  BY <1>14, <1>15 DEF Followed
<1>17. reading \in BOOLEAN /\ inputs \in 0..MaxInputs
  BY <1>1 DEF Init
<1> QED
  BY <1>3, <1>4, <1>5, <1>9, <1>11, <1>12, <1>16, <1>17 DEF Inv

----------------------------------------------------------------------------
(* The theorems                                                            *)

\* Every state of ReplayBarrier satisfies the invariant.
THEOREM Invariance == Spec => []Inv
<1>1. Init => Inv
  BY InvInit
<1>2. Inv /\ [Next]_vars => Inv'
  BY InvStep
<1> QED
  BY <1>1, <1>2, PTL DEF Spec

\* Types, and the limits: however clients and panes behave, the outbox stays within
\* max_backlog and what waits behind a replay within SEED_CATCH_UP_LIMIT (push_live,
\* push_catch_up and the pump never queue beyond them).
THEOREM TypeCorrect == Spec => []TypeOK
<1>1. Inv => TypeOK
  <2>1. SUFFICES ASSUME Inv
                 PROVE  TypeOK
    OBVIOUS
  <2>2. ConnOK(conn, Met) /\ Met \in SUBSET Pane
    BY <2>1, MetPanes DEF Inv
  <2>3. /\ conn.outbox \in Seq(Outgoing(Met)) /\ conn.resync_pending \in SUBSET Met /\ Bounded(conn)
        /\ conn.front_started => conn.outbox # <<>>
    BY <2>2, ConnFields
  <2>4. {i \in DOMAIN conn.outbox : conn.outbox[i].class = "SeedCatchUp"} = Behind(conn.outbox, Len(conn.outbox))
    <3>1. DOMAIN conn.outbox = 1..Len(conn.outbox)
      BY <2>3
    <3> QED
      BY <3>1 DEF Behind
  <2>5. Len(conn.outbox) <= max_backlog
    BY <2>3 DEF Bounded
  <2>6. Len(conn.seed.catch_up) + Cardinality({i \in DOMAIN conn.outbox : conn.outbox[i].class = "SeedCatchUp"})
          <= SEED_CATCH_UP_LIMIT
    BY <2>3, <2>4 DEF Bounded, Count
  <2> QED
    BY <2>1, <2>2, <2>3, <2>5, <2>6 DEF TypeOK, Inv
<1> QED
  BY <1>1, Invariance, PTL

\* No frame that reaches the client fails to fit what it shows: the output before it
\* is on the screen, a replay starts on a cleared screen and at its own size, in
\* whatever order panes are written, shed, replayed and shed again.
THEOREM TranscriptStaysIntact == Spec => []TranscriptIntact
<1>1. Inv => TranscriptIntact
  BY DEF Inv, TranscriptIntact, Screens
<1> QED
  BY <1>1, Invariance, PTL

\* Control frames are applied in the order they were sent and none is lost: they
\* wait behind a barrier with the changes they belong to and are never shed.
THEOREM ControlsArriveInOrder == Spec => []ControlsInOrder
<1>1. Inv => ControlsInOrder
  BY DEF Inv, ControlsInOrder
<1> QED
  BY <1>1, Invariance, PTL

\* A client with nothing queued, no barrier and no pane due shows every live pane
\* as the server has it: what was suppressed before an export or dropped by a shed
\* has been replayed since.
THEOREM QuietIsCurrent == Spec => []CurrentWhenQuiet
<1>1. Inv => CurrentWhenQuiet
  <2>1. SUFFICES ASSUME Inv, conn.attached, Quiet, NEW p \in Pane, panes[p].state = "live"
                 PROVE  ShownNow(p)
    BY DEF CurrentWhenQuiet
  <2>2. PICK s : s = conn
    OBVIOUS
  <2>3. ConnOK(s, Met) /\ Met \in SUBSET Pane /\ Followed(s, panes, ui, controls)
        /\ s.outbox = <<>> /\ s.seed.kind = "none" /\ s.resync_pending = {}
    BY <2>1, <2>2, MetPanes DEF Inv, Quiet
  <2>4. s.seed = NoSeed
    <3>1. SeedOK(s.seed, Met)
      BY <2>3, ConnFields
    <3> QED
      BY <2>3, <3>1 DEF SeedOK
  <2>5. Empty(s.seed) /\ s.seed.outdated = {} /\ \A c \in Pane : s.seed.manifest[c] = "absent"
    BY <2>3, <2>4, NoSeedOK
  <2>6. ~ Stale(s, p)
    BY <2>3, <2>5 DEF Stale
  <2>7. PICK z \in Screens : Lane(s.outbox, s.seed, p, ui[p], z) /\ Ends(s, p, panes[p], z)
    BY <2>3 DEF Followed
  <2>8. PICK y \in Screens : Chain(p, ui[p], <<>>, y) /\ Chain(p, Junction(s.seed, p, y), <<>>, z)
    BY <2>3, <2>5, <2>7 DEF Lane, Empty
  <2>9. Junction(s.seed, p, y) = y
    BY <2>5, PaneIsPane DEF Junction, Empty, NoReplay
  <2>10. ui[p] \in Screens
    BY <2>1 DEF Inv
  <2>11. y = ui[p]
    BY <2>8, <2>10, ChainNil
  <2>12. z = y
    BY <2>8, <2>9, ChainNil
  <2>13. z.ver = panes[p].ver /\ z.part = 0 /\ z.geom = panes[p].geom
    BY <2>1, <2>6, <2>7 DEF Ends
  <2> QED
    BY <2>11, <2>12, <2>13 DEF ShownNow
<1> QED
  BY <1>1, Invariance, PTL

=============================================================================
