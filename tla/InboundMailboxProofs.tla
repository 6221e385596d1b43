------------------------ MODULE InboundMailboxProofs ------------------------
(***************************************************************************)
(* Proofs about InboundMailbox for every set of frames, every capacity and *)
(* every interleaving of the reader, the writer, the attach handler, the   *)
(* transport's owner and the UI.                                           *)
(***************************************************************************)
EXTENDS InboundMailbox, SumsProofs, FiniteSetTheorems

----------------------------------------------------------------------------
(* The queue's books                                                       *)

\* Queues of frames F, indexed by keys K.
Entries(F, K) == [frames : Seq(F), bytes : Nat, media : Nat, key : {NoKey} \cup K]

Indexes(K) == UNION {[S -> Nat] : S \in SUBSET K}

Queues(F, K) ==
  [entries : Seq(Entries(F, K)), base : Nat, replacements : Indexes(K), bytes : Int, media : Int]

\* The running totals are what the entries weigh.
Books(qq) == qq.bytes = TotalBytes(qq) /\ qq.media = TotalMedia(qq)

\* True books bound the weight of each entry.
LEMMA BooksBound ==
  ASSUME NEW F, NEW K, NEW qq \in Queues(F, K), Books(qq)
  PROVE  /\ qq.bytes \in Nat /\ qq.media \in Nat
         /\ \A i \in DOMAIN qq.entries : qq.entries[i].bytes <= qq.bytes /\ qq.entries[i].media <= qq.media
<1> DEFINE b == [i \in DOMAIN qq.entries |-> qq.entries[i].bytes]
           m == [i \in DOMAIN qq.entries |-> qq.entries[i].media]
           N == Len(qq.entries)
<1>1. N \in Nat /\ DOMAIN qq.entries = 1..N
  BY DEF Queues
<1>2. \A i \in 1..N : qq.entries[i] \in Entries(F, K)
  BY DEF Queues
<1>3. \A i \in 1..N : b[i] \in Nat /\ m[i] \in Nat
  BY <1>1, <1>2 DEF Entries
<1>4. \A i \in 1..N : b[i] = qq.entries[i].bytes /\ m[i] = qq.entries[i].media
  BY <1>1
<1>5. qq.bytes = Total(b, N) /\ qq.media = Total(m, N)
  BY DEF Books, TotalBytes, TotalMedia
<1> HIDE DEF b, m, N
<1> QED
  BY <1>1, <1>3, <1>4, <1>5, TotalBound

\* An entry at the back.
LEMMA AppendBooks ==
  ASSUME NEW F, NEW K, NEW qq \in Queues(F, K), NEW p, NEW e \in Entries(F, K), Books(qq),
         p.entries = Append(qq.entries, e),
         p.bytes = qq.bytes + e.bytes, p.media = qq.media + e.media
  PROVE  Books(p)
<1> DEFINE b(x) == [i \in DOMAIN x.entries |-> x.entries[i].bytes]
           m(x) == [i \in DOMAIN x.entries |-> x.entries[i].media]
           N == Len(qq.entries)
<1>1. N \in Nat /\ DOMAIN qq.entries = 1..N /\ \A i \in 1..N : qq.entries[i] \in Entries(F, K)
  BY DEF Queues
<1>2. /\ Len(p.entries) = N + 1 /\ DOMAIN p.entries = 1..(N + 1)
      /\ \A i \in 1..N : p.entries[i] = qq.entries[i]
      /\ p.entries[N + 1] = e
  BY DEF Queues
<1>3. \A i \in 1..N : /\ b(qq)[i] \in Int /\ b(p)[i] = b(qq)[i]
                      /\ m(qq)[i] \in Int /\ m(p)[i] = m(qq)[i]
  BY <1>1, <1>2 DEF Entries
<1>4. b(p)[N + 1] = e.bytes /\ m(p)[N + 1] = e.media /\ e.bytes \in Int /\ e.media \in Int
  BY <1>1, <1>2 DEF Entries
<1>5. qq.bytes = Total(b(qq), N) /\ qq.media = Total(m(qq), N)
  BY DEF Books, TotalBytes, TotalMedia
<1>6. Total(b(p), N + 1) = Total(b(qq), N) + e.bytes /\ Total(m(p), N + 1) = Total(m(qq), N) + e.media
  <2> HIDE DEF b, m, N
  <2> QED
    BY <1>1, <1>3, <1>4, TotalAppend
<1> QED
  BY <1>2, <1>5, <1>6 DEF Books, TotalBytes, TotalMedia

\* An entry in the place of another.
LEMMA UpdateBooks ==
  ASSUME NEW F, NEW K, NEW qq \in Queues(F, K), NEW p, NEW e \in Entries(F, K), Books(qq),
         NEW at \in DOMAIN qq.entries, p.entries = [qq.entries EXCEPT ![at] = e],
         p.bytes = qq.bytes - qq.entries[at].bytes + e.bytes,
         p.media = qq.media - qq.entries[at].media + e.media
  PROVE  Books(p)
<1> DEFINE b(x) == [i \in DOMAIN x.entries |-> x.entries[i].bytes]
           m(x) == [i \in DOMAIN x.entries |-> x.entries[i].media]
           N == Len(qq.entries)
<1>1. N \in Nat /\ DOMAIN qq.entries = 1..N /\ \A i \in 1..N : qq.entries[i] \in Entries(F, K)
  BY DEF Queues
<1>2. /\ Len(p.entries) = N /\ DOMAIN p.entries = 1..N
      /\ \A i \in 1..N : p.entries[i] = IF i = at THEN e ELSE qq.entries[i]
  BY <1>1 DEF Queues
<1>3. \A i \in 1..N : /\ b(qq)[i] \in Int /\ b(p)[i] \in Int /\ (i # at => b(p)[i] = b(qq)[i])
                      /\ m(qq)[i] \in Int /\ m(p)[i] \in Int /\ (i # at => m(p)[i] = m(qq)[i])
  BY <1>1, <1>2 DEF Entries
<1>4. /\ b(p)[at] = e.bytes /\ m(p)[at] = e.media
      /\ b(qq)[at] = qq.entries[at].bytes /\ m(qq)[at] = qq.entries[at].media
  BY <1>1, <1>2
<1>5. qq.bytes = Total(b(qq), N) /\ qq.media = Total(m(qq), N)
  BY DEF Books, TotalBytes, TotalMedia
<1>6. /\ Total(b(p), N) = Total(b(qq), N) - b(qq)[at] + b(p)[at]
      /\ Total(m(p), N) = Total(m(qq), N) - m(qq)[at] + m(p)[at]
  <2> HIDE DEF b, m, N
  <2>1. at \in 1..N
    BY <1>1
  <2>2. Total(b(p), N) = Total(b(qq), N) - b(qq)[at] + b(p)[at]
    <3>1. \A i \in 1..N : b(qq)[i] \in Int /\ b(p)[i] \in Int /\ (i # at => b(p)[i] = b(qq)[i])
      BY <1>3
    <3> QED
      BY <1>1, <2>1, <3>1, TotalUpdate
  <2>3. Total(m(p), N) = Total(m(qq), N) - m(qq)[at] + m(p)[at]
    <3>1. \A i \in 1..N : m(qq)[i] \in Int /\ m(p)[i] \in Int /\ (i # at => m(p)[i] = m(qq)[i])
      BY <1>3
    <3> QED
      BY <1>1, <2>1, <3>1, TotalUpdate
  <2> QED
    BY <2>2, <2>3
<1> QED
  BY <1>2, <1>4, <1>5, <1>6 DEF Books, TotalBytes, TotalMedia

\* The first entry gone.
LEMMA TailBooks ==
  ASSUME NEW F, NEW K, NEW qq \in Queues(F, K), NEW p, Books(qq), qq.entries # <<>>,
         p.entries = Tail(qq.entries),
         p.bytes = qq.bytes - Head(qq.entries).bytes, p.media = qq.media - Head(qq.entries).media
  PROVE  Books(p)
<1> DEFINE b(x) == [i \in DOMAIN x.entries |-> x.entries[i].bytes]
           m(x) == [i \in DOMAIN x.entries |-> x.entries[i].media]
           N == Len(qq.entries)
<1>1. /\ N \in Nat /\ N > 0 /\ DOMAIN qq.entries = 1..N
      /\ \A i \in 1..N : qq.entries[i] \in Entries(F, K)
  BY DEF Queues
<1>2. /\ Len(p.entries) = N - 1 /\ DOMAIN p.entries = 1..(N - 1)
      /\ \A i \in 1..(N - 1) : p.entries[i] = qq.entries[i + 1]
      /\ Head(qq.entries) = qq.entries[1]
  BY DEF Queues
<1>3. /\ \A i \in 1..N : b(qq)[i] \in Int /\ m(qq)[i] \in Int
      /\ \A i \in 1..(N - 1) : b(p)[i] = b(qq)[i + 1] /\ m(p)[i] = m(qq)[i + 1]
  BY <1>1, <1>2 DEF Entries
<1>4. b(qq)[1] = Head(qq.entries).bytes /\ m(qq)[1] = Head(qq.entries).media
  BY <1>1, <1>2
<1>5. qq.bytes = Total(b(qq), N) /\ qq.media = Total(m(qq), N)
  BY DEF Books, TotalBytes, TotalMedia
<1>6. Total(b(p), N - 1) = Total(b(qq), N) - b(qq)[1] /\ Total(m(p), N - 1) = Total(m(qq), N) - m(qq)[1]
  <2> HIDE DEF b, m, N
  <2> QED
    BY <1>1, <1>3, TotalTail
<1> QED
  BY <1>2, <1>4, <1>5, <1>6 DEF Books, TotalBytes, TotalMedia

----------------------------------------------------------------------------
(* What the queue keeps true.  Each part is a predicate of the entries or  *)
(* of the queue, so that the operations are treated without the actors.    *)

Keys == {<<f.pane, f.image>> : f \in {g \in Frames : g.kind = "graphics"}}

\* The frames merged into entry i.
At(es, i) == Range(es[i].frames)

\* Only output without media shares an entry, and only with its own pane; an
\* entry's key is its frame's.
Shape(es) ==
  \A i \in DOMAIN es :
    /\ es[i].frames # <<>>
    /\ es[i].key = inbound_replacement_key(es[i].frames[1])
    /\ \A f \in At(es, i) :
         \/ f = es[i].frames[1]
         \/ Mergeable(f) /\ Mergeable(es[i].frames[1]) /\ f.pane = es[i].frames[1].pane

\* Within an entry the older frame comes first.
InOrder(es) ==
  \A i \in DOMAIN es : \A j, k \in DOMAIN es[i].frames :
    j < k => es[i].frames[j].id < es[i].frames[k].id

\* Numbers up to n have been given out, each to one entry's frame.
Fresh(es, n) == \A i \in DOMAIN es : \A f \in At(es, i) : f.id < n

Apart(es) ==
  \A i, j \in DOMAIN es : \A f \in At(es, i), g \in At(es, j) : f.id = g.id => i = j

\* A frame that stands before an older one may overtake it.
Overtakes(es) ==
  \A i, j \in DOMAIN es : \A f \in At(es, i), g \in At(es, j) :
    i < j /\ g.id < f.id => Streams!MayOvertake(f, g)

\* A graphics frame of this key may overtake g.
Behind(key, g) ==
  g.kind # "mark" /\ (g.pane # key[1] \/ (g.kind = "graphics" /\ g.image # key[2]))

\* The index names entries of its keys, and nothing that depends on such an entry
\* stands behind it or is younger: its successor may take its place.
Guarded(qq) ==
  \A key \in DOMAIN qq.replacements :
    LET at == qq.replacements[key] - qq.base + 1
    IN /\ at \in DOMAIN qq.entries /\ qq.entries[at].key = key
       /\ \A j \in DOMAIN qq.entries : \A g \in At(qq.entries, j) :
            (j > at \/ g.id > qq.entries[at].frames[1].id) => Behind(key, g)

QInv(qq, n) ==
  /\ qq \in Queues(QueuedFrame, Keys)
  /\ Books(qq) /\ qq.bytes <= Capacity /\ qq.media <= MediaCapacity
  /\ Shape(qq.entries) /\ InOrder(qq.entries)
  /\ Fresh(qq.entries, n) /\ Apart(qq.entries)
  /\ Overtakes(qq.entries) /\ Guarded(qq)

----------------------------------------------------------------------------
(* What the actors keep true                                               *)

\* The end of the connection has not been queued yet.
EndDue == ~ ended \/ pc["reader"] = "end" \/ pc["writer"] = "end"

NoEnd(es) == \A i \in DOMAIN es : es[i].frames[1].kind # "end"

OneEnd(es) ==
  \A i, j \in DOMAIN es : es[i].frames[1].kind = "end" /\ es[j].frames[1].kind = "end" => i = j

\* One actor at most is about to queue the end, and then it is not queued or heard.
EndInv ==
  /\ heard \in {0, 1} /\ OneEnd(q.entries)
  /\ (heard = 1 \/ EndDue) => NoEnd(q.entries)
  /\ EndDue => heard = 0
  /\ ~ ended => pc["reader"] # "end" /\ pc["writer"] # "end"
  /\ ~ (pc["reader"] = "end" /\ pc["writer"] = "end")

Holding == {"offer", "asleep", "push"}

\* The numbers last: one is kept back for the end.
NumberInv ==
  /\ next \in Nat /\ next >= 1 /\ next <= MaxFrames + (IF EndDue THEN 1 ELSE 2)
  /\ pc["reader"] \in Holding => next <= MaxFrames + (IF EndDue THEN 0 ELSE 1)

ControlInv ==
  /\ pc \in [Actors -> ReaderStates \cup UiStates \cup WriterStates \cup AttachStates \cup DropperStates]
  /\ pc["reader"] \in ReaderStates \ {"stuck"} /\ pc["ui"] \in UiStates
  /\ pc["writer"] \in WriterStates /\ pc["attach"] \in AttachStates
  /\ pc["dropper"] \in DropperStates
  /\ scheduled \in BOOLEAN /\ active \in BOOLEAN /\ ended \in BOOLEAN /\ shutdown \in BOOLEAN
  /\ drains \in Nat
  /\ hold \in Frames \cup {NoFrame} /\ (pc["reader"] \in Holding => hold \in Frames)

\* The room that wait_for_capacity found is still there.
RoomKept ==
  pc["reader"] = "push" =>
    fits_in_state(q, hold, replacement_weight(q, inbound_replacement_key(hold)))

Inv ==
  /\ QInv(q, next) /\ ControlInv /\ EndInv /\ NumberInv /\ RoomKept
  /\ NoLostWakeup /\ OneDrain

----------------------------------------------------------------------------
(* Frames and entries                                                      *)

\* What is known of a frame that may be queued.
LEMMA FrameFacts ==
  ASSUME NEW f \in QueuedFrame
  PROVE  /\ f.id \in Nat /\ f.bytes \in Nat /\ f.media \in Nat
         /\ f.kind = "graphics" => <<f.pane, f.image>> \in Keys /\ f.pane # "none"
         /\ f.kind \in {"output", "graphics", "reset"} \/ f.pane = "none"
         /\ f.kind \in {"output", "graphics", "reset", "mark", "control", "end"}
<1>1. CASE \E g \in Frames, n \in 1..(MaxFrames + 1) : f = Numbered(g, n)
  BY <1>1, FramesAssumption DEF Numbered, Keys
<1>2. CASE \E n \in 1..(MaxFrames + 1) : f = EndFrame(n)
  BY <1>2, FramesAssumption DEF EndFrame
<1> QED
  BY <1>1, <1>2 DEF QueuedFrame

\* A key is that of a pane's image and is not None.
LEMMA KeyFacts ==
  ASSUME NEW k \in Keys
  PROVE  k # NoKey /\ k = <<k[1], k[2]>> /\ k[1] # "none"
BY FramesAssumption DEF Keys

\* One frame alone, and one frame more.
LEMMA RangeOne ==
  ASSUME NEW f
  PROVE  Range(<<f>>) = {f}
BY DEF Range

LEMMA RangeAppend ==
  ASSUME NEW S, NEW s \in Seq(S), NEW f \in S
  PROVE  Range(Append(s, f)) = Range(s) \cup {f}
<1>0. Append(s, f) \in Seq(S) /\ Len(Append(s, f)) = Len(s) + 1
  OBVIOUS
<1>1. DOMAIN Append(s, f) = 1..(Len(s) + 1) /\ DOMAIN s = 1..Len(s) /\ Len(s) \in Nat
  BY <1>0
<1>2. Append(s, f)[Len(s) + 1] = f /\ \A i \in 1..Len(s) : Append(s, f)[i] = s[i]
  OBVIOUS
<1> QED
  BY <1>1, <1>2 DEF Range

\* The entry made for one frame.
LEMMA EntryFacts ==
  ASSUME NEW f \in QueuedFrame, NEW k \in {NoKey} \cup Keys
  PROVE  /\ Entry(f, k) \in Entries(QueuedFrame, Keys)
         /\ Entry(f, k).frames = <<f>> /\ Entry(f, k).frames[1] = f
         /\ Entry(f, k).bytes = f.bytes /\ Entry(f, k).media = f.media /\ Entry(f, k).key = k
<1>1. f.bytes \in Nat /\ f.media \in Nat
  BY FrameFacts
<1>2. <<f>> \in Seq(QueuedFrame)
  OBVIOUS
<1> QED
  BY <1>1, <1>2 DEF Entry, Entries

\* The first frame of an entry is one of its frames, and they are all frames.
LEMMA FirstFacts ==
  ASSUME NEW es \in Seq(Entries(QueuedFrame, Keys)), Shape(es), NEW i \in DOMAIN es
  PROVE  /\ es[i] \in Entries(QueuedFrame, Keys)
         /\ es[i].frames \in Seq(QueuedFrame) /\ 1 \in DOMAIN es[i].frames
         /\ es[i].frames[1] \in At(es, i) /\ At(es, i) \subseteq QueuedFrame
<1>0. es[i] \in Entries(QueuedFrame, Keys)
  OBVIOUS
<1>1. es[i].frames \in Seq(QueuedFrame)
  BY <1>0 DEF Entries
<1>2. es[i].frames # <<>>
  BY DEF Shape
<1>3. 1 \in DOMAIN es[i].frames /\ \A x \in DOMAIN es[i].frames : es[i].frames[x] \in QueuedFrame
  BY <1>1, <1>2
<1> QED
  BY <1>0, <1>1, <1>3 DEF At, Range

----------------------------------------------------------------------------
(* The queue's operations keep QInv                                        *)

\* A new entry at the back: the newest frame overtakes nothing.
Appends(qq, pp, f) ==
  /\ pp.entries = Append(qq.entries, Entry(f, inbound_replacement_key(f)))
  /\ pp.base = qq.base
  /\ pp.bytes = qq.bytes + f.bytes /\ pp.media = qq.media + f.media
  /\ pp.bytes <= Capacity /\ pp.media <= MediaCapacity
  /\ \A k \in DOMAIN pp.replacements :
       \/ k = inbound_replacement_key(f) /\ pp.replacements[k] = qq.base + Len(qq.entries)
       \/ /\ k \in DOMAIN qq.replacements /\ pp.replacements[k] = qq.replacements[k]
          /\ Behind(k, f)

LEMMA AppendKeeps ==
  ASSUME NEW qq, NEW pp \in Queues(QueuedFrame, Keys), NEW n \in Nat, QInv(qq, n),
         NEW f \in QueuedFrame, f.id = n, Appends(qq, pp, f)
  PROVE  QInv(pp, n + 1)
<1> DEFINE es == qq.entries
           fs == pp.entries
           N == Len(es)
           key == inbound_replacement_key(f)
           e == Entry(f, key)
<1>0. key \in {NoKey} \cup Keys
  BY FrameFacts DEF inbound_replacement_key
<1>1. qq \in Queues(QueuedFrame, Keys) /\ es \in Seq(Entries(QueuedFrame, Keys)) /\ N \in Nat
      /\ DOMAIN es = 1..N /\ qq.base \in Nat
  BY DEF QInv, Queues
<1>2. /\ e \in Entries(QueuedFrame, Keys) /\ e.frames = <<f>> /\ e.frames[1] = f
      /\ e.bytes = f.bytes /\ e.media = f.media /\ e.key = key
  BY <1>0, EntryFacts
<1> HIDE DEF e
<1>3. /\ fs = Append(es, e) /\ DOMAIN fs = 1..(N + 1)
      /\ fs[N + 1] = e /\ \A i \in 1..N : fs[i] = es[i]
  <2>1. fs = Append(es, e)
    BY DEF e, Appends
  <2> QED
    BY <2>1, <1>1, <1>2
<1> HIDE DEF es, fs, N
<1>4. At(fs, N + 1) = {f} /\ \A i \in 1..N : At(fs, i) = At(es, i)
  <2>1. fs[N + 1].frames = <<f>>
    BY <1>2, <1>3
  <2>2. \A i \in 1..N : At(fs, i) = At(es, i)
    BY <1>3 DEF At
  <2> QED
    BY <2>1, <2>2, RangeOne DEF At
<1>5. /\ Shape(es) /\ InOrder(es) /\ Fresh(es, n) /\ Apart(es) /\ Overtakes(es)
      /\ Guarded(qq) /\ Books(qq)
  BY DEF QInv, es
<1>6. \A i \in 1..N : \A g \in At(es, i) : g.id \in Nat /\ g.id < n
  BY <1>1, <1>5, FirstFacts, FrameFacts DEF Fresh
<1>14. \A i \in 1..(N + 1) : \A g \in At(fs, i) : (g = f /\ i = N + 1) \/ (g.id < n /\ i \in 1..N)
  BY <1>1, <1>4, <1>6
<1>7. Books(pp)
  <2>1. /\ pp.entries = Append(qq.entries, e)
        /\ pp.bytes = qq.bytes + e.bytes /\ pp.media = qq.media + e.media
    BY <1>2, <1>3 DEF Appends, es, fs
  <2> QED
    BY <1>1, <1>2, <1>5, <2>1, AppendBooks
<1>8. Shape(fs)
  BY <1>1, <1>2, <1>3, <1>4, <1>5 DEF Shape
<1>9. InOrder(fs)
  BY <1>1, <1>2, <1>3, <1>5 DEF InOrder
<1>10. Fresh(fs, n + 1)
  BY <1>1, <1>3, <1>4, <1>6 DEF Fresh
<1>11. Apart(fs)
  <2> SUFFICES ASSUME NEW i \in 1..(N + 1), NEW j \in 1..(N + 1),
                      NEW g \in At(fs, i), NEW h \in At(fs, j), g.id = h.id
               PROVE  i = j
    BY <1>3 DEF Apart
  <2>1. CASE i \in 1..N /\ j \in 1..N
    BY <2>1, <1>1, <1>4, <1>5 DEF Apart
  <2>2. CASE i = N + 1 \/ j = N + 1
    BY <2>2, <1>1, <1>14
  <2> QED
    BY <2>1, <2>2, <1>1
<1>12. Overtakes(fs)
  <2> SUFFICES ASSUME NEW i \in 1..(N + 1), NEW j \in 1..(N + 1), i < j,
                      NEW g \in At(fs, i), NEW h \in At(fs, j), h.id < g.id
               PROVE  Streams!MayOvertake(g, h)
    BY <1>3 DEF Overtakes
  <2>1. CASE i \in 1..N /\ j \in 1..N
    BY <2>1, <1>1, <1>4, <1>5 DEF Overtakes
  <2>2. CASE j = N + 1
    <3>1. h = f /\ g.id < n /\ g.id \in Nat
      BY <2>2, <1>1, <1>4, <1>6
    <3> QED
      BY <3>1
  <2>3. (i \in 1..N /\ j \in 1..N) \/ j = N + 1
    <3>1. N \in Nat
      BY <1>1
    <3> QED
      BY <3>1
  <2> QED
    BY <2>1, <2>2, <2>3
<1>13. Guarded(pp)
  <2> SUFFICES ASSUME NEW k \in DOMAIN pp.replacements
               PROVE  LET at == pp.replacements[k] - pp.base + 1
                      IN /\ at \in DOMAIN fs /\ fs[at].key = k
                         /\ \A j \in DOMAIN fs : \A g \in At(fs, j) :
                              (j > at \/ g.id > fs[at].frames[1].id) => Behind(k, g)
    BY DEF Guarded, fs
  <2> DEFINE at == pp.replacements[k] - pp.base + 1
  <2>1. CASE k = key /\ pp.replacements[k] = qq.base + N
    <3>1. at = N + 1
      BY <2>1, <1>1 DEF Appends
    <3> QED
      BY <3>1, <2>1, <1>1, <1>2, <1>3, <1>4, <1>6
  <2>2. CASE k \in DOMAIN qq.replacements /\ pp.replacements[k] = qq.replacements[k] /\ Behind(k, f)
    <3>1. /\ at \in 1..N /\ es[at].key = k
          /\ \A j \in DOMAIN es : \A g \in At(es, j) :
               (j > at \/ g.id > es[at].frames[1].id) => Behind(k, g)
      BY <2>2, <1>1, <1>5 DEF Guarded, es, Appends
    <3> HIDE DEF at
    <3>2. ASSUME NEW j \in 1..(N + 1), NEW g \in At(fs, j), j > at \/ g.id > fs[at].frames[1].id
          PROVE  Behind(k, g)
      <4>1. CASE j \in 1..N
        BY <4>1, <3>1, <3>2, <1>1, <1>3, <1>4
      <4>2. CASE j = N + 1
        BY <4>2, <2>2, <1>4
      <4> QED
        BY <4>1, <4>2, <1>1
    <3>3. at \in 1..(N + 1) /\ fs[at].key = k
      BY <3>1, <1>1, <1>3
    <3> QED
      BY <3>2, <3>3, <1>3 DEF at
  <2> QED
    BY <2>1, <2>2 DEF N, es, Appends
<1> QED
  BY <1>7, <1>8, <1>9, <1>10, <1>11, <1>12, <1>13 DEF QInv, fs, Appends

\* Output joins the last entry of its pane: what stands behind that entry is
\* output of other panes.
Joins(qq, pp, f, at, e) ==
  /\ at \in DOMAIN qq.entries
  /\ pp.entries = [qq.entries EXCEPT ![at] = e]
  /\ e.frames = Append(qq.entries[at].frames, f) /\ e.key = qq.entries[at].key
  /\ e.bytes = qq.entries[at].bytes + f.bytes /\ e.media = qq.entries[at].media + f.media
  /\ Mergeable(f) /\ Mergeable(qq.entries[at].frames[1]) /\ qq.entries[at].frames[1].pane = f.pane
  /\ \A j \in DOMAIN qq.entries :
       j > at => Mergeable(qq.entries[j].frames[1]) /\ qq.entries[j].frames[1].pane # f.pane
  /\ pp.base = qq.base
  /\ pp.bytes = qq.bytes + f.bytes /\ pp.media = qq.media + f.media
  /\ pp.bytes <= Capacity /\ pp.media <= MediaCapacity
  /\ \A k \in DOMAIN pp.replacements :
       k \in DOMAIN qq.replacements /\ pp.replacements[k] = qq.replacements[k] /\ Behind(k, f)

LEMMA JoinKeeps ==
  ASSUME NEW qq, NEW pp \in Queues(QueuedFrame, Keys), NEW n \in Nat, QInv(qq, n),
         NEW f \in QueuedFrame, f.id = n,
         NEW at, NEW e \in Entries(QueuedFrame, Keys), Joins(qq, pp, f, at, e)
  PROVE  QInv(pp, n + 1)
<1> DEFINE es == qq.entries
           fs == pp.entries
           N == Len(es)
<1>17. /\ at \in DOMAIN es /\ fs = [es EXCEPT ![at] = e]
       /\ e.frames = Append(es[at].frames, f) /\ e.key = es[at].key
       /\ Mergeable(f) /\ Mergeable(es[at].frames[1]) /\ es[at].frames[1].pane = f.pane
  BY DEF Joins
<1>1. /\ qq \in Queues(QueuedFrame, Keys) /\ es \in Seq(Entries(QueuedFrame, Keys))
      /\ DOMAIN es = 1..N /\ qq.base \in Nat /\ qq.bytes \in Int /\ qq.media \in Int
  BY DEF QInv, Queues
<1>2. N \in Nat
  BY <1>1
<1>3. DOMAIN fs = 1..N /\ \A i \in 1..N : fs[i] = IF i = at THEN e ELSE es[i]
  BY <1>1, <1>17
<1> HIDE DEF es, fs, N
<1>4. /\ Shape(es) /\ InOrder(es) /\ Fresh(es, n) /\ Apart(es) /\ Overtakes(es)
      /\ Guarded(qq) /\ Books(qq)
  BY DEF QInv, es
<1>5. /\ at \in 1..N /\ es[at].frames \in Seq(QueuedFrame) /\ 1 \in DOMAIN es[at].frames
      /\ es[at] \in Entries(QueuedFrame, Keys)
  BY <1>1, <1>4, <1>17, FirstFacts
<1>6. /\ At(fs, at) = At(es, at) \cup {f}
      /\ \A i \in 1..N : i # at => At(fs, i) = At(es, i)
  <2>1. \A i \in 1..N : i # at => At(fs, i) = At(es, i)
    BY <1>3 DEF At
  <2>2. fs[at].frames = Append(es[at].frames, f)
    BY <1>3, <1>5, <1>17
  <2>3. Range(Append(es[at].frames, f)) = Range(es[at].frames) \cup {f}
    BY <1>5, RangeAppend
  <2> QED
    BY <2>1, <2>2, <2>3 DEF At
<1>7. \A i \in 1..N : \A g \in At(es, i) : g \in QueuedFrame /\ g.id \in Nat /\ g.id < n
  BY <1>1, <1>4, FirstFacts, FrameFacts DEF Fresh
<1>8. e.frames[1] = es[at].frames[1] /\ \A i \in 1..N : fs[i].frames[1] = es[i].frames[1]
  BY <1>3, <1>5, <1>17
<1>9. Books(pp)
  <2>1. es[at].bytes \in Int /\ es[at].media \in Int /\ f.bytes \in Int /\ f.media \in Int
    <3>1. f.bytes \in Nat /\ f.media \in Nat
      BY FrameFacts
    <3>2. es[at].bytes \in Nat /\ es[at].media \in Nat
      BY <1>5 DEF Entries
    <3> QED
      BY <3>1, <3>2
  <2>2. /\ pp.bytes = qq.bytes - qq.entries[at].bytes + e.bytes
        /\ pp.media = qq.media - qq.entries[at].media + e.media
    <3>1. /\ e.bytes = es[at].bytes + f.bytes /\ e.media = es[at].media + f.media
          /\ pp.bytes = qq.bytes + f.bytes /\ pp.media = qq.media + f.media
      BY DEF es, Joins
    <3>2. /\ pp.bytes = qq.bytes - es[at].bytes + e.bytes
          /\ pp.media = qq.media - es[at].media + e.media
      BY <1>1, <2>1, <3>1
    <3> QED
      BY <3>2 DEF es
  <2>3. at \in DOMAIN qq.entries /\ pp.entries = [qq.entries EXCEPT ![at] = e]
    BY <1>17 DEF es, fs
  <2> QED
    BY <1>1, <1>4, <2>2, <2>3, UpdateBooks
<1>10. Shape(fs)
  <2> SUFFICES ASSUME NEW i \in 1..N
               PROVE  /\ fs[i].frames # <<>>
                      /\ fs[i].key = inbound_replacement_key(fs[i].frames[1])
                      /\ \A g \in At(fs, i) :
                           \/ g = fs[i].frames[1]
                           \/ /\ Mergeable(g) /\ Mergeable(fs[i].frames[1])
                              /\ g.pane = fs[i].frames[1].pane
    BY <1>3 DEF Shape
  <2>1. CASE i # at
    BY <2>1, <1>1, <1>3, <1>4, <1>6 DEF Shape
  <2>2. CASE i = at
    <3>1. e.frames # <<>>
      BY <1>5, <1>17
    <3> QED
      BY <3>1, <2>2, <1>1, <1>3, <1>4, <1>6, <1>8, <1>17 DEF Shape
  <2> QED
    BY <2>1, <2>2
<1>11. InOrder(fs)
  <2> SUFFICES ASSUME NEW i \in 1..N, NEW j \in DOMAIN fs[i].frames, NEW k \in DOMAIN fs[i].frames,
                      j < k
               PROVE  fs[i].frames[j].id < fs[i].frames[k].id
    BY <1>3 DEF InOrder
  <2>1. CASE i # at
    BY <2>1, <1>1, <1>3, <1>4 DEF InOrder
  <2>2. CASE i = at
    <3> DEFINE s == es[at].frames
               L == Len(s)
    <3>1. /\ L \in Nat /\ DOMAIN s = 1..L /\ DOMAIN e.frames = 1..(L + 1)
          /\ e.frames[L + 1] = f /\ \A x \in 1..L : e.frames[x] = s[x] /\ s[x] \in At(es, at)
      BY <1>5, <1>17 DEF At, Range
    <3>2. fs[i].frames = e.frames
      BY <2>2, <1>3
    <3> HIDE DEF s, L
    <3>3. j \in 1..(L + 1) /\ k \in 1..(L + 1) /\ L \in Nat
      BY <3>1, <3>2
    <3>4. j \in 1..L /\ (k \in 1..L \/ k = L + 1)
      BY <3>3
    <3>5. CASE k \in 1..L
      BY <3>1, <3>2, <3>4, <3>5, <1>1, <1>4, <1>5 DEF InOrder, s
    <3>6. CASE k = L + 1
      BY <3>1, <3>2, <3>4, <3>6, <1>5, <1>7
    <3> QED
      BY <3>4, <3>5, <3>6
  <2> QED
    BY <2>1, <2>2
<1>12. \A i \in 1..N : \A g \in At(fs, i) : g \in At(es, i) \/ (g = f /\ i = at)
  BY <1>6
<1>13. Fresh(fs, n + 1)
  BY <1>3, <1>7, <1>12 DEF Fresh
<1>14. Apart(fs)
  <2> SUFFICES ASSUME NEW i \in 1..N, NEW j \in 1..N,
                      NEW g \in At(fs, i), NEW h \in At(fs, j), g.id = h.id
               PROVE  i = j
    BY <1>3 DEF Apart
  <2>1. CASE g \in At(es, i) /\ h \in At(es, j)
    BY <2>1, <1>1, <1>4 DEF Apart
  <2>2. CASE g = f /\ i = at /\ h = f /\ j = at
    BY <2>2
  <2>3. CASE (g = f /\ h \in At(es, j)) \/ (h = f /\ g \in At(es, i))
    BY <2>3, <1>7
  <2> QED
    BY <2>1, <2>2, <2>3, <1>12
<1>15. Overtakes(fs)
  <2> SUFFICES ASSUME NEW i \in 1..N, NEW j \in 1..N, i < j,
                      NEW g \in At(fs, i), NEW h \in At(fs, j), h.id < g.id
               PROVE  Streams!MayOvertake(g, h)
    BY <1>3 DEF Overtakes
  <2>1. CASE g \in At(es, i) /\ h \in At(es, j)
    BY <2>1, <1>1, <1>4 DEF Overtakes
  <2>2. CASE h = f /\ g \in At(es, i)
    BY <2>2, <1>7
  <2>3. CASE g = f /\ i = at /\ h \in At(es, j)
    <3>1. Mergeable(es[j].frames[1]) /\ es[j].frames[1].pane # f.pane
      BY <2>3, <1>1 DEF es, Joins
    <3>2. h.kind = "output" /\ h.pane = es[j].frames[1].pane
      BY <2>3, <3>1, <1>1, <1>4 DEF Shape, Mergeable
    <3> QED
      BY <2>3, <3>1, <3>2, <1>17 DEF Streams!MayOvertake, Mergeable
  <2> QED
    BY <2>1, <2>2, <2>3, <1>12
<1>16. Guarded(pp)
  <2> SUFFICES ASSUME NEW k \in DOMAIN pp.replacements
               PROVE  LET a == pp.replacements[k] - pp.base + 1
                      IN /\ a \in DOMAIN fs /\ fs[a].key = k
                         /\ \A j \in DOMAIN fs : \A g \in At(fs, j) :
                              (j > a \/ g.id > fs[a].frames[1].id) => Behind(k, g)
    BY DEF Guarded, fs
  <2> DEFINE a == pp.replacements[k] - pp.base + 1
  <2>1. /\ a \in 1..N /\ es[a].key = k
        /\ \A j \in DOMAIN es : \A g \in At(es, j) :
             (j > a \/ g.id > es[a].frames[1].id) => Behind(k, g)
    BY <1>1, <1>4 DEF Guarded, es, Joins
  <2>2. Behind(k, f)
    BY DEF Joins
  <2> HIDE DEF a
  <2>3. fs[a].key = k
    BY <2>1, <1>3, <1>17
  <2>4. ASSUME NEW j \in 1..N, NEW g \in At(fs, j), j > a \/ g.id > fs[a].frames[1].id
        PROVE  Behind(k, g)
    BY <2>1, <2>2, <2>4, <1>1, <1>8, <1>12
  <2> QED
    BY <2>1, <2>3, <2>4, <1>3 DEF a
<1> QED
  BY <1>9, <1>10, <1>11, <1>13, <1>14, <1>15, <1>16 DEF QInv, fs, Joins

\* A graphics frame takes the place of an older one of its image: what it passes
\* does not depend on it.
Replaces(qq, pp, f, key, at) ==
  /\ f.kind = "graphics" /\ key = <<f.pane, f.image>> /\ key \in DOMAIN qq.replacements
  /\ at = qq.replacements[key] - qq.base + 1
  /\ pp.entries = [qq.entries EXCEPT ![at] = Entry(f, key)]
  /\ pp.base = qq.base /\ pp.replacements = qq.replacements
  /\ pp.bytes = qq.bytes - qq.entries[at].bytes + f.bytes
  /\ pp.media = qq.media - qq.entries[at].media + f.media
  /\ pp.bytes <= Capacity /\ pp.media <= MediaCapacity

LEMMA ReplaceKeeps ==
  ASSUME NEW qq, NEW pp \in Queues(QueuedFrame, Keys), NEW n \in Nat, QInv(qq, n),
         NEW f \in QueuedFrame, f.id = n,
         NEW key, NEW at, Replaces(qq, pp, f, key, at)
  PROVE  QInv(pp, n + 1)
<1> DEFINE es == qq.entries
           fs == pp.entries
           N == Len(es)
           e == Entry(f, key)
<1>18. f.kind = "graphics" /\ key = <<f.pane, f.image>> /\ key \in DOMAIN qq.replacements
  BY DEF Replaces
<1>0. key \in Keys /\ key = inbound_replacement_key(f)
  BY <1>18, FrameFacts DEF inbound_replacement_key
<1>1. /\ qq \in Queues(QueuedFrame, Keys) /\ es \in Seq(Entries(QueuedFrame, Keys))
      /\ DOMAIN es = 1..N /\ qq.base \in Nat
  BY DEF QInv, Queues
<1>2. N \in Nat
  BY <1>1
<1>3. /\ e \in Entries(QueuedFrame, Keys) /\ e.frames = <<f>> /\ e.frames[1] = f
      /\ e.bytes = f.bytes /\ e.media = f.media /\ e.key = key
  BY <1>0, EntryFacts
<1> HIDE DEF e
<1>4. /\ Shape(es) /\ InOrder(es) /\ Fresh(es, n) /\ Apart(es) /\ Overtakes(es)
      /\ Guarded(qq) /\ Books(qq)
  BY DEF QInv
<1>5. at \in 1..N /\ es[at].key = key
  BY <1>1, <1>4, <1>18 DEF Guarded, Replaces
<1>6. /\ fs = [es EXCEPT ![at] = e] /\ DOMAIN fs = 1..N
      /\ \A i \in 1..N : fs[i] = IF i = at THEN e ELSE es[i]
  <2>1. fs = [es EXCEPT ![at] = e]
    BY DEF e, Replaces
  <2> QED
    BY <2>1, <1>1, <1>5
<1> HIDE DEF es, fs, N
<1>7. At(fs, at) = {f} /\ \A i \in 1..N : i # at => At(fs, i) = At(es, i)
  BY <1>3, <1>5, <1>6, RangeOne DEF At
<1>8. \A i \in 1..N : \A g \in At(es, i) : g \in QueuedFrame /\ g.id \in Nat /\ g.id < n
  BY <1>1, <1>4, FirstFacts, FrameFacts DEF Fresh
<1>9. Books(pp)
  <2>1. /\ pp.bytes = qq.bytes - qq.entries[at].bytes + e.bytes
        /\ pp.media = qq.media - qq.entries[at].media + e.media
    BY <1>3 DEF Replaces
  <2>2. at \in DOMAIN qq.entries /\ pp.entries = [qq.entries EXCEPT ![at] = e]
    BY <1>1, <1>5, <1>6 DEF es, fs
  <2> QED
    BY <1>1, <1>3, <1>4, <2>1, <2>2, UpdateBooks
<1>19. DOMAIN fs = 1..N /\ fs[at] = e /\ \A i \in 1..N : i # at => fs[i] = es[i]
  BY <1>5, <1>6
<1>10. Shape(fs)
  <2> SUFFICES ASSUME NEW i \in 1..N
               PROVE  /\ fs[i].frames # <<>>
                      /\ fs[i].key = inbound_replacement_key(fs[i].frames[1])
                      /\ \A g \in At(fs, i) :
                           \/ g = fs[i].frames[1]
                           \/ /\ Mergeable(g) /\ Mergeable(fs[i].frames[1])
                              /\ g.pane = fs[i].frames[1].pane
    BY <1>19 DEF Shape
  <2>1. CASE i # at
    BY <2>1, <1>1, <1>4, <1>7, <1>19 DEF Shape
  <2>2. CASE i = at
    BY <2>2, <1>0, <1>3, <1>7, <1>19
  <2> QED
    BY <2>1, <2>2
<1>11. InOrder(fs)
  BY <1>1, <1>3, <1>4, <1>6 DEF InOrder
<1>12. \A i \in 1..N : \A g \in At(fs, i) :
         (g \in At(es, i) /\ i # at) \/ (g = f /\ i = at)
  BY <1>7
<1>13. Fresh(fs, n + 1)
  BY <1>6, <1>8, <1>12 DEF Fresh
<1>14. Apart(fs)
  <2> SUFFICES ASSUME NEW i \in 1..N, NEW j \in 1..N,
                      NEW g \in At(fs, i), NEW h \in At(fs, j), g.id = h.id
               PROVE  i = j
    BY <1>19 DEF Apart
  <2>1. CASE g \in At(es, i) /\ h \in At(es, j)
    BY <2>1, <1>1, <1>4 DEF Apart
  <2>2. CASE g = f /\ i = at /\ h = f /\ j = at
    BY <2>2
  <2>3. CASE (g = f /\ h \in At(es, j)) \/ (h = f /\ g \in At(es, i))
    BY <2>3, <1>8
  <2> QED
    BY <2>1, <2>2, <2>3, <1>12
<1>15. \A j \in 1..N : \A g \in At(es, j) : j > at => Behind(key, g)
  BY <1>1, <1>4, <1>5, <1>18 DEF Guarded, es, Replaces
<1>16. Overtakes(fs)
  <2> SUFFICES ASSUME NEW i \in 1..N, NEW j \in 1..N, i < j,
                      NEW g \in At(fs, i), NEW h \in At(fs, j), h.id < g.id
               PROVE  Streams!MayOvertake(g, h)
    BY <1>19 DEF Overtakes
  <2>1. CASE g \in At(es, i) /\ h \in At(es, j)
    BY <2>1, <1>1, <1>4 DEF Overtakes
  <2>2. CASE h = f /\ g \in At(es, i)
    BY <2>2, <1>8
  <2>3. CASE g = f /\ i = at /\ h \in At(es, j)
    <3>1. Behind(key, h)
      BY <2>3, <1>15
    <3> QED
      BY <2>3, <3>1, <1>18 DEF Streams!MayOvertake, Behind
  <2> QED
    BY <2>1, <2>2, <2>3, <1>12
<1>17. Guarded(pp)
  <2> SUFFICES ASSUME NEW k \in DOMAIN qq.replacements
               PROVE  LET a == qq.replacements[k] - qq.base + 1
                      IN /\ a \in DOMAIN fs /\ fs[a].key = k
                         /\ \A j \in DOMAIN fs : \A g \in At(fs, j) :
                              (j > a \/ g.id > fs[a].frames[1].id) => Behind(k, g)
    BY DEF Guarded, fs, Replaces
  <2> DEFINE a == qq.replacements[k] - qq.base + 1
  <2>1. /\ a \in 1..N /\ es[a].key = k
        /\ \A j \in DOMAIN es : \A g \in At(es, j) :
             (j > a \/ g.id > es[a].frames[1].id) => Behind(k, g)
    BY <1>1, <1>4 DEF Guarded, es
  <2>2. k \in Keys
    BY <1>1 DEF Queues, Indexes
  <2>3. k = key => a = at
    BY DEF Replaces
  <2> HIDE DEF a
  <2>4. CASE k = key
    <3>1. a = at /\ fs[a].key = k /\ fs[a].frames[1].id = n
      BY <2>3, <2>4, <1>3, <1>5, <1>6
    <3>2. ASSUME NEW j \in 1..N, NEW g \in At(fs, j), j > a \/ g.id > fs[a].frames[1].id
          PROVE  Behind(k, g)
      <4>1. CASE g \in At(es, j) /\ j > a
        BY <4>1, <3>1, <2>4, <1>15
      <4>2. CASE g \in At(es, j) /\ g.id > n
        BY <4>2, <1>8
      <4>3. CASE g = f /\ j = at
        BY <4>3, <3>1, <3>2, <1>2, <1>5
      <4> QED
        BY <4>1, <4>2, <4>3, <3>1, <3>2, <1>12
    <3> QED
      BY <3>1, <3>2, <2>1, <1>6 DEF a
  <2>5. CASE k # key
    <3>1. a # at /\ fs[a] = es[a] /\ fs[a].key = k
      BY <2>1, <2>5, <1>5, <1>6
    <3>2. Behind(k, f)
      BY <2>2, <2>5, <1>18, KeyFacts DEF Behind
    <3>3. ASSUME NEW j \in 1..N, NEW g \in At(fs, j), j > a \/ g.id > fs[a].frames[1].id
          PROVE  Behind(k, g)
      BY <3>1, <3>2, <3>3, <2>1, <1>1, <1>12
    <3> QED
      BY <3>1, <3>3, <2>1, <1>6 DEF a
  <2> QED
    BY <2>4, <2>5
<1> QED
  BY <1>9, <1>10, <1>11, <1>13, <1>14, <1>16, <1>17 DEF QInv, fs, Replaces

\* What pop leaves: the rest of the entries, and the index without the one gone.
LEMMA PopFacts ==
  ASSUME NEW F, NEW K, NEW qq \in Queues(F, K), qq.entries # <<>>
  PROVE  /\ pop_front(qq) \in Queues(F, K)
         /\ pop_front(qq).entries = Tail(qq.entries) /\ pop_front(qq).base = qq.base + 1
         /\ pop_front(qq).bytes = qq.bytes - Head(qq.entries).bytes
         /\ pop_front(qq).media = qq.media - Head(qq.entries).media
         /\ \A k \in DOMAIN pop_front(qq).replacements :
              /\ k \in DOMAIN qq.replacements
              /\ pop_front(qq).replacements[k] = qq.replacements[k]
              /\ ~ (k = Head(qq.entries).key /\ k # NoKey /\ qq.replacements[k] = qq.base)
         /\ \A k \in DOMAIN qq.replacements :
              \/ k \in DOMAIN pop_front(qq).replacements
              \/ k = Head(qq.entries).key /\ k # NoKey /\ qq.replacements[k] = qq.base
<1> DEFINE front == Head(qq.entries)
           key == front.key
           named == key # NoKey /\ key \in DOMAIN qq.replacements /\ qq.replacements[key] = qq.base
           repl == IF named THEN Restrict(qq.replacements, DOMAIN qq.replacements \ {key})
                   ELSE qq.replacements
<1>1. PICK S \in SUBSET K : qq.replacements \in [S -> Nat]
  BY DEF Queues, Indexes
<1>2. DOMAIN qq.replacements = S
  BY <1>1
<1>3. repl \in Indexes(K)
  <2>1. CASE named
    <3>1. S \ {key} \in SUBSET K
      BY <1>1
    <3>2. Restrict(qq.replacements, S \ {key}) \in [S \ {key} -> Nat]
      BY <1>1 DEF Restrict
    <3> QED
      BY <2>1, <3>1, <3>2, <1>2 DEF Indexes
  <2>2. CASE ~ named
    BY <2>2, <1>1 DEF Indexes
  <2> QED
    BY <2>1, <2>2
<1>4. /\ \A k \in DOMAIN repl : /\ k \in S /\ repl[k] = qq.replacements[k]
                               /\ ~ (k = key /\ k # NoKey /\ qq.replacements[k] = qq.base)
      /\ \A k \in S : k \in DOMAIN repl \/ (k = key /\ k # NoKey /\ qq.replacements[k] = qq.base)
  <2>1. CASE named
    BY <2>1, <1>2 DEF Restrict
  <2>2. CASE ~ named
    BY <2>2, <1>2
  <2> QED
    BY <2>1, <2>2
<1>5. /\ qq.entries \in Seq(Entries(F, K)) /\ qq.base \in Nat
      /\ qq.bytes \in Int /\ qq.media \in Int
  BY DEF Queues
<1>6. front \in Entries(F, K) /\ Tail(qq.entries) \in Seq(Entries(F, K))
  BY <1>5
<1>7. front.bytes \in Nat /\ front.media \in Nat
  BY <1>6 DEF Entries
<1> HIDE DEF repl
<1> DEFINE rr == remove_front_index(qq)
<1>8. rr = [qq EXCEPT !.base = qq.base + 1, !.replacements = repl]
  BY Zenon DEF remove_front_index, repl
<1>9. /\ rr \in Queues(F, K) /\ rr.base = qq.base + 1 /\ rr.replacements = repl
      /\ rr.bytes = qq.bytes /\ rr.media = qq.media
  <2> HIDE DEF rr
  <2>1. qq.base + 1 \in Nat
    BY <1>5
  <2>2. rr \in Queues(F, K)
    BY <1>3, <1>8, <2>1 DEF Queues
  <2>3. rr.base = qq.base + 1 /\ rr.replacements = repl
    BY <1>8 DEF Queues
  <2>4. rr.bytes = qq.bytes /\ rr.media = qq.media
    BY <1>8 DEF Queues
  <2> QED
    BY <2>2, <2>3, <2>4
<1>10. pop_front(qq) = [rr EXCEPT !.entries = Tail(qq.entries), !.bytes = rr.bytes - front.bytes,
                                  !.media = rr.media - front.media]
  BY Zenon DEF pop_front
<1> DEFINE pp == pop_front(qq)
<1>11. /\ pp \in Queues(F, K) /\ pp.entries = Tail(qq.entries) /\ pp.base = qq.base + 1
       /\ pp.bytes = qq.bytes - front.bytes /\ pp.media = qq.media - front.media
       /\ pp.replacements = repl
  <2> HIDE DEF rr, pp, front
  <2>1. rr.bytes - front.bytes \in Int /\ rr.media - front.media \in Int
    BY <1>5, <1>7, <1>9
  <2>2. pp = [rr EXCEPT !.entries = Tail(qq.entries), !.bytes = rr.bytes - front.bytes,
                        !.media = rr.media - front.media]
    BY <1>10 DEF pp
  <2> QED
    BY <1>6, <1>9, <2>1, <2>2 DEF Queues
<1> HIDE DEF pp
<1>12. /\ \A k \in DOMAIN pp.replacements :
            /\ k \in DOMAIN qq.replacements /\ pp.replacements[k] = qq.replacements[k]
            /\ ~ (k = front.key /\ k # NoKey /\ qq.replacements[k] = qq.base)
       /\ \A k \in DOMAIN qq.replacements :
            \/ k \in DOMAIN pp.replacements
            \/ k = front.key /\ k # NoKey /\ qq.replacements[k] = qq.base
  BY <1>2, <1>4, <1>11
<1> QED
  BY <1>11, <1>12 DEF pp

\* The front entry leaves: whatever is queued and older may be overtaken.
LEMMA PopKeeps ==
  ASSUME NEW qq, NEW n \in Nat, QInv(qq, n), qq.entries # <<>>
  PROVE  QInv(pop_front(qq), n)
<1> DEFINE es == qq.entries
           pp == pop_front(qq)
           fs == pp.entries
           N == Len(es)
<1>1. /\ qq \in Queues(QueuedFrame, Keys) /\ es \in Seq(Entries(QueuedFrame, Keys))
      /\ DOMAIN es = 1..N /\ qq.base \in Nat /\ qq.bytes \in Int /\ qq.media \in Int
  BY DEF QInv, Queues
<1>2. N \in Nat /\ N > 0
  BY <1>1
<1>3. /\ pp \in Queues(QueuedFrame, Keys) /\ fs = Tail(es) /\ pp.base = qq.base + 1
      /\ pp.bytes = qq.bytes - Head(es).bytes /\ pp.media = qq.media - Head(es).media
      /\ \A k \in DOMAIN pp.replacements :
           /\ k \in DOMAIN qq.replacements
           /\ pp.replacements[k] = qq.replacements[k]
           /\ ~ (k = Head(es).key /\ k # NoKey /\ qq.replacements[k] = qq.base)
  BY <1>1, PopFacts
<1> HIDE DEF pp
<1>4. /\ Shape(es) /\ InOrder(es) /\ Fresh(es, n) /\ Apart(es) /\ Overtakes(es)
      /\ Guarded(qq) /\ Books(qq) /\ qq.bytes <= Capacity /\ qq.media <= MediaCapacity
  BY DEF QInv
<1>5. Head(es) = es[1] /\ es[1].bytes \in Nat /\ es[1].media \in Nat
  <2>1. Head(es) = es[1] /\ es[1] \in Entries(QueuedFrame, Keys)
    BY <1>1, <1>2
  <2> QED
    BY <2>1 DEF Entries
<1>6. DOMAIN fs = 1..(N - 1) /\ \A i \in 1..(N - 1) : fs[i] = es[i + 1] /\ i + 1 \in 1..N
  BY <1>1, <1>2, <1>3
<1>7. Books(pp) /\ pp.bytes <= Capacity /\ pp.media <= MediaCapacity
  <2>1. Books(pp)
    BY <1>1, <1>3, <1>4, TailBooks
  <2>2. pp.bytes <= Capacity /\ pp.media <= MediaCapacity
    BY <1>1, <1>3, <1>4, <1>5, CapacityAssumption
  <2> QED
    BY <2>1, <2>2
<1> HIDE DEF es, fs, N
<1>8. \A i \in 1..(N - 1) : At(fs, i) = At(es, i + 1)
  BY <1>6 DEF At
<1>9. Shape(fs)
  BY <1>1, <1>4, <1>6, <1>8 DEF Shape
<1>10. InOrder(fs)
  BY <1>1, <1>4, <1>6 DEF InOrder
<1>11. Fresh(fs, n)
  BY <1>1, <1>4, <1>6, <1>8 DEF Fresh
<1>12. Apart(fs)
  <2> SUFFICES ASSUME NEW i \in 1..(N - 1), NEW j \in 1..(N - 1),
                      NEW g \in At(fs, i), NEW h \in At(fs, j), g.id = h.id
               PROVE  i = j
    BY <1>6 DEF Apart
  <2>1. i + 1 = j + 1
    BY <1>1, <1>4, <1>6, <1>8 DEF Apart
  <2> QED
    BY <2>1, <1>2
<1>13. Overtakes(fs)
  <2> SUFFICES ASSUME NEW i \in 1..(N - 1), NEW j \in 1..(N - 1), i < j,
                      NEW g \in At(fs, i), NEW h \in At(fs, j), h.id < g.id
               PROVE  Streams!MayOvertake(g, h)
    BY <1>6 DEF Overtakes
  <2>1. i + 1 < j + 1 /\ i + 1 \in DOMAIN es /\ j + 1 \in DOMAIN es
    BY <1>1, <1>2, <1>6
  <2> QED
    BY <2>1, <1>4, <1>8 DEF Overtakes
<1>14. Guarded(pp)
  <2> SUFFICES ASSUME NEW k \in DOMAIN pp.replacements
               PROVE  LET a == pp.replacements[k] - pp.base + 1
                      IN /\ a \in DOMAIN fs /\ fs[a].key = k
                         /\ \A j \in DOMAIN fs : \A g \in At(fs, j) :
                              (j > a \/ g.id > fs[a].frames[1].id) => Behind(k, g)
    BY DEF Guarded, fs
  <2> DEFINE a == pp.replacements[k] - pp.base + 1
             b == qq.replacements[k] - qq.base + 1
  <2>1. /\ k \in DOMAIN qq.replacements /\ pp.replacements[k] = qq.replacements[k]
        /\ ~ (k = es[1].key /\ k # NoKey /\ qq.replacements[k] = qq.base)
    BY <1>3, <1>5
  <2>2. k \in Keys /\ qq.replacements[k] \in Nat
    BY <2>1, <1>1 DEF Queues, Indexes
  <2>3. /\ b \in 1..N /\ es[b].key = k
        /\ \A j \in DOMAIN es : \A g \in At(es, j) :
             (j > b \/ g.id > es[b].frames[1].id) => Behind(k, g)
    BY <2>1, <1>1, <1>4 DEF Guarded, es
  <2>4. a = b - 1 /\ (b = 1 <=> qq.replacements[k] = qq.base)
    <3>1. pp.base = qq.base + 1 /\ qq.base \in Nat
      BY <1>1, <1>3
    <3> QED
      BY <2>1, <2>2, <3>1
  <2> HIDE DEF a, b
  <2>5. b # 1
    BY <2>1, <2>2, <2>3, <2>4, KeyFacts
  <2>6. a \in 1..(N - 1) /\ b = a + 1
    BY <2>3, <2>4, <2>5, <1>2
  <2>7. ASSUME NEW j \in 1..(N - 1), NEW g \in At(fs, j), j > a \/ g.id > fs[a].frames[1].id
        PROVE  Behind(k, g)
    <3>1. j + 1 \in 1..N /\ g \in At(es, j + 1) /\ (j + 1 > b \/ g.id > es[b].frames[1].id)
      BY <2>6, <2>7, <1>2, <1>6, <1>8
    <3> QED
      BY <3>1, <2>3, <1>1
  <2> QED
    BY <2>3, <2>6, <2>7, <1>6 DEF a
<1> QED
  BY <1>3, <1>7, <1>9, <1>10, <1>11, <1>12, <1>13, <1>14 DEF QInv, fs, pp

----------------------------------------------------------------------------
(* A push is one of the three                                              *)

\* invalidate_replacements touches only the index.
LEMMA InvalidateFacts ==
  ASSUME NEW F, NEW K, NEW qq \in Queues(F, K), NEW doomed
  PROVE  LET pp == invalidate_replacements(qq, doomed)
         IN /\ pp \in Queues(F, K) /\ pp.entries = qq.entries /\ pp.base = qq.base
            /\ pp.bytes = qq.bytes /\ pp.media = qq.media
            /\ DOMAIN pp.replacements = DOMAIN qq.replacements \ doomed
            /\ \A k \in DOMAIN pp.replacements : pp.replacements[k] = qq.replacements[k]
<1> DEFINE repl == Restrict(qq.replacements, DOMAIN qq.replacements \ doomed)
           pp == invalidate_replacements(qq, doomed)
<1>1. PICK S \in SUBSET K : qq.replacements \in [S -> Nat]
  BY DEF Queues, Indexes
<1>2. /\ DOMAIN qq.replacements = S /\ repl \in [S \ doomed -> Nat]
      /\ \A k \in S \ doomed : repl[k] = qq.replacements[k]
  BY <1>1 DEF Restrict
<1>3. repl \in Indexes(K)
  BY <1>1, <1>2 DEF Indexes
<1> HIDE DEF repl
<1>4. pp = [qq EXCEPT !.replacements = repl]
  BY Zenon DEF invalidate_replacements, repl
<1> HIDE DEF pp
<1>5. pp \in Queues(F, K)
  BY <1>3, <1>4 DEF Queues
<1>6. /\ pp.entries = qq.entries /\ pp.base = qq.base
      /\ pp.bytes = qq.bytes /\ pp.media = qq.media /\ pp.replacements = repl
  BY <1>4 DEF Queues
<1>7. DOMAIN repl = S \ doomed
  BY <1>2
<1> QED
  BY <1>2, <1>5, <1>6, <1>7 DEF pp

\* What a frame leaves of the index: for anything but graphics, only entries that
\* nothing in the frame depends on.
LEMMA InvalidatedFacts ==
  ASSUME NEW f \in QueuedFrame, q \in Queues(QueuedFrame, Keys)
  PROVE  LET pp == Invalidated(f)
         IN /\ pp \in Queues(QueuedFrame, Keys) /\ pp.entries = q.entries /\ pp.base = q.base
            /\ pp.bytes = q.bytes /\ pp.media = q.media
            /\ f.kind = "graphics" => pp = q
            /\ \A k \in DOMAIN pp.replacements :
                 /\ k \in DOMAIN q.replacements /\ pp.replacements[k] = q.replacements[k]
                 /\ f.kind # "graphics" => Behind(k, f)
<1> DEFINE pp == Invalidated(f)
<1>1. \A k \in DOMAIN q.replacements : k \in Keys /\ k[1] # "none"
  BY KeyFacts DEF Queues, Indexes
<1>2. CASE f.kind = "mark"
  <2>1. pp = invalidate_replacements(q, DOMAIN q.replacements)
    BY <1>2 DEF Invalidated
  <2> HIDE DEF pp
  <2>2. /\ pp \in Queues(QueuedFrame, Keys) /\ pp.entries = q.entries /\ pp.base = q.base
        /\ pp.bytes = q.bytes /\ pp.media = q.media /\ DOMAIN pp.replacements = {}
    BY <2>1, InvalidateFacts
  <2> QED
    BY <2>2, <1>2 DEF pp
<1>3. CASE f.kind \in {"output", "reset"}
  <2>1. pp = invalidate_replacements(q, KeysOf(f.pane))
    BY <1>3 DEF Invalidated
  <2> HIDE DEF pp
  <2>2. /\ pp \in Queues(QueuedFrame, Keys) /\ pp.entries = q.entries /\ pp.base = q.base
        /\ pp.bytes = q.bytes /\ pp.media = q.media
        /\ DOMAIN pp.replacements = DOMAIN q.replacements \ KeysOf(f.pane)
        /\ \A k \in DOMAIN pp.replacements : pp.replacements[k] = q.replacements[k]
    BY <2>1, InvalidateFacts
  <2>3. \A k \in DOMAIN pp.replacements : k \in DOMAIN q.replacements /\ Behind(k, f)
    BY <2>2, <1>3 DEF Behind, KeysOf
  <2> QED
    BY <2>2, <2>3, <1>3 DEF pp
<1>4. CASE f.kind \notin {"mark", "output", "reset"}
  <2>1. pp = q
    BY <1>4 DEF Invalidated
  <2>2. f.kind # "graphics" => f.pane = "none"
    BY <1>4, FrameFacts
  <2>3. \A k \in DOMAIN q.replacements : f.kind # "graphics" => Behind(k, f)
    BY <2>2, <1>1, <1>4 DEF Behind
  <2> HIDE DEF pp
  <2> QED
    BY <2>1, <2>3 DEF pp
<1> QED
  BY <1>2, <1>3, <1>4

\* The index finds the entry it names, and nothing without a key.
LEMMA IndexFacts ==
  ASSUME NEW qq, Guarded(qq), NEW key
  PROVE  /\ key # NoKey /\ key \in DOMAIN qq.replacements =>
              /\ replacement_index(qq, key) = qq.replacements[key] - qq.base + 1
              /\ replacement_index(qq, key) \in DOMAIN qq.entries
         /\ ~ (key # NoKey /\ key \in DOMAIN qq.replacements) => replacement_index(qq, key) = 0
BY DEF Guarded, replacement_index

\* What a successor of this key gives back: the weight of the entry it replaces.
LEMMA WeightFacts ==
  ASSUME NEW qq \in Queues(QueuedFrame, Keys), Guarded(qq), NEW key
  PROVE  LET at == qq.replacements[key] - qq.base + 1
             w == replacement_weight(qq, key)
         IN /\ key # NoKey /\ key \in DOMAIN qq.replacements =>
                 /\ at \in DOMAIN qq.entries
                 /\ w.bytes = qq.entries[at].bytes /\ w.media = qq.entries[at].media
            /\ ~ (key # NoKey /\ key \in DOMAIN qq.replacements) => w.bytes = 0 /\ w.media = 0
<1> DEFINE at == qq.replacements[key] - qq.base + 1
<1>1. CASE key # NoKey /\ key \in DOMAIN qq.replacements
  <2>1. replacement_index(qq, key) = at /\ at \in DOMAIN qq.entries
    BY <1>1, IndexFacts
  <2>2. at # 0
    <3>1. qq.entries \in Seq(Entries(QueuedFrame, Keys))
      BY DEF Queues
    <3>2. DOMAIN qq.entries = 1..Len(qq.entries) /\ Len(qq.entries) \in Nat
      BY <3>1
    <3> QED
      BY <2>1, <3>2
  <2> QED
    BY <1>1, <2>1, <2>2 DEF replacement_weight
<1>2. CASE ~ (key # NoKey /\ key \in DOMAIN qq.replacements)
  BY <1>2, IndexFacts DEF replacement_weight, NoWeight
<1> QED
  BY <1>1, <1>2

\* The backward scan stops at output of the same pane with nothing but output of
\* other panes behind it, or finds nothing.
LEMMA MergeFacts ==
  ASSUME NEW S, NEW es \in Seq(S), NEW f
  PROVE  LET at == MergeTarget(es, f)
         IN \/ at = 0
            \/ /\ at \in DOMAIN es /\ Mergeable(f) /\ Mergeable(es[at].frames[1])
               /\ es[at].frames[1].pane = f.pane
               /\ \A j \in DOMAIN es :
                    j > at => Mergeable(es[j].frames[1]) /\ es[j].frames[1].pane # f.pane
<1> DEFINE verdict(i) == Scan(es[i], f, i = Len(es))
           targets == {i \in DOMAIN es :
                         /\ verdict(i) = "merged"
                         /\ \A j \in (i + 1)..Len(es) : verdict(j) = "continue"}
           at == MergeTarget(es, f)
<1>1. Len(es) \in Nat /\ DOMAIN es = 1..Len(es)
  OBVIOUS
<1>2. at = IF targets = {} THEN 0 ELSE CHOOSE i \in targets : TRUE
  BY DEF MergeTarget
<1>3. \A i : /\ verdict(i) = "merged" => /\ Mergeable(es[i].frames[1]) /\ Mergeable(f)
                                        /\ es[i].frames[1].pane = f.pane
             /\ verdict(i) = "continue" => /\ Mergeable(es[i].frames[1])
                                          /\ es[i].frames[1].pane # f.pane
  BY DEF Scan
<1> HIDE DEF verdict
<1>4. ASSUME NEW i \in targets
      PROVE  /\ i \in DOMAIN es /\ Mergeable(f) /\ Mergeable(es[i].frames[1])
             /\ es[i].frames[1].pane = f.pane
             /\ \A j \in DOMAIN es :
                  j > i => Mergeable(es[j].frames[1]) /\ es[j].frames[1].pane # f.pane
  <2>1. \A j \in DOMAIN es : j > i => j \in (i + 1)..Len(es)
    BY <1>1
  <2> QED
    BY <2>1, <1>3
<1> HIDE DEF targets, at
<1>5. CASE targets = {}
  BY <1>2, <1>5 DEF at
<1>6. CASE targets # {}
  <2>1. at \in targets
    BY <1>2, <1>6
  <2> QED
    BY <2>1, <1>4 DEF at
<1> QED
  BY <1>5, <1>6

\* push_latest replaces the entry of its key, or appends and indexes a new one.
LEMMA LatestFacts ==
  ASSUME NEW qq, NEW n \in Nat, QInv(qq, n), NEW f \in QueuedFrame, f.kind = "graphics",
         NEW key, key = <<f.pane, f.image>>,
         fits_in_state(qq, f, replacement_weight(qq, key))
  PROVE  LET pp == push_latest(qq, f, key)
         IN /\ pp \in Queues(QueuedFrame, Keys)
            /\ \/ \E at : Replaces(qq, pp, f, key, at)
               \/ Appends(qq, pp, f)
<1> DEFINE pp == push_latest(qq, f, key)
           at == qq.replacements[key] - qq.base + 1
           w == replacement_weight(qq, key)
           es == qq.entries
           e == Entry(f, key)
           b == saturating_sub(qq.bytes, w.bytes) + f.bytes
           m == saturating_sub(qq.media, w.media) + f.media
           weighed == [qq EXCEPT !.bytes = b, !.media = m]
<1>1. qq \in Queues(QueuedFrame, Keys) /\ Guarded(qq) /\ Books(qq)
  BY DEF QInv
<1>2. /\ es \in Seq(Entries(QueuedFrame, Keys)) /\ qq.base \in Nat
      /\ qq.replacements \in Indexes(Keys)
  BY <1>1 DEF Queues
<1>3. key \in Keys /\ key # NoKey /\ key = inbound_replacement_key(f)
  <2>1. key \in Keys
    BY FrameFacts
  <2> QED
    BY <2>1, KeyFacts DEF inbound_replacement_key
<1>4. e \in Entries(QueuedFrame, Keys)
  BY <1>3, EntryFacts
<1>5. /\ qq.bytes \in Nat /\ qq.media \in Nat
      /\ \A i \in DOMAIN es : /\ es[i].bytes <= qq.bytes /\ es[i].media <= qq.media
                              /\ es[i].bytes \in Nat /\ es[i].media \in Nat
  <2>1. \A i \in DOMAIN es : es[i] \in Entries(QueuedFrame, Keys)
    BY <1>2
  <2>2. \A i \in DOMAIN es : es[i].bytes \in Nat /\ es[i].media \in Nat
    BY <2>1 DEF Entries
  <2> QED
    BY <1>1, <2>2, BooksBound
<1>6. f.bytes \in Nat /\ f.media \in Nat
  BY FrameFacts
<1>7. b <= Capacity /\ m <= MediaCapacity
  BY DEF fits_in_state
<1> HIDE DEF w, e
<1>8. CASE key \in DOMAIN qq.replacements
  <2>1. /\ at \in DOMAIN es /\ replacement_index(qq, key) = at
        /\ w.bytes = es[at].bytes /\ w.media = es[at].media
    BY <1>1, <1>3, <1>8, IndexFacts, WeightFacts DEF w
  <2> HIDE DEF at
  <2>2. b = qq.bytes - es[at].bytes + f.bytes /\ m = qq.media - es[at].media + f.media
    BY <2>1, <1>5 DEF saturating_sub
  <2>3. b \in Int /\ m \in Int
    BY <2>1, <2>2, <1>5, <1>6
  <2> HIDE DEF b, m
  <2>4. at # 0
    BY <2>1, <1>2
  <2>5. pp = [weighed EXCEPT !.entries[at] = e]
    BY <2>1, <2>4 DEF push_latest, w, e, b, m
  <2>6. weighed \in Queues(QueuedFrame, Keys) /\ weighed.entries = es
    BY <1>1, <2>3 DEF Queues
  <2>7. [es EXCEPT ![at] = e] \in Seq(Entries(QueuedFrame, Keys))
    BY <1>2, <1>4, <2>1
  <2> HIDE DEF pp
  <2>8. pp = [qq EXCEPT !.bytes = b, !.media = m, !.entries = [es EXCEPT ![at] = e]]
    BY <2>5, <2>6, <1>1 DEF Queues
  <2>9. pp \in Queues(QueuedFrame, Keys)
    BY <1>1, <2>3, <2>7, <2>8 DEF Queues
  <2>10. /\ pp.entries = [es EXCEPT ![at] = e] /\ pp.base = qq.base
         /\ pp.replacements = qq.replacements /\ pp.bytes = b /\ pp.media = m
    BY <1>1, <2>8 DEF Queues
  <2>11. Replaces(qq, pp, f, key, at)
    BY <2>2, <2>10, <1>3, <1>7, <1>8 DEF Replaces, at, e
  <2> QED
    BY <2>9, <2>11 DEF pp
<1>9. CASE key \notin DOMAIN qq.replacements
  <2>1. replacement_index(qq, key) = 0 /\ w.bytes = 0 /\ w.media = 0
    BY <1>1, <1>9, IndexFacts, WeightFacts DEF w
  <2>2. b = qq.bytes + f.bytes /\ m = qq.media + f.media
    BY <2>1, <1>5 DEF saturating_sub
  <2>3. b \in Int /\ m \in Int
    BY <2>2, <1>5, <1>6
  <2> HIDE DEF b, m, at
  <2> DEFINE idx == Indexed(qq, key)
  <2>4. pp = [weighed EXCEPT !.replacements = idx, !.entries = Append(weighed.entries, e)]
    BY <2>1 DEF push_latest, w, e, b, m
  <2>5. /\ DOMAIN idx = DOMAIN qq.replacements \cup {key}
        /\ \A k \in DOMAIN idx : idx[k] = IF k = key THEN qq.base + Len(es) ELSE qq.replacements[k]
    BY <1>3 DEF Indexed
  <2>6. idx \in Indexes(Keys)
    <3>1. PICK S \in SUBSET Keys : qq.replacements \in [S -> Nat]
      BY <1>2 DEF Indexes
    <3>2. idx = [k \in S \cup {key} |-> IF k = key THEN qq.base + Len(es) ELSE qq.replacements[k]]
      BY <3>1, <1>3 DEF Indexed
    <3>3. qq.base + Len(es) \in Nat
      BY <1>2
    <3>4. idx \in [S \cup {key} -> Nat] /\ S \cup {key} \in SUBSET Keys
      BY <3>1, <3>2, <3>3, <1>3
    <3> QED
      BY <3>4 DEF Indexes
  <2> HIDE DEF idx, pp
  <2>7. weighed \in Queues(QueuedFrame, Keys) /\ weighed.entries = es
    BY <1>1, <2>3 DEF Queues
  <2>8. Append(es, e) \in Seq(Entries(QueuedFrame, Keys))
    BY <1>2, <1>4
  <2>9. pp \in Queues(QueuedFrame, Keys)
    BY <2>4, <2>6, <2>7, <2>8 DEF Queues
  <2>10. /\ pp.entries = Append(es, e) /\ pp.base = qq.base
         /\ pp.replacements = idx /\ pp.bytes = b /\ pp.media = m
    BY <1>1, <2>4, <2>7 DEF Queues
  <2>11. ASSUME NEW k \in DOMAIN qq.replacements
         PROVE  Behind(k, f)
    <3>1. k \in Keys /\ k # key
      BY <1>2, <1>9 DEF Indexes
    <3> QED
      BY <3>1, KeyFacts DEF Behind
  <2>12. Appends(qq, pp, f)
    BY <2>2, <2>5, <2>10, <2>11, <1>3, <1>7 DEF Appends, e
  <2> QED
    BY <2>9, <2>12 DEF pp
<1> QED
  BY <1>8, <1>9

\* push_within_segment joins the entry that the scan found, or appends.
LEMMA SegmentFacts ==
  ASSUME NEW qq, NEW n \in Nat, QInv(qq, n), NEW f \in QueuedFrame, f.kind # "graphics",
         NEW cc \in Queues(QueuedFrame, Keys), cc.entries = qq.entries, cc.base = qq.base,
         cc.bytes = qq.bytes, cc.media = qq.media,
         \A k \in DOMAIN cc.replacements :
           /\ k \in DOMAIN qq.replacements /\ cc.replacements[k] = qq.replacements[k]
           /\ Behind(k, f),
         qq.bytes + f.bytes <= Capacity, qq.media + f.media <= MediaCapacity
  PROVE  LET pp == push_within_segment(cc, f, MergeTarget(cc.entries, f))
         IN /\ pp \in Queues(QueuedFrame, Keys)
            /\ \/ \E at, e : e \in Entries(QueuedFrame, Keys) /\ Joins(qq, pp, f, at, e)
               \/ Appends(qq, pp, f)
<1> DEFINE es == cc.entries
           at == MergeTarget(es, f)
           pp == push_within_segment(cc, f, at)
           b == cc.bytes + f.bytes
           m == cc.media + f.media
<1>1. es \in Seq(Entries(QueuedFrame, Keys)) /\ cc.bytes \in Int /\ cc.media \in Int
  BY DEF Queues
<1>2. f.bytes \in Nat /\ f.media \in Nat
  BY FrameFacts
<1>3. b \in Int /\ m \in Int
  BY <1>1, <1>2
<1>4. inbound_replacement_key(f) = NoKey
  BY DEF inbound_replacement_key
<1>5. CASE at = 0
  <2> DEFINE e == Entry(f, NoKey)
  <2>1. e \in Entries(QueuedFrame, Keys)
    BY EntryFacts
  <2>2. pp = [cc EXCEPT !.bytes = b, !.media = m, !.entries = Append(es, e)]
    BY <1>5, Zenon DEF push_within_segment
  <2>3. Append(es, e) \in Seq(Entries(QueuedFrame, Keys))
    BY <1>1, <2>1
  <2> HIDE DEF e, pp, at, b, m
  <2>4. pp \in Queues(QueuedFrame, Keys)
    BY <1>3, <2>2, <2>3 DEF Queues
  <2>5. /\ pp.entries = Append(es, e) /\ pp.base = cc.base
        /\ pp.replacements = cc.replacements /\ pp.bytes = b /\ pp.media = m
    BY <2>2 DEF Queues
  <2>6. Appends(qq, pp, f)
    BY <2>5, <1>4 DEF Appends, e, b, m
  <2> QED
    BY <2>4, <2>6 DEF pp, at
<1>6. CASE at # 0
  <2> DEFINE e == [es[at] EXCEPT !.frames = Append(es[at].frames, f),
                                 !.bytes = es[at].bytes + f.bytes, !.media = es[at].media + f.media]
  <2>1. /\ at \in DOMAIN es /\ Mergeable(f) /\ Mergeable(es[at].frames[1])
        /\ es[at].frames[1].pane = f.pane
        /\ \A j \in DOMAIN es :
             j > at => Mergeable(es[j].frames[1]) /\ es[j].frames[1].pane # f.pane
    BY <1>1, <1>6, MergeFacts
  <2>2. pp = [cc EXCEPT !.bytes = b, !.media = m, !.entries = [es EXCEPT ![at] = e]]
    <3>1. pp = [cc EXCEPT !.bytes = b, !.media = m,
                          !.entries = IF at # 0 THEN [es EXCEPT ![at] = e]
                                      ELSE Append(es, Entry(f, NoKey))]
      BY DEF push_within_segment
    <3> HIDE DEF at, pp, b, m, e
    <3> QED
      BY <3>1, <1>6, Zenon
  <2> HIDE DEF at, pp, b, m
  <2>3. es[at] \in Entries(QueuedFrame, Keys)
    BY <1>1, <2>1
  <2>4. /\ es[at].frames \in Seq(QueuedFrame) /\ es[at].bytes \in Nat /\ es[at].media \in Nat
    BY <2>3 DEF Entries
  <2>5. /\ Append(es[at].frames, f) \in Seq(QueuedFrame)
        /\ es[at].bytes + f.bytes \in Nat /\ es[at].media + f.media \in Nat
    BY <2>4, <1>2
  <2>6. /\ e \in Entries(QueuedFrame, Keys) /\ e.frames = Append(es[at].frames, f)
        /\ e.bytes = es[at].bytes + f.bytes /\ e.media = es[at].media + f.media
        /\ e.key = es[at].key
    BY <2>3, <2>5 DEF Entries
  <2> HIDE DEF e
  <2>7. [es EXCEPT ![at] = e] \in Seq(Entries(QueuedFrame, Keys))
    BY <1>1, <2>1, <2>6
  <2>8. pp \in Queues(QueuedFrame, Keys)
    BY <1>3, <2>2, <2>7 DEF Queues
  <2>9. /\ pp.entries = [es EXCEPT ![at] = e] /\ pp.base = cc.base
        /\ pp.replacements = cc.replacements /\ pp.bytes = b /\ pp.media = m
    BY <2>2 DEF Queues
  <2>10. Joins(qq, pp, f, at, e)
    BY <2>1, <2>6, <2>9 DEF Joins, b, m
  <2> QED
    BY <2>6, <2>8, <2>10 DEF pp, at
<1> QED
  BY <1>5, <1>6

\* enqueue_inbound_frame on a queue with room is one of the three.
Enqueues(qq, pp, f) ==
  \/ \E key, at : Replaces(qq, pp, f, key, at)
  \/ \E at, e : e \in Entries(QueuedFrame, Keys) /\ Joins(qq, pp, f, at, e)
  \/ Appends(qq, pp, f)

LEMMA EnqueuedFacts ==
  ASSUME QInv(q, next), next \in Nat, NEW f \in QueuedFrame,
         fits_in_state(q, f, replacement_weight(Invalidated(f), inbound_replacement_key(f)))
  PROVE  Enqueued(f) \in Queues(QueuedFrame, Keys) /\ Enqueues(q, Enqueued(f), f)
<1> DEFINE cc == Invalidated(f)
<1>1. q \in Queues(QueuedFrame, Keys) /\ Guarded(q) /\ Books(q)
  BY DEF QInv
<1>2. /\ cc \in Queues(QueuedFrame, Keys) /\ cc.entries = q.entries /\ cc.base = q.base
      /\ cc.bytes = q.bytes /\ cc.media = q.media
      /\ f.kind = "graphics" => cc = q
      /\ \A k \in DOMAIN cc.replacements :
           /\ k \in DOMAIN q.replacements /\ cc.replacements[k] = q.replacements[k]
           /\ f.kind # "graphics" => Behind(k, f)
  BY <1>1, InvalidatedFacts
<1> HIDE DEF cc
<1>3. CASE f.kind = "graphics"
  <2> DEFINE key == <<f.pane, f.image>>
  <2>1. key = inbound_replacement_key(f) /\ key # NoKey
    <3>1. key \in Keys
      BY <1>3, FrameFacts
    <3> QED
      BY <3>1, <1>3, KeyFacts DEF inbound_replacement_key
  <2> HIDE DEF key
  <2>2. Enqueued(f) = push_latest(q, f, key)
    BY <2>1, <1>2, <1>3 DEF Enqueued, cc
  <2>3. fits_in_state(q, f, replacement_weight(q, key))
    BY <2>1, <1>2, <1>3 DEF cc
  <2> QED
    BY <2>2, <2>3, <1>3, LatestFacts DEF Enqueues, key
<1>4. CASE f.kind # "graphics"
  <2>1. inbound_replacement_key(f) = NoKey
    BY <1>4 DEF inbound_replacement_key
  <2>2. Enqueued(f) = push_within_segment(cc, f, MergeTarget(cc.entries, f))
    BY <2>1 DEF Enqueued, cc
  <2>3. replacement_weight(cc, NoKey).bytes = 0 /\ replacement_weight(cc, NoKey).media = 0
    BY DEF replacement_weight, replacement_index, NoWeight
  <2>4. q.bytes \in Nat /\ q.media \in Nat /\ f.bytes \in Nat /\ f.media \in Nat
    <3>1. f.bytes \in Nat /\ f.media \in Nat
      BY FrameFacts
    <3> QED
      BY <3>1, <1>1, BooksBound
  <2>5. q.bytes + f.bytes <= Capacity /\ q.media + f.media <= MediaCapacity
    BY <2>1, <2>3, <2>4 DEF fits_in_state, saturating_sub, cc
  <2> QED
    <3>1. \A k \in DOMAIN cc.replacements :
            /\ k \in DOMAIN q.replacements /\ cc.replacements[k] = q.replacements[k]
            /\ Behind(k, f)
      BY <1>2, <1>4
    <3>2. LET pp == push_within_segment(cc, f, MergeTarget(cc.entries, f))
          IN /\ pp \in Queues(QueuedFrame, Keys)
             /\ \/ \E at, e : e \in Entries(QueuedFrame, Keys) /\ Joins(q, pp, f, at, e)
                \/ Appends(q, pp, f)
      BY <2>5, <3>1, <1>2, <1>4, SegmentFacts
    <3> QED
      BY <2>2, <3>2 DEF Enqueues
<1> QED
  BY <1>3, <1>4

\* Whichever it is, the queue's invariant holds of the next number.
LEMMA EnqueuesKeep ==
  ASSUME NEW qq, NEW pp \in Queues(QueuedFrame, Keys), NEW n \in Nat, QInv(qq, n),
         NEW f \in QueuedFrame, f.id = n, Enqueues(qq, pp, f)
  PROVE  QInv(pp, n + 1)
BY AppendKeeps, JoinKeeps, ReplaceKeeps DEF Enqueues

----------------------------------------------------------------------------
(* The steps that leave the queue alone                                    *)

\* A step that changes only who stands where.
LEMMA QueueUntouched ==
  ASSUME QInv(q, next), UNCHANGED <<q, next>>
  PROVE  QInv(q, next)'
BY DEF QInv, Guarded

USE DEF Actors, ReaderStates, UiStates, WriterStates, AttachStates, DropperStates, Holding, Goto

LEMMA ScheduleStep ==
  ASSUME Inv, NEW p \in {"reader", "writer", "attach", "ui"}, Schedule(p)
  PROVE  Inv'
<1> USE DEF Schedule, Return
<1>1. QInv(q, next)'
  BY QueueUntouched DEF Inv
<1>2. ControlInv'
  BY DEF Inv, ControlInv
<1>3. EndInv'
  BY DEF Inv, ControlInv, EndInv, EndDue
<1>4. NumberInv'
  BY DEF Inv, ControlInv, NumberInv, EndDue
<1>5. RoomKept'
  BY DEF Inv, ControlInv, RoomKept
<1>6. NoLostWakeup'
  BY DEF Inv, ControlInv, NoLostWakeup
<1>7. OneDrain'
  BY DEF Inv, ControlInv, OneDrain
<1> QED
  BY <1>1, <1>2, <1>3, <1>4, <1>5, <1>6, <1>7 DEF Inv

LEMMA CloseStep ==
  ASSUME Inv, NEW p \in {"reader", "writer"}, Close(p)
  PROVE  Inv'
<1> USE DEF Close
<1>1. QInv(q, next)'
  BY QueueUntouched DEF Inv
<1>2. ControlInv'
  BY DEF Inv, ControlInv
<1>3. EndInv'
  BY DEF Inv, ControlInv, EndInv, EndDue
<1>4. NumberInv'
  BY DEF Inv, ControlInv, NumberInv, EndInv, EndDue
<1>5. RoomKept'
  BY DEF Inv, ControlInv, RoomKept
<1>6. NoLostWakeup'
  BY DEF Inv, ControlInv, NoLostWakeup
<1>7. OneDrain'
  BY DEF Inv, ControlInv, OneDrain
<1> QED
  BY <1>1, <1>2, <1>3, <1>4, <1>5, <1>6, <1>7 DEF Inv

\* A frame is decoded while a number is left for it.
LEMMA ReadStep ==
  ASSUME Inv, NEW f \in Frames, Read(f)
  PROVE  Inv'
<1> USE DEF Read
<1>1. QInv(q, next)'
  BY QueueUntouched DEF Inv
<1>2. ControlInv'
  BY DEF Inv, ControlInv
<1>3. EndInv'
  BY DEF Inv, ControlInv, EndInv, EndDue
<1>4. NumberInv'
  BY FramesAssumption DEF Inv, ControlInv, NumberInv, EndInv, EndDue
<1>5. RoomKept'
  BY DEF Inv, ControlInv, RoomKept
<1>6. NoLostWakeup'
  BY DEF Inv, ControlInv, NoLostWakeup
<1>7. OneDrain'
  BY DEF Inv, ControlInv, OneDrain
<1> QED
  BY <1>1, <1>2, <1>3, <1>4, <1>5, <1>6, <1>7 DEF Inv

\* The reader gives up: it held no room, or lets it go.
LEMMA LeaveStep ==
  ASSUME Inv, pc["reader"] \in {"read", "offer", "push"}, Leave
  PROVE  Inv'
<1> USE DEF Leave
<1>1. QInv(q, next)'
  BY QueueUntouched DEF Inv
<1>2. ControlInv'
  BY DEF Inv, ControlInv
<1>3. EndInv'
  BY DEF Inv, ControlInv, EndInv, EndDue
<1>4. NumberInv'
  BY DEF Inv, ControlInv, NumberInv, EndInv, EndDue
<1>5. RoomKept'
  BY DEF Inv, ControlInv, RoomKept
<1>6. NoLostWakeup'
  BY DEF Inv, ControlInv, NoLostWakeup
<1>7. OneDrain'
  BY DEF Inv, ControlInv, OneDrain
<1> QED
  BY <1>1, <1>2, <1>3, <1>4, <1>5, <1>6, <1>7 DEF Inv

\* The room that is granted is there.
LEMMA OfferStep ==
  ASSUME Inv, Offer
  PROVE  Inv'
<1> USE DEF Offer
<1>1. QInv(q, next)'
  BY QueueUntouched DEF Inv
<1>2. ControlInv'
  BY DEF Inv, ControlInv
<1>3. EndInv'
  BY DEF Inv, ControlInv, EndInv, EndDue
<1>4. NumberInv'
  BY DEF Inv, ControlInv, NumberInv, EndInv, EndDue
<1>5. RoomKept'
  BY DEF Inv, ControlInv, RoomKept
<1>6. NoLostWakeup'
  BY DEF Inv, ControlInv, NoLostWakeup
<1>7. OneDrain'
  BY DEF Inv, ControlInv, OneDrain
<1> QED
  BY <1>1, <1>2, <1>3, <1>4, <1>5, <1>6, <1>7 DEF Inv

\* The writer fails the mailbox.
LEMMA WriteFailsStep ==
  ASSUME Inv, WriteFails
  PROVE  Inv'
<1> USE DEF WriteFails
<1>1. QInv(q, next)'
  BY QueueUntouched DEF Inv
<1>2. ControlInv'
  BY DEF Inv, ControlInv
<1>3. EndInv'
  BY DEF Inv, ControlInv, EndInv, EndDue
<1>4. NumberInv'
  BY DEF Inv, ControlInv, NumberInv, EndInv, EndDue
<1>5. RoomKept'
  BY DEF Inv, ControlInv, RoomKept
<1>6. NoLostWakeup'
  BY DEF Inv, ControlInv, NoLostWakeup
<1>7. OneDrain'
  BY DEF Inv, ControlInv, OneDrain
<1> QED
  BY <1>1, <1>2, <1>3, <1>4, <1>5, <1>6, <1>7 DEF Inv

\* Activation schedules the drain of what is already queued.
LEMMA ActivateStep ==
  ASSUME Inv, Activate
  PROVE  Inv'
<1> USE DEF Activate
<1>1. QInv(q, next)'
  BY QueueUntouched DEF Inv
<1>2. ControlInv'
  BY DEF Inv, ControlInv
<1>3. EndInv'
  BY DEF Inv, ControlInv, EndInv, EndDue
<1>4. NumberInv'
  BY DEF Inv, ControlInv, NumberInv, EndInv, EndDue
<1>5. RoomKept'
  BY DEF Inv, ControlInv, RoomKept
<1>6. NoLostWakeup'
  BY DEF Inv, ControlInv, NoLostWakeup
<1>7. OneDrain'
  BY DEF Inv, ControlInv, OneDrain
<1> QED
  BY <1>1, <1>2, <1>3, <1>4, <1>5, <1>6, <1>7 DEF Inv

\* The transport is let go.
LEMMA SignalStep ==
  ASSUME Inv, Signal
  PROVE  Inv'
<1> USE DEF Signal
<1>1. QInv(q, next)'
  BY QueueUntouched DEF Inv
<1>2. ControlInv'
  BY DEF Inv, ControlInv
<1>3. EndInv'
  BY DEF Inv, ControlInv, EndInv, EndDue
<1>4. NumberInv'
  BY DEF Inv, ControlInv, NumberInv, EndInv, EndDue
<1>5. RoomKept'
  BY DEF Inv, ControlInv, RoomKept
<1>6. NoLostWakeup'
  BY DEF Inv, ControlInv, NoLostWakeup
<1>7. OneDrain'
  BY DEF Inv, ControlInv, OneDrain
<1> QED
  BY <1>1, <1>2, <1>3, <1>4, <1>5, <1>6, <1>7 DEF Inv

\* A sleeping reader looks again.
LEMMA WakeStep ==
  ASSUME Inv, Wake
  PROVE  Inv'
<1> USE DEF Wake, Woken
<1>1. QInv(q, next)'
  BY QueueUntouched DEF Inv
<1>2. ControlInv'
  BY DEF Inv, ControlInv
<1>3. EndInv'
  BY DEF Inv, ControlInv, EndInv, EndDue
<1>4. NumberInv'
  BY DEF Inv, ControlInv, NumberInv, EndInv, EndDue
<1>5. RoomKept'
  BY DEF Inv, ControlInv, RoomKept
<1>6. NoLostWakeup'
  BY DEF Inv, ControlInv, NoLostWakeup
<1>7. OneDrain'
  BY DEF Inv, ControlInv, OneDrain
<1> QED
  BY <1>1, <1>2, <1>3, <1>4, <1>5, <1>6, <1>7 DEF Inv

\* The UI takes the one drain.
LEMMA TakeDrainStep ==
  ASSUME Inv, TakeDrain
  PROVE  Inv'
<1> USE DEF TakeDrain
<1>1. QInv(q, next)'
  BY QueueUntouched DEF Inv
<1>2. ControlInv'
  BY DEF Inv, ControlInv
<1>3. EndInv'
  BY DEF Inv, ControlInv, EndInv, EndDue
<1>4. NumberInv'
  BY DEF Inv, ControlInv, NumberInv, EndInv, EndDue
<1>5. RoomKept'
  BY DEF Inv, ControlInv, RoomKept
<1>6. NoLostWakeup'
  BY DEF Inv, ControlInv, NoLostWakeup
<1>7. OneDrain'
  BY DEF Inv, ControlInv, OneDrain
<1> QED
  BY <1>1, <1>2, <1>3, <1>4, <1>5, <1>6, <1>7 DEF Inv

\* A drain with nothing left to handle.
LEMMA FinishNowStep ==
  ASSUME Inv, pc["ui"] \in {"first", "more"}, FinishNow
  PROVE  Inv'
<1> USE DEF FinishNow
<1>1. QInv(q, next)'
  BY QueueUntouched DEF Inv
<1>2. ControlInv'
  BY DEF Inv, ControlInv
<1>3. EndInv'
  BY DEF Inv, ControlInv, EndInv, EndDue
<1>4. NumberInv'
  BY DEF Inv, ControlInv, NumberInv, EndInv, EndDue
<1>5. RoomKept'
  BY DEF Inv, ControlInv, RoomKept
<1>6. NoLostWakeup'
  BY DEF Inv, ControlInv, NoLostWakeup
<1>7. OneDrain'
  BY DEF Inv, ControlInv, OneDrain
<1> QED
  BY <1>1, <1>2, <1>3, <1>4, <1>5, <1>6, <1>7 DEF Inv

\* `scheduled` is cleared before the queue is looked at again.
LEMMA FinishDrainStep ==
  ASSUME Inv, FinishDrain
  PROVE  Inv'
<1> USE DEF FinishDrain
<1>1. QInv(q, next)'
  BY QueueUntouched DEF Inv
<1>2. ControlInv'
  BY DEF Inv, ControlInv
<1>3. EndInv'
  BY DEF Inv, ControlInv, EndInv, EndDue
<1>4. NumberInv'
  BY DEF Inv, ControlInv, NumberInv, EndInv, EndDue
<1>5. RoomKept'
  BY DEF Inv, ControlInv, RoomKept
<1>6. NoLostWakeup'
  BY DEF Inv, ControlInv, NoLostWakeup
<1>7. OneDrain'
  BY DEF Inv, ControlInv, OneDrain
<1> QED
  BY <1>1, <1>2, <1>3, <1>4, <1>5, <1>6, <1>7 DEF Inv

\* What arrived meanwhile gets a drain of its own.
LEMMA CheckQueueStep ==
  ASSUME Inv, CheckQueue
  PROVE  Inv'
<1> USE DEF CheckQueue
<1>1. QInv(q, next)'
  BY QueueUntouched DEF Inv
<1>2. ControlInv'
  BY DEF Inv, ControlInv
<1>3. EndInv'
  BY DEF Inv, ControlInv, EndInv, EndDue
<1>4. NumberInv'
  BY DEF Inv, ControlInv, NumberInv, EndInv, EndDue
<1>5. RoomKept'
  BY DEF Inv, ControlInv, RoomKept
<1>6. NoLostWakeup'
  BY DEF Inv, ControlInv, NoLostWakeup
<1>7. OneDrain'
  BY DEF Inv, ControlInv, OneDrain
<1> QED
  BY <1>1, <1>2, <1>3, <1>4, <1>5, <1>6, <1>7 DEF Inv

----------------------------------------------------------------------------
(* The steps that change the queue                                         *)

\* A frame fits when what it replaces makes the room for it.
LEMMA FitFacts ==
  ASSUME NEW qq \in Queues(QueuedFrame, Keys), Guarded(qq), Books(qq), NEW key
  PROVE  LET w == replacement_weight(qq, key)
         IN /\ qq.bytes \in Nat /\ qq.media \in Nat /\ w.bytes \in Nat /\ w.media \in Nat
            /\ saturating_sub(qq.bytes, w.bytes) = qq.bytes - w.bytes
            /\ saturating_sub(qq.media, w.media) = qq.media - w.media
<1> DEFINE w == replacement_weight(qq, key)
           at == qq.replacements[key] - qq.base + 1
<1>1. /\ qq.bytes \in Nat /\ qq.media \in Nat
      /\ \A i \in DOMAIN qq.entries :
           qq.entries[i].bytes <= qq.bytes /\ qq.entries[i].media <= qq.media
  BY BooksBound
<1>2. \A i \in DOMAIN qq.entries : qq.entries[i].bytes \in Nat /\ qq.entries[i].media \in Nat
  <2>1. qq.entries \in Seq(Entries(QueuedFrame, Keys))
    BY DEF Queues
  <2>2. \A i \in DOMAIN qq.entries : qq.entries[i] \in Entries(QueuedFrame, Keys)
    BY <2>1
  <2> QED
    BY <2>2 DEF Entries
<1>3. \/ /\ at \in DOMAIN qq.entries
         /\ w.bytes = qq.entries[at].bytes /\ w.media = qq.entries[at].media
      \/ w.bytes = 0 /\ w.media = 0
  BY WeightFacts
<1> HIDE DEF w, at
<1>4. /\ w.bytes \in Nat /\ w.bytes <= qq.bytes
      /\ w.media \in Nat /\ w.media <= qq.media
  BY <1>1, <1>2, <1>3
<1> QED
  BY <1>1, <1>4 DEF saturating_sub, w

\* A weightless entry at the back takes no room from anybody.
LEMMA RoomAfterAppend ==
  ASSUME NEW n \in Nat, NEW qq, QInv(qq, n), NEW pp, QInv(pp, n + 1),
         NEW e, pp.entries = Append(qq.entries, e), pp.base = qq.base,
         pp.replacements = qq.replacements, pp.bytes = qq.bytes, pp.media = qq.media,
         NEW f, NEW key, fits_in_state(qq, f, replacement_weight(qq, key))
  PROVE  fits_in_state(pp, f, replacement_weight(pp, key))
<1> DEFINE w == replacement_weight(qq, key)
           v == replacement_weight(pp, key)
           at == qq.replacements[key] - qq.base + 1
<1>1. /\ qq \in Queues(QueuedFrame, Keys) /\ Guarded(qq)
      /\ pp \in Queues(QueuedFrame, Keys) /\ Guarded(pp)
  BY DEF QInv
<1>2. v.bytes = w.bytes /\ v.media = w.media
  <2>1. CASE key # NoKey /\ key \in DOMAIN qq.replacements
    <3>1. /\ at \in DOMAIN qq.entries
          /\ w.bytes = qq.entries[at].bytes /\ w.media = qq.entries[at].media
          /\ v.bytes = pp.entries[at].bytes /\ v.media = pp.entries[at].media
      BY <2>1, <1>1, WeightFacts
    <3>2. pp.entries[at] = qq.entries[at]
      <4>1. qq.entries \in Seq(Entries(QueuedFrame, Keys))
        BY <1>1 DEF Queues
      <4> HIDE DEF at
      <4>2. at \in 1..Len(qq.entries)
        BY <4>1, <3>1
      <4> QED
        BY <4>1, <4>2
    <3> QED
      BY <3>1, <3>2
  <2>2. CASE ~ (key # NoKey /\ key \in DOMAIN qq.replacements)
    BY <2>2, <1>1, WeightFacts
  <2> QED
    BY <2>1, <2>2
<1> QED
  BY <1>2 DEF fits_in_state

\* Taking the front entry leaves at least the room there was: had the frame
\* counted on replacing that entry, it is gone and gave back the same weight.
LEMMA RoomAfterPop ==
  ASSUME NEW n \in Nat, NEW qq, QInv(qq, n), qq.entries # <<>>,
         NEW f, f.bytes \in Nat, f.media \in Nat,
         NEW key, fits_in_state(qq, f, replacement_weight(qq, key))
  PROVE  fits_in_state(pop_front(qq), f, replacement_weight(pop_front(qq), key))
<1> DEFINE es == qq.entries
           pp == pop_front(qq)
           fs == pp.entries
           w == replacement_weight(qq, key)
           v == replacement_weight(pp, key)
           a == qq.replacements[key] - qq.base + 1
           b == pp.replacements[key] - pp.base + 1
<1>1. /\ qq \in Queues(QueuedFrame, Keys) /\ Guarded(qq) /\ Books(qq)
      /\ es \in Seq(Entries(QueuedFrame, Keys)) /\ qq.base \in Nat
  BY DEF QInv, Queues
<1>2. /\ pp \in Queues(QueuedFrame, Keys) /\ fs = Tail(es) /\ pp.base = qq.base + 1
      /\ pp.bytes = qq.bytes - Head(es).bytes /\ pp.media = qq.media - Head(es).media
      /\ \A k \in DOMAIN pp.replacements :
           k \in DOMAIN qq.replacements /\ pp.replacements[k] = qq.replacements[k]
      /\ \A k \in DOMAIN qq.replacements :
           \/ k \in DOMAIN pp.replacements
           \/ k = Head(es).key /\ k # NoKey /\ qq.replacements[k] = qq.base
  BY <1>1, PopFacts
<1>3. Guarded(pp) /\ Books(pp)
  BY PopKeeps DEF QInv
<1> HIDE DEF pp
<1>4. /\ Head(es) = es[1] /\ es[1].bytes \in Nat /\ es[1].media \in Nat
      /\ \A i \in DOMAIN fs : fs[i] = es[i + 1]
  <2>1. Head(es) = es[1] /\ es[1] \in Entries(QueuedFrame, Keys) /\ \A i \in DOMAIN fs : fs[i] = es[i + 1]
    BY <1>1, <1>2
  <2> QED
    BY <2>1 DEF Entries
<1>5. pp.bytes = qq.bytes - es[1].bytes /\ pp.media = qq.media - es[1].media
  BY <1>2, <1>4
<1>6. /\ qq.bytes \in Nat /\ qq.media \in Nat /\ w.bytes \in Nat /\ w.media \in Nat
      /\ saturating_sub(qq.bytes, w.bytes) = qq.bytes - w.bytes
      /\ saturating_sub(qq.media, w.media) = qq.media - w.media
  BY <1>1, FitFacts
<1>7. /\ pp.bytes \in Nat /\ pp.media \in Nat /\ v.bytes \in Nat /\ v.media \in Nat
      /\ saturating_sub(pp.bytes, v.bytes) = pp.bytes - v.bytes
      /\ saturating_sub(pp.media, v.media) = pp.media - v.media
  BY <1>2, <1>3, FitFacts
<1>8. pp.bytes - v.bytes <= qq.bytes - w.bytes /\ pp.media - v.media <= qq.media - w.media
  <2>1. CASE key # NoKey /\ key \in DOMAIN pp.replacements
    <3>1. /\ a \in DOMAIN es /\ w.bytes = es[a].bytes /\ w.media = es[a].media
          /\ b \in DOMAIN fs /\ v.bytes = fs[b].bytes /\ v.media = fs[b].media
      BY <2>1, <1>1, <1>2, <1>3, WeightFacts
    <3>2. b + 1 = a
      <4>1. key \in DOMAIN qq.replacements /\ pp.replacements[key] = qq.replacements[key]
        BY <2>1, <1>2
      <4>2. qq.replacements[key] \in Nat
        BY <4>1, <1>1 DEF Queues, Indexes
      <4> QED
        BY <4>1, <4>2, <1>1, <1>2
    <3> HIDE DEF a, b, w, v
    <3>3. v.bytes = w.bytes /\ v.media = w.media
      BY <3>1, <3>2, <1>4
    <3> QED
      <4>1. \A x, y, z \in Nat : (y - x) - z <= y - z
        OBVIOUS
      <4> QED
        BY <4>1, <3>3, <1>4, <1>6, <1>5
  <2>2. CASE key # NoKey /\ key \in DOMAIN qq.replacements /\ key \notin DOMAIN pp.replacements
    <3>1. w.bytes = es[a].bytes /\ w.media = es[a].media /\ v.bytes = 0 /\ v.media = 0
      BY <2>2, <1>1, <1>2, <1>3, WeightFacts
    <3>2. a = 1
      BY <2>2, <1>1, <1>2
    <3> HIDE DEF a, w, v
    <3> QED
      BY <3>1, <3>2, <1>4, <1>6, <1>7, <1>5
  <2>3. CASE key = NoKey \/ key \notin DOMAIN qq.replacements
    <3>1. w.bytes = 0 /\ w.media = 0 /\ v.bytes = 0 /\ v.media = 0
      BY <2>3, <1>1, <1>2, <1>3, WeightFacts
    <3> HIDE DEF w, v
    <3> QED
      BY <3>1, <1>4, <1>6, <1>7, <1>5
  <2> QED
    BY <2>1, <2>2, <2>3
<1>9. qq.bytes - w.bytes + f.bytes <= Capacity /\ qq.media - w.media + f.media <= MediaCapacity
  BY <1>6 DEF fits_in_state
<1> HIDE DEF w, v
<1>10. pp.bytes - v.bytes + f.bytes <= Capacity /\ pp.media - v.media + f.media <= MediaCapacity
  <2> DEFINE x == pp.bytes - v.bytes
             y == qq.bytes - w.bytes
             mx == pp.media - v.media
             my == qq.media - w.media
  <2>1. x \in Int /\ y \in Int /\ mx \in Int /\ my \in Int
    <3>1. /\ pp.bytes \in Nat /\ pp.media \in Nat /\ v.bytes \in Nat /\ v.media \in Nat
          /\ qq.bytes \in Nat /\ qq.media \in Nat /\ w.bytes \in Nat /\ w.media \in Nat
      BY <1>6, <1>7, Zenon
    <3> QED
      BY <3>1, SMTT(30)
  <2>2. x <= y /\ mx <= my /\ y + f.bytes <= Capacity /\ my + f.media <= MediaCapacity
    BY <1>8, <1>9
  <2> HIDE DEF x, y, mx, my
  <2>3. x + f.bytes <= Capacity /\ mx + f.media <= MediaCapacity
    BY <2>1, <2>2, CapacityAssumption
  <2> QED
    BY <2>3 DEF x, mx
<1> QED
  BY <1>7, <1>10 DEF fits_in_state, v, pp

\* Where the first frames of the entries come from after a push.
LEMMA EnqueuesFirsts ==
  ASSUME NEW n, NEW qq, QInv(qq, n), NEW pp, NEW f \in QueuedFrame, Enqueues(qq, pp, f)
  PROVE  \A i \in DOMAIN pp.entries :
           \/ pp.entries[i].frames[1] = f
           \/ i \in DOMAIN qq.entries /\ pp.entries[i].frames[1] = qq.entries[i].frames[1]
<1> DEFINE es == qq.entries
<1>1. es \in Seq(Entries(QueuedFrame, Keys)) /\ Shape(es)
  BY DEF QInv, Queues
<1>2. CASE Appends(qq, pp, f)
  <2> DEFINE e == Entry(f, inbound_replacement_key(f))
  <2>1. pp.entries = Append(es, e)
    BY <1>2 DEF Appends
  <2>2. e.frames[1] = f
    BY DEF Entry
  <2> HIDE DEF e
  <2> QED
    BY <2>1, <2>2, <1>1
<1>3. ASSUME NEW at, NEW e, Joins(qq, pp, f, at, e)
      PROVE  \A i \in DOMAIN pp.entries :
               i \in DOMAIN es /\ pp.entries[i].frames[1] = es[i].frames[1]
  <2>1. /\ at \in DOMAIN es /\ pp.entries = [es EXCEPT ![at] = e]
        /\ e.frames = Append(es[at].frames, f)
    BY <1>3 DEF Joins
  <2>2. es[at].frames \in Seq(QueuedFrame) /\ 1 \in DOMAIN es[at].frames
    BY <2>1, <1>1, FirstFacts
  <2>3. e.frames[1] = es[at].frames[1]
    BY <2>1, <2>2
  <2> QED
    BY <2>1, <2>3
<1>4. ASSUME NEW key, NEW at, Replaces(qq, pp, f, key, at)
      PROVE  \A i \in DOMAIN pp.entries :
               \/ pp.entries[i].frames[1] = f
               \/ i \in DOMAIN es /\ pp.entries[i].frames[1] = es[i].frames[1]
  <2>1. pp.entries = [es EXCEPT ![at] = Entry(f, key)]
    BY <1>4 DEF Replaces
  <2>2. Entry(f, key).frames[1] = f
    BY DEF Entry
  <2> QED
    BY <2>1, <2>2
<1> QED
  BY <1>2, <1>3, <1>4 DEF Enqueues

\* The end is queued behind everything, with the number kept back for it.
LEMMA PushEndAppends ==
  ASSUME Inv, NEW p \in {"reader", "writer"}, PushEnd(p)
  PROVE  LET f == EndFrame(next)
         IN /\ f \in QueuedFrame /\ f.id = next /\ f.kind = "end"
            /\ q' \in Queues(QueuedFrame, Keys) /\ Appends(q, q', f)
            /\ q'.replacements = q.replacements /\ q'.bytes = q.bytes /\ q'.media = q.media
<1> DEFINE f == EndFrame(next)
           e == Entry(f, NoKey)
<1>1. QInv(q, next) /\ next \in Nat /\ next >= 1 /\ next <= MaxFrames + 1
  BY FramesAssumption DEF Inv, NumberInv, PushEnd, EndDue
<1>2. f \in QueuedFrame /\ f.id = next
  BY <1>1, FramesAssumption DEF EndFrame, QueuedFrame
<1>3. f.kind = "end" /\ f.pane = "none" /\ f.bytes = 0 /\ f.media = 0
  BY DEF EndFrame
<1> HIDE DEF f
<1>4. e \in Entries(QueuedFrame, Keys)
  BY <1>2, EntryFacts
<1>5. /\ q \in Queues(QueuedFrame, Keys) /\ q.entries \in Seq(Entries(QueuedFrame, Keys))
      /\ q.bytes \in Int /\ q.media \in Int /\ q.bytes <= Capacity /\ q.media <= MediaCapacity
  BY <1>1 DEF QInv, Queues
<1>6. q' = [q EXCEPT !.entries = Append(q.entries, e)]
  BY DEF PushEnd, try_push, f
<1> HIDE DEF e
<1>7. Append(q.entries, e) \in Seq(Entries(QueuedFrame, Keys))
  BY <1>4, <1>5
<1>8. q' \in Queues(QueuedFrame, Keys)
  BY <1>5, <1>6, <1>7 DEF Queues
<1>9. /\ q'.entries = Append(q.entries, e) /\ q'.base = q.base
      /\ q'.replacements = q.replacements /\ q'.bytes = q.bytes /\ q'.media = q.media
  BY <1>5, <1>6 DEF Queues
<1>10. \A k \in DOMAIN q.replacements : Behind(k, f)
  <2>1. \A k \in DOMAIN q.replacements : k \in Keys
    BY <1>5 DEF Queues, Indexes
  <2> QED
    BY <2>1, <1>3, KeyFacts DEF Behind
<1>11. Appends(q, q', f)
  <2>1. inbound_replacement_key(f) = NoKey
    BY <1>3 DEF inbound_replacement_key
  <2> QED
    BY <2>1, <1>3, <1>5, <1>9, <1>10 DEF Appends, e
<1> QED
  BY <1>2, <1>3, <1>8, <1>9, <1>11 DEF f

\* Only the one actor that saw `ended` clear queues the end.
LEMMA PushEndStep ==
  ASSUME Inv, NEW p \in {"reader", "writer"}, PushEnd(p)
  PROVE  Inv'
<1> DEFINE f == EndFrame(next)
           e == Entry(f, inbound_replacement_key(f))
<1>1. QInv(q, next) /\ next \in Nat
  BY DEF Inv, NumberInv
<1>2. /\ f \in QueuedFrame /\ f.id = next
      /\ q' \in Queues(QueuedFrame, Keys) /\ Appends(q, q', f)
      /\ q'.replacements = q.replacements /\ q'.bytes = q.bytes /\ q'.media = q.media
  BY PushEndAppends
<1> HIDE DEF f
<1>3. /\ q'.entries = Append(q.entries, e) /\ q'.base = q.base
      /\ q.entries \in Seq(Entries(QueuedFrame, Keys))
  BY <1>1, <1>2 DEF Appends, QInv, Queues
<1>4. QInv(q', next + 1)
  BY <1>1, <1>2, AppendKeeps
<1>5. QInv(q, next)'
  BY <1>4 DEF PushEnd, QInv, Guarded
<1> HIDE DEF e
<1> USE DEF PushEnd, Woken
<1>6. ControlInv'
  BY DEF Inv, ControlInv
<1>7. EndInv'
  <2>1. ended /\ heard = 0 /\ NoEnd(q.entries) /\ ~ EndDue'
    BY DEF Inv, ControlInv, EndInv, EndDue
  <2>2. \A i \in DOMAIN q'.entries :
          \/ i = Len(q.entries) + 1
          \/ i \in DOMAIN q.entries /\ q'.entries[i] = q.entries[i]
    BY <1>3
  <2>3. OneEnd(q.entries)'
    BY <2>1, <2>2 DEF NoEnd, OneEnd
  <2> QED
    BY <2>1, <2>3 DEF EndInv, EndDue
<1>8. NumberInv'
  BY <1>1, FramesAssumption DEF Inv, ControlInv, NumberInv, EndInv, EndDue
<1>9. RoomKept'
  <2> SUFFICES ASSUME pc'["reader"] = "push"
               PROVE  fits_in_state(q, hold, replacement_weight(q, inbound_replacement_key(hold)))'
    BY DEF RoomKept
  <2>1. pc["reader"] = "push" /\ hold' = hold
    BY DEF Inv, ControlInv
  <2>2. fits_in_state(q, hold, replacement_weight(q, inbound_replacement_key(hold)))
    BY <2>1 DEF Inv, RoomKept
  <2>3. fits_in_state(q', hold, replacement_weight(q', inbound_replacement_key(hold)))
    BY <2>2, <1>1, <1>2, <1>3, <1>4, RoomAfterAppend
  <2> QED
    BY <2>1, <2>3
<1>10. NoLostWakeup'
  BY DEF Inv, ControlInv, NoLostWakeup
<1>11. OneDrain'
  BY DEF Inv, ControlInv, OneDrain
<1> QED
  BY <1>5, <1>6, <1>7, <1>8, <1>9, <1>10, <1>11 DEF Inv

\* The room that wait_for_capacity found is the room that push needs.
LEMMA PushHasRoom ==
  ASSUME Inv, pc["reader"] = "push"
  PROVE  LET f == Numbered(hold, next)
         IN /\ f \in QueuedFrame /\ f.id = next /\ f.kind # "end"
            /\ fits_in_state(q, f, replacement_weight(Invalidated(f), inbound_replacement_key(f)))
<1> DEFINE f == Numbered(hold, next)
           key == inbound_replacement_key(hold)
<1>1. hold \in Frames
  BY DEF Inv, ControlInv
<1>2. next \in 1..(MaxFrames + 1)
  BY FramesAssumption DEF Inv, NumberInv, EndDue
<1>3. f \in QueuedFrame /\ f.id = next
  BY <1>1, <1>2 DEF QueuedFrame, Numbered
<1>4. /\ f.kind = hold.kind /\ f.pane = hold.pane /\ f.image = hold.image
      /\ f.bytes = hold.bytes /\ f.media = hold.media
  BY DEF Numbered
<1>5. f.kind # "end"
  BY <1>1, <1>4, FramesAssumption
<1> HIDE DEF f
<1>6. inbound_replacement_key(f) = key
  BY <1>4 DEF inbound_replacement_key
<1>7. fits_in_state(q, f, replacement_weight(q, key))
  <2>1. fits_in_state(q, hold, replacement_weight(q, key))
    BY DEF Inv, RoomKept
  <2> QED
    BY <2>1, <1>4 DEF fits_in_state
<1>8. CASE f.kind = "graphics"
  <2>1. Invalidated(f) = q
    BY <1>3, <1>8, InvalidatedFacts DEF Inv, QInv
  <2> QED
    BY <2>1, <1>3, <1>5, <1>6, <1>7 DEF f
<1>9. CASE f.kind # "graphics"
  <2>1. key = NoKey
    BY <1>4, <1>9 DEF inbound_replacement_key
  <2>2. replacement_weight(q, NoKey) = replacement_weight(Invalidated(f), NoKey)
    BY DEF replacement_weight, replacement_index
  <2> QED
    BY <2>1, <2>2, <1>3, <1>5, <1>6, <1>7 DEF f
<1> QED
  BY <1>8, <1>9

LEMMA PushStep ==
  ASSUME Inv, Push
  PROVE  Inv'
<1> DEFINE f == Numbered(hold, next)
<1>1. QInv(q, next) /\ next \in Nat
  BY DEF Inv, NumberInv
<1>2. /\ f \in QueuedFrame /\ f.id = next /\ f.kind # "end"
      /\ fits_in_state(q, f, replacement_weight(Invalidated(f), inbound_replacement_key(f)))
  BY PushHasRoom DEF Push
<1>3. /\ pc["reader"] = "push" /\ q' = Enqueued(f) /\ next' = next + 1
      /\ pc' = Goto("reader", "schedule") /\ hold' = NoFrame
      /\ UNCHANGED <<scheduled, active, ended, shutdown, drains, heard>>
  BY <1>2 DEF Push
<1> HIDE DEF f
<1>4. q' \in Queues(QueuedFrame, Keys) /\ Enqueues(q, q', f)
  BY <1>1, <1>2, <1>3, EnqueuedFacts
<1>5. QInv(q', next + 1)
  BY <1>1, <1>2, <1>4, EnqueuesKeep
<1>6. QInv(q, next)'
  BY <1>3, <1>5 DEF QInv, Guarded
<1>7. ControlInv'
  BY <1>3 DEF Inv, ControlInv
<1>8. EndInv'
  <2>1. \A i \in DOMAIN q'.entries :
          \/ q'.entries[i].frames[1] = f
          \/ i \in DOMAIN q.entries /\ q'.entries[i].frames[1] = q.entries[i].frames[1]
    BY <1>1, <1>2, <1>4, EnqueuesFirsts
  <2>2. (NoEnd(q.entries) => NoEnd(q.entries)') /\ (OneEnd(q.entries) => OneEnd(q.entries)')
    BY <2>1, <1>2 DEF NoEnd, OneEnd
  <2>3. EndDue' = EndDue
    BY <1>3 DEF Inv, ControlInv, EndDue
  <2> QED
    BY <2>2, <2>3, <1>3 DEF Inv, ControlInv, EndInv
<1>9. NumberInv'
  BY <1>3, FramesAssumption DEF Inv, ControlInv, NumberInv, EndDue
<1>10. RoomKept'
  BY <1>3 DEF Inv, ControlInv, RoomKept
<1>11. NoLostWakeup'
  BY <1>3 DEF Inv, ControlInv, NoLostWakeup
<1>12. OneDrain'
  BY <1>3 DEF Inv, ControlInv, OneDrain
<1> QED
  BY <1>6, <1>7, <1>8, <1>9, <1>10, <1>11, <1>12 DEF Inv

\* The UI takes the front entry while `scheduled` is set.
LEMMA PopStep ==
  ASSUME Inv, pc["ui"] \in {"first", "more"}, NEW there \in {"finish", "more"}, Pop(there)
  PROVE  Inv'
<1>1. QInv(q, next) /\ next \in Nat /\ q.entries # <<>>
  BY DEF Inv, NumberInv, Pop
<1>2. QInv(q', next)
  BY <1>1, PopKeeps DEF Pop
<1>3. QInv(q, next)'
  BY <1>2 DEF Pop, QInv, Guarded
<1>4. q.entries \in Seq(Entries(QueuedFrame, Keys)) /\ q'.entries = Tail(q.entries)
  <2>1. q \in Queues(QueuedFrame, Keys)
    BY <1>1 DEF QInv
  <2>2. pop_front(q).entries = Tail(q.entries)
    BY <2>1, <1>1, PopFacts
  <2> QED
    BY <2>1, <2>2 DEF Pop, Queues
<1>5. /\ Head(q.entries) = q.entries[1] /\ 1 \in DOMAIN q.entries
      /\ \A i \in DOMAIN q'.entries :
           q'.entries[i] = q.entries[i + 1] /\ i + 1 \in DOMAIN q.entries /\ i + 1 # 1
  BY <1>1, <1>4
<1>6. ControlInv'
  BY DEF Inv, ControlInv, Pop, Woken
<1>7. EndInv'
  <2>1. EndDue' = EndDue
    BY DEF Inv, ControlInv, EndDue, Pop, Woken
  <2>2. OneEnd(q.entries)'
    <3> SUFFICES ASSUME NEW i \in DOMAIN q'.entries, NEW j \in DOMAIN q'.entries,
                        q'.entries[i].frames[1].kind = "end", q'.entries[j].frames[1].kind = "end"
                 PROVE  i = j
      BY DEF OneEnd
    <3>1. i + 1 = j + 1
      BY <1>5 DEF Inv, EndInv, OneEnd
    <3>2. i \in Nat /\ j \in Nat
      <4>1. q'.entries \in Seq(Entries(QueuedFrame, Keys))
        BY <1>4, <1>1
      <4> QED
        BY <4>1
    <3> QED
      BY <3>1, <3>2
  <2>3. NoEnd(q.entries) => NoEnd(q.entries)'
    BY <1>5 DEF NoEnd
  <2>4. CASE q.entries[1].frames[1].kind = "end"
    <3>1. ~ NoEnd(q.entries)
      BY <2>4, <1>5 DEF NoEnd
    <3>2. heard = 0 /\ ~ EndDue
      BY <3>1 DEF Inv, EndInv
    <3>3. NoEnd(q.entries)'
      BY <2>4, <1>5 DEF NoEnd, Inv, EndInv, OneEnd
    <3>4. heard' = 1
      BY <2>4, <3>2, <1>5 DEF Pop
    <3> QED
      BY <2>1, <2>2, <3>2, <3>3, <3>4 DEF Inv, ControlInv, EndInv, EndDue, Pop, Woken
  <2>5. CASE q.entries[1].frames[1].kind # "end"
    <3>1. heard' = heard
      BY <2>5, <1>5 DEF Pop, Inv, EndInv
    <3> QED
      BY <2>1, <2>2, <2>3, <3>1 DEF Inv, ControlInv, EndInv, Pop, Woken
  <2> QED
    BY <2>4, <2>5
<1>8. NumberInv'
  BY DEF Inv, ControlInv, NumberInv, EndDue, Pop, Woken
<1>9. RoomKept'
  <2> SUFFICES ASSUME pc'["reader"] = "push"
               PROVE  fits_in_state(q, hold, replacement_weight(q, inbound_replacement_key(hold)))'
    BY DEF RoomKept
  <2>1. pc["reader"] = "push" /\ hold' = hold /\ hold \in Frames
    BY DEF Inv, ControlInv, Pop, Woken
  <2>2. fits_in_state(q, hold, replacement_weight(q, inbound_replacement_key(hold)))
    BY <2>1 DEF Inv, RoomKept
  <2>3. hold.bytes \in Nat /\ hold.media \in Nat
    BY <2>1, FramesAssumption
  <2>4. fits_in_state(q', hold, replacement_weight(q', inbound_replacement_key(hold)))
    BY <2>2, <2>3, <1>1, RoomAfterPop DEF Pop
  <2> QED
    BY <2>1, <2>4
<1>10. NoLostWakeup'
  BY DEF Inv, ControlInv, OneDrain, NoLostWakeup, Pop, Woken
<1>11. OneDrain'
  BY DEF Inv, ControlInv, OneDrain, Pop, Woken
<1> QED
  BY <1>3, <1>6, <1>7, <1>8, <1>9, <1>10, <1>11 DEF Inv

----------------------------------------------------------------------------
(* The invariant                                                           *)

\* An empty queue with nobody anywhere.
LEMMA InitInv == Init => Inv
<1> SUFFICES ASSUME Init PROVE Inv
  OBVIOUS
<1>1. /\ q = EmptyQueue /\ q.entries = <<>> /\ q.base = 0 /\ q.replacements = <<>>
      /\ q.bytes = 0 /\ q.media = 0
  BY DEF Init, EmptyQueue
<1>2. DOMAIN q.entries = {} /\ DOMAIN q.replacements = {} /\ Len(q.entries) = 0
  BY <1>1
<1>3. q \in Queues(QueuedFrame, Keys)
  <2>1. q.replacements \in [{} -> Nat]
    BY <1>1
  <2>2. q.replacements \in Indexes(Keys)
    BY <2>1 DEF Indexes
  <2> QED
    BY <1>1, <2>2 DEF Queues, EmptyQueue
<1>4. Books(q)
  <2>1. ASSUME NEW w PROVE Total(w, 0) = 0
    <3>1. PICK s : IsSums(s, w, 0)
      BY SumsExist
    <3>2. 0 \in Nat
      OBVIOUS
    <3>3. Total(w, 0) = s[0]
      BY ONLY <3>1, <3>2, TotalIs
    <3> QED
      BY <3>1, <3>3 DEF IsSums
  <2> QED
    BY <2>1, <1>1, <1>2 DEF Books, TotalBytes, TotalMedia
<1>5. QInv(q, next)
  BY <1>1, <1>2, <1>3, <1>4, CapacityAssumption
     DEF QInv, Shape, InOrder, Fresh, Apart, Overtakes, Guarded
<1>6. ControlInv
  BY DEF Init, ControlInv
<1>7. EndInv
  BY <1>2 DEF Init, EndInv, EndDue, OneEnd, NoEnd
<1>8. NumberInv
  BY FramesAssumption DEF Init, NumberInv, EndDue
<1>9. RoomKept /\ NoLostWakeup /\ OneDrain
  BY DEF Init, RoomKept, NoLostWakeup, OneDrain
<1> QED
  BY <1>5, <1>6, <1>7, <1>8, <1>9 DEF Inv

\* Every step keeps the invariant.
LEMMA NextInv == Inv /\ [Next]_vars => Inv'
<1> SUFFICES ASSUME Inv, [Next]_vars PROVE Inv'
  OBVIOUS
<1>1. CASE UNCHANGED vars
  <2>1. QInv(q, next)'
    BY <1>1, QueueUntouched DEF vars, Inv
  <2> QED
    BY <1>1, <2>1 DEF vars, Inv, ControlInv, EndInv, EndDue, NumberInv, RoomKept, NoLostWakeup, OneDrain
<1>2. ASSUME NEW f \in Frames, Read(f) PROVE Inv'
  BY <1>2, ReadStep
<1>3. CASE ReadFails \/ ReadStops \/ OfferRefused \/ AcquireFails
  BY <1>3, LeaveStep DEF ReadFails, ReadStops, OfferRefused, AcquireFails
<1>4. CASE Offer \/ Push
  BY <1>4, OfferStep, PushStep
<1>5. CASE Close("reader") \/ Close("writer")
  BY <1>5, CloseStep
<1>6. CASE PushEnd("reader") \/ PushEnd("writer")
  BY <1>6, PushEndStep
<1>7. CASE Schedule("reader") \/ Schedule("writer") \/ Schedule("attach") \/ Schedule("ui")
  BY <1>7, ScheduleStep
<1>8. CASE WriteFails \/ Activate \/ Signal \/ Wake
  BY <1>8, WriteFailsStep, ActivateStep, SignalStep, WakeStep
<1>9. CASE TakeDrain \/ FinishDrain \/ CheckQueue
  BY <1>9, TakeDrainStep, FinishDrainStep, CheckQueueStep
<1>10. CASE PopFirst \/ PopMore
  BY <1>10, PopStep, FinishNowStep DEF PopFirst, PopMore
<1> QED
  BY <1>1, <1>2, <1>3, <1>4, <1>5, <1>6, <1>7, <1>8, <1>9, <1>10
     DEF Next, ReaderStep, WriterStep, AttachStep, UiStep

\* The queue's books, its index, the hand-over and the end, in every reachable state.
LEMMA Invariance == Spec => []Inv
BY InitInv, NextInv, PTL DEF Spec

----------------------------------------------------------------------------
(* The properties                                                          *)

\* Queued ends are first in their entries, and there is one such entry.
LEMMA EndsFacts ==
  ASSUME Inv
  PROVE  EndOnce
<1> DEFINE es == q.entries
           ends == {f \in Queued : f.kind = "end"}
<1>1. es \in Seq(Entries(QueuedFrame, Keys)) /\ Shape(es)
  BY DEF Inv, QInv, Queues
<1>2. ASSUME NEW f \in ends
      PROVE  \E i \in DOMAIN es : f = es[i].frames[1]
  <2>1. PICK i \in DOMAIN es : f \in At(es, i)
    BY DEF Queued, At
  <2>2. \/ f = es[i].frames[1]
        \/ Mergeable(f)
    BY <2>1, <1>1 DEF Shape
  <2> QED
    BY <2>2 DEF Mergeable
<1>3. CASE NoEnd(es)
  <2>1. ends = {}
    BY <1>2, <1>3 DEF NoEnd
  <2> HIDE DEF ends
  <2>2. Cardinality(ends) = 0
    BY <2>1, FS_EmptySet
  <2> QED
    BY <2>2 DEF EndOnce, ends, Inv, EndInv
<1>4. CASE ~ NoEnd(es)
  <2>1. PICK i \in DOMAIN es : es[i].frames[1].kind = "end"
    BY <1>4 DEF NoEnd
  <2>2. heard = 0 /\ OneEnd(es)
    BY <1>4 DEF Inv, EndInv
  <2>3. ends = {} \/ ends = {es[i].frames[1]}
    BY <1>2, <2>1, <2>2 DEF OneEnd
  <2> HIDE DEF ends
  <2>4. Cardinality(ends) = 0 \/ Cardinality(ends) = 1
    BY <2>3, FS_EmptySet, FS_Singleton
  <2> QED
    BY <2>2, <2>4 DEF EndOnce, ends
<1> QED
  BY <1>3, <1>4

\* The hand-over from the reader to the UI: an active mailbox that holds something
\* has a drain on its way and never two, a reader that was granted room never
\* blocks in its push, and the end is reported at most once
\* (InboundMailbox::schedule, finish_drain, push, close).
THEOREM HandOverSafe == Spec => []HandOverSound
<1>1. Inv => HandOverSound
  BY EndsFacts DEF HandOverSound, PushNeverBlocks, Inv, ControlInv
<1> QED
  BY <1>1, Invariance, PTL

\* The queue's books are true through every merge, replacement and pop, within the
\* budget; the replacement index names entries of its own keys only; and merged
\* output keeps its order (queue.rs push_within_segment, push_latest, pop).
THEOREM QueueSafe == Spec => []QueueSound
<1>1. ASSUME Inv PROVE QueueSound
  <2> DEFINE es == q.entries
             K == {<<f.pane, f.image>> : f \in Frames}
  <2>1. q \in Queues(QueuedFrame, Keys) /\ Books(q) /\ Guarded(q) /\ InOrder(es)
        /\ q.bytes <= Capacity /\ q.media <= MediaCapacity
    BY <1>1 DEF Inv, QInv
  <2>2. es \in Seq(Entries(QueuedFrame, Keys)) /\ q.base \in Nat
    BY <2>1 DEF Queues
  <2>3. q.bytes \in Nat /\ q.media \in Nat
        /\ \A i \in DOMAIN es : es[i].bytes <= q.bytes /\ es[i].media <= q.media
    BY <2>1, BooksBound
  <2>4. \A i \in DOMAIN es : es[i] \in [frames : Seq(QueuedFrame), bytes : 0..Capacity,
                                        media : 0..MediaCapacity, key : {NoKey} \cup K]
    <3> SUFFICES ASSUME NEW i \in DOMAIN es
                 PROVE  es[i] \in [frames : Seq(QueuedFrame), bytes : 0..Capacity,
                                   media : 0..MediaCapacity, key : {NoKey} \cup K]
      OBVIOUS
    <3>1. es[i] \in Entries(QueuedFrame, Keys)
      BY <2>2
    <3>2. es[i].bytes \in Nat /\ es[i].media \in Nat /\ es[i].key \in {NoKey} \cup Keys
      BY <3>1 DEF Entries
    <3>3. es[i].bytes \in 0..Capacity /\ es[i].media \in 0..MediaCapacity
      BY <3>2, <2>1, <2>3, CapacityAssumption
    <3>4. es[i].key \in {NoKey} \cup K
      BY <3>2 DEF Keys
    <3> HIDE DEF K
    <3> QED
      BY <3>1, <3>3, <3>4 DEF Entries
  <2>5. q.entries \in Seq([frames : Seq(QueuedFrame), bytes : 0..Capacity,
                           media : 0..MediaCapacity, key : {NoKey} \cup K])
    <3> DEFINE E == [frames : Seq(QueuedFrame), bytes : 0..Capacity, media : 0..MediaCapacity,
                     key : {NoKey} \cup K]
    <3>1. \A i \in DOMAIN es : es[i] \in E
      BY <2>4
    <3> HIDE DEF E
    <3>2. Len(es) \in Nat /\ es \in [1..Len(es) -> E]
      BY <3>1, <2>2
    <3>3. es \in Seq(E)
      BY <3>2
    <3> QED
      BY <3>3 DEF E
  <2>6. next \in 1..(MaxFrames + 2) /\ heard \in Nat
    BY <1>1, FramesAssumption DEF Inv, NumberInv, EndInv, EndDue
  <2>7. TypeOK
    BY <1>1, <2>2, <2>5, <2>6 DEF TypeOK, Inv, ControlInv
  <2>8. BudgetKept
    BY <2>1 DEF BudgetKept, Books
  <2>9. IndexSound
    BY <2>1 DEF IndexSound, Guarded
  <2>10. MergedInOrder
    BY <2>1 DEF MergedInOrder, InOrder
  <2> QED
    BY <2>7, <2>8, <2>9, <2>10 DEF QueueSound
<1> QED
  BY <1>1, Invariance, PTL

----------------------------------------------------------------------------
(* The mailbox implements InboundStreams                                   *)

\* The frames of a list of entries.
Content(es) == UNION {At(es, i) : i \in DOMAIN es}

LEMMA QueuedIs == Queued = Content(q.entries) /\ Queued' = Content(q'.entries)
BY DEF Queued, Content, At

\* A new entry, and a frame joined to an entry, add one frame.
LEMMA AppendContent ==
  ASSUME NEW n \in Nat, NEW qq, QInv(qq, n), NEW pp, NEW f \in QueuedFrame, Appends(qq, pp, f)
  PROVE  Content(pp.entries) = Content(qq.entries) \cup {f}
<1> DEFINE es == qq.entries
           fs == pp.entries
           N == Len(es)
           e == Entry(f, inbound_replacement_key(f))
<1>1. es \in Seq(Entries(QueuedFrame, Keys))
  BY DEF QInv, Queues
<1>2. N \in Nat /\ DOMAIN es = 1..N
  BY <1>1
<1>3. fs = Append(es, e) /\ e.frames = <<f>>
  BY DEF Appends, Entry
<1> HIDE DEF e, fs
<1>4. DOMAIN fs = 1..(N + 1) /\ fs[N + 1] = e /\ \A i \in 1..N : fs[i] = es[i]
  BY <1>1, <1>3
<1> HIDE DEF es, N
<1>5. At(fs, N + 1) = {f} /\ \A i \in 1..N : At(fs, i) = At(es, i)
  BY <1>2, <1>3, <1>4, RangeOne DEF At
<1>6. \A i : i \in DOMAIN fs <=> (i \in DOMAIN es \/ i = N + 1)
  BY <1>2, <1>4
<1> QED
  BY <1>2, <1>5, <1>6 DEF Content, es, fs

LEMMA JoinContent ==
  ASSUME NEW n \in Nat, NEW qq, QInv(qq, n), NEW pp, NEW f \in QueuedFrame,
         NEW at, NEW e, Joins(qq, pp, f, at, e)
  PROVE  Content(pp.entries) = Content(qq.entries) \cup {f}
<1> DEFINE es == qq.entries
           fs == pp.entries
<1>1. es \in Seq(Entries(QueuedFrame, Keys)) /\ Shape(es)
  BY DEF QInv, Queues
<1>2. /\ at \in DOMAIN es /\ fs = [es EXCEPT ![at] = e]
      /\ e.frames = Append(es[at].frames, f)
  BY DEF Joins
<1> HIDE DEF es, fs
<1>3. es[at].frames \in Seq(QueuedFrame)
  BY <1>1, <1>2, FirstFacts
<1>4. /\ DOMAIN fs = DOMAIN es /\ fs[at] = e
      /\ \A i \in DOMAIN es : i # at => fs[i] = es[i]
  BY <1>2
<1>5. At(fs, at) = At(es, at) \cup {f}
  <2>1. Range(Append(es[at].frames, f)) = Range(es[at].frames) \cup {f}
    BY <1>3, RangeAppend
  <2>2. fs[at].frames = Append(es[at].frames, f)
    BY <1>2, <1>4
  <2> QED
    BY <2>1, <2>2 DEF At
<1>6. \A i \in DOMAIN es : i # at => At(fs, i) = At(es, i)
  BY <1>4 DEF At
<1> QED
  BY <1>2, <1>4, <1>5, <1>6 DEF Content, es, fs

\* A replacement takes an older frame of its image away; whatever is queued and
\* younger than that one may be overtaken.
LEMMA ReplaceContent ==
  ASSUME NEW n \in Nat, NEW qq, QInv(qq, n), NEW pp, NEW f \in QueuedFrame,
         NEW key, NEW at, Replaces(qq, pp, f, key, at)
  PROVE  \E old \in Content(qq.entries) :
           /\ Streams!SameImage(f, old)
           /\ \A g \in Content(qq.entries) : g.id > old.id => Streams!MayOvertake(f, g)
           /\ Content(pp.entries) = (Content(qq.entries) \ {old}) \cup {f}
<1> DEFINE es == qq.entries
           fs == pp.entries
           old == es[at].frames[1]
<1>1. es \in Seq(Entries(QueuedFrame, Keys)) /\ Shape(es) /\ Apart(es) /\ Guarded(qq)
      /\ qq.replacements \in Indexes(Keys)
  BY DEF QInv, Queues
<1>2. /\ f.kind = "graphics" /\ key = <<f.pane, f.image>> /\ key \in DOMAIN qq.replacements
      /\ at = qq.replacements[key] - qq.base + 1
      /\ fs = [es EXCEPT ![at] = Entry(f, key)]
  BY DEF Replaces
<1>3. /\ at \in DOMAIN es /\ es[at].key = key
      /\ \A j \in DOMAIN es : \A g \in At(es, j) : g.id > old.id => Behind(key, g)
  BY <1>1, <1>2 DEF Guarded
<1>4. key # NoKey /\ key[1] = f.pane /\ key[2] = f.image
  <2>1. key \in Keys
    BY <1>1, <1>2 DEF Indexes
  <2> QED
    BY <2>1, <1>2, KeyFacts
<1> HIDE DEF es, fs
<1>5. old \in At(es, at) /\ key = inbound_replacement_key(old)
  BY <1>1, <1>3, FirstFacts DEF Shape
<1>6. old.kind = "graphics" /\ <<old.pane, old.image>> = key
  BY <1>4, <1>5 DEF inbound_replacement_key
<1>7. At(es, at) = {old}
  <2>1. \A g \in At(es, at) : g = old \/ Mergeable(old)
    BY <1>1, <1>3 DEF Shape
  <2> QED
    BY <2>1, <1>5, <1>6 DEF Mergeable
<1> HIDE DEF old
<1>8. /\ DOMAIN fs = DOMAIN es /\ fs[at] = Entry(f, key)
      /\ \A i \in DOMAIN es : i # at => fs[i] = es[i]
  BY <1>2, <1>3
<1>9. At(fs, at) = {f} /\ \A i \in DOMAIN es : i # at => At(fs, i) = At(es, i)
  BY <1>3, <1>8, RangeOne DEF At, Entry
<1>10. \A i \in DOMAIN es : i # at => old \notin At(es, i)
  BY <1>1, <1>3, <1>5 DEF Apart
<1>11. Content(fs) = (Content(es) \ {old}) \cup {f}
  BY <1>3, <1>7, <1>8, <1>9, <1>10 DEF Content
<1>12. Streams!SameImage(f, old)
  BY <1>2, <1>6 DEF Streams!SameImage
<1>13. ASSUME NEW g \in Content(es), g.id > old.id
       PROVE  Streams!MayOvertake(f, g)
  <2>1. Behind(key, g)
    BY <1>3, <1>13 DEF Content, old
  <2> QED
    BY <2>1, <1>2, <1>4 DEF Behind, Streams!MayOvertake
<1>14. old \in Content(es)
  BY <1>3, <1>5 DEF Content
<1> QED
  BY <1>11, <1>12, <1>13, <1>14 DEF es, fs

\* A push is an Accept.
LEMMA PushAccepts ==
  ASSUME next \in Nat, QInv(q, next), NEW f \in QueuedFrame, f.id = next, Enqueues(q, q', f)
  PROVE  Streams!Accept(f)
<1>1. \A g \in Queued : g.id < f.id
  BY QueuedIs DEF QInv, Fresh, Content
<1>2. CASE Content(q'.entries) = Content(q.entries) \cup {f}
  BY <1>1, <1>2, QueuedIs DEF Streams!Accept
<1>3. CASE \E key, at : Replaces(q, q', f, key, at)
  BY <1>1, <1>3, QueuedIs, ReplaceContent DEF Streams!Accept
<1> QED
  BY <1>2, <1>3, AppendContent, JoinContent DEF Enqueues

\* A pop is a Deliver.
LEMMA PopDelivers ==
  ASSUME next \in Nat, QInv(q, next), q.entries # <<>>, q' = pop_front(q)
  PROVE  Streams!Next
<1> DEFINE es == q.entries
           fs == q'.entries
           N == Len(es)
           batch == At(es, 1)
<1>1. /\ q \in Queues(QueuedFrame, Keys) /\ es \in Seq(Entries(QueuedFrame, Keys))
      /\ Shape(es) /\ Apart(es) /\ Overtakes(es)
  BY DEF QInv, Queues
<1>2. fs = Tail(es)
  BY <1>1, PopFacts
<1>3. N \in Nat /\ N >= 1 /\ DOMAIN es = 1..N
  BY <1>1
<1>4. DOMAIN fs = 1..(N - 1) /\ \A i \in 1..(N - 1) : fs[i] = es[i + 1]
  BY <1>1, <1>2, <1>3
<1> HIDE DEF es, fs, N
<1>5. 1 \in DOMAIN es /\ es[1].frames[1] \in batch
  BY <1>1, <1>3, FirstFacts
<1>6. \A i \in DOMAIN fs : i + 1 \in DOMAIN es /\ i + 1 # 1 /\ At(fs, i) = At(es, i + 1)
  BY <1>3, <1>4 DEF At
<1>7. \A j \in DOMAIN es : j # 1 => j - 1 \in DOMAIN fs /\ At(fs, j - 1) = At(es, j)
  BY <1>3, <1>4 DEF At
<1>8. \A j \in DOMAIN es : j # 1 => j > 1 /\ At(es, j) \cap batch = {}
  <2>1. \A j \in DOMAIN es : j # 1 => j > 1
    BY <1>3
  <2>2. \A j \in DOMAIN es : j # 1 => At(es, j) \cap batch = {}
    BY <1>1, <1>5 DEF Apart
  <2> QED
    BY <2>1, <2>2
<1> HIDE DEF batch
<1>9. Content(fs) = Content(es) \ batch /\ batch \subseteq Content(es)
  <2>1. Content(fs) \subseteq Content(es) \ batch
    BY <1>6, <1>8 DEF Content
  <2>2. Content(es) \ batch \subseteq Content(fs)
    BY <1>7 DEF Content, batch
  <2>3. batch \subseteq Content(es)
    BY <1>5 DEF Content, batch
  <2> QED
    BY <2>1, <2>2, <2>3
<1>10. ASSUME NEW f \in batch, NEW g \in Content(es) \ batch, g.id < f.id
       PROVE  Streams!MayOvertake(f, g)
  <2>1. PICK j \in DOMAIN es : g \in At(es, j)
    BY DEF Content
  <2>2. j # 1
    BY <2>1 DEF batch
  <2> QED
    BY <2>1, <2>2, <1>1, <1>5, <1>8, <1>10 DEF Overtakes, batch
<1>11. Streams!Deliver(batch)
  BY <1>5, <1>9, <1>10, QueuedIs DEF Streams!Deliver, es, fs
<1> QED
  BY <1>9, <1>11, QueuedIs DEF Streams!Next, es

\* Every step is a step of InboundStreams or leaves what is queued alone.
LEMMA NextStreams == Inv /\ [Next]_vars => [Streams!Next]_Queued
<1> SUFFICES ASSUME Inv, [Next]_vars PROVE Streams!Next \/ Queued' = Queued
  OBVIOUS
<1>1. next \in Nat /\ QInv(q, next)
  BY DEF Inv, NumberInv
<1>2. CASE UNCHANGED q
  BY <1>2 DEF Queued
<1>3. CASE Push
  <2> DEFINE f == Numbered(hold, next)
  <2>1. /\ f \in QueuedFrame /\ f.id = next
        /\ fits_in_state(q, f, replacement_weight(Invalidated(f), inbound_replacement_key(f)))
    BY <1>3, PushHasRoom DEF Push
  <2>2. q' = Enqueued(f)
    BY <1>3, <2>1 DEF Push
  <2> HIDE DEF f
  <2>3. Enqueues(q, q', f)
    BY <2>1, <2>2, <1>1, EnqueuedFacts
  <2> QED
    BY <2>1, <2>3, <1>1, PushAccepts DEF Streams!Next
<1>4. ASSUME NEW p \in {"reader", "writer"}, PushEnd(p)
      PROVE  Streams!Next
  <2> DEFINE f == EndFrame(next)
  <2>1. f \in QueuedFrame /\ f.id = next /\ Appends(q, q', f)
    BY <1>4, PushEndAppends
  <2> QED
    BY <2>1, <1>1, PushAccepts DEF Streams!Next, Enqueues
<1>5. ASSUME NEW there, Pop(there)
      PROVE  Streams!Next
  BY <1>1, <1>5, PopDelivers DEF Pop
<1> QED
  BY <1>2, <1>3, <1>4, <1>5
     DEF Next, vars, Read, ReadFails, ReaderStep, ReadStops, OfferRefused, Leave, Offer, AcquireFails,
         Close, Schedule, WriteFails, WriterStep, Activate, AttachStep, Signal, Wake, UiStep,
         TakeDrain, PopFirst, PopMore, FinishNow, FinishDrain, CheckQueue

\* The mailbox implements InboundStreams: every push is an Accept and every pop a
\* Deliver, so merging, replacing and reordering never change what the UI can tell
\* (enqueue_inbound_frame, coalesce_inbound_segment, pop).
THEOREM StreamsRefined == Spec => StreamsKept
<1>1. Init => Streams!Init
  BY DEF Init, EmptyQueue, Queued, Streams!Init
<1> QED
  BY <1>1, NextStreams, Invariance, PTL DEF Spec, StreamsKept, Streams!Spec
=============================================================================
