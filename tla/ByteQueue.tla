----------------------------- MODULE ByteQueue -----------------------------
(***************************************************************************)
(* The queue bounded by retained bytes that stands between a connection's  *)
(* threads (ByteQueue, src/src/session/queue.rs).                          *)
(*                                                                         *)
(* A queue is a record.  Its operations run under one mutex, so each is    *)
(* an operator from the queue before it to the queue after it; the threads *)
(* that wait on its condition variable belong to the modules that use it.  *)
(*                                                                         *)
(*   entries       what is queued, oldest first                            *)
(*   base          the absolute position of the first entry                *)
(*   replacements  key -> absolute position of the entry a newer value of  *)
(*                 that key takes the place of                             *)
(*   bytes, media  the running totals the limits are applied to            *)
(*                                                                         *)
(* Media bytes and media files are two counters with the same arithmetic;  *)
(* one counter stands for both.                                            *)
(***************************************************************************)
EXTENDS Integers, Sequences, SequencesExt, Functions, Sums

CONSTANTS Capacity,        \* capacity: bytes the queue may retain
          MediaCapacity,   \* media_bytes / media_files
          NoKey            \* None, for an entry nothing may replace

ASSUME CapacityAssumption == Capacity \in Nat /\ MediaCapacity \in Nat

EmptyQueue == [entries |-> <<>>, base |-> 0, replacements |-> <<>>, bytes |-> 0, media |-> 0]

\* One queued value: the frames merged into it, what they weigh and its key.
Entry(f, key) == [frames |-> <<f>>, bytes |-> f.bytes, media |-> f.media, key |-> key]

exceeds_entry_limits(f) == f.bytes > Capacity \/ f.media > MediaCapacity

\* replacement_index: the entry a new value of `key` would replace, or 0.
replacement_index(q, key) ==
  LET known == key # NoKey /\ key \in DOMAIN q.replacements
      at == q.replacements[key] - q.base + 1
  IN IF known /\ at \in DOMAIN q.entries THEN at ELSE 0

NoWeight == [bytes |-> 0, media |-> 0]

\* replacement_weight: what that entry would give back.
replacement_weight(q, key) ==
  LET at == replacement_index(q, key)
  IN IF at = 0 THEN NoWeight
     ELSE [bytes |-> q.entries[at].bytes, media |-> q.entries[at].media]

saturating_sub(a, b) == IF a >= b THEN a - b ELSE 0

fits_in_state(q, f, previous) ==
  /\ saturating_sub(q.bytes, previous.bytes) + f.bytes <= Capacity
  /\ saturating_sub(q.media, previous.media) + f.media <= MediaCapacity

invalidate_replacements(q, doomed) ==
  [q EXCEPT !.replacements = Restrict(@, DOMAIN @ \ doomed)]

\* try_push of a value with no weight: it always fits.
try_push(q, f) == [q EXCEPT !.entries = Append(@, Entry(f, NoKey))]

\* The queue indexes a new entry that may later be replaced.
Indexed(q, key) ==
  IF key = NoKey THEN q.replacements
  ELSE [k \in DOMAIN q.replacements \cup {key} |->
          IF k = key THEN q.base + Len(q.entries) ELSE q.replacements[k]]

\* Mutant: a replacement's weight is added without giving back its predecessor's.
push_latest_leaks(q, f, key) ==
  LET at == replacement_index(q, key)
      weighed == [q EXCEPT !.bytes = @ + f.bytes, !.media = @ + f.media]
  IN IF at # 0
     THEN [weighed EXCEPT !.entries[at] = Entry(f, key)]
     ELSE [weighed EXCEPT !.replacements = Indexed(q, key), !.entries = Append(@, Entry(f, key))]

\* try_push_latest_media, once the value fits: it takes its predecessor's
\* place, weight and all, or goes to the back.
push_latest(q, f, key) ==
  LET at == replacement_index(q, key)
      previous == replacement_weight(q, key)
      weighed == [q EXCEPT !.bytes = saturating_sub(@, previous.bytes) + f.bytes,
                           !.media = saturating_sub(@, previous.media) + f.media]
  IN IF at # 0
     THEN [weighed EXCEPT !.entries[at] = Entry(f, key)]
     ELSE [weighed EXCEPT !.replacements = Indexed(q, key), !.entries = Append(@, Entry(f, key))]

\* push_blocking_within_segment_media, once the value fits: it joins the entry
\* `at` that the caller's backward scan found, or goes to the back (at = 0).
push_within_segment(q, f, at) ==
  LET e == q.entries[at]
      joined == [e EXCEPT !.frames = Append(e.frames, f), !.bytes = e.bytes + f.bytes,
                          !.media = e.media + f.media]
  IN [q EXCEPT !.bytes = @ + f.bytes, !.media = @ + f.media,
               !.entries = IF at # 0 THEN [q.entries EXCEPT ![at] = joined]
                           ELSE Append(q.entries, Entry(f, NoKey))]

\* remove_front_index
remove_front_index(q) ==
  LET key == Head(q.entries).key
      named == key # NoKey /\ key \in DOMAIN q.replacements /\ q.replacements[key] = q.base
  IN [q EXCEPT !.base = @ + 1,
               !.replacements = IF named THEN Restrict(@, DOMAIN @ \ {key}) ELSE @]

\* try_pop_with_bytes_and_more, on a queue that is not empty.
pop_front(q) ==
  LET front == Head(q.entries)
  IN [remove_front_index(q) EXCEPT !.entries = Tail(q.entries),
                                   !.bytes = @ - front.bytes, !.media = @ - front.media]

----------------------------------------------------------------------------
\* What the totals should be, recomputed from the entries.
TotalBytes(q) == Total([i \in DOMAIN q.entries |-> q.entries[i].bytes], Len(q.entries))
TotalMedia(q) == Total([i \in DOMAIN q.entries |-> q.entries[i].media], Len(q.entries))
=============================================================================
