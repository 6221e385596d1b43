-------------------------- MODULE SnapshotsProofs --------------------------
(***************************************************************************)
(* What holds of snapshots for every set of names and panes and every      *)
(* bound: at most one writer, nothing saved gets older, a server never     *)
(* starts empty over remains, a forgotten session is gone, and what the    *)
(* server believes of its disk is true.                                    *)
(***************************************************************************)
EXTENDS Snapshots, FiniteSetTheorems, SumsProofs

(***************************************************************************)
(* The inductive invariant, in parts.                                      *)
(***************************************************************************)
Starting == {"recover", "republish", "sweep", "restore", "refused"}
Stages == {"stage", "aside", "publish", "sync", "drop", "dropped"}

IsOutcome(o) ==
  /\ o \in [session : Names, generation : Nat, captured : {o.captured}, ok : BOOLEAN]
  /\ IsCapture(o.captured)

Dirs_of(n) == old[n] \cup ({final[n]} \ {None})

\* The state has its types.
Types ==
  /\ changes \in Nat /\ changes <= MaxChanges
  /\ serial \in Nat
  /\ pc \in {"down", "recover", "republish", "sweep", "restore", "refused", "running",
             "finish", "last", "finish_last", "delete", "sweep_deleted", "exit"}
  /\ session_name \in Names \cup {None}
  /\ (session_name = None) = (pc = "down")
  /\ DOMAIN panes = Panes
  /\ DOMAIN opened = Panes
  /\ \A p \in Panes : opened[p] \in Nat
  /\ unstarted \subseteq Panes
  /\ thread \in {"none", "started", "failed"}
  /\ \A p \in Panes : panes[p] = None \/ panes[p] \in Content
  /\ dirty_generation \in Nat
  /\ snapshot_generation \in Nat
  /\ DOMAIN persisted_replays \subseteq Panes
  /\ in_flight \in {0, 1}
  /\ unsettled \in {0, 1}
  /\ disposition \in {"stop", "fresh", "delete"}
  /\ \A w \in writers : IsJob(w)
  /\ done # None => IsOutcome(done)
  /\ DOMAIN final = Names
  /\ DOMAIN old = Names
  /\ DOMAIN damaged = Names
  /\ \A n \in Names : final[n] # None => IsDir(final[n])
  /\ \A n \in Names : \A dir \in old[n] : IsDir(dir)
  /\ \A n \in Names : \A dir \in damaged[n] : IsDir(dir)
  /\ renames \in Nat
  /\ savedAs \in Names \cup {None}

\* One writer or one outcome is what the loop has not settled, except for the
\* attempt a worker without a thread never made.
Threads ==
  /\ \A v, w \in writers : v = w
  /\ writers # {} => unsettled = 1 /\ done = None
  /\ done # None => unsettled = 1
  /\ pc = "down" \/ pc \in Starting => unsettled = 0 /\ in_flight = 0 /\ savedAs = None
  /\ pc = "down" \/ pc \in Starting => DOMAIN persisted_replays = {}
  /\ pc \in {"running", "finish", "finish_last"} /\ thread # "failed" => in_flight = unsettled
  /\ thread = "failed" => writers = {} /\ done = None /\ in_flight = 0
  /\ pc \in {"last", "delete", "sweep_deleted", "exit"} => in_flight = 0
  /\ pc \in {"delete", "sweep_deleted"} /\ disposition = "fresh" =>
       unsettled = 0 /\ savedAs = None /\ DOMAIN persisted_replays = {}
  /\ pc \in {"delete", "sweep_deleted"} => disposition # "stop"
  /\ pc \in {"finish", "last", "finish_last"} => disposition # "fresh"

\* The write is on disk: the published directory is the job's, whole unless
\* files vanished from it.
OnDisk(name, captured) ==
  /\ final[name] # None
  /\ final[name].wanted = captured
  /\ name \notin lost => complete_snapshot(final[name], name)

\* What is on disk: no whole backup is newer than a whole published directory.
Shelves ==
  /\ \A n \in Names : \A b \in old[n] : b.stamp < serial
  /\ \A n \in Names : \A d \in Dirs_of(n) : d.at <= changes
  /\ \A n \in Names : complete_snapshot(final[n], n) =>
       \A b \in valid_backups(n) : b.at <= final[n].at

\* How far the writer is, and what of its own it has put on disk.
Progress(w) ==
  /\ w.id < serial
  /\ w.when <= changes
  /\ w.reuse \subseteq DOMAIN w.captured
  /\ \A d \in Dirs_of(w.session) : d.at <= w.when
  /\ w.at # "stage" => DOMAIN w.files = DOMAIN w.captured
  /\ w.at \in {"stage", "aside"} => \A b \in old[w.session] : b.stamp < w.id
  /\ \A b, c \in Backups(w) : b = c
  /\ w.at = "publish" =>
       /\ final[w.session] = None
       /\ \A b \in Backups(w) : complete_snapshot(b, w.session) =>
            \A c \in valid_backups(w.session) : c.at <= b.at
  /\ w.at \in {"sync", "drop", "dropped"} => OnDisk(w.session, w.captured) \/ Deleting(w.session)

Disk == Shelves /\ \A w \in writers : Progress(w)

\* A start leaves no backup behind an unpublished name.
Remains ==
  /\ pc = "republish" => final[session_name] = None /\ old[session_name] # {}
  /\ pc \in {"sweep", "restore"} /\ final[session_name] = None => old[session_name] = {}

\* What a deletion has to remove, and who may still add to it.
Forgetting ==
  /\ session_name \in forgotten => pc = "exit"
  /\ forgotten \subseteq Names
  /\ \A n \in forgotten \ (late \cup undeleted) : final[n] = None /\ old[n] = {}
  /\ \A w \in writers : w.session \in forgotten => w.session \in late
  /\ pc \in {"delete", "sweep_deleted"} => writers = {} \/ session_name \in late
  /\ pc = "sweep_deleted" /\ session_name \notin late \cup undeleted =>
       final[session_name] = None

\* What the loop believes of its writes.
Current(job) ==
  /\ snapshot_generation < job.generation
  /\ job.generation <= dirty_generation
  /\ job.generation = dirty_generation => job.captured = Restrict(panes, Live)

Saved(dir, name) ==
  /\ complete_snapshot(dir, name)
  /\ DOMAIN dir.wanted \ unstarted = Live
  /\ \A p \in Live : \/ dir.files[p].text = panes[p].text
                     \/ MayBeAnothers(p) /\ dir.wanted[p] = panes[p]

Marks ==
  /\ snapshot_generation <= dirty_generation
  /\ \A w \in writers : Current(w)
  /\ done # None => Current(done)
  /\ done # None /\ done.ok /\ pc \notin {"delete", "sweep_deleted", "exit"} =>
       OnDisk(done.session, done.captured)
  /\ pc = "running" /\ ~snapshot_dirty /\ savedAs # None /\ savedAs \notin lost =>
       Saved(final[savedAs], savedAs)

\* What was seen of a pane is behind it or is what it has, unless its id was
\* opened again since.
Behind(p, seen) ==
  p \in Live /\ opened[p] < 2 => seen.cg < panes[p].cg \/ seen = panes[p]

Follows(captured) ==
  \A p \in DOMAIN captured : opened[p] > 0 /\ Behind(p, captured[p])

\* A pane that runs was opened here, and so was every pane a capture has seen.
Followed ==
  /\ \A p \in Live : opened[p] > 0 /\ p \notin unstarted
  /\ \A p \in DOMAIN persisted_replays : opened[p] > 0
  /\ \A w \in writers : Follows(w.captured)
  /\ done # None => Follows(done.captured)

\* A link is of the generation it was taken for, while nothing is renamed, and
\* of the same content, while its id was not opened twice.
SameGeneration(dir) == \A p \in DOMAIN dir.files : dir.files[p].cg = dir.wanted[p].cg

SameReplay(p, a, b) == a.cg = b.cg /\ (opened[p] < 2 => a.text = b.text)

\* The published files that a capture asked for are what it asked for.
Faithful(name, captured) ==
  \A p \in ReplayFiles(name) \cap DOMAIN captured :
    SameReplay(p, final[name].files[p], captured[p])

Linked ==
  renames = 0 =>
    /\ \A n \in Names : \A d \in Dirs_of(n) : SameGeneration(d)
    /\ \A w \in writers :
         /\ w.session = session_name
         /\ w.at = "stage" => \A p \in w.reuse \cap ReplayFiles(w.session) :
                                SameReplay(p, final[w.session].files[p], w.captured[p])
         /\ w.at # "stage" => \A p \in DOMAIN w.files :
                                SameReplay(p, w.files[p], w.captured[p])
         /\ w.at \in {"sync", "drop", "dropped"} => Faithful(w.session, w.captured)
    /\ done # None => done.session = session_name /\ (done.ok => Faithful(done.session, done.captured))
    /\ unsettled = 0 /\ session_name # None =>
         \A p \in DOMAIN persisted_replays \cap ReplayFiles(session_name) :
           /\ persisted_replays[p] = final[session_name].files[p].cg
           /\ Behind(p, final[session_name].files[p])

Inv == Types /\ Threads /\ Disk /\ Remains /\ Forgetting /\ Marks /\ Followed /\ Linked

----------------------------------------------------------------------------
(* Numbers and directories                                                 *)

\* What a directory is made of.
LEMMA DirFields ==
  ASSUME NEW d, IsDir(d)
  PROVE  /\ d # None
         /\ d.at \in Nat /\ d.stamp \in Nat /\ d.session \in Names /\ d.meta \in BOOLEAN
         /\ DOMAIN d.wanted \subseteq Panes /\ \A p \in DOMAIN d.wanted : d.wanted[p] \in Content
         /\ \A p \in DOMAIN d.files : d.files[p] \in Content
         /\ DOMAIN d.files \subseteq DOMAIN d.wanted
<1>1. d \in Dirs
  BY DEF IsDir, IsCapture, Dirs, Captures
<1> QED
  BY <1>1, BoundsAssumption DEF IsDir, IsCapture

\* A directory moved keeps everything but its stamp.
LEMMA Moved ==
  ASSUME NEW d, IsDir(d), NEW k \in Nat
  PROVE  LET e == [d EXCEPT !.stamp = k] IN
         /\ IsDir(e)
         /\ e.stamp = k /\ e.at = d.at /\ e.session = d.session /\ e.meta = d.meta
         /\ e.wanted = d.wanted /\ e.files = d.files
         /\ \A n : complete_snapshot(e, n) <=> complete_snapshot(d, n)
<1> DEFINE e == [d EXCEPT !.stamp = k]
<1>1. /\ e.stamp = k /\ e.at = d.at /\ e.session = d.session /\ e.meta = d.meta
      /\ e.wanted = d.wanted /\ e.files = d.files
  BY DEF IsDir
<1>2. IsDir(e)
  BY DEF IsDir
<1>3. d # None /\ e # None
  BY <1>2, DirFields
<1> HIDE DEF e
<1>4. \A n : complete_snapshot(e, n) <=> complete_snapshot(d, n)
  BY <1>1, <1>3 DEF complete_snapshot
<1> QED
  BY <1>1, <1>2, <1>4 DEF e

\* A torn directory is a directory that nobody restores whole.
LEMMA TornDir ==
  ASSUME NEW d, IsDir(d)
  PROVE  /\ IsDir(Torn(d))
         /\ Torn(d).stamp = d.stamp /\ Torn(d).at = d.at
         /\ Torn(d).wanted = d.wanted /\ Torn(d).files = d.files
         /\ \A n : ~ complete_snapshot(Torn(d), n)
<1>1. /\ IsDir(Torn(d))
      /\ Torn(d).stamp = d.stamp /\ Torn(d).at = d.at /\ Torn(d).meta = FALSE
      /\ Torn(d).wanted = d.wanted /\ Torn(d).files = d.files
  BY DEF IsDir, Torn
<1> QED
  BY <1>1 DEF complete_snapshot

\* The newest of some directories is one of them, and none is newer.
LEMMA NewestIs ==
  ASSUME NEW S, S # {}, NEW M \in Nat, NEW K \in Nat,
         \A d \in S : IsDir(d) /\ d.at <= M /\ d.stamp <= K
  PROVE  Newest(S) \in S /\ \A a \in S : a.at <= Newest(S).at
<1>0. \A d \in S : d.at \in Nat /\ d.stamp \in Nat
  BY DirFields
<1>1. PICK m \in {d.at : d \in S} : \A x \in {d.at : d \in S} : x <= m
  <2>1. {d.at : d \in S} \in SUBSET Nat /\ {d.at : d \in S} # {}
    BY <1>0
  <2>2. \A x \in {d.at : d \in S} : x <= M
    OBVIOUS
  <2> QED
    BY <2>1, <2>2, GreatestNat
<1> DEFINE T == {d \in S : d.at = m}
<1>2. PICK k \in {d.stamp : d \in T} : \A x \in {d.stamp : d \in T} : x <= k
  <2>1. {d.stamp : d \in T} \in SUBSET Nat /\ {d.stamp : d \in T} # {}
    BY <1>0, <1>1
  <2>2. \A x \in {d.stamp : d \in T} : x <= K
    OBVIOUS
  <2> QED
    BY <2>1, <2>2, GreatestNat
<1>3. PICK b \in T : b.stamp = k
  OBVIOUS
<1>4. \A a \in S : NotNewer(a, b)
  <2> SUFFICES ASSUME NEW a \in S PROVE NotNewer(a, b)
    OBVIOUS
  <2>1. a.at <= b.at
    BY <1>1, <1>3
  <2>2. a.at = b.at => a.stamp <= b.stamp
    BY <1>2, <1>3
  <2> QED
    BY <2>1, <2>2, <1>0 DEF NotNewer
<1>5. b \in S
  OBVIOUS
<1>6. Newest(S) \in S /\ \A a \in S : NotNewer(a, Newest(S))
  BY <1>4, <1>5, Zenon DEF Newest
<1> QED
  BY <1>6, <1>0 DEF NotNewer

\* The newest unreadable backup is a backup.
LEMMA UnreadableIs ==
  ASSUME NEW n, old[n] # {}, NEW K \in Nat, \A d \in old[n] : IsDir(d) /\ d.stamp <= K
  PROVE  newest_unreadable_backup(n) \in old[n]
<1>0. \A d \in old[n] : d.stamp \in Nat
  BY DirFields
<1>1. PICK k \in {d.stamp : d \in old[n]} : \A x \in {d.stamp : d \in old[n]} : x <= k
  <2>1. {d.stamp : d \in old[n]} \in SUBSET Nat /\ {d.stamp : d \in old[n]} # {}
    BY <1>0
  <2>2. \A x \in {d.stamp : d \in old[n]} : x <= K
    OBVIOUS
  <2> QED
    BY <2>1, <2>2, GreatestNat
<1>2. PICK b \in old[n] : b.stamp = k
  OBVIOUS
<1>3. \A a \in old[n] : a.stamp <= b.stamp
  BY <1>1, <1>2
<1> QED
  BY <1>3, Zenon DEF newest_unreadable_backup

\* What a server for n would restore from, by what is there.
LEMMA CandidateIs ==
  ASSUME Types, Disk, NEW n \in Names
  PROVE  LET c == snapshot_recovery_candidate(n) IN
         /\ complete_snapshot(final[n], n) => c = final[n]
         /\ ~ complete_snapshot(final[n], n) /\ valid_backups(n) # {} =>
              c \in valid_backups(n) /\ \A b \in valid_backups(n) : b.at <= c.at
         /\ ~ complete_snapshot(final[n], n) /\ valid_backups(n) = {} =>
              ~ complete_snapshot(c, n)
         /\ final[n] = None /\ old[n] # {} => c \in old[n]
         /\ final[n] = None /\ old[n] = {} => c = None
         /\ c = final[n] \/ c \in old[n]
<1>1. \A d \in old[n] : IsDir(d) /\ d.at <= changes /\ d.stamp <= serial
  <2>1. \A d \in old[n] : IsDir(d) /\ d.stamp < serial /\ d.at <= changes
    BY DEF Types, Disk, Shelves, Progress, Dirs_of
  <2> QED
    BY <2>1, DirFields DEF Types
<1>2. ~ complete_snapshot(None, n)
  BY DEF complete_snapshot
<1>3. changes \in Nat /\ serial \in Nat
  BY DEF Types
<1>4. old[n] # {} => newest_unreadable_backup(n) \in old[n]
  BY <1>1, <1>3, UnreadableIs
<1>5. old[n] = {} => newest_unreadable_backup(n) = None
  BY DEF newest_unreadable_backup
<1>6. valid_backups(n) # {} =>
        /\ Newest(valid_backups(n)) \in valid_backups(n)
        /\ \A b \in valid_backups(n) : b.at <= Newest(valid_backups(n)).at
  <2>1. \A d \in valid_backups(n) : IsDir(d) /\ d.at <= changes /\ d.stamp <= serial
    BY <1>1 DEF valid_backups
  <2> QED
    BY <2>1, <1>3, NewestIs
<1>7. valid_backups(n) \subseteq old[n] /\ \A b \in old[n] : b \notin valid_backups(n) => ~ complete_snapshot(b, n)
  BY DEF valid_backups
<1>8. valid_backups(n) = {} /\ final[n] = None => ~ complete_snapshot(newest_unreadable_backup(n), n)
  BY <1>2, <1>4, <1>5, <1>7
<1> QED
  BY <1>2, <1>4, <1>5, <1>6, <1>7, <1>8 DEF snapshot_recovery_candidate

\* Age is the number of the newest whole directory.
AgeIsNewest ==
  \A n \in Names :
    /\ Age(n) \in Nat
    /\ \A d \in Dirs_of(n) : complete_snapshot(d, n) => d.at <= Age(n)
    /\ Age(n) = 0 \/ \E d \in Dirs_of(n) : complete_snapshot(d, n) /\ d.at = Age(n)

LEMMA AgeIs == Types /\ Disk => AgeIsNewest
<1> SUFFICES ASSUME Types, Disk, NEW n \in Names
             PROVE  /\ Age(n) \in Nat
                    /\ \A d \in Dirs_of(n) : complete_snapshot(d, n) => d.at <= Age(n)
                    /\ Age(n) = 0 \/ \E d \in Dirs_of(n) : complete_snapshot(d, n) /\ d.at = Age(n)
  BY DEF AgeIsNewest
<1> DEFINE c == snapshot_recovery_candidate(n)
<1>1. \A d \in Dirs_of(n) : d.at \in Nat
  <2>1. \A d \in Dirs_of(n) : IsDir(d)
    BY DEF Types, Dirs_of
  <2> QED
    BY <2>1, DirFields
<1>2. \A d \in Dirs_of(n) : complete_snapshot(d, n) => d = final[n] \/ d \in valid_backups(n)
  BY DEF Dirs_of, valid_backups
<1>3. valid_backups(n) \subseteq Dirs_of(n) /\ \A b \in valid_backups(n) : complete_snapshot(b, n)
  BY DEF Dirs_of, valid_backups
<1>4. complete_snapshot(final[n], n) => final[n] \in Dirs_of(n)
  BY DEF Dirs_of, complete_snapshot
<1>5. complete_snapshot(final[n], n) => \A b \in valid_backups(n) : b.at <= final[n].at
  BY DEF Disk, Shelves, Progress
<1>6. Age(n) = IF complete_snapshot(c, n) THEN c.at ELSE 0
  BY DEF Age
<1>7. /\ complete_snapshot(final[n], n) => c = final[n]
      /\ ~ complete_snapshot(final[n], n) /\ valid_backups(n) # {} =>
           c \in valid_backups(n) /\ \A b \in valid_backups(n) : b.at <= c.at
      /\ ~ complete_snapshot(final[n], n) /\ valid_backups(n) = {} =>
           ~ complete_snapshot(c, n)
  BY CandidateIs
<1> HIDE DEF c
<1> QED
  BY <1>1, <1>2, <1>3, <1>4, <1>5, <1>6, <1>7

----------------------------------------------------------------------------
(* The server loop                                                         *)

\* A pane's content may be a Content and is then something.
LEMMA SomeContent ==
  ASSUME NEW c \in Content
  PROVE  c # None
BY BoundsAssumption

\* What lies under a name is typed.
LEMMA DirsTyped ==
  ASSUME Types
  PROVE  \A n \in Names : \A d \in Dirs_of(n) : d.at \in Nat /\ d.stamp \in Nat /\ IsDir(d)
<1>1. \A n \in Names : \A d \in Dirs_of(n) : IsDir(d)
  BY DEF Types, Dirs_of
<1> QED
  BY <1>1, DirFields

\* What was seen of a pane stays behind it: output moves its generation on, and
\* a pane opened under the id of one that was seen is the second.
LEMMA StaysBehind ==
  ASSUME Types, NEW p \in Panes, NEW c, panes' = [panes EXCEPT ![p] = c],
         \/ c = None /\ opened' = opened
         \/ c \in Content /\ panes[p] = None /\ opened' = [opened EXCEPT ![p] = @ + 1]
         \/ c \in Content /\ panes[p] # None /\ opened' = opened /\ panes[p].cg < c.cg,
         NEW q \in Panes, NEW seen \in Content, opened[q] > 0, Behind(q, seen)
  PROVE  Behind(q, seen)'
<1>1. DOMAIN panes = Panes /\ opened[q] \in Nat /\ DOMAIN opened = Panes
  BY DEF Types
<1>2. CASE q # p
  BY <1>1, <1>2 DEF Behind, Live
<1>3. CASE q = p /\ c = None
  BY <1>1, <1>3 DEF Behind, Live
<1>4. CASE q = p /\ panes[p] = None /\ opened' = [opened EXCEPT ![p] = @ + 1]
  BY <1>1, <1>4 DEF Behind
<1>5. CASE q = p /\ c \in Content /\ panes[p] # None /\ opened' = opened /\ panes[p].cg < c.cg
  <2>1. SUFFICES ASSUME opened[q] < 2
                 PROVE  seen.cg < c.cg
    BY <1>1, <1>5 DEF Behind
  <2>2. q \in Live
    BY <1>5 DEF Live
  <2>3. seen.cg < panes[q].cg \/ seen = panes[q]
    BY <2>1, <2>2 DEF Behind
  <2>4. seen.cg \in Nat /\ c.cg \in Nat /\ panes[q].cg \in Nat
    BY <1>5 DEF Content, Types
  <2>5. panes[q].cg < c.cg
    BY <1>5
  <2>6. CASE seen.cg < panes[q].cg
    BY <2>4, <2>5, <2>6
  <2>7. CASE seen = panes[q]
    BY <2>5, <2>7
  <2> QED
    BY <2>3, <2>6, <2>7
<1> QED
  BY <1>2, <1>3, <1>4, <1>5

\* The panes and the count of changes are all that a change changes.
PaneStep(p, c) ==
  /\ changes' = changes + 1
  /\ panes' = [panes EXCEPT ![p] = c]
  /\ unstarted' = unstarted \ {p}
  /\ dirty_generation' = dirty_generation + 1
  /\ \/ c = None /\ opened' = opened
     \/ c \in Content /\ panes[p] = None /\ opened' = [opened EXCEPT ![p] = @ + 1]
     \/ c \in Content /\ panes[p] # None /\ opened' = opened /\ panes[p].cg < c.cg
  /\ UNCHANGED <<serial, pc, session_name, snapshot_generation, persisted_replays,
                 in_flight, unsettled, thread, disposition, worker, disk, bounds, history>>

\* A pane is opened, writes or is closed.
LEMMA PaneStepInv ==
  ASSUME Inv, NEW p \in Panes, NEW c, PaneStep(p, c), changes < MaxChanges, pc = "running"
  PROVE  Inv'
<1> USE DEF Inv, PaneStep, worker, disk, bounds, history
<1>0. None \notin Content
  BY BoundsAssumption
<1>a. \A q \in Panes : opened[q] \in Nat /\ opened'[q] \in Nat /\ opened[q] <= opened'[q]
  BY DEF Types
<1>b. \A q \in Panes : \A seen \in Content : opened[q] > 0 /\ Behind(q, seen) => Behind(q, seen)'
  <2> SUFFICES ASSUME NEW q \in Panes, NEW seen \in Content, opened[q] > 0, Behind(q, seen)
               PROVE  Behind(q, seen)'
    OBVIOUS
  <2>1. Types
    OBVIOUS
  <2>2. /\ panes' = [panes EXCEPT ![p] = c]
        /\ \/ c = None /\ opened' = opened
           \/ c \in Content /\ panes[p] = None /\ opened' = [opened EXCEPT ![p] = @ + 1]
           \/ c \in Content /\ panes[p] # None /\ opened' = opened /\ panes[p].cg < c.cg
    OBVIOUS
  <2> QED
    BY ONLY <2>1, <2>2, p \in Panes, q \in Panes, seen \in Content, opened[q] > 0,
            Behind(q, seen), StaysBehind
<1>1. Types'
  <2>1. \A q \in Panes : panes'[q] = None \/ panes'[q] \in Content
    BY DEF Types
  <2>2. changes' \in Nat /\ changes' <= MaxChanges
    BY BoundsAssumption DEF Types
  <2>3. DOMAIN opened' = Panes /\ DOMAIN panes' = Panes
    BY DEF Types
  <2> QED
    BY <1>a, <2>1, <2>2, <2>3 DEF Types
<1>2. Threads'
  BY DEF Threads, Starting
<1>3. Disk'
  <2>1. \A n \in Names : \A d \in Dirs_of(n) : d.at <= changes + 1
    BY DirsTyped DEF Disk, Shelves, Progress, Types
  <2>2. \A w \in writers : w.when <= changes + 1
    BY DEF Disk, Shelves, Progress, Types, IsJob
  <2>3. UNCHANGED <<writers, final, old, serial, lost, pc, session_name, disposition>> /\ changes' = changes + 1
    OBVIOUS
  <2> QED
    BY <2>1, <2>2, <2>3 DEF Disk, Shelves, Progress, Dirs_of, valid_backups, Backups, OnDisk, Deleting
<1>4. Remains'
  BY DEF Remains
<1>5. Forgetting'
  BY DEF Forgetting
<1>6. Marks'
  BY DEF Marks, Types, Current, OnDisk, snapshot_dirty, IsJob, IsOutcome
<1>7. Followed'
  <2>1. \A q \in Live' : opened'[q] > 0 /\ q \notin unstarted'
    <3> SUFFICES ASSUME NEW q \in Live'
                 PROVE  opened'[q] > 0 /\ q \notin unstarted'
      OBVIOUS
    <3>1. q \in Panes
      BY DEF Live
    <3>2. CASE q # p
      BY <3>1, <3>2, <1>a DEF Followed, Live, Types
    <3>3. CASE q = p
      BY <3>1, <3>3, <1>a, <1>0 DEF Followed, Live, Types
    <3> QED
      BY <3>2, <3>3
  <2>2. \A q \in DOMAIN persisted_replays' : opened'[q] > 0
    BY <1>a DEF Followed, Types
  <2>3. ASSUME NEW captured, IsCapture(captured), Follows(captured)
        PROVE  Follows(captured)'
    BY <2>3, <1>a, <1>b DEF Follows, IsCapture
  <2>4. \A w \in writers : Follows(w.captured)'
    BY <2>3 DEF Followed, Types, IsJob
  <2>5. done # None => Follows(done.captured)'
    BY <2>3 DEF Followed, Types, IsOutcome
  <2> QED
    BY <2>1, <2>2, <2>4, <2>5 DEF Followed, Follows, Behind, Live
<1>8. Linked'
  <2> SUFFICES ASSUME renames = 0 PROVE Linked'
    BY DEF Linked
  <2>1. ASSUME NEW q \in Panes, NEW f, NEW g, SameReplay(q, f, g)
        PROVE  SameReplay(q, f, g)'
    BY <2>1, <1>a DEF SameReplay
  <2>2. ASSUME NEW w \in writers
        PROVE  /\ w.session = session_name
               /\ w.at = "stage" => \A q \in w.reuse \cap ReplayFiles(w.session) :
                                      SameReplay(q, final[w.session].files[q], w.captured[q])'
               /\ w.at # "stage" => \A q \in DOMAIN w.files :
                                      SameReplay(q, w.files[q], w.captured[q])'
               /\ w.at \in {"sync", "drop", "dropped"} => Faithful(w.session, w.captured)'
    <3>1. IsJob(w) /\ w.reuse \subseteq Panes /\ DOMAIN w.files \subseteq Panes /\ DOMAIN w.captured \subseteq Panes
      BY DEF Types, IsJob, IsCapture
    <3>2. w.at = "stage" => \A q \in w.reuse \cap ReplayFiles(w.session) :
                              SameReplay(q, final[w.session].files[q], w.captured[q])'
      BY <3>1, <2>1 DEF Linked
    <3>3. w.at # "stage" => \A q \in DOMAIN w.files : SameReplay(q, w.files[q], w.captured[q])'
      BY <3>1, <2>1 DEF Linked
    <3>4. w.at \in {"sync", "drop", "dropped"} => Faithful(w.session, w.captured)'
      BY <3>1, <2>1 DEF Linked, Faithful, ReplayFiles
    <3> QED
      BY <3>2, <3>3, <3>4 DEF Linked
  <2>3. done # None => done.session = session_name /\ (done.ok => Faithful(done.session, done.captured)')
    BY <2>1 DEF Linked, Faithful, ReplayFiles, Types, IsOutcome, IsCapture
  <2>4. unsettled = 0 /\ session_name # None =>
          \A q \in DOMAIN persisted_replays \cap ReplayFiles(session_name) :
            /\ persisted_replays[q] = final[session_name].files[q].cg
            /\ Behind(q, final[session_name].files[q])'
    <3> SUFFICES ASSUME unsettled = 0, session_name # None,
                        NEW q \in DOMAIN persisted_replays \cap ReplayFiles(session_name)
                 PROVE  /\ persisted_replays[q] = final[session_name].files[q].cg
                        /\ Behind(q, final[session_name].files[q])'
      OBVIOUS
    <3>1. q \in Panes /\ opened[q] > 0
      BY DEF Followed, Types
    <3>2. IsDir(final[session_name]) /\ q \in DOMAIN final[session_name].files
      BY DEF ReplayFiles, Types
    <3>3. final[session_name].files[q] \in Content
      BY <3>2, DirFields
    <3>4. persisted_replays[q] = final[session_name].files[q].cg /\ Behind(q, final[session_name].files[q])
      BY DEF Linked
    <3> QED
      BY <3>1, <3>3, <3>4, <1>b
  <2> QED
    BY <2>2, <2>3, <2>4 DEF Linked, Dirs_of, ReplayFiles, SameGeneration, SameReplay, Faithful, Behind, Live
<1> QED
  BY <1>1, <1>2, <1>3, <1>4, <1>5, <1>6, <1>7, <1>8

LEMMA SpawnStep ==
  ASSUME Inv, NEW p \in Panes, Spawn(p)
  PROVE  Inv'
<1>1. [cg |-> 0, text |-> changes + 1] \in Content
  BY DEF Content, Inv, Types
<1>2. PaneStep(p, [cg |-> 0, text |-> changes + 1]) /\ changes < MaxChanges /\ pc = "running"
  BY <1>1 DEF Spawn, Changed, PaneStep, mark_dirty
<1> QED
  BY <1>2, PaneStepInv

LEMMA OutputStep ==
  ASSUME Inv, NEW p \in Panes, Output(p)
  PROVE  Inv'
<1>1. panes[p] # None /\ panes[p].cg \in Nat
  BY DEF Output, Inv, Types, Content
<1>2. [cg |-> panes[p].cg + 1, text |-> changes + 1] \in Content
  BY <1>1 DEF Content, Inv, Types
<1>3. PaneStep(p, [cg |-> panes[p].cg + 1, text |-> changes + 1]) /\ changes < MaxChanges /\ pc = "running"
  BY <1>1, <1>2 DEF Output, Changed, PaneStep, mark_dirty
<1> QED
  BY <1>3, PaneStepInv

LEMMA CloseStep ==
  ASSUME Inv, NEW p \in Panes, Close(p)
  PROVE  Inv'
<1>1. PaneStep(p, None) /\ changes < MaxChanges /\ pc = "running"
  BY DEF Close, PaneStep, mark_dirty
<1> QED
  BY <1>1, PaneStepInv

LEMMA RenameStep ==
  ASSUME Inv, NEW n \in Names, Rename(n)
  PROVE  Inv'
<1> USE DEF Inv, Rename, counters, worker, disk, loaded
<1>1. Types'
  BY BoundsAssumption DEF Types
<1>2. Threads'
  BY DEF Threads, Starting
<1>3. Disk'
  BY DEF Disk, Shelves, Progress, Types, Dirs_of, valid_backups, Backups, OnDisk, Deleting
<1>4. Remains'
  BY DEF Remains
<1>5. Forgetting'
  BY DEF Forgetting
<1>6. Marks'
  BY DEF Marks, Current, OnDisk, snapshot_dirty, Saved, Live, MayBeAnothers, Types
<1>7. Followed'
  BY DEF Followed, Follows, Behind, Live
<1>8. Linked'
  BY DEF Linked, Types
<1> QED
  BY <1>1, <1>2, <1>3, <1>4, <1>5, <1>6, <1>7, <1>8

\* A job captures the live panes as they are.
LEMMA CapturedJob ==
  ASSUME Types, pc # "down"
  PROVE  /\ IsJob(capture_snapshot)
         /\ capture_snapshot.at = "stage"
         /\ capture_snapshot.id = serial
         /\ capture_snapshot.generation = dirty_generation
         /\ capture_snapshot.when = changes
         /\ capture_snapshot.session = session_name
         /\ capture_snapshot.captured = Restrict(panes, Live)
         /\ capture_snapshot.reuse = {p \in Live : Reusable(p)}
<1>1. session_name \in Names
  BY DEF Types
<1>2. Restrict(panes, Live) \in [Live -> Content]
  BY DEF Restrict, Live, Types
<1>3. Restrict(panes, {}) \in [{} -> Content]
  BY DEF Restrict
<1>4. Live \in SUBSET Panes /\ {} \in SUBSET Panes /\ {p \in Live : Reusable(p)} \in SUBSET Panes
  BY DEF Live
<1>5. IsCapture(Restrict(panes, Live)) /\ IsCapture(Restrict(panes, {}))
  BY <1>2, <1>3, <1>4 DEF IsCapture
<1> QED
  BY <1>1, <1>4, <1>5 DEF capture_snapshot, IsJob, Types

\* The job is sent.
Dispatched ==
  /\ thread # "failed"
  /\ NoFault
  /\ thread' = "started"
  /\ writers' = writers \cup {capture_snapshot}
  /\ serial' = serial + 1
  /\ in_flight' = in_flight + 1
  /\ unsettled' = unsettled + 1
  /\ UNCHANGED <<changes, session_name, loaded, dirty_generation, snapshot_generation,
                 persisted_replays, disposition, done, disk, deaths, renames, history>>

LEMMA DispatchedStep ==
  ASSUME Inv, Dispatched, in_flight = 0, unsettled = 0, snapshot_dirty,
         \/ pc = "running" /\ pc' = "running"
         \/ pc = "last" /\ pc' = "finish_last"
  PROVE  Inv'
<1> USE DEF Inv, Dispatched, NoFault, loaded, disk, bounds, history
<1> PICK w : w = capture_snapshot
  OBVIOUS
<1>0. /\ IsJob(w) /\ w.at = "stage" /\ w.id = serial /\ w.generation = dirty_generation
      /\ w.when = changes /\ w.session = session_name /\ w.captured = Restrict(panes, Live)
      /\ w.reuse = {p \in Live : Reusable(p)}
  BY CapturedJob
<1>a. writers = {} /\ done = None /\ writers' = {w}
  BY DEF Threads, Types
<1>b. DOMAIN w.captured = Live /\ \A p \in Live : w.captured[p] = panes[p]
  BY <1>0 DEF Restrict
<1>c. session_name \in Names /\ session_name \notin forgotten
  BY DEF Types, Forgetting
<1>d. in_flight' = 1 /\ unsettled' = 1
  BY DEF Types, Threads
<1>1. Types'
  BY <1>0, <1>a, <1>d DEF Types
<1>2. Threads'
  BY <1>0, <1>a, <1>d DEF Threads, Types, Starting
<1>3. Disk'
  <2>1. \A n \in Names : \A b \in old[n] : b.stamp \in Nat /\ b.stamp < serial + 1
    BY DirFields DEF Disk, Shelves, Progress, Types
  <2>2. \A b \in old[w.session] : b.stamp < w.id
    BY <1>0, <1>c DEF Disk, Shelves, Progress
  <2>3. \A d \in Dirs_of(w.session) : d.at <= w.when
    BY <1>0, <1>c DEF Disk, Shelves, Progress
  <2>4. Backups(w) = {}
    BY <2>1, <2>2, <1>0, <1>c DEF Backups, Types
  <2>5. w.id < serial + 1 /\ w.when <= changes /\ w.reuse \subseteq DOMAIN w.captured
    BY <1>0, <1>b DEF Types
  <2>6. Backups(w)' = Backups(w) /\ Dirs_of(w.session)' = Dirs_of(w.session)
    BY DEF Backups, Dirs_of
  <2> QED
    BY <1>a, <1>0, <2>1, <2>2, <2>3, <2>4, <2>5, <2>6 DEF Disk, Shelves, Progress, Dirs_of, valid_backups
<1>4. Remains'
  BY DEF Remains
<1>5. Forgetting'
  BY <1>a, <1>0, <1>c DEF Forgetting
<1>6. Marks'
  <2>1. snapshot_generation < dirty_generation
    BY DEF Marks, snapshot_dirty, Types
  <2>2. Current(w)'
    BY <1>0, <2>1 DEF Current, Live, Types
  <2>3. snapshot_generation' <= dirty_generation'
    BY DEF Marks
  <2>4. done' = None /\ ~ (pc' = "running" /\ ~ snapshot_dirty')
    BY <1>a DEF snapshot_dirty
  <2> QED
    BY <1>a, <2>2, <2>3, <2>4 DEF Marks
<1>7. Followed'
  <2>1. Follows(w.captured)
    BY <1>b DEF Followed, Follows, Behind, Live
  <2> QED
    BY <1>a, <2>1 DEF Followed, Follows, Behind, Live
<1>8. Linked'
  <2>1. SUFFICES ASSUME renames = 0
                 PROVE  Linked'
    BY DEF Linked
  <2>2. \A p \in w.reuse \cap ReplayFiles(w.session) :
          SameReplay(p, final[w.session].files[p], w.captured[p])
    <3> SUFFICES ASSUME NEW p \in w.reuse \cap ReplayFiles(w.session)
                 PROVE  SameReplay(p, final[w.session].files[p], w.captured[p])
      OBVIOUS
    <3> DEFINE file == final[session_name].files[p]
    <3>1. p \in Live /\ p \in DOMAIN persisted_replays /\ persisted_replays[p] = panes[p].cg
          /\ p \in ReplayFiles(session_name) /\ w.captured[p] = panes[p]
      BY <1>0, <1>b DEF Reusable
    <3>2. persisted_replays[p] = file.cg /\ Behind(p, file)
      BY <3>1, <2>1, <1>c, BoundsAssumption DEF Linked
    <3>3. file.cg = panes[p].cg /\ panes[p].cg \in Nat
      BY <3>1, <3>2 DEF Types, Content, Live
    <3>4. opened[p] < 2 => file = panes[p]
      BY <3>1, <3>2, <3>3 DEF Behind
    <3> QED
      BY <1>0, <3>1, <3>3, <3>4 DEF SameReplay
  <2>3. unsettled' # 0 /\ done' = None
    BY <1>a, <1>d
  <2>4. w.session = session_name /\ w.at = "stage"
    BY <1>0
  <2> QED
    BY <1>a, <2>1, <2>2, <2>3, <2>4 DEF Linked, Dirs_of, ReplayFiles, SameReplay
<1> QED
  BY <1>1, <1>2, <1>3, <1>4, <1>5, <1>6, <1>7, <1>8

\* The worker's thread could not be started, now or earlier.
LEMMA UnstartedStep ==
  ASSUME Inv, dispatch_snapshot, ~ Dispatched, in_flight = 0, unsettled = 0 \/ thread = "failed",
         snapshot_dirty,
         \/ pc = "running" /\ pc' = "running"
         \/ pc = "last" /\ pc' = "finish_last"
  PROVE  Inv'
<1> USE DEF Inv, loaded, disk, history
<1>0. /\ thread' = "failed" /\ unsettled' = 1
      /\ UNCHANGED <<writers, serial, in_flight>>
      /\ UNCHANGED <<changes, session_name, loaded, dirty_generation, snapshot_generation,
                     persisted_replays, disposition, done, disk, deaths, renames, history>>
  BY DEF dispatch_snapshot, Dispatched
<1>a. writers = {} /\ done = None
  BY <1>0 DEF Threads, Types
<1>1. Types'
  BY <1>0 DEF Types
<1>2. Threads'
  BY <1>0, <1>a DEF Threads, Types, Starting
<1>3. Disk'
  BY <1>0, <1>a DEF Disk, Shelves, Types, Dirs_of, valid_backups
<1>4. Remains'
  BY <1>0 DEF Remains
<1>5. Forgetting'
  BY <1>0, <1>a DEF Forgetting
<1>6. Marks'
  BY <1>0, <1>a DEF Marks, snapshot_dirty
<1>7. Followed'
  BY <1>0, <1>a DEF Followed, Follows, Behind, Live
<1>8. Linked'
  BY <1>0, <1>a DEF Linked, Dirs_of, ReplayFiles
<1> QED
  BY <1>1, <1>2, <1>3, <1>4, <1>5, <1>6, <1>7, <1>8

LEMMA DispatchStep ==
  ASSUME Inv, dispatch_snapshot, in_flight = 0, unsettled = 0 \/ thread = "failed", snapshot_dirty,
         \/ pc = "running" /\ pc' = "running"
         \/ pc = "last" /\ unsettled = 0 /\ pc' = "finish_last"
  PROVE  Inv'
<1>1. CASE Dispatched
  <2>1. thread # "failed"
    BY <1>1 DEF Dispatched
  <2> QED
    BY <1>1, <2>1, DispatchedStep
<1>2. CASE ~ Dispatched
  BY <1>2, UnstartedStep
<1> QED
  BY <1>1, <1>2

LEMMA CaptureFailsStep ==
  ASSUME Inv, CaptureFails
  PROVE  Inv'
<1> USE DEF Inv, CaptureFails, counters, loaded, worker, disk, history, NothingPersisted
<1>1. Types'
  BY DEF Types
<1>2. Threads'
  BY DEF Threads, Starting
<1>3. Disk'
  BY DEF Disk, Shelves, Progress, Types, Dirs_of, valid_backups, Backups, OnDisk, Deleting
<1>4. Remains'
  BY DEF Remains
<1>5. Forgetting'
  BY DEF Forgetting
<1>6. Marks'
  BY DEF Marks, Current, OnDisk, snapshot_dirty, Live
<1>7. Followed'
  BY DEF Followed, Follows, Behind, Live
<1>8. Linked'
  BY DEF Linked, Dirs_of, ReplayFiles, SameReplay, Faithful
<1> QED
  BY <1>1, <1>2, <1>3, <1>4, <1>5, <1>6, <1>7, <1>8

\* Settling an outcome: of drain_snapshot_results and of finish_snapshots.
LEMMA SettleStep ==
  ASSUME Inv, done # None, Settle(done), in_flight' = 0,
         \/ pc = "running" /\ pc' = "running"
         \/ pc \in {"finish", "finish_last"} /\ pc' = AfterFinish,
         thread' \in {thread, "none"},
         UNCHANGED <<counters, session_name, loaded, dirty_generation, disposition,
                     writers, disk, bounds, lost, late, undeleted, forgotten>>
  PROVE  Inv'
<1> USE DEF Inv, Settle, counters, loaded, disk, bounds
<1>a. writers = {} /\ unsettled = 1 /\ unsettled' = 0 /\ done' = None
  BY DEF Threads, Types
<1>b. /\ IsOutcome(done)
      /\ done.session \in Names /\ done.generation \in Nat /\ done.ok \in BOOLEAN
      /\ DOMAIN done.captured \subseteq Panes
  BY DEF Types, IsOutcome, IsCapture
<1>c. pc' \in {"running", "last", "delete", "exit"} /\ (pc' = "delete" => disposition = "delete")
  BY DEF AfterFinish
<1>d. pc' # "running" => pc \in {"finish", "finish_last"}
  OBVIOUS
<1>p. DOMAIN persisted_replays' \subseteq Panes
  BY <1>b DEF NothingPersisted
<1>1. Types'
  <2>1. pc' \in {"down", "recover", "republish", "sweep", "restore", "refused", "running",
             "finish", "last", "finish_last", "delete", "sweep_deleted", "exit"} /\ pc' # "down" /\ pc # "down"
    BY <1>c
  <2>2. snapshot_generation' \in Nat /\ savedAs' \in Names \cup {None}
    BY <1>b DEF Types
  <2> QED
    BY <1>a, <1>b, <1>p, <2>1, <2>2 DEF Types
<1>2. Threads'
  <2>1. thread' # "failed"
    BY DEF Threads
  <2> QED
    BY <1>a, <1>c, <1>d, <2>1 DEF Threads, Starting
<1>3. Disk'
  BY <1>a DEF Disk, Shelves, Progress, Types, Dirs_of, valid_backups
<1>4. Remains'
  BY <1>c DEF Remains
<1>5. Forgetting'
  BY <1>a, <1>c, <1>d DEF Forgetting
<1>6. Marks'
  <2>1. Current(done)
    BY DEF Marks
  <2>2. snapshot_generation' <= dirty_generation'
    BY <2>1, <1>b DEF Marks, Current
  <2>3. ASSUME pc' = "running", ~ snapshot_dirty', savedAs' # None, savedAs' \notin lost'
        PROVE  Saved(final[savedAs], savedAs)'
    <3>1. pc = "running" /\ dirty_generation' = dirty_generation
      BY <2>3, <1>d, <1>c DEF AfterFinish
    <3>2. done.ok
      BY <2>1, <2>3, <3>1, <1>b DEF Current, snapshot_dirty, Types
    <3>3. savedAs' = done.session /\ done.session \notin lost
      BY <3>2, <2>3
    <3>4. OnDisk(done.session, done.captured)
      BY <3>1, <3>2 DEF Marks
    <3>5. done.captured = Restrict(panes, Live)
      BY <2>1, <2>3, <3>1, <3>2, <1>b DEF Current, snapshot_dirty
    <3>6. DOMAIN final[done.session].wanted = Live /\ \A p \in Live : final[done.session].wanted[p] = panes[p]
      BY <3>4, <3>5 DEF OnDisk, Restrict
    <3>7. complete_snapshot(final[done.session], done.session)
      BY <3>3, <3>4 DEF OnDisk
    <3> DEFINE dir == final[done.session]
    <3>8. DOMAIN dir.wanted \ unstarted = Live
      BY <3>6 DEF Followed
    <3>9. ASSUME NEW p \in Live
          PROVE  dir.files[p].text = panes[p].text \/ MayBeAnothers(p)'
      <4>1. p \in Panes /\ p \in DOMAIN done.captured /\ done.captured[p] = panes[p]
        BY <3>5, <3>9 DEF Restrict, Live
      <4>2. p \in DOMAIN persisted_replays'
        BY <4>1, <3>2
      <4>3. CASE renames > 0 \/ opened[p] > 1
        BY <4>2, <4>3 DEF MayBeAnothers
      <4>4. CASE renames = 0 /\ opened[p] < 2
        <5>1. Faithful(done.session, done.captured)
          BY <4>4, <3>2 DEF Linked
        <5>2. p \in ReplayFiles(done.session)
          BY <3>6, <3>7, <3>9 DEF complete_snapshot, ReplayFiles
        <5>3. SameReplay(p, dir.files[p], done.captured[p])
          BY <5>1, <5>2, <4>1 DEF Faithful
        <5> QED
          BY <5>3, <4>1, <4>4 DEF SameReplay
      <4>5. renames \in Nat /\ opened[p] \in Nat
        BY <4>1 DEF Types
      <4> QED
        BY <4>3, <4>4, <4>5
    <3>10. Live' = Live
      BY DEF Live
    <3>11. complete_snapshot(final[savedAs], savedAs)' /\ final'[savedAs'] = dir
      BY <3>3, <3>7 DEF complete_snapshot
    <3>12. \A p \in Live : \/ dir.files[p].text = panes[p].text
                           \/ MayBeAnothers(p)' /\ dir.wanted[p] = panes[p]
      BY <3>6, <3>9
    <3> QED
      BY <3>3, <3>8, <3>10, <3>11, <3>12 DEF Saved
  <2> QED
    BY <1>a, <2>2, <2>3 DEF Marks
<1>7. Followed'
  <2>1. \A p \in DOMAIN persisted_replays' : opened[p] > 0
    BY <1>a DEF Followed, Follows, NothingPersisted
  <2> QED
    BY <1>a, <2>1 DEF Followed, Follows, Live
<1>8. Linked'
  <2>1. SUFFICES ASSUME renames = 0
                 PROVE  Linked'
    BY DEF Linked
  <2>2. ASSUME NEW p \in DOMAIN persisted_replays' \cap ReplayFiles(session_name), done.ok
        PROVE  /\ persisted_replays'[p] = final[session_name].files[p].cg
               /\ Behind(p, final[session_name].files[p])
    <3> DEFINE file == final[session_name].files[p]
               seen == done.captured[p]
    <3>1. done.session = session_name /\ Faithful(session_name, done.captured)
      BY <2>1, <2>2 DEF Linked
    <3>2. persisted_replays'[p] = seen.cg /\ p \in DOMAIN done.captured
      BY <2>2
    <3>3. SameReplay(p, file, seen)
      BY <3>1, <3>2, <2>2 DEF Faithful
    <3>4. opened[p] > 0 /\ Behind(p, seen)
      BY <3>2 DEF Followed, Follows
    <3>5. file \in Content /\ seen \in Content
      <4>1. IsDir(final[session_name]) /\ p \in DOMAIN final[session_name].files
        BY <3>1, <1>b, <2>2 DEF Types, ReplayFiles
      <4>2. file \in Content
        BY <4>1, DirFields
      <4> QED
        BY <4>2, <3>2, <1>b DEF IsOutcome, IsCapture
    <3>6. Behind(p, file)
      <4>1. SUFFICES ASSUME p \in Live, opened[p] < 2
                     PROVE  file.cg < panes[p].cg \/ file = panes[p]
        BY DEF Behind
      <4>2. file.cg = seen.cg /\ file.text = seen.text
        BY <3>3, <4>1 DEF SameReplay
      <4>3. file = seen
        BY <4>2, <3>5 DEF Content
      <4> QED
        BY <4>1, <4>3, <3>4 DEF Behind
    <3> QED
      BY <3>2, <3>3, <3>6 DEF SameReplay
  <2>3. ~ done.ok => DOMAIN persisted_replays' = {}
    BY DEF NothingPersisted
  <2>4. \A p \in DOMAIN persisted_replays' \cap ReplayFiles(session_name) :
          /\ persisted_replays'[p] = final[session_name].files[p].cg
          /\ Behind(p, final[session_name].files[p])
    BY <2>2, <2>3, <1>b
  <2> QED
    BY <1>a, <2>1, <2>4 DEF Linked, Dirs_of, ReplayFiles, Behind, Live
<1> QED
  BY <1>1, <1>2, <1>3, <1>4, <1>5, <1>6, <1>7, <1>8

----------------------------------------------------------------------------
(* The writer                                                              *)

\* What the invariant says of the writer at work.
LEMMA WriterFacts ==
  ASSUME Inv, NEW w \in writers
  PROVE  /\ writers = {w} /\ done = None /\ unsettled = 1 /\ IsJob(w)
         /\ w.session \in Names /\ w.id \in Nat /\ w.when \in Nat /\ w.generation \in Nat
         /\ DOMAIN w.captured \subseteq Panes
         /\ \A p \in DOMAIN w.captured : w.captured[p] \in Content
         /\ \A p \in DOMAIN w.files : w.files[p] \in Content
         /\ pc # "down" /\ pc \notin Starting
         /\ Current(w)
         /\ snapshot_dirty
         /\ w.session \in forgotten => w.session \in late
<1>1. writers = {w} /\ done = None /\ unsettled = 1 /\ IsJob(w)
  BY DEF Inv, Threads, Types
<1>2. /\ w.session \in Names /\ w.id \in Nat /\ w.when \in Nat /\ w.generation \in Nat
      /\ DOMAIN w.captured \subseteq Panes
      /\ \A p \in DOMAIN w.captured : w.captured[p] \in Content
      /\ \A p \in DOMAIN w.files : w.files[p] \in Content
  BY <1>1 DEF IsJob, IsCapture
<1>3. pc # "down" /\ pc \notin Starting
  BY <1>1 DEF Inv, Threads
<1>4. Current(w) /\ (w.session \in forgotten => w.session \in late)
  BY DEF Inv, Marks, Forgetting
<1>5. snapshot_dirty
  BY <1>4, <1>2 DEF Current, snapshot_dirty, Inv, Types
<1> QED
  BY <1>1, <1>2, <1>3, <1>4, <1>5

\* The job goes on, or it is over and says how it went.
Same(v, w) ==
  /\ v.id = w.id /\ v.generation = w.generation /\ v.when = w.when
  /\ v.session = w.session /\ v.captured = w.captured /\ v.reuse = w.reuse

GoesOn(w, v) == IsJob(v) /\ Same(v, w) /\ writers' = {v} /\ done' = None
IsOver(w, ok) ==
  /\ writers' = {}
  /\ done' # None /\ IsOutcome(done')
  /\ done'.session = w.session /\ done'.generation = w.generation
  /\ done'.captured = w.captured /\ done'.ok = ok

WriterFrame == UNCHANGED <<counters, server, renames, late, undeleted, forgotten, savedAs>>

LEMMA JobAt ==
  ASSUME Inv, NEW w \in writers, NEW a \in Stages, Proceed(w, [w EXCEPT !.at = a])
  PROVE  \E v : GoesOn(w, v) /\ v.at = a /\ v.files = w.files
<1> PICK v : v = [w EXCEPT !.at = a]
  OBVIOUS
<1>1. writers = {w} /\ IsJob(w) /\ done = None
  BY WriterFacts
<1>2. IsJob(v)
  BY <1>1 DEF IsJob, Stages
<1>3. Same(v, w) /\ v.at = a /\ v.files = w.files
  BY <1>1 DEF IsJob, Same
<1>4. writers' = {v} /\ done' = None
  BY <1>1 DEF Proceed
<1> QED
  BY <1>2, <1>3, <1>4 DEF GoesOn

LEMMA JobOver ==
  ASSUME Inv, NEW w \in writers, NEW ok \in BOOLEAN, Report(w, ok)
  PROVE  IsOver(w, ok)
<1>1. writers = {w} /\ IsJob(w)
  BY WriterFacts
<1> PICK o : o = [session |-> w.session, generation |-> w.generation, captured |-> w.captured, ok |-> ok]
  OBVIOUS
<1>2. IsOutcome(o)
  BY <1>1 DEF IsJob, IsOutcome
<1>3. o # None
  <2>1. o \in Outcomes
    BY <1>1 DEF IsJob, IsCapture, Captures, Outcomes
  <2> QED
    BY <2>1, BoundsAssumption
<1> QED
  BY <1>1, <1>2, <1>3 DEF Report, IsOver

\* A writer's step, whatever it does under its own name, leaves the rest alone.
LEMMA WriterRest ==
  ASSUME Inv, NEW w \in writers, WriterFrame,
         (\E v : GoesOn(w, v)) \/ (\E ok \in BOOLEAN : IsOver(w, ok)),
         UNCHANGED damaged, DOMAIN final' = Names, DOMAIN old' = Names,
         \A n \in Names \ {w.session} : final'[n] = final[n] /\ old'[n] = old[n],
         final'[w.session] # None => IsDir(final'[w.session]),
         \A d \in old'[w.session] : IsDir(d)
  PROVE  Types' /\ Threads' /\ Remains' /\ Forgetting' /\ Followed'
<1> USE DEF WriterFrame, counters, server, loaded
<1>0. /\ writers = {w} /\ done = None /\ unsettled = 1 /\ IsJob(w) /\ w.session \in Names
      /\ pc # "down" /\ pc \notin Starting
      /\ w.session \in forgotten => w.session \in late
  BY WriterFacts
<1>1. \/ \E v : writers' = {v} /\ IsJob(v) /\ v.session = w.session /\ done' = None
      \/ writers' = {} /\ done' # None /\ IsOutcome(done')
  BY DEF GoesOn, Same, IsOver
<1>2. /\ \A v \in writers' : IsJob(v) /\ v.session = w.session
      /\ \A u, v \in writers' : u = v
      /\ writers' # {} => done' = None
      /\ done' # None => IsOutcome(done')
  BY <1>1
<1>3. Types'
  <2>1. \A n \in Names : final'[n] # None => IsDir(final'[n])
    BY DEF Inv, Types
  <2>2. \A n \in Names : \A d \in old'[n] : IsDir(d)
    BY DEF Inv, Types
  <2>3. /\ \A n \in Names : \A d \in damaged'[n] : IsDir(d)
        /\ DOMAIN damaged' = Names
    BY DEF Inv, Types
  <2>4. UNCHANGED <<changes, serial, pc, session_name, panes, opened, unstarted, thread,
                    dirty_generation, snapshot_generation, persisted_replays, in_flight,
                    unsettled, disposition, renames, savedAs>>
    OBVIOUS
  <2> HIDE DEF WriterFrame
  <2> QED
    BY <1>2, <2>1, <2>2, <2>3, <2>4 DEF Inv, Types
<1>4. Threads'
  BY <1>0, <1>2 DEF Inv, Threads, Starting
<1>5. Remains'
  BY <1>0 DEF Remains, Starting
<1>6. Forgetting'
  <2>1. \A n \in forgotten \ (late \cup undeleted) : final'[n] = None /\ old'[n] = {}
    BY <1>0 DEF Inv, Forgetting
  <2>2. pc \in {"delete", "sweep_deleted"} => session_name \in late
    BY <1>0 DEF Inv, Forgetting
  <2> QED
    BY <1>0, <1>2, <2>1, <2>2 DEF Inv, Forgetting
<1>7. Followed'
  <2>1. Follows(w.captured)
    BY DEF Inv, Followed
  <2>2. /\ \A v \in writers' : v.captured = w.captured
        /\ done' # None => done'.captured = w.captured
    BY DEF GoesOn, Same, IsOver
  <2>3. Follows(w.captured)'
    BY <2>1 DEF Follows, Behind, Live
  <2>4. \A v \in writers' : Follows(v.captured)'
    BY <2>2, <2>3
  <2>5. done' # None => Follows(done.captured)'
    BY <2>2, <2>3 DEF Follows
  <2> QED
    BY <2>4, <2>5 DEF Inv, Followed, Live
<1> QED
  BY <1>3, <1>4, <1>5, <1>6, <1>7

\* What the loop believes needs only what the outcome says.
LEMMA WriterMarks ==
  ASSUME Inv, NEW w \in writers, WriterFrame,
         \/ \E v : GoesOn(w, v)
         \/ IsOver(w, FALSE)
         \/ IsOver(w, TRUE) /\ (pc \notin {"delete", "sweep_deleted", "exit"} => OnDisk(w.session, w.captured)')
  PROVE  Marks'
<1> USE DEF WriterFrame, counters, server, loaded
<1>0. snapshot_dirty /\ Current(w)
  BY WriterFacts
<1>1. snapshot_generation' <= dirty_generation' /\ snapshot_dirty'
  BY <1>0 DEF Inv, Marks, snapshot_dirty
<1>2. \A v \in writers' : Current(v)'
  BY <1>0 DEF Current, GoesOn, Same, IsOver, Live
<1>3. done' # None => Current(done)'
  BY <1>0 DEF Current, GoesOn, IsOver, Live
<1>4. done' # None /\ done'.ok /\ pc' \notin {"delete", "sweep_deleted", "exit"} =>
        OnDisk(done.session, done.captured)'
  BY DEF GoesOn, IsOver, OnDisk
<1> QED
  BY <1>1, <1>2, <1>3, <1>4 DEF Marks

\* Only what lies under the writer's name changes.
OnlyUnder(s) ==
  /\ DOMAIN final' = Names /\ DOMAIN old' = Names
  /\ \A n \in Names \ {s} : final'[n] = final[n] /\ old'[n] = old[n]

LEMMA ShelvesUnder ==
  ASSUME Inv, NEW s \in Names, OnlyUnder(s), UNCHANGED counters,
         \A b \in old'[s] : b.stamp < serial,
         \A d \in Dirs_of(s)' : d.at <= changes,
         complete_snapshot(final'[s], s) => \A b \in valid_backups(s)' : b.at <= final'[s].at
  PROVE  Shelves'
<1> USE DEF OnlyUnder, counters
<1>1. \A n \in Names \ {s} : Dirs_of(n)' = Dirs_of(n) /\ valid_backups(n)' = valid_backups(n)
  BY DEF Dirs_of, valid_backups
<1>2. \A n \in Names : \A b \in old'[n] : b.stamp < serial
  BY DEF Inv, Disk, Shelves
<1>3. \A n \in Names : \A d \in Dirs_of(n)' : d.at <= changes
  BY <1>1 DEF Inv, Disk, Shelves
<1>4. \A n \in Names : complete_snapshot(final'[n], n) =>
        \A b \in valid_backups(n)' : b.at <= final'[n].at
  BY <1>1 DEF Inv, Disk, Shelves
<1> QED
  BY <1>2, <1>3, <1>4 DEF Shelves

LEMMA WriterOver ==
  ASSUME Inv, NEW w \in writers, NEW ok \in BOOLEAN, WriterFrame, IsOver(w, ok), Shelves',
         OnlyUnder(w.session),
         renames = 0 => /\ \A d \in Dirs_of(w.session)' : SameGeneration(d)
                        /\ ok => Faithful(w.session, w.captured)'
  PROVE  Disk' /\ Linked'
<1> USE DEF WriterFrame, counters, server, loaded, OnlyUnder
<1>0. unsettled = 1 /\ w.session \in Names
  BY WriterFacts
<1>1. Disk'
  BY DEF Disk, IsOver
<1>2. Linked'
  <2>1. \A n \in Names \ {w.session} : Dirs_of(n)' = Dirs_of(n)
    BY DEF Dirs_of
  <2>2. renames = 0 => w.session = session_name
    BY DEF Inv, Linked
  <2>3. renames = 0 => \A n \in Names : \A d \in Dirs_of(n)' : SameGeneration(d)
    BY <2>1 DEF Inv, Linked
  <2>4. renames = 0 => \A n \in Names : \A d \in Dirs_of(n)' : SameGeneration(d)'
    BY <2>3 DEF SameGeneration
  <2>5. renames = 0 /\ done'.ok => Faithful(done.session, done.captured)'
    BY DEF IsOver, Faithful
  <2> QED
    BY <2>2, <2>4, <2>5, <1>0 DEF Linked, IsOver
<1> QED
  BY <1>1, <1>2

LEMMA WriterGoesOn ==
  ASSUME Inv, NEW w \in writers, NEW v, WriterFrame, GoesOn(w, v), Shelves', Progress(v)',
         OnlyUnder(w.session), v.at # "stage",
         renames = 0 => /\ \A d \in Dirs_of(w.session)' : SameGeneration(d)
                        /\ \A p \in DOMAIN v.files : SameReplay(p, v.files[p], w.captured[p])
                        /\ v.at \in {"sync", "drop", "dropped"} => Faithful(w.session, w.captured)'
  PROVE  Disk' /\ Linked'
<1> USE DEF WriterFrame, counters, server, loaded, OnlyUnder
<1>0. unsettled = 1 /\ w.session \in Names
  BY WriterFacts
<1>1. Disk'
  BY DEF Disk, GoesOn
<1>2. Linked'
  <2>1. \A n \in Names \ {w.session} : Dirs_of(n)' = Dirs_of(n)
    BY DEF Dirs_of
  <2>2. renames = 0 => w.session = session_name
    BY DEF Inv, Linked
  <2>3. renames = 0 => \A n \in Names : \A d \in Dirs_of(n)' : SameGeneration(d)
    BY <2>1 DEF Inv, Linked
  <2>4. renames = 0 => \A n \in Names : \A d \in Dirs_of(n)' : SameGeneration(d)'
    BY <2>3 DEF SameGeneration
  <2>5. renames = 0 => \A p \in DOMAIN v.files : SameReplay(p, v.files[p], v.captured[p])'
    BY DEF SameReplay, GoesOn, Same
  <2>6. renames = 0 /\ v.at \in {"sync", "drop", "dropped"} => Faithful(v.session, v.captured)'
    BY DEF GoesOn, Same, Faithful
  <2> QED
    BY <2>2, <2>4, <2>5, <2>6, <1>0 DEF Linked, GoesOn, Same
<1> QED
  BY <1>1, <1>2

\* What a report does when the disk stays as it is.
LEMMA ReportStep ==
  ASSUME Inv, NEW w \in writers, NEW ok \in BOOLEAN, WriterFrame, Report(w, ok),
         UNCHANGED <<final, damaged, lost>>,
         DOMAIN old' = Names, \A n \in Names : old'[n] = old[n],
         ok => /\ w.at \in {"sync", "drop", "dropped"}
               /\ pc \in {"delete", "sweep_deleted", "exit"} \/ OnDisk(w.session, w.captured)
  PROVE  Inv'
<1>1. IsOver(w, ok)
  BY JobOver
<1>2. w.session \in Names
  BY WriterFacts
<1>3. OnlyUnder(w.session)
  BY DEF OnlyUnder, Inv, Types
<1>4. Shelves'
  BY DEF Inv, Disk, Shelves, WriterFrame, counters, Dirs_of, valid_backups
<1>5. Types' /\ Threads' /\ Remains' /\ Forgetting' /\ Followed'
  BY <1>1, <1>2, <1>3, WriterRest DEF OnlyUnder, Inv, Types
<1>6. Marks'
  BY <1>1, WriterMarks DEF OnDisk
<1>7. Disk' /\ Linked'
  <2>1. renames = 0 => \A d \in Dirs_of(w.session)' : SameGeneration(d)
    BY <1>2 DEF Inv, Linked, Dirs_of
  <2>2. renames = 0 /\ ok => Faithful(w.session, w.captured)'
    BY DEF Inv, Linked, Faithful, ReplayFiles, SameReplay, WriterFrame, server, loaded
  <2> QED
    BY <1>1, <1>3, <1>4, <2>1, <2>2, WriterOver
<1> QED
  BY <1>5, <1>6, <1>7 DEF Inv

\* A writer that only moves on.
LEMMA MoveOnStep ==
  ASSUME Inv, NEW w \in writers, NEW a \in Stages, WriterFrame, Proceed(w, [w EXCEPT !.at = a]),
         UNCHANGED <<final, old, damaged, lost>>,
         \/ w.at = "aside" /\ a = "publish" /\ final[w.session] = None
         \/ w.at = "sync" /\ a = "drop"
  PROVE  Inv'
<1>0. PICK v : GoesOn(w, v) /\ v.at = a /\ v.files = w.files
  BY JobAt
<1>1. GoesOn(w, v) /\ Same(v, w) /\ v.at = a /\ v.files = w.files
  BY <1>0 DEF GoesOn
<1>2. w.session \in Names /\ w.id \in Nat
  BY WriterFacts
<1>3. OnlyUnder(w.session)
  BY DEF OnlyUnder, Inv, Types
<1>4. Shelves'
  BY DEF Inv, Disk, Shelves, WriterFrame, counters, Dirs_of, valid_backups
<1>5. Types' /\ Threads' /\ Remains' /\ Forgetting' /\ Followed'
  BY <1>1, <1>2, <1>3, WriterRest DEF OnlyUnder, Inv, Types
<1>6. Marks'
  BY <1>1, WriterMarks
<1>7. Disk' /\ Linked'
  <2>1. renames = 0 => \A d \in Dirs_of(w.session)' : SameGeneration(d)
    BY <1>2 DEF Inv, Linked, Dirs_of
  <2>2. renames = 0 => \A p \in DOMAIN v.files : SameReplay(p, v.files[p], w.captured[p])
    BY <1>1 DEF Inv, Linked
  <2>3. Progress(w)
    BY DEF Inv, Disk
  <2>4. Backups(w)' = Backups(w) /\ Backups(v)' = Backups(w)
    BY <1>1 DEF Backups, Same
  <2>5. w.at = "aside" => Backups(w) = {}
    <3>1. \A b \in old[w.session] : b.stamp \in Nat
      BY <1>2, DirsTyped DEF Inv, Dirs_of
    <3> QED
      BY <3>1, <2>3, <1>2 DEF Backups, Progress
  <2>6. Progress(v)'
    BY <1>1, <2>3, <2>4, <2>5 DEF Progress, Same, WriterFrame, counters, server, Dirs_of,
       valid_backups, OnDisk, Deleting
  <2>7. renames = 0 /\ v.at \in {"sync", "drop", "dropped"} => Faithful(w.session, w.captured)'
    BY <1>1 DEF Inv, Linked, Faithful, ReplayFiles, SameReplay, WriterFrame, server, loaded
  <2>8. v.at # "stage"
    BY <1>1
  <2> QED
    BY <1>1, <1>3, <1>4, <2>1, <2>2, <2>6, <2>7, <2>8, WriterGoesOn
<1> QED
  BY <1>5, <1>6, <1>7 DEF Inv

LEMMA StageStep ==
  ASSUME Inv, NEW w \in writers, Stage(w), WriterFrame
  PROVE  Inv'
<1> USE DEF Stage
<1>1. CASE Report(w, FALSE)
  BY <1>1, ReportStep DEF Inv, Types
<1>2. CASE /\ w.reuse \subseteq ReplayFiles(w.session)
           /\ Proceed(w, [w EXCEPT !.at = "aside", !.files = Staged(w)])
  <2>0. /\ writers = {w} /\ IsJob(w) /\ done = None /\ w.session \in Names /\ w.id \in Nat
        /\ \A p \in DOMAIN w.captured : w.captured[p] \in Content
        /\ DOMAIN w.captured \subseteq Panes
    BY WriterFacts
  <2> PICK f : f = Staged(w)
    OBVIOUS
  <2>1. DOMAIN f = DOMAIN w.captured /\ f \in [DOMAIN w.captured -> Content]
    <3>1. \A p \in w.reuse : final[w.session].files[p] \in Content
      BY <1>2, <2>0, DirFields DEF ReplayFiles, Inv, Types
    <3> QED
      BY <2>0, <3>1 DEF Staged
  <2>2. IsCapture(f)
    BY <2>0, <2>1 DEF IsCapture
  <2> PICK v : v = [w EXCEPT !.at = "aside", !.files = f]
    OBVIOUS
  <2>3. IsJob(v)
    BY <2>0, <2>2 DEF IsJob
  <2>4. Same(v, w) /\ v.at = "aside" /\ v.files = f
    BY <2>0 DEF IsJob, Same
  <2>5. GoesOn(w, v)
    BY <1>2, <2>0, <2>3, <2>4 DEF GoesOn, Proceed
  <2>6. OnlyUnder(w.session)
    BY DEF OnlyUnder, Inv, Types
  <2>7. Shelves'
    BY DEF Inv, Disk, Shelves, WriterFrame, counters, Dirs_of, valid_backups
  <2>8. Types' /\ Threads' /\ Remains' /\ Forgetting' /\ Followed'
    BY <2>0, <2>5, <2>6, WriterRest DEF OnlyUnder, Inv, Types
  <2>9. Marks'
    BY <2>5, WriterMarks
  <2>10. Disk' /\ Linked'
    <3>1. renames = 0 => \A d \in Dirs_of(w.session)' : SameGeneration(d)
      BY <2>0 DEF Inv, Linked, Dirs_of
    <3>2. ASSUME renames = 0, NEW p \in DOMAIN v.files
          PROVE  SameReplay(p, v.files[p], w.captured[p])
      <4>1. p \in w.reuse => SameReplay(p, final[w.session].files[p], w.captured[p])
        BY <1>2, <3>2 DEF Inv, Linked
      <4>2. SameReplay(p, w.captured[p], w.captured[p])
        BY DEF SameReplay
      <4> QED
        BY <4>1, <4>2, <3>2, <2>1, <2>4 DEF Staged
    <3>3. Progress(w)
      BY DEF Inv, Disk
    <3>4. Backups(v)' = Backups(w)
      BY <2>4 DEF Backups, Same
    <3>5. Progress(v)'
      BY <2>1, <2>4, <3>3, <3>4 DEF Progress, Same, WriterFrame, counters, server, Dirs_of
    <3> QED
      BY <2>4, <2>5, <2>6, <2>7, <3>1, <3>2, <3>5, WriterGoesOn
  <2> QED
    BY <2>8, <2>9, <2>10 DEF Inv
<1> QED
  BY <1>1, <1>2

LEMMA AsideStep ==
  ASSUME Inv, NEW w \in writers, Aside(w), WriterFrame
  PROVE  Inv'
<1> USE DEF Aside
<1>1. CASE Report(w, FALSE) /\ UNCHANGED <<final, old>>
  BY <1>1, ReportStep DEF Inv, Types
<1>2. CASE /\ final[w.session] = None
           /\ Proceed(w, [w EXCEPT !.at = "publish"])
           /\ UNCHANGED <<final, old>>
  BY <1>2, MoveOnStep DEF Stages
<1>3. CASE /\ final[w.session] # None
           /\ old' = [old EXCEPT ![w.session] = @ \cup {[final[w.session] EXCEPT !.stamp = w.id]}]
           /\ final' = [final EXCEPT ![w.session] = None]
           /\ Proceed(w, [w EXCEPT !.at = "publish"])
  <2>0. w.session \in Names /\ w.id \in Nat
    BY WriterFacts
  <2>1. PICK v : GoesOn(w, v) /\ v.at = "publish" /\ v.files = w.files
    BY <1>3, JobAt DEF Stages
  <2>2. GoesOn(w, v) /\ Same(v, w) /\ v.at = "publish" /\ v.files = w.files
    BY <2>1 DEF GoesOn
  <2>f. PICK f : f = final[w.session]
    OBVIOUS
  <2>e. PICK e : e = [f EXCEPT !.stamp = w.id]
    OBVIOUS
  <2>3. IsDir(f) /\ f # None
    BY <1>3, <2>0, <2>f DEF Inv, Types
  <2>4. /\ IsDir(e) /\ e.stamp = w.id /\ e.at = f.at /\ e.wanted = f.wanted /\ e.files = f.files
        /\ \A n : complete_snapshot(e, n) <=> complete_snapshot(f, n)
    BY <2>0, <2>3, <2>e, Moved
  <2>5. /\ OnlyUnder(w.session)
        /\ old'[w.session] = old[w.session] \cup {e} /\ final'[w.session] = None
    BY <1>3, <2>0, <2>e, <2>f DEF OnlyUnder, Inv, Types
  <2>6. /\ Dirs_of(w.session) = old[w.session] \cup {f}
        /\ Dirs_of(w.session)' = old[w.session] \cup {e}
    BY <2>5, <2>3, <2>f DEF Dirs_of
  <2>7. Progress(w) /\ Shelves
    BY DEF Inv, Disk
  <2>8. \A b \in old[w.session] : b.stamp \in Nat
    BY <2>0, DirsTyped DEF Inv, Dirs_of
  <2>9. UNCHANGED <<counters, lost>>
    BY DEF WriterFrame
  <2>10. Shelves'
    <3>1. \A b \in old'[w.session] : b.stamp < serial
      BY <2>0, <2>4, <2>5, <2>7 DEF Shelves, Progress
    <3>2. \A d \in Dirs_of(w.session)' : d.at <= changes
      BY <2>0, <2>4, <2>6, <2>7 DEF Shelves
    <3>3. ~ complete_snapshot(final'[w.session], w.session)
      BY <2>5 DEF complete_snapshot
    <3> QED
      BY <2>0, <2>5, <2>9, <3>1, <3>2, <3>3, ShelvesUnder
  <2>11. Types' /\ Threads' /\ Remains' /\ Forgetting' /\ Followed'
    <3>1. \A d \in old'[w.session] : IsDir(d)
      BY <2>0, <2>4, <2>5 DEF Inv, Types
    <3> QED
      BY <2>0, <2>2, <2>5, <3>1, WriterRest DEF OnlyUnder
  <2>12. Marks'
    BY <2>2, WriterMarks
  <2>13. Disk' /\ Linked'
    <3>1. renames = 0 => \A d \in Dirs_of(w.session)' : SameGeneration(d)
      BY <2>0, <2>4, <2>6 DEF Inv, Linked, SameGeneration
    <3>2. renames = 0 => \A p \in DOMAIN v.files : SameReplay(p, v.files[p], w.captured[p])
      BY <2>2 DEF Inv, Linked
    <3>3. Backups(v)' = {e}
      BY <2>2, <2>4, <2>5, <2>7, <2>8 DEF Backups, Same, Progress
    <3>4. \A c \in valid_backups(w.session)' : c = e \/ c \in valid_backups(w.session)
      BY <2>5 DEF valid_backups
    <3>5. complete_snapshot(e, w.session) => \A c \in valid_backups(w.session)' : c.at <= e.at
      <4>1. complete_snapshot(f, w.session) => \A c \in valid_backups(w.session) : c.at <= f.at
        BY <2>0, <2>7, <2>f DEF Shelves
      <4>2. e.at <= e.at
        BY <2>4, DirFields
      <4> QED
        BY <4>1, <4>2, <3>4, <2>4
    <3>6. \A d \in Dirs_of(v.session)' : d.at <= v.when
      BY <2>2, <2>4, <2>6, <2>7 DEF Progress, Same
    <3>7. Progress(v)'
      BY <2>2, <2>5, <2>7, <3>3, <3>5, <3>6 DEF Progress, Same, WriterFrame, counters
    <3> QED
      BY <2>2, <2>5, <2>10, <3>1, <3>2, <3>7, WriterGoesOn
  <2> QED
    BY <2>11, <2>12, <2>13 DEF Inv
<1> QED
  BY <1>1, <1>2, <1>3

\* What is published is the job's, whole.
LEMMA PublishedDir ==
  ASSUME Inv, NEW w \in writers, w.at = "publish"
  PROVE  LET d == Published(w) IN
         /\ IsDir(d) /\ d.at = w.when /\ d.wanted = w.captured /\ d.files = w.files
         /\ complete_snapshot(d, w.session)
<1>0. IsJob(w) /\ w.session \in Names /\ w.when \in Nat
  BY WriterFacts
<1>1. DOMAIN w.files = DOMAIN w.captured
  BY DEF Inv, Disk, Progress
<1>d. PICK d : d = Published(w)
  OBVIOUS
<1>2. /\ d.at = w.when /\ d.wanted = w.captured /\ d.files = w.files
      /\ d.meta = TRUE /\ d.session = w.session
  BY <1>d DEF Published
<1>3. IsDir(d)
  BY <1>0, <1>1, <1>d DEF IsDir, IsJob, Published
<1>4. d # None
  BY <1>3, DirFields
<1>5. complete_snapshot(d, w.session)
  BY <1>1, <1>2, <1>4 DEF complete_snapshot
<1> QED
  BY <1>d, <1>2, <1>3, <1>5

LEMMA PublishStep ==
  ASSUME Inv, NEW w \in writers, Publish(w), WriterFrame
  PROVE  Inv'
<1> USE DEF Publish
<1>0. w.session \in Names /\ w.id \in Nat /\ w.when \in Nat
  BY WriterFacts
<1>a. Progress(w) /\ Shelves /\ final[w.session] = None
  BY DEF Inv, Disk, Progress
<1>b. UNCHANGED <<counters, server>>
  BY DEF WriterFrame
<1>1. CASE /\ final' = [final EXCEPT ![w.session] = Published(w)]
           /\ lost' = lost \ {w.session}
           /\ Proceed(w, [w EXCEPT !.at = "sync"])
           /\ UNCHANGED old
  <2>1. PICK v : GoesOn(w, v) /\ v.at = "sync" /\ v.files = w.files
    BY <1>1, JobAt DEF Stages
  <2>2. GoesOn(w, v) /\ Same(v, w) /\ v.at = "sync" /\ v.files = w.files
    BY <2>1 DEF GoesOn
  <2>d. PICK d : d = Published(w)
    OBVIOUS
  <2>3. /\ IsDir(d) /\ d.at = w.when /\ d.wanted = w.captured /\ d.files = w.files
        /\ complete_snapshot(d, w.session) /\ d # None
    BY <2>d, PublishedDir, DirFields
  <2>4. OnlyUnder(w.session) /\ final'[w.session] = d /\ old' = old
    BY <1>0, <1>1, <2>d DEF OnlyUnder, Inv, Types
  <2>5. /\ Dirs_of(w.session) = old[w.session]
        /\ Dirs_of(w.session)' = old[w.session] \cup {d}
        /\ valid_backups(w.session)' = valid_backups(w.session)
        /\ valid_backups(w.session) \subseteq old[w.session]
        /\ Backups(v)' = Backups(w)
    BY <1>a, <2>2, <2>3, <2>4 DEF Dirs_of, valid_backups, Backups, Same
  <2>6. Shelves'
    <3>1. \A b \in old'[w.session] : b.stamp < serial
      BY <1>0, <1>a, <2>4 DEF Shelves
    <3>2. \A e \in Dirs_of(w.session)' : e.at <= changes
      BY <1>0, <1>a, <2>3, <2>5 DEF Shelves, Progress
    <3>3. \A b \in valid_backups(w.session)' : b.at <= final'[w.session].at
      BY <1>a, <2>3, <2>4, <2>5 DEF Progress
    <3> QED
      BY <1>0, <1>b, <2>4, <3>1, <3>2, <3>3, ShelvesUnder
  <2>7. Types' /\ Threads' /\ Remains' /\ Forgetting' /\ Followed'
    <3>1. \A e \in old'[w.session] : IsDir(e)
      BY <1>0, <2>4 DEF Inv, Types
    <3>2. UNCHANGED damaged
      OBVIOUS
    <3> QED
      BY <2>2, <2>3, <2>4, <3>1, <3>2, WriterRest DEF OnlyUnder
  <2>8. Marks'
    BY <2>2, WriterMarks
  <2>9. Disk' /\ Linked'
    <3>1. renames = 0 => \A p \in DOMAIN w.files : SameReplay(p, w.files[p], w.captured[p])
      BY DEF Inv, Linked
    <3>2. renames = 0 => \A e \in Dirs_of(w.session)' : SameGeneration(e)
      BY <1>0, <2>3, <2>5, <3>1 DEF Inv, Linked, SameGeneration, SameReplay
    <3>6. renames = 0 => \A p \in DOMAIN v.files : SameReplay(p, v.files[p], w.captured[p])
      BY <2>2, <3>1
    <3>7. renames = 0 => Faithful(w.session, w.captured)'
      BY <1>b, <2>3, <2>4, <3>1 DEF Faithful, ReplayFiles, SameReplay, server, loaded
    <3>3. OnDisk(v.session, v.captured)'
      BY <2>2, <2>3, <2>4 DEF OnDisk, Same
    <3>4. \A e \in Dirs_of(v.session)' : e.at <= v.when
      BY <1>0, <1>a, <2>2, <2>3, <2>5 DEF Progress, Same
    <3>5. Progress(v)'
      BY <1>a, <1>b, <2>2, <2>5, <3>3, <3>4 DEF Progress, Same, counters
    <3> QED
      BY <2>2, <2>4, <2>6, <3>2, <3>5, <3>6, <3>7, WriterGoesOn
  <2> QED
    BY <2>7, <2>8, <2>9 DEF Inv
<1>2. ASSUME NEW back \in SUBSET Backups(w),
             old' = [old EXCEPT ![w.session] = @ \ back],
             final' = IF back = {} THEN final
                      ELSE [final EXCEPT ![w.session] = CHOOSE b \in back : TRUE],
             Report(w, FALSE), UNCHANGED lost
      PROVE  Inv'
  <2>1. CASE back = {}
    <3>1. final' = final /\ DOMAIN old' = Names /\ \A n \in Names : old'[n] = old[n]
      BY <1>0, <1>2, <2>1 DEF Inv, Types
    <3> QED
      BY <1>2, <3>1, ReportStep
  <2>2. CASE back # {}
    <3>b. PICK b \in back : b = CHOOSE c \in back : TRUE
      BY <2>2
    <3>1. IsOver(w, FALSE)
      BY <1>2, JobOver
    <3>2. b \in old[w.session] /\ b \in Backups(w) /\ Backups(w) = {b} /\ back = {b}
      BY <1>2, <1>a, <3>b DEF Backups, Progress
    <3>3. IsDir(b) /\ b # None
      BY <1>0, <3>2, DirFields DEF Inv, Types
    <3>4. /\ OnlyUnder(w.session) /\ final'[w.session] = b
          /\ old'[w.session] = old[w.session] \ {b}
      BY <1>0, <1>2, <2>2, <3>b, <3>2 DEF OnlyUnder, Inv, Types
    <3>5. /\ Dirs_of(w.session)' \subseteq Dirs_of(w.session)
          /\ valid_backups(w.session)' \subseteq valid_backups(w.session)
      BY <3>2, <3>4 DEF Dirs_of, valid_backups
    <3>6. Shelves'
      <4>1. \A c \in old'[w.session] : c.stamp < serial
        BY <1>0, <1>a, <3>4 DEF Shelves
      <4>2. \A d \in Dirs_of(w.session)' : d.at <= changes
        BY <1>0, <1>a, <3>5 DEF Shelves
      <4>3. complete_snapshot(b, w.session) => \A c \in valid_backups(w.session)' : c.at <= b.at
        BY <1>a, <3>2, <3>5 DEF Progress
      <4> QED
        BY <1>0, <1>b, <3>4, <4>1, <4>2, <4>3, ShelvesUnder
    <3>7. Types' /\ Threads' /\ Remains' /\ Forgetting' /\ Followed'
      <4>1. \A e \in old'[w.session] : IsDir(e)
        BY <1>0, <3>4 DEF Inv, Types
      <4>2. UNCHANGED damaged
        OBVIOUS
      <4> QED
        BY <3>1, <3>3, <3>4, <4>1, <4>2, WriterRest DEF OnlyUnder
    <3>8. Marks'
      BY <3>1, WriterMarks
    <3>9. Disk' /\ Linked'
      <4>1. renames = 0 => \A e \in Dirs_of(w.session)' : SameGeneration(e)
        BY <1>0, <3>5 DEF Inv, Linked
      <4> QED
        BY <3>1, <3>4, <3>6, <4>1, WriterOver
    <3> QED
      BY <3>7, <3>8, <3>9 DEF Inv
  <2> QED
    BY <2>1, <2>2
<1> QED
  BY <1>1, <1>2

LEMMA SyncParentStep ==
  ASSUME Inv, NEW w \in writers, SyncParent(w), WriterFrame
  PROVE  Inv'
<1> USE DEF SyncParent, disk
<1>1. CASE Report(w, FALSE)
  BY <1>1, ReportStep DEF Inv, Types
<1>2. CASE Proceed(w, [w EXCEPT !.at = "drop"])
  BY <1>2, MoveOnStep DEF Stages
<1> QED
  BY <1>1, <1>2

\* Taking backups of the job away, or tearing them, adds nothing to the shelves.
LEMMA BackupsGo ==
  ASSUME Inv, NEW w \in writers, WriterFrame, w.at \in {"drop", "dropped"},
         UNCHANGED <<final, damaged, lost>>,
         \/ old' = [old EXCEPT ![w.session] = (@ \ Backups(w)) \cup {Torn(b) : b \in Backups(w)}]
         \/ old' = [old EXCEPT ![w.session] = @ \ Backups(w)]
  PROVE  /\ OnlyUnder(w.session) /\ Shelves'
         /\ \A d \in old'[w.session] : IsDir(d)
         /\ valid_backups(w.session)' \subseteq valid_backups(w.session)
         /\ \A d \in Dirs_of(w.session)' : \E e \in Dirs_of(w.session) :
              d.at = e.at /\ d.wanted = e.wanted /\ d.files = e.files
         /\ \A b, c \in Backups(w)' : b = c
         /\ Backups(w) = {} => Backups(w)' = {}
<1>0. w.session \in Names /\ Progress(w) /\ Shelves
  BY WriterFacts DEF Inv, Disk
<1>a. UNCHANGED counters
  BY DEF WriterFrame
<1>b. OnlyUnder(w.session)
  BY <1>0 DEF OnlyUnder, Inv, Types
<1>c. \A b \in old[w.session] : IsDir(b)
  BY <1>0 DEF Inv, Types
<1>1. \/ old'[w.session] = (old[w.session] \ Backups(w)) \cup {Torn(b) : b \in Backups(w)}
      \/ old'[w.session] = old[w.session] \ Backups(w)
  BY <1>0 DEF Inv, Types
<1>2. ASSUME NEW d \in old'[w.session]
      PROVE  \/ d \in old[w.session] /\ d \notin Backups(w)
             \/ \E b \in Backups(w) : b \in old[w.session] /\ d = Torn(b)
  BY <1>1 DEF Backups
<1>3. ASSUME NEW d \in old'[w.session]
      PROVE  /\ IsDir(d)
             /\ \E e \in old[w.session] :
                  d.stamp = e.stamp /\ d.at = e.at /\ d.wanted = e.wanted /\ d.files = e.files
             /\ complete_snapshot(d, w.session) => d \in old[w.session]
             /\ d.stamp = w.id => \E b \in Backups(w) : d = Torn(b)
  <2>1. CASE d \in old[w.session] /\ d \notin Backups(w)
    BY <2>1, <1>c DEF Backups
  <2>2. ASSUME NEW b \in Backups(w), b \in old[w.session], d = Torn(b)
        PROVE  /\ IsDir(d)
               /\ d.stamp = b.stamp /\ d.at = b.at /\ d.wanted = b.wanted /\ d.files = b.files
               /\ ~ complete_snapshot(d, w.session)
    BY <2>2, <1>c, TornDir
  <2> QED
    BY <2>1, <2>2, <1>2
<1>4. valid_backups(w.session)' \subseteq valid_backups(w.session)
  BY <1>3 DEF valid_backups
<1>5. ASSUME NEW d \in Dirs_of(w.session)'
      PROVE  \E e \in Dirs_of(w.session) :
               d.at = e.at /\ d.wanted = e.wanted /\ d.files = e.files
  <2>1. CASE d \in old'[w.session]
    BY <2>1, <1>3 DEF Dirs_of
  <2>2. CASE d \in Dirs_of(w.session)
    BY <2>2
  <2> QED
    BY <2>1, <2>2 DEF Dirs_of
<1>6. Shelves'
  <2>1. \A b \in old'[w.session] : b.stamp < serial
    BY <1>0, <1>3 DEF Shelves
  <2>2. \A d \in Dirs_of(w.session)' : d.at <= changes
    BY <1>0, <1>5 DEF Shelves
  <2>3. complete_snapshot(final'[w.session], w.session) =>
          \A b \in valid_backups(w.session)' : b.at <= final'[w.session].at
    BY <1>0, <1>4 DEF Shelves
  <2> QED
    BY <1>0, <1>a, <1>b, <2>1, <2>2, <2>3, ShelvesUnder
<1>7. \A b \in Backups(w)' : b \in old'[w.session] /\ b.stamp = w.id
  BY DEF Backups
<1>8. \A b, c \in Backups(w) : b = c
  BY <1>0 DEF Progress
<1>9. (\A b, c \in Backups(w)' : b = c) /\ (Backups(w) = {} => Backups(w)' = {})
  BY <1>3, <1>7, <1>8
<1> QED
  BY <1>3, <1>4, <1>5, <1>6, <1>9, <1>b

LEMMA DropBackupStep ==
  ASSUME Inv, NEW w \in writers, DropBackup(w) \/ DroppedBackup(w), WriterFrame
  PROVE  Inv'
<1>0. w.session \in Names /\ Progress(w) /\ w.at \in {"drop", "dropped"}
  BY WriterFacts DEF Inv, Disk, DropBackup, DroppedBackup
<1>a. UNCHANGED <<counters, server>> /\ UNCHANGED <<final, damaged, lost>>
  BY DEF WriterFrame, DropBackup, DroppedBackup
<1>b. OnDisk(w.session, w.captured) \/ pc \in {"delete", "sweep_deleted", "exit"}
  BY <1>0 DEF Progress, Deleting
<1>1. CASE Report(w, TRUE) /\ UNCHANGED old
  BY <1>1, <1>0, <1>a, <1>b, ReportStep DEF Inv, Types
<1>2. CASE /\ \/ old' = [old EXCEPT ![w.session] = (@ \ Backups(w)) \cup {Torn(b) : b \in Backups(w)}]
              \/ old' = [old EXCEPT ![w.session] = @ \ Backups(w)]
           /\ \/ Proceed(w, [w EXCEPT !.at = "dropped"])
              \/ \E ok \in BOOLEAN : Report(w, ok)
  <2>1. /\ OnlyUnder(w.session) /\ Shelves'
        /\ \A d \in old'[w.session] : IsDir(d)
        /\ valid_backups(w.session)' \subseteq valid_backups(w.session)
        /\ \A d \in Dirs_of(w.session)' : \E e \in Dirs_of(w.session) :
             d.at = e.at /\ d.wanted = e.wanted /\ d.files = e.files
        /\ \A b, c \in Backups(w)' : b = c
        /\ Backups(w) = {} => Backups(w)' = {}
    BY <1>0, <1>2, <1>a, BackupsGo
  <2>2. renames = 0 => \A d \in Dirs_of(w.session)' : SameGeneration(d)
    BY <1>0, <2>1 DEF Inv, Linked, SameGeneration
  <2>3. final'[w.session] # None => IsDir(final'[w.session])
    BY <1>0, <1>a DEF Inv, Types
  <2>f. renames = 0 => Faithful(w.session, w.captured)'
    BY <1>0, <1>a DEF Inv, Linked, Faithful, ReplayFiles, SameReplay, server, loaded
  <2>4. CASE Proceed(w, [w EXCEPT !.at = "dropped"])
    <3>1. PICK v : GoesOn(w, v) /\ v.at = "dropped" /\ v.files = w.files
      BY <2>4, JobAt DEF Stages
    <3>2. GoesOn(w, v) /\ Same(v, w) /\ v.at = "dropped" /\ v.files = w.files
      BY <3>1 DEF GoesOn
    <3>3. Types' /\ Threads' /\ Remains' /\ Forgetting' /\ Followed'
      BY <3>2, <2>1, <2>3, <1>a, WriterRest DEF OnlyUnder
    <3>4. Marks'
      BY <3>2, WriterMarks
    <3>5. renames = 0 => \A p \in DOMAIN v.files : SameReplay(p, v.files[p], w.captured[p])
      BY <1>0, <3>2 DEF Inv, Linked
    <3>6. Backups(v)' = Backups(w)'
      BY <3>2 DEF Backups, Same
    <3>7. \A d \in Dirs_of(v.session)' : d.at <= v.when
      BY <1>0, <2>1, <3>2 DEF Progress, Same
    <3>8. OnDisk(v.session, v.captured)' \/ Deleting(v.session)'
      BY <1>0, <1>a, <2>1, <3>2, <3>6 DEF Progress, OnDisk, Deleting, Same, server
    <3>9. Progress(v)'
      BY <1>0, <1>a, <2>1, <3>2, <3>6, <3>7, <3>8 DEF Progress, Same, counters
    <3>10. Disk' /\ Linked'
      BY <2>1, <2>2, <2>f, <3>2, <3>5, <3>9, WriterGoesOn
    <3> QED
      BY <3>3, <3>4, <3>10 DEF Inv
  <2>5. ASSUME NEW ok \in BOOLEAN, Report(w, ok)
        PROVE  Inv'
    <3>1. IsOver(w, ok)
      BY <2>5, JobOver
    <3>2. Types' /\ Threads' /\ Remains' /\ Forgetting' /\ Followed'
      BY <3>1, <2>1, <2>3, <1>a, WriterRest DEF OnlyUnder
    <3>3. Marks'
      <4>1. pc \notin {"delete", "sweep_deleted", "exit"} => OnDisk(w.session, w.captured)'
        BY <1>a, <1>b DEF OnDisk
      <4> QED
        BY <3>1, <4>1, WriterMarks
    <3>4. Disk' /\ Linked'
      BY <2>1, <2>2, <2>f, <3>1, WriterOver
    <3> QED
      BY <3>2, <3>3, <3>4 DEF Inv
  <2> QED
    BY <1>2, <2>4, <2>5
<1> QED
  BY <1>1, <1>2 DEF DropBackup, DroppedBackup

----------------------------------------------------------------------------
(* Shutdown                                                                *)

LEMMA BeginShutdownStep ==
  ASSUME Inv, NEW how \in {"stop", "delete"}, BeginShutdown(how)
  PROVE  Inv'
<1> USE DEF Inv, BeginShutdown, counters, loaded, worker, disk, bounds, history
<1>1. Types'
  BY DEF Types
<1>2. Threads'
  BY DEF Threads, Starting
<1>3. Disk'
  BY DEF Disk, Shelves, Progress, Dirs_of, valid_backups, Backups, OnDisk, Deleting
<1>4. Remains'
  BY DEF Remains
<1>5. Forgetting'
  BY DEF Forgetting
<1>6. Marks'
  BY DEF Marks, Current, OnDisk, Live
<1>7. Followed'
  BY DEF Followed, Follows, Behind, Live
<1>8. Linked'
  BY DEF Linked, Dirs_of, ReplayFiles, SameReplay, Faithful, Behind, Live
<1> QED
  BY <1>1, <1>2, <1>3, <1>4, <1>5, <1>6, <1>7, <1>8

LEMMA FinishStep ==
  ASSUME Inv, finish_snapshots
  PROVE  Inv'
<1> USE DEF finish_snapshots
<1>1. CASE done # None /\ Settle(done) /\ UNCHANGED late
  BY <1>1, SettleStep
<1>2. CASE /\ UNCHANGED <<unsettled, done, snapshot_generation, persisted_replays, savedAs>>
           /\ \/ in_flight = 0 /\ UNCHANGED late
              \/ in_flight > 0 /\ done = None /\ late' = late \cup {session_name}
  <2> USE DEF Inv, counters, loaded, disk, bounds
  <2>a. pc' \in {"last", "delete", "exit"} /\ (pc' = "delete" => disposition = "delete")
    BY DEF AfterFinish
  <2>b. pc # "down" /\ pc \notin Starting /\ session_name \notin forgotten
    BY DEF Forgetting, Starting
  <2>c. writers = {} \/ session_name \in late'
    BY <1>2 DEF Threads, Types
  <2>1. Types'
    BY <1>2, <2>a, <2>b DEF Types
  <2>2. Threads'
    <3>1. in_flight' = 0 /\ thread' = "none"
      OBVIOUS
    <3> QED
      BY <1>2, <2>a, <2>b, <3>1 DEF Threads, Starting
  <2>3. Disk'
    BY <1>2, <2>a DEF Disk, Shelves, Progress, Dirs_of, valid_backups, Backups, OnDisk, Deleting
  <2>4. Remains'
    BY <2>a DEF Remains
  <2>5. Forgetting'
    <3>1. late \subseteq late'
      BY <1>2
    <3> QED
      BY <2>a, <2>b, <2>c, <3>1 DEF Forgetting
  <2>6. Marks'
    BY <1>2, <2>a DEF Marks, Current, OnDisk, Live
  <2>7. Followed'
    BY <1>2 DEF Followed, Follows, Behind, Live
  <2>8. Linked'
    BY <1>2 DEF Linked, Dirs_of, ReplayFiles, SameReplay, Faithful, Behind, Live
  <2> QED
    BY <2>1, <2>2, <2>3, <2>4, <2>5, <2>6, <2>7, <2>8
<1> QED
  BY <1>1, <1>2

LEMMA LastSnapshotStep ==
  ASSUME Inv, LastSnapshot
  PROVE  Inv'
<1> USE DEF LastSnapshot
<1>1. CASE dispatch_snapshot /\ unsettled = 0 /\ snapshot_dirty /\ pc' = "finish_last"
  <2>1. in_flight = 0 /\ pc = "last"
    BY DEF Inv, Threads
  <2> QED
    BY <1>1, <2>1, DispatchStep
<1>2. CASE /\ pc' = "exit"
           /\ UNCHANGED <<counters, session_name, loaded, dirty_generation, snapshot_generation,
                          persisted_replays, in_flight, unsettled, thread, disposition, worker,
                          disk, bounds, history>>
  <2> USE <1>2 DEF Inv, counters, loaded, worker, disk, bounds, history
  <2>1. Types'
    BY DEF Types
  <2>2. Threads'
    BY DEF Threads, Starting
  <2>3. Disk'
    BY DEF Disk, Shelves, Progress, Dirs_of, valid_backups, Backups, OnDisk, Deleting
  <2>4. Remains'
    BY DEF Remains
  <2>5. Forgetting'
    BY DEF Forgetting
  <2>6. Marks'
    BY DEF Marks, Current, OnDisk, Live
  <2>7. Followed'
    BY DEF Followed, Follows, Behind, Live
  <2>8. Linked'
    BY DEF Linked, Dirs_of, ReplayFiles, SameReplay, Faithful, Behind, Live
  <2> QED
    BY <2>1, <2>2, <2>3, <2>4, <2>5, <2>6, <2>7, <2>8
<1> QED
  BY <1>1, <1>2

\* What a removal leaves: less of what was there.
LeftOf(d, e) ==
  /\ IsDir(d)
  /\ d.at = e.at /\ d.stamp = e.stamp /\ d.session = e.session /\ d.wanted = e.wanted
  /\ DOMAIN d.files \subseteq DOMAIN e.files
  /\ \A p \in DOMAIN d.files : d.files[p] = e.files[p]
  /\ d.meta => e.meta

\* Only what is whole leaves something whole.
LEMMA LeftWhole ==
  ASSUME NEW e, IsDir(e), NEW d, LeftOf(d, e), NEW n, complete_snapshot(d, n)
  PROVE  complete_snapshot(e, n)
<1>1. e # None
  BY DirFields
<1> QED
  BY <1>1 DEF LeftOf, complete_snapshot

\* A directory without some of its files.
LEMMA CutDir ==
  ASSUME NEW e, IsDir(e), NEW kept \in SUBSET DOMAIN e.files
  PROVE  LeftOf(Cut(e, kept), e)
<1> DEFINE d == [e EXCEPT !.files = Restrict(@, kept)]
           g == Restrict(e.files, kept)
<1>0. e.meta \in BOOLEAN /\ \A p \in DOMAIN e.files : e.files[p] \in Content
  BY DirFields
<1>1. /\ d.at = e.at /\ d.stamp = e.stamp /\ d.session = e.session /\ d.wanted = e.wanted
      /\ d.files = g /\ d.meta = e.meta
  BY DEF IsDir
<1>2. DOMAIN g = kept /\ \A p \in kept : g[p] = e.files[p]
  BY DEF Restrict
<1>3. IsCapture(g)
  <2>1. kept \in SUBSET Panes
    BY DEF IsDir, IsCapture
  <2>2. g \in [kept -> Content]
    BY <1>0, <1>2 DEF Restrict
  <2> QED
    BY <2>1, <2>2 DEF IsCapture
<1>5. d \in [at : Nat, session : Names, wanted : {e.wanted}, files : {g}, meta : BOOLEAN, stamp : Nat]
  BY DEF IsDir
<1>6. IsCapture(d.wanted) /\ IsCapture(d.files) /\ DOMAIN d.files \subseteq DOMAIN d.wanted
  BY <1>1, <1>2, <1>3 DEF IsDir
<1>7. IsDir(d)
  <2>1. d \in [at : Nat, session : Names, wanted : {d.wanted}, files : {d.files}, meta : BOOLEAN, stamp : Nat]
    BY <1>1, <1>5
  <2> HIDE DEF d
  <2> QED
    BY <2>1, <1>6 DEF IsDir
<1> HIDE DEF d, g
<1>8. LeftOf(d, e)
  BY <1>1, <1>2, <1>7 DEF LeftOf
<1> QED
  BY <1>8 DEF d, Cut

\* A directory without its metadata, too.
LEMMA TornLeft ==
  ASSUME NEW e, NEW d, LeftOf(d, e)
  PROVE  LeftOf(Torn(d), e)
<1>1. IsDir(d)
  BY DEF LeftOf
<1>2. /\ IsDir(Torn(d))
      /\ Torn(d).stamp = d.stamp /\ Torn(d).at = d.at
      /\ Torn(d).wanted = d.wanted /\ Torn(d).files = d.files
  BY <1>1, TornDir
<1>3. Torn(d).session = d.session /\ Torn(d).meta = FALSE
  BY <1>1 DEF Torn, IsDir
<1> QED
  BY <1>2, <1>3 DEF LeftOf

LEMMA RemnantIs ==
  ASSUME NEW e, IsDir(e), NEW d \in Remnants(e)
  PROVE  LeftOf(d, e)
<1>1. PICK kept \in SUBSET DOMAIN e.files : d \in {Cut(e, kept), Torn(Cut(e, kept))}
  BY DEF Remnants
<1>2. LeftOf(Cut(e, kept), e)
  BY CutDir
<1>3. LeftOf(Torn(Cut(e, kept)), e)
  BY <1>2, TornLeft
<1> QED
  BY <1>1, <1>2, <1>3

\* Of several directories each leaves one at most.
LEMMA LeftoverIs ==
  ASSUME NEW S, \A e \in S : IsDir(e), NEW T \in Leftovers(S)
  PROVE  /\ \A d \in T : \E e \in S : LeftOf(d, e)
         /\ \A k : (\A b, c \in {e \in S : e.stamp = k} : b = c) =>
                     \A b, c \in {d \in T : d.stamp = k} : b = c
<1>1. PICK stuck \in SUBSET S : \E cut \in [stuck -> UNION {Remnants(d) : d \in stuck}] :
        (\A d \in stuck : cut[d] \in Remnants(d)) /\ T = Range(cut)
  BY DEF Leftovers
<1>2. PICK cut \in [stuck -> UNION {Remnants(d) : d \in stuck}] :
        (\A d \in stuck : cut[d] \in Remnants(d)) /\ T = Range(cut)
  BY <1>1
<1>3. \A d \in T : \E e \in stuck : d = cut[e]
  BY <1>2 DEF Range
<1>4. \A e \in stuck : LeftOf(cut[e], e)
  BY <1>2, RemnantIs
<1>5. \A d \in T : \E e \in S : LeftOf(d, e)
  BY <1>3, <1>4
<1>6. ASSUME NEW k, \A b, c \in {e \in S : e.stamp = k} : b = c,
             NEW b \in T, NEW c \in T, b.stamp = k, c.stamp = k
      PROVE  b = c
  <2>1. PICK x \in stuck : b = cut[x]
    BY <1>3
  <2>2. PICK y \in stuck : c = cut[y]
    BY <1>3
  <2>3. x.stamp = k /\ y.stamp = k
    BY <2>1, <2>2, <1>4, <1>6 DEF LeftOf
  <2>4. x = y
    BY <2>3, <1>6
  <2> QED
    BY <2>1, <2>2, <2>4
<1> QED
  BY <1>5, <1>6

\* When of every directory less is left, or nothing, what was known of the disk
\* still holds, except that a deletion takes the job's own directory.
LEMMA ShrinkStep ==
  ASSUME Inv, DOMAIN final' = Names, DOMAIN old' = Names,
         \A n \in Names : final'[n] = None \/ (final[n] # None /\ LeftOf(final'[n], final[n])),
         \A n \in Names : \A d \in old'[n] : \E e \in old[n] : LeftOf(d, e),
         \A w \in writers : \A b, c \in Backups(w)' : b = c,
         \A w \in writers : w.at \in {"sync", "drop", "dropped"} =>
                              OnDisk(w.session, w.captured)' \/ Deleting(w.session)',
         UNCHANGED <<counters, session_name, loaded, persisted_replays, unsettled, worker, renames>>
  PROVE  /\ Disk' /\ Linked'
         /\ \A n \in Names : final'[n] # None => IsDir(final'[n])
         /\ \A n \in Names : \A d \in old'[n] : IsDir(d)
<1> USE DEF counters, loaded, worker
<1>a. \A n \in Names : (final[n] # None => IsDir(final[n])) /\ \A e \in old[n] : IsDir(e)
  BY DEF Inv, Types
<1>1. \A n \in Names : final'[n] # None => IsDir(final'[n])
  BY DEF LeftOf
<1>2. \A n \in Names : \A d \in old'[n] : IsDir(d)
  BY DEF LeftOf
<1>3. ASSUME NEW n \in Names, NEW d \in Dirs_of(n)'
      PROVE  \E e \in Dirs_of(n) : LeftOf(d, e)
  <2>1. CASE d \in old'[n]
    BY <2>1 DEF Dirs_of
  <2>2. CASE d = final'[n] /\ d # None
    BY <2>2 DEF Dirs_of
  <2> QED
    BY <2>1, <2>2, <1>3 DEF Dirs_of
<1>4. ASSUME NEW n \in Names, NEW d \in valid_backups(n)'
      PROVE  \E e \in valid_backups(n) : LeftOf(d, e)
  <2>1. d \in old'[n] /\ complete_snapshot(d, n)
    BY <1>4 DEF valid_backups, complete_snapshot
  <2>2. PICK e \in old[n] : LeftOf(d, e)
    BY <2>1
  <2>3. complete_snapshot(e, n)
    BY <1>a, <2>1, <2>2, LeftWhole
  <2> QED
    BY <2>2, <2>3 DEF valid_backups
<1>5. ASSUME NEW n \in Names, complete_snapshot(final'[n], n)
      PROVE  complete_snapshot(final[n], n) /\ final'[n].at = final[n].at
  <2>1. final'[n] # None
    BY <1>5 DEF complete_snapshot
  <2>2. (final[n] # None /\ LeftOf(final'[n], final[n]))
    BY <2>1
  <2>3. IsDir(final[n])
    BY <1>a, <2>2
  <2> QED
    BY <1>5, <2>2, <2>3, LeftWhole DEF LeftOf
<1>6. Disk'
  <2>1. \A n \in Names : \A b \in old'[n] : b.stamp < serial
    BY DEF Inv, Disk, Shelves, LeftOf
  <2>2. \A n \in Names : \A d \in Dirs_of(n)' : d.at <= changes
    BY <1>3 DEF Inv, Disk, Shelves, LeftOf
  <2>3. ASSUME NEW n \in Names, complete_snapshot(final'[n], n), NEW b \in valid_backups(n)'
        PROVE  b.at <= final'[n].at
    <3>1. PICK e \in valid_backups(n) : LeftOf(b, e)
      BY <2>3, <1>4
    <3>2. e.at <= final[n].at
      BY <2>3, <1>5 DEF Inv, Disk, Shelves
    <3> QED
      BY <2>3, <3>1, <3>2, <1>5 DEF LeftOf
  <2>4. \A n \in Names : complete_snapshot(final[n], n)' =>
                           \A b \in valid_backups(n)' : b.at <= final'[n].at
    BY <2>3 DEF complete_snapshot
  <2>5. ASSUME NEW w \in writers
        PROVE  Progress(w)'
    <3>0. w.session \in Names
      BY WriterFacts
    <3>1. Progress(w)
      BY DEF Inv, Disk
    <3>2. w.id < serial' /\ w.when <= changes' /\ w.reuse \subseteq DOMAIN w.captured
          /\ (w.at # "stage" => DOMAIN w.files = DOMAIN w.captured)
      BY <3>1 DEF Progress
    <3>3. \A d \in Dirs_of(w.session)' : d.at <= w.when
      BY <3>0, <3>1, <1>3 DEF Progress, LeftOf
    <3>4. w.at \in {"stage", "aside"} => \A b \in old'[w.session] : b.stamp < w.id
      BY <3>0, <3>1 DEF Progress, LeftOf
    <3>5. w.at = "publish" => final'[w.session] = None
      BY <3>0, <3>1 DEF Progress
    <3>6. ASSUME w.at = "publish", NEW b \in Backups(w)', complete_snapshot(b, w.session),
                 NEW c \in valid_backups(w.session)'
          PROVE  c.at <= b.at
      <4>1. b \in old'[w.session] /\ b.stamp = w.id
        BY <3>6 DEF Backups
      <4>2. PICK e \in old[w.session] : LeftOf(b, e)
        BY <4>1, <3>0
      <4>3. e \in Backups(w) /\ complete_snapshot(e, w.session)
        BY <4>1, <4>2, <3>0, <3>6, <1>a, LeftWhole DEF Backups, LeftOf
      <4>4. PICK f \in valid_backups(w.session) : LeftOf(c, f)
        BY <3>0, <3>6, <1>4
      <4>5. f.at <= e.at
        BY <3>1, <3>6, <4>3, <4>4 DEF Progress
      <4> QED
        BY <4>2, <4>4, <4>5 DEF LeftOf
    <3>7. w.at = "publish" => \A b \in Backups(w)' : complete_snapshot(b, w.session)' =>
                                \A c \in valid_backups(w.session)' : c.at <= b.at
      BY <3>6 DEF complete_snapshot
    <3> QED
      BY <3>2, <3>3, <3>4, <3>5, <3>7 DEF Progress
  <2> QED
    BY <2>1, <2>2, <2>4, <2>5 DEF Disk, Shelves
<1>7. Linked'
  <2> SUFFICES ASSUME renames = 0 PROVE Linked'
    BY DEF Linked
  <2>1. ASSUME NEW n \in Names, NEW d \in Dirs_of(n)'
        PROVE  SameGeneration(d)
    <3>1. PICK e \in Dirs_of(n) : LeftOf(d, e)
      BY <2>1, <1>3
    <3>2. SameGeneration(e)
      BY DEF Inv, Linked
    <3> QED
      BY <3>1, <3>2 DEF LeftOf, SameGeneration
  <2>2. ASSUME NEW n \in Names
        PROVE  /\ ReplayFiles(n)' \subseteq ReplayFiles(n)
               /\ \A p \in ReplayFiles(n)' : final'[n].files[p] = final[n].files[p]
    BY DEF ReplayFiles, LeftOf
  <2>3. ASSUME NEW n \in Names, NEW captured, Faithful(n, captured)
        PROVE  Faithful(n, captured)'
    BY <2>2, <2>3 DEF Faithful, SameReplay
  <2>4. ASSUME NEW w \in writers
        PROVE  /\ w.session = session_name
               /\ w.at = "stage" => \A p \in w.reuse \cap ReplayFiles(w.session)' :
                                      SameReplay(p, final[w.session].files[p], w.captured[p])'
               /\ w.at # "stage" => \A p \in DOMAIN w.files :
                                      SameReplay(p, w.files[p], w.captured[p])'
               /\ w.at \in {"sync", "drop", "dropped"} => Faithful(w.session, w.captured)'
    <3>0. w.session \in Names
      BY WriterFacts
    <3>1. w.at = "stage" => \A p \in w.reuse \cap ReplayFiles(w.session)' :
                              SameReplay(p, final[w.session].files[p], w.captured[p])'
      BY <3>0, <2>2 DEF Inv, Linked, SameReplay
    <3> QED
      BY <3>0, <3>1, <2>3 DEF Inv, Linked, SameReplay
  <2>5. done # None => done.session = session_name /\ (done.ok => Faithful(done.session, done.captured)')
    BY <2>3 DEF Inv, Linked, Types, IsOutcome
  <2>6. unsettled = 0 /\ session_name # None =>
          \A p \in DOMAIN persisted_replays \cap ReplayFiles(session_name)' :
            /\ persisted_replays[p] = final'[session_name].files[p].cg
            /\ Behind(p, final[session_name].files[p])'
    <3>1. session_name # None => session_name \in Names
      BY DEF Inv, Types
    <3> QED
      BY <3>1, <2>2 DEF Inv, Linked, Behind, Live
  <2>7. done' # None => done'.session = session_name' /\ (done'.ok => Faithful(done.session, done.captured)')
    BY <2>5
  <2> QED
    BY <2>1, <2>4, <2>6, <2>7 DEF Linked, SameGeneration
<1> QED
  BY <1>1, <1>2, <1>6, <1>7

\* Of the backups a job moved aside there is one at most, whatever is left.
LEMMA BackupsLeft ==
  ASSUME Inv, NEW w \in writers,
         old'[w.session] = old[w.session] \/ old'[w.session] \in Leftovers(old[w.session])
  PROVE  \A b, c \in Backups(w)' : b = c
<1>0. w.session \in Names /\ Progress(w)
  BY WriterFacts DEF Inv, Disk
<1>1. \A b, c \in {e \in old[w.session] : e.stamp = w.id} : b = c
  BY <1>0 DEF Progress, Backups
<1>2. Backups(w)' = {d \in old'[w.session] : d.stamp = w.id}
  BY DEF Backups
<1>3. CASE old'[w.session] = old[w.session]
  BY <1>1, <1>2, <1>3
<1>4. CASE old'[w.session] \in Leftovers(old[w.session])
  <2>1. \A e \in old[w.session] : IsDir(e)
    BY <1>0 DEF Inv, Types
  <2> QED
    BY <1>1, <1>2, <1>4, <2>1, LeftoverIs
<1> QED
  BY <1>3, <1>4

\* A directory left as it was is left of itself.
LEMMA LeftWholly ==
  ASSUME NEW d, IsDir(d)
  PROVE  LeftOf(d, d)
BY DEF LeftOf

LEMMA DeleteStep ==
  ASSUME Inv, delete_snapshot
  PROVE  Inv'
<1> USE DEF Inv, counters, loaded, worker
<1>0. /\ pc = "delete" /\ session_name \in Names /\ DOMAIN final = Names /\ DOMAIN old = Names
      /\ \A n \in Names : final[n] # None => IsDir(final[n])
      /\ \A n \in Names : \A d \in old[n] : IsDir(d)
      /\ disposition # "stop"
      /\ session_name \notin forgotten
      /\ writers = {} \/ session_name \in late
  BY DEF delete_snapshot, Types, Threads, Forgetting
<1>f. UNCHANGED <<counters, session_name, loaded, dirty_generation, snapshot_generation,
                 persisted_replays, in_flight, unsettled, thread, disposition, worker,
                 tmp, old, damaged, renames, lost, late, savedAs>>
  BY DEF delete_snapshot
<1>a. DOMAIN final' = Names /\ \A n \in Names \ {session_name} : final'[n] = final[n]
  BY <1>0 DEF delete_snapshot
<1>b. \/ /\ pc' = AfterDelete(FALSE) /\ final' = final
         /\ forgotten' = Forgotten /\ undeleted' = undeleted \cup {session_name}
      \/ /\ pc' = "sweep_deleted" /\ final'[session_name] = None /\ UNCHANGED <<forgotten, undeleted>>
      \/ /\ pc' = "sweep_deleted" /\ final[session_name] # None
         /\ LeftOf(final'[session_name], final[session_name])
         /\ UNCHANGED forgotten /\ undeleted' = undeleted \cup {session_name}
  <2>1. \A left \in Remnants(final[session_name]) :
          final[session_name] # None => LeftOf(left, final[session_name])
    BY <1>0, RemnantIs
  <2> QED
    BY <1>0, <2>1 DEF delete_snapshot
<1>c. /\ pc' \in {"sweep_deleted", "exit", "refused"}
      /\ pc' = "refused" <=> (final' = final /\ undeleted' = undeleted \cup {session_name} /\ pc' # "sweep_deleted" /\ disposition = "fresh")
      /\ pc' = "exit" => disposition # "fresh"
      /\ pc' = "refused" => disposition = "fresh"
  BY <1>b DEF AfterDelete
<1>d. \A n \in Names : final'[n] = None \/ (final[n] # None /\ LeftOf(final'[n], final[n]))
  <2>0. \A n \in Names : final[n] # None => LeftOf(final[n], final[n])
    BY <1>0, LeftWholly
  <2>1. \A n \in Names \ {session_name} : final'[n] = None \/ (final[n] # None /\ LeftOf(final'[n], final[n]))
    BY <2>0, <1>a
  <2>2. final'[session_name] = None
          \/ (final[session_name] # None /\ LeftOf(final'[session_name], final[session_name]))
    BY <2>0, <1>0, <1>b
  <2> QED
    BY <2>1, <2>2
<1>e. \A n \in Names : \A d \in old'[n] : \E e \in old[n] : LeftOf(d, e)
  BY <1>0, <1>f, LeftWholly
<1>g. disposition = "fresh" => writers = {} /\ done = None /\ savedAs = None
                               /\ unsettled = 0 /\ DOMAIN persisted_replays = {}
  BY <1>0 DEF Threads
<1>h. \A w \in writers : w.at \in {"sync", "drop", "dropped"} =>
                           OnDisk(w.session, w.captured)' \/ Deleting(w.session)'
  <2> SUFFICES ASSUME NEW w \in writers, w.at \in {"sync", "drop", "dropped"}
               PROVE  OnDisk(w.session, w.captured)' \/ Deleting(w.session)'
    OBVIOUS
  <2>1. w.session \in Names
    BY WriterFacts
  <2>2. CASE w.session = session_name
    <3>1. pc' \in {"delete", "sweep_deleted", "exit"}
      BY <1>c, <1>g
    <3> QED
      BY <2>2, <3>1, <1>0, <1>f DEF Deleting
  <2>3. CASE w.session # session_name
    <3>1. OnDisk(w.session, w.captured)
      BY <2>3 DEF Disk, Progress, Deleting
    <3> QED
      BY <2>1, <2>3, <3>1, <1>a, <1>f DEF OnDisk, complete_snapshot
  <2> QED
    BY <2>2, <2>3
<1>i. \A w \in writers : \A b, c \in Backups(w)' : b = c
  BY <1>f, BackupsLeft
<1>3. /\ Disk' /\ Linked'
      /\ \A n \in Names : final'[n] # None => IsDir(final'[n])
      /\ \A n \in Names : \A d \in old'[n] : IsDir(d)
  <2>1. DOMAIN old' = Names
    BY <1>0, <1>f
  <2> QED
    BY <1>a, <1>d, <1>e, <1>f, <1>h, <1>i, <2>1, ShrinkStep
<1>1. Types'
  BY <1>0, <1>a, <1>c, <1>f, <1>3 DEF Types
<1>2. Threads'
  BY <1>0, <1>c, <1>f, <1>g DEF Threads, Starting
<1>4. Remains'
  BY <1>c DEF Remains
<1>5. Forgetting'
  <2>f. Forgotten = forgotten \/ (Forgotten = forgotten \cup {session_name} /\ AfterDelete(FALSE) = "exit")
    BY DEF AfterDelete, Forgotten
  <2>1. forgotten' = forgotten \/ (forgotten' = forgotten \cup {session_name} /\ pc' = "exit")
    BY <1>b, <2>f
  <2>2. undeleted \subseteq undeleted' /\ (final'[session_name] # None => session_name \in undeleted')
        /\ (session_name \in forgotten' => session_name \in undeleted')
    BY <1>0, <1>b, <2>1
  <2>3. \A n \in forgotten' \ (late \cup undeleted') : final'[n] = None /\ old'[n] = {}
    BY <1>0, <1>a, <1>f, <2>1, <2>2 DEF Forgetting
  <2> QED
    BY <1>0, <1>c, <1>f, <2>1, <2>2, <2>3 DEF Forgetting
<1>6. Marks'
  BY <1>c, <1>f, <1>g DEF Marks, Current, Live
<1>7. Followed'
  BY <1>f DEF Followed, Follows, Behind, Live
<1> QED
  BY <1>1, <1>2, <1>3, <1>4, <1>5, <1>6, <1>7

LEMMA RemoveStagingStep ==
  ASSUME Inv, remove_staging_dirs
  PROVE  Inv'
<1> USE DEF Inv, counters, loaded, worker
<1>0. /\ pc = "sweep_deleted" /\ session_name \in Names
      /\ DOMAIN final = Names /\ DOMAIN old = Names /\ DOMAIN damaged = Names
      /\ \A n \in Names : final[n] # None => IsDir(final[n])
      /\ \A n \in Names : \A d \in old[n] \cup damaged[n] : IsDir(d)
      /\ disposition # "stop"
      /\ session_name \notin forgotten
      /\ writers = {} \/ session_name \in late
  BY DEF remove_staging_dirs, Types, Threads, Forgetting
<1>f. UNCHANGED <<counters, session_name, loaded, dirty_generation, snapshot_generation,
                 persisted_replays, in_flight, unsettled, thread, disposition, worker,
                 final, renames, lost, late, savedAs>>
  BY DEF remove_staging_dirs
<1>a. PICK staged \in SUBSET tmp[session_name], backups \in Leftovers(old[session_name]),
           copies \in Leftovers(damaged[session_name]) :
        /\ old' = [old EXCEPT ![session_name] = backups]
        /\ damaged' = [damaged EXCEPT ![session_name] = copies]
        /\ undeleted' = IF staged = {} /\ backups = {} /\ copies = {} THEN undeleted
                        ELSE undeleted \cup {session_name}
  BY DEF remove_staging_dirs
<1>b. /\ forgotten' = Forgotten
      /\ pc' = AfterDelete(final[session_name] = None)
  BY DEF remove_staging_dirs
<1>c. /\ pc' \in {"running", "exit", "refused"}
      /\ pc' = "exit" <=> disposition # "fresh"
  BY <1>b DEF AfterDelete
<1>d. \A n \in Names : final'[n] = None \/ (final[n] # None /\ LeftOf(final'[n], final[n]))
  <2>1. \A n \in Names : final[n] # None => LeftOf(final[n], final[n])
    BY <1>0, LeftWholly
  <2> QED
    BY <2>1, <1>f
<1>e. \A n \in Names : \A d \in old'[n] : \E e \in old[n] : LeftOf(d, e)
  <2>1. \A d \in backups : \E e \in old[session_name] : LeftOf(d, e)
    BY <1>0, LeftoverIs
  <2> QED
    BY <1>0, <1>a, <2>1, LeftWholly
<1>g. disposition = "fresh" => writers = {} /\ done = None /\ savedAs = None
                               /\ unsettled = 0 /\ DOMAIN persisted_replays = {}
  BY <1>0 DEF Threads
<1>h. \A w \in writers : w.at \in {"sync", "drop", "dropped"} =>
                           OnDisk(w.session, w.captured)' \/ Deleting(w.session)'
  <2> SUFFICES ASSUME NEW w \in writers, w.at \in {"sync", "drop", "dropped"}
               PROVE  OnDisk(w.session, w.captured)' \/ Deleting(w.session)'
    OBVIOUS
  <2>1. pc' = "exit"
    BY <1>c, <1>g
  <2>2. OnDisk(w.session, w.captured) \/ Deleting(w.session)
    BY DEF Disk, Progress
  <2> QED
    BY <2>1, <2>2, <1>f DEF Deleting, OnDisk, complete_snapshot
<1>i. \A w \in writers : \A b, c \in Backups(w)' : b = c
  <2> SUFFICES ASSUME NEW w \in writers
               PROVE  \A b, c \in Backups(w)' : b = c
    OBVIOUS
  <2>1. w.session \in Names
    BY WriterFacts
  <2>2. old'[w.session] = old[w.session] \/ old'[w.session] \in Leftovers(old[w.session])
    BY <2>1, <1>0, <1>a
  <2> QED
    BY <2>2, BackupsLeft
<1>3. /\ Disk' /\ Linked'
      /\ \A n \in Names : final'[n] # None => IsDir(final'[n])
      /\ \A n \in Names : \A d \in old'[n] : IsDir(d)
  <2>1. DOMAIN old' = Names /\ DOMAIN final' = Names
    BY <1>0, <1>a, <1>f
  <2> QED
    BY <1>d, <1>e, <1>f, <1>h, <1>i, <2>1, ShrinkStep
<1>1. Types'
  <2>1. \A d \in copies : IsDir(d)
    BY <1>0, LeftoverIs DEF LeftOf
  <2>2. DOMAIN damaged' = Names /\ \A n \in Names : \A d \in damaged'[n] : IsDir(d)
    BY <1>0, <1>a, <2>1
  <2> QED
    BY <1>0, <1>a, <1>c, <1>f, <1>3, <2>2 DEF Types
<1>2. Threads'
  BY <1>0, <1>c, <1>f, <1>g DEF Threads, Starting
<1>4. Remains'
  BY <1>c DEF Remains
<1>5. Forgetting'
  <2>1. forgotten' = IF disposition = "fresh" THEN forgotten ELSE forgotten \cup {session_name}
    BY <1>b DEF Forgotten
  <2>2. session_name \notin late \cup undeleted' => final'[session_name] = None /\ old'[session_name] = {}
    BY <1>0, <1>a, <1>f DEF Forgetting
  <2>3. undeleted \subseteq undeleted'
    BY <1>a
  <2>4. \A n \in forgotten' \ (late \cup undeleted') : final'[n] = None /\ old'[n] = {}
    BY <1>0, <1>a, <1>f, <2>1, <2>2, <2>3 DEF Forgetting
  <2> QED
    BY <1>0, <1>c, <1>f, <2>1, <2>4 DEF Forgetting
<1>6. Marks'
  BY <1>c, <1>f, <1>g DEF Marks, Current, Live
<1>7. Followed'
  BY <1>f DEF Followed, Follows, Behind, Live
<1> QED
  BY <1>1, <1>2, <1>3, <1>4, <1>5, <1>6, <1>7

\* A process that ends takes its memory along and leaves the disk.
LEMMA EndedStep ==
  ASSUME Inv, Ended, UNCHANGED <<counters, disk, renames, lost, late, undeleted, forgotten>>
  PROVE  Inv'
<1> USE DEF Inv, Ended, counters, disk, NothingPersisted, NoPanes, NeverOpened
<1>1. Types'
  BY DEF Types
<1>2. Threads'
  BY DEF Threads
<1>3. Disk'
  BY DEF Disk, Shelves, Dirs_of, valid_backups
<1>4. Remains'
  BY DEF Remains
<1>5. Forgetting'
  BY BoundsAssumption DEF Forgetting
<1>6. Marks'
  BY DEF Marks
<1>7. Followed'
  BY DEF Followed, Live
<1>8. Linked'
  BY DEF Linked, Dirs_of
<1> QED
  BY <1>1, <1>2, <1>3, <1>4, <1>5, <1>6, <1>7, <1>8

----------------------------------------------------------------------------
(* Start and recovery                                                      *)

LEMMA StartStep ==
  ASSUME Inv, NEW n \in Names, NEW how \in {"stop", "fresh"}, Start(n, how)
  PROVE  Inv'
<1> USE DEF Inv, Start, counters, loaded, worker, disk, bounds
<1>0. writers = {} /\ done = None /\ unsettled = 0 /\ in_flight = 0 /\ savedAs = None
  BY DEF Threads
<1>1. Types'
  BY BoundsAssumption DEF Types
<1>2. Threads'
  BY <1>0 DEF Threads, Starting
<1>3. Disk'
  BY <1>0 DEF Disk, Shelves, Dirs_of, valid_backups
<1>4. Remains'
  BY DEF Remains
<1>5. Forgetting'
  BY <1>0 DEF Forgetting
<1>6. Marks'
  BY <1>0 DEF Marks
<1>7. Followed'
  BY <1>0 DEF Followed, Live
<1>8. Linked'
  BY <1>0 DEF Linked, Dirs_of, Threads
<1> QED
  BY <1>1, <1>2, <1>3, <1>4, <1>5, <1>6, <1>7, <1>8

\* Of a starting server, only the name's directories and the step move.
StartingStep(next) ==
  /\ ServerStep(next)
  /\ OnlyUnder(session_name)

LEMMA StartingRest ==
  ASSUME Inv, pc \in Starting, NEW next \in Starting \cup {"running"}, StartingStep(next),
         DOMAIN damaged' = Names,
         \A n \in Names : \A d \in damaged'[n] : IsDir(d),
         final'[session_name] # None => IsDir(final'[session_name]),
         \A d \in old'[session_name] : IsDir(d),
         Shelves', Remains',
         renames = 0 => \A d \in Dirs_of(session_name)' : SameGeneration(d)
  PROVE  Inv'
<1> USE DEF Inv, StartingStep, ServerStep, OnlyUnder, counters, loaded, worker, bounds, history
<1>0. /\ writers = {} /\ done = None /\ unsettled = 0 /\ in_flight = 0 /\ savedAs = None
      /\ DOMAIN persisted_replays = {} /\ session_name \in Names /\ session_name \notin forgotten
  BY DEF Threads, Types, Forgetting, Starting
<1>1. Types'
  <2>1. \A n \in Names : final'[n] # None => IsDir(final'[n])
    BY DEF Types
  <2>2. \A n \in Names : \A d \in old'[n] : IsDir(d)
    BY DEF Types
  <2> QED
    BY <2>1, <2>2, <1>0, BoundsAssumption DEF Types, Starting
<1>2. Threads'
  BY <1>0 DEF Threads, Starting
<1>3. Disk'
  BY <1>0 DEF Disk
<1>5. Forgetting'
  BY <1>0 DEF Forgetting, Starting
<1>6. Marks'
  BY <1>0 DEF Marks
<1>8. Followed'
  BY <1>0 DEF Followed, Live
<1>7. Linked'
  <2>1. \A n \in Names \ {session_name} : Dirs_of(n)' = Dirs_of(n)
    BY DEF Dirs_of
  <2>2. renames = 0 => \A n \in Names : \A d \in Dirs_of(n)' : SameGeneration(d)'
    BY <2>1 DEF Linked, SameGeneration
  <2> QED
    BY <1>0, <2>2 DEF Linked
<1> QED
  BY <1>1, <1>2, <1>3, <1>5, <1>6, <1>7, <1>8

LEMMA RecoverSelectStep ==
  ASSUME Inv, RecoverSelect
  PROVE  Inv'
<1> USE DEF RecoverSelect
<1>c. PICK c : c = snapshot_recovery_candidate(session_name)
  OBVIOUS
<1>0. session_name \in Names /\ pc \in Starting /\ Types /\ Disk /\ Shelves
  BY DEF Inv, Types, Starting, Disk
<1>a. /\ final[session_name] = None /\ old[session_name] # {} => c \in old[session_name]
      /\ c = final[session_name] \/ c \in old[session_name]
  BY <1>0, <1>c, CandidateIs
<1>b. None \notin old[session_name]
  BY <1>0, DirFields DEF Types
<1>1. CASE c = final[session_name] /\ ServerStep("sweep") /\ UNCHANGED disk
  <2> USE <1>1 DEF disk
  <2>1. StartingStep("sweep")
    BY <1>0 DEF StartingStep, OnlyUnder, Types
  <2>2. final[session_name] = None => old[session_name] = {}
    BY <1>a, <1>b
  <2>3. Remains'
    BY <2>2 DEF Remains, ServerStep
  <2>4. Shelves'
    BY <1>0 DEF Shelves, ServerStep, counters, Dirs_of, valid_backups
  <2>5. renames = 0 => \A d \in Dirs_of(session_name)' : SameGeneration(d)
    BY <1>0 DEF Inv, Linked, ServerStep, Dirs_of
  <2>6. /\ DOMAIN damaged' = Names
        /\ \A n \in Names : \A d \in damaged'[n] : IsDir(d)
        /\ final'[session_name] # None => IsDir(final'[session_name])
        /\ \A d \in old'[session_name] : IsDir(d)
    BY <1>0 DEF Types
  <2> QED
    BY <1>0, <2>1, <2>3, <2>4, <2>5, <2>6, StartingRest DEF Starting
<1>2. CASE /\ c # final[session_name]
           /\ damaged' = [damaged EXCEPT ![session_name] = @ \cup ({final[session_name]} \ {None})]
           /\ final' = [final EXCEPT ![session_name] = None]
           /\ ServerStep("republish")
           /\ UNCHANGED <<tmp, old>>
  <2>1. StartingStep("republish") /\ final'[session_name] = None /\ old' = old /\ session_name' = session_name
    BY <1>0, <1>2 DEF StartingStep, ServerStep, OnlyUnder, Types
  <2>2. old[session_name] # {}
    BY <1>a, <1>2
  <2>3. Remains'
    BY <2>1, <2>2, <1>2 DEF Remains, ServerStep
  <2>4. /\ Dirs_of(session_name)' \subseteq Dirs_of(session_name)
        /\ valid_backups(session_name)' = valid_backups(session_name)
        /\ ~ complete_snapshot(final'[session_name], session_name)
    BY <2>1 DEF Dirs_of, valid_backups, complete_snapshot
  <2>5. Shelves'
    <3>1. /\ \A b \in old'[session_name] : b.stamp < serial
          /\ \A d \in Dirs_of(session_name) : d.at <= changes
      BY <1>0, <2>1 DEF Shelves
    <3>d. PICK s \in Names : s = session_name
      BY <1>0
    <3>2. Dirs_of(s)' \subseteq Dirs_of(s) /\ ~ complete_snapshot(final'[s], s)
      BY <2>1, <2>4, <3>d
    <3>3. OnlyUnder(s) /\ UNCHANGED counters
      BY <2>1, <3>d DEF StartingStep, ServerStep
    <3> QED
      BY <3>1, <3>2, <3>3, <3>d, ShelvesUnder
  <2>6. renames = 0 => \A d \in Dirs_of(session_name)' : SameGeneration(d)
    BY <1>0, <2>4 DEF Inv, Linked
  <2>7. /\ DOMAIN damaged' = Names
        /\ \A n \in Names : \A d \in damaged'[n] : IsDir(d)
        /\ \A d \in old'[session_name] : IsDir(d)
    BY <1>0, <1>2, <2>1 DEF Types
  <2> QED
    BY <1>0, <2>1, <2>3, <2>5, <2>6, <2>7, StartingRest DEF Starting
<1> QED
  BY <1>c, <1>1, <1>2

LEMMA RecoverRenameStep ==
  ASSUME Inv, RecoverRename
  PROVE  Inv'
<1> USE DEF RecoverRename
<1>c. PICK c : c = snapshot_recovery_candidate(session_name)
  OBVIOUS
<1>s. PICK s \in Names : s = session_name
  BY DEF Inv, Types
<1>0. pc \in Starting /\ Types /\ Disk /\ Shelves /\ final[s] = None /\ old[s] # {}
  BY <1>s DEF Inv, Starting, Disk, Remains
<1>1. /\ c \in old[s]
      /\ valid_backups(s) # {} => c \in valid_backups(s) /\ \A b \in valid_backups(s) : b.at <= c.at
      /\ valid_backups(s) = {} => ~ complete_snapshot(c, s)
  BY <1>0, <1>c, <1>s, CandidateIs DEF complete_snapshot
<1>2. IsDir(c) /\ c # None /\ c.at <= changes
  BY <1>0, <1>1, DirFields DEF Types, Shelves, Dirs_of
<1>e. PICK e : e = [c EXCEPT !.stamp = 0]
  OBVIOUS
<1>3. /\ IsDir(e) /\ e.at = c.at /\ e.wanted = c.wanted /\ e.files = c.files
      /\ \A n : complete_snapshot(e, n) <=> complete_snapshot(c, n)
  BY <1>2, <1>e, Moved
<1>4. e # None
  BY <1>3, DirFields
<1>5. /\ final'[s] = e /\ old'[s] = old[s] \ {c} /\ OnlyUnder(s) /\ session_name' = session_name
      /\ ServerStep("sweep")
  BY <1>c, <1>e, <1>s, <1>0 DEF OnlyUnder, Types, ServerStep
<1>6. StartingStep("sweep")
  BY <1>5, <1>s DEF StartingStep
<1>7. Remains'
  BY <1>4, <1>5, <1>s DEF Remains, ServerStep
<1>8. /\ \A d \in Dirs_of(s)' : d = e \/ d \in Dirs_of(s)
      /\ valid_backups(s)' \subseteq valid_backups(s)
      /\ c \in Dirs_of(s)
  BY <1>1, <1>2, <1>5 DEF Dirs_of, valid_backups
<1>9. Shelves'
  <2>1. \A b \in old'[s] : b.stamp < serial
    BY <1>0, <1>5 DEF Shelves
  <2>2. \A d \in Dirs_of(s)' : d.at <= changes
    BY <1>0, <1>2, <1>3, <1>8 DEF Shelves
  <2>3. complete_snapshot(final'[s], s) => \A b \in valid_backups(s)' : b.at <= final'[s].at
    BY <1>1, <1>3, <1>5, <1>8
  <2>4. UNCHANGED counters
    BY <1>5 DEF ServerStep
  <2> QED
    BY <1>5, <2>1, <2>2, <2>3, <2>4, ShelvesUnder
<1>10. renames = 0 => \A d \in Dirs_of(s)' : SameGeneration(d)
  <2>1. renames = 0 => \A d \in Dirs_of(s) : SameGeneration(d)
    BY DEF Inv, Linked
  <2> QED
    BY <1>3, <1>8, <2>1 DEF SameGeneration
<1>11. renames = 0 => \A d \in Dirs_of(session_name)' : SameGeneration(d)
  BY <1>10, <1>5, <1>s DEF Dirs_of
<1>12. /\ DOMAIN damaged' = Names
       /\ \A n \in Names : \A d \in damaged'[n] : IsDir(d)
       /\ final'[session_name] # None => IsDir(final'[session_name])
       /\ \A d \in old'[session_name] : IsDir(d)
  BY <1>0, <1>3, <1>5, <1>s DEF Types
<1> QED
  BY <1>0, <1>6, <1>7, <1>9, <1>11, <1>12, StartingRest DEF Starting

LEMMA RecoverSweepStep ==
  ASSUME Inv, RecoverSweep
  PROVE  Inv'
<1>s. PICK s \in Names : s = session_name
  BY DEF Inv, Types, RecoverSweep
<1>0. pc = "sweep" /\ pc \in Starting /\ Types /\ writers = {}
  BY DEF Inv, Starting, Threads, RecoverSweep
<1>1. final' = final /\ ServerStep("restore") /\ session_name' = session_name
  BY DEF RecoverSweep, ServerStep
<1>2. \/ \E backups \in Leftovers(valid_backups(s)), stuck \in SUBSET (old[s] \ valid_backups(s)) :
           /\ complete_snapshot(final[s], s)
           /\ old' = [old EXCEPT ![s] = backups \cup stuck]
           /\ damaged' = [damaged EXCEPT ![s] = @ \cup ((old[s] \ valid_backups(s)) \ stuck)]
      \/ UNCHANGED <<old, damaged>>
  <2>1. PICK staged \in SUBSET tmp[session_name],
             backups \in Leftovers(valid_backups(session_name)),
             stuck \in SUBSET (old[session_name] \ valid_backups(session_name)) :
          \/ /\ complete_snapshot(final[session_name], session_name)
             /\ old' = [old EXCEPT ![session_name] = backups \cup stuck]
             /\ damaged' = [damaged EXCEPT ![session_name] =
                              @ \cup ((old[session_name] \ valid_backups(session_name)) \ stuck)]
          \/ UNCHANGED <<old, damaged>>
    BY DEF RecoverSweep
  <2> QED
    BY <2>1, <1>s
<1>d. \A d \in old[s] : IsDir(d)
  BY <1>0 DEF Types
<1>3. /\ OnlyUnder(s)
      /\ \A d \in old'[s] : \E e \in old[s] : LeftOf(d, e)
      /\ complete_snapshot(final[s], s) \/ old' = old
      /\ DOMAIN damaged' = Names
      /\ \A n \in Names : \A d \in damaged'[n] : d \in damaged[n] \/ d \in old[n]
  <2>1. CASE UNCHANGED <<old, damaged>>
    BY <1>0, <1>1, <1>d, <2>1, LeftWholly DEF OnlyUnder, Types
  <2>2. ASSUME NEW backups \in Leftovers(valid_backups(s)),
               NEW stuck \in SUBSET (old[s] \ valid_backups(s)),
               complete_snapshot(final[s], s),
               old' = [old EXCEPT ![s] = backups \cup stuck],
               damaged' = [damaged EXCEPT ![s] = @ \cup ((old[s] \ valid_backups(s)) \ stuck)]
        PROVE  /\ OnlyUnder(s)
               /\ \A d \in old'[s] : \E e \in old[s] : LeftOf(d, e)
               /\ complete_snapshot(final[s], s)
               /\ DOMAIN damaged' = Names
               /\ \A n \in Names : \A d \in damaged'[n] : d \in damaged[n] \/ d \in old[n]
    <3>1. valid_backups(s) \subseteq old[s]
      BY DEF valid_backups
    <3>2. \A d \in backups : \E e \in valid_backups(s) : LeftOf(d, e)
      BY <1>d, <3>1, LeftoverIs
    <3>3. \A d \in stuck : LeftOf(d, d) /\ d \in old[s]
      BY <1>d, LeftWholly
    <3>4. old'[s] = backups \cup stuck
      BY <1>0, <2>2 DEF Types
    <3>5. \A d \in old'[s] : \E e \in old[s] : LeftOf(d, e)
      BY <3>1, <3>2, <3>3, <3>4
    <3>6. DOMAIN damaged' = Names
          /\ \A n \in Names : \A d \in damaged'[n] : d \in damaged[n] \/ d \in old[n]
      BY <1>0, <2>2 DEF Types
    <3> QED
      BY <1>0, <1>1, <2>2, <3>5, <3>6 DEF OnlyUnder, Types
  <2> QED
    BY <1>2, <2>1, <2>2
<1>4. StartingStep("restore")
  BY <1>1, <1>3, <1>s DEF StartingStep
<1>5. /\ Disk' /\ Linked'
      /\ \A n \in Names : final'[n] # None => IsDir(final'[n])
      /\ \A n \in Names : \A d \in old'[n] : IsDir(d)
  <2>1. \A n \in Names : final[n] # None => LeftOf(final[n], final[n])
    BY <1>0, LeftWholly DEF Types
  <2>2. \A n \in Names : final'[n] = None \/ (final[n] # None /\ LeftOf(final'[n], final[n]))
    BY <2>1, <1>1
  <2>3. \A n \in Names \ {s} : \A d \in old[n] : LeftOf(d, d)
    BY <1>0, LeftWholly DEF Types
  <2>4. \A n \in Names : \A d \in old'[n] : \E e \in old[n] : LeftOf(d, e)
    BY <1>3, <2>3 DEF OnlyUnder
  <2>5. DOMAIN final' = Names /\ DOMAIN old' = Names
    BY <1>3 DEF OnlyUnder
  <2>6. UNCHANGED <<counters, session_name, loaded, persisted_replays, unsettled, worker, renames>>
    BY <1>1 DEF ServerStep
  <2> QED
    BY <1>0, <2>2, <2>4, <2>5, <2>6, ShrinkStep
<1>6. Remains'
  BY <1>0, <1>1, <1>3, <1>s DEF Inv, Remains, ServerStep, complete_snapshot
<1>7. renames = 0 => \A d \in Dirs_of(session_name)' : SameGeneration(d)
  BY <1>1, <1>5, <1>s DEF Linked, SameGeneration, ServerStep
<1>8. \A n \in Names : \A d \in damaged'[n] : IsDir(d)
  BY <1>0, <1>3 DEF Types
<1>9. /\ final'[session_name] # None => IsDir(final'[session_name])
      /\ \A d \in old'[session_name] : IsDir(d)
      /\ Shelves'
  BY <1>5, <1>s DEF Disk
<1> QED
  BY <1>0, <1>3, <1>4, <1>6, <1>7, <1>8, <1>9, StartingRest DEF Starting

LEMMA RestoreStep ==
  ASSUME Inv, restore
  PROVE  Inv'
<1>s. PICK s \in Names : s = session_name
  BY DEF Inv, Types, restore
<1>0. pc \in Starting /\ Types /\ Disk /\ Shelves
  BY DEF Inv, Starting, Disk, restore
<1>1. ASSUME NEW next \in {"running", "refused"}, ServerStep(next), UNCHANGED disk
      PROVE  Inv'
  <2> USE <1>1 DEF disk
  <2>1. StartingStep(next)
    BY <1>0 DEF StartingStep, OnlyUnder, Types
  <2>2. Remains'
    BY DEF Remains, ServerStep
  <2>3. Shelves'
    BY <1>0 DEF Shelves, ServerStep, counters, Dirs_of, valid_backups
  <2>4. renames = 0 => \A d \in Dirs_of(session_name)' : SameGeneration(d)
    BY <1>0, <1>s DEF Inv, Linked, ServerStep, Dirs_of
  <2>5. /\ DOMAIN damaged' = Names
        /\ \A n \in Names : \A d \in damaged'[n] : IsDir(d)
        /\ final'[session_name] # None => IsDir(final'[session_name])
        /\ \A d \in old'[session_name] : IsDir(d)
    BY <1>0, <1>s DEF Types
  <2> QED
    BY <1>0, <2>1, <2>2, <2>3, <2>4, <2>5, StartingRest DEF Starting
<1>2. ASSUME NEW dir, dir = final[session_name], dir # None, dir.meta,
             NEW whole, whole = complete_snapshot(dir, session_name),
             pc' = "running", NEW failed \in SUBSET DOMAIN dir.wanted,
             NEW started, started = DOMAIN dir.wanted \ failed,
             unstarted' = failed, panes' = Restored(dir, started),
             opened' = [p \in Panes |-> IF p \in started THEN 1 ELSE 0],
             dirty_generation' = Cardinality(started) + (IF whole THEN 0 ELSE 1),
             snapshot_generation' = Cardinality(started),
             persisted_replays' = NothingPersisted,
             savedAs' = session_name,
             damaged' = IF whole THEN damaged
                        ELSE [damaged EXCEPT ![session_name] = @ \cup {dir}],
             UNCHANGED <<counters, session_name, in_flight, unsettled, thread, disposition, worker,
                         final, tmp, old, deaths, renames, lost, late, undeleted, forgotten>>
      PROVE  Inv'
  <2> USE DEF counters, worker, NothingPersisted
  <2>0. /\ writers = {} /\ done = None /\ unsettled = 0 /\ in_flight = 0
        /\ session_name \notin forgotten
    BY <1>0 DEF Inv, Threads, Forgetting, Starting
  <2>1. IsDir(dir)
    BY <1>0, <1>2, <1>s DEF Types
  <2>2. /\ DOMAIN dir.wanted \subseteq Panes /\ \A p \in DOMAIN dir.wanted : dir.wanted[p] \in Content
        /\ \A p \in DOMAIN dir.files : dir.files[p] \in Content
        /\ DOMAIN dir.files \subseteq DOMAIN dir.wanted
    BY <2>1, DirFields
  <2>s. started \subseteq Panes /\ started \subseteq DOMAIN dir.wanted
    BY <1>2, <2>2
  <2>3. Cardinality(started) \in Nat
    BY <2>s, BoundsAssumption, FS_Subset, FS_CardinalityType
  <2>4. /\ DOMAIN panes' = Panes
        /\ \A p \in Panes \ started : panes'[p] = None
        /\ \A p \in started :
             /\ panes'[p] \in Content
             /\ p \in DOMAIN dir.files => panes'[p].text = dir.files[p].text
    BY <1>2, <2>2, <2>s DEF Restored, Content
  <2>5. Live' = started
    BY <2>s, <2>4, SomeContent DEF Live
  <2>6. Types'
    <3>1. DOMAIN damaged' = Names /\ \A n \in Names : \A d \in damaged'[n] : IsDir(d)
      BY <1>0, <1>2, <1>s, <2>1 DEF Types
    <3>2. dirty_generation' \in Nat /\ snapshot_generation' \in Nat
      BY <1>2, <2>3
    <3>3. DOMAIN persisted_replays' = {} /\ \A p \in Panes : panes'[p] = None \/ panes'[p] \in Content
      BY <1>2, <2>4
    <3>4. session_name # None
      BY <1>s, BoundsAssumption
    <3> QED
      BY <1>0, <1>2, <1>s, <2>0, <2>2, <2>4, <3>1, <3>2, <3>3, <3>4 DEF Types
  <2>7. Threads'
    BY <1>2, <2>0 DEF Threads, Starting
  <2>8. Disk'
    BY <1>0, <1>2, <2>0 DEF Disk, Shelves, Dirs_of, valid_backups
  <2>9. Remains'
    BY <1>2 DEF Remains
  <2>10. Forgetting'
    BY <1>2, <2>0 DEF Inv, Forgetting
  <2>11. Marks'
    <3>1. snapshot_generation' <= dirty_generation'
      BY <1>2, <2>3
    <3>2. ASSUME ~ snapshot_dirty'
          PROVE  Saved(final[savedAs], savedAs)'
      <4>1. whole
        BY <1>2, <2>3, <3>2 DEF snapshot_dirty
      <4>2. complete_snapshot(dir, session_name) /\ DOMAIN dir.wanted \subseteq DOMAIN dir.files
        BY <4>1, <1>2 DEF complete_snapshot
      <4>3. \A p \in Live' : panes'[p].text = dir.files[p].text
        BY <2>4, <2>5, <2>s, <4>2
      <4>4. final'[savedAs'] = dir /\ savedAs' = session_name
        BY <1>2
      <4>5. complete_snapshot(final[savedAs], savedAs)'
        BY <4>2, <4>4 DEF complete_snapshot
      <4>6. DOMAIN dir.wanted \ unstarted' = Live'
        BY <1>2, <2>5
      <4> QED
        BY <4>3, <4>4, <4>5, <4>6 DEF Saved
    <3> QED
      BY <1>2, <2>0, <3>1, <3>2 DEF Marks
  <2>12. Linked'
    BY <1>2, <2>0 DEF Inv, Linked, Dirs_of
  <2>13. Followed'
    BY <1>2, <2>0, <2>5, <2>s DEF Followed
  <2> QED
    BY <2>6, <2>7, <2>8, <2>9, <2>10, <2>11, <2>12, <2>13 DEF Inv
<1>3. CASE \E next \in {"running", "refused"} : ServerStep(next) /\ UNCHANGED disk
  BY <1>1, <1>3
<1>4. CASE ~ \E next \in {"running", "refused"} : ServerStep(next) /\ UNCHANGED disk
  <2> DEFINE dir == final[session_name]
             whole == complete_snapshot(dir, session_name)
  <2>1. PICK failed \in SUBSET DOMAIN dir.wanted :
          /\ unstarted' = failed
          /\ panes' = Restored(dir, DOMAIN dir.wanted \ failed)
          /\ opened' = [p \in Panes |-> IF p \in DOMAIN dir.wanted \ failed THEN 1 ELSE 0]
          /\ dirty_generation' = Cardinality(DOMAIN dir.wanted \ failed) + (IF whole THEN 0 ELSE 1)
          /\ snapshot_generation' = Cardinality(DOMAIN dir.wanted \ failed)
    BY <1>4 DEF restore
  <2>2. /\ dir # None /\ dir.meta /\ pc' = "running"
        /\ persisted_replays' = NothingPersisted
        /\ savedAs' = session_name
        /\ damaged' = IF whole THEN damaged
                      ELSE [damaged EXCEPT ![session_name] = @ \cup {dir}]
        /\ UNCHANGED <<counters, session_name, in_flight, unsettled, thread, disposition, worker,
                       final, tmp, old, deaths, renames, lost, late, undeleted, forgotten>>
    BY <1>4 DEF restore
  <2>3. PICK d, w, started : /\ d = dir /\ w = whole
                             /\ started = DOMAIN dir.wanted \ failed
    OBVIOUS
  <2> HIDE DEF dir, whole
  <2> QED
    BY <2>1, <2>2, <2>3, <1>2 DEF dir, whole
<1> QED
  BY <1>3, <1>4

----------------------------------------------------------------------------
(* Files vanish                                                            *)

LEMMA VanishStep ==
  ASSUME Inv, NEW n \in Names, Vanish(n)
  PROVE  Inv'
<1> USE DEF counters, server, loaded, worker
<1>0. /\ Types /\ final[n] # None /\ DOMAIN final = Names /\ DOMAIN old = Names
      /\ \A m \in Names : final[m] # None => IsDir(final[m])
      /\ \A m \in Names : \A d \in old[m] : IsDir(d)
  BY DEF Inv, Types, Vanish
<1>a. /\ UNCHANGED <<counters, server, worker, old, damaged, renames, late, undeleted, forgotten, savedAs>>
      /\ lost' = lost \cup {n}
  BY DEF Vanish
<1>b. /\ DOMAIN final' = Names
      /\ \A m \in Names \ {n} : final'[m] = final[m]
      /\ LeftOf(final'[n], final[n])
  <2>1. ASSUME NEW p \in DOMAIN final[n].files
        PROVE  LeftOf(Cut(final[n], DOMAIN final[n].files \ {p}), final[n])
    BY <1>0, CutDir
  <2>2. LeftOf(Torn(final[n]), final[n])
    BY <1>0, LeftWholly, TornLeft
  <2>3. \/ \E p \in DOMAIN final[n].files :
             final' = [final EXCEPT ![n] = Cut(final[n], DOMAIN final[n].files \ {p})]
        \/ final' = [final EXCEPT ![n] = Torn(final[n])]
    BY DEF Vanish
  <2> QED
    BY <1>0, <2>1, <2>2, <2>3
<1>c. final'[n] # None /\ final'[n].wanted = final[n].wanted
  BY <1>b, DirFields DEF LeftOf
<1>d. \A m \in Names : m \notin lost' => final'[m] = final[m] /\ m \notin lost
  BY <1>a, <1>b
<1>f. \A m \in Names : \A captured : OnDisk(m, captured) => OnDisk(m, captured)'
  BY <1>0, <1>b, <1>c, <1>d DEF OnDisk, complete_snapshot
<1>3. /\ Disk' /\ Linked'
      /\ \A m \in Names : final'[m] # None => IsDir(final'[m])
      /\ \A m \in Names : \A d \in old'[m] : IsDir(d)
  <2>1. \A m \in Names : final[m] # None => LeftOf(final[m], final[m])
    BY <1>0, LeftWholly
  <2>2. \A m \in Names : final'[m] = None \/ (final[m] # None /\ LeftOf(final'[m], final[m]))
    BY <1>0, <1>b, <2>1
  <2>3. \A m \in Names : \A d \in old'[m] : \E e \in old[m] : LeftOf(d, e)
    BY <1>0, <1>a, LeftWholly
  <2>4. \A w \in writers : \A b, c \in Backups(w)' : b = c
    BY <1>a, BackupsLeft
  <2>5. ASSUME NEW w \in writers, w.at \in {"sync", "drop", "dropped"}
        PROVE  OnDisk(w.session, w.captured)' \/ Deleting(w.session)'
    <3>1. w.session \in Names
      BY WriterFacts
    <3>2. OnDisk(w.session, w.captured) \/ Deleting(w.session)
      BY <2>5 DEF Inv, Disk, Progress
    <3> QED
      BY <3>1, <3>2, <1>a, <1>f DEF Deleting
  <2>6. DOMAIN old' = Names
    BY <1>0, <1>a
  <2> QED
    BY <1>a, <1>b, <2>2, <2>3, <2>4, <2>5, <2>6, ShrinkStep
<1>1. Types'
  BY <1>0, <1>a, <1>b, <1>3 DEF Types
<1>2. Threads'
  BY <1>a DEF Inv, Threads, Starting
<1>4. Remains'
  BY <1>0, <1>a, <1>b, <1>c DEF Inv, Types, Remains
<1>5. Forgetting'
  <2>1. pc = "sweep_deleted" => session_name \in Names
    BY <1>0 DEF Types
  <2>2. \A m \in Names : final[m] = None => final'[m] = None
    BY <1>0, <1>b
  <2> QED
    BY <1>a, <2>1, <2>2 DEF Inv, Forgetting
<1>6. Marks'
  <2>1. done # None => done.session \in Names
    BY <1>0 DEF Types, IsOutcome
  <2>2. savedAs # None => savedAs \in Names
    BY <1>0 DEF Types
  <2>3. \A w \in writers : Current(w)'
    BY <1>a DEF Inv, Marks, Current, Live
  <2>4. done # None => Current(done)'
    BY <1>a DEF Inv, Marks, Current, Live
  <2>5. done # None /\ done.ok /\ pc \notin {"delete", "sweep_deleted", "exit"} =>
          OnDisk(done.session, done.captured)'
    <3>1. done # None /\ done.ok /\ pc \notin {"delete", "sweep_deleted", "exit"} =>
            OnDisk(done.session, done.captured) /\ done.session \in Names
      BY <2>1 DEF Inv, Marks
    <3>2. done' = done
      BY <1>a
    <3> QED
      BY <3>1, <3>2, <1>f DEF OnDisk
  <2>6. pc = "running" /\ ~ snapshot_dirty /\ savedAs # None /\ savedAs \notin lost' =>
          Saved(final'[savedAs], savedAs)
    BY <2>2, <1>d DEF Inv, Marks
  <2>7. \A dir, m : Saved(dir, m) => Saved(dir, m)'
    BY <1>a DEF Saved, complete_snapshot, Live, MayBeAnothers
  <2> QED
    BY <2>3, <2>4, <2>5, <2>6, <2>7, <1>a DEF Inv, Marks, snapshot_dirty, OnDisk, Saved, Current
<1>7. Followed'
  BY <1>a DEF Inv, Followed, Follows, Behind, Live
<1> QED
  BY <1>1, <1>2, <1>3, <1>4, <1>5, <1>6, <1>7 DEF Inv

----------------------------------------------------------------------------
(* The invariant, and what follows from it                                 *)

LEMMA InitInv == Init => Inv
<1> SUFFICES ASSUME Init
             PROVE  Inv
  OBVIOUS
<1> USE DEF Init, NoPanes, NothingPersisted, NeverOpened
<1>1. Types
  BY BoundsAssumption DEF Types
<1>2. Threads
  BY DEF Threads
<1>3. Disk
  BY DEF Disk, Shelves, Dirs_of, complete_snapshot
<1>4. Remains
  BY DEF Remains
<1>5. Forgetting
  BY DEF Forgetting
<1>6. Marks
  BY DEF Marks
<1>7. Followed
  BY DEF Followed, Live
<1>8. Linked
  BY DEF Linked, Dirs_of
<1> QED
  BY <1>1, <1>2, <1>3, <1>4, <1>5, <1>6, <1>7, <1>8 DEF Inv

LEMMA WriteFrame ==
  ASSUME NEW w, Write(w)
  PROVE  WriterFrame
BY DEF Write, WriterFrame

LEMMA WriteStep ==
  ASSUME Inv, NEW w \in writers, Write(w)
  PROVE  Inv'
<1>1. WriterFrame
  BY WriteFrame
<1> QED
  BY <1>1, StageStep, AsideStep, PublishStep, SyncParentStep, DropBackupStep DEF Write

LEMMA LoopStep ==
  ASSUME Inv, Loop
  PROVE  Inv'
<1>1. CASE drain_snapshot_results
  <2>1. in_flight' = 0
    BY <1>1 DEF drain_snapshot_results, Inv, Threads
  <2> QED
    BY <1>1, <2>1, SettleStep DEF drain_snapshot_results
<1>2. CASE maybe_snapshot
  <2>1. in_flight = 0 /\ (unsettled = 0 \/ thread = "failed")
    BY <1>2 DEF maybe_snapshot, busy, Inv, Threads, Types
  <2> QED
    BY <1>2, <2>1, DispatchStep DEF maybe_snapshot
<1>3. CASE Exit \/ Refuse
  BY <1>3, EndedStep DEF Exit, Refuse, bounds
<1> QED
  BY <1>1, <1>2, <1>3, FinishStep, LastSnapshotStep, DeleteStep, RemoveStagingStep,
     RecoverSelectStep, RecoverRenameStep, RecoverSweepStep, RestoreStep DEF Loop

LEMMA NextInv == Inv /\ [Next]_vars => Inv'
<1> SUFFICES ASSUME Inv, [Next]_vars
             PROVE  Inv'
  OBVIOUS
<1>1. ASSUME NEW p \in Panes, Spawn(p)
      PROVE  Inv'
  BY <1>1, SpawnStep
<1>2. ASSUME NEW p \in Panes, Output(p)
      PROVE  Inv'
  BY <1>2, OutputStep
<1>3. ASSUME NEW p \in Panes, Close(p)
      PROVE  Inv'
  BY <1>3, CloseStep
<1>4. ASSUME NEW n \in Names, Rename(n) \/ Vanish(n)
      PROVE  Inv'
  BY <1>4, RenameStep, VanishStep
<1>5. ASSUME NEW n \in Names, NEW how \in {"stop", "fresh"}, Start(n, how)
      PROVE  Inv'
  BY <1>5, StartStep
<1>6. ASSUME NEW how \in {"stop", "delete"}, BeginShutdown(how)
      PROVE  Inv'
  BY <1>6, BeginShutdownStep
<1>7. ASSUME NEW w \in writers, Write(w)
      PROVE  Inv'
  BY <1>7, WriteStep
<1>8. CASE Loop \/ CaptureFails
  BY <1>8, LoopStep, CaptureFailsStep
<1>9. CASE Crash
  BY <1>9, EndedStep DEF Crash
<1>10. CASE UNCHANGED vars
  <2> USE <1>10 DEF vars, counters, server, loaded, worker, disk, bounds, history
  <2>1. Types'
    BY DEF Inv, Types
  <2>2. Threads'
    BY DEF Inv, Threads, Starting
  <2>3. Disk'
    BY DEF Inv, Disk, Shelves, Progress, Dirs_of, valid_backups, Backups, OnDisk, Deleting
  <2>4. Remains'
    BY DEF Inv, Remains
  <2>5. Forgetting'
    BY DEF Inv, Forgetting
  <2>6. Marks'
    BY DEF Inv, Marks, Current, OnDisk, Saved, Live, MayBeAnothers, snapshot_dirty
  <2>7. Followed'
    BY DEF Inv, Followed, Follows, Behind, Live
  <2>8. Linked'
    BY DEF Inv, Linked, Dirs_of, ReplayFiles, SameReplay, Faithful, Behind, Live
  <2> QED
    BY <2>1, <2>2, <2>3, <2>4, <2>5, <2>6, <2>7, <2>8 DEF Inv
<1> QED
  BY <1>1, <1>2, <1>3, <1>4, <1>5, <1>6, <1>7, <1>8, <1>9, <1>10 DEF Next

LEMMA Invariance == Spec => []Inv
BY InitInv, NextInv, PTL DEF Spec

\* At most one writer thread works on the session, however long a write takes
\* and whatever the loop or a shutdown does meanwhile (maybe_snapshot,
\* snapshot_before_shutdown).
THEOREM WritersSafe == Spec => []OneWriter
<1>1. Inv => OneWriter
  <2>1. SUFFICES ASSUME Inv
                 PROVE  OneWriter
    OBVIOUS
  <2>2. \A v, w \in writers : v = w
    BY <2>1 DEF Inv, Threads
  <2>3. CASE writers = {}
    BY <2>3, FS_EmptySet DEF OneWriter
  <2>4. ASSUME NEW w \in writers
        PROVE  OneWriter
    <3>1. writers = {w}
      BY <2>2
    <3>2. Cardinality({w}) = 1
      BY FS_Singleton
    <3> QED
      BY <3>1, <3>2 DEF OneWriter
  <2> QED
    BY <2>3, <2>4
<1> QED
  BY <1>1, Invariance, PTL

\* A server that finds nothing published has no backup left to find either
\* (recover_interrupted_snapshot).
THEOREM RemainsFound == Spec => []NeverEmptyOverRemains
<1>1. Inv => NeverEmptyOverRemains
  BY DEF Inv, Remains, NeverEmptyOverRemains
<1> QED
  BY <1>1, Invariance, PTL

\* A deleted session leaves nothing to restore, unless a write outlived the
\* grace of its shutdown or a directory resisted its removal (delete_snapshot,
\* remove_staging_dirs).
THEOREM ForgottenSafe == Spec => []ForgottenIsGone
<1>1. Inv => ForgottenIsGone
  <2>1. SUFFICES ASSUME Inv, NEW n \in forgotten \ (late \cup undeleted)
                 PROVE  snapshot_recovery_candidate(n) = None
    BY DEF ForgottenIsGone
  <2>2. n \in Names /\ final[n] = None /\ old[n] = {}
    BY <2>1 DEF Inv, Forgetting
  <2> QED
    BY <2>1, <2>2, CandidateIs DEF Inv
<1> QED
  BY <1>1, Invariance, PTL

\* What the server believes of its disk is true: clean means that every pane's
\* content is on disk, but for the panes CleanIsSaved names, and what is linked
\* is of the generation it was linked for (drain_snapshot_results, restore).
THEOREM MarksSafe == Spec => []SavedMarksTrue
<1>1. Inv => SavedMarksTrue
  <2> SUFFICES ASSUME Inv
               PROVE  SavedMarksTrue
    OBVIOUS
  <2>1. TypeOK
    BY BoundsAssumption DEF Inv, Types, TypeOK
  <2>2. CleanIsSaved
    <3>1. SUFFICES ASSUME pc = "running", ~ snapshot_dirty, savedAs = session_name,
                          session_name \notin lost
                   PROVE  LET dir == snapshot_recovery_candidate(session_name) IN
                            /\ complete_snapshot(dir, session_name)
                            /\ DOMAIN dir.wanted \ unstarted = Live
                            /\ \A p \in Live :
                                 \/ dir.files[p].text = panes[p].text
                                 \/ MayBeAnothers(p) /\ dir.wanted[p] = panes[p]
      BY DEF CleanIsSaved
    <3>2. session_name \in Names /\ session_name # None
      BY <3>1 DEF Inv, Types
    <3>3. Saved(final[session_name], session_name)
      BY <3>1, <3>2 DEF Inv, Marks
    <3>4. snapshot_recovery_candidate(session_name) = final[session_name]
      BY <3>2, <3>3, CandidateIs DEF Inv, Saved
    <3> QED
      BY <3>3, <3>4 DEF Saved
  <2>3. ReuseSameGeneration
    BY DEF Inv, Linked, Dirs_of, SameGeneration, ReuseSameGeneration
  <2> QED
    BY <2>1, <2>2, <2>3 DEF SavedMarksTrue
<1> QED
  BY <1>1, Invariance, PTL

----------------------------------------------------------------------------
(* What would be restored never gets older                                 *)

Excused(n) == Deleting(n) \/ n \in lost'

\* Every whole directory of n stays, or one at least as recent takes its place.
KeptUnder(n) ==
  \A d \in Dirs_of(n) : complete_snapshot(d, n) =>
    \E e \in Dirs_of(n)' : complete_snapshot(e, n) /\ d.at <= e.at

NoOlder(n) == Age(n)' < Age(n) => Excused(n)

LEMMA KeptAge ==
  ASSUME Inv, Inv', NEW n \in Names, KeptUnder(n)
  PROVE  NoOlder(n)
<1>1. /\ Age(n) \in Nat
      /\ Age(n) = 0 \/ \E d \in Dirs_of(n) : complete_snapshot(d, n) /\ d.at = Age(n)
  BY AgeIs DEF Inv, AgeIsNewest
<1>2. (Types /\ Disk)' => AgeIsNewest'
  BY AgeIs, PTL
<1>3. Types' /\ Disk'
  BY DEF Inv
<1>4. /\ Age(n)' \in Nat
      /\ \A d \in Dirs_of(n)' : complete_snapshot(d, n) => d.at <= Age(n)'
  BY <1>2, <1>3 DEF AgeIsNewest
<1>5. \A d \in Dirs_of(n)' : d.at \in Nat
  <2>1. \A d \in Dirs_of(n)' : IsDir(d)
    BY <1>3 DEF Types, Dirs_of
  <2> QED
    BY <2>1, DirFields
<1>6. \A d \in Dirs_of(n) : d.at \in Nat
  BY DirsTyped DEF Inv
<1> QED
  BY <1>1, <1>4, <1>5, <1>6 DEF KeptUnder, NoOlder

\* Nothing happens under n.
LEMMA SameKept ==
  ASSUME Inv, NEW n \in Names, final'[n] = final[n], old'[n] = old[n]
  PROVE  KeptUnder(n)
<1>1. Dirs_of(n)' = Dirs_of(n)
  BY DEF Dirs_of
<1>2. \A d \in Dirs_of(n) : d.at \in Nat
  BY DirsTyped DEF Inv
<1> QED
  BY <1>1, <1>2 DEF KeptUnder

LEMMA DiskKept ==
  ASSUME Inv, NEW n \in Names, UNCHANGED <<final, old>>
  PROVE  KeptUnder(n)
BY SameKept

LEMMA WriteKept ==
  ASSUME Inv, NEW w \in writers, Write(w), NEW n \in Names
  PROVE  KeptUnder(n) \/ Excused(n)
<1>0. /\ w.session \in Names /\ w.id \in Nat /\ Progress(w) /\ Shelves
      /\ DOMAIN final = Names /\ DOMAIN old = Names
  BY WriterFacts DEF Inv, Disk, Types
<1>a. \A d \in Dirs_of(n) : d.at \in Nat /\ IsDir(d)
  BY DirsTyped DEF Inv
<1>b. UNCHANGED <<pc, session_name>>
  BY DEF Write, server
<1>1. CASE n # w.session
  <2>1. final'[n] = final[n] /\ old'[n] = old[n]
    BY <1>0, <1>1 DEF Write, Stage, Aside, Publish, SyncParent, DropBackup, DroppedBackup, disk
  <2> QED
    BY <2>1, SameKept
<1>2. CASE n = w.session
  <2>1. CASE UNCHANGED <<final, old>>
    BY <2>1, DiskKept
  <2>2. CASE /\ final[n] # None
             /\ old' = [old EXCEPT ![n] = @ \cup {[final[n] EXCEPT !.stamp = w.id]}]
    <3>e. PICK e : e = [final[n] EXCEPT !.stamp = w.id]
      OBVIOUS
    <3>1. old'[n] = old[n] \cup {e}
      BY <1>0, <2>2, <3>e
    <3>2. IsDir(final[n])
      BY <2>2 DEF Inv, Types
    <3>3. e.at = final[n].at /\ \A m : complete_snapshot(e, m) <=> complete_snapshot(final[n], m)
      BY <1>0, <3>2, <3>e, Moved
    <3>4. e \in Dirs_of(n)' /\ old[n] \subseteq Dirs_of(n)'
      BY <3>1 DEF Dirs_of
    <3>5. \A d \in Dirs_of(n) : d \in old[n] \/ d = final[n]
      BY DEF Dirs_of
    <3> QED
      BY <1>a, <3>3, <3>4, <3>5 DEF KeptUnder
  <2>3. CASE /\ final[n] = None
             /\ UNCHANGED old
    <3>1. Dirs_of(n) \subseteq Dirs_of(n)'
      BY <2>3 DEF Dirs_of
    <3> QED
      BY <1>a, <3>1 DEF KeptUnder
  <2>4. ASSUME final[n] = None, NEW back \in SUBSET Backups(w), back # {},
               old' = [old EXCEPT ![n] = @ \ back],
               final' = [final EXCEPT ![n] = CHOOSE b \in back : TRUE]
        PROVE  KeptUnder(n)
    <3>b. PICK b \in back : b = CHOOSE c \in back : TRUE
      BY <2>4
    <3>1. back = {b} /\ b \in old[n]
      BY <1>0, <1>2, <2>4 DEF Progress, Backups
    <3>2. b # None
      BY <3>1, <1>a, DirFields DEF Dirs_of
    <3>3. final'[n] = b /\ old'[n] = old[n] \ {b}
      BY <1>0, <2>4, <3>b, <3>1
    <3>4. Dirs_of(n) \subseteq Dirs_of(n)'
      BY <2>4, <3>2, <3>3 DEF Dirs_of
    <3> QED
      BY <1>a, <3>4 DEF KeptUnder
  <2>5. CASE /\ w.at \in {"drop", "dropped"}
             /\ UNCHANGED <<final, lost>>
             /\ \/ old' = [old EXCEPT ![n] = (@ \ Backups(w)) \cup {Torn(b) : b \in Backups(w)}]
                \/ old' = [old EXCEPT ![n] = @ \ Backups(w)]
    <3>1. old[n] \ Backups(w) \subseteq old'[n]
      BY <1>0, <2>5
    <3>2. Dirs_of(n) \ Backups(w) \subseteq Dirs_of(n)'
      BY <2>5, <3>1 DEF Dirs_of
    <3>3. CASE Backups(w) = {}
      BY <3>2, <3>3, <1>a DEF KeptUnder
    <3>4. CASE OnDisk(n, w.captured) /\ n \notin lost
      <4>1. complete_snapshot(final[n], n) /\ final[n] \in Dirs_of(n)' /\ final[n] # None
        BY <2>5, <3>4 DEF OnDisk, Dirs_of
      <4>2. \A b \in valid_backups(n) : b.at <= final[n].at
        BY <1>0, <4>1 DEF Shelves
      <4>3. \A d \in Backups(w) : complete_snapshot(d, n) => d \in valid_backups(n)
        BY <1>2 DEF Backups, valid_backups
      <4> QED
        BY <1>a, <3>2, <4>1, <4>2, <4>3 DEF KeptUnder
    <3>5. CASE n \in lost
      BY <2>5, <3>5 DEF Excused
    <3>6. CASE Deleting(n)
      BY <3>6 DEF Excused
    <3> QED
      BY <1>0, <1>2, <2>5, <3>3, <3>4, <3>5, <3>6 DEF Progress
  <2>6. CASE Publish(w)
    <3>1. final[n] = None
      BY <1>0, <1>2, <2>6 DEF Publish, Progress
    <3>2. ASSUME NEW back \in SUBSET Backups(w),
                 old' = [old EXCEPT ![w.session] = @ \ back],
                 final' = IF back = {} THEN final
                          ELSE [final EXCEPT ![w.session] = CHOOSE b \in back : TRUE]
          PROVE  KeptUnder(n)
      <4>1. CASE back = {}
        <5>1. final'[n] = final[n] /\ old'[n] = old[n]
          BY <1>0, <1>2, <3>2, <4>1
        <5> QED
          BY <5>1, SameKept
      <4>2. CASE back # {}
        BY <1>2, <2>4, <3>1, <3>2, <4>2
      <4> QED
        BY <4>1, <4>2
    <3> QED
      BY <2>3, <2>6, <3>1, <3>2 DEF Publish
  <2>7. CASE Stage(w) \/ SyncParent(w)
    BY <2>1, <2>7 DEF Stage, SyncParent, disk
  <2>8. CASE Aside(w)
    BY <1>2, <2>1, <2>2, <2>8 DEF Aside
  <2>9. CASE DropBackup(w) \/ DroppedBackup(w)
    BY <1>2, <2>1, <2>5, <2>9 DEF DropBackup, DroppedBackup
  <2> QED
    BY <2>6, <2>7, <2>8, <2>9 DEF Write
<1> QED
  BY <1>1, <1>2

LEMMA LoopKept ==
  ASSUME Inv, Loop, NEW n \in Names
  PROVE  KeptUnder(n) \/ Excused(n)
<1>0. Types /\ Disk /\ Shelves /\ DOMAIN final = Names /\ DOMAIN old = Names
  BY DEF Inv, Disk, Types
<1>a. \A d \in Dirs_of(n) : d.at \in Nat /\ IsDir(d)
  BY DirsTyped DEF Inv
<1>1. CASE UNCHANGED <<final, old>>
  BY <1>1, DiskKept
<1>2. CASE delete_snapshot \/ remove_staging_dirs
  <2>1. n # session_name => final'[n] = final[n] /\ old'[n] = old[n]
    BY <1>0, <1>2 DEF delete_snapshot, remove_staging_dirs
  <2>2. pc \in {"delete", "sweep_deleted"} /\ disposition # "stop"
    BY <1>2 DEF delete_snapshot, remove_staging_dirs, Inv, Threads
  <2> QED
    BY <2>1, <2>2, SameKept DEF Excused, Deleting
<1>3. CASE RecoverSelect
  <2>1. CASE UNCHANGED disk
    BY <1>1, <2>1 DEF disk
  <2>2. CASE /\ snapshot_recovery_candidate(session_name) # final[session_name]
             /\ final' = [final EXCEPT ![session_name] = None]
             /\ UNCHANGED old
    <3>1. CASE n # session_name
      BY <1>0, <2>2, <3>1, SameKept
    <3>2. CASE n = session_name
      <4>1. ~ complete_snapshot(final[n], n)
        BY <1>0, <2>2, <3>2, CandidateIs
      <4>2. old[n] \subseteq Dirs_of(n)'
        BY <2>2 DEF Dirs_of
      <4>3. \A d \in Dirs_of(n) : d \in old[n] \/ d = final[n]
        BY DEF Dirs_of
      <4> QED
        BY <1>a, <4>1, <4>2, <4>3 DEF KeptUnder
    <3> QED
      BY <3>1, <3>2
  <2> QED
    BY <1>3, <2>1, <2>2 DEF RecoverSelect
<1>4. CASE RecoverRename
  <2>c. PICK c : c = snapshot_recovery_candidate(session_name)
    OBVIOUS
  <2>e. PICK e : e = [c EXCEPT !.stamp = 0]
    OBVIOUS
  <2>1. /\ final' = [final EXCEPT ![session_name] = e]
        /\ old' = [old EXCEPT ![session_name] = @ \ {c}]
    BY <1>4, <2>c, <2>e DEF RecoverRename
  <2>2. CASE n # session_name
    <3>1. final'[n] = final[n] /\ old'[n] = old[n]
      BY <1>0, <2>1, <2>2
    <3> QED
      BY <3>1, SameKept
  <2>3. CASE n = session_name
    <3>1. final[n] = None /\ old[n] # {}
      BY <1>4, <2>3 DEF RecoverRename, Inv, Remains
    <3>2. c \in old[n]
      BY <1>0, <2>3, <2>c, <3>1, CandidateIs
    <3>3. IsDir(c)
      BY <1>0, <3>2 DEF Types
    <3>4. IsDir(e) /\ e.at = c.at /\ \A m : complete_snapshot(e, m) <=> complete_snapshot(c, m)
      BY <2>e, <3>3, Moved
    <3>5. final'[n] = e /\ old'[n] = old[n] \ {c} /\ e # None
      BY <1>0, <2>1, <2>3, <3>4, DirFields
    <3>6. e \in Dirs_of(n)' /\ \A d \in Dirs_of(n) : d = c \/ d \in Dirs_of(n)'
      BY <3>1, <3>5 DEF Dirs_of
    <3>7. c.at \in Nat
      BY <3>3, DirFields
    <3> QED
      BY <1>a, <3>4, <3>6, <3>7 DEF KeptUnder
  <2> QED
    BY <2>2, <2>3
<1>5. CASE RecoverSweep
  <2>1. final' = final
    BY <1>5 DEF RecoverSweep
  <2>2. CASE UNCHANGED old
    BY <1>1, <2>1, <2>2
  <2>3. CASE /\ complete_snapshot(final[session_name], session_name)
             /\ \E left : old' = [old EXCEPT ![session_name] = left]
    <3>1. CASE n # session_name
      BY <1>0, <2>1, <2>3, <3>1, SameKept
    <3>2. CASE n = session_name
      <4>1. complete_snapshot(final[n], n) /\ final[n] # None /\ final[n] \in Dirs_of(n)'
        BY <2>1, <2>3, <3>2 DEF Dirs_of, complete_snapshot
      <4>2. \A d \in Dirs_of(n) : complete_snapshot(d, n) => d = final[n] \/ d \in valid_backups(n)
        BY DEF Dirs_of, valid_backups
      <4>3. \A b \in valid_backups(n) : b.at <= final[n].at
        BY <1>0, <4>1 DEF Shelves
      <4> QED
        BY <1>a, <4>1, <4>2, <4>3 DEF KeptUnder
    <3> QED
      BY <3>1, <3>2
  <2> QED
    BY <1>5, <2>2, <2>3 DEF RecoverSweep
<1>6. CASE restore
  BY <1>1, <1>6 DEF restore, disk
<1>7. CASE \/ drain_snapshot_results \/ maybe_snapshot \/ finish_snapshots \/ LastSnapshot
           \/ Exit \/ Refuse
  BY <1>1, <1>7 DEF drain_snapshot_results, maybe_snapshot, finish_snapshots, LastSnapshot,
     dispatch_snapshot, Exit, Refuse, disk
<1> QED
  BY <1>2, <1>3, <1>4, <1>5, <1>6, <1>7 DEF Loop

LEMMA NextNoOlder ==
  ASSUME Inv, Inv', [Next]_vars, NEW n \in Names
  PROVE  NoOlder(n)
<1>1. CASE UNCHANGED <<final, old>>
  BY <1>1, DiskKept, KeptAge
<1>2. ASSUME NEW w \in writers, Write(w)
      PROVE  NoOlder(n)
  BY <1>2, WriteKept, KeptAge DEF NoOlder
<1>3. CASE Loop
  BY <1>3, LoopKept, KeptAge DEF NoOlder
<1>4. ASSUME NEW m \in Names, Vanish(m)
      PROVE  NoOlder(n)
  <2>1. CASE m = n
    BY <1>4, <2>1 DEF Vanish, NoOlder, Excused
  <2>2. CASE m # n
    <3>1. final'[n] = final[n] /\ old'[n] = old[n]
      BY <1>4, <2>2 DEF Vanish, Inv, Types
    <3> QED
      BY <3>1, SameKept, KeptAge
  <2> QED
    BY <2>1, <2>2
<1>5. CASE UNCHANGED vars
  BY <1>1, <1>5 DEF vars, disk
<1>6. ASSUME NEW p \in Panes, Spawn(p) \/ Output(p) \/ Close(p)
      PROVE  UNCHANGED <<final, old>>
  BY <1>6 DEF Spawn, Output, Changed, Close, disk
<1>7. ASSUME NEW m \in Names, Rename(m) \/ \E how \in {"stop", "fresh"} : Start(m, how)
      PROVE  UNCHANGED <<final, old>>
  BY <1>7 DEF Rename, Start, disk
<1>8. CASE CaptureFails \/ Crash \/ \E how \in {"stop", "delete"} : BeginShutdown(how)
  BY <1>1, <1>8 DEF CaptureFails, Crash, BeginShutdown, disk
<1> QED
  BY <1>1, <1>2, <1>3, <1>4, <1>5, <1>6, <1>7, <1>8 DEF Next

\* No step of a write, no failure, crash or recovery makes what a restart would
\* restore older; only a server that deletes it or files vanishing from outside do.
THEOREM NothingGetsOlder == Spec => NeverOlder
<1>1. Inv /\ Inv' /\ [Next]_vars =>
        [\A n \in Names : Age(n)' < Age(n) =>
           Deleting(n) \/ n \in lost']_vars
  BY NextNoOlder DEF NoOlder, Excused
<1> QED
  BY <1>1, Invariance, PTL DEF Spec, NeverOlder
=============================================================================
