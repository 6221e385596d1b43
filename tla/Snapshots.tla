----------------------------- MODULE Snapshots -----------------------------
(***************************************************************************)
(* How a session server saves its panes and how the next server for the   *)
(* name finds them again (session/server/resurrect.rs).                   *)
(*                                                                         *)
(* The server loop captures a job and hands it to a writer thread, which   *)
(* stages a directory beside the published one, moves the published one    *)
(* aside, publishes the staged one and drops what it moved.  Any of those  *)
(* steps may fail, the process may die between any two, the session may be *)
(* renamed, closed panes may be opened again under their id, and files may *)
(* vanish behind the server's back.  A server that starts repairs what an  *)
(* interrupted one left.                                                   *)
(*                                                                         *)
(* A pane's replay bytes are abstracted to the number of the change that   *)
(* produced them (text) beside the pane's own content_generation (cg).     *)
(* Ephemeral sessions, other snapshot formats and layout.json are left     *)
(* out; the clock that orders backups is assumed to move forward.          *)
(***************************************************************************)
EXTENDS Naturals, FiniteSets, FiniteSetsExt, Functions

CONSTANTS Names,       \* session names
          Panes,       \* pane ids
          MaxChanges,  \* changes to the session, over all servers
          MaxFaults,   \* file operations that fail and files that vanish
          MaxDeaths,   \* processes that end, by a crash or by being stopped
          MaxRenames,  \* renames, over all servers
          MaxEvents,   \* changes, faults and renames together
          None

VARIABLES
  changes,           \* changes so far; the next content's number
  serial,            \* suffix of the next staging directory (pid and time)
  \* the server loop
  pc, session_name, panes, unstarted, dirty_generation, snapshot_generation,
  persisted_replays, in_flight, unsettled, thread, disposition,
  \* the writer threads and the channel their outcomes come back on
  writers, done,
  \* the snapshot root: per name the published directory and its siblings
  final, tmp, old, damaged,
  \* bounds and history
  faults, deaths, renames, opened, lost, late, undeleted, forgotten, savedAs

counters == <<changes, serial>>
loaded == <<panes, unstarted, opened>>
server == <<pc, session_name, loaded, dirty_generation, snapshot_generation,
            persisted_replays, in_flight, unsettled, thread, disposition>>
worker == <<writers, done>>
disk == <<final, tmp, old, damaged>>
bounds == <<faults, deaths, renames>>
history == <<lost, late, undeleted, forgotten, savedAs>>
vars == <<counters, server, worker, disk, bounds, history>>

(***************************************************************************)
(* Directories.  `wanted` is what the capture saw of every pane, `files`   *)
(* the replay files that are there, `meta` whether meta.json can be read,  *)
(* `stamp` the suffix of the write that moved a backup aside.              *)
(***************************************************************************)
Content == [cg : Nat, text : Nat]
Captures == UNION {[S -> Content] : S \in SUBSET Panes}
Dirs == [at : Nat, session : Names, wanted : Captures, files : Captures, meta : BOOLEAN, stamp : Nat]
Outcomes == [session : Names, generation : Nat, captured : Captures, ok : BOOLEAN]

\* A session has finitely many panes; nothing is not something.
ASSUME BoundsAssumption ==
  /\ {MaxChanges, MaxFaults, MaxDeaths, MaxRenames, MaxEvents} \subseteq Nat
  /\ IsFiniteSet(Panes)
  /\ None \notin Names /\ None \notin Content /\ None \notin Dirs /\ None \notin Outcomes

complete_snapshot(dir, name) ==
  /\ dir # None
  /\ dir.meta
  /\ dir.session = name
  /\ DOMAIN dir.wanted \subseteq DOMAIN dir.files

ReplayFiles(name) == IF final[name] = None THEN {} ELSE DOMAIN final[name].files

\* backup_order: by saved_at, then by the write that moved it aside.
NotNewer(a, b) == a.at < b.at \/ (a.at = b.at /\ a.stamp <= b.stamp)
Newest(dirs) ==
  IF dirs = {} THEN None
  ELSE CHOOSE b \in dirs : \A a \in dirs : NotNewer(a, b)

valid_backups(name) == {b \in old[name] : complete_snapshot(b, name)}

newest_unreadable_backup(name) ==
  IF old[name] = {} THEN None
  ELSE CHOOSE b \in old[name] : \A a \in old[name] : a.stamp <= b.stamp

\* Mutant: a backup that cannot be read counts as none.
candidate_readable_only(name) ==
  IF complete_snapshot(final[name], name) THEN final[name]
  ELSE IF valid_backups(name) # {} THEN Newest(valid_backups(name))
  ELSE final[name]

\* The directory a server for `name` would restore from.
snapshot_recovery_candidate(name) ==
  IF complete_snapshot(final[name], name) THEN final[name]
  ELSE IF valid_backups(name) # {} THEN Newest(valid_backups(name))
  ELSE IF final[name] = None THEN newest_unreadable_backup(name)
  ELSE final[name]

\* A directory without its metadata, and without some of its files.
Torn(dir) == [dir EXCEPT !.meta = FALSE]
Cut(dir, kept) == [dir EXCEPT !.files = Restrict(@, kept)]

Budget == changes + faults + renames < MaxEvents
Fault == faults < MaxFaults /\ Budget /\ faults' = faults + 1
NoFault == UNCHANGED faults

(***************************************************************************)
(* The server loop while the session lives.                                *)
(***************************************************************************)
snapshot_dirty == dirty_generation # snapshot_generation
busy == in_flight > 0

Live == {p \in Panes : panes[p] # None}
NothingPersisted == [p \in {} |-> 0]
NoPanes == [p \in Panes |-> None]
NeverOpened == [p \in Panes |-> 0]

mark_dirty == dirty_generation' = dirty_generation + 1

Changed(p, cg) ==
  /\ pc = "running"
  /\ changes < MaxChanges /\ Budget
  /\ changes' = changes + 1
  /\ panes' = [panes EXCEPT ![p] = [cg |-> cg, text |-> changes + 1]]
  /\ unstarted' = unstarted \ {p}
  /\ mark_dirty
  /\ UNCHANGED <<serial, pc, session_name, snapshot_generation, persisted_replays,
                 in_flight, unsettled, thread, disposition, worker, disk, bounds, history>>

\* A pane is opened, or an exited one replaced under its id.
Spawn(p) ==
  /\ panes[p] = None
  /\ opened' = [opened EXCEPT ![p] = @ + 1]
  /\ Changed(p, 0)

Output(p) ==
  /\ panes[p] # None
  /\ UNCHANGED opened
  /\ Changed(p, panes[p].cg + 1)

\* A pane is closed or exits: either way no later capture contains it.
Close(p) ==
  /\ pc = "running"
  /\ panes[p] # None \/ p \in unstarted
  /\ changes < MaxChanges /\ Budget
  /\ changes' = changes + 1
  /\ panes' = [panes EXCEPT ![p] = None]
  /\ unstarted' = unstarted \ {p}
  /\ mark_dirty
  /\ UNCHANGED <<opened, serial, pc, session_name, snapshot_generation, persisted_replays,
                 in_flight, unsettled, thread, disposition, worker, disk, bounds, history>>

\* rename_session changes the name and nothing the snapshots depend on.
Rename(n) ==
  /\ pc = "running"
  /\ n # session_name
  /\ renames < MaxRenames /\ Budget
  /\ session_name' = n
  /\ renames' = renames + 1
  /\ forgotten' = forgotten \ {n}
  /\ UNCHANGED <<counters, pc, loaded, dirty_generation, snapshot_generation,
                 persisted_replays, in_flight, unsettled, thread, disposition, worker, disk,
                 faults, deaths, lost, late, undeleted, savedAs>>

\* A pane whose content_generation the last successful snapshot persisted, and
\* whose file is still there, is linked rather than exported.
Reusable(p) ==
  /\ p \in DOMAIN persisted_replays
  /\ persisted_replays[p] = panes[p].cg
  /\ p \in ReplayFiles(session_name)

capture_snapshot ==
  [id |-> serial, at |-> "stage", generation |-> dirty_generation, when |-> changes,
   session |-> session_name, captured |-> Restrict(panes, Live),
   reuse |-> {p \in Live : Reusable(p)}, files |-> Restrict(panes, {})]

\* The first job starts the worker's thread.  When that fails the worker stays,
\* with nobody to send a job to: the attempt is counted and never settled.
dispatch_snapshot ==
  /\ \/ /\ thread # "failed"
        /\ NoFault
        /\ thread' = "started"
        /\ writers' = writers \cup {capture_snapshot}
        /\ serial' = serial + 1
        /\ in_flight' = in_flight + 1
        /\ unsettled' = unsettled + 1
     \/ /\ \/ thread = "none" /\ Fault
           \/ thread = "failed" /\ NoFault
        /\ thread' = "failed"
        /\ unsettled' = 1
        /\ UNCHANGED <<writers, serial, in_flight>>
  /\ UNCHANGED <<changes, session_name, loaded, dirty_generation, snapshot_generation,
                 persisted_replays, disposition, done, disk, deaths, renames, history>>

maybe_snapshot ==
  /\ pc = "running"
  /\ snapshot_dirty
  /\ ~busy
  /\ dispatch_snapshot
  /\ UNCHANGED pc

\* The state directory is unavailable: nothing reaches the worker.
CaptureFails ==
  /\ \/ pc = "running" /\ ~busy /\ pc' = pc
     \/ pc = "last" /\ unsettled = 0 /\ pc' = "exit"
  /\ snapshot_dirty
  /\ Fault
  /\ persisted_replays' = NothingPersisted
  /\ UNCHANGED <<counters, session_name, loaded, dirty_generation, snapshot_generation,
                 in_flight, unsettled, thread, disposition, worker, disk, deaths, renames, history>>

\* Mutant: the completed write is taken for the present generation.
SettleEverything(outcome) ==
  /\ unsettled' = unsettled - 1
  /\ done' = None
  /\ snapshot_generation' = dirty_generation
  /\ persisted_replays' = NothingPersisted
  /\ savedAs' = outcome.session

\* An outcome is applied to the generation and the contents its job captured.
Settle(outcome) ==
  /\ unsettled' = unsettled - 1
  /\ done' = None
  /\ IF outcome.ok
     THEN /\ snapshot_generation' = outcome.generation
          /\ persisted_replays' = [p \in DOMAIN outcome.captured |-> outcome.captured[p].cg]
          /\ savedAs' = outcome.session
     ELSE /\ persisted_replays' = NothingPersisted
          /\ UNCHANGED <<snapshot_generation, savedAs>>

\* Mutant: only a success frees the worker.
DrainSuccesses ==
  /\ pc = "running"
  /\ done # None
  /\ Settle(done)
  /\ in_flight' = IF done.ok THEN in_flight - 1 ELSE in_flight
  /\ UNCHANGED <<counters, pc, session_name, loaded, dirty_generation, thread, disposition,
                 writers, disk, bounds, lost, late, undeleted, forgotten>>

drain_snapshot_results ==
  /\ pc = "running"
  /\ done # None
  /\ Settle(done)
  /\ in_flight' = in_flight - 1
  /\ UNCHANGED <<counters, pc, session_name, loaded, dirty_generation, thread, disposition,
                 writers, disk, bounds, lost, late, undeleted, forgotten>>

(***************************************************************************)
(* The writer thread.                                                      *)
(***************************************************************************)
Report(w, ok) ==
  /\ writers' = writers \ {w}
  /\ done' = [session |-> w.session, generation |-> w.generation, captured |-> w.captured, ok |-> ok]

Proceed(w, v) ==
  /\ writers' = (writers \ {w}) \cup {v}
  /\ UNCHANGED done

Staged(w) ==
  [p \in DOMAIN w.captured |->
     IF p \in w.reuse THEN final[w.session].files[p] ELSE w.captured[p]]

\* The replays, meta.json and layout.json go to a directory of their own.
Stage(w) ==
  /\ w.at = "stage"
  /\ tmp' = [tmp EXCEPT ![w.session] = @ \cup {w.id}]
  /\ \/ /\ w.reuse \subseteq ReplayFiles(w.session)
        /\ Proceed(w, [w EXCEPT !.at = "aside", !.files = Staged(w)])
        /\ NoFault
     \/ /\ \/ Fault
           \/ ~(w.reuse \subseteq ReplayFiles(w.session)) /\ NoFault
        /\ Report(w, FALSE)
  /\ UNCHANGED <<final, old, damaged, lost>>

Backups(w) == {b \in old[w.session] : b.stamp = w.id}

\* Mutant: the published directory is removed to make room.
AsideByRemoving(w) ==
  /\ w.at = "aside"
  /\ final' = [final EXCEPT ![w.session] = None]
  /\ Proceed(w, [w EXCEPT !.at = "publish"])
  /\ NoFault
  /\ UNCHANGED <<tmp, old, damaged, lost>>

Aside(w) ==
  /\ w.at = "aside"
  /\ \/ /\ final[w.session] # None
        /\ old' = [old EXCEPT ![w.session] = @ \cup {[final[w.session] EXCEPT !.stamp = w.id]}]
        /\ final' = [final EXCEPT ![w.session] = None]
        /\ Proceed(w, [w EXCEPT !.at = "publish"])
        /\ NoFault
     \/ /\ final[w.session] = None
        /\ Proceed(w, [w EXCEPT !.at = "publish"])
        /\ NoFault
        /\ UNCHANGED <<final, old>>
     \/ /\ Fault
        /\ final[w.session] # None
        /\ Report(w, FALSE)
        /\ UNCHANGED <<final, old>>
  /\ UNCHANGED <<tmp, damaged, lost>>

Published(w) ==
  [at |-> w.when, session |-> w.session, wanted |-> w.captured, files |-> w.files,
   meta |-> TRUE, stamp |-> 0]

Publish(w) ==
  /\ w.at = "publish"
  /\ tmp' = [tmp EXCEPT ![w.session] = @ \ {w.id}]
  /\ \/ /\ w.id \in tmp[w.session]
        /\ final' = [final EXCEPT ![w.session] = Published(w)]
        /\ lost' = lost \ {w.session}
        /\ Proceed(w, [w EXCEPT !.at = "sync"])
        /\ NoFault
        /\ UNCHANGED old
     \/ /\ \/ Fault
           \/ w.id \notin tmp[w.session] /\ NoFault
        /\ \E back \in SUBSET Backups(w) :
              /\ old' = [old EXCEPT ![w.session] = @ \ back]
              /\ final' = IF back = {} THEN final
                          ELSE [final EXCEPT ![w.session] = CHOOSE b \in back : TRUE]
        /\ Report(w, FALSE)
        /\ UNCHANGED lost
  /\ UNCHANGED damaged

SyncParent(w) ==
  /\ w.at = "sync"
  /\ \/ Proceed(w, [w EXCEPT !.at = "drop"]) /\ NoFault
     \/ Report(w, FALSE) /\ Fault
  /\ UNCHANGED <<disk, lost>>

\* remove_dir_all of the backup: its files go one by one before it does.
DropBackup(w) ==
  /\ w.at = "drop"
  /\ \/ /\ Backups(w) = {}
        /\ Report(w, TRUE)
        /\ NoFault
        /\ UNCHANGED old
     \/ /\ Backups(w) # {}
        /\ old' = [old EXCEPT ![w.session] = (@ \ Backups(w)) \cup {Torn(b) : b \in Backups(w)}]
        /\ \/ Proceed(w, [w EXCEPT !.at = "dropped"]) /\ NoFault
           \/ Report(w, FALSE) /\ Fault
  /\ UNCHANGED <<final, tmp, damaged, lost>>

DroppedBackup(w) ==
  /\ w.at = "dropped"
  /\ old' = [old EXCEPT ![w.session] = @ \ Backups(w)]
  /\ Report(w, TRUE)
  /\ NoFault
  /\ UNCHANGED <<final, tmp, damaged, lost>>

Write(w) ==
  /\ \/ Stage(w) \/ Aside(w) \/ Publish(w)
     \/ SyncParent(w) \/ DropBackup(w) \/ DroppedBackup(w)
  /\ UNCHANGED <<counters, server, deaths, renames, late, undeleted, forgotten, savedAs>>

(***************************************************************************)
(* Shutdown.  A signal saves once more, a deletion or a restart waits for  *)
(* the write in flight and removes what it left; either waits only so long.*)
(***************************************************************************)
BeginShutdown(how) ==
  /\ pc = "running"
  /\ deaths < MaxDeaths
  /\ pc' = "finish"
  /\ disposition' = how
  /\ UNCHANGED <<counters, session_name, loaded, dirty_generation, snapshot_generation,
                 persisted_replays, in_flight, unsettled, thread, worker, disk, bounds, history>>

AfterFinish == IF disposition = "delete" THEN "delete"
               ELSE IF pc = "finish" THEN "last" ELSE "exit"

\* finish_snapshots: the worker is given up after its outcome or the grace.
finish_snapshots ==
  /\ pc \in {"finish", "finish_last"}
  /\ pc' = AfterFinish
  /\ in_flight' = 0
  /\ thread' = "none"
  /\ \/ /\ in_flight = 0
        /\ UNCHANGED <<unsettled, done, snapshot_generation, persisted_replays, late, savedAs>>
     \/ /\ in_flight > 0
        /\ done # None
        /\ Settle(done)
        /\ UNCHANGED late
     \/ /\ in_flight > 0
        /\ done = None
        /\ late' = late \cup {session_name}
        /\ UNCHANGED <<unsettled, done, snapshot_generation, persisted_replays, savedAs>>
  /\ UNCHANGED <<counters, session_name, loaded, dirty_generation, disposition, writers,
                 disk, bounds, lost, undeleted, forgotten>>

\* Mutant: the last snapshot does not ask whether a write is still running.
LastSnapshotAnyway ==
  /\ pc = "last"
  /\ snapshot_dirty
  /\ dispatch_snapshot
  /\ pc' = "finish_last"

\* The rest of snapshot_before_shutdown: a writer still at work is left alone.
LastSnapshot ==
  /\ pc = "last"
  /\ \/ /\ unsettled > 0 \/ ~snapshot_dirty
        /\ pc' = "exit"
        /\ UNCHANGED <<counters, session_name, loaded, dirty_generation, snapshot_generation,
                       persisted_replays, in_flight, unsettled, thread, disposition, worker, disk,
                       bounds, history>>
     \/ /\ unsettled = 0
        /\ snapshot_dirty
        /\ dispatch_snapshot
        /\ pc' = "finish_last"

\* What remove_dir_all leaves of a directory it cannot remove.
Remnants(dir) ==
  UNION {{Cut(dir, kept), Torn(Cut(dir, kept))} : kept \in SUBSET DOMAIN dir.files}

\* What it leaves of several, of which some may go.
Leftovers(dirs) ==
  UNION {{Range(cut) : cut \in {c \in [stuck -> UNION {Remnants(d) : d \in stuck}] :
                                \A d \in stuck : c[d] \in Remnants(d)}} :
         stuck \in SUBSET dirs}

\* A server that was to start fresh ends when it cannot remove what is saved;
\* one that shuts down says so and goes on.
AfterDelete(removed) ==
  IF disposition # "fresh" THEN "exit" ELSE IF removed THEN "running" ELSE "refused"

Forgotten == IF disposition = "fresh" THEN forgotten ELSE forgotten \cup {session_name}

\* The state directory is unavailable, the published directory goes, or some of
\* it cannot be removed.
delete_snapshot ==
  /\ pc = "delete"
  /\ \/ /\ Fault
        /\ pc' = AfterDelete(FALSE)
        /\ forgotten' = Forgotten
        /\ undeleted' = undeleted \cup {session_name}
        /\ UNCHANGED final
     \/ /\ NoFault
        /\ final' = [final EXCEPT ![session_name] = None]
        /\ pc' = "sweep_deleted"
        /\ UNCHANGED <<forgotten, undeleted>>
     \/ /\ Fault
        /\ final[session_name] # None
        /\ \E left \in Remnants(final[session_name]) :
              final' = [final EXCEPT ![session_name] = left]
        /\ pc' = "sweep_deleted"
        /\ undeleted' = undeleted \cup {session_name}
        /\ UNCHANGED forgotten
  /\ UNCHANGED <<counters, session_name, loaded, dirty_generation, snapshot_generation,
                 persisted_replays, in_flight, unsettled, thread, disposition, worker,
                 tmp, old, damaged, deaths, renames, lost, late, savedAs>>

\* Mutant: backups survive the deletion.
RemoveStagedOnly ==
  /\ pc = "sweep_deleted"
  /\ tmp' = [tmp EXCEPT ![session_name] = {}]
  /\ forgotten' = Forgotten
  /\ pc' = AfterDelete(final[session_name] = None)
  /\ UNCHANGED <<counters, session_name, loaded, dirty_generation, snapshot_generation,
                 persisted_replays, in_flight, unsettled, thread, disposition, worker,
                 final, old, damaged, bounds, lost, late, undeleted, savedAs>>

\* Staged, backup and damaged directories go too; one that stays is let be.
remove_staging_dirs ==
  /\ pc = "sweep_deleted"
  /\ \E staged \in SUBSET tmp[session_name],
        backups \in Leftovers(old[session_name]),
        copies \in Leftovers(damaged[session_name]) :
       /\ tmp' = [tmp EXCEPT ![session_name] = staged]
       /\ old' = [old EXCEPT ![session_name] = backups]
       /\ damaged' = [damaged EXCEPT ![session_name] = copies]
       /\ IF staged = {} /\ backups = {} /\ copies = {}
          THEN NoFault /\ UNCHANGED undeleted
          ELSE Fault /\ undeleted' = undeleted \cup {session_name}
  /\ forgotten' = Forgotten
  /\ pc' = AfterDelete(final[session_name] = None)
  /\ UNCHANGED <<counters, session_name, loaded, dirty_generation, snapshot_generation,
                 persisted_replays, in_flight, unsettled, thread, disposition, worker,
                 final, deaths, renames, lost, late, savedAs>>

\* The process ends and takes its threads and its memory with it.
Ended ==
  /\ pc' = "down"
  /\ session_name' = None
  /\ panes' = NoPanes
  /\ unstarted' = {}
  /\ opened' = NeverOpened
  /\ dirty_generation' = 0
  /\ snapshot_generation' = 0
  /\ persisted_replays' = NothingPersisted
  /\ in_flight' = 0
  /\ unsettled' = 0
  /\ thread' = "none"
  /\ disposition' = "stop"
  /\ writers' = {}
  /\ done' = None
  /\ savedAs' = None

Exit ==
  /\ pc = "exit"
  /\ Ended
  /\ deaths' = deaths + 1
  /\ UNCHANGED <<counters, disk, faults, renames, lost, late, undeleted, forgotten>>

Crash ==
  /\ pc # "down"
  /\ deaths < MaxDeaths
  /\ deaths' = deaths + 1
  /\ Ended
  /\ UNCHANGED <<counters, disk, faults, renames, lost, late, undeleted, forgotten>>

(***************************************************************************)
(* A server starts: restore, beginning with recover_interrupted_snapshot,  *)
(* or fresh, which discards what is saved.                                 *)
(***************************************************************************)
Start(n, how) ==
  /\ pc = "down"
  /\ session_name' = n
  /\ disposition' = how
  /\ pc' = IF how = "fresh" THEN "delete" ELSE "recover"
  /\ forgotten' = forgotten \ {n}
  /\ late' = late \ {n}
  /\ undeleted' = undeleted \ {n}
  /\ UNCHANGED <<counters, loaded, dirty_generation, snapshot_generation, persisted_replays,
                 in_flight, unsettled, thread, worker, disk, bounds, lost, savedAs>>

ServerStep(next) ==
  /\ pc' = next
  /\ UNCHANGED <<counters, session_name, loaded, dirty_generation, snapshot_generation,
                 persisted_replays, in_flight, unsettled, thread, disposition, worker, deaths,
                 renames, history>>

\* preserve_damaged_snapshot, when a backup is to take the published one's place.
RecoverSelect ==
  /\ pc = "recover"
  /\ NoFault
  /\ \/ /\ snapshot_recovery_candidate(session_name) = final[session_name]
        /\ ServerStep("sweep")
        /\ UNCHANGED disk
     \/ /\ snapshot_recovery_candidate(session_name) # final[session_name]
        /\ damaged' = [damaged EXCEPT ![session_name] =
                         @ \cup ({final[session_name]} \ {None})]
        /\ final' = [final EXCEPT ![session_name] = None]
        /\ ServerStep("republish")
        /\ UNCHANGED <<tmp, old>>

RecoverRename ==
  /\ pc = "republish"
  /\ NoFault
  /\ LET candidate == snapshot_recovery_candidate(session_name) IN
       /\ final' = [final EXCEPT ![session_name] = [candidate EXCEPT !.stamp = 0]]
       /\ old' = [old EXCEPT ![session_name] = @ \ {candidate}]
  /\ ServerStep("sweep")
  /\ UNCHANGED <<tmp, damaged>>

\* cleanup_redundant_backups and the staging directories nobody will publish;
\* here, too, what cannot be moved or removed is let be.
RecoverSweep ==
  /\ pc = "sweep"
  /\ LET valid == valid_backups(session_name)
         others == old[session_name] \ valid IN
     \E staged \in SUBSET tmp[session_name], backups \in Leftovers(valid), stuck \in SUBSET others :
       /\ IF staged = {} /\ backups = {} /\ stuck = {} THEN NoFault ELSE Fault
       /\ tmp' = [tmp EXCEPT ![session_name] = staged]
       /\ \/ /\ complete_snapshot(final[session_name], session_name)
             /\ old' = [old EXCEPT ![session_name] = backups \cup stuck]
             /\ damaged' = [damaged EXCEPT ![session_name] = @ \cup (others \ stuck)]
          \/ /\ ~complete_snapshot(final[session_name], session_name)
             /\ UNCHANGED <<old, damaged>>
  /\ ServerStep("restore")
  /\ UNCHANGED final

\* A pane whose file is gone comes back with empty history.
Restored(dir, started) ==
  [p \in Panes |->
     IF p \notin started THEN None
     ELSE [cg |-> 0, text |-> IF p \in DOMAIN dir.files THEN dir.files[p].text ELSE 0]]

\* A pane whose program cannot be started is kept as an exited one, which marks
\* nothing dirty and which no later capture contains.
restore ==
  /\ pc = "restore"
  /\ LET dir == final[session_name]
         whole == complete_snapshot(dir, session_name) IN
     \/ /\ dir = None
        /\ ServerStep("running")
        /\ UNCHANGED <<disk, faults>>
     \/ /\ dir # None
        /\ ~dir.meta
        /\ ServerStep("refused")
        /\ UNCHANGED <<disk, faults>>
     \/ /\ dir # None
        /\ dir.meta
        /\ pc' = "running"
        /\ \E failed \in SUBSET DOMAIN dir.wanted :
             LET started == DOMAIN dir.wanted \ failed IN
             /\ IF failed = {} THEN NoFault ELSE Fault
             /\ unstarted' = failed
             /\ panes' = Restored(dir, started)
             /\ opened' = [p \in Panes |-> IF p \in started THEN 1 ELSE 0]
             /\ dirty_generation' = Cardinality(started) + (IF whole THEN 0 ELSE 1)
             /\ snapshot_generation' = Cardinality(started)
        /\ persisted_replays' = NothingPersisted
        /\ savedAs' = session_name
        /\ damaged' = IF whole THEN damaged
                      ELSE [damaged EXCEPT ![session_name] = @ \cup {dir}]
        /\ UNCHANGED <<counters, session_name, in_flight, unsettled, thread, disposition, worker,
                       final, tmp, old, deaths, renames, lost, late, undeleted, forgotten>>

\* A server that refuses its snapshot leaves it where it is and ends.
Refuse ==
  /\ pc = "refused"
  /\ Ended
  /\ UNCHANGED <<counters, disk, bounds, lost, late, undeleted, forgotten>>

(***************************************************************************)
(* Something outside rozi removes a replay file or the metadata.           *)
(***************************************************************************)
Vanish(n) ==
  /\ final[n] # None
  /\ Fault
  /\ \/ \E p \in DOMAIN final[n].files :
          final' = [final EXCEPT ![n] = Cut(@, DOMAIN @.files \ {p})]
     \/ /\ final[n].meta
        /\ final' = [final EXCEPT ![n] = Torn(@)]
  /\ lost' = lost \cup {n}
  /\ UNCHANGED <<counters, server, worker, tmp, old, damaged, deaths, renames, late,
                 undeleted, forgotten, savedAs>>

Init ==
  /\ changes = 0
  /\ serial = 1
  /\ pc = "down"
  /\ session_name = None
  /\ panes = NoPanes
  /\ unstarted = {}
  /\ opened = NeverOpened
  /\ dirty_generation = 0
  /\ snapshot_generation = 0
  /\ persisted_replays = NothingPersisted
  /\ in_flight = 0
  /\ unsettled = 0
  /\ thread = "none"
  /\ disposition = "stop"
  /\ writers = {}
  /\ done = None
  /\ final = [n \in Names |-> None]
  /\ tmp = [n \in Names |-> {}]
  /\ old = [n \in Names |-> {}]
  /\ damaged = [n \in Names |-> {}]
  /\ faults = 0
  /\ deaths = 0
  /\ renames = 0
  /\ lost = {}
  /\ late = {}
  /\ undeleted = {}
  /\ forgotten = {}
  /\ savedAs = None

Loop ==
  \/ drain_snapshot_results \/ maybe_snapshot
  \/ finish_snapshots \/ LastSnapshot \/ delete_snapshot \/ remove_staging_dirs \/ Exit
  \/ RecoverSelect \/ RecoverRename \/ RecoverSweep \/ restore \/ Refuse

Next ==
  \/ \E p \in Panes : Spawn(p) \/ Output(p) \/ Close(p)
  \/ \E n \in Names : Rename(n) \/ Vanish(n)
  \/ \E n \in Names, how \in {"stop", "fresh"} : Start(n, how)
  \/ \E how \in {"stop", "delete"} : BeginShutdown(how)
  \/ \E w \in writers : Write(w)
  \/ Loop \/ CaptureFails \/ Crash

\* The loop runs on and its interval elapses; the disk answers in the end.
Fairness ==
  /\ WF_vars(Loop)
  /\ WF_vars(\E w \in writers : Write(w))

Spec == Init /\ [][Next]_vars /\ Fairness

(***************************************************************************)
(* Properties.                                                             *)
(***************************************************************************)
IsCapture(f) == \E S \in SUBSET Panes : f \in [S -> Content]

IsDir(dir) ==
  /\ dir \in [at : Nat, session : Names, wanted : {dir.wanted}, files : {dir.files},
              meta : BOOLEAN, stamp : Nat]
  /\ IsCapture(dir.wanted)
  /\ IsCapture(dir.files)
  /\ DOMAIN dir.files \subseteq DOMAIN dir.wanted

IsJob(w) ==
  /\ w \in [id : Nat, at : {"stage", "aside", "publish", "sync", "drop", "dropped"},
            generation : Nat, when : Nat, session : Names, captured : {w.captured},
            reuse : SUBSET Panes, files : {w.files}]
  /\ IsCapture(w.captured)
  /\ IsCapture(w.files)

\* The state has its types; a directory holds files of captured panes only, and
\* one attempt at most is unaccounted for.
TypeOK ==
  /\ changes \in 0 .. MaxChanges
  /\ pc \in {"down", "recover", "republish", "sweep", "restore", "refused", "running",
             "finish", "last", "finish_last", "delete", "sweep_deleted", "exit"}
  /\ thread \in {"none", "started", "failed"}
  /\ unstarted \subseteq Panes
  /\ (session_name = None) = (pc = "down")
  /\ \A p \in Panes : panes[p] = None \/ panes[p] \in Content
  /\ DOMAIN persisted_replays \subseteq Panes
  /\ in_flight \in {0, 1}
  /\ unsettled \in {0, 1}
  /\ \A w \in writers : IsJob(w)
  /\ \A n \in Names : /\ final[n] = None \/ IsDir(final[n])
                      /\ \A dir \in old[n] \cup damaged[n] : IsDir(dir)

\* Two writers never work on one session at a time: neither a loop that finds
\* the worker busy nor a shutdown whose first wait ran out starts a second.
OneWriter == Cardinality(writers) <= 1

\* How recent the snapshot is that a server for the name would restore whole.
Age(n) ==
  LET dir == snapshot_recovery_candidate(n) IN
  IF complete_snapshot(dir, n) THEN dir.at ELSE 0

\* The server deletes what is saved under the name, or has and is about to end.
Deleting(n) ==
  session_name = n /\ disposition # "stop" /\ pc \in {"delete", "sweep_deleted", "exit"}

\* What a restart would restore never gets older, whatever step a write, a
\* failure, a crash or a recovery stops at: only a deletion, or files that
\* vanish from outside, take a saved state away.
NeverOlder == [][\A n \in Names : Age(n)' < Age(n) => Deleting(n) \/ n \in lost']_vars

\* The file of a pane may be another's: of the pane that had the id before it
\* (persisted_replays is keyed by the id), or of the name a rename has left.
MayBeAnothers(p) == p \in DOMAIN persisted_replays /\ (opened[p] > 1 \/ renames > 0)

\* A server that considers itself saved is: a restart would find its panes, each
\* file with the content the pane has.  Two cases are apart.  A pane whose
\* program could not be started again stays in the snapshot until the next save.
\* And where the file may be another's, what the capture was to save is right.
CleanIsSaved ==
  (pc = "running" /\ ~snapshot_dirty /\ ~busy /\ savedAs = session_name
                  /\ session_name \notin lost) =>
    LET dir == snapshot_recovery_candidate(session_name) IN
      /\ complete_snapshot(dir, session_name)
      /\ DOMAIN dir.wanted \ unstarted = Live
      /\ \A p \in Live :
           \/ dir.files[p].text = panes[p].text
           \/ MayBeAnothers(p) /\ dir.wanted[p] = panes[p]

\* A linked replay is of the generation the capture asked for, although it was
\* chosen when an earlier write was acknowledged.  A rename ends this: what was
\* acknowledged under one name is then looked for under another.
ReuseSameGeneration ==
  renames = 0 =>
    \A n \in Names : \A dir \in old[n] \cup ({final[n]} \ {None}) :
      \A p \in DOMAIN dir.files : dir.files[p].cg = dir.wanted[p].cg

\* What the server believes about its disk is true, however writes, failures,
\* renames and restarts overlap (drain_snapshot_results, capture_snapshot).
SavedMarksTrue == TypeOK /\ CleanIsSaved /\ ReuseSameGeneration

\* A server never starts empty over the remains of a snapshot: when it finds
\* nothing published, no backup is left either.
NeverEmptyOverRemains ==
  pc = "restore" /\ final[session_name] = None => old[session_name] = {}

\* A deleted session has nothing left to restore once its server is gone,
\* provided the write in flight ended within the grace and every directory
\* could be removed.
ForgottenIsGone ==
  pc = "down" =>
    \A n \in forgotten \ (late \cup undeleted) : snapshot_recovery_candidate(n) = None

\* A change is saved, or the server ends: failed captures and writes are tried
\* again.  Only a worker whose thread could not be started is never replaced.
ChangesReachDisk ==
  (pc = "running" /\ snapshot_dirty) ~> (pc # "running" \/ ~snapshot_dirty \/ thread = "failed")

\* Every saved pane has the content it had when the snapshot was captured.
SnapshotFaithful ==
  \A n \in Names : final[n] # None =>
    \A p \in DOMAIN final[n].files : final[n].files[p].text = final[n].wanted[p].text

\* A deleted session has nothing left to restore once its server is gone.
DeletedIsGone ==
  pc = "down" => \A n \in forgotten : snapshot_recovery_candidate(n) = None

\* The same where the write in flight ended in time, whatever could be removed.
SweptIsGone ==
  pc = "down" => \A n \in forgotten \ late : snapshot_recovery_candidate(n) = None

\* Failed attempts are repeated until a change is saved, whatever failed.
RetriedUntilSaved ==
  (pc = "running" /\ snapshot_dirty) ~> (pc # "running" \/ ~snapshot_dirty)

\* A pane that could not be started again stays saved until it is closed or
\* replaced.
UnstartedStaySaved ==
  pc = "running" /\ savedAs = session_name /\ session_name \notin lost =>
    LET dir == snapshot_recovery_candidate(session_name) IN
      complete_snapshot(dir, session_name) => unstarted \subseteq DOMAIN dir.wanted
=============================================================================
