------------------------------- MODULE Intake -------------------------------
(***************************************************************************)
(* How work gets into the ledger: the three trigger services of            *)
(* core/triggers.py, a folder watch, a manual scan and a manifest poller,  *)
(* and the manifests core/manifest.py loads.                               *)
(*                                                                         *)
(* The folder watch has three threads: the observer's, which notes the     *)
(* paths of events, the one that starts the service and notes the files    *)
(* already there, and the poller, which emits the files that have settled. *)
(* They share the settle tracker under a lock; what a thread has read from *)
(* the disk before it takes the lock may be old when it writes.            *)
(*                                                                         *)
(* A content is the number of the edit that wrote it.  Its hash, which the *)
(* dedup key may be, and the time of a manifest tell contents apart; its   *)
(* size, which is all that the settle tracker compares, need not.          *)
(*                                                                         *)
(* A definition marked "mistake" is the next definition with a bug, which  *)
(* the property it names finds; it is not used.                            *)
(***************************************************************************)
EXTENDS Integers, Sequences

CONSTANTS
  Kinds,          \* the kinds of trigger the playbook may have
  Files,          \* names in the directory
  Hidden,         \* the names that start with a dot, or do not match the glob
  Unnumbered,     \* the names the ordinal regex, if there is one, rejects
  Dedup,          \* the playbook's dedup mode
  SizeOf,         \* SizeOf[c]: the size of content c
  Rows,           \* Rows[v]: the names in version v of the manifest
  Unparsable,     \* the versions load_manifest rejects
  Settle,         \* settle_seconds, in ticks
  MaxCrashes,     \* _MAX_POLLER_CRASHES
  MaxEdits,       \* bound on the edits of the disk
  MaxFaults,      \* bound on the times the sink raises
  MaxStops        \* bound on the ends of the service

ASSUME IntakeAssumption ==
  /\ Kinds \subseteq {"manual", "folder_watch", "manifest", "manifest_once"}
  /\ Hidden \subseteq Files /\ Unnumbered \subseteq Files
  /\ Dedup \in {"none", "filename", "sha256"}
  /\ Settle \in Nat \ {0} /\ MaxCrashes \in Nat \ {0}
  /\ MaxEdits \in Nat /\ MaxFaults \in Nat /\ MaxStops \in Nat
  /\ SizeOf \in [1..MaxEdits -> Nat \ {0}]
  /\ Unparsable \subseteq 0..MaxEdits /\ 0 \in Unparsable
  /\ \A v \in (0..MaxEdits) \ Unparsable : Rows[v] \in Seq(STRING)

Absent == 0
Contents == 1..MaxEdits
Sizes == {SizeOf[c] : c \in Contents}
Nothing == [file |-> "-", size |-> Absent]

VARIABLES
  kind,      \* the trigger of the playbook
  disk,      \* content of each file, Absent if it is not there
  still,     \* how long the content of each file has not changed, at most Settle
  had,       \* how long ago each file first had each size, at most Settle
  edits,     \* edits so far
  main,      \* where the thread that starts the service is
  todo,      \* the files the startup scan has listed and not noted
  noting,    \* what each noting thread has read from the disk
  events,    \* events the observer has not handled, oldest first
  watching,  \* the observer runs
  tracker,   \* _settle: size and age of the files that may settle
  poller,    \* where the poller is
  ready,     \* the files of _poll_once to emit
  crashes,   \* _poller_crashes
  lost,      \* contents of files whose emission an exception has prevented
  doc,       \* version of the manifest, Absent if it is not there
  manifest,  \* the manifest service
  ledger,    \* the tasks admitted
  flags,     \* modification times for which manifest_unreadable was raised
  faults,    \* times the sink has raised
  stops      \* ends of the service

world == <<kind, disk, still, had, edits, doc>>
watch == <<todo, noting, events, watching, tracker, poller, ready, crashes, lost>>
counts == <<faults, stops>>
vars == <<world, main, watch, manifest, ledger, flags, counts>>

Threads == {"main", "observer"}
Untracked == [size |-> Absent, age |-> 0]
NoTime == -1     \* None of _last_good_mtime and _flagged_error_mtime; never had

(* poll_seconds 0 and the one-shot command scan the manifest once.          *)
ManifestKinds == {"manifest", "manifest_once"}

(* The service object of a manifest trigger: the version whose rows the     *)
(* scan holds, the next row, the two modification times it remembers, and   *)
(* the sink's cache, rows of a version under a modification time.           *)
IdleManifest == [at |-> "off", held |-> Absent, row |-> 1, good |-> NoTime,
                 flagged |-> NoTime, key |-> NoTime, cached |-> Absent]

Init ==
  /\ kind \in Kinds
  /\ disk = [f \in Files |-> Absent] /\ still = [f \in Files |-> 0]
  /\ had = [f \in Files |-> [z \in Sizes |-> NoTime]]
  /\ edits = 0 /\ doc = Absent
  /\ main = "down"
  /\ todo = {} /\ noting = [th \in Threads |-> Nothing]
  /\ events = <<>> /\ watching = FALSE
  /\ tracker = [f \in Files |-> Untracked]
  /\ poller = "off" /\ ready = {} /\ crashes = 0 /\ lost = {}
  /\ manifest = IdleManifest
  /\ ledger = {} /\ flags = {}
  /\ faults = 0 /\ stops = 0

-----------------------------------------------------------------------------
(* Candidates and the sink.  The ledger's unique index drops a key it has.  *)

ShouldIgnore(f) == f \in Hidden

DedupKey(f, c) ==
  CASE Dedup = "none" -> <<>> [] Dedup = "filename" -> <<f>> [] Dedup = "sha256" -> <<c>>

HasCandidate(f) == disk[f] # Absent /\ f \notin Unnumbered /\ ~ShouldIgnore(f)

Sink(ref, key) ==
  ledger' = IF key # <<>> /\ \E t \in ledger : t.key = key THEN ledger
            ELSE ledger \cup {[ref |-> ref, key |-> key]}

EmitCandidate(f) ==
  IF HasCandidate(f) THEN Sink(f, DedupKey(f, disk[f])) ELSE UNCHANGED ledger

IterScanPaths == {f \in Files : disk[f] # Absent /\ ~ShouldIgnore(f)}

-----------------------------------------------------------------------------
(* The world: files are written, renamed and deleted; time passes.  An      *)
(* event reaches the queue only while the observer runs.                    *)

Happened(es) == events' = IF watching THEN events \o es ELSE events
Event(op, f) == <<[op |-> op, file |-> f]>>

HasSizeOf(c, f) ==
  had' = [had EXCEPT ![f][SizeOf[c]] = IF @ = NoTime THEN 0 ELSE @]

WriteFile(f) ==
  /\ kind \notin ManifestKinds /\ edits < MaxEdits /\ edits' = edits + 1
  /\ disk' = [disk EXCEPT ![f] = edits + 1]
  /\ still' = [still EXCEPT ![f] = 0]
  /\ HasSizeOf(edits + 1, f)
  /\ Happened(Event("note", f))
  /\ UNCHANGED <<kind, doc, main, todo, noting, watching, tracker, poller, ready, crashes,
                 lost, manifest, ledger, flags, counts>>

MoveFile(f, g) ==
  /\ kind \notin ManifestKinds /\ f # g /\ disk[f] # Absent
  /\ edits < MaxEdits /\ edits' = edits + 1
  /\ disk' = [disk EXCEPT ![f] = Absent, ![g] = disk[f]]
  /\ still' = [still EXCEPT ![g] = still[f]]
  /\ HasSizeOf(disk[f], g)
  /\ Happened(Event("forget", f) \o Event("note", g))
  /\ UNCHANGED <<kind, doc, main, todo, noting, watching, tracker, poller, ready, crashes,
                 lost, manifest, ledger, flags, counts>>

EditManifest ==
  /\ kind \in ManifestKinds /\ edits < MaxEdits
  /\ edits' = edits + 1 /\ doc' = edits + 1
  /\ UNCHANGED <<kind, disk, still, had, main, watch, manifest, ledger, flags, counts>>

Older(age) == IF age < Settle THEN age + 1 ELSE age

Tick ==
  /\ kind = "folder_watch"
  /\ still' = [f \in Files |-> Older(still[f])]
  /\ had' = [f \in Files |-> [z \in Sizes |-> IF had[f][z] = NoTime THEN NoTime
                                              ELSE Older(had[f][z])]]
  /\ tracker' = [f \in Files |-> [tracker[f] EXCEPT
                   !.age = IF tracker[f] = Untracked THEN 0 ELSE Older(@)]]
  /\ UNCHANGED <<kind, disk, edits, doc, main, todo, noting, events, watching, poller, ready,
                 crashes, lost, manifest, ledger, flags, counts>>

-----------------------------------------------------------------------------
(* FolderWatchService.start: the observer first, then the files already     *)
(* there, then the poller.                                                  *)

Start ==
  /\ kind = "folder_watch" /\ main = "down"
  /\ main' = "list" /\ watching' = TRUE
  /\ UNCHANGED <<world, todo, noting, events, tracker, poller, ready, crashes, lost,
                 manifest, ledger, flags, counts>>

(* Mistake (QuietFilesAdmitted): the files already there are left alone.    *)
ListNothing ==
  /\ kind = "folder_watch" /\ main = "list"
  /\ main' = "scan" /\ todo' = {}
  /\ UNCHANGED <<world, noting, events, watching, tracker, poller, ready, crashes, lost,
                 manifest, ledger, flags, counts>>

(* iterdir, for the rescan of a watch and for a manual scan.                *)
List ==
  /\ \/ kind = "folder_watch" /\ main = "list"
     \/ kind = "manual" /\ main = "down"
  /\ main' = "scan" /\ todo' = IterScanPaths
  /\ UNCHANGED <<world, noting, events, watching, tracker, poller, ready, crashes, lost,
                 manifest, ledger, flags, counts>>

(* The size is read outside the lock.                                       *)
StatPath(th, f) ==
  noting' = [noting EXCEPT ![th] =
               IF disk[f] = Absent \/ ShouldIgnore(f) THEN Nothing
               ELSE [file |-> f, size |-> SizeOf[disk[f]]]]

Noting(th) == noting[th] # Nothing

NotePath(th) ==
  /\ kind = "folder_watch" /\ Noting(th)
  /\ tracker' = [tracker EXCEPT ![noting[th].file] = [size |-> noting[th].size, age |-> 0]]
  /\ noting' = [noting EXCEPT ![th] = Nothing]
  /\ UNCHANGED <<world, main, todo, events, watching, poller, ready, crashes, lost,
                 manifest, ledger, flags, counts>>

ScanNext(f) ==
  /\ main = "scan" /\ f \in todo /\ ~Noting("main")
  /\ todo' = todo \ {f}
  /\ StatPath("main", f)
  /\ UNCHANGED <<world, main, events, watching, tracker, poller, ready, crashes, lost,
                 manifest, ledger, flags, counts>>

StartPoller ==
  /\ kind = "folder_watch" /\ main = "scan" /\ todo = {} /\ ~Noting("main")
  /\ main' = "up" /\ poller' = "idle"
  /\ UNCHANGED <<world, todo, noting, events, watching, tracker, ready, crashes, lost, manifest,
                 ledger, flags, counts>>

(* _WatchHandler: a move forgets the source and notes the destination.      *)
HandleEvent ==
  /\ events # <<>> /\ ~Noting("observer")
  /\ LET e == Head(events) IN
       IF e.op = "note"
       THEN StatPath("observer", e.file) /\ UNCHANGED tracker
       ELSE tracker' = [tracker EXCEPT ![e.file] = Untracked] /\ UNCHANGED noting
  /\ events' = Tail(events)
  /\ UNCHANGED <<world, main, todo, watching, poller, ready, crashes, lost, manifest,
                 ledger, flags, counts>>

-----------------------------------------------------------------------------
(* The poller: under the lock it drops what has gone, starts the wait again *)
(* for what has another size, and takes what has settled.                   *)

Tracked(f) == tracker[f] # Untracked /\ disk[f] # Absent
SameSize(f) == SizeOf[disk[f]] = tracker[f].size
Settled(f) == Tracked(f) /\ SameSize(f) /\ tracker[f].age >= Settle

(* Mistake (SettledOnly): a file whose size has changed is only measured    *)
(* again.                                                                   *)
PollMeasures ==
  /\ poller = "idle"
  /\ tracker' = [f \in Files |-> IF ~Tracked(f) \/ Settled(f) THEN Untracked
                                 ELSE [tracker[f] EXCEPT !.size = SizeOf[disk[f]]]]
  /\ ready' = {f \in Files : Settled(f)}
  /\ poller' = IF ready' = {} THEN "idle" ELSE "emit"
  /\ UNCHANGED <<world, main, todo, noting, events, watching, crashes, lost, manifest,
                 ledger, flags, counts>>

PollOnce ==
  /\ poller = "idle"
  /\ tracker' = [f \in Files |-> IF ~Tracked(f) \/ Settled(f) THEN Untracked
                                 ELSE IF SameSize(f) THEN tracker[f]
                                 ELSE [size |-> SizeOf[disk[f]], age |-> 0]]
  /\ ready' = {f \in Files : Settled(f)}
  /\ poller' = IF ready' = {} THEN "idle" ELSE "emit"
  /\ crashes' = IF ready' = {} THEN 0 ELSE crashes
  /\ UNCHANGED <<world, main, todo, noting, events, watching, lost, manifest, ledger,
                 flags, counts>>

EmitSettled(f) ==
  /\ poller = "emit" /\ f \in ready
  /\ EmitCandidate(f)
  /\ ready' = ready \ {f}
  /\ IF ready' = {} THEN poller' = "idle" /\ crashes' = 0 ELSE UNCHANGED <<poller, crashes>>
  /\ UNCHANGED <<world, main, todo, noting, events, watching, tracker, lost, manifest,
                 flags, counts>>

(* The sink raises: what else was ready is forgotten.  After MaxCrashes in  *)
(* a row the poller stops the service, and dies as it joins itself: the     *)
(* observer is gone, and nobody is told.                                    *)
SinkRaises(f) ==
  /\ poller = "emit" /\ f \in ready /\ faults < MaxFaults
  /\ faults' = faults + 1
  /\ lost' = lost \cup {<<g, disk[g]>> : g \in ready} /\ ready' = {}
  /\ crashes' = crashes + 1
  /\ IF crashes' >= MaxCrashes
     THEN poller' = "dead" /\ watching' = FALSE /\ events' = <<>>
     ELSE poller' = "idle" /\ UNCHANGED <<watching, events>>
  /\ UNCHANGED <<world, main, todo, noting, tracker, manifest, ledger, flags, stops>>

(* The service is stopped, or its process ends: all it kept is gone.        *)
Stop ==
  /\ main # "down" /\ stops < MaxStops /\ stops' = stops + 1
  /\ main' = "down"
  /\ todo' = {} /\ noting' = [th \in Threads |-> Nothing]
  /\ events' = <<>> /\ watching' = FALSE
  /\ tracker' = [f \in Files |-> Untracked]
  /\ poller' = "off" /\ ready' = {} /\ crashes' = 0 /\ lost' = {}
  /\ manifest' = IdleManifest
  /\ UNCHANGED <<world, ledger, flags, faults>>

-----------------------------------------------------------------------------
(* ManualScanService.run: a file is emitted if its size is the same before  *)
(* and after the wait.                                                      *)

EmitIfStill ==
  /\ kind = "manual" /\ main = "scan" /\ Noting("main")
  /\ noting' = [noting EXCEPT !["main"] = Nothing]
  /\ IF /\ disk[noting["main"].file] # Absent
        /\ SizeOf[disk[noting["main"].file]] = noting["main"].size
     THEN EmitCandidate(noting["main"].file)
     ELSE UNCHANGED ledger
  /\ UNCHANGED <<world, main, todo, events, watching, tracker, poller, ready, crashes, lost,
                 manifest, flags, counts>>

ScanEnds ==
  /\ kind = "manual" /\ main = "scan" /\ todo = {} /\ ~Noting("main")
  /\ main' = "down"
  /\ UNCHANGED <<world, watch, manifest, ledger, flags, counts>>

-----------------------------------------------------------------------------
(* ManifestTriggerService.  The file is read three times: its rows, its     *)
(* modification time, and its rows again in the sink.                       *)

StartManifest ==
  /\ kind \in ManifestKinds /\ main = "down"
  /\ main' = "up" /\ manifest' = [IdleManifest EXCEPT !.at = "scan"]
  /\ UNCHANGED <<world, watch, ledger, flags, counts>>

PollManifest ==
  /\ kind = "manifest" /\ manifest.at = "idle" /\ manifest.good # doc
  /\ manifest' = [manifest EXCEPT !.at = "scan"]
  /\ UNCHANGED <<world, main, watch, ledger, flags, counts>>

LoadManifest ==
  /\ manifest.at = "scan"
  /\ manifest' = IF doc \in Unparsable THEN [manifest EXCEPT !.at = "flag"]
                 ELSE [manifest EXCEPT !.at = "mark", !.held = doc, !.row = 1]
  /\ UNCHANGED <<world, main, watch, ledger, flags, counts>>

(* Mistake (ManifestTaken): the time of the last flag is kept for good.    *)
FlagUnreadableOnce ==
  /\ manifest.at = "flag"
  /\ flags' = IF manifest.flagged = NoTime THEN flags \cup {doc} ELSE flags
  /\ manifest' = [manifest EXCEPT !.at = "idle", !.flagged = doc]
  /\ UNCHANGED <<world, main, watch, ledger, counts>>

FlagUnreadable ==
  /\ manifest.at = "flag"
  /\ flags' = IF manifest.flagged = doc THEN flags ELSE flags \cup {doc}
  /\ manifest' = [manifest EXCEPT !.at = "idle", !.flagged = doc]
  /\ UNCHANGED <<world, main, watch, ledger, counts>>

MarkGood ==
  /\ manifest.at = "mark"
  /\ manifest' = [manifest EXCEPT !.at = "emit", !.flagged = NoTime, !.good = doc]
  /\ UNCHANGED <<world, main, watch, ledger, flags, counts>>

RowKey(v, i) == <<i, Rows[v][i]>>

(* The sink takes its row from the rows it has under the time the file has  *)
(* now, and loads them if it has none.                                      *)
LookUp ==
  /\ manifest.at = "emit" /\ manifest.row <= Len(Rows[manifest.held])
  /\ manifest' = [manifest EXCEPT !.at = IF manifest.key = doc THEN "insert" ELSE "reload",
                                  !.key = doc]
  /\ UNCHANGED <<world, main, watch, ledger, flags, counts>>

Reload ==
  /\ manifest.at = "reload"
  /\ manifest' = IF doc \in Unparsable
                 THEN [manifest EXCEPT !.at = "emit", !.row = @ + 1, !.key = NoTime]
                 ELSE [manifest EXCEPT !.at = "insert", !.cached = doc]
  /\ UNCHANGED <<world, main, watch, ledger, flags, counts>>

InsertRow ==
  /\ manifest.at = "insert"
  /\ IF manifest.row \in DOMAIN Rows[manifest.cached]
     THEN Sink(manifest.row, RowKey(manifest.held, manifest.row)) ELSE UNCHANGED ledger
  /\ manifest' = [manifest EXCEPT !.at = "emit", !.row = @ + 1]
  /\ UNCHANGED <<world, main, watch, flags, counts>>

(* The ledger raises: the scan ends, and its time is marked already.        *)
InsertRaises ==
  /\ manifest.at = "insert" /\ faults < MaxFaults /\ faults' = faults + 1
  /\ manifest' = [manifest EXCEPT !.at = "idle"]
  /\ UNCHANGED <<world, main, watch, ledger, flags, stops>>

ManifestScanned ==
  /\ manifest.at = "emit" /\ manifest.row > Len(Rows[manifest.held])
  /\ manifest' = [manifest EXCEPT !.at = "idle"]
  /\ UNCHANGED <<world, main, watch, ledger, flags, counts>>

-----------------------------------------------------------------------------
User ==
  \/ \E f \in Files : WriteFile(f)
  \/ \E f, g \in Files : MoveFile(f, g)
  \/ EditManifest

Folder ==
  \/ Start \/ List \/ StartPoller \/ HandleEvent \/ PollOnce
  \/ \E th \in Threads : NotePath(th)
  \/ \E f \in Files : ScanNext(f) \/ EmitSettled(f)
  \/ EmitIfStill \/ ScanEnds

Manifest ==
  \/ StartManifest \/ PollManifest \/ LoadManifest \/ FlagUnreadable \/ MarkGood
  \/ LookUp \/ Reload \/ InsertRow \/ ManifestScanned

Next ==
  \/ User \/ Tick \/ Folder \/ Manifest \/ Stop
  \/ \E f \in Files : SinkRaises(f)
  \/ InsertRaises

Spec == Init /\ [][Next]_vars

(* The threads run, time passes, and a service that is down is started.     *)
FairSpec ==
  /\ Spec /\ WF_vars(Tick) /\ WF_vars(Start) /\ WF_vars(List) /\ WF_vars(StartPoller)
  /\ WF_vars(HandleEvent) /\ WF_vars(PollOnce) /\ WF_vars(Manifest)
  /\ \A th \in Threads : WF_vars(NotePath(th))
  /\ \A f \in Files : WF_vars(ScanNext(f)) /\ WF_vars(EmitSettled(f))

-----------------------------------------------------------------------------
Admitted(key) == \E t \in ledger : t.key = key

(* A file that keeps its content long enough becomes a task, whether it was *)
(* there before the watch or came while it started, was renamed, or was     *)
(* written while it settled; unless the sink raised over it, or killed the  *)
(* poller (FolderWatchService.start, _note_path, _poll_once).               *)
QuietFilesAdmitted ==
  \A f \in Files \ (Hidden \cup Unnumbered), c \in Contents :
    (kind = "folder_watch" /\ disk[f] = c)
      ~> (disk[f] # c \/ Admitted(DedupKey(f, c)) \/ <<f, c>> \in lost \/ poller = "dead")

(* The change of f of which the observer has not yet told the tracker.      *)
Unnoticed(f) ==
  \/ Noting("observer") /\ noting["observer"].file = f
  \/ \E i \in DOMAIN events : events[i] = [op |-> "note", file |-> f]

(* The poller takes a file only at a size that it had settle_seconds ago,   *)
(* and, while the observer keeps up with the events of the file, only when  *)
(* it has not been written for settle_seconds, even to the same size;       *)
(* whatever the observer, the rescan and the disk did between their looking *)
(* at it and their noting it (_poll_once).  The tracker compares sizes, so  *)
(* of a change that the observer is late for it sees nothing if the size is *)
(* the same again when it looks.                                            *)
SettledOnly ==
  [][\A f \in ready' \ ready :
       /\ had[f][SizeOf[disk[f]]] >= Settle
       /\ still[f] >= Settle \/ Unnoticed(f)]_vars

(* A version of the manifest that stays is taken in: all its rows become    *)
(* tasks, or a flag says that it cannot be read; unless the ledger raised,  *)
(* or the version was written after the scan read the rows of the one       *)
(* before and until it read their time (ManifestTriggerService._scan).      *)
(* With poll_seconds 0 that is said of the version the start finds.         *)
Overlooked(v) == manifest.good = v /\ manifest.held # v
Taken(v) == IF v \in Unparsable THEN v \in flags
            ELSE \A i \in DOMAIN Rows[v] : Admitted(RowKey(v, i))

ManifestTaken ==
  \A v \in 0..MaxEdits :
    (/\ doc = v
     /\ kind = "manifest" \/ (kind = "manifest_once" /\ main = "down")) ~>
      (doc # v \/ Taken(v) \/ Overlooked(v) \/ faults > 0)
=============================================================================
