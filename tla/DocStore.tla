------------------------------ MODULE DocStore ------------------------------
(***************************************************************************)
(* What a document keeps, from a keystroke to the version list:            *)
(*                                                                         *)
(*   actor memory  the live document, the pending log, the head counter    *)
(*                 `seq`, the rollback generation `epoch`, the version ring *)
(*   actor storage `meta`, the mirrored log, the alarm row    (SQLite)     *)
(*   blob store    one snapshot per seq                       (files)      *)
(*   node          index jobs, version rows, docs.version_floor,           *)
(*                 docs.snapshot_seq and the indexed text     (Postgres)   *)
(*                                                                         *)
(* packages/doc-actor/src/store/{doc-store,head,retention}.ts, the entry   *)
(* points of doc-actor.ts that reach them, and the node's index job.       *)
(*                                                                         *)
(* The host runs every entry point under the actor's lock, so one handler  *)
(* is in flight at a time: `op` says which and how far it has come.  Each   *)
(* await of a blob or of a job is a step of its own, so the node's jobs, a  *)
(* failure or a crash can fall between any two of them.                    *)
(*                                                                         *)
(* A document is the set of edits applied to it.  Silent edits leave its    *)
(* Markdown as it was (typed and deleted again); Parked ones wait for a    *)
(* dependency that never comes, so the text does not show them.  The clock *)
(* is a free choice: a version interval has passed or it has not.          *)
(***************************************************************************)
EXTENDS Integers, Sequences, FiniteSets

CONSTANTS
    Edits,              \* the edits clients can send
    Silent, Parked,     \* those that leave the Markdown as it was
    PERSIST_THRESHOLD,  \* updates between two mirrors of the log
    SNAPSHOT_KEEP, SNAPSHOT_MILESTONE, VERSION_KEEP,
    Incidents,          \* what may go wrong, among AllIncidents
    MaxIncidents, MaxInstalls, MaxDeletes, MaxJobs   \* bounds of a run

AllIncidents == {"put", "send", "unacked", "crash", "lose"}

ASSUME EditsAssumption == Silent \subseteq Edits /\ Parked \subseteq Edits
ASSUME IncidentsAssumption == Incidents \subseteq AllIncidents

(* docs.snapshot_seq may rest on the newest version while the actor's head  *)
(* moves on under the same text, so the node's window can reach further     *)
(* back than the actor's: the ring has to cover the difference.             *)
ASSUME RetentionAssumption ==
    /\ SNAPSHOT_KEEP \in Nat \ {0} /\ VERSION_KEEP \in Nat \ {0, 1}
    /\ VERSION_KEEP >= SNAPSHOT_KEEP
    /\ SNAPSHOT_MILESTONE \in Nat \ {0} /\ PERSIST_THRESHOLD \in Nat \ {0, 1}

VARIABLES
    live,       \* the DocStore instance's fields
    op,         \* the handler holding the actor's lock
    meta,       \* the stored "meta": seq, epoch, ring, lastHash
    log,        \* the stored "pending": edits mirrored and not yet snapshotted
    alarm,      \* whether the alarm row is set
    blob,       \* seq -> the document its snapshot holds
    stranded,   \* what recover wrote beside the snapshots
    jobs,       \* index_doc jobs not yet acknowledged
    versions, floor,    \* the node's version rows and docs.version_floor
    indexed,    \* docs.snapshot_seq and docs.search_text
    spent       \* incidents and installs so far, versions deleted by hand

actorVars == <<live, op, meta, log, alarm>>
nodeVars == <<versions, floor, indexed>>
vars == <<actorVars, nodeVars, blob, stranded, jobs, spent>>

-----------------------------------------------------------------------------
(* Text, hashes and the version ring *)

Text(doc) == doc \ (Silent \cup Parked)

ParkedOnly(doc) == Text(doc) = {} /\ doc \cap Parked # {}

NoHash == <<>>
VersionHash(doc) == <<Text(doc)>>

Newest(ring) == IF ring = <<>> THEN 0 ELSE ring[Len(ring)]

Noted(ring, seq) ==
    LET seqs == Append(ring, seq)
    IN  IF Len(seqs) > VERSION_KEEP THEN Tail(seqs) ELSE seqs

EvictedBy(ring) == IF Len(ring) < VERSION_KEEP THEN {} ELSE {Head(ring)}

(* Mutant: the ring is left out of retention. *)
RetainedByAge(seq, head, ring) ==
    seq > head - SNAPSHOT_KEEP \/ seq % SNAPSHOT_MILESTONE = 0

Retained(seq, head, ring) ==
    \/ seq > head - SNAPSHOT_KEEP
    \/ seq % SNAPSHOT_MILESTONE = 0
    \/ \E i \in DOMAIN ring : ring[i] = seq

Pruned(head, ring, evicted) ==
    {seq \in evicted \cup {head - SNAPSHOT_KEEP} : seq >= 1 /\ ~Retained(seq, head, ring)}

(* The first snapshot, someone leaving, or the interval since the last     *)
(* version, which a document with no version has always passed.            *)
Due(m, seq, reason) ==
    IF seq = 1 \/ reason = "eviction" \/ m.lastHash = NoHash THEN {TRUE} ELSE BOOLEAN

-----------------------------------------------------------------------------
(* The instance *)

Meta(m) == [seq |-> m.seq, epoch |-> m.epoch, ring |-> m.ring, lastHash |-> m.lastHash]

Unloaded ==
    [loaded |-> FALSE, doc |-> {}, seq |-> 0, epoch |-> 0, ring |-> <<>>, lastHash |-> NoHash,
     pending |-> {}, dirty |-> FALSE, sincePersist |-> 0, hydrationIncomplete |-> FALSE,
     owedMemo |-> <<>>]

Readable(seq) == seq \in DOMAIN blob

(* The blob store once a snapshot is put, over the old one if there was one. *)
WithSnapshot(seq, doc) ==
    [s \in DOMAIN blob \cup {seq} |-> IF s = seq THEN doc ELSE blob[s]]

(* Mutant: a readable head is loaded without replaying the log over it. *)
OpenedAtHead ==
    IF live.loaded THEN live
    ELSE [Unloaded EXCEPT
            !.loaded = TRUE, !.seq = meta.seq, !.epoch = meta.epoch,
            !.ring = meta.ring, !.lastHash = meta.lastHash,
            !.doc = IF Readable(meta.seq) THEN blob[meta.seq] ELSE log,
            !.pending = log, !.dirty = log # {},
            !.hydrationIncomplete = meta.seq > 0 /\ ~Readable(meta.seq)]

(* ensureLoaded: what every handler works on. *)
Opened ==
    IF live.loaded THEN live
    ELSE [loaded |-> TRUE,
          doc |-> log \cup (IF Readable(meta.seq) THEN blob[meta.seq] ELSE {}),
          seq |-> meta.seq, epoch |-> meta.epoch, ring |-> meta.ring, lastHash |-> meta.lastHash,
          pending |-> log, dirty |-> log # {}, sincePersist |-> 0,
          hydrationIncomplete |-> meta.seq > 0 /\ ~Readable(meta.seq),
          owedMemo |-> <<>>]

(* Mutant: a replayed log waits for the next edit to arm an alarm. *)
AlarmAsFound(before) == before

(* A replayed log gets its backstop there and then. *)
OpenedAlarm(before) == before \/ (~live.loaded /\ log # {})

PastNewest(m) == ~m.dirty /\ ~m.hydrationIncomplete /\ m.seq > Newest(m.ring)

ChangedHead(m) == ~ParkedOnly(m.doc) /\ VersionHash(m.doc) # m.lastHash

Owed(m) == PastNewest(m) /\ ChangedHead(m)

(* The verdict "owed nothing" is remembered for this head and this ring.   *)
Verdict(m) ==
    IF PastNewest(m) /\ ~ChangedHead(m)
    THEN [m EXCEPT !.owedMemo = <<m.seq, m.lastHash>>] ELSE m

(* armAlarms: an alarm already set is left alone. *)
Armed(m) == \/ m.dirty
            \/ PastNewest(m) /\ m.owedMemo # <<m.seq, m.lastHash>>

Journaled(m, e) ==
    [m EXCEPT !.doc = @ \cup {e}, !.pending = @ \cup {e}, !.dirty = TRUE, !.sincePersist = @ + 1]

-----------------------------------------------------------------------------
(* Handlers in flight *)

Idle == [is |-> "idle", at |-> "", doc |-> {}, hash |-> NoHash, prev |-> <<>>,
         evicted |-> {}, version |-> FALSE, then |-> ""]

(* writeSnapshot's start: the hash is taken only when a version is due. *)
Snapshotting(m, kind, due, next, doc) ==
    [Idle EXCEPT !.is = kind, !.at = "put", !.doc = doc, !.then = next,
                 !.hash = IF due THEN VersionHash(m.doc) ELSE NoHash,
                 !.prev = <<m.ring, m.lastHash>>]

Installing(doc) == [Idle EXCEPT !.is = "install", !.at = "put", !.doc = doc, !.version = TRUE]

(* What a flush or a promotion gives way to when it is done. *)
GiveWay(o) ==
    CASE o.then = "alarm"   -> [Idle EXCEPT !.is = "alarm", !.at = "promote"]
      [] o.then = "install" -> Installing(o.doc)
      [] OTHER              -> Idle

CanFlush(m) == m.dirty /\ ~m.hydrationIncomplete

(* flush(reason) called with m in memory and nothing else in flight. *)
Flush(m, reason, next) ==
    IF CanFlush(m)
    THEN \E due \in Due(m, m.seq + 1, reason) :
            op' = Snapshotting(m, "flush", due, next, {})
    ELSE op' = GiveWay([Idle EXCEPT !.then = next])

(* The ring of m with its head, or the snapshot being written, entered. *)
WithVersion(m, seq, hash) == [m EXCEPT !.ring = Noted(@, seq), !.lastHash = hash]

(* Mutant: a failed flush leaves the document marked saved. *)
RolledBackClean(m, prev) == [m EXCEPT !.ring = prev[1], !.lastHash = prev[2], !.dirty = FALSE]

(* Mutant: a failed flush keeps the version it entered in the ring. *)
RingKept(m, prev) == m

RolledBack(m, prev) == [m EXCEPT !.ring = prev[1], !.lastHash = prev[2]]

Job(seq, m, version) ==
    [seq |-> seq, version |-> version,
     floor |-> IF version THEN Head(m.ring) ELSE 0]

(* promote(reason) up to its send: the ring is stored before the job.  When *)
(* nothing is owed the alarm is left to `otherwise`.                        *)
Promote(m, reason, next, before) ==
    \E due \in Due(m, m.seq, reason) :
        IF due /\ Owed(m)
        THEN /\ live' = WithVersion(m, m.seq, VersionHash(m.doc))
             /\ op' = [Idle EXCEPT !.is = "promote", !.at = "send", !.then = next,
                                   !.prev = <<m.ring, m.lastHash>>, !.version = TRUE,
                                   !.evicted = EvictedBy(m.ring)]
             /\ meta' = Meta(live')
             /\ alarm' = before
        ELSE /\ live' = IF due THEN Verdict(m) ELSE m
             /\ op' = Idle
             /\ alarm' = (before \/ (next = "arm" /\ Armed(live')))
             /\ UNCHANGED meta

Incident(kind) ==
    /\ kind \in Incidents
    /\ spent.incidents < MaxIncidents
    /\ spent' = [spent EXCEPT !.incidents = @ + 1]

Calm == UNCHANGED spent

-----------------------------------------------------------------------------
(* Entries: a frame, a headless write, someone leaving, the alarm *)

Init ==
    /\ live = Unloaded /\ op = Idle
    /\ meta = Meta(Unloaded) /\ log = {} /\ alarm = FALSE
    /\ blob = <<>> /\ stranded = {}
    /\ jobs = {} /\ versions = {} /\ floor = 0
    /\ indexed = [seq |-> 0, text |-> NoHash]
    /\ spent = [incidents |-> 0, installs |-> 0, deleted |-> {}]

(* Mutant: the updates mirrored are not counted off. *)
PersistUncounted(m) ==
    live' = m /\ log' = m.pending /\ meta' = Meta(m) /\ alarm' = TRUE

(* Mutant: the log is mirrored with no alarm behind it. *)
PersistUnarmed(m) ==
    /\ live' = [m EXCEPT !.sincePersist = 0]
    /\ log' = m.pending /\ meta' = Meta(m) /\ alarm' = alarm

(* forcePersistPending: the log, meta with it, and the backstop. *)
Persist(m) ==
    /\ live' = [m EXCEPT !.sincePersist = 0]
    /\ log' = m.pending
    /\ meta' = Meta(m)
    /\ alarm' = TRUE

(* An UPDATE frame: journaled, then mirrored once in PERSIST_THRESHOLD      *)
(* updates; the first of a batch only arms the backstop.                    *)
Type(e) ==
    /\ op = Idle
    /\ e \notin Opened.doc
    /\ LET m == Journaled(Opened, e)
       IN  IF m.sincePersist >= PERSIST_THRESHOLD THEN Persist(m)
           ELSE /\ live' = m
                /\ alarm' = (OpenedAlarm(alarm) \/ m.sincePersist = 1)
                /\ UNCHANGED <<log, meta>>
    /\ Calm /\ UNCHANGED <<op, blob, stranded, jobs, nodeVars>>

(* A headless write is mirrored at once; some flush before they answer.    *)
Write(e) ==
    /\ op = Idle
    /\ e \notin Opened.doc
    /\ LET m == Journaled(Opened, e)
       IN  /\ Persist(m)
           /\ op' = Idle \/ Flush(m, "headless", "")
    /\ Calm /\ UNCHANGED <<blob, stranded, jobs, nodeVars>>

(* webSocketClose: unsaved edits are flushed as a version, and a saved head *)
(* without one becomes one.                                                 *)
Leave ==
    /\ op = Idle
    /\ IF live.dirty
       THEN /\ Flush(live, "eviction", "")
            /\ UNCHANGED <<live, meta, alarm>>
       ELSE Promote(Opened, "eviction", "", OpenedAlarm(alarm))
    /\ Calm /\ UNCHANGED <<log, blob, stranded, jobs, nodeVars>>

(* The host clears the alarm row before it runs the handler. *)
FireAlarm ==
    /\ op = Idle /\ alarm
    /\ live' = Opened
    /\ alarm' = OpenedAlarm(FALSE)
    /\ Flush(live', "timer", "alarm")
    /\ Calm /\ UNCHANGED <<meta, log, blob, stranded, jobs, nodeVars>>

(* ... and after its flush, whatever became of it, it promotes and re-arms. *)
AlarmPromotes ==
    /\ op.is = "alarm"
    /\ Promote(live, "timer", "arm", alarm)
    /\ Calm /\ UNCHANGED <<log, blob, stranded, jobs, nodeVars>>

-----------------------------------------------------------------------------
(* writeSnapshot: the blob, the job, the commit *)

PutSnapshot ==
    /\ op.at = "put" /\ op.is \in {"flush", "checkpoint"}
    /\ LET seq == live.seq + 1
           parked == ParkedOnly(live.doc)
           version == ~parked /\ op.hash \notin {NoHash, live.lastHash}
       IN  /\ blob' = WithSnapshot(seq, live.doc)
           /\ live' = IF version THEN WithVersion(live, seq, op.hash) ELSE live
           /\ op' = [op EXCEPT !.at = IF parked THEN "commit" ELSE "send",
                               !.version = version,
                               !.evicted = IF version THEN EvictedBy(live.ring) ELSE {}]
    /\ Calm /\ UNCHANGED <<meta, log, alarm, stranded, jobs, nodeVars>>

InSnapshot == op.is \in {"flush", "checkpoint"}

Sent == jobs \cup {Job(IF InSnapshot THEN live.seq + 1 ELSE live.seq, live, op.version)}

Send ==
    /\ op.at = "send"
    /\ Cardinality(jobs) < MaxJobs
    /\ jobs' = Sent
    /\ op' = [op EXCEPT !.at = IF InSnapshot THEN "commit" ELSE "prune"]
    /\ Calm /\ UNCHANGED <<live, meta, log, alarm, blob, stranded, nodeVars>>

CommitSnapshot ==
    /\ op.at = "commit"
    /\ live' = [live EXCEPT !.seq = @ + 1, !.pending = {}, !.dirty = FALSE, !.sincePersist = 0,
                            !.owedMemo = IF op.hash # NoHash /\ ~op.version
                                         THEN <<live.seq + 1, live.lastHash>> ELSE @]
    /\ meta' = Meta(live')
    /\ log' = {}
    /\ alarm' = (~op.version /\ Armed(live'))
    /\ op' = [op EXCEPT !.at = "prune"]
    /\ Calm /\ UNCHANGED <<blob, stranded, jobs, nodeVars>>

(* The tail of a flush, a promotion or an install. *)
Prune ==
    /\ op.at = "prune"
    /\ blob' = [seq \in DOMAIN blob \ Pruned(live.seq, live.ring, op.evicted) |-> blob[seq]]
    /\ live' = IF op.is = "install" THEN Unloaded ELSE live
    /\ alarm' = (alarm \/ (op.then = "arm" /\ Armed(live)))
    /\ op' = GiveWay(op)
    /\ Calm /\ UNCHANGED <<meta, log, stranded, jobs, nodeVars>>

(* A failed await: a flush rolls memory back and re-arms, a promotion also  *)
(* restores the stored ring, a checkpoint stops its install, and an         *)
(* install's own job is let go.                                             *)
Fails ==
    CASE op.is = "flush" ->
            /\ live' = RolledBack(live, op.prev)
            /\ alarm' = TRUE
            /\ op' = GiveWay(op)
            /\ UNCHANGED meta
      [] op.is = "promote" ->
            /\ live' = RolledBack(live, op.prev)
            /\ meta' = Meta(live')
            /\ alarm' = (alarm \/ Armed(live'))
            /\ op' = Idle
      [] op.is = "checkpoint" ->
            /\ live' = RolledBack(live, op.prev)
            /\ op' = Idle
            /\ UNCHANGED <<meta, alarm>>
      [] op.is = "install" ->
            /\ op' = IF op.at = "send" THEN [op EXCEPT !.at = "prune"] ELSE Idle
            /\ UNCHANGED <<live, meta, alarm>>

PutFails ==
    /\ op.at = "put"
    /\ Incident("put")
    /\ Fails
    /\ UNCHANGED <<log, blob, stranded, jobs, nodeVars>>

(* The insert was refused, or it was made and its answer lost. *)
SendFails ==
    /\ op.at = "send"
    /\ \/ Incident("send") /\ UNCHANGED jobs
       \/ Incident("unacked") /\ jobs' = Sent
    /\ Fails
    /\ UNCHANGED <<log, blob, stranded, nodeVars>>

-----------------------------------------------------------------------------
(* Head installs: restoring a version, rebuilding a head that is gone *)

(* restoreToVersion: the live document becomes a version first, unless its *)
(* Markdown is the newest version's.                                       *)
Restore(target) ==
    /\ op = Idle
    /\ target \in DOMAIN blob
    /\ spent.installs < MaxInstalls
    /\ LET m == Opened
           changed == IF m.dirty THEN ~m.hydrationIncomplete /\ ChangedHead(m) ELSE Owed(m)
       IN  /\ live' = Verdict(m)
           /\ op' = IF changed THEN Snapshotting(m, "checkpoint", TRUE, "install", blob[target])
                    ELSE Installing(blob[target])
    /\ alarm' = OpenedAlarm(alarm)
    /\ spent' = [spent EXCEPT !.installs = @ + 1]
    /\ UNCHANGED <<meta, log, blob, stranded, jobs, nodeVars>>

SurvivorsBelow(head) == {seq \in DOMAIN blob : seq < head /\ seq > head - SNAPSHOT_KEEP}

(* recoverHead: only over a head that could not be read, from the newest    *)
(* snapshot left in the window, else from the node's search text.  What was *)
(* typed meanwhile is written aside first.                                 *)
Recover ==
    /\ op = Idle
    /\ spent.installs < MaxInstalls
    /\ LET m == Opened
           below == SurvivorsBelow(m.seq)
           newest == CHOOSE seq \in below : \A other \in below : other <= seq
       IN  /\ m.hydrationIncomplete
           /\ below # {} \/ indexed.text \notin {NoHash, <<{}>>}
           /\ live' = m
           /\ stranded' = stranded \cup (IF Text(m.doc) # {} THEN m.doc ELSE {})
           /\ op' = [Installing(IF below # {} THEN blob[newest] ELSE indexed.text[1])
                        EXCEPT !.then = "recover"]
    /\ alarm' = OpenedAlarm(alarm)
    /\ spent' = [spent EXCEPT !.installs = @ + 1]
    /\ UNCHANGED <<meta, log, blob, jobs, nodeVars>>

PutHead ==
    /\ op.is = "install" /\ op.at = "put"
    /\ blob' = WithSnapshot(live.seq + 1, op.doc)
    /\ op' = [op EXCEPT !.at = "meta"]
    /\ Calm /\ UNCHANGED <<live, meta, log, alarm, stranded, jobs, nodeVars>>

(* The new head, its generation and its version, in memory and in meta. *)
CommitHead ==
    /\ op.at = "meta"
    /\ live' = [WithVersion(live, live.seq + 1, VersionHash(op.doc))
                   EXCEPT !.seq = @ + 1, !.epoch = @ + 1, !.hydrationIncomplete = FALSE]
    /\ meta' = Meta(live')
    /\ op' = [op EXCEPT !.at = "drop", !.evicted = EvictedBy(live.ring)]
    /\ Calm /\ UNCHANGED <<log, alarm, blob, stranded, jobs, nodeVars>>

(* ... and the superseded log after it. *)
DropLog ==
    /\ op.at = "drop"
    /\ log' = {}
    /\ op' = [op EXCEPT !.at = "send"]
    /\ Calm /\ UNCHANGED <<live, meta, alarm, blob, stranded, jobs, nodeVars>>

-----------------------------------------------------------------------------
(* The instance goes away *)

(* The host evicts an idle actor; its alarm row stays and reopens it. *)
Evict ==
    /\ op = Idle /\ live.loaded
    /\ live' = Unloaded
    /\ Calm /\ UNCHANGED <<op, meta, log, alarm, blob, stranded, jobs, nodeVars>>

(* The process dies between two writes. *)
Crash ==
    /\ Incident("crash")
    /\ live' = Unloaded /\ op' = Idle
    /\ UNCHANGED <<meta, log, alarm, blob, stranded, jobs, nodeVars>>

(* The head's snapshot is gone from the blob store when the actor opens. *)
LoseSnapshot ==
    /\ ~live.loaded /\ op = Idle
    /\ Readable(meta.seq)
    /\ Incident("lose")
    /\ blob' = [seq \in DOMAIN blob \ {meta.seq} |-> blob[seq]]
    /\ UNCHANGED <<actorVars, stranded, jobs, nodeVars>>

-----------------------------------------------------------------------------
(* The node: index jobs, at least once and in any order; deleting versions *)

(* Mutant: a late job lowers the floor again. *)
RecordedAsSent(j) ==
    IF j.version THEN versions' = versions \cup {j.seq} /\ floor' = j.floor
    ELSE UNCHANGED <<versions, floor>>

(* recordVersion: the row is inserted once, the floor only rises. *)
Recorded(j) ==
    IF j.version
    THEN /\ versions' = versions \cup {j.seq}
         /\ floor' = IF j.floor > floor THEN j.floor ELSE floor
    ELSE UNCHANGED <<versions, floor>>

(* The text of a seq the row has not reached is indexed; text the row       *)
(* already holds only moves its seq, onto the newest version of that text.  *)
IndexedAfter(j) ==
    LET text == <<IF Readable(j.seq) THEN Text(blob[j.seq]) ELSE {}>>
        upTo == {v \in versions' : v <= j.seq /\ v >= indexed.seq}
        rest == IF upTo = {} THEN j.seq ELSE CHOOSE v \in upTo : \A w \in upTo : w <= v
    IN  IF indexed.seq >= j.seq THEN indexed
        ELSE IF text # indexed.text THEN [seq |-> j.seq, text |-> text]
        ELSE [indexed EXCEPT !.seq = rest]

(* handleIndexDoc to its end; a redelivery finds the job still there. *)
RunJob(j, acked) ==
    /\ Recorded(j)
    /\ indexed' = IndexedAfter(j)
    /\ jobs' = IF acked THEN jobs \ {j} ELSE jobs
    /\ Calm /\ UNCHANGED <<actorVars, blob, stranded>>

(* It threw after the version was recorded, and is retried. *)
JobFails(j) ==
    /\ j.version
    /\ Recorded(j)
    /\ Calm /\ UNCHANGED <<actorVars, blob, stranded, jobs, indexed>>

(* Mutant: the row's own seq may be deleted. *)
DeleteUpToHead(seq) ==
    /\ seq <= indexed.seq
    /\ Cardinality(spent.deleted) < MaxDeletes
    /\ blob' = [s \in DOMAIN blob \ {seq} |-> blob[s]]
    /\ versions' = versions \ {seq}
    /\ spent' = [spent EXCEPT !.deleted = @ \cup {seq}]
    /\ UNCHANGED <<actorVars, stranded, jobs, floor, indexed>>

(* deleteDocVersion: never the row's own seq or one past it. *)
DeleteVersion(seq) ==
    /\ seq < indexed.seq
    /\ Cardinality(spent.deleted) < MaxDeletes
    /\ blob' = [s \in DOMAIN blob \ {seq} |-> blob[s]]
    /\ versions' = versions \ {seq}
    /\ spent' = [spent EXCEPT !.deleted = @ \cup {seq}]
    /\ UNCHANGED <<actorVars, stranded, jobs, floor, indexed>>

-----------------------------------------------------------------------------

(* What the lock holder does next. *)
Continue ==
    \/ PutSnapshot \/ Send \/ CommitSnapshot \/ Prune \/ AlarmPromotes
    \/ PutHead \/ CommitHead \/ DropLog

Next ==
    \/ \E e \in Edits : Type(e) \/ Write(e)
    \/ Leave \/ FireAlarm
    \/ \E target \in DOMAIN blob : Restore(target)
    \/ Recover
    \/ PutSnapshot \/ Send \/ CommitSnapshot \/ Prune \/ AlarmPromotes
    \/ PutHead \/ CommitHead \/ DropLog
    \/ PutFails \/ SendFails
    \/ Evict \/ Crash \/ LoseSnapshot
    \/ \E j \in jobs : RunJob(j, TRUE) \/ RunJob(j, FALSE) \/ JobFails(j)
    \/ \E seq \in DOMAIN blob \cup versions : DeleteVersion(seq)

(* A handler that holds the lock runs on, an alarm that is set fires, and   *)
(* the job worker gets round to every job.                                 *)
Fairness ==
    /\ WF_vars(Continue \/ PutFails \/ SendFails)
    /\ WF_vars(FireAlarm)
    /\ WF_vars(\E j \in jobs : RunJob(j, TRUE))

Spec == Init /\ [][Next]_vars
FairSpec == Spec /\ Fairness

-----------------------------------------------------------------------------
(* Properties *)

Docs == SUBSET Edits
Hashes == {NoHash} \cup {<<doc>> : doc \in Docs}
Metas == [seq : Nat, epoch : Nat, ring : Seq(Nat), lastHash : Hashes]

(* The shape of every variable. *)
TypeOK ==
    /\ Meta(live) \in Metas /\ meta \in Metas
    /\ live.loaded \in BOOLEAN /\ live.dirty \in BOOLEAN /\ live.hydrationIncomplete \in BOOLEAN
    /\ live.doc \in Docs /\ live.pending \in Docs /\ live.sincePersist \in 0 .. PERSIST_THRESHOLD - 1
    /\ op.is \in {"idle", "flush", "promote", "checkpoint", "install", "alarm"}
    /\ op.at \in {"", "put", "send", "commit", "prune", "meta", "drop", "promote"}
    /\ log \in Docs /\ alarm \in BOOLEAN /\ stranded \in Docs
    /\ DOMAIN blob \subseteq Nat /\ \A seq \in DOMAIN blob : blob[seq] \in Docs
    /\ \A j \in jobs : j.seq \in Nat /\ j.version \in BOOLEAN /\ j.floor \in Nat
    /\ versions \subseteq Nat /\ floor \in Nat
    /\ indexed.seq \in Nat /\ indexed.text \in Hashes

(* What a restart would bring back, with what recover put aside. *)
Stored == log \cup stranded \cup (IF Readable(meta.seq) THEN blob[meta.seq] ELSE {})

(* No flush, failed flush, crash, pruning or retry takes back an edit that  *)
(* the log or the head snapshot once held; only a head install replaces     *)
(* the document, and only the blob store itself can lose the head.          *)
StoredStays == \/ op.is = "install"
               \/ spent' # spent /\ meta' = meta /\ Readable(meta.seq) /\ meta.seq \notin DOMAIN blob'
               \/ Stored \subseteq Stored'
NothingStoredIsLost == [][StoredStays]_vars

(* A document the instance calls clean is the stored head exactly, unless a *)
(* person deleted that version: a rolled-back flush is never mistaken for a *)
(* saved one, and no pruning takes the head from under it.                 *)
CleanMeansSaved ==
    (op = Idle /\ live.loaded /\ ~live.dirty /\ ~live.hydrationIncomplete) =>
        /\ Meta(live) = meta /\ log = {}
        /\ meta.seq = 0 => live.doc = {}
        /\ meta.seq > 0 /\ meta.seq \notin spent.deleted => Readable(meta.seq) /\ live.doc = blob[meta.seq]

(* Unsaved edits in memory always have an alarm coming: after a failed      *)
(* flush, a replayed log, an alarm that was consumed to run this handler.   *)
DirtyHasBackstop == (op = Idle /\ live.dirty) => alarm

(* What a step that installs a head replaces: a version of that text stands *)
(* in the ring with its bytes, unless there was none or a person deleted it. *)
ReplacedIsVersion ==
    \/ Text(live.doc) = {}
    \/ Newest(meta.ring) \in spent.deleted
    \/ \E i \in DOMAIN meta'.ring :
        LET seq == meta'.ring[i]
        IN  seq \in DOMAIN blob' /\ Text(blob'[seq]) = Text(live.doc)

(* Replacing a head the instance could read, or rebuilding one it could     *)
(* not, never discards text: it is a version, or was written aside, however *)
(* often a flush, a checkpoint or a promotion failed on the way.           *)
ReplacedIsKept ==
    [][ (meta'.epoch # meta.epoch /\ (live.hydrationIncomplete => op.then = "recover")) =>
          IF live.hydrationIncomplete THEN Text(live.doc) \subseteq stranded
          ELSE ReplacedIsVersion ]_vars

(* head.ts says of every restore that what it replaces is recorded first.   *)
RestoreCanBeUndone ==
    [][ (meta'.epoch # meta.epoch /\ op.then # "recover") => ReplacedIsVersion ]_vars

(* With no job outstanding and nothing in flight: *)
Quiet == jobs = {} /\ op = Idle

(* retainedVersion, the SQL every version listing filters by. *)
Listed(v) ==
    \/ v > indexed.seq - SNAPSHOT_KEEP
    \/ v % SNAPSHOT_MILESTONE = 0
    \/ floor > 0 /\ v >= floor

(* ... a version the list offers has its bytes unless someone deleted it,   *)
(* though the actor prunes by its own head and ring and the node lists by   *)
(* its own seq and floor, fed by jobs that come late, twice or out of order. *)
ListedHasBytes == Quiet => \A v \in versions \ spent.deleted : Listed(v) => Readable(v)

(* ... the versions from the floor up are the ring, so the actor keeps and   *)
(* the node offers the same ones, those someone deleted apart.              *)
RingIsListed ==
    Quiet => /\ floor = IF meta.ring = <<>> THEN 0 ELSE Head(meta.ring)
             /\ {v \in versions : v >= floor} \ spent.deleted
                   = {meta.ring[i] : i \in DOMAIN meta.ring} \ spent.deleted

(* ... both at once: the node's list, the actor's ring and the bytes kept.  *)
ListMatchesRing == ListedHasBytes /\ RingIsListed

(* ... the text search and the wiki hold is the text of the saved head, as   *)
(* index-doc.ts assumes when unchanged text leaves the row at an older       *)
(* version: "every seq since the row's holds this text".                    *)
IndexIsCurrent ==
    (Quiet /\ Readable(meta.seq) /\ ~ParkedOnly(blob[meta.seq])) =>
        indexed.text = VersionHash(blob[meta.seq])

(* The head a restart would load is never deleted from the history list.    *)
HeadIsReadable == (op = Idle /\ meta.seq > 0) => Readable(meta.seq)

(* A mirrored edit does not stay in the log: it reaches a snapshot, whether *)
(* the actor stays resident, is evicted or fails a flush in between.        *)
LogDrains == \A e \in Edits : e \in log ~> e \notin log
=============================================================================
