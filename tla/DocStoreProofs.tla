--------------------------- MODULE DocStoreProofs ---------------------------
(* Proofs about a document's storage, for any edits, retention, incidents   *)
(* and bounds: what the log or the head held stays, what is unsaved has an   *)
(* alarm coming, what the instance calls saved is saved, what a head install *)
(* replaces has a version, and, short of crashes, lost answers and lost      *)
(* blobs, the head stays readable and the node lists the actor's versions.   *)
EXTENDS DocStore, TLAPS, WellFoundedInduction, SequenceTheorems

Live == [loaded : BOOLEAN, doc : Docs, seq : Nat, epoch : Nat, ring : Seq(Nat), lastHash : Hashes,
         pending : Docs, dirty : BOOLEAN, sincePersist : 0 .. PERSIST_THRESHOLD - 1,
         hydrationIncomplete : BOOLEAN, owedMemo : {<<>>} \cup (Nat \X Hashes)]

OpKinds == {"idle", "flush", "promote", "checkpoint", "install", "alarm"}
OpStops == {"", "put", "send", "commit", "prune", "meta", "drop", "promote"}
OpNexts == {"", "alarm", "install", "arm", "recover"}
Prevs == {<<>>} \cup (Seq(Nat) \X Hashes)

Ops == [is : OpKinds, at : OpStops, doc : Docs, hash : Hashes, prev : Prevs, evicted : SUBSET Nat,
        version : BOOLEAN, then : OpNexts]

ActorTypes ==
    /\ live \in Live /\ op \in Ops /\ meta \in Metas
    /\ log \in Docs /\ alarm \in BOOLEAN /\ stranded \in Docs

BlobTypes == DOMAIN blob \subseteq Nat \ {0} /\ \A seq \in DOMAIN blob : blob[seq] \in Docs

JobTypes == \A j \in jobs : j.seq \in Nat /\ j.version \in BOOLEAN /\ j.floor \in Nat

NodeTypes ==
    /\ versions \subseteq Nat /\ floor \in Nat
    /\ indexed \in [seq : Nat, text : Hashes]

SpentTypes == spent \in [incidents : Nat, installs : Nat, deleted : SUBSET Nat]

Typed == ActorTypes /\ BlobTypes /\ JobTypes /\ NodeTypes /\ SpentTypes

(* How far each handler can have come, and what it will go back to. *)
Phase(o) ==
    /\ \/ o = Idle
       \/ o.is = "flush" /\ o.at \in {"put", "send", "commit", "prune"} /\ o.then \in {"", "alarm"}
       \/ o.is = "checkpoint" /\ o.at \in {"put", "send", "commit", "prune"} /\ o.then = "install"
       \/ o.is = "promote" /\ o.at \in {"send", "prune"} /\ o.then \in {"", "arm"} /\ o.version
       \/ /\ o.is = "install" /\ o.at \in {"put", "meta", "drop", "send", "prune"}
          /\ o.then \in {"", "recover"} /\ o.version
       \/ o.is = "alarm" /\ o.at = "promote"
    /\ o.is \in {"flush", "checkpoint", "promote"} => o.prev # <<>>

(* A head was installed: what is in memory goes as soon as that is pruned. *)
Replaced == op.is = "install" /\ op.at \in {"drop", "send", "prune"}

(* Memory m is the stored document with the log and more edits applied. *)
Held(m) ==
    /\ m.loaded /\ m.seq = meta.seq /\ m.epoch = meta.epoch
    /\ log \subseteq m.pending /\ m.pending \subseteq m.doc
    /\ ~m.dirty => m.pending = {} /\ m.sincePersist = 0

(* ... on top of the head snapshot, which only a person may have deleted. *)
OnHead(m) ==
    /\ Readable(meta.seq) => ~m.hydrationIncomplete /\ blob[meta.seq] \subseteq m.doc
    /\ ~m.hydrationIncomplete /\ meta.seq > 0 /\ meta.seq \notin spent.deleted => Readable(meta.seq)
    /\ ~m.dirty /\ ~m.hydrationIncomplete =>
        /\ meta.seq = 0 => m.doc = {}
        /\ Readable(meta.seq) => m.doc = blob[meta.seq]

Memory ==
    /\ \/ live = Unloaded /\ op = Idle
       \/ Held(live) /\ (~Replaced => OnHead(live))
    /\ live.loaded /\ (InSnapshot => op.at \in {"put", "prune"}) => Meta(live) = meta

(* A snapshot being written: what it will roll back to, and its blob. *)
InFlight ==
    /\ InSnapshot =>
        /\ ~live.hydrationIncomplete
        /\ op.at # "prune" => op.prev = <<meta.ring, meta.lastHash>>
        /\ op.at \in {"send", "commit"} => Readable(live.seq + 1) /\ blob[live.seq + 1] = live.doc
    /\ op.is = "promote" \/ (InSnapshot /\ op.at = "prune") => ~live.dirty
    /\ op.version /\ op.at \in {"drop", "send"} => live.ring # <<>>

Backstop == (op = Idle \/ op.is \in {"checkpoint", "install"}) /\ live.dirty => alarm

(* The node is at most one head ahead, a crash or a lost answer between; so *)
(* nobody can delete past the stored head, and no deleted number comes back. *)
AtNode ==
    /\ \A j \in jobs : j.seq <= meta.seq + 1
    /\ indexed.seq <= meta.seq + 1
    /\ \A seq \in spent.deleted : seq <= meta.seq /\ ~Readable(seq)

DInv == Typed /\ Phase(op) /\ Memory /\ InFlight /\ Backstop /\ AtNode

-----------------------------------------------------------------------------
(* Hashes, rings and the instance's fields *)

(* A set of bounded numbers has a highest. *)
LEMMA HighestExists ==
  ASSUME NEW n \in Nat, NEW S \in SUBSET (0 .. n), S # {}
  PROVE  \E h \in S : \A s \in S : s <= h
<1> DEFINE J == {m \in Nat : n - m \in S}
<1>1. J \in SUBSET Nat /\ J # {}
  <2>1. PICK s \in S : TRUE
    OBVIOUS
  <2>2. n - (n - s) = s /\ n - s \in Nat
    OBVIOUS
  <2> QED BY <2>1, <2>2
<1>2. IsWellFoundedOn(OpToRel(<, Nat), Nat)
  BY NatLessThanWellFounded
<1> HIDE DEF J
<1>3. PICK i \in J : \A j \in J : ~(<<j, i>> \in OpToRel(<, Nat))
  BY <1>1, <1>2, WFMin
<1>4. \A j \in J : i <= j
  <2>1. \A j \in J : ~(j < i)
    BY <1>1, <1>3 DEF OpToRel
  <2> QED BY <1>1, <2>1
<1>5. \A s \in S : s <= n - i
  <2> TAKE s \in S
  <2>1. n - s \in Nat /\ n - (n - s) = s
    OBVIOUS
  <2>2. i <= n - s
    BY <1>4, <2>1 DEF J
  <2> QED BY <1>1, <2>2
<1>6. n - i \in S
  BY <1>3 DEF J
<1> QED BY <1>5, <1>6

(* The text of a document is a document, its hash is a hash. *)
LEMMA HashOK ==
  ASSUME NEW doc \in Docs
  PROVE  Text(doc) \in Docs /\ VersionHash(doc) \in Hashes /\ VersionHash(doc) # NoHash
BY DEF Docs, Text, Hashes, VersionHash, NoHash

(* Entering a version leaves a ring with it at the end. *)
LEMMA NotedOK ==
  ASSUME NEW ring \in Seq(Nat), NEW seq \in Nat
  PROVE  /\ Noted(ring, seq) \in Seq(Nat) /\ Noted(ring, seq) # <<>>
         /\ EvictedBy(ring) \subseteq Nat
<1> DEFINE longer == Append(ring, seq)
<1>1. longer \in Seq(Nat) /\ Len(longer) = Len(ring) + 1 /\ longer # <<>>
  BY AppendProperties
<1> HIDE DEF longer
<1>2. Noted(ring, seq) = IF Len(longer) > VERSION_KEEP THEN Tail(longer) ELSE longer
  BY DEF Noted, longer
<1>3. Len(longer) > VERSION_KEEP => Tail(longer) \in Seq(Nat) /\ Tail(longer) # <<>>
  <2> HAVE Len(longer) > VERSION_KEEP
  <2>1. Tail(longer) \in Seq(Nat) /\ Len(Tail(longer)) = Len(longer) - 1 /\ Len(longer) > 1
    BY <1>1, RetentionAssumption, HeadTailProperties
  <2>2. Len(Tail(longer)) # 0
    BY <1>1, <2>1
  <2> QED BY <2>1, <2>2, EmptySeq
<1>4. EvictedBy(ring) \subseteq Nat
  <2>1. CASE Len(ring) < VERSION_KEEP
    BY <2>1 DEF EvictedBy
  <2>2. CASE ~(Len(ring) < VERSION_KEEP)
    <3>1. ring # <<>>
      BY <2>2, RetentionAssumption, EmptySeq
    <3> QED BY <2>2, <3>1, HeadTailProperties DEF EvictedBy
  <2> QED BY <2>1, <2>2
<1> QED BY <1>1, <1>2, <1>3, <1>4

(* Memory that stands for what is stored. *)
Current(m) == m \in Live /\ Held(m) /\ OnHead(m) /\ Meta(m) = meta

(* The two differ at most in the ring, its hash and the remembered verdict. *)
Same(m, n) ==
    /\ m.loaded = n.loaded /\ m.doc = n.doc /\ m.seq = n.seq /\ m.epoch = n.epoch
    /\ m.pending = n.pending /\ m.dirty = n.dirty /\ m.sincePersist = n.sincePersist
    /\ m.hydrationIncomplete = n.hydrationIncomplete

(* What memory holds does not depend on the ring. *)
LEMMA SameHolds ==
  ASSUME NEW m, NEW n, Same(m, n)
  PROVE  (Held(m) => Held(n)) /\ (OnHead(m) => OnHead(n))
BY DEF Same, Held, OnHead

(* Loading brings back what is stored, and arms what it finds unsaved. *)
LEMMA OpenedOK ==
  ASSUME DInv, op = Idle
  PROVE  Current(Opened) /\ (Opened.dirty => OpenedAlarm(alarm))
<1>1. CASE live.loaded
  <2>1. Opened = live
    BY <1>1 DEF Opened
  <2>2. Held(live) /\ OnHead(live) /\ Meta(live) = meta
    <3>1. ~InSnapshot /\ ~Replaced
      BY DEF Idle, InSnapshot, Replaced
    <3>2. live # Unloaded
      BY <1>1 DEF Unloaded
    <3> QED BY <1>1, <3>1, <3>2 DEF DInv, Memory
  <2>3. live.dirty => alarm
    BY DEF DInv, Backstop
  <2> QED BY <2>1, <2>2, <2>3 DEF DInv, Typed, ActorTypes, Current, OpenedAlarm
<1>2. CASE ~live.loaded
  <2> DEFINE doc == log \cup (IF Readable(meta.seq) THEN blob[meta.seq] ELSE {})
             m == [loaded |-> TRUE, doc |-> doc,
                   seq |-> meta.seq, epoch |-> meta.epoch, ring |-> meta.ring,
                   lastHash |-> meta.lastHash, pending |-> log, dirty |-> log # {},
                   sincePersist |-> 0,
                   hydrationIncomplete |-> meta.seq > 0 /\ ~Readable(meta.seq), owedMemo |-> <<>>]
  <2>1. Opened = m
    BY <1>2 DEF Opened
  <2>2. doc \in Docs /\ meta \in Metas /\ log \in Docs
    BY DEF DInv, Typed, ActorTypes, BlobTypes, Readable, Docs
  <2>3. Readable(meta.seq) => meta.seq > 0
    BY <2>2 DEF DInv, Typed, BlobTypes, Readable, Metas
  <2>4. m \in Live
    <3> HIDE DEF doc
    <3> QED BY <2>2, RetentionAssumption DEF Live, Metas
  <2>5. Meta(m) = meta
    BY <2>2 DEF Meta, Metas
  <2>6. Held(m)
    BY DEF Held
  <2>7. OnHead(m)
    <3>1. CASE Readable(meta.seq)
      <4>1. doc = log \cup blob[meta.seq] /\ meta.seq > 0 /\ meta.seq \in Nat
        BY <2>2, <2>3, <3>1 DEF Metas
      <4>2. log = {} => doc = blob[meta.seq]
        BY <4>1
      <4>3. blob[meta.seq] \subseteq doc
        BY <4>1
      <4> HIDE DEF doc
      <4>4. m.doc = doc /\ (m.dirty <=> log # {}) /\ ~m.hydrationIncomplete
        BY <3>1
      <4> HIDE DEF m
      <4> QED BY <3>1, <4>1, <4>2, <4>3, <4>4 DEF OnHead
    <3>2. CASE ~Readable(meta.seq)
      <4>1. meta.seq \in Nat /\ (log = {} => doc = {})
        BY <2>2, <3>2 DEF Metas
      <4> HIDE DEF doc
      <4> QED BY <3>2, <4>1 DEF OnHead
    <3> QED BY <3>1, <3>2
  <2>8. m.dirty => OpenedAlarm(alarm)
    BY <1>2 DEF OpenedAlarm
  <2> HIDE DEF m
  <2> QED BY <2>1, <2>4, <2>5, <2>6, <2>7, <2>8 DEF Current
<1> QED BY <1>1, <1>2

(* Edits are documents. *)
LEMMA EditedOK ==
  ASSUME NEW m \in Live, NEW d \in Docs, NEW p \in Docs, NEW k \in Nat
  PROVE  LET n == [m EXCEPT !.doc = d, !.pending = p, !.dirty = TRUE, !.sincePersist = k]
         IN  /\ k < PERSIST_THRESHOLD => n \in Live
             /\ [n EXCEPT !.sincePersist = 0] \in Live
<1>1. k < PERSIST_THRESHOLD => k \in 0 .. PERSIST_THRESHOLD - 1
  BY RetentionAssumption
<1>2. 0 \in 0 .. PERSIST_THRESHOLD - 1
  BY RetentionAssumption
<1>3. ASSUME k < PERSIST_THRESHOLD
      PROVE  [m EXCEPT !.doc = d, !.pending = p, !.dirty = TRUE, !.sincePersist = k] \in Live
  BY <1>1, <1>3 DEF Live
<1>4. [[m EXCEPT !.doc = d, !.pending = p, !.dirty = TRUE, !.sincePersist = k]
          EXCEPT !.sincePersist = 0] \in Live
  BY <1>2 DEF Live
<1> QED BY <1>3, <1>4

(* An edit applied to memory, whose mirroring may be due. *)
LEMMA JournaledOK ==
  ASSUME NEW e \in Edits, NEW m, Current(m)
  PROVE  LET n == Journaled(m, e)
         IN  /\ Held(n) /\ OnHead(n) /\ Meta(n) = meta
             /\ n.dirty /\ n.sincePersist = m.sincePersist + 1
             /\ n.pending \in Docs /\ m.doc \subseteq n.doc
             /\ n.sincePersist < PERSIST_THRESHOLD => n \in Live
             /\ [n EXCEPT !.sincePersist = 0] \in Live
<1> DEFINE n == Journaled(m, e)
           z == [n EXCEPT !.sincePersist = 0]
<1>1. m \in Live /\ Held(m) /\ OnHead(m) /\ Meta(m) = meta
  BY DEF Current
<1>2. /\ n.loaded = m.loaded /\ n.doc = m.doc \cup {e} /\ n.seq = m.seq /\ n.epoch = m.epoch
      /\ n.ring = m.ring /\ n.lastHash = m.lastHash /\ n.pending = m.pending \cup {e}
      /\ n.dirty = TRUE /\ n.sincePersist = m.sincePersist + 1
      /\ n.hydrationIncomplete = m.hydrationIncomplete
  BY <1>1 DEF Live, Journaled
<1>3. m.doc \cup {e} \in Docs /\ m.pending \cup {e} \in Docs /\ m.sincePersist + 1 \in Nat
  BY <1>1 DEF Live, Docs
<1>4. (n.sincePersist < PERSIST_THRESHOLD => n \in Live) /\ z \in Live
  <2> DEFINE d == m.doc \cup {e}
             p == m.pending \cup {e}
             k == m.sincePersist + 1
  <2>1. n = [m EXCEPT !.doc = d, !.pending = p, !.dirty = TRUE, !.sincePersist = k]
    BY DEF Journaled
  <2>2. d \in Docs /\ p \in Docs /\ k \in Nat /\ n.sincePersist = k
    BY <1>2, <1>3
  <2> HIDE DEF n, d, p, k
  <2> QED BY <1>1, <2>1, <2>2, EditedOK
<1> HIDE DEF n, z
<1>5. Held(n) /\ OnHead(n)
  BY <1>1, <1>2 DEF Held, OnHead
<1>6. Meta(n) = meta
  BY <1>1, <1>2 DEF Meta
<1> QED BY <1>2, <1>3, <1>4, <1>5, <1>6 DEF n, z

(* A version entered, in memory. *)
LEMMA WithVersionOK ==
  ASSUME NEW m \in Live, NEW seq \in Nat, NEW hash \in Hashes
  PROVE  LET n == WithVersion(m, seq, hash)
         IN  /\ n \in Live /\ Same(m, n) /\ n.ring # <<>>
             /\ n.ring = Noted(m.ring, seq) /\ n.lastHash = hash /\ n.owedMemo = m.owedMemo
<1>1. Noted(m.ring, seq) \in Seq(Nat) /\ Noted(m.ring, seq) # <<>>
  BY NotedOK DEF Live
<1> QED BY <1>1 DEF WithVersion, Same, Live

(* ... and taken back. *)
LEMMA RolledBackOK ==
  ASSUME NEW m \in Live, NEW prev \in Seq(Nat) \X Hashes
  PROVE  LET n == RolledBack(m, prev)
         IN  n \in Live /\ Same(m, n) /\ n.ring = prev[1] /\ n.lastHash = prev[2]
BY DEF RolledBack, Same, Live

(* Remembering that nothing is owed leaves ring and hash alone. *)
LEMMA VerdictOK ==
  ASSUME NEW m \in Live
  PROVE  LET n == Verdict(m)
         IN  n \in Live /\ Same(m, n) /\ n.ring = m.ring /\ n.lastHash = m.lastHash
             /\ Meta(n) = Meta(m)
<1>1. <<m.seq, m.lastHash>> \in Nat \X Hashes
  BY DEF Live
<1> QED BY <1>1 DEF Verdict, Same, Live, Meta

-----------------------------------------------------------------------------
(* What a handler leaves in flight *)

(* No handler in flight is a handler like the others. *)
LEMMA IdleOK ==
  Idle \in Ops /\ Phase(Idle) /\ Idle.is = "idle" /\ Idle.at = "" /\ Idle.then = "" /\ ~Idle.version
BY DEF Idle, Ops, OpKinds, OpStops, OpNexts, Prevs, Hashes, NoHash, Docs, Phase

(* A snapshot about to be written from memory m. *)
Starting(o, kind, m, next) ==
    /\ o \in Ops /\ o.is = kind /\ o.at = "put" /\ o.then = next /\ ~o.version
    /\ o.prev = <<m.ring, m.lastHash>> /\ o.hash \in {NoHash, VersionHash(m.doc)}

(* A snapshot that starts is in the phase of its kind. *)
LEMMA StartingOK ==
  ASSUME NEW o, NEW m,
         \/ \E next \in {"", "alarm"} : Starting(o, "flush", m, next)
         \/ Starting(o, "checkpoint", m, "install")
  PROVE  Phase(o)
<1>1. <<m.ring, m.lastHash>> # <<>>
  OBVIOUS
<1> QED BY <1>1 DEF Starting, Phase

(* What a snapshot of memory that stands for the store finds in flight. *)
LEMMA StartingInFlight ==
  ASSUME NEW kind \in {"flush", "checkpoint"}, NEW next,
         Starting(op', kind, live', next), Meta(live') = meta', ~live'.hydrationIncomplete
  PROVE  InFlight'
<1>1. meta'.ring = live'.ring /\ meta'.lastHash = live'.lastHash
  BY DEF Meta
<1>2. op'.prev = <<meta'.ring, meta'.lastHash>> /\ op'.is = kind /\ op'.at = "put" /\ ~op'.version
  BY <1>1 DEF Starting
<1> QED BY <1>2 DEF InFlight, InSnapshot

(* writeSnapshot starts with what it will roll back to. *)
LEMMA SnapshottingOK ==
  ASSUME NEW m \in Live, NEW kind \in {"flush", "checkpoint"}, NEW due \in BOOLEAN,
         NEW next \in OpNexts, NEW doc \in Docs
  PROVE  Starting(Snapshotting(m, kind, due, next, doc), kind, m, next)
<1> DEFINE hash == IF due THEN VersionHash(m.doc) ELSE NoHash
           prev == <<m.ring, m.lastHash>>
           o == [Idle EXCEPT !.is = kind, !.at = "put", !.doc = doc, !.then = next, !.hash = hash,
                             !.prev = prev]
<1>1. Snapshotting(m, kind, due, next, doc) = o
  BY DEF Snapshotting
<1>2. hash \in Hashes /\ prev \in Prevs
  BY HashOK DEF Live, Hashes, NoHash, Prevs
<1>3. /\ o \in Ops /\ o.is = kind /\ o.at = "put" /\ o.then = next /\ ~o.version /\ o.prev = prev
      /\ o.hash = hash
  <2> HIDE DEF hash, prev
  <2> QED BY <1>2, IdleOK DEF Ops, OpKinds, OpStops
<1> QED BY <1>1, <1>3 DEF Starting

(* An install starts with its blob still to put. *)
LEMMA InstallingOK ==
  ASSUME NEW doc \in Docs
  PROVE  LET o == Installing(doc)
         IN  /\ o \in Ops /\ Phase(o) /\ o.is = "install" /\ o.at = "put" /\ o.version
             /\ o.then = ""
BY IdleOK DEF Installing, Ops, OpKinds, OpStops, Phase

(* What a handler gives way to starts in a phase of its own. *)
LEMMA GiveWayOK ==
  ASSUME NEW o \in Ops
  PROVE  LET n == GiveWay(o)
         IN  /\ n \in Ops /\ Phase(n)
             /\ o.then = "alarm" => n.is = "alarm" /\ n.at = "promote"
             /\ o.then = "install" => n = Installing(o.doc)
             /\ o.then \notin {"alarm", "install"} => n = Idle
<1>1. CASE o.then = "alarm"
  <2>1. GiveWay(o) = [Idle EXCEPT !.is = "alarm", !.at = "promote"]
    BY <1>1 DEF GiveWay
  <2> QED BY <1>1, <2>1, IdleOK DEF Ops, OpKinds, OpStops, Phase
<1>2. CASE o.then = "install"
  <2>1. GiveWay(o) = Installing(o.doc)
    BY <1>2 DEF GiveWay
  <2>2. o.doc \in Docs
    BY DEF Ops
  <2> QED BY <1>2, <2>1, <2>2, InstallingOK
<1>3. CASE o.then \notin {"alarm", "install"}
  <2>1. GiveWay(o) = Idle
    BY <1>3 DEF GiveWay
  <2> QED BY <1>3, <2>1, IdleOK
<1> QED BY <1>1, <1>2, <1>3

(* What a flush writes of memory n is what it was called with, m. *)
SameText(m, n) ==
    /\ n.doc = m.doc /\ n.ring = m.ring /\ n.lastHash = m.lastHash
    /\ n.dirty = m.dirty /\ n.hydrationIncomplete = m.hydrationIncomplete

(* A flush starts, or there is nothing it may save and the caller goes on. *)
LEMMA FlushOK ==
  ASSUME NEW m, NEW n \in Live, SameText(m, n),
         NEW reason, NEW next \in {"", "alarm"}, Flush(m, reason, next)
  PROVE  \/ CanFlush(n) /\ Starting(op', "flush", n, next)
         \/ next = "" /\ op' = Idle
         \/ next = "alarm" /\ op' \in Ops /\ op'.is = "alarm" /\ op'.at = "promote"
<1>1. CASE CanFlush(m)
  <2>1. PICK due \in Due(m, m.seq + 1, reason) : op' = Snapshotting(m, "flush", due, next, {})
    BY <1>1 DEF Flush
  <2>2. Snapshotting(m, "flush", due, next, {}) = Snapshotting(n, "flush", due, next, {})
    BY DEF Snapshotting, SameText
  <2>3. due \in BOOLEAN /\ {} \in Docs /\ next \in OpNexts
    BY DEF Due, Docs, OpNexts
  <2>4. Starting(op', "flush", n, next)
    BY <2>1, <2>2, <2>3, SnapshottingOK
  <2> QED BY <1>1, <2>4 DEF CanFlush, SameText
<1>2. CASE ~CanFlush(m)
  <2> DEFINE o == [Idle EXCEPT !.then = next]
  <2>1. op' = GiveWay(o)
    BY <1>2 DEF Flush
  <2>2. o \in Ops /\ o.then = next
    BY IdleOK DEF Ops, OpNexts
  <2> HIDE DEF o
  <2> QED BY <2>1, <2>2, GiveWayOK
<1> QED BY <1>1, <1>2

-----------------------------------------------------------------------------
(* Every step keeps DInv *)

(* The parts of DInv the store of a document is not in. *)
Aside == <<log, blob, stranded, jobs, nodeVars, spent>>

(* A promotion of what memory m stands for, a saved head or none. *)
LEMMA PromoteStep ==
  ASSUME DInv, NEW m, Current(m), NEW reason, NEW next \in {"", "arm"}, NEW before \in BOOLEAN,
         m.dirty => before \/ next = "arm",
         Promote(m, reason, next, before), UNCHANGED Aside
  PROVE  DInv'
<1> m \in Live /\ Held(m) /\ OnHead(m) /\ Meta(m) = meta
  BY DEF Current
<1> PICK due \in Due(m, m.seq, reason) :
      IF due /\ Owed(m)
      THEN /\ live' = WithVersion(m, m.seq, VersionHash(m.doc))
           /\ op' = [Idle EXCEPT !.is = "promote", !.at = "send", !.then = next,
                                 !.prev = <<m.ring, m.lastHash>>, !.version = TRUE,
                                 !.evicted = EvictedBy(m.ring)]
           /\ meta' = Meta(live')
           /\ alarm' = before
      ELSE /\ live' = IF due THEN Verdict(m) ELSE m
           /\ op' = Idle
           /\ alarm' = (before \/ (next = "arm" /\ Armed(live')))
           /\ UNCHANGED meta
  BY DEF Promote
<1>1. /\ live' \in Live /\ Same(m, live') /\ Meta(live') = meta'
      /\ meta' \in Metas /\ meta'.seq = meta.seq /\ meta'.epoch = meta.epoch
      /\ alarm' \in BOOLEAN
      /\ \/ op' = Idle /\ (live'.dirty => alarm')
         \/ /\ op' \in Ops /\ Phase(op') /\ op'.is = "promote" /\ op'.at = "send"
            /\ live'.ring # <<>> /\ ~live'.dirty
  <2>1. CASE due /\ Owed(m)
    <3>1. m.seq \in Nat /\ VersionHash(m.doc) \in Hashes /\ m.ring \in Seq(Nat)
          /\ m.lastHash \in Hashes
      BY HashOK DEF Live
    <3>2. live' = WithVersion(m, m.seq, VersionHash(m.doc)) /\ meta' = Meta(live')
          /\ alarm' = before
      BY <2>1
    <3>3. live' \in Live /\ Same(m, live') /\ live'.ring # <<>>
      BY <3>1, <3>2, WithVersionOK
    <3>4. meta' \in Metas /\ meta'.seq = meta.seq /\ meta'.epoch = meta.epoch
      BY <3>2, <3>3 DEF Meta, Metas, Live, Same
    <3>5. ~live'.dirty
      BY <2>1, <3>3 DEF Owed, PastNewest, Same
    <3>6. op' \in Ops /\ Phase(op') /\ op'.is = "promote" /\ op'.at = "send"
      <4> DEFINE prev == <<m.ring, m.lastHash>>
                 out == EvictedBy(m.ring)
      <4>1. prev \in Prevs /\ prev # <<>> /\ out \subseteq Nat
        BY <3>1, NotedOK DEF Prevs
      <4>2. op' = [Idle EXCEPT !.is = "promote", !.at = "send", !.then = next,
                               !.prev = prev, !.version = TRUE, !.evicted = out]
        BY <2>1
      <4> HIDE DEF prev, out
      <4> QED BY <4>1, <4>2, IdleOK DEF Ops, OpKinds, OpStops, OpNexts, Phase
    <3> QED BY <3>2, <3>3, <3>4, <3>5, <3>6
  <2>2. CASE ~(due /\ Owed(m))
    <3>1. /\ live' = Verdict(m) \/ live' = m
          /\ op' = Idle /\ meta' = meta /\ alarm' = (before \/ (next = "arm" /\ Armed(live')))
      BY <2>2
    <3>2. live' \in Live /\ Same(m, live') /\ Meta(live') = Meta(m)
      BY <3>1, VerdictOK, ZenonT(60) DEF Same
    <3>3. meta' \in Metas
      BY <3>1 DEF DInv, Typed, ActorTypes
    <3>4. alarm' \in BOOLEAN /\ (live'.dirty => alarm')
      BY <3>1, <3>2 DEF Same, Armed
    <3> QED BY <3>1, <3>2, <3>3, <3>4
  <2> QED BY <2>1, <2>2
<1>2. Held(live)' /\ OnHead(live)'
  BY <1>1 DEF Aside, Same, Held, OnHead, Readable
<1>3. Typed'
  BY <1>1, IdleOK DEF DInv, Typed, ActorTypes, BlobTypes, JobTypes, NodeTypes, SpentTypes,
                      Aside, nodeVars
<1>4. Phase(op)'
  BY <1>1, IdleOK
<1>5. op'.is \in {"idle", "promote"} /\ op'.at \in {"", "send"}
  BY <1>1, IdleOK
<1>6. Memory'
  BY <1>1, <1>2, <1>5 DEF Memory, InSnapshot
<1>7. InFlight'
  BY <1>1, <1>5, IdleOK DEF InFlight, InSnapshot
<1>8. Backstop'
  BY <1>1, <1>5 DEF Backstop
<1>9. AtNode'
  BY <1>1 DEF DInv, AtNode, Aside, nodeVars, Readable
<1> QED BY <1>3, <1>4, <1>6, <1>7, <1>8, <1>9 DEF DInv

(* A frame from a client. *)
LEMMA TypeStep ==
  ASSUME DInv, NEW e \in Edits, Type(e)
  PROVE  DInv'
<1> DEFINE m == Journaled(Opened, e)
<1>1. Current(Opened) /\ op = Idle
  BY OpenedOK DEF Type
<1>2. /\ Held(m) /\ OnHead(m) /\ Meta(m) = meta /\ m.dirty
      /\ m.sincePersist = Opened.sincePersist + 1 /\ m.pending \in Docs
      /\ m.sincePersist < PERSIST_THRESHOLD => m \in Live
      /\ [m EXCEPT !.sincePersist = 0] \in Live
  BY <1>1, JournaledOK
<1>3. UNCHANGED <<op, blob, stranded, jobs, nodeVars, spent>>
  BY DEF Type, Calm
<1>4. /\ live' \in Live /\ Held(live)' /\ OnHead(live)' /\ Meta(live') = meta' /\ meta' = meta
      /\ log' \in Docs /\ alarm' \in BOOLEAN /\ alarm'
  <2>1. CASE m.sincePersist >= PERSIST_THRESHOLD
    <3>1. live' = [m EXCEPT !.sincePersist = 0] /\ log' = m.pending /\ meta' = Meta(m)
          /\ alarm' = TRUE
      BY <2>1 DEF Type, Persist
    <3>2. live' \in Live
      BY <1>2, <3>1
    <3> HIDE DEF m
    <3>3. /\ live'.loaded = m.loaded /\ live'.doc = m.doc /\ live'.seq = m.seq
          /\ live'.epoch = m.epoch
          /\ live'.ring = m.ring /\ live'.lastHash = m.lastHash /\ live'.pending = m.pending
          /\ live'.dirty = m.dirty /\ live'.hydrationIncomplete = m.hydrationIncomplete
      BY <3>1, <3>2 DEF Live
    <3>4. meta' = meta
      BY <1>2, <3>1
    <3>5. Held(live)' /\ OnHead(live)' /\ Meta(live') = meta'
      BY <1>2, <1>3, <3>1, <3>3, <3>4 DEF Held, OnHead, Meta, Readable
    <3> QED BY <1>2, <3>1, <3>2, <3>4, <3>5
  <2>2. CASE ~(m.sincePersist >= PERSIST_THRESHOLD)
    <3>1. /\ live' = m /\ log' = log /\ meta' = meta
          /\ alarm' = (OpenedAlarm(alarm) \/ m.sincePersist = 1)
      BY <2>2 DEF Type
    <3>2. m.sincePersist < PERSIST_THRESHOLD
      BY <1>1, <1>2, <2>2, RetentionAssumption DEF Current, Live
    <3> HIDE DEF m
    <3>3. alarm'
      <4>1. CASE Opened.dirty
        BY <1>1, <3>1, <4>1, OpenedOK
      <4>2. CASE ~Opened.dirty
        <5>1. Opened.sincePersist = 0
          BY <1>1, <4>2 DEF Current, Held
        <5>2. m.sincePersist = 1
          BY <1>2, <5>1
        <5> QED BY <3>1, <5>2
      <4> QED BY <4>1, <4>2
    <3>4. Held(live)' /\ OnHead(live)' /\ Meta(live') = meta'
      BY <1>2, <1>3, <3>1 DEF Held, OnHead, Readable
    <3>5. log' \in Docs /\ alarm' \in BOOLEAN
      BY <3>1 DEF DInv, Typed, ActorTypes
    <3> QED BY <1>2, <3>1, <3>2, <3>3, <3>4, <3>5
  <2> QED BY <2>1, <2>2
<1>5. Typed'
  BY <1>3, <1>4 DEF DInv, Typed, ActorTypes, BlobTypes, JobTypes, NodeTypes, SpentTypes, nodeVars
<1>6. Memory' /\ InFlight' /\ Backstop' /\ Phase(op)'
  BY <1>1, <1>3, <1>4, IdleOK DEF Memory, InFlight, InSnapshot, Backstop
<1>7. AtNode'
  BY <1>3, <1>4 DEF DInv, AtNode, nodeVars, Readable
<1> QED BY <1>5, <1>6, <1>7 DEF DInv

(* Someone leaves. *)
LEMMA LeaveStep ==
  ASSUME DInv, Leave
  PROVE  DInv'
<1>1. Current(Opened) /\ (Opened.dirty => OpenedAlarm(alarm)) /\ op = Idle /\ UNCHANGED Aside
  BY OpenedOK DEF Leave, Calm, Aside
<1>2. CASE live.dirty
  <2>1. Flush(live, "eviction", "") /\ UNCHANGED <<live, meta, alarm>>
    BY <1>2 DEF Leave
  <2>2. live \in Live /\ live.loaded
    BY <1>2 DEF DInv, Typed, ActorTypes, Memory, Unloaded, Held
  <2>3. Held(live) /\ OnHead(live) /\ Meta(live) = meta
    BY <1>1, <2>2 DEF Opened, Current
  <2>4. alarm
    BY <1>1, <1>2 DEF DInv, Backstop
  <2>5. op' = Idle \/ (CanFlush(live) /\ Starting(op', "flush", live, ""))
    BY <2>1, <2>2, FlushOK DEF SameText
  <2>6. op'.is \in {"idle", "flush"} /\ op'.at \in {"", "put"} /\ op' \in Ops /\ Phase(op')
    BY <2>5, IdleOK, StartingOK DEF Starting
  <2>7. Typed'
    BY <1>1, <2>1, <2>6
    DEF DInv, Typed, ActorTypes, BlobTypes, JobTypes, NodeTypes, SpentTypes, Aside, nodeVars
  <2>8. Held(live)' /\ OnHead(live)' /\ Meta(live)' = meta'
    BY <1>1, <2>1, <2>3 DEF Held, OnHead, Readable, Aside, Meta
  <2>9. InFlight'
    <3>1. CASE op' = Idle
      BY <3>1, IdleOK DEF InFlight, InSnapshot
    <3>2. CASE CanFlush(live) /\ Starting(op', "flush", live, "")
      <4>1. Starting(op', "flush", live', "") /\ ~live'.hydrationIncomplete
        BY <2>1, <3>2 DEF CanFlush
      <4>2. Meta(live') = meta'
        BY <2>1, <2>3
      <4> QED BY <4>1, <4>2, StartingInFlight
    <3> QED BY <2>5, <3>1, <3>2
  <2>10. Memory' /\ Backstop'
    BY <2>1, <2>4, <2>6, <2>8 DEF Memory, InSnapshot, Backstop
  <2>11. AtNode'
    BY <1>1, <2>1 DEF DInv, AtNode, Aside, nodeVars, Readable
  <2> QED BY <2>6, <2>7, <2>9, <2>10, <2>11 DEF DInv
<1>3. CASE ~live.dirty
  <2>1. Promote(Opened, "eviction", "", OpenedAlarm(alarm))
    BY <1>3 DEF Leave
  <2>2. OpenedAlarm(alarm) \in BOOLEAN
    BY DEF OpenedAlarm, DInv, Typed, ActorTypes
  <2> QED BY <1>1, <2>1, <2>2, PromoteStep
<1> QED BY <1>2, <1>3

(* The alarm goes on to promote. *)
LEMMA AlarmPromotesStep ==
  ASSUME DInv, AlarmPromotes
  PROVE  DInv'
<1>1. op.is = "alarm" /\ Promote(live, "timer", "arm", alarm) /\ UNCHANGED Aside
  BY DEF AlarmPromotes, Calm, Aside
<1>2. Current(live)
  <2>1. op # Idle /\ ~InSnapshot /\ ~Replaced
    BY <1>1, IdleOK DEF Idle, InSnapshot, Replaced
  <2>2. Held(live) /\ OnHead(live) /\ live.loaded
    BY <2>1 DEF DInv, Memory, Held
  <2> QED BY <2>1, <2>2 DEF DInv, Memory, Typed, ActorTypes, Current
<1>3. alarm \in BOOLEAN
  BY DEF DInv, Typed, ActorTypes
<1> QED BY <1>1, <1>2, <1>3, PromoteStep

(* The parts of an actor's step that are left alone by the entries. *)
LEMMA AtNodeKept ==
  ASSUME DInv, meta'.seq = meta.seq, UNCHANGED <<blob, jobs, indexed>>,
         spent'.deleted = spent.deleted
  PROVE  AtNode'
BY DEF DInv, AtNode, Readable

(* What a headless write leaves in memory, and in flight. *)
LEMMA WriteOpens ==
  ASSUME DInv, NEW e \in Edits, Write(e)
  PROVE  /\ live' \in Live /\ Held(live)' /\ OnHead(live)' /\ Meta(live') = meta' /\ meta' = meta
         /\ log' \in Docs /\ alarm' = TRUE
         /\ op' = Idle \/ (~live'.hydrationIncomplete /\ Starting(op', "flush", live', ""))
<1> DEFINE m == Journaled(Opened, e)
<1>1. Current(Opened) /\ op = Idle
  BY OpenedOK DEF Write
<1>2. /\ Held(m) /\ OnHead(m) /\ Meta(m) = meta /\ m.dirty
      /\ m.pending \in Docs
      /\ [m EXCEPT !.sincePersist = 0] \in Live
  BY <1>1, JournaledOK
<1>3. UNCHANGED <<blob, spent>>
  BY DEF Write, Calm
<1>4. /\ live' = [m EXCEPT !.sincePersist = 0] /\ log' = m.pending /\ meta' = Meta(m)
      /\ alarm' = TRUE
      /\ op' = Idle \/ Flush(m, "headless", "")
  BY DEF Write, Persist
<1> HIDE DEF m
<1>5. live' \in Live
  BY <1>2, <1>4
<1>6. /\ live'.loaded = m.loaded /\ live'.doc = m.doc /\ live'.seq = m.seq /\ live'.epoch = m.epoch
      /\ live'.ring = m.ring /\ live'.lastHash = m.lastHash /\ live'.pending = m.pending
      /\ live'.dirty = m.dirty /\ live'.hydrationIncomplete = m.hydrationIncomplete
  BY <1>4, <1>5 DEF Live
<1>7. meta' = meta
  BY <1>2, <1>4
<1>8. Held(live)' /\ OnHead(live)' /\ Meta(live') = meta'
  BY <1>2, <1>3, <1>4, <1>6, <1>7 DEF Held, OnHead, Meta, Readable
<1>9. op' = Idle \/ (~live'.hydrationIncomplete /\ Starting(op', "flush", live', ""))
  <2>1. SameText(m, live')
    BY <1>6 DEF SameText
  <2>2. "" \in {"", "alarm"}
    OBVIOUS
  <2> QED BY <1>4, <1>5, <2>1, <2>2, FlushOK DEF CanFlush
<1> QED BY <1>2, <1>4, <1>5, <1>7, <1>8, <1>9

(* A headless write. *)
LEMMA WriteStep ==
  ASSUME DInv, NEW e \in Edits, Write(e)
  PROVE  DInv'
<1>1. /\ live' \in Live /\ Held(live)' /\ OnHead(live)' /\ Meta(live') = meta' /\ meta' = meta
      /\ log' \in Docs /\ alarm' = TRUE
      /\ op' = Idle \/ (~live'.hydrationIncomplete /\ Starting(op', "flush", live', ""))
  BY WriteOpens
<1>2. UNCHANGED <<blob, stranded, jobs, nodeVars, spent>>
  BY DEF Write, Calm
<1>3. op'.is \in {"idle", "flush"} /\ op'.at \in {"", "put"} /\ op' \in Ops /\ Phase(op')
  BY <1>1, IdleOK, StartingOK DEF Starting
<1>4. Typed'
  BY <1>1, <1>2, <1>3
  DEF DInv, Typed, ActorTypes, BlobTypes, JobTypes, NodeTypes, SpentTypes, nodeVars
<1>5. InFlight'
  <2>1. CASE op' = Idle
    BY <2>1, IdleOK DEF InFlight, InSnapshot
  <2> QED BY <1>1, <2>1, StartingInFlight
<1>6. Memory' /\ Backstop'
  BY <1>1, <1>3 DEF Memory, InSnapshot, Backstop
<1>7. AtNode'
  BY <1>1, <1>2, AtNodeKept DEF nodeVars
<1> QED BY <1>3, <1>4, <1>5, <1>6, <1>7 DEF DInv

(* The alarm fires: its row is gone, its handler or a flush re-arms it. *)
LEMMA FireAlarmStep ==
  ASSUME DInv, FireAlarm
  PROVE  DInv'
<1>1. Current(Opened) /\ op = Idle /\ live' = Opened /\ UNCHANGED <<meta, Aside>>
  BY OpenedOK DEF FireAlarm, Calm, Aside
<1>2. live' \in Live /\ Held(live)' /\ OnHead(live)' /\ Meta(live') = meta'
  BY <1>1 DEF Current, Held, OnHead, Readable, Aside
<1>3. alarm' \in BOOLEAN
  BY DEF FireAlarm, OpenedAlarm
<1>4. Flush(Opened, "timer", "alarm")
  BY DEF FireAlarm
<1>5. \/ ~live'.hydrationIncomplete /\ Starting(op', "flush", live', "alarm")
      \/ op' \in Ops /\ op'.is = "alarm" /\ op'.at = "promote"
  BY <1>1, <1>4, FlushOK DEF Current, CanFlush, SameText
<1>6. op'.is \in {"alarm", "flush"} /\ op'.at \in {"promote", "put"} /\ op' \in Ops /\ Phase(op')
  BY <1>5, StartingOK DEF Starting, Phase
<1>7. Typed'
  BY <1>1, <1>2, <1>3, <1>6
  DEF DInv, Typed, ActorTypes, BlobTypes, JobTypes, NodeTypes, SpentTypes, Aside, nodeVars
<1>8. InFlight'
  <2>1. CASE op'.is = "alarm" /\ op'.at = "promote"
    BY <2>1 DEF InFlight, InSnapshot
  <2> QED BY <1>2, <1>5, <2>1, StartingInFlight
<1>9. Memory' /\ Backstop'
  BY <1>2, <1>6, IdleOK DEF Memory, InSnapshot, Backstop
<1>10. AtNode'
  BY <1>1, AtNodeKept DEF Aside, nodeVars
<1> QED BY <1>6, <1>7, <1>8, <1>9, <1>10 DEF DInv

(* Memory while a handler is in flight. *)
LEMMA InMemory ==
  ASSUME DInv, op.is # "idle"
  PROVE  live \in Live /\ Held(live) /\ (~Replaced => OnHead(live)) /\ live.seq = meta.seq
         /\ op \in Ops
BY IdleOK DEF DInv, Typed, ActorTypes, Memory, Held

(* A snapshot put for a number above the head. *)
LEMMA WithSnapshotOK ==
  ASSUME DInv, NEW doc \in Docs, blob' = WithSnapshot(live.seq + 1, doc), live.seq = meta.seq
  PROVE  /\ BlobTypes' /\ live.seq + 1 \in DOMAIN blob' /\ blob'[live.seq + 1] = doc
         /\ \A seq \in Nat : seq <= meta.seq => /\ seq \in DOMAIN blob' <=> Readable(seq)
                                                /\ Readable(seq) => blob'[seq] = blob[seq]
<1>1. meta.seq \in Nat /\ BlobTypes
  BY DEF DInv, Typed, ActorTypes, Metas
<1>2. DOMAIN blob' = DOMAIN blob \cup {meta.seq + 1}
  BY DEF WithSnapshot
<1>3. \A seq \in DOMAIN blob' : blob'[seq] = IF seq = meta.seq + 1 THEN doc ELSE blob[seq]
  BY <1>2 DEF WithSnapshot
<1> QED BY <1>1, <1>2, <1>3 DEF BlobTypes, Readable

(* The blob is put: readable, one above the head. *)
LEMMA PutSnapshotStep ==
  ASSUME DInv, PutSnapshot
  PROVE  DInv'
<1> DEFINE seq == live.seq + 1
           parked == ParkedOnly(live.doc)
           version == ~parked /\ op.hash \notin {NoHash, live.lastHash}
           stop == IF parked THEN "commit" ELSE "send"
           out == IF version THEN EvictedBy(live.ring) ELSE {}
<1>1. /\ op.at = "put" /\ InSnapshot
      /\ blob' = WithSnapshot(seq, live.doc)
      /\ live' = IF version THEN WithVersion(live, seq, op.hash) ELSE live
      /\ op' = [op EXCEPT !.at = stop, !.version = version, !.evicted = out]
      /\ UNCHANGED <<meta, log, alarm, stranded, jobs, nodeVars, spent>>
  BY DEF PutSnapshot, Calm, InSnapshot
<1>2. live \in Live /\ Held(live) /\ OnHead(live) /\ live.seq = meta.seq /\ op \in Ops
  BY <1>1, InMemory DEF InSnapshot, Replaced
<1>3. BlobTypes' /\ seq \in DOMAIN blob' /\ blob'[seq] = live.doc
  BY <1>1, <1>2, WithSnapshotOK DEF Live
<1>4. \A s \in Nat : s <= meta.seq => /\ s \in DOMAIN blob' <=> Readable(s)
                                      /\ Readable(s) => blob'[s] = blob[s]
  BY <1>1, <1>2, WithSnapshotOK DEF Live
<1>5. seq \in Nat /\ op.hash \in Hashes /\ live.ring \in Seq(Nat)
  BY <1>2 DEF Live, Ops
<1>6. live' \in Live /\ Same(live, live') /\ (version => live'.ring # <<>>)
  BY <1>1, <1>2, <1>5, WithVersionOK DEF Same
<1>7. /\ op' \in Ops /\ op'.is = op.is /\ op'.at \in {"send", "commit"} /\ op'.version = version
      /\ op'.prev = op.prev /\ op'.then = op.then
  <2>1. version \in BOOLEAN /\ stop \in {"send", "commit"}
    OBVIOUS
  <2>2. out \subseteq Nat
    BY <1>5, NotedOK
  <2> HIDE DEF version, stop, out
  <2> QED BY <1>1, <1>2, <2>1, <2>2 DEF Ops, OpStops
<1> HIDE DEF version, parked, out, stop
<1>8. Typed'
  BY <1>1, <1>3, <1>6, <1>7 DEF DInv, Typed, ActorTypes, JobTypes, NodeTypes, SpentTypes, nodeVars
<1>9. Phase(op)'
  BY <1>1, <1>7, IdleOK DEF DInv, Phase, InSnapshot
<1>10. meta' = meta /\ meta.seq \in Nat /\ log' = log /\ spent' = spent /\ jobs' = jobs
       /\ indexed' = indexed
  BY <1>1 DEF DInv, Typed, ActorTypes, Metas, nodeVars
<1>11. Held(live)' /\ OnHead(live)'
  <2>1. /\ meta.seq \in DOMAIN blob' <=> Readable(meta.seq)
        /\ Readable(meta.seq) => blob'[meta.seq] = blob[meta.seq]
    BY <1>4, <1>10
  <2>2. Held(live)'
    BY <1>2, <1>6, <1>10 DEF Same, Held
  <2>3. OnHead(live)'
    BY <1>2, <1>6, <1>10, <2>1 DEF Same, OnHead, Readable
  <2> QED BY <2>2, <2>3
<1>12. Memory'
  BY <1>1, <1>7, <1>11 DEF Memory, InSnapshot
<1>13. InFlight'
  <2>1. ~live.hydrationIncomplete /\ op.prev = <<meta.ring, meta.lastHash>>
    BY <1>1 DEF DInv, InFlight
  <2>2. live'.seq = live.seq /\ live'.doc = live.doc /\ ~live'.hydrationIncomplete
    BY <1>6, <2>1 DEF Same
  <2>3. seq \in DOMAIN blob' /\ blob'[live'.seq + 1] = live'.doc
    BY <1>3, <2>2
  <2> QED BY <1>1, <1>6, <1>7, <1>10, <2>1, <2>2, <2>3 DEF InFlight, InSnapshot, Readable
<1>14. Backstop'
  <2>1. op' # Idle /\ live'.dirty = live.dirty
    BY <1>1, <1>6, <1>7, IdleOK DEF InSnapshot, Same
  <2> QED BY <1>1, <1>7, <2>1 DEF DInv, Backstop, InSnapshot
<1>15. AtNode'
  <2>1. \A s \in spent.deleted : s \in Nat /\ s <= meta.seq /\ ~Readable(s)
    BY DEF DInv, Typed, SpentTypes, AtNode
  <2> QED BY <1>4, <1>10, <2>1 DEF DInv, AtNode, Readable
<1> QED BY <1>8, <1>9, <1>12, <1>13, <1>14, <1>15 DEF DInv

(* A job sent names a number the stored head has or is about to have. *)
LEMMA SentOK ==
  ASSUME DInv, op.at = "send", jobs' = Sent
  PROVE  JobTypes' /\ \A j \in jobs' : j.seq <= meta.seq + 1
<1> DEFINE seq == IF InSnapshot THEN live.seq + 1 ELSE live.seq
           floor0 == IF op.version THEN Head(live.ring) ELSE 0
           new == [seq |-> seq, version |-> op.version, floor |-> floor0]
<1>1. op.is # "idle"
  BY IdleOK DEF DInv, Phase
<1>2. live \in Live /\ live.seq = meta.seq /\ op \in Ops
  BY <1>1, InMemory
<1>3. seq \in Nat /\ seq <= meta.seq + 1
  BY <1>2 DEF Live
<1>4. floor0 \in Nat /\ op.version \in BOOLEAN
  <2>1. op.version => live.ring # <<>>
    BY DEF DInv, InFlight
  <2>2. live.ring \in Seq(Nat) /\ op.version \in BOOLEAN
    BY <1>2 DEF Live, Ops
  <2> QED BY <2>1, <2>2, HeadTailProperties
<1>5. jobs' = jobs \cup {new}
  BY DEF Sent, Job
<1> HIDE DEF seq, floor0
<1>6. new.seq = seq /\ new.version = op.version /\ new.floor = floor0
  OBVIOUS
<1> HIDE DEF new
<1> QED BY <1>3, <1>4, <1>5, <1>6 DEF DInv, Typed, JobTypes, AtNode

(* The job is inserted, one above the head at most. *)
LEMMA SendStep ==
  ASSUME DInv, Send
  PROVE  DInv'
<1> DEFINE stop == IF InSnapshot THEN "commit" ELSE "prune"
<1>1. /\ op.at = "send" /\ jobs' = Sent /\ op' = [op EXCEPT !.at = stop]
      /\ UNCHANGED <<live, meta, log, alarm, blob, stranded, nodeVars, spent>>
  BY DEF Send, Calm
<1>2. op.is # "idle"
  BY <1>1, IdleOK DEF DInv, Phase
<1>3. live \in Live /\ Held(live) /\ live.seq = meta.seq /\ op \in Ops
  BY <1>2, InMemory
<1>4. JobTypes' /\ \A j \in jobs' : j.seq <= meta.seq + 1
  BY <1>1, SentOK
<1>5. /\ op' \in Ops /\ op'.at = stop /\ op'.is = op.is /\ op'.prev = op.prev /\ op'.then = op.then
      /\ op'.version = op.version
  <2>1. stop \in OpStops
    BY DEF OpStops
  <2> HIDE DEF stop
  <2> QED BY <1>1, <1>3, <2>1 DEF Ops
<1>6. Typed'
  BY <1>1, <1>4, <1>5 DEF DInv, Typed, ActorTypes, BlobTypes, JobTypes, NodeTypes, SpentTypes,
                          nodeVars
<1>7. Phase(op)'
  BY <1>1, <1>2, <1>5, IdleOK DEF DInv, Phase, InSnapshot
<1>8. Memory'
  <2>1. Held(live)' /\ (OnHead(live) => OnHead(live)')
    BY <1>1, <1>3 DEF Held, OnHead, Readable
  <2>2. InSnapshot' <=> InSnapshot
    BY <1>5 DEF InSnapshot
  <2>3. ~Replaced' => ~Replaced
    BY <1>1, <1>5 DEF Replaced, InSnapshot
  <2>4. InSnapshot \/ Meta(live) = meta
    BY <1>1, <1>3 DEF DInv, Memory, Held
  <2>5. Held(live)' /\ (~Replaced' => OnHead(live)')
    BY <1>2, <2>1, <2>3, InMemory
  <2>6. Meta(live)' = meta' \/ (InSnapshot' /\ op'.at = "commit")
    BY <1>1, <1>5, <2>2, <2>4 DEF Meta
  <2> QED BY <2>5, <2>6 DEF Memory
<1>9. InFlight'
  BY <1>1, <1>5 DEF DInv, InFlight, InSnapshot, Readable
<1>10. Backstop'
  BY <1>1, <1>2, <1>5, IdleOK DEF DInv, Backstop
<1>11. AtNode'
  BY <1>1, <1>4 DEF DInv, AtNode, nodeVars, Readable
<1> QED BY <1>6, <1>7, <1>8, <1>9, <1>10, <1>11 DEF DInv

(* The snapshot becomes the head, and the log empties. *)
LEMMA CommitSnapshotStep ==
  ASSUME DInv, CommitSnapshot
  PROVE  DInv'
<1> DEFINE memo == IF op.hash # NoHash /\ ~op.version THEN <<live.seq + 1, live.lastHash>>
                   ELSE live.owedMemo
<1>1. /\ op.at = "commit"
      /\ live' = [live EXCEPT !.seq = live.seq + 1, !.pending = {}, !.dirty = FALSE,
                              !.sincePersist = 0, !.owedMemo = memo]
      /\ meta' = Meta(live') /\ log' = {} /\ alarm' = (~op.version /\ Armed(live'))
      /\ op' = [op EXCEPT !.at = "prune"]
      /\ UNCHANGED <<blob, stranded, jobs, nodeVars, spent>>
  BY DEF CommitSnapshot, Calm
<1>2. InSnapshot /\ op.is # "idle"
  BY <1>1, IdleOK DEF DInv, Phase, InSnapshot
<1>3. live \in Live /\ Held(live) /\ live.seq = meta.seq /\ op \in Ops
  BY <1>2, InMemory
<1>4. ~live.hydrationIncomplete /\ Readable(live.seq + 1) /\ blob[live.seq + 1] = live.doc
  BY <1>1, <1>2 DEF DInv, InFlight
<1>5. /\ live' \in Live /\ live'.loaded = live.loaded /\ live'.doc = live.doc
      /\ live'.seq = live.seq + 1
      /\ live'.epoch = live.epoch /\ live'.pending = {} /\ ~live'.dirty /\ live'.sincePersist = 0
      /\ ~live'.hydrationIncomplete /\ live'.ring = live.ring /\ live'.lastHash = live.lastHash
  <2>1. memo \in {<<>>} \cup (Nat \X Hashes) /\ live.seq + 1 \in Nat /\ {} \in Docs
    BY <1>3 DEF Live, Docs
  <2>2. 0 \in 0 .. PERSIST_THRESHOLD - 1
    BY RetentionAssumption
  <2> HIDE DEF memo
  <2> QED BY <1>1, <1>3, <1>4, <2>1, <2>2 DEF Live
<1>6. op' \in Ops /\ op'.at = "prune" /\ op'.is = op.is /\ op'.prev = op.prev /\ op'.then = op.then
  BY <1>1, <1>3 DEF Ops, OpStops
<1>7. meta' \in Metas /\ meta'.seq = meta.seq + 1 /\ meta'.epoch = meta.epoch /\ meta.seq \in Nat
  BY <1>1, <1>3, <1>5 DEF Meta, Metas, Live, Held
<1>8. Typed'
  BY <1>1, <1>5, <1>6, <1>7
  DEF DInv, Typed, ActorTypes, BlobTypes, JobTypes, NodeTypes, SpentTypes, nodeVars, Docs,
      Armed, PastNewest
<1>9. Phase(op)'
  BY <1>1, <1>2, <1>6, IdleOK DEF DInv, Phase, InSnapshot
<1>10. Held(live)' /\ OnHead(live)'
  BY <1>1, <1>3, <1>4, <1>5, <1>7 DEF Held, OnHead, Readable
<1>11. Memory'
  BY <1>1, <1>10 DEF Memory
<1>12. InFlight' /\ Backstop'
  BY <1>2, <1>5, <1>6 DEF InFlight, Backstop, InSnapshot
<1>13. AtNode'
  <2>1. /\ \A j \in jobs : j.seq \in Nat /\ j.seq <= meta.seq + 1
        /\ indexed.seq \in Nat /\ indexed.seq <= meta.seq + 1
        /\ \A s \in spent.deleted : s \in Nat /\ s <= meta.seq /\ ~Readable(s)
    BY DEF DInv, AtNode, Typed, JobTypes, NodeTypes, SpentTypes
  <2> QED BY <1>1, <1>7, <2>1 DEF AtNode, nodeVars, Readable
<1> QED BY <1>8, <1>9, <1>11, <1>12, <1>13 DEF DInv

(* Nothing prunes the head it prunes for. *)
LEMMA PrunedOK ==
  ASSUME NEW head \in Nat, NEW ring, NEW evicted
  PROVE  head \notin Pruned(head, ring, evicted)
BY RetentionAssumption DEF Pruned, Retained

(* Pruning takes neither the head nor what is above it. *)
LEMMA PruneStep ==
  ASSUME DInv, Prune
  PROVE  DInv'
<1> DEFINE gone == Pruned(live.seq, live.ring, op.evicted)
<1>1. /\ op.at = "prune"
      /\ blob' = [seq \in DOMAIN blob \ gone |-> blob[seq]]
      /\ live' = IF op.is = "install" THEN Unloaded ELSE live
      /\ alarm' = (alarm \/ (op.then = "arm" /\ Armed(live)))
      /\ op' = GiveWay(op)
      /\ UNCHANGED <<meta, log, stranded, jobs, nodeVars, spent>>
  BY DEF Prune, Calm
<1>2. op.is \in {"flush", "checkpoint", "promote", "install"}
  BY <1>1, IdleOK DEF DInv, Phase
<1>3. live \in Live /\ Held(live) /\ (~Replaced => OnHead(live)) /\ live.seq = meta.seq
      /\ op \in Ops
  BY <1>2, InMemory
<1>4. op' \in Ops /\ Phase(op)' /\ op'.is \in {"idle", "alarm", "install"}
      /\ op'.at \in {"", "promote", "put"}
  <2>1. op.doc \in Docs
    BY <1>3 DEF Ops
  <2>2. LET o == Installing(op.doc) IN o.is = "install" /\ o.at = "put"
    BY <2>1, InstallingOK
  <2>3. \/ op' = Idle
        \/ op' = Installing(op.doc)
        \/ op'.is = "alarm" /\ op'.at = "promote"
    BY <1>1, <1>3, GiveWayOK
  <2>4. op' \in Ops /\ Phase(op')
    BY <1>1, <1>3, GiveWayOK
  <2> QED BY <2>2, <2>3, <2>4, IdleOK
<1>5. op.is = "install" => op' = Idle
  BY <1>1, <1>2, <1>3, GiveWayOK, IdleOK DEF DInv, Phase
<1>6. DOMAIN blob' \subseteq DOMAIN blob /\ \A seq \in DOMAIN blob' : blob'[seq] = blob[seq]
  BY <1>1
<1>7. Readable(meta.seq) => meta.seq \in DOMAIN blob'
  BY <1>1, <1>3, PrunedOK DEF Readable, Live
<1> HIDE DEF gone
<1>8. live' \in Live
  <2>1. Unloaded \in Live
    BY RetentionAssumption DEF Unloaded, Live, Docs, Hashes, NoHash
  <2> QED BY <1>1, <1>3, <2>1
<1>9. Typed'
  <2>1. BlobTypes'
    BY <1>6 DEF DInv, Typed, BlobTypes
  <2> QED BY <1>1, <1>4, <1>8, <2>1
      DEF DInv, Typed, ActorTypes, JobTypes, NodeTypes, SpentTypes, nodeVars, Armed, PastNewest
<1>10. Memory'
  <2>1. CASE op.is = "install"
    BY <1>1, <1>5, <2>1 DEF Memory, Unloaded
  <2>2. CASE op.is # "install"
    <3>1. OnHead(live) /\ live' = live
      BY <1>1, <1>3, <2>2 DEF Replaced
    <3>2. Held(live)' /\ OnHead(live)'
      BY <1>1, <1>3, <1>6, <1>7, <3>1 DEF Held, OnHead, Readable
    <3>3. Meta(live)' = meta'
      BY <1>1, <1>3, <3>1 DEF DInv, Memory, Held, Meta
    <3> QED BY <3>2, <3>3 DEF Memory
  <2> QED BY <2>1, <2>2
<1>11. InFlight'
  BY <1>4 DEF InFlight, InSnapshot
<1>12. Backstop'
  <2>1. ~live'.dirty
    BY <1>1, <1>2 DEF DInv, InFlight, InSnapshot, Unloaded
  <2> QED BY <2>1 DEF Backstop
<1>13. AtNode'
  BY <1>1, <1>6 DEF DInv, AtNode, nodeVars, Readable
<1> QED BY <1>4, <1>9, <1>10, <1>11, <1>12, <1>13 DEF DInv

(* A failed await, wherever it was. *)
LEMMA FailsStep ==
  ASSUME DInv, op.at \in {"put", "send"}, Fails, JobTypes', \A j \in jobs' : j.seq <= meta.seq + 1,
         spent' \in [incidents : Nat, installs : Nat, deleted : SUBSET Nat],
         spent'.deleted = spent.deleted, UNCHANGED <<log, blob, stranded, nodeVars>>
  PROVE  DInv'
<1>1. op.is \in {"flush", "promote", "checkpoint", "install"}
  BY IdleOK DEF DInv, Phase
<1>2. live \in Live /\ Held(live) /\ (~Replaced => OnHead(live)) /\ live.seq = meta.seq
      /\ op \in Ops
  BY <1>1, InMemory
<1>3. meta \in Metas /\ alarm \in BOOLEAN
  BY DEF DInv, Typed, ActorTypes
<1>4. ASSUME op.is # "install"
      PROVE  /\ RolledBack(live, op.prev) \in Live /\ Same(live, RolledBack(live, op.prev))
             /\ RolledBack(live, op.prev).ring = op.prev[1]
             /\ RolledBack(live, op.prev).lastHash = op.prev[2]
             /\ OnHead(live)
  <2>1. op.prev \in Seq(Nat) \X Hashes
    BY <1>1, <1>2, <1>4 DEF DInv, Phase, Ops, Prevs
  <2> QED BY <1>2, <1>4, <2>1, RolledBackOK DEF Replaced
<1>5. ASSUME op.is \in {"flush", "checkpoint"}
      PROVE  Meta(RolledBack(live, op.prev)) = meta
  <2>1. op.prev[1] = meta.ring /\ op.prev[2] = meta.lastHash
    BY <1>5 DEF DInv, InFlight, InSnapshot
  <2> QED BY <1>2, <1>3, <1>4, <1>5, <2>1 DEF Meta, Metas, Same, Held
<1>6. /\ live' \in Live /\ Same(live, live') /\ meta' \in Metas /\ meta'.seq = meta.seq
      /\ meta'.epoch = meta.epoch
      /\ Meta(live') = meta' /\ op' \in Ops /\ Phase(op') /\ alarm' \in BOOLEAN
      /\ op' = Idle => (live'.dirty => alarm')
      /\ \/ op' = Idle
         \/ op'.is = "alarm" /\ op'.at = "promote"
         \/ /\ op'.is = "install" /\ op'.at = "prune" /\ op.is = "install" /\ op.at = "send"
            /\ live'.dirty => alarm'
  <2>1. CASE op.is = "flush"
    <3>1. live' = RolledBack(live, op.prev) /\ alarm' = TRUE /\ op' = GiveWay(op) /\ meta' = meta
      BY <2>1 DEF Fails
    <3>2. op' \in Ops /\ Phase(op') /\ (op' = Idle \/ (op'.is = "alarm" /\ op'.at = "promote"))
      BY <1>2, <2>1, <3>1, GiveWayOK, IdleOK DEF DInv, Phase
    <3> QED BY <1>3, <1>4, <1>5, <2>1, <3>1, <3>2
  <2>2. CASE op.is = "promote"
    <3>1. /\ live' = RolledBack(live, op.prev) /\ meta' = Meta(live')
          /\ alarm' = (alarm \/ Armed(live')) /\ op' = Idle
      BY <2>2 DEF Fails
    <3>2. meta' \in Metas /\ meta'.seq = meta.seq /\ meta'.epoch = meta.epoch
      BY <1>2, <1>4, <2>2, <3>1 DEF Meta, Metas, Live, Same, Held
    <3>3. alarm' \in BOOLEAN /\ (live'.dirty => alarm')
      BY <1>3, <3>1 DEF Armed
    <3> QED BY <1>4, <2>2, <3>1, <3>2, <3>3, IdleOK
  <2>3. CASE op.is = "checkpoint"
    <3>1. live' = RolledBack(live, op.prev) /\ op' = Idle /\ meta' = meta /\ alarm' = alarm
      BY <2>3 DEF Fails
    <3>2. live'.dirty => alarm'
      BY <1>4, <2>3, <3>1 DEF DInv, Backstop, Same
    <3> QED BY <1>3, <1>4, <1>5, <2>3, <3>1, <3>2, IdleOK
  <2>4. CASE op.is = "install"
    <3>1. /\ live' = live /\ meta' = meta /\ alarm' = alarm
          /\ op' = IF op.at = "send" THEN [op EXCEPT !.at = "prune"] ELSE Idle
      BY <2>4 DEF Fails
    <3>2. Meta(live') = meta'
      BY <1>2, <2>4, <3>1 DEF DInv, Memory, Held, InSnapshot
    <3>3. live'.dirty => alarm'
      BY <2>4, <3>1 DEF DInv, Backstop
    <3>4. CASE op.at = "send"
      <4>1. op' \in Ops /\ op'.is = "install" /\ op'.at = "prune" /\ op'.then = op.then
            /\ op'.version = op.version
        BY <1>2, <2>4, <3>1, <3>4 DEF Ops, OpStops
      <4>2. Phase(op')
        BY <2>4, <4>1, IdleOK DEF DInv, Phase
      <4> QED BY <1>2, <1>3, <2>4, <3>1, <3>2, <3>3, <3>4, <4>1, <4>2 DEF Same
    <3>5. CASE op.at # "send"
      BY <1>2, <1>3, <3>1, <3>2, <3>3, <3>5, IdleOK DEF Same
    <3> QED BY <3>4, <3>5
  <2> QED BY <1>1, <2>1, <2>2, <2>3, <2>4
<1>7. Held(live)' /\ (OnHead(live) => OnHead(live)')
  BY <1>2, <1>6 DEF Same, Held, OnHead, Readable
<1>8. Typed'
  BY <1>6 DEF DInv, Typed, ActorTypes, BlobTypes, NodeTypes, SpentTypes, nodeVars
<1>9. Memory'
  <2>1. ~Replaced' => OnHead(live)
    <3>1. op.is = "install" /\ op.at = "put" => OnHead(live)
      BY <1>2 DEF Replaced
    <3>2. op.is = "install" /\ op.at = "send" => op'.is = "install" /\ op'.at = "prune"
      BY <1>2 DEF Fails, Ops
    <3> QED BY <1>2, <1>4, <3>1, <3>2 DEF Replaced
  <2> QED BY <1>6, <1>7, <2>1 DEF Memory
<1>10. InFlight'
  BY <1>6, IdleOK DEF InFlight, InSnapshot
<1>11. Backstop'
  BY <1>6 DEF Backstop
<1>12. AtNode'
  BY <1>6 DEF DInv, AtNode, nodeVars, Readable
<1> QED BY <1>6, <1>8, <1>9, <1>10, <1>11, <1>12 DEF DInv

(* The put is refused. *)
LEMMA PutFailsStep ==
  ASSUME DInv, PutFails
  PROVE  DInv'
<1>1. op.at = "put" /\ Fails /\ Incident("put") /\ UNCHANGED <<log, blob, stranded, jobs, nodeVars>>
  BY DEF PutFails
<1>2. JobTypes' /\ \A j \in jobs' : j.seq <= meta.seq + 1
  BY <1>1 DEF DInv, Typed, JobTypes, AtNode
<1>3. spent' \in [incidents : Nat, installs : Nat, deleted : SUBSET Nat]
      /\ spent'.deleted = spent.deleted
  BY <1>1 DEF Incident, DInv, Typed, SpentTypes
<1> QED BY <1>1, <1>2, <1>3, FailsStep

(* The job is refused, or its answer lost. *)
LEMMA SendFailsStep ==
  ASSUME DInv, SendFails
  PROVE  DInv'
<1>1. op.at = "send" /\ Fails /\ UNCHANGED <<log, blob, stranded, nodeVars>>
  BY DEF SendFails
<1>2. (jobs' = jobs \/ jobs' = Sent) /\ \E kind \in {"send", "unacked"} : Incident(kind)
  BY DEF SendFails
<1>3. JobTypes' /\ \A j \in jobs' : j.seq <= meta.seq + 1
  BY <1>1, <1>2, SentOK DEF DInv, Typed, JobTypes, AtNode
<1>4. spent' \in [incidents : Nat, installs : Nat, deleted : SUBSET Nat]
      /\ spent'.deleted = spent.deleted
  BY <1>2 DEF Incident, DInv, Typed, SpentTypes
<1> QED BY <1>1, <1>3, <1>4, FailsStep

(* A head install decided on with m in memory. *)
LEMMA RestoreStep ==
  ASSUME DInv, NEW target \in DOMAIN blob, Restore(target)
  PROVE  DInv'
<1> DEFINE m == Opened
           changed == IF m.dirty THEN ~m.hydrationIncomplete /\ ChangedHead(m) ELSE Owed(m)
<1>1. /\ Current(m) /\ (m.dirty => OpenedAlarm(alarm)) /\ op = Idle
      /\ live' = Verdict(m)
      /\ op' = IF changed THEN Snapshotting(m, "checkpoint", TRUE, "install", blob[target])
               ELSE Installing(blob[target])
      /\ alarm' = OpenedAlarm(alarm) /\ spent' = [spent EXCEPT !.installs = @ + 1]
      /\ UNCHANGED <<meta, log, blob, stranded, jobs, nodeVars>>
  BY OpenedOK DEF Restore
<1> HIDE DEF m
<1>2. m \in Live /\ Held(m) /\ OnHead(m) /\ Meta(m) = meta
  BY <1>1 DEF Current
<1>3. live' \in Live /\ Same(m, live') /\ live'.ring = m.ring /\ live'.lastHash = m.lastHash
      /\ Meta(live') = meta'
  BY <1>1, <1>2, VerdictOK
<1>4. blob[target] \in Docs
  BY DEF DInv, Typed, BlobTypes
<1>5. \/ changed /\ Starting(op', "checkpoint", live', "install")
      \/ op' \in Ops /\ Phase(op') /\ op'.is = "install" /\ op'.at = "put"
  <2>1. CASE changed
    <3>1. "checkpoint" \in {"flush", "checkpoint"} /\ TRUE \in BOOLEAN /\ "install" \in OpNexts
      BY DEF OpNexts
    <3>2. Starting(op', "checkpoint", m, "install")
      BY <1>1, <1>2, <1>4, <2>1, <3>1, SnapshottingOK
    <3> QED BY <1>3, <2>1, <3>2 DEF Starting, Same
  <2>2. CASE ~changed
    BY <1>1, <1>4, <2>2, InstallingOK
  <2> QED BY <2>1, <2>2
<1>6. changed => ~live'.hydrationIncomplete
  BY <1>3 DEF Owed, PastNewest, Same
<1> HIDE DEF changed
<1>7. op'.is \in {"checkpoint", "install"} /\ op'.at = "put" /\ op' \in Ops /\ Phase(op')
  BY <1>5, StartingOK DEF Starting
<1>8. alarm' \in BOOLEAN /\ (live'.dirty => alarm')
  BY <1>1, <1>3 DEF OpenedAlarm, DInv, Typed, ActorTypes, Same
<1>9. SpentTypes' /\ spent'.deleted = spent.deleted
  BY <1>1 DEF DInv, Typed, SpentTypes
<1>10. Typed'
  BY <1>1, <1>3, <1>7, <1>8, <1>9 DEF DInv, Typed, ActorTypes, BlobTypes, JobTypes, NodeTypes,
                                      nodeVars
<1>11. Held(live)' /\ OnHead(live)'
  BY <1>1, <1>2, <1>3, <1>9 DEF Same, Held, OnHead, Readable
<1>12. Memory' /\ Backstop'
  BY <1>3, <1>7, <1>8, <1>11 DEF Memory, Backstop
<1>13. InFlight'
  <2>1. CASE op'.is = "install"
    BY <1>7, <2>1 DEF InFlight, InSnapshot
  <2> QED BY <1>3, <1>5, <1>6, <2>1, StartingInFlight
<1>14. AtNode'
  BY <1>1, <1>9, AtNodeKept DEF nodeVars
<1> QED BY <1>7, <1>10, <1>12, <1>13, <1>14 DEF DInv

(* The snapshot or the text a lost head is rebuilt from. *)
Source ==
    LET below == SurvivorsBelow(Opened.seq)
        newest == CHOOSE seq \in below : \A other \in below : other <= seq
    IN  IF below # {} THEN blob[newest] ELSE indexed.text[1]

(* What recover rebuilds a head from is a document. *)
LEMMA SourceOK ==
  ASSUME DInv, op = Idle, SurvivorsBelow(Opened.seq) # {} \/ indexed.text \notin {NoHash, <<{}>>}
  PROVE  Source \in Docs
<1> DEFINE below == SurvivorsBelow(Opened.seq)
           newest == CHOOSE seq \in below : \A other \in below : other <= seq
<1>1. CASE below # {}
  <2>1. Opened.seq \in Nat
    BY OpenedOK DEF Current, Live
  <2>2. below \subseteq 0 .. Opened.seq /\ below \subseteq DOMAIN blob
    BY <2>1 DEF SurvivorsBelow, DInv, Typed, BlobTypes
  <2> HIDE DEF below
  <2>3. \E h \in below : \A s \in below : s <= h
    BY <1>1, <2>1, <2>2, HighestExists
  <2>4. newest \in below
    BY <2>3
  <2>5. blob[newest] \in Docs
    BY <2>2, <2>4 DEF DInv, Typed, BlobTypes
  <2>6. Source = blob[newest]
    BY <1>1 DEF Source, below
  <2> QED BY <2>5, <2>6
<1>2. CASE below = {}
  <2>1. Source = indexed.text[1]
    BY <1>2 DEF Source
  <2>2. indexed.text \in Hashes /\ indexed.text # NoHash
    BY <1>2 DEF DInv, Typed, NodeTypes
  <2> QED BY <2>1, <2>2 DEF Hashes
<1> QED BY <1>1, <1>2

(* Rebuilding a head that is gone begins. *)
LEMMA RecoverStep ==
  ASSUME DInv, Recover
  PROVE  DInv'
<1> DEFINE m == Opened
           aside == IF Text(m.doc) # {} THEN m.doc ELSE {}
<1>1. /\ Current(m) /\ (m.dirty => OpenedAlarm(alarm)) /\ op = Idle
      /\ live' = m /\ stranded' = stranded \cup aside
      /\ op' = [Installing(Source) EXCEPT !.then = "recover"]
      /\ alarm' = OpenedAlarm(alarm) /\ spent' = [spent EXCEPT !.installs = @ + 1]
      /\ UNCHANGED <<meta, log, blob, jobs, nodeVars>>
  BY OpenedOK DEF Recover, Source
<1>2. Source \in Docs
  <2>1. SurvivorsBelow(Opened.seq) # {} \/ indexed.text \notin {NoHash, <<{}>>}
    BY DEF Recover
  <2> QED BY <1>1, <2>1, SourceOK
<1> HIDE DEF m
<1>3. live' \in Live /\ Held(live)' /\ OnHead(live)' /\ Meta(live') = meta'
  BY <1>1 DEF Current, Held, OnHead, Readable
<1>4. op' \in Ops /\ Phase(op') /\ op'.is = "install" /\ op'.at = "put"
  <2> DEFINE o == Installing(Source)
  <2>1. o \in Ops /\ o.is = "install" /\ o.at = "put" /\ o.version
    BY <1>2, InstallingOK
  <2> HIDE DEF o
  <2> QED BY <1>1, <2>1, IdleOK DEF o, Ops, OpNexts, Phase
<1>5. stranded' \in Docs
  BY <1>1 DEF Current, Live, Docs, DInv, Typed, ActorTypes
<1>6. alarm' \in BOOLEAN /\ (live'.dirty => alarm')
  BY <1>1 DEF OpenedAlarm, DInv, Typed, ActorTypes
<1>7. SpentTypes' /\ spent'.deleted = spent.deleted
  BY <1>1 DEF DInv, Typed, SpentTypes
<1>8. Typed'
  BY <1>1, <1>3, <1>4, <1>5, <1>6, <1>7 DEF DInv, Typed, ActorTypes, BlobTypes, JobTypes,
                                            NodeTypes, nodeVars
<1>9. Memory' /\ InFlight' /\ Backstop'
  BY <1>3, <1>4, <1>6 DEF Memory, InFlight, InSnapshot, Backstop
<1>10. AtNode'
  BY <1>1, <1>7, AtNodeKept DEF nodeVars
<1> QED BY <1>4, <1>8, <1>9, <1>10 DEF DInv

(* The new head is put. *)
LEMMA PutHeadStep ==
  ASSUME DInv, PutHead
  PROVE  DInv'
<1>1. /\ op.is = "install" /\ op.at = "put"
      /\ blob' = WithSnapshot(live.seq + 1, op.doc)
      /\ op' = [op EXCEPT !.at = "meta"]
      /\ UNCHANGED <<live, meta, log, alarm, stranded, jobs, nodeVars, spent>>
  BY DEF PutHead, Calm
<1>2. live \in Live /\ Held(live) /\ OnHead(live) /\ live.seq = meta.seq /\ op \in Ops
  BY <1>1, InMemory DEF Replaced
<1>3. /\ BlobTypes'
      /\ \A s \in Nat : s <= meta.seq => /\ s \in DOMAIN blob' <=> Readable(s)
                                         /\ Readable(s) => blob'[s] = blob[s]
  BY <1>1, <1>2, WithSnapshotOK DEF Ops
<1>4. /\ op' \in Ops /\ op'.is = "install" /\ op'.at = "meta" /\ op'.then = op.then
      /\ op'.version = op.version
  BY <1>1, <1>2 DEF Ops, OpStops
<1>5. Typed'
  BY <1>1, <1>3, <1>4 DEF DInv, Typed, ActorTypes, JobTypes, NodeTypes, SpentTypes, nodeVars
<1>6. Phase(op)'
  BY <1>1, <1>4, IdleOK DEF DInv, Phase
<1>7. meta.seq \in Nat
  BY DEF DInv, Typed, ActorTypes, Metas
<1>8. Held(live)' /\ OnHead(live)'
  <2>1. /\ meta.seq \in DOMAIN blob' <=> Readable(meta.seq)
        /\ Readable(meta.seq) => blob'[meta.seq] = blob[meta.seq]
    BY <1>3, <1>7
  <2> QED BY <1>1, <1>2, <2>1 DEF Held, OnHead, Readable
<1>9. Memory'
  <2>1. Meta(live) = meta
    BY <1>1, <1>2 DEF DInv, Memory, Held, InSnapshot
  <2> QED BY <1>1, <1>8, <2>1 DEF Memory, Meta
<1>10. InFlight' /\ Backstop'
  BY <1>1, <1>4 DEF DInv, InFlight, InSnapshot, Backstop
<1>11. AtNode'
  <2>1. \A s \in spent.deleted : s \in Nat /\ s <= meta.seq /\ ~Readable(s)
    BY DEF DInv, Typed, SpentTypes, AtNode
  <2> QED BY <1>1, <1>3, <2>1 DEF DInv, AtNode, Readable, nodeVars
<1> QED BY <1>5, <1>6, <1>9, <1>10, <1>11 DEF DInv

(* The new head is committed, in memory and in meta. *)
LEMMA CommitHeadStep ==
  ASSUME DInv, CommitHead
  PROVE  DInv'
<1> DEFINE w == WithVersion(live, live.seq + 1, VersionHash(op.doc))
           out == EvictedBy(live.ring)
<1>1. /\ op.at = "meta"
      /\ live' = [w EXCEPT !.seq = w.seq + 1, !.epoch = w.epoch + 1, !.hydrationIncomplete = FALSE]
      /\ meta' = Meta(live') /\ op' = [op EXCEPT !.at = "drop", !.evicted = out]
      /\ UNCHANGED <<log, alarm, blob, stranded, jobs, nodeVars, spent>>
  BY DEF CommitHead, Calm
<1>2. op.is = "install"
  BY <1>1, IdleOK DEF DInv, Phase
<1>3. live \in Live /\ Held(live) /\ live.seq = meta.seq /\ op \in Ops
  BY <1>2, InMemory
<1>4. w \in Live /\ Same(live, w) /\ w.ring # <<>>
  BY <1>3, HashOK, WithVersionOK DEF Live, Ops
<1>5. out \subseteq Nat
  BY <1>3, NotedOK DEF Live
<1> HIDE DEF w, out
<1>6. w.seq + 1 \in Nat /\ w.epoch + 1 \in Nat
  BY <1>4 DEF Live
<1>7. /\ live' \in Live /\ live'.loaded = w.loaded /\ live'.doc = w.doc /\ live'.seq = w.seq + 1
      /\ live'.epoch = w.epoch + 1 /\ live'.pending = w.pending /\ live'.dirty = w.dirty
      /\ live'.sincePersist = w.sincePersist /\ live'.ring = w.ring /\ live'.lastHash = w.lastHash
  BY <1>1, <1>4, <1>6 DEF Live
<1>8. /\ op' \in Ops /\ op'.is = "install" /\ op'.at = "drop" /\ op'.then = op.then
      /\ op'.version = op.version
  BY <1>1, <1>2, <1>3, <1>5 DEF Ops, OpStops
<1>9. /\ meta' \in Metas /\ meta'.seq = meta.seq + 1 /\ meta'.seq = live'.seq
      /\ meta'.epoch = live'.epoch
      /\ meta.seq \in Nat
  BY <1>1, <1>3, <1>4, <1>7 DEF Meta, Metas, Live, Same
<1>10. Typed'
  BY <1>1, <1>7, <1>8, <1>9 DEF DInv, Typed, ActorTypes, BlobTypes, JobTypes, NodeTypes,
                                SpentTypes, nodeVars
<1>11. Phase(op)'
  BY <1>2, <1>8, IdleOK DEF DInv, Phase
<1>12. Held(live)'
  BY <1>1, <1>3, <1>4, <1>7, <1>9 DEF Same, Held
<1>13. Memory'
  BY <1>1, <1>8, <1>12 DEF Memory, Replaced
<1>14. InFlight'
  BY <1>4, <1>7, <1>8 DEF InFlight, InSnapshot
<1>15. Backstop'
  BY <1>1, <1>2, <1>4, <1>7 DEF DInv, Backstop, Same
<1>16. AtNode'
  <2>1. /\ \A j \in jobs : j.seq \in Nat /\ j.seq <= meta.seq + 1
        /\ indexed.seq \in Nat /\ indexed.seq <= meta.seq + 1
        /\ \A s \in spent.deleted : s \in Nat /\ s <= meta.seq /\ ~Readable(s)
    BY DEF DInv, AtNode, Typed, JobTypes, NodeTypes, SpentTypes
  <2> QED BY <1>1, <1>9, <2>1 DEF AtNode, nodeVars, Readable
<1> QED BY <1>10, <1>11, <1>13, <1>14, <1>15, <1>16 DEF DInv

(* The log the new head superseded is dropped. *)
LEMMA DropLogStep ==
  ASSUME DInv, DropLog
  PROVE  DInv'
<1>1. /\ op.at = "drop" /\ log' = {} /\ op' = [op EXCEPT !.at = "send"]
      /\ UNCHANGED <<live, meta, alarm, blob, stranded, jobs, nodeVars, spent>>
  BY DEF DropLog, Calm
<1>2. op.is = "install"
  BY <1>1, IdleOK DEF DInv, Phase
<1>3. live \in Live /\ Held(live) /\ live.seq = meta.seq /\ op \in Ops
  BY <1>2, InMemory
<1>4. /\ op' \in Ops /\ op'.is = "install" /\ op'.at = "send" /\ op'.then = op.then
      /\ op'.version = op.version
  BY <1>1, <1>2, <1>3 DEF Ops, OpStops
<1>5. Typed'
  BY <1>1, <1>4
  DEF DInv, Typed, ActorTypes, BlobTypes, JobTypes, NodeTypes, SpentTypes, nodeVars, Docs
<1>6. Phase(op)'
  BY <1>2, <1>4, IdleOK DEF DInv, Phase
<1>7. Held(live)'
  BY <1>1, <1>3 DEF Held
<1>8. Meta(live) = meta
  BY <1>2, <1>3 DEF DInv, Memory, Held, InSnapshot
<1>9. Memory'
  BY <1>1, <1>4, <1>7, <1>8 DEF Memory, Replaced, Meta
<1>10. InFlight' /\ Backstop'
  BY <1>1, <1>2, <1>4 DEF DInv, InFlight, InSnapshot, Backstop
<1>11. AtNode'
  BY <1>1, AtNodeKept DEF nodeVars
<1> QED BY <1>5, <1>6, <1>9, <1>10, <1>11 DEF DInv

(* The instance goes, or was not there. *)
LEMMA GoneStep ==
  ASSUME DInv, live' = Unloaded, op' = Idle,
         UNCHANGED <<meta, log, alarm, stranded, jobs, nodeVars>>,
         BlobTypes', AtNode', SpentTypes'
  PROVE  DInv'
<1>1. Unloaded \in Live /\ ~Unloaded.dirty /\ ~Unloaded.loaded
  BY RetentionAssumption DEF Unloaded, Live, Docs, Hashes, NoHash
<1>2. Typed'
  BY <1>1, IdleOK DEF DInv, Typed, ActorTypes, JobTypes, NodeTypes, nodeVars
<1>3. Phase(op)' /\ Memory' /\ InFlight' /\ Backstop'
  BY <1>1, IdleOK DEF Memory, InFlight, InSnapshot, Backstop
<1> QED BY <1>2, <1>3 DEF DInv

(* The host evicts the actor, or the process dies. *)
LEMMA EvictStep ==
  ASSUME DInv, Evict \/ Crash
  PROVE  DInv'
<1>1. /\ live' = Unloaded /\ op' = Idle
      /\ UNCHANGED <<meta, log, alarm, blob, stranded, jobs, nodeVars>>
      /\ spent' = spent \/ Incident("crash")
  BY DEF Evict, Crash, Calm
<1>2. SpentTypes' /\ spent'.deleted = spent.deleted
  BY <1>1 DEF DInv, Typed, SpentTypes, Incident
<1>3. BlobTypes'
  BY <1>1 DEF DInv, Typed, BlobTypes
<1>4. AtNode'
  BY <1>1, <1>2, AtNodeKept DEF nodeVars
<1> QED BY <1>1, <1>2, <1>3, <1>4, GoneStep

(* The blob store loses the head while nobody has it open. *)
LEMMA LoseSnapshotStep ==
  ASSUME DInv, LoseSnapshot
  PROVE  DInv'
<1>1. /\ ~live.loaded /\ op = Idle /\ Incident("lose")
      /\ blob' = [seq \in DOMAIN blob \ {meta.seq} |-> blob[seq]]
      /\ UNCHANGED <<actorVars, stranded, jobs, nodeVars>>
  BY DEF LoseSnapshot
<1>2. live = Unloaded
  BY <1>1 DEF DInv, Memory, Held
<1>3. SpentTypes' /\ spent'.deleted = spent.deleted
  BY <1>1 DEF DInv, Typed, SpentTypes, Incident
<1>4. BlobTypes' /\ AtNode'
  BY <1>1, <1>3 DEF DInv, Typed, BlobTypes, AtNode, Readable, actorVars, nodeVars
<1> QED BY <1>1, <1>2, <1>3, <1>4, GoneStep DEF actorVars

-----------------------------------------------------------------------------
(* The node *)

(* The actor, its blobs and what was spent are not touched by a job. *)
LEMMA NodeStep ==
  ASSUME DInv, UNCHANGED <<actorVars, blob, stranded, spent>>, JobTypes', NodeTypes', AtNode'
  PROVE  DInv'
<1>1. Typed'
  BY DEF DInv, Typed, ActorTypes, BlobTypes, SpentTypes, actorVars
<1>2. Memory'
  BY DEF DInv, Memory, Held, OnHead, Replaced, InSnapshot, Readable, actorVars, Meta
<1>3. Phase(op)' /\ InFlight' /\ Backstop'
  BY DEF DInv, InFlight, InSnapshot, Readable, Backstop, actorVars
<1> QED BY <1>1, <1>2, <1>3 DEF DInv

(* Recording a version keeps rows and floor numbers. *)
LEMMA RecordedOK ==
  ASSUME DInv, NEW j \in jobs, Recorded(j)
  PROVE  versions' \subseteq Nat /\ floor' \in Nat
BY ZenonT(60) DEF Recorded, DInv, Typed, JobTypes, NodeTypes

(* The row moves to a job's number at most. *)
LEMMA IndexedOK ==
  ASSUME DInv, NEW j \in jobs, Recorded(j), indexed' = IndexedAfter(j)
  PROVE  indexed' \in [seq : Nat, text : Hashes] /\ indexed'.seq <= meta.seq + 1
<1> DEFINE text == <<IF Readable(j.seq) THEN Text(blob[j.seq]) ELSE {}>>
           upTo == {v \in versions' : v <= j.seq /\ v >= indexed.seq}
           highest == CHOOSE v \in upTo : \A w \in upTo : w <= v
           rest == IF upTo = {} THEN j.seq ELSE highest
<1>1. indexed' = IF indexed.seq >= j.seq THEN indexed
                 ELSE IF text # indexed.text THEN [seq |-> j.seq, text |-> text]
                 ELSE [indexed EXCEPT !.seq = rest]
  BY DEF IndexedAfter
<1>2. /\ j.seq \in Nat /\ j.seq <= meta.seq + 1
      /\ indexed \in [seq : Nat, text : Hashes] /\ indexed.seq <= meta.seq + 1 /\ meta.seq \in Nat
  BY DEF DInv, Typed, JobTypes, NodeTypes, AtNode, ActorTypes, Metas
<1>3. text \in Hashes
  <2>1. Readable(j.seq) => Text(blob[j.seq]) \in Docs
    BY HashOK DEF DInv, Typed, BlobTypes, Readable
  <2>2. (IF Readable(j.seq) THEN Text(blob[j.seq]) ELSE {}) \in Docs
    BY <2>1 DEF Docs
  <2> QED BY <2>2 DEF Hashes
<1>4. rest \in Nat /\ rest <= j.seq
  <2>1. versions' \subseteq Nat
    BY RecordedOK
  <2>2. j.seq \in Nat /\ indexed.seq \in Nat
    BY <1>2
  <2>3. \A v \in upTo : v \in 0 .. j.seq
    BY <2>1, <2>2
  <2> HIDE DEF upTo
  <2>4. upTo # {} => \E v \in upTo : \A w \in upTo : w <= v
    BY <2>2, <2>3, HighestExists
  <2>5. upTo # {} => highest \in upTo
    BY <2>4
  <2> HIDE DEF highest
  <2>6. CASE upTo = {}
    BY <2>2, <2>6
  <2>7. CASE upTo # {}
    <3>1. highest \in 0 .. j.seq
      BY <2>3, <2>5, <2>7
    <3> QED BY <2>2, <2>7, <3>1
  <2> QED BY <2>6, <2>7
<1> HIDE DEF text, rest
<1> QED BY <1>1, <1>2, <1>3, <1>4

(* A job runs, runs again, or throws. *)
LEMMA JobStep ==
  ASSUME DInv, NEW j \in jobs, RunJob(j, TRUE) \/ RunJob(j, FALSE) \/ JobFails(j)
  PROVE  DInv'
<1>1. /\ Recorded(j) /\ jobs' \subseteq jobs
      /\ indexed' = IndexedAfter(j) \/ indexed' = indexed
      /\ UNCHANGED <<actorVars, blob, stranded, spent>>
  BY DEF RunJob, JobFails, Calm
<1>2. indexed' \in [seq : Nat, text : Hashes] /\ indexed'.seq <= meta.seq + 1
  BY <1>1, IndexedOK DEF DInv, Typed, NodeTypes, AtNode
<1>3. JobTypes' /\ NodeTypes'
  BY <1>1, <1>2, RecordedOK DEF DInv, Typed, JobTypes, NodeTypes
<1>4. AtNode'
  BY <1>1, <1>2 DEF DInv, AtNode, Readable, actorVars
<1> QED BY <1>1, <1>3, <1>4, NodeStep

(* A person deletes a version below the row's own. *)
LEMMA DeleteVersionStep ==
  ASSUME DInv, NEW seq \in DOMAIN blob \cup versions, DeleteVersion(seq)
  PROVE  DInv'
<1>1. /\ seq < indexed.seq
      /\ blob' = [s \in DOMAIN blob \ {seq} |-> blob[s]]
      /\ versions' = versions \ {seq}
      /\ spent' = [spent EXCEPT !.deleted = @ \cup {seq}]
      /\ UNCHANGED <<live, op, meta, log, alarm, stranded, jobs, floor, indexed>>
  BY DEF DeleteVersion, actorVars
<1>2. seq \in Nat /\ meta.seq \in Nat /\ indexed.seq \in Nat /\ indexed.seq <= meta.seq + 1
  BY DEF DInv, Typed, BlobTypes, NodeTypes, ActorTypes, Metas, AtNode
<1>3. seq <= meta.seq
  BY <1>1, <1>2
<1>4. SpentTypes' /\ spent'.deleted = spent.deleted \cup {seq}
  BY <1>1, <1>2 DEF DInv, Typed, SpentTypes
<1>5. /\ DOMAIN blob' \subseteq DOMAIN blob /\ seq \notin DOMAIN blob'
      /\ \A s \in DOMAIN blob : s # seq => s \in DOMAIN blob' /\ blob'[s] = blob[s]
  BY <1>1
<1>6. Typed'
  BY <1>1, <1>4, <1>5 DEF DInv, Typed, ActorTypes, BlobTypes, JobTypes, NodeTypes
<1>7. Held(live) => Held(live)'
  BY <1>1 DEF Held
<1>8. OnHead(live) => OnHead(live)'
  BY <1>1, <1>4, <1>5 DEF OnHead, Readable
<1>9. Memory'
  BY <1>1, <1>7, <1>8 DEF DInv, Memory, Replaced, InSnapshot, Meta
<1>10. InFlight'
  <2>1. InSnapshot /\ op.at \in {"send", "commit"} => live.seq + 1 # seq
    <3>1. InSnapshot => live.seq = meta.seq
      BY InMemory DEF InSnapshot
    <3> QED BY <1>2, <1>3, <3>1
  <2>2. InSnapshot' = InSnapshot
    BY <1>1 DEF InSnapshot
  <2> QED BY <1>1, <1>5, <2>1, <2>2 DEF DInv, InFlight, Readable
<1>11. Phase(op)' /\ Backstop'
  BY <1>1 DEF DInv, Backstop
<1>12. AtNode'
  BY <1>1, <1>3, <1>4, <1>5 DEF DInv, AtNode, Readable
<1> QED BY <1>6, <1>9, <1>10, <1>11, <1>12 DEF DInv

-----------------------------------------------------------------------------
(* The theorems *)

(* A document starts as the invariant says. *)
LEMMA DocInit ==
  ASSUME Init
  PROVE  DInv
<1>1. Unloaded \in Live /\ ~Unloaded.dirty /\ ~Unloaded.loaded
  BY RetentionAssumption DEF Unloaded, Live, Docs, Hashes, NoHash
<1>2. Meta(Unloaded) \in Metas /\ Meta(Unloaded).seq = 0
  BY DEF Meta, Unloaded, Metas, Hashes
<1>3. DOMAIN blob = {}
  BY DEF Init
<1>4. Typed
  BY <1>1, <1>2, <1>3, IdleOK
  DEF Init, Typed, ActorTypes, BlobTypes, JobTypes, NodeTypes, SpentTypes, Docs, Hashes
<1>5. Phase(op) /\ Memory /\ InFlight /\ Backstop
  BY <1>1, IdleOK DEF Init, Memory, InFlight, InSnapshot, Backstop
<1>6. AtNode
  BY <1>2 DEF Init, AtNode
<1> QED BY <1>4, <1>5, <1>6 DEF DInv

(* Every step keeps the invariant. *)
LEMMA DocStep ==
  ASSUME DInv, [Next]_vars
  PROVE  DInv'
<1>1. CASE UNCHANGED vars
  <2>1. UNCHANGED <<actorVars, blob, stranded, spent>> /\ UNCHANGED <<jobs, nodeVars>>
    BY <1>1 DEF vars
  <2>2. JobTypes' /\ NodeTypes'
    BY <2>1 DEF DInv, Typed, JobTypes, NodeTypes, nodeVars
  <2>3. AtNode'
    BY <2>1 DEF DInv, AtNode, Readable, actorVars, nodeVars
  <2> QED BY <2>1, <2>2, <2>3, NodeStep
<1>2. CASE \E e \in Edits : Type(e) \/ Write(e)
  BY <1>2, TypeStep, WriteStep
<1>3. CASE Leave \/ FireAlarm \/ AlarmPromotes
  BY <1>3, LeaveStep, FireAlarmStep, AlarmPromotesStep
<1>4. CASE (\E target \in DOMAIN blob : Restore(target)) \/ Recover
  BY <1>4, RestoreStep, RecoverStep
<1>5. CASE PutSnapshot \/ Send \/ CommitSnapshot \/ Prune
  BY <1>5, PutSnapshotStep, SendStep, CommitSnapshotStep, PruneStep
<1>6. CASE PutHead \/ CommitHead \/ DropLog
  BY <1>6, PutHeadStep, CommitHeadStep, DropLogStep
<1>7. CASE PutFails \/ SendFails
  BY <1>7, PutFailsStep, SendFailsStep
<1>8. CASE Evict \/ Crash \/ LoseSnapshot
  BY <1>8, EvictStep, LoseSnapshotStep
<1>9. CASE \E j \in jobs : RunJob(j, TRUE) \/ RunJob(j, FALSE) \/ JobFails(j)
  BY <1>9, JobStep
<1>10. CASE \E seq \in DOMAIN blob \cup versions : DeleteVersion(seq)
  BY <1>10, DeleteVersionStep
<1> QED BY <1>1, <1>2, <1>3, <1>4, <1>5, <1>6, <1>7, <1>8, <1>9, <1>10 DEF Next

(* Memory, the log, the head and the node stand to each other as DInv says, *)
(* whatever fails, crashes, is lost or is deleted in between.               *)
THEOREM DocInvariant == Spec => []DInv
<1>1. Init => DInv
  BY DocInit
<1>2. DInv /\ [Next]_vars => DInv'
  BY DocStep
<1> QED BY <1>1, <1>2, PTL DEF Spec

(* Every variable keeps its shape. *)
THEOREM TypeCorrect == Spec => []TypeOK
<1>1. DInv => TypeOK
  <2> HAVE DInv
  <2>1. live \in Live /\ op \in Ops
    BY DEF DInv, Typed, ActorTypes
  <2>2. Meta(live) \in Metas
    BY <2>1 DEF Live, Meta, Metas
  <2>3. DOMAIN blob \subseteq Nat /\ \A seq \in DOMAIN blob : blob[seq] \in Docs
    BY DEF DInv, Typed, BlobTypes
  <2> QED BY <2>1, <2>2, <2>3
      DEF TypeOK, DInv, Typed, ActorTypes, JobTypes, NodeTypes, Live, Ops, OpKinds, OpStops
<1> QED BY <1>1, DocInvariant, PTL

(* A document the instance calls clean is what a restart would load: no      *)
(* failed flush is mistaken for a saved one, and no pruning, no crash and no *)
(* late answer takes the head from under it.                                *)
THEOREM CleanIsSaved == Spec => []CleanMeansSaved
<1>1. DInv => CleanMeansSaved
  <2> SUFFICES ASSUME DInv, op = Idle, live.loaded, ~live.dirty, ~live.hydrationIncomplete
               PROVE  /\ Meta(live) = meta /\ log = {}
                      /\ meta.seq = 0 => live.doc = {}
                      /\ meta.seq > 0 /\ meta.seq \notin spent.deleted =>
                          Readable(meta.seq) /\ live.doc = blob[meta.seq]
    BY DEF CleanMeansSaved
  <2>1. Opened = live
    BY DEF Opened
  <2>2. Current(live)
    BY <2>1, OpenedOK
  <2> QED BY <2>2 DEF Current, Held, OnHead
<1> QED BY <1>1, DocInvariant, PTL

(* Edits in memory that are not saved have an alarm coming. *)
THEOREM DirtyHasAlarm == Spec => []DirtyHasBackstop
<1>1. DInv => DirtyHasBackstop
  BY DEF DInv, Backstop, DirtyHasBackstop
<1> QED BY <1>1, DocInvariant, PTL

-----------------------------------------------------------------------------
(* Nothing stored is taken back *)

(* The log and what was put aside grow, the head and its snapshot stand. *)
Stands ==
    /\ log \subseteq log' /\ stranded \subseteq stranded'
    /\ meta'.seq = meta.seq
    /\ Readable(meta.seq) => meta.seq \in DOMAIN blob' /\ blob'[meta.seq] = blob[meta.seq]

(* With log, head and what was put aside unharmed, nothing stored is lost. *)
LEMMA StandsStays ==
  ASSUME Stands
  PROVE  StoredStays
BY DEF Stands, StoredStays, Stored, Readable

(* A promotion only enters a version. *)
LEMMA PromoteStands ==
  ASSUME NEW m, Current(m), NEW reason, NEW next, NEW before, Promote(m, reason, next, before)
  PROVE  meta'.seq = meta.seq
<1>1. PICK due \in Due(m, m.seq, reason) :
        \/ live' = WithVersion(m, m.seq, VersionHash(m.doc)) /\ meta' = Meta(live')
        \/ meta' = meta
  BY DEF Promote
<1>2. m.seq \in Nat /\ VersionHash(m.doc) \in Hashes /\ m \in Live /\ m.seq = meta.seq
  BY HashOK DEF Current, Held, Live
<1>3. WithVersion(m, m.seq, VersionHash(m.doc)).seq = m.seq
  BY <1>2, WithVersionOK DEF Same
<1> QED BY <1>1, <1>2, <1>3 DEF Meta

(* Entries only add to the log. *)
LEMMA EntriesKeep ==
  ASSUME DInv, (\E e \in Edits : Type(e) \/ Write(e)) \/ Leave \/ FireAlarm \/ AlarmPromotes
  PROVE  StoredStays
<1>1. UNCHANGED <<blob, stranded>>
  BY DEF Type, Write, Leave, FireAlarm, AlarmPromotes
<1>2. ASSUME NEW e \in Edits, Type(e) \/ Write(e)
      PROVE  log \subseteq log' /\ meta'.seq = meta.seq
  <2> DEFINE m == Journaled(Opened, e)
  <2>1. Current(Opened)
    BY <1>2, OpenedOK DEF Type, Write
  <2>2. Held(m) /\ Meta(m) = meta
    BY <2>1, JournaledOK
  <2>3. (log' = m.pending /\ meta' = Meta(m)) \/ UNCHANGED <<log, meta>>
    BY <1>2 DEF Type, Write, Persist
  <2> HIDE DEF m
  <2> QED BY <2>2, <2>3 DEF Held
<1>3. ASSUME Leave PROVE log' = log /\ meta'.seq = meta.seq
  BY <1>3, OpenedOK, PromoteStands DEF Leave
<1>4. ASSUME FireAlarm PROVE log' = log /\ meta' = meta
  BY <1>4 DEF FireAlarm
<1>5. ASSUME AlarmPromotes PROVE log' = log /\ meta'.seq = meta.seq
  <2>1. op.is = "alarm" /\ Promote(live, "timer", "arm", alarm) /\ log' = log
    BY <1>5 DEF AlarmPromotes
  <2>2. Current(live)
    BY <2>1, InMemory, IdleOK DEF DInv, Memory, Current, Held, Replaced, InSnapshot
  <2> QED BY <2>1, <2>2, PromoteStands
<1>6. log \subseteq log' /\ meta'.seq = meta.seq
  BY <1>2, <1>3, <1>4, <1>5
<1> QED BY <1>1, <1>6, StandsStays DEF Stands, Readable

(* A snapshot takes over what the log held. *)
LEMMA SnapshotsKeep ==
  ASSUME DInv, PutSnapshot \/ Send \/ CommitSnapshot \/ Prune
  PROVE  StoredStays
<1> SUFFICES ASSUME op.is # "install"
             PROVE  StoredStays
  BY DEF StoredStays
<1>1. op.is # "idle"
  BY IdleOK DEF DInv, Phase, PutSnapshot, Send, CommitSnapshot, Prune
<1>2. live \in Live /\ Held(live) /\ OnHead(live) /\ live.seq = meta.seq /\ meta.seq \in Nat
  BY <1>1, InMemory DEF Replaced, Live
<1>3. CASE PutSnapshot
  <2>1. blob' = WithSnapshot(live.seq + 1, live.doc) /\ UNCHANGED <<meta, log, stranded>>
    BY <1>3 DEF PutSnapshot
  <2> QED BY <1>2, <2>1, WithSnapshotOK, StandsStays DEF Stands, Live
<1>4. CASE Send
  BY <1>4, StandsStays DEF Send, Stands, Readable
<1>5. CASE Prune
  <2>1. /\ blob' = [seq \in DOMAIN blob \ Pruned(live.seq, live.ring, op.evicted) |-> blob[seq]]
        /\ UNCHANGED <<meta, log, stranded>>
    BY <1>5 DEF Prune
  <2>2. meta.seq \notin Pruned(live.seq, live.ring, op.evicted)
    BY <1>2, PrunedOK
  <2> QED BY <2>1, <2>2, StandsStays DEF Stands, Readable
<1>6. CASE CommitSnapshot
  <2>1. op.at = "commit" /\ UNCHANGED <<blob, stranded>> /\ meta' = Meta(live')
        /\ live'.seq = live.seq + 1
    BY <1>2, <1>6 DEF CommitSnapshot, Live
  <2>2. meta'.seq = live.seq + 1
    BY <2>1 DEF Meta
  <2>3. InSnapshot
    BY <2>1, IdleOK DEF DInv, Phase, InSnapshot
  <2>4. Readable(live.seq + 1) /\ blob[live.seq + 1] = live.doc
    BY <2>1, <2>3 DEF DInv, InFlight
  <2>5. log \subseteq live.doc /\ (Readable(meta.seq) => blob[meta.seq] \subseteq live.doc)
    BY <1>2 DEF Held, OnHead
  <2>6. Stored \subseteq stranded \cup live.doc
    BY <2>5 DEF Stored
  <2>7. stranded \cup live.doc \subseteq Stored'
    BY <2>1, <2>2, <2>4 DEF Stored, Readable
  <2> QED BY <2>6, <2>7 DEF StoredStays
<1> QED BY <1>3, <1>4, <1>5, <1>6

(* Failures, installs and restarts leave what is stored, or replace it openly. *)
LEMMA OthersKeep ==
  ASSUME DInv, \/ \E target \in DOMAIN blob : Restore(target)
               \/ Recover \/ PutHead \/ CommitHead \/ DropLog
               \/ PutFails \/ SendFails \/ Evict \/ Crash
  PROVE  StoredStays
<1>1. CASE PutHead \/ CommitHead \/ DropLog
  <2>1. op.is = "install"
    BY <1>1, IdleOK DEF PutHead, CommitHead, DropLog, DInv, Phase
  <2> QED BY <2>1 DEF StoredStays
<1>2. CASE (\E target \in DOMAIN blob : Restore(target)) \/ Recover \/ Evict \/ Crash
  <2>1. UNCHANGED <<log, meta, blob>> /\ stranded \subseteq stranded'
    BY <1>2 DEF Restore, Recover, Evict, Crash
  <2> QED BY <2>1, StandsStays DEF Stands, Readable
<1>3. CASE PutFails \/ SendFails
  <2>1. UNCHANGED <<log, blob, stranded>> /\ Fails /\ op.at \in {"put", "send"}
    BY <1>3 DEF PutFails, SendFails
  <2>2. op.is \in {"flush", "promote", "checkpoint", "install"}
    BY <2>1, IdleOK DEF DInv, Phase
  <2>3. live \in Live /\ live.seq = meta.seq /\ op \in Ops
    BY <2>2, InMemory
  <2>4. meta'.seq = meta.seq
    <3>1. CASE op.is = "promote"
      <4>1. live' = RolledBack(live, op.prev) /\ meta' = Meta(live')
        BY <2>1, <3>1 DEF Fails
      <4>2. op.prev \in Seq(Nat) \X Hashes
        BY <2>3, <3>1 DEF DInv, Phase, Ops, Prevs
      <4>3. live'.seq = live.seq
        BY <2>3, <4>1, <4>2, RolledBackOK DEF Same
      <4> QED BY <2>3, <4>1, <4>3 DEF Meta
    <3>2. CASE op.is # "promote"
      <4>1. meta' = meta
        BY <2>1, <2>2, <3>2 DEF Fails
      <4> QED BY <4>1
    <3> QED BY <3>1, <3>2
  <2> QED BY <2>1, <2>4, StandsStays DEF Stands, Readable
<1> QED BY <1>1, <1>2, <1>3

(* The node touches the head only when a person or the blob store does. *)
LEMMA NodeKeeps ==
  ASSUME DInv, \/ \E j \in jobs : RunJob(j, TRUE) \/ RunJob(j, FALSE) \/ JobFails(j)
               \/ \E seq \in DOMAIN blob \cup versions : DeleteVersion(seq)
               \/ LoseSnapshot
  PROVE  StoredStays
<1>1. CASE \E j \in jobs : RunJob(j, TRUE) \/ RunJob(j, FALSE) \/ JobFails(j)
  <2>1. UNCHANGED <<actorVars, blob, stranded>>
    BY <1>1 DEF RunJob, JobFails
  <2> QED BY <2>1, StandsStays DEF Stands, actorVars, Readable
<1>2. ASSUME NEW seq, DeleteVersion(seq)
      PROVE  StoredStays
  <2>1. /\ UNCHANGED <<meta, log, stranded>> /\ blob' = [s \in DOMAIN blob \ {seq} |-> blob[s]]
        /\ spent' = [spent EXCEPT !.deleted = spent.deleted \cup {seq}]
    BY <1>2 DEF DeleteVersion, actorVars
  <2>2. CASE seq = meta.seq /\ Readable(meta.seq)
    <3>1. meta.seq \notin spent.deleted
      BY <2>2 DEF DInv, AtNode
    <3>2. spent'.deleted = spent.deleted \cup {seq}
      BY <2>1 DEF DInv, Typed, SpentTypes
    <3>3. spent' # spent
      BY <2>2, <3>1, <3>2
    <3> QED BY <2>1, <2>2, <3>3 DEF StoredStays
  <2>3. CASE ~(seq = meta.seq /\ Readable(meta.seq))
    BY <2>1, <2>3, StandsStays DEF Stands, Readable
  <2> QED BY <2>2, <2>3
<1>3. CASE LoseSnapshot
  <2>1. /\ UNCHANGED meta /\ Readable(meta.seq) /\ Incident("lose")
        /\ blob' = [seq \in DOMAIN blob \ {meta.seq} |-> blob[seq]]
    BY <1>3 DEF LoseSnapshot, actorVars
  <2>2. spent' # spent
    <3>1. spent'.incidents = spent.incidents + 1 /\ spent.incidents \in Nat
      BY <2>1 DEF Incident, DInv, Typed, SpentTypes
    <3> QED BY <3>1
  <2> QED BY <2>1, <2>2 DEF StoredStays
<1> QED BY <1>1, <1>2, <1>3

(* No flush, failed flush, promotion, pruning, crash or retry takes back an *)
(* edit that the log or the head snapshot once held: only a head install    *)
(* replaces the document, only a person or the blob store deletes the head. *)
THEOREM StoredIsKept == Spec => NothingStoredIsLost
<1>1. DInv /\ Next => StoredStays
  BY EntriesKeep, SnapshotsKeep, OthersKeep, NodeKeeps DEF Next
<1>2. DInv /\ [Next]_vars => [StoredStays]_vars
  BY <1>1
<1> QED BY <1>2, DocInvariant, PTL DEF Spec, NothingStoredIsLost

-----------------------------------------------------------------------------
(***************************************************************************)
(* The text a head install replaces is kept: the newest version of the    *)
(* ring has the text its hash stands for, so "unchanged since the last     *)
(* version" means that a version of this text can be restored.            *)
(***************************************************************************)

(* The newest version of a ring has bytes of that hash, unless a person     *)
(* deleted it or the blob store lost it as the head.                        *)
Witness(ring, hash, head, snapshots, deleted) ==
    /\ ring = <<>> => hash = NoHash
    /\ ring # <<>> =>
        /\ Newest(ring) > 0
        /\ \/ Newest(ring) \in deleted
           \/ Newest(ring) = head /\ head \notin DOMAIN snapshots
           \/ Newest(ring) \in DOMAIN snapshots /\ VersionHash(snapshots[Newest(ring)]) = hash

(* The text of memory m is the newest version's, or was. *)
Kept(m, snapshots, deleted) ==
    \/ Text(m.doc) = {}
    \/ Newest(m.ring) \in deleted
    \/ Newest(m.ring) \in DOMAIN snapshots /\ Text(snapshots[Newest(m.ring)]) = Text(m.doc)

Standing ==
    /\ Newest(meta.ring) <= meta.seq
    /\ Witness(meta.ring, meta.lastHash, meta.seq, blob, spent.deleted)

(* A version on its way: in memory with the snapshot, or stored already. *)
Entering ==
    /\ op.is = "promote" /\ op.at = "send" =>
        /\ Witness(op.prev[1], op.prev[2], meta.seq, blob, spent.deleted)
        /\ Newest(op.prev[1]) <= meta.seq
    /\ InSnapshot /\ op.at = "put" => op.hash \in {NoHash, VersionHash(live.doc)}
    /\ InSnapshot /\ op.at \in {"send", "commit"} =>
        IF op.version
        THEN live.ring # <<>> /\ Newest(live.ring) = live.seq + 1
        /\ live.lastHash = VersionHash(live.doc)
        ELSE live.ring = meta.ring /\ live.lastHash = meta.lastHash

(* A checkpoint makes a version of what the install replaces. *)
Checkpointed ==
    op.is = "checkpoint" =>
        /\ op.at = "put" =>
            /\ ~ParkedOnly(live.doc)
            /\ op.hash = VersionHash(live.doc) /\ op.hash # live.lastHash
        /\ op.at \in {"send", "commit"} => op.version
        /\ op.at = "prune" => Kept(live, blob, spent.deleted)

(* ... or there was one, or it was put aside. *)
Replacing ==
    op.is = "install" /\ op.at \in {"put", "meta"} =>
        /\ op.at = "meta" => Readable(live.seq + 1) /\ blob[live.seq + 1] = op.doc
        /\ IF op.then = "recover" THEN live.hydrationIncomplete /\ Text(live.doc) \subseteq stranded
           ELSE ~live.hydrationIncomplete => Kept(live, blob, spent.deleted)

VInv == Standing /\ Entering /\ Checkpointed /\ Replacing

-----------------------------------------------------------------------------
(* The newest version of a ring *)

(* The newest version of a ring is its last entry. *)
LEMMA NewestOK ==
  ASSUME NEW ring \in Seq(Nat)
  PROVE  /\ Newest(ring) \in Nat
         /\ ring # <<>> => Len(ring) \in DOMAIN ring /\ ring[Len(ring)] = Newest(ring)
<1>1. CASE ring = <<>>
  BY <1>1 DEF Newest
<1>2. CASE ring # <<>>
  <2>1. Len(ring) \in 1 .. Len(ring)
    BY <1>2, EmptySeq
  <2> QED BY <1>2, <2>1 DEF Newest
<1> QED BY <1>1, <1>2

(* The version entered is the newest, and the one before it stays. *)
LEMMA NewestNoted ==
  ASSUME NEW ring \in Seq(Nat), NEW seq \in Nat
  PROVE  /\ Newest(Noted(ring, seq)) = seq
         /\ ring # <<>> => \E i \in DOMAIN Noted(ring, seq) : Noted(ring, seq)[i] = Newest(ring)
<1> DEFINE n == Len(ring)
           longer == Append(ring, seq)
<1>1. n \in Nat /\ longer \in Seq(Nat) /\ Len(longer) = n + 1 /\ longer[n + 1] = seq
  BY AppendProperties
<1>2. ring # <<>> => n > 0 /\ longer[n] = Newest(ring)
  <2> HAVE ring # <<>>
  <2>1. n > 0
    BY <1>1, EmptySeq
  <2> QED BY <2>1, AppendProperties DEF Newest
<1>3. CASE n + 1 > VERSION_KEEP
  <2>1. n >= 2 /\ longer # <<>>
    BY <1>1, <1>3, RetentionAssumption, EmptySeq
  <2>2. Noted(ring, seq) = Tail(longer)
    BY <1>1, <1>3 DEF Noted
  <2> HIDE DEF longer, n
  <2>3. Len(Tail(longer)) = n /\ \A i \in 1 .. n : Tail(longer)[i] = longer[i + 1]
    BY <1>1, <2>1, HeadTailProperties
  <2>4. Tail(longer)[n] = seq /\ Tail(longer) # <<>> /\ Tail(longer)[n - 1] = longer[n]
    <3>1. n \in 1 .. n /\ n - 1 \in 1 .. n /\ (n - 1) + 1 = n
      BY <1>1, <2>1
    <3>2. Tail(longer)[n] = longer[n + 1]
      BY <2>3, <3>1
    <3>3. Tail(longer)[n - 1] = longer[(n - 1) + 1]
      BY <2>3, <3>1
    <3>4. Tail(longer) # <<>>
      <4>1. Tail(longer) \in Seq(Nat) /\ Len(Tail(longer)) # 0
        BY <1>1, <2>1, <2>3, HeadTailProperties
      <4> QED BY <4>1, EmptySeq
    <3> QED BY <1>1, <3>1, <3>2, <3>3, <3>4
  <2>5. n - 1 \in DOMAIN Tail(longer)
    <3>1. Tail(longer) \in Seq(Nat)
      BY <1>1, <2>1, HeadTailProperties
    <3> QED BY <1>1, <2>1, <2>3, <3>1, LenProperties
  <2> QED BY <1>2, <2>1, <2>2, <2>3, <2>4, <2>5 DEF Newest
<1>4. CASE ~(n + 1 > VERSION_KEEP)
  <2>1. Noted(ring, seq) = longer
    BY <1>1, <1>4 DEF Noted
  <2> HIDE DEF longer
  <2>2. longer # <<>>
    BY <1>1, EmptySeq
  <2>3. Newest(longer) = seq
    BY <1>1, <2>2 DEF Newest
  <2>4. ring # <<>> => n \in DOMAIN longer
    BY <1>1, <1>2, LenProperties
  <2> HIDE DEF n
  <2> QED BY <1>2, <2>1, <2>3, <2>4
<1> QED BY <1>3, <1>4

(* Nothing prunes the newest version. *)
LEMMA NewestRetained ==
  ASSUME NEW ring \in Seq(Nat), ring # <<>>, NEW head, NEW evicted
  PROVE  Newest(ring) \notin Pruned(head, ring, evicted)
<1>1. \E i \in DOMAIN ring : ring[i] = Newest(ring)
  BY NewestOK
<1> QED BY <1>1 DEF Pruned, Retained

(* What stands goes on standing while its bytes are left alone. *)
Untouched(seq, before, after) ==
    /\ seq \in DOMAIN before <=> seq \in DOMAIN after
    /\ seq \in DOMAIN before => after[seq] = before[seq]

(* ... for a ring and its hash, *)
LEMMA WitnessStays ==
  ASSUME NEW ring, NEW hash, NEW head, NEW before, NEW after, NEW deleted, NEW more,
         Witness(ring, hash, head, before, deleted), deleted \subseteq more,
         ring # <<>> => Newest(ring) \in more \/ Untouched(Newest(ring), before, after)
  PROVE  Witness(ring, hash, head, after, more)
BY DEF Witness, Untouched

(* ... for the memory a version stands for, *)
LEMMA KeptStays ==
  ASSUME NEW m, NEW n, NEW before, NEW after, NEW deleted, NEW more,
         Kept(m, before, deleted), deleted \subseteq more, n.doc = m.doc, n.ring = m.ring,
         Newest(m.ring) \in more \/ Untouched(Newest(m.ring), before, after)
  PROVE  Kept(n, after, more)
BY DEF Kept, Untouched

(* ... and for what is stored. *)
LEMMA StandingStays ==
  ASSUME DInv, Standing, meta' = meta, spent.deleted \subseteq spent'.deleted,
         Newest(meta.ring) \in spent'.deleted \/ Untouched(Newest(meta.ring), blob, blob')
  PROVE  Standing'
<1>1. Witness(meta.ring, meta.lastHash, meta.seq, blob', spent'.deleted)
  BY WitnessStays DEF Standing
<1> QED BY <1>1 DEF Standing

(* Nothing is said of a handler that is done, or of an alarm's. *)
LEMMA AtRest ==
  ASSUME op'.is \in {"idle", "alarm"}
  PROVE  Entering' /\ Checkpointed' /\ Replacing'
BY DEF Entering, Checkpointed, Replacing, InSnapshot

(* A flush that starts has entered nothing yet. *)
LEMMA FlushEnters ==
  ASSUME NEW next, Starting(op', "flush", live', next)
  PROVE  Entering' /\ Checkpointed' /\ Replacing'
BY DEF Starting, Entering, Checkpointed, Replacing, InSnapshot

-----------------------------------------------------------------------------
(* Every step keeps VInv *)

(* Entries start at most a flush. *)
LEMMA EntriesVersions ==
  ASSUME DInv, VInv, (\E e \in Edits : Type(e) \/ Write(e)) \/ FireAlarm \/ (Leave /\ live.dirty)
  PROVE  VInv'
<1>1. meta' = meta /\ blob' = blob /\ spent' = spent /\ op = Idle
  <2>1. ASSUME NEW e \in Edits, Type(e) PROVE meta' = meta
    <3>1. Current(Opened)
      BY <2>1, OpenedOK DEF Type
    <3>2. Meta(Journaled(Opened, e)) = meta
      BY <3>1, JournaledOK
    <3> QED BY <2>1, <3>2 DEF Type, Persist
  <2>2. ASSUME NEW e \in Edits, Write(e) PROVE meta' = meta
    BY <2>2, WriteOpens
  <2> QED BY <2>1, <2>2 DEF Type, Write, FireAlarm, Leave, Calm
<1>2. Standing'
  BY <1>1, StandingStays DEF VInv, Untouched
<1>3. \/ op'.is \in {"idle", "alarm"}
      \/ \E next \in {"", "alarm"} : Starting(op', "flush", live', next)
  <2>1. ASSUME NEW e \in Edits, Type(e) PROVE op'.is = "idle"
    BY <1>1, <2>1, IdleOK DEF Type
  <2>2. ASSUME NEW e \in Edits, Write(e) PROVE op'.is = "idle" \/ Starting(op', "flush", live', "")
    BY <2>2, WriteOpens, IdleOK
  <2>3. ASSUME FireAlarm PROVE op'.is = "alarm" \/ Starting(op', "flush", live', "alarm")
    <3>1. live' = Opened /\ Opened \in Live
      BY <1>1, <2>3, OpenedOK DEF FireAlarm, Current
    <3>2. Flush(Opened, "timer", "alarm")
      BY <2>3 DEF FireAlarm
    <3> QED BY <3>1, <3>2, FlushOK DEF SameText
  <2>4. ASSUME Leave, live.dirty PROVE op'.is = "idle" \/ Starting(op', "flush", live', "")
    <3>1. live' = live /\ live \in Live /\ Flush(live, "eviction", "")
      BY <2>4 DEF Leave, DInv, Typed, ActorTypes
    <3> QED BY <3>1, FlushOK, IdleOK DEF SameText
  <2> QED BY <2>1, <2>2, <2>3, <2>4
<1> QED BY <1>2, <1>3, AtRest, FlushEnters DEF VInv

(* What promote enters is the saved head, whose bytes are there. *)
LEMMA PromoteVersions ==
  ASSUME DInv, VInv, NEW m, Current(m), NEW reason, NEW next, NEW before,
         Promote(m, reason, next, before), blob' = blob, spent' = spent
  PROVE  VInv'
<1>1. m \in Live /\ Held(m) /\ OnHead(m) /\ Meta(m) = meta /\ m.seq = meta.seq /\ m.seq \in Nat
  BY DEF Current, Held, Live
<1>2. m.ring = meta.ring /\ m.lastHash = meta.lastHash /\ m.ring \in Seq(Nat)
  BY <1>1 DEF Meta, Live
<1> PICK due \in Due(m, m.seq, reason) :
      IF due /\ Owed(m)
      THEN /\ live' = WithVersion(m, m.seq, VersionHash(m.doc))
           /\ op' = [Idle EXCEPT !.is = "promote", !.at = "send", !.then = next,
                                 !.prev = <<m.ring, m.lastHash>>, !.version = TRUE,
                                 !.evicted = EvictedBy(m.ring)]
           /\ meta' = Meta(live')
           /\ alarm' = before
      ELSE /\ live' = IF due THEN Verdict(m) ELSE m
           /\ op' = Idle
           /\ alarm' = (before \/ (next = "arm" /\ Armed(live')))
           /\ UNCHANGED meta
  BY DEF Promote
<1>3. CASE due /\ Owed(m)
  <2>1. m.seq > Newest(m.ring) /\ ~m.dirty /\ ~m.hydrationIncomplete /\ Newest(m.ring) \in Nat
    BY <1>2, <1>3, NewestOK DEF Owed, PastNewest
  <2>2. live' = WithVersion(m, m.seq, VersionHash(m.doc)) /\ meta' = Meta(live')
    BY <1>3
  <2>3. live'.ring = Noted(m.ring, m.seq) /\ live'.ring # <<>>
        /\ live'.lastHash = VersionHash(m.doc) /\ live'.seq = m.seq
    BY <1>1, <2>2, HashOK, WithVersionOK DEF Live, Same
  <2>4. meta'.ring = live'.ring /\ meta'.lastHash = VersionHash(m.doc) /\ meta'.seq = meta.seq
    BY <1>1, <2>2, <2>3 DEF Meta
  <2>5. Newest(meta'.ring) = meta.seq
    BY <1>1, <1>2, <2>3, <2>4, NewestNoted
  <2>6. meta.seq \in spent.deleted \/ (Readable(meta.seq) /\ blob[meta.seq] = m.doc)
    BY <1>1, <2>1 DEF OnHead
  <2>7. Standing'
    <3>1. Witness(meta'.ring, meta'.lastHash, meta'.seq, blob', spent'.deleted)
      BY <1>1, <2>1, <2>3, <2>4, <2>5, <2>6 DEF Witness, Readable
    <3> QED BY <1>1, <2>4, <2>5, <3>1 DEF Standing
  <2>8. op'.is = "promote" /\ op'.at = "send" /\ op'.prev = <<meta.ring, meta.lastHash>>
    BY <1>2, <1>3, IdleOK, ZenonT(60) DEF Ops
  <2>9. Entering'
    BY <2>4, <2>8 DEF VInv, Standing, Entering, InSnapshot
  <2>10. Checkpointed' /\ Replacing'
    BY <2>8 DEF Checkpointed, Replacing
  <2> QED BY <2>7, <2>9, <2>10 DEF VInv
<1>4. CASE ~(due /\ Owed(m))
  <2>1. op' = Idle /\ meta' = meta
    BY <1>4
  <2>2. Standing'
    BY <2>1, StandingStays DEF VInv, Untouched
  <2> QED BY <2>1, <2>2, AtRest, IdleOK DEF VInv
<1> QED BY <1>3, <1>4

(* The promotions an alarm and someone leaving ask for. *)
LEMMA PromotesVersions ==
  ASSUME DInv, VInv, AlarmPromotes \/ (Leave /\ ~live.dirty)
  PROVE  VInv'
<1>1. CASE AlarmPromotes
  <2>1. op.is = "alarm" /\ Promote(live, "timer", "arm", alarm) /\ blob' = blob /\ spent' = spent
    BY <1>1 DEF AlarmPromotes, Calm
  <2>2. Current(live)
    BY <2>1, InMemory, IdleOK DEF DInv, Memory, Current, Held, Replaced, InSnapshot
  <2> QED BY <2>1, <2>2, PromoteVersions
<1>2. CASE Leave /\ ~live.dirty
  <2>1. op = Idle /\ Promote(Opened, "eviction", "", OpenedAlarm(alarm)) /\ blob' = blob
        /\ spent' = spent
    BY <1>2 DEF Leave, Calm
  <2> QED BY <2>1, OpenedOK, PromoteVersions
<1> QED BY <1>1, <1>2

(* A put above the head leaves the versions up to it alone. *)
LEMMA PutSpares ==
  ASSUME DInv, NEW doc \in Docs, blob' = WithSnapshot(live.seq + 1, doc), live.seq = meta.seq
  PROVE  \A seq \in Nat : seq <= meta.seq => Untouched(seq, blob, blob')
BY WithSnapshotOK DEF Untouched, Readable

(* What the invariant of the store says of the two rings. *)
LEMMA RingTypes ==
  ASSUME DInv
  PROVE  meta.ring \in Seq(Nat) /\ live.ring \in Seq(Nat) /\ meta.seq \in Nat /\ live.doc \in Docs
BY DEF DInv, Typed, ActorTypes, Metas, Live

(* A snapshot put enters its version in memory. *)
LEMMA PutSnapshotVersions ==
  ASSUME DInv, VInv, PutSnapshot
  PROVE  VInv'
<1> DEFINE seq == live.seq + 1
           parked == ParkedOnly(live.doc)
           version == ~parked /\ op.hash \notin {NoHash, live.lastHash}
           stop == IF parked THEN "commit" ELSE "send"
           out == IF version THEN EvictedBy(live.ring) ELSE {}
<1>1. /\ op.at = "put" /\ InSnapshot
      /\ blob' = WithSnapshot(seq, live.doc)
      /\ live' = IF version THEN WithVersion(live, seq, op.hash) ELSE live
      /\ op' = [op EXCEPT !.at = stop, !.version = version, !.evicted = out]
      /\ UNCHANGED <<meta, log, alarm, stranded, jobs, nodeVars, spent>>
  BY DEF PutSnapshot, Calm, InSnapshot
<1>2. live \in Live /\ live.seq = meta.seq /\ op \in Ops
  BY <1>1, InMemory DEF InSnapshot
<1>3. live.ring = meta.ring /\ live.lastHash = meta.lastHash
  BY <1>1, <1>2, InMemory DEF DInv, Memory, Held, InSnapshot, Meta
<1>4. \A s \in Nat : s <= meta.seq => Untouched(s, blob, blob')
  BY <1>1, <1>2, PutSpares DEF Live
<1>5. Standing'
  <2>1. Newest(meta.ring) \in Nat /\ Newest(meta.ring) <= meta.seq
    BY RingTypes, NewestOK DEF VInv, Standing
  <2> QED BY <1>1, <1>4, <2>1, StandingStays DEF VInv
<1>6. seq \in Nat /\ op.hash \in Hashes /\ live.ring \in Seq(Nat)
  BY <1>2 DEF Live, Ops
<1>7. version => /\ live'.ring # <<>> /\ Newest(live'.ring) = seq /\ live'.seq = live.seq
                 /\ live'.doc = live.doc /\ live'.lastHash = VersionHash(live.doc)
  <2> HAVE version
  <2>1. live' = WithVersion(live, seq, op.hash) /\ op.hash = VersionHash(live.doc)
    BY <1>1 DEF VInv, Entering
  <2>2. live'.ring = Noted(live.ring, seq) /\ live'.ring # <<>> /\ live'.lastHash = op.hash
        /\ Same(live, live')
    BY <1>2, <1>6, <2>1, WithVersionOK
  <2> QED BY <1>6, <2>1, <2>2, NewestNoted DEF Same
<1>8. ~version => live' = live
  BY <1>1
<1>9. op'.is = op.is /\ op'.at \in {"send", "commit"} /\ op'.version = version
  <2>1. version \in BOOLEAN /\ stop \in {"send", "commit"}
    OBVIOUS
  <2> HIDE DEF version, stop, out
  <2> QED BY <1>1, <1>2, <2>1 DEF Ops
<1>10. op.is = "checkpoint" => version
  BY <1>1, HashOK, RingTypes DEF VInv, Checkpointed
<1> HIDE DEF version, parked, out, stop
<1>11. Entering'
  BY <1>1, <1>3, <1>7, <1>8, <1>9 DEF Entering, InSnapshot
<1>12. Checkpointed' /\ Replacing'
  BY <1>1, <1>9, <1>10 DEF Checkpointed, Replacing, InSnapshot
<1> QED BY <1>5, <1>11, <1>12 DEF VInv

(* Its job is on the way. *)
LEMMA SendVersions ==
  ASSUME DInv, VInv, Send
  PROVE  VInv'
<1> DEFINE stop == IF InSnapshot THEN "commit" ELSE "prune"
<1>1. /\ op.at = "send" /\ op' = [op EXCEPT !.at = stop]
      /\ UNCHANGED <<live, meta, log, alarm, blob, stranded, nodeVars, spent>>
  BY DEF Send, Calm
<1>2. op \in Ops
  BY DEF DInv, Typed, ActorTypes
<1>3. op'.at = stop /\ op'.is = op.is /\ op'.version = op.version
  <2> HIDE DEF stop
  <2> QED BY <1>1, <1>2 DEF Ops
<1>4. Standing'
  BY <1>1, StandingStays DEF VInv, Untouched
<1>5. Entering' /\ Checkpointed' /\ Replacing'
  BY <1>1, <1>3 DEF VInv, Entering, Checkpointed, Replacing, InSnapshot
<1> QED BY <1>4, <1>5 DEF VInv

(* Committed, its version stands for its text. *)
LEMMA CommitSnapshotVersions ==
  ASSUME DInv, VInv, CommitSnapshot
  PROVE  VInv'
<1>1. /\ op.at = "commit" /\ meta' = Meta(live') /\ op' = [op EXCEPT !.at = "prune"]
      /\ UNCHANGED <<blob, stranded, spent>>
  BY DEF CommitSnapshot, Calm
<1>2. InSnapshot /\ op.is # "idle"
  BY <1>1, IdleOK DEF DInv, Phase, InSnapshot
<1>3. live \in Live /\ Held(live) /\ OnHead(live) /\ live.seq = meta.seq /\ op \in Ops
  BY <1>2, InMemory DEF InSnapshot, Replaced
<1>4. ~live.hydrationIncomplete /\ Readable(live.seq + 1) /\ blob[live.seq + 1] = live.doc
  BY <1>1, <1>2 DEF DInv, InFlight
<1>5. /\ live'.doc = live.doc /\ live'.seq = live.seq + 1 /\ live'.ring = live.ring
      /\ live'.lastHash = live.lastHash
  BY <1>3 DEF CommitSnapshot, Live
<1>6. /\ meta'.seq = meta.seq + 1 /\ meta'.ring = live.ring /\ meta'.lastHash = live.lastHash
      /\ meta.seq \in Nat
  BY <1>1, <1>3, <1>5 DEF Meta, Live
<1>7. op'.at = "prune" /\ op'.is = op.is
  BY <1>1, <1>3 DEF Ops
<1>8. CASE op.version
  <2>1. live.ring # <<>> /\ Newest(live.ring) = live.seq + 1
        /\ live.lastHash = VersionHash(live.doc)
    BY <1>1, <1>2, <1>8 DEF VInv, Entering
  <2>2. Witness(live.ring, live.lastHash, meta.seq + 1, blob, spent.deleted)
    BY <1>3, <1>4, <1>6, <2>1 DEF Witness, Readable
  <2>3. Standing'
    BY <1>1, <1>3, <1>6, <2>1, <2>2 DEF Standing
  <2>4. Kept(live', blob, spent.deleted)
    BY <1>4, <1>5, <2>1 DEF Kept, Readable
  <2> QED BY <1>1, <1>2, <1>7, <2>3, <2>4 DEF VInv, Entering, Checkpointed, Replacing, InSnapshot
<1>9. CASE ~op.version
  <2>1. live.ring = meta.ring /\ live.lastHash = meta.lastHash /\ op.is # "checkpoint"
    BY <1>1, <1>2, <1>9 DEF VInv, Entering, Checkpointed
  <2>2. Newest(meta.ring) \in Nat /\ Newest(meta.ring) <= meta.seq
    BY RingTypes, NewestOK DEF VInv, Standing
  <2>3. Witness(meta.ring, meta.lastHash, meta.seq, blob, spent.deleted)
    BY DEF VInv, Standing
  <2>4. ~(Newest(meta.ring) > 0 /\ Newest(meta.ring) = meta.seq /\ ~Readable(meta.seq)
          /\ Newest(meta.ring) \notin spent.deleted)
    BY <1>3, <1>4 DEF OnHead
  <2>5. Witness(meta.ring, meta.lastHash, meta.seq + 1, blob, spent.deleted)
    BY <2>3, <2>4 DEF Witness, Readable
  <2>6. Standing'
    BY <1>1, <1>6, <2>1, <2>2, <2>5 DEF Standing
  <2> QED BY <1>1, <1>2, <1>7, <2>1, <2>6 DEF VInv, Entering, Checkpointed, Replacing, InSnapshot
<1> QED BY <1>8, <1>9

(* Pruning spares the newest version, and a checkpoint gives way to its install. *)
LEMMA PruneVersions ==
  ASSUME DInv, VInv, Prune
  PROVE  VInv'
<1> DEFINE gone == Pruned(live.seq, live.ring, op.evicted)
<1>1. /\ op.at = "prune"
      /\ blob' = [seq \in DOMAIN blob \ gone |-> blob[seq]]
      /\ live' = IF op.is = "install" THEN Unloaded ELSE live
      /\ op' = GiveWay(op)
      /\ UNCHANGED <<meta, stranded, spent>>
  BY DEF Prune, Calm
<1>2. op.is \in {"flush", "checkpoint", "promote", "install"}
  BY <1>1, IdleOK DEF DInv, Phase
<1>3. op \in Ops /\ live \in Live
  BY DEF DInv, Typed, ActorTypes
<1>4. live.ring = meta.ring
  BY <1>1, <1>2, InMemory DEF DInv, Memory, Held, Meta
<1>5. Untouched(Newest(meta.ring), blob, blob')
  <2>1. CASE meta.ring = <<>>
    <3>1. Newest(meta.ring) = 0 /\ 0 \notin DOMAIN blob
      BY <2>1 DEF Newest, DInv, Typed, BlobTypes
    <3> HIDE DEF gone
    <3> QED BY <1>1, <3>1 DEF Untouched
  <2>2. CASE meta.ring # <<>>
    <3>1. Newest(meta.ring) \notin gone
      BY <1>4, <2>2, RingTypes, NewestRetained
    <3> HIDE DEF gone
    <3> QED BY <1>1, <3>1 DEF Untouched
  <2> QED BY <2>1, <2>2
<1> HIDE DEF gone
<1>6. Standing'
  BY <1>1, <1>5, StandingStays DEF VInv
<1>7. CASE op.is = "checkpoint"
  <2>1. op.then = "install" /\ live' = live
    BY <1>1, <1>7, IdleOK DEF DInv, Phase
  <2>2. op' = Installing(op.doc) /\ op.doc \in Docs
    BY <1>1, <1>3, <2>1, GiveWayOK DEF Ops
  <2>3. op'.is = "install" /\ op'.at = "put" /\ op'.then = ""
    BY <2>2, InstallingOK
  <2>4. Kept(live, blob, spent.deleted)
    BY <1>1, <1>7 DEF VInv, Checkpointed
  <2>5. Kept(live', blob', spent'.deleted)
    BY <1>1, <1>4, <1>5, <2>1, <2>4, KeptStays
  <2> QED BY <1>6, <2>3, <2>5 DEF VInv, Entering, Checkpointed, Replacing, InSnapshot
<1>8. CASE op.is # "checkpoint"
  <2>1. op.then # "install"
    BY <1>2, <1>8, IdleOK DEF DInv, Phase
  <2>2. op' = Idle \/ op'.is = "alarm"
    BY <1>1, <1>3, <2>1, GiveWayOK
  <2> QED BY <1>6, <2>2, AtRest, IdleOK DEF VInv
<1> QED BY <1>7, <1>8

(* Rolled back, a ring stands for what it stood for before. *)
LEMMA FailsVersions ==
  ASSUME DInv, VInv, PutFails \/ SendFails
  PROVE  VInv'
<1>1. Fails /\ op.at \in {"put", "send"} /\ UNCHANGED <<blob, stranded>>
  BY DEF PutFails, SendFails
<1>2. op.is \in {"flush", "promote", "checkpoint", "install"}
  BY <1>1, IdleOK DEF DInv, Phase
<1>3. live \in Live /\ live.seq = meta.seq /\ op \in Ops
  BY <1>2, InMemory
<1>4. spent'.deleted = spent.deleted
  BY DEF PutFails, SendFails, Incident, DInv, Typed, SpentTypes
<1>5. Standing'
  <2>1. CASE op.is = "promote"
    <3>1. op.at = "send" /\ op.prev \in Seq(Nat) \X Hashes
      BY <1>1, <1>3, <2>1, IdleOK DEF DInv, Phase, Ops, Prevs
    <3>2. live' = RolledBack(live, op.prev) /\ meta' = Meta(live')
      BY <1>1, <2>1 DEF Fails
    <3>3. live'.seq = live.seq /\ live'.ring = op.prev[1] /\ live'.lastHash = op.prev[2]
      BY <1>3, <3>1, <3>2, RolledBackOK DEF Same
    <3>4. meta'.seq = meta.seq /\ meta'.ring = op.prev[1] /\ meta'.lastHash = op.prev[2]
      BY <1>3, <3>2, <3>3 DEF Meta
    <3>5. Witness(op.prev[1], op.prev[2], meta.seq, blob, spent.deleted)
          /\ Newest(op.prev[1]) <= meta.seq
      BY <2>1, <3>1 DEF VInv, Entering
    <3> QED BY <1>1, <1>4, <3>4, <3>5 DEF Standing
  <2>2. CASE op.is # "promote"
    <3>1. meta' = meta
      BY <1>1, <1>2, <2>2 DEF Fails
    <3> QED BY <1>1, <1>4, <3>1, StandingStays DEF VInv, Untouched
  <2> QED BY <2>1, <2>2
<1>6. op'.is \in {"idle", "alarm"} \/ (op'.is = "install" /\ op'.at = "prune")
  <2>1. CASE op.is = "flush"
    <3>1. op' = GiveWay(op) /\ op.then \in {"", "alarm"}
      BY <1>1, <2>1, IdleOK DEF Fails, DInv, Phase
    <3> QED BY <1>3, <3>1, GiveWayOK, IdleOK
  <2>2. CASE op.is = "install" /\ op.at = "send"
    <3>1. op' = [op EXCEPT !.at = "prune"]
      BY <1>1, <2>2 DEF Fails
    <3> QED BY <1>3, <2>2, <3>1 DEF Ops
  <2>3. CASE ~(op.is = "flush" \/ (op.is = "install" /\ op.at = "send"))
    <3>1. op' = Idle
      BY <1>1, <1>2, <2>3 DEF Fails
    <3> QED BY <3>1, IdleOK
  <2> QED BY <2>1, <2>2, <2>3
<1>7. Entering' /\ Checkpointed' /\ Replacing'
  BY <1>6 DEF Entering, Checkpointed, Replacing, InSnapshot
<1> QED BY <1>5, <1>7 DEF VInv

(* A clean or unchanged document is the newest version's, unless lost. *)
LEMMA UnchangedIsKept ==
  ASSUME DInv, VInv, NEW m, Current(m), ~m.hydrationIncomplete,
         IF m.dirty THEN ~ChangedHead(m) ELSE ~Owed(m)
  PROVE  Kept(m, blob, spent.deleted)
<1>1. m \in Live /\ Held(m) /\ OnHead(m) /\ m.seq = meta.seq /\ m.seq \in Nat
  BY DEF Current, Held, Live
<1>2. m.ring = meta.ring /\ m.lastHash = meta.lastHash /\ m.ring \in Seq(Nat)
  BY <1>1 DEF Current, Meta, Live
<1>3. /\ Newest(m.ring) \in Nat /\ Newest(m.ring) <= m.seq
      /\ Witness(m.ring, m.lastHash, m.seq, blob, spent.deleted)
  BY <1>1, <1>2, NewestOK DEF VInv, Standing
<1>4. CASE ~ChangedHead(m)
  <2>1. ParkedOnly(m.doc) => Text(m.doc) = {}
    BY DEF ParkedOnly
  <2>2. CASE VersionHash(m.doc) = m.lastHash
    <3>1. m.ring # <<>>
      BY <1>1, <1>3, <2>2, HashOK DEF Witness, Live
    <3>2. CASE Newest(m.ring) = m.seq /\ m.seq \notin DOMAIN blob
      <4>1. m.seq > 0 /\ (m.seq \in spent.deleted)
        BY <1>1, <1>3, <3>1, <3>2 DEF Witness, OnHead, Readable
      <4> QED BY <3>2, <4>1 DEF Kept
    <3>3. CASE Newest(m.ring) \in DOMAIN blob /\ VersionHash(blob[Newest(m.ring)]) = m.lastHash
      BY <2>2, <3>3 DEF Kept, VersionHash
    <3> QED BY <1>3, <3>1, <3>2, <3>3 DEF Witness, Kept
  <2> QED BY <1>4, <2>1, <2>2 DEF ChangedHead, Kept
<1>5. CASE ChangedHead(m)
  <2>1. ~m.dirty /\ m.seq = Newest(m.ring)
    BY <1>1, <1>3, <1>5 DEF Owed, PastNewest
  <2>2. CASE m.seq = 0
    BY <1>1, <2>1, <2>2 DEF OnHead, Kept, Text
  <2>3. CASE m.seq > 0
    BY <1>1, <2>1, <2>3 DEF OnHead, Kept, Readable
  <2> QED BY <1>1, <2>2, <2>3
<1> QED BY <1>4, <1>5

(* A restore checkpoints what is in no version yet. *)
LEMMA RestoreVersions ==
  ASSUME DInv, VInv, NEW target \in DOMAIN blob, Restore(target)
  PROVE  VInv'
<1> DEFINE m == Opened
           changed == IF m.dirty THEN ~m.hydrationIncomplete /\ ChangedHead(m) ELSE Owed(m)
<1>1. /\ Current(m) /\ op = Idle
      /\ live' = Verdict(m)
      /\ op' = IF changed THEN Snapshotting(m, "checkpoint", TRUE, "install", blob[target])
               ELSE Installing(blob[target])
      /\ UNCHANGED <<meta, log, blob, stranded, jobs, nodeVars>>
      /\ spent'.deleted = spent.deleted
  BY OpenedOK DEF Restore, DInv, Typed, SpentTypes
<1> HIDE DEF m
<1>2. m \in Live /\ live' \in Live /\ Same(m, live') /\ live'.ring = m.ring
      /\ live'.lastHash = m.lastHash
  BY <1>1, VerdictOK DEF Current
<1>3. blob[target] \in Docs
  BY DEF DInv, Typed, BlobTypes
<1>4. Standing'
  BY <1>1, StandingStays DEF VInv, Untouched
<1>5. CASE changed
  <2>1. "checkpoint" \in {"flush", "checkpoint"} /\ TRUE \in BOOLEAN /\ "install" \in OpNexts
    BY DEF OpNexts
  <2>2. Starting(op', "checkpoint", m, "install")
    BY <1>1, <1>2, <1>3, <1>5, <2>1, SnapshottingOK
  <2>3. op'.hash = VersionHash(m.doc)
    BY <1>1, <1>5, IdleOK DEF Snapshotting, Ops
  <2>4. op'.is = "checkpoint" /\ op'.at = "put" /\ live'.doc = m.doc /\ live'.lastHash = m.lastHash
    BY <1>2, <2>2 DEF Starting, Same
  <2>5. ~ParkedOnly(m.doc) /\ VersionHash(m.doc) # m.lastHash
    BY <1>5 DEF Owed, ChangedHead
  <2> HIDE DEF changed
  <2> QED BY <1>4, <2>3, <2>4, <2>5 DEF VInv, Entering, Checkpointed, Replacing, InSnapshot
<1>6. CASE ~changed
  <2>1. op'.is = "install" /\ op'.at = "put" /\ op'.then = ""
    BY <1>1, <1>3, <1>6, InstallingOK
  <2>2. ~m.hydrationIncomplete => Kept(m, blob, spent.deleted)
    BY <1>1, <1>6, UnchangedIsKept
  <2>3. ~live'.hydrationIncomplete => Kept(live', blob', spent'.deleted)
    BY <1>1, <1>2, <2>2 DEF Kept, Same
  <2> HIDE DEF changed
  <2> QED BY <1>4, <2>1, <2>3 DEF VInv, Entering, Checkpointed, Replacing, InSnapshot
<1> QED BY <1>5, <1>6

(* A rebuild has put aside what was typed. *)
LEMMA RecoverVersions ==
  ASSUME DInv, VInv, Recover
  PROVE  VInv'
<1>1. /\ Opened.hydrationIncomplete /\ live' = Opened /\ op = Idle
      /\ stranded' = stranded \cup (IF Text(Opened.doc) # {} THEN Opened.doc ELSE {})
      /\ op' = [Installing(Source) EXCEPT !.then = "recover"]
      /\ UNCHANGED <<meta, blob>> /\ spent'.deleted = spent.deleted
  BY DEF Recover, Source, DInv, Typed, SpentTypes
<1>2. Source \in Docs
  <2>1. SurvivorsBelow(Opened.seq) # {} \/ indexed.text \notin {NoHash, <<{}>>}
    BY DEF Recover
  <2> QED BY <1>1, <2>1, SourceOK
<1>3. op'.is = "install" /\ op'.at = "put" /\ op'.then = "recover"
  <2> DEFINE o == Installing(Source)
  <2>1. o \in Ops /\ o.is = "install" /\ o.at = "put"
    BY <1>2, InstallingOK
  <2> HIDE DEF o
  <2> QED BY <1>1, <2>1 DEF o, Ops, OpNexts
<1>4. Text(live'.doc) \subseteq stranded'
  BY <1>1 DEF Text
<1>5. Standing'
  BY <1>1, StandingStays DEF VInv, Untouched
<1> QED BY <1>1, <1>3, <1>4, <1>5 DEF VInv, Entering, Checkpointed, Replacing, InSnapshot

(* The new head is put beside the version that keeps the old. *)
LEMMA PutHeadVersions ==
  ASSUME DInv, VInv, PutHead
  PROVE  VInv'
<1>1. /\ op.is = "install" /\ op.at = "put"
      /\ blob' = WithSnapshot(live.seq + 1, op.doc)
      /\ op' = [op EXCEPT !.at = "meta"]
      /\ UNCHANGED <<live, meta, stranded, spent>>
  BY DEF PutHead, Calm
<1>2. live \in Live /\ live.seq = meta.seq /\ op \in Ops /\ live.ring = meta.ring /\ op.doc \in Docs
  BY <1>1, InMemory DEF DInv, Memory, Held, Meta, InSnapshot, Ops
<1>3. Newest(meta.ring) \in Nat /\ Newest(meta.ring) <= meta.seq
  BY RingTypes, NewestOK DEF VInv, Standing
<1>4. Untouched(Newest(meta.ring), blob, blob')
  BY <1>1, <1>2, <1>3, PutSpares
<1>5. Standing'
  BY <1>1, <1>4, StandingStays DEF VInv
<1>6. op'.is = "install" /\ op'.at = "meta" /\ op'.then = op.then /\ op'.doc = op.doc
  BY <1>1, <1>2 DEF Ops
<1>7. live.seq + 1 \in DOMAIN blob' /\ blob'[live.seq + 1] = op.doc
  BY <1>1, <1>2, WithSnapshotOK
<1>8. op.then # "recover" /\ ~live.hydrationIncomplete => Kept(live, blob', spent.deleted)
  BY <1>1, <1>2, <1>4, KeptStays DEF VInv, Replacing
<1>9. op.then = "recover" => live.hydrationIncomplete /\ Text(live.doc) \subseteq stranded
  BY <1>1 DEF VInv, Replacing
<1> QED BY <1>1, <1>5, <1>6, <1>7, <1>8, <1>9
    DEF VInv, Entering, Checkpointed, Replacing, InSnapshot, Readable

(* The new head is the newest version, the bytes its own. *)
LEMMA CommitHeadVersions ==
  ASSUME DInv, VInv, CommitHead
  PROVE  VInv' /\ meta'.ring = Noted(live.ring, live.seq + 1)
<1> DEFINE w == WithVersion(live, live.seq + 1, VersionHash(op.doc))
<1>1. /\ op.at = "meta"
      /\ live' = [w EXCEPT !.seq = w.seq + 1, !.epoch = w.epoch + 1, !.hydrationIncomplete = FALSE]
      /\ meta' = Meta(live') /\ op' = [op EXCEPT !.at = "drop", !.evicted = EvictedBy(live.ring)]
      /\ UNCHANGED <<blob, spent>>
  BY DEF CommitHead, Calm
<1>2. op.is = "install"
  BY <1>1, IdleOK DEF DInv, Phase
<1>3. live \in Live /\ live.seq = meta.seq /\ op \in Ops /\ live.seq + 1 \in Nat
      /\ VersionHash(op.doc) \in Hashes
  BY <1>2, InMemory, HashOK DEF Live, Ops
<1>4. /\ w \in Live /\ Same(live, w) /\ w.ring # <<>> /\ w.ring = Noted(live.ring, live.seq + 1)
      /\ w.lastHash = VersionHash(op.doc)
  BY <1>3, WithVersionOK
<1> HIDE DEF w
<1>5. live'.seq = live.seq + 1 /\ live'.ring = w.ring /\ live'.lastHash = w.lastHash
  BY <1>1, <1>4 DEF Live, Same
<1>6. meta'.seq = live.seq + 1 /\ meta'.ring = w.ring /\ meta'.lastHash = w.lastHash
  BY <1>1, <1>5 DEF Meta
<1>7. Newest(meta'.ring) = live.seq + 1
  BY <1>3, <1>4, <1>6, NewestNoted DEF Live
<1>8. live.seq + 1 \in DOMAIN blob /\ blob[live.seq + 1] = op.doc
  BY <1>1, <1>2 DEF VInv, Replacing, Readable
<1>9. Standing'
  <2>1. Witness(meta'.ring, meta'.lastHash, meta'.seq, blob', spent'.deleted)
    BY <1>1, <1>3, <1>4, <1>6, <1>7, <1>8 DEF Witness, Live
  <2> QED BY <1>3, <1>6, <1>7, <2>1 DEF Standing
<1>10. op'.is = "install" /\ op'.at = "drop"
  BY <1>1, <1>2, <1>3 DEF Ops
<1> QED BY <1>4, <1>6, <1>9, <1>10 DEF VInv, Entering, Checkpointed, Replacing, InSnapshot

(* Restarts, jobs and a lost head leave the ring. *)
LEMMA OthersVersions ==
  ASSUME DInv, VInv,
         \/ DropLog \/ Evict \/ Crash \/ LoseSnapshot
         \/ \E j \in jobs : RunJob(j, TRUE) \/ RunJob(j, FALSE) \/ JobFails(j)
         \/ UNCHANGED vars
  PROVE  VInv'
<1>1. CASE DropLog
  <2>1. op.is = "install" /\ op' = [op EXCEPT !.at = "send"] /\ op \in Ops
        /\ UNCHANGED <<meta, blob, spent>>
    BY <1>1, IdleOK DEF DropLog, DInv, Phase, Typed, ActorTypes, Calm
  <2>2. op'.is = "install" /\ op'.at = "send"
    BY <2>1 DEF Ops
  <2>3. Standing'
    BY <2>1, StandingStays DEF VInv, Untouched
  <2> QED BY <2>2, <2>3 DEF VInv, Entering, Checkpointed, Replacing, InSnapshot
<1>2. CASE Evict \/ Crash
  <2>1. op' = Idle /\ meta' = meta /\ blob' = blob /\ spent'.deleted = spent.deleted
    BY <1>2 DEF Evict, Crash, Calm, Incident, DInv, Typed, SpentTypes
  <2>2. Standing'
    BY <2>1, StandingStays DEF VInv, Untouched
  <2> QED BY <2>1, <2>2, AtRest, IdleOK DEF VInv
<1>3. CASE LoseSnapshot
  <2>1. /\ op = Idle /\ op' = Idle /\ meta' = meta /\ spent'.deleted = spent.deleted
        /\ blob' = [seq \in DOMAIN blob \ {meta.seq} |-> blob[seq]]
    BY <1>3 DEF LoseSnapshot, actorVars, Incident, DInv, Typed, SpentTypes
  <2>2. Witness(meta.ring, meta.lastHash, meta.seq, blob', spent.deleted)
    <3>1. Witness(meta.ring, meta.lastHash, meta.seq, blob, spent.deleted)
      BY DEF VInv, Standing
    <3>2. meta.seq \notin DOMAIN blob'
      BY <2>1
    <3>3. CASE Newest(meta.ring) = meta.seq
      BY <3>1, <3>2, <3>3 DEF Witness
    <3>4. CASE Newest(meta.ring) # meta.seq
      <4>1. Untouched(Newest(meta.ring), blob, blob')
        BY <2>1, <3>4 DEF Untouched
      <4> QED BY <3>1, <4>1, WitnessStays
    <3> QED BY <3>3, <3>4
  <2>3. Standing'
    BY <2>1, <2>2 DEF VInv, Standing
  <2> QED BY <2>1, <2>3, AtRest, IdleOK DEF VInv
<1>4. CASE (\E j \in jobs : RunJob(j, TRUE) \/ RunJob(j, FALSE) \/ JobFails(j)) \/ UNCHANGED vars
  <2>1. UNCHANGED <<live, op, meta, blob, stranded, spent>>
    BY <1>4 DEF RunJob, JobFails, vars, actorVars, Calm
  <2> QED BY <2>1 DEF VInv, Standing, Entering, Checkpointed, Replacing, InSnapshot, Readable
<1> QED BY <1>1, <1>2, <1>3, <1>4

(* A version a person deletes is one that person gave up. *)
LEMMA DeleteVersions ==
  ASSUME DInv, VInv, NEW seq \in DOMAIN blob \cup versions, DeleteVersion(seq)
  PROVE  VInv'
<1>1. /\ seq < indexed.seq
      /\ blob' = [s \in DOMAIN blob \ {seq} |-> blob[s]]
      /\ spent' = [spent EXCEPT !.deleted = spent.deleted \cup {seq}]
      /\ UNCHANGED <<live, op, meta, stranded>>
  BY DEF DeleteVersion, actorVars
<1>2. spent'.deleted = spent.deleted \cup {seq}
  BY <1>1 DEF DInv, Typed, SpentTypes
<1>3. ASSUME NEW s PROVE s \in spent'.deleted \/ Untouched(s, blob, blob')
  BY <1>1, <1>2 DEF Untouched
<1>4. Standing'
  BY <1>1, <1>2, <1>3, StandingStays DEF VInv
<1>5. op.is = "promote" /\ op.at = "send" =>
          Witness(op.prev[1], op.prev[2], meta.seq, blob', spent'.deleted)
  BY <1>2, <1>3, WitnessStays DEF VInv, Entering
<1>6. ASSUME Kept(live, blob, spent.deleted) PROVE Kept(live, blob', spent'.deleted)
  BY <1>2, <1>3, <1>6, KeptStays
<1>7. seq \in Nat /\ seq <= meta.seq
  BY <1>1 DEF DInv, Typed, BlobTypes, NodeTypes, AtNode, ActorTypes, Metas
<1>8. Entering'
  BY <1>1, <1>5 DEF VInv, Entering, InSnapshot
<1>9. Checkpointed'
  BY <1>1, <1>6 DEF VInv, Checkpointed
<1>10. Replacing'
  <2>1. op.is = "install" => live.seq = meta.seq /\ meta.seq \in Nat
    BY InMemory, RingTypes
  <2>2. op.is = "install" => live.seq + 1 # seq
    BY <1>7, <2>1
  <2>3. op.is = "install" /\ Readable(live.seq + 1) /\ blob[live.seq + 1] = op.doc =>
            live.seq + 1 \in DOMAIN blob' /\ blob'[live.seq + 1] = op.doc
    BY <1>1, <2>2 DEF Readable
  <2> QED BY <1>1, <1>6, <2>3 DEF VInv, Replacing, Readable
<1> QED BY <1>4, <1>8, <1>9, <1>10 DEF VInv

(* A document starts with no version, and no hash. *)
LEMMA VersionsInit ==
  Init => VInv
<1> SUFFICES ASSUME Init PROVE VInv
  OBVIOUS
<1>1. meta.ring = <<>> /\ meta.lastHash = NoHash /\ meta.seq = 0 /\ op.is = "idle"
  BY IdleOK DEF Init, Meta, Unloaded
<1>2. Standing
  <2>1. Newest(meta.ring) = 0
    BY <1>1 DEF Newest
  <2>2. Witness(meta.ring, meta.lastHash, meta.seq, blob, spent.deleted)
    BY <1>1 DEF Witness
  <2> QED BY <1>1, <2>1, <2>2 DEF Standing
<1>3. Entering /\ Checkpointed /\ Replacing
  BY <1>1 DEF Entering, Checkpointed, Replacing, InSnapshot
<1> QED BY <1>2, <1>3 DEF VInv

(* Every step keeps the versions standing. *)
LEMMA VersionsStep ==
  DInv /\ VInv /\ [Next]_vars => VInv'
<1> SUFFICES ASSUME DInv, VInv, [Next]_vars PROVE VInv'
  OBVIOUS
<1>1. CASE \E e \in Edits : Type(e) \/ Write(e)
  BY <1>1, EntriesVersions
<1>2. CASE Leave \/ FireAlarm \/ AlarmPromotes
  BY <1>2, EntriesVersions, PromotesVersions
<1>3. CASE \E target \in DOMAIN blob : Restore(target)
  BY <1>3, RestoreVersions
<1>4. CASE Recover \/ PutHead \/ CommitHead
  BY <1>4, RecoverVersions, PutHeadVersions, CommitHeadVersions
<1>5. CASE PutSnapshot \/ Send \/ CommitSnapshot \/ Prune
  BY <1>5, PutSnapshotVersions, SendVersions, CommitSnapshotVersions, PruneVersions
<1>6. CASE PutFails \/ SendFails
  BY <1>6, FailsVersions
<1>7. CASE \/ DropLog \/ Evict \/ Crash \/ LoseSnapshot
           \/ \E j \in jobs : RunJob(j, TRUE) \/ RunJob(j, FALSE) \/ JobFails(j)
           \/ UNCHANGED vars
  BY <1>7, OthersVersions
<1>8. CASE \E seq \in DOMAIN blob \cup versions : DeleteVersion(seq)
  BY <1>8, DeleteVersions
<1> QED BY <1>1, <1>2, <1>3, <1>4, <1>5, <1>6, <1>7, <1>8 DEF Next

(* The newest version stands for the text of its hash, and a version being  *)
(* entered, rolled back or replaced by an install never breaks that.       *)
THEOREM VersionsStand == Spec => []VInv
<1>1. DInv /\ VInv /\ [Next]_vars => VInv'
  BY VersionsStep
<1> QED BY <1>1, VersionsInit, DocInvariant, PTL DEF Spec

-----------------------------------------------------------------------------
(* Replaced text is kept *)

(* A promotion starts no generation. *)
LEMMA PromoteEpoch ==
  ASSUME NEW m, Current(m), NEW reason, NEW next, NEW before, Promote(m, reason, next, before)
  PROVE  meta'.epoch = meta.epoch
<1>1. m \in Live /\ m.seq \in Nat /\ m.doc \in Docs /\ m.epoch = meta.epoch
  BY DEF Current, Held, Live
<1>2. \/ live' = WithVersion(m, m.seq, VersionHash(m.doc)) /\ meta' = Meta(live')
      \/ meta' = meta
  BY DEF Promote
<1>3. CASE live' = WithVersion(m, m.seq, VersionHash(m.doc)) /\ meta' = Meta(live')
  <2>1. live'.epoch = m.epoch
    BY <1>1, <1>3, HashOK, WithVersionOK DEF Same
  <2> QED BY <1>1, <1>3, <2>1 DEF Meta
<1> QED BY <1>2, <1>3

(* Only a head install starts a generation. *)
LEMMA EpochKept ==
  ASSUME DInv, [Next]_vars, ~CommitHead
  PROVE  meta'.epoch = meta.epoch
<1>1. ASSUME NEW e \in Edits, Type(e) \/ Write(e) PROVE meta' = meta
  <2>1. CASE Type(e)
    <3>1. Current(Opened)
      BY <2>1, OpenedOK DEF Type
    <3>2. Meta(Journaled(Opened, e)) = meta
      BY <3>1, JournaledOK
    <3> QED BY <2>1, <3>2 DEF Type, Persist
  <2>2. CASE Write(e)
    BY <2>2, WriteOpens
  <2> QED BY <1>1, <2>1, <2>2
<1>2. CASE Leave
  <2>1. CASE live.dirty
    BY <1>2, <2>1 DEF Leave
  <2>2. CASE ~live.dirty
    <3>1. Current(Opened) /\ Promote(Opened, "eviction", "", OpenedAlarm(alarm))
      BY <1>2, <2>2, OpenedOK DEF Leave
    <3> QED BY <3>1, PromoteEpoch
  <2> QED BY <2>1, <2>2
<1>3. CASE AlarmPromotes
  <2>1. op.is = "alarm" /\ Promote(live, "timer", "arm", alarm)
    BY <1>3 DEF AlarmPromotes
  <2>2. Current(live)
    BY <2>1, InMemory, IdleOK DEF DInv, Memory, Current, Held, Replaced, InSnapshot
  <2> QED BY <2>1, <2>2, PromoteEpoch
<1>4. CASE CommitSnapshot
  <2>1. op.is # "idle"
    BY <1>4, IdleOK DEF CommitSnapshot, DInv, Phase
  <2>2. live \in Live /\ live.epoch = meta.epoch
    BY <2>1, InMemory DEF Held
  <2>3. live'.epoch = live.epoch /\ meta' = Meta(live')
    BY <1>4, <2>2 DEF CommitSnapshot, Live
  <2> QED BY <2>2, <2>3 DEF Meta
<1>5. CASE PutFails \/ SendFails
  <2>1. Fails /\ op.at \in {"put", "send"}
    BY <1>5 DEF PutFails, SendFails
  <2>2. op.is \in {"flush", "promote", "checkpoint", "install"}
    BY <2>1, IdleOK DEF DInv, Phase
  <2>3. CASE op.is = "promote"
    <3>1. live \in Live /\ live.epoch = meta.epoch /\ op.prev \in Seq(Nat) \X Hashes
      BY <2>3, InMemory, IdleOK DEF DInv, Phase, Held, Ops, Prevs
    <3>2. live' = RolledBack(live, op.prev) /\ meta' = Meta(live')
      BY <2>1, <2>3 DEF Fails
    <3>3. live'.epoch = live.epoch
      BY <3>1, <3>2, RolledBackOK DEF Same
    <3> QED BY <3>1, <3>2, <3>3 DEF Meta
  <2>4. CASE op.is # "promote"
    BY <2>1, <2>2, <2>4 DEF Fails
  <2> QED BY <2>3, <2>4
<1>6. CASE \/ FireAlarm \/ PutSnapshot \/ Send \/ Prune \/ PutHead \/ DropLog \/ Evict \/ Crash
           \/ LoseSnapshot \/ Recover
           \/ \E target \in DOMAIN blob : Restore(target)
           \/ \E j \in jobs : RunJob(j, TRUE) \/ RunJob(j, FALSE) \/ JobFails(j)
           \/ \E seq \in DOMAIN blob \cup versions : DeleteVersion(seq)
           \/ UNCHANGED vars
  BY <1>6 DEF FireAlarm, PutSnapshot, Send, Prune, PutHead, DropLog, Evict, Crash, LoseSnapshot,
              Recover, Restore, RunJob, JobFails, DeleteVersion, actorVars, vars
<1> QED BY <1>1, <1>2, <1>3, <1>4, <1>5, <1>6 DEF Next

(* The version that holds the text replaced is in the ring the install      *)
(* stores: entering the new head never pushes out the newest.              *)
LEMMA ReplacedStands ==
  ASSUME DInv, VInv, CommitHead, Kept(live, blob, spent.deleted)
  PROVE  ReplacedIsVersion
<1>1. meta'.ring = Noted(live.ring, live.seq + 1) /\ blob' = blob
  BY CommitHeadVersions DEF CommitHead
<1>2. op.is = "install" /\ op.at = "meta"
  BY IdleOK DEF CommitHead, DInv, Phase
<1>3. live.ring = meta.ring /\ live.ring \in Seq(Nat) /\ live.seq + 1 \in Nat
  BY <1>2, InMemory DEF DInv, Memory, Held, InSnapshot, Meta, Live
<1>4. CASE Newest(live.ring) \in DOMAIN blob /\ Text(blob[Newest(live.ring)]) = Text(live.doc)
  <2>1. live.ring # <<>>
    BY <1>4 DEF Newest, DInv, Typed, BlobTypes
  <2>2. PICK i \in DOMAIN Noted(live.ring, live.seq + 1) :
                Noted(live.ring, live.seq + 1)[i] = Newest(live.ring)
    BY <1>3, <2>1, NewestNoted
  <2>3. i \in DOMAIN meta'.ring /\ meta'.ring[i] = Newest(live.ring)
    BY <1>1, <2>2
  <2> QED BY <1>1, <1>4, <2>3 DEF ReplacedIsVersion
<1> QED BY <1>3, <1>4 DEF Kept, ReplacedIsVersion

(* Replacing a head the instance could read leaves its text in a version of *)
(* the ring, rebuilding one it could not read leaves it written aside,      *)
(* whatever failed, crashed, was pruned or deleted on the way.             *)
THEOREM ReplacedTextIsKept == Spec => ReplacedIsKept
<1> DEFINE Replaces == meta'.epoch # meta.epoch /\ (live.hydrationIncomplete => op.then = "recover")
           Keeps == IF live.hydrationIncomplete THEN Text(live.doc) \subseteq stranded
                    ELSE ReplacedIsVersion
<1>1. DInv /\ VInv /\ [Next]_vars => (Replaces => Keeps)
  <2> SUFFICES ASSUME DInv, VInv, [Next]_vars, Replaces PROVE Keeps
    OBVIOUS
  <2>1. CommitHead
    BY EpochKept
  <2>2. op.is = "install" /\ op.at = "meta"
    BY <2>1, IdleOK DEF CommitHead, DInv, Phase
  <2>3. live.hydrationIncomplete => Text(live.doc) \subseteq stranded
    BY <2>2 DEF VInv, Replacing
  <2>4. ~live.hydrationIncomplete => Kept(live, blob, spent.deleted)
    BY <2>2 DEF VInv, Replacing
  <2> QED BY <2>1, <2>3, <2>4, ReplacedStands
<1>2. DInv /\ VInv /\ [Next]_vars => [Replaces => Keeps]_vars
  BY <1>1
<1> QED BY <1>2, DocInvariant, VersionsStand, PTL DEF Spec, ReplacedIsKept

-----------------------------------------------------------------------------
(* The node's list against the ring *)

InRing(v, ring) == \E i \in DOMAIN ring : ring[i] = v

(* A ring goes up by one or more from each version to the next. *)
Stepped(ring) == \A i, k \in DOMAIN ring : i <= k => ring[i] + (k - i) <= ring[k]

(* Older than a ring that is full. *)
Outgrown(v, ring) == ring # <<>> /\ v < Head(ring) /\ Len(ring) >= VERSION_KEEP

(* The first and the last version of a ring. *)
LEMMA RingEnds ==
  ASSUME NEW ring \in Seq(Nat), ring # <<>>
  PROVE  /\ Len(ring) \in Nat /\ Len(ring) >= 1 /\ DOMAIN ring = 1 .. Len(ring)
         /\ Head(ring) = ring[1] /\ Newest(ring) = ring[Len(ring)]
         /\ Head(ring) \in Nat /\ Newest(ring) \in Nat
<1>1. Len(ring) \in Nat /\ DOMAIN ring = 1 .. Len(ring) /\ Len(ring) # 0
  BY EmptySeq, LenProperties
<1>2. Head(ring) = ring[1]
  BY HeadTailProperties
<1>3. Newest(ring) = ring[Len(ring)]
  BY DEF Newest
<1>4. 1 \in DOMAIN ring /\ Len(ring) \in DOMAIN ring
  BY <1>1
<1>5. ring[1] \in Nat /\ ring[Len(ring)] \in Nat
  BY <1>4, ElementOfSeq, <1>1
<1> QED BY <1>1, <1>2, <1>3, <1>5

(* Every version of a ring is between its ends. *)
LEMMA WithinRing ==
  ASSUME NEW ring \in Seq(Nat), Stepped(ring), NEW v, InRing(v, ring)
  PROVE  /\ ring # <<>> /\ v \in Nat /\ Head(ring) <= v /\ v <= Newest(ring)
         /\ Head(ring) + (Len(ring) - 1) <= Newest(ring)
<1>1. PICK i \in DOMAIN ring : ring[i] = v
  BY DEF InRing
<1>2. ring # <<>>
  BY <1>1, EmptySeq, LenProperties
<1>3. /\ Len(ring) \in Nat /\ Len(ring) >= 1 /\ DOMAIN ring = 1 .. Len(ring)
      /\ Head(ring) = ring[1] /\ Newest(ring) = ring[Len(ring)]
  BY <1>2, RingEnds
<1>4. 1 \in DOMAIN ring /\ Len(ring) \in DOMAIN ring /\ i \in Nat /\ 1 <= i /\ i <= Len(ring)
  BY <1>1, <1>3
<1>5. ring[1] \in Nat /\ ring[Len(ring)] \in Nat /\ ring[i] \in Nat
  BY <1>1, <1>3, <1>4, ElementOfSeq
<1>6. /\ ring[1] + (i - 1) <= ring[i] /\ ring[i] + (Len(ring) - i) <= ring[Len(ring)]
      /\ ring[1] + (Len(ring) - 1) <= ring[Len(ring)]
  BY <1>1, <1>3, <1>4 DEF Stepped
<1> QED BY <1>1, <1>2, <1>3, <1>4, <1>5, <1>6

(* A version entered above a ring makes a ring: what leaves is outgrown. *)
LEMMA SteppedNoted ==
  ASSUME NEW ring \in Seq(Nat), NEW seq \in Nat, Stepped(ring),
         \A i \in DOMAIN ring : ring[i] < seq
  PROVE  LET n == Noted(ring, seq)
         IN  /\ n \in Seq(Nat) /\ n # <<>> /\ Stepped(n) /\ InRing(seq, n)
             /\ \A v : InRing(v, n) => v = seq \/ InRing(v, ring)
             /\ \A v \in Nat : InRing(v, ring) \/ Outgrown(v, ring) => InRing(v, n) \/ Outgrown(v, n)
             /\ ring # <<>> => Head(ring) <= Head(n)
<1> DEFINE n == Noted(ring, seq)
           len == Len(ring)
<1>1. len \in Nat /\ DOMAIN ring = 1 .. len /\ \A i \in 1 .. len : ring[i] \in Nat
  BY LenProperties, ElementOfSeq
<1>2. PICK longer : longer = Append(ring, seq)
  OBVIOUS
<1>3. /\ longer \in Seq(Nat) /\ Len(longer) = len + 1 /\ longer[len + 1] = seq
      /\ \A i \in 1 .. len : longer[i] = ring[i]
  BY <1>2, AppendProperties
<1>4. n = IF len + 1 > VERSION_KEEP THEN Tail(longer) ELSE longer
  BY <1>2, <1>3 DEF Noted
<1>5. n \in Seq(Nat) /\ n # <<>>
  BY NotedOK
<1>6. VERSION_KEEP \in Nat /\ VERSION_KEEP >= 2
  BY RetentionAssumption
<1>7. PICK d \in {0, 1} :
        /\ Len(n) = len + 1 - d /\ DOMAIN n = 1 .. (len + 1 - d)
        /\ \A i \in 1 .. (len + 1 - d) : n[i] = longer[i + d]
        /\ d = 1 <=> len + 1 > VERSION_KEEP
  <2>1. CASE len + 1 > VERSION_KEEP
    <3>1. n = Tail(longer)
      BY <1>4, <2>1
    <3>2. longer # <<>>
      BY <1>1, <1>3, EmptySeq
    <3>3. Len(n) = len /\ \A i \in 1 .. len : n[i] = longer[i + 1]
      BY <1>1, <1>3, <3>1, <3>2, HeadTailProperties
    <3>4. DOMAIN n = 1 .. len
      BY <1>5, <3>3, LenProperties
    <3> HIDE DEF n, len
    <3>5. len + 1 - 1 = len
      BY <1>1
    <3> QED BY <2>1, <3>3, <3>4, <3>5
  <2>2. CASE ~(len + 1 > VERSION_KEEP)
    <3>1. n = longer
      BY <1>4, <2>2
    <3>2. Len(n) = len + 1 /\ DOMAIN n = 1 .. len + 1
      BY <1>3, <1>5, <3>1, LenProperties
    <3> HIDE DEF n, len
    <3>3. \A i \in 1 .. len + 1 : n[i] = longer[i + 0]
      BY <1>1, <3>1
    <3>4. len + 1 - 0 = len + 1
      BY <1>1
    <3> QED BY <2>2, <3>2, <3>3, <3>4
  <2> QED BY <2>1, <2>2
<1> HIDE DEF n
<1>8. \A i \in 1 .. len + 1 - d :
        n[i] = IF i + d = len + 1 THEN seq ELSE ring[i + d]
  <2> TAKE i \in 1 .. len + 1 - d
  <2>1. CASE i + d = len + 1
    BY <1>3, <1>7, <2>1
  <2>2. CASE i + d # len + 1
    <3>1. i + d \in 1 .. len
      BY <1>1, <2>2
    <3> QED BY <1>3, <1>7, <2>2, <3>1
  <2> QED BY <2>1, <2>2
<1>9. len >= 1 => ring # <<>> /\ Head(ring) = ring[1] /\ 1 \in DOMAIN ring
  <2> HAVE len >= 1
  <2>1. ring # <<>>
    BY EmptySeq
  <2> QED BY <1>1, <2>1, RingEnds
<1>10. ring # <<>> => len >= 1
  BY RingEnds
<1>11. Head(n) = n[1] /\ 1 \in DOMAIN n
  BY <1>5, RingEnds
<1> HIDE DEF len
<1>12. d = 1 => len >= 2
  BY <1>1, <1>6, <1>7
<1>13. Stepped(n)
  <2> SUFFICES ASSUME NEW i \in DOMAIN n, NEW k \in DOMAIN n, i <= k
               PROVE  n[i] + (k - i) <= n[k]
    BY DEF Stepped
  <2>1. i \in 1 .. len + 1 - d /\ k \in 1 .. len + 1 - d
    BY <1>7
  <2>2. CASE k + d = len + 1
    <3>1. n[k] = seq
      BY <1>8, <2>1, <2>2
    <3>2. CASE i = k
      BY <1>1, <2>1, <3>1, <3>2
    <3>3. CASE i # k
      <4>1. i + d \in 1 .. len /\ len \in 1 .. len /\ i + d <= len /\ i + d # len + 1
        BY <1>1, <2>1, <2>2, <3>3
      <4>2. n[i] = ring[i + d]
        BY <1>8, <2>1, <4>1
      <4>3. ring[i + d] + (len - (i + d)) <= ring[len] /\ ring[len] < seq
        BY <1>1, <4>1 DEF Stepped
      <4>4. ring[i + d] \in Nat /\ ring[len] \in Nat
        BY <1>1, <4>1
      <4>5. ring[i + d] + (k - i) <= seq
        BY <1>1, <2>1, <2>2, <4>3, <4>4, SMTT(30)
      <4> QED BY <3>1, <4>2, <4>5
    <3> QED BY <3>2, <3>3
  <2>3. CASE k + d # len + 1
    <3>1. i + d \in 1 .. len /\ k + d \in 1 .. len /\ i + d <= k + d /\ i + d # len + 1
      BY <1>1, <2>1, <2>3, SMTT(30)
    <3>2. n[i] = ring[i + d] /\ n[k] = ring[k + d]
      BY <1>8, <2>1, <2>3, <3>1
    <3>3. ring[i + d] + ((k + d) - (i + d)) <= ring[k + d]
      BY <1>1, <3>1 DEF Stepped
    <3>4. (k + d) - (i + d) = k - i
      BY <2>1
    <3> QED BY <3>2, <3>3, <3>4
  <2> QED BY <2>2, <2>3
<1>14. InRing(seq, n)
  <2>1. len + 1 - d \in 1 .. len + 1 - d /\ (len + 1 - d) + d = len + 1
    BY <1>1, <1>12
  <2> QED BY <1>7, <1>8, <2>1 DEF InRing
<1>15. \A v : InRing(v, n) => v = seq \/ InRing(v, ring)
  <2> SUFFICES ASSUME NEW i \in DOMAIN n PROVE n[i] = seq \/ InRing(n[i], ring)
    BY DEF InRing
  <2>1. CASE i + d = len + 1
    BY <1>7, <1>8, <2>1
  <2>2. CASE i + d # len + 1
    <3>1. i + d \in DOMAIN ring /\ n[i] = ring[i + d]
      BY <1>1, <1>7, <1>8, <2>2, SMTT(30)
    <3> QED BY <3>1 DEF InRing
  <2> QED BY <2>1, <2>2
<1>16. n[1] = IF d = 0 /\ len >= 1 THEN ring[1] ELSE IF d = 0 THEN seq ELSE ring[2]
  <2>1. 1 \in 1 .. len + 1 - d
    BY <1>7, <1>11
  <2>2. n[1] = IF 1 + d = len + 1 THEN seq ELSE ring[1 + d]
    BY <1>8, <2>1
  <2>3. CASE d = 0
    BY <1>1, <2>2, <2>3
  <2>4. CASE d = 1
    BY <1>1, <1>12, <2>2, <2>4
  <2> QED BY <2>3, <2>4
<1>17. d = 1 => ring[1] < ring[2] /\ ring[1] \in Nat /\ ring[2] \in Nat
  <2> HAVE d = 1
  <2>1. 1 \in 1 .. len /\ 2 \in 1 .. len
    BY <1>1, <1>12
  <2>2. ring[1] + (2 - 1) <= ring[2]
    BY <1>1, <2>1 DEF Stepped
  <2> QED BY <1>1, <2>1, <2>2
<1>18. ring # <<>> => Head(ring) <= Head(n)
  <2> HAVE ring # <<>>
  <2>1. Head(ring) = ring[1] /\ ring[1] \in Nat /\ len >= 1
    BY <1>1, <1>9, <1>10
  <2> QED BY <1>11, <1>16, <1>17, <2>1
<1>19. ASSUME NEW v \in Nat, InRing(v, ring) PROVE InRing(v, n) \/ Outgrown(v, n)
  <2>1. PICK i \in DOMAIN ring : ring[i] = v
    BY <1>19 DEF InRing
  <2>2. i \in 1 .. len
    BY <1>1, <2>1
  <2>3. CASE i - d \in 1 .. len + 1 - d
    <3>1. (i - d) + d = i /\ i # len + 1
      BY <1>1, <2>2
    <3>2. n[i - d] = v
      BY <1>8, <2>1, <2>3, <3>1
    <3> QED BY <1>7, <2>3, <3>2 DEF InRing
  <2>4. CASE i - d \notin 1 .. len + 1 - d
    <3>1. i = 1 /\ d = 1
      BY <1>1, <2>2, <2>4
    <3>2. v < Head(n)
      BY <1>11, <1>16, <1>17, <2>1, <3>1
    <3>3. Len(n) >= VERSION_KEEP
      BY <1>1, <1>6, <1>7, <3>1
    <3> QED BY <1>5, <3>2, <3>3 DEF Outgrown
  <2> QED BY <2>3, <2>4
<1>20. ASSUME NEW v \in Nat, Outgrown(v, ring) PROVE Outgrown(v, n)
  <2>1. ring # <<>> /\ v < Head(ring) /\ len >= VERSION_KEEP
    BY <1>20 DEF Outgrown, len
  <2>2. Head(ring) <= Head(n) /\ Head(ring) \in Nat /\ Head(n) \in Nat
    BY <1>5, <1>18, <2>1, RingEnds
  <2>3. Len(n) >= VERSION_KEEP /\ v < Head(n)
    BY <1>1, <1>6, <1>7, <2>1, <2>2
  <2> QED BY <1>5, <2>3 DEF Outgrown
<1> QED BY <1>5, <1>13, <1>14, <1>15, <1>18, <1>19, <1>20 DEF n

-----------------------------------------------------------------------------
(* What a step leaves of what the node is to be told *)

(* The ring the node has been told of: the stored one, but that a snapshot  *)
(* is told before it is stored, and a promotion after.                     *)
Ring == IF op.is = "promote" /\ op.at = "send" THEN op.prev[1]
        ELSE IF InSnapshot /\ op.at = "commit" THEN live.ring ELSE meta.ring

(* The job of a head installed and not yet sent. *)
Coming == IF op.is = "install" /\ op.at \in {"drop", "send"} THEN {Job(live.seq, live, TRUE)} ELSE {}

Untold == {j \in jobs : j.version} \cup Coming

Known == versions \cup {j.seq : j \in Untold}

(* The rows, now or soon, are the ring and what it has outgrown. *)
RowsAreRing ==
    /\ \A v \in Known \ spent.deleted : InRing(v, Ring) \/ Outgrown(v, Ring)
    /\ \A i \in DOMAIN Ring : Ring[i] \in Known \cup spent.deleted
    /\ Ring = <<>> => floor = 0 /\ Known = {}

(* The floor, now or soon, is where the ring starts. *)
FloorIsHead ==
    Ring # <<>> =>
        /\ floor <= Head(Ring) /\ \A j \in Untold : j.floor <= Head(Ring)
        /\ floor = Head(Ring) \/ \E j \in Untold : j.floor = Head(Ring)

(* The row reaches, now or soon, the newest version. *)
RowReaches ==
    Ring # <<>> => indexed.seq >= Newest(Ring) \/ \E j \in Untold : j.seq = Newest(Ring)

(* What is retained has its bytes. *)
BytesAreKept == \A v \in Known \ spent.deleted : Readable(v) \/ ~Retained(v, meta.seq, Ring)

LInv == Stepped(Ring) /\ RowsAreRing /\ FloorIsHead /\ RowReaches /\ BytesAreKept

(* What a job to be sent says is what it adds to the ring: a promotion has   *)
(* stored the ring with the head entered, a snapshot has it in memory.      *)
Adding ==
    /\ op.is = "promote" /\ op.at = "send" =>
        /\ meta.ring = Noted(op.prev[1], meta.seq) /\ Newest(op.prev[1]) < meta.seq
        /\ meta.seq \in DOMAIN blob \cup spent.deleted
    /\ InSnapshot /\ op.at = "send" /\ op.version => live.ring = Noted(meta.ring, live.seq + 1)

(* No head is installed where its job may be refused. *)
NoInstall == "send" \in Incidents => op.is \notin {"checkpoint", "install"}

(* Nothing is on its way but what is in `jobs`. *)
Settled(o) == o.at \notin {"send", "commit", "drop"}

(* Settled, the ring is the stored one. *)
LEMMA SettledOK ==
  /\ Settled(op) => Ring = meta.ring /\ Coming = {}
  /\ Settled(op') => Ring' = meta'.ring /\ Coming' = {}
BY DEF Settled, Ring, Coming

(* The ring is a sequence of numbers, the rows and the jobs are numbers. *)
LEMMA ListTypes ==
  ASSUME DInv
  PROVE  /\ Ring \in Seq(Nat) /\ versions \subseteq Nat /\ floor \in Nat /\ indexed.seq \in Nat
         /\ meta.seq \in Nat /\ live.seq \in Nat /\ \A s \in DOMAIN blob : s \in Nat
         /\ spent.deleted \subseteq Nat
         /\ \A j \in Untold : j.seq \in Nat /\ j.floor \in Nat
         /\ Known \subseteq Nat
<1>1. Ring \in Seq(Nat) /\ live.ring \in Seq(Nat) /\ live.seq \in Nat /\ meta.seq \in Nat
  <2>1. op.is = "promote" => op.prev[1] \in Seq(Nat)
    BY IdleOK DEF DInv, Typed, ActorTypes, Phase, Ops, Prevs
  <2> QED BY <2>1, RingTypes DEF Ring, DInv, Typed, ActorTypes, Live
<1>2. \A j \in jobs : j.seq \in Nat /\ j.floor \in Nat
  BY DEF DInv, Typed, JobTypes
<1>3. ASSUME NEW j \in Coming PROVE j.seq \in Nat /\ j.floor \in Nat
  <2>1. op.version /\ op.at \in {"drop", "send"}
    BY <1>3, IdleOK DEF Coming, DInv, Phase
  <2>2. live.ring # <<>>
    BY <2>1 DEF DInv, InFlight
  <2>3. Head(live.ring) \in Nat
    BY <1>1, <2>2, RingEnds
  <2>4. j.seq = live.seq /\ j.floor = Head(live.ring)
    BY <1>3 DEF Coming, Job
  <2> QED BY <1>1, <2>3, <2>4
<1>4. \A j \in Untold : j.seq \in Nat /\ j.floor \in Nat
  BY <1>2, <1>3 DEF Untold
<1>5. versions \subseteq Nat /\ floor \in Nat /\ indexed.seq \in Nat
  BY DEF DInv, Typed, NodeTypes
<1>6. spent.deleted \subseteq Nat /\ \A s \in DOMAIN blob : s \in Nat
  BY DEF DInv, Typed, SpentTypes, BlobTypes
<1>7. Known \subseteq Nat
  BY <1>4, <1>5 DEF Known
<1> QED BY <1>1, <1>4, <1>5, <1>6, <1>7

(* The node's own state is left, and no blob the ring retains goes. *)
LEMMA LeavesList ==
  ASSUME DInv, LInv, Ring' = Ring, Untold' = Untold, UNCHANGED nodeVars,
         spent'.deleted = spent.deleted, meta'.seq \in Nat, meta.seq <= meta'.seq,
         \A v \in Nat : Readable(v) /\ Retained(v, meta'.seq, Ring) => v \in DOMAIN blob'
  PROVE  LInv'
<1>1. Known' = Known /\ versions' = versions /\ floor' = floor /\ indexed' = indexed
  BY DEF Known, nodeVars
<1>2. Stepped(Ring)' /\ RowsAreRing' /\ FloorIsHead' /\ RowReaches'
  BY <1>1 DEF LInv, RowsAreRing, FloorIsHead, RowReaches
<1>3. BytesAreKept'
  <2> SUFFICES ASSUME NEW v \in Known \ spent.deleted
               PROVE  v \in DOMAIN blob' \/ ~Retained(v, meta'.seq, Ring)
    BY <1>1 DEF BytesAreKept, Readable
  <2>1. v \in Nat /\ meta.seq \in Nat
    BY ListTypes
  <2>2. Retained(v, meta'.seq, Ring) => Retained(v, meta.seq, Ring)
    BY <2>1, RetentionAssumption DEF Retained
  <2> QED BY <2>1, <2>2 DEF LInv, BytesAreKept
<1> QED BY <1>2, <1>3 DEF LInv

(* A version is entered in the ring, its job sent or to come. *)
Enters(seq) ==
    /\ UNCHANGED nodeVars /\ spent'.deleted = spent.deleted
    /\ Ring' = Noted(Ring, seq)
    /\ Untold' = Untold \cup {[seq |-> seq, version |-> TRUE, floor |-> Head(Ring')]}
    /\ \A i \in DOMAIN Ring : Ring[i] < seq
    /\ seq \in DOMAIN blob' \cup spent.deleted
    /\ \A v \in DOMAIN blob : v \in DOMAIN blob'
    /\ meta'.seq \in Nat /\ meta.seq <= meta'.seq

(* The list then takes the version in. *)
LEMMA EntersList ==
  ASSUME DInv, LInv, NEW seq \in Nat, Enters(seq)
  PROVE  LInv'
<1>1. Ring \in Seq(Nat)
  BY ListTypes
<1>2. PICK n : n = Ring'
  OBVIOUS
<1>3. n = Noted(Ring, seq) /\ Stepped(Ring) /\ \A i \in DOMAIN Ring : Ring[i] < seq
  BY <1>2 DEF Enters, LInv
<1>4. /\ n \in Seq(Nat) /\ n # <<>> /\ Stepped(n) /\ InRing(seq, n)
      /\ \A v : InRing(v, n) => v = seq \/ InRing(v, Ring)
      /\ \A v \in Nat : InRing(v, Ring) \/ Outgrown(v, Ring) => InRing(v, n) \/ Outgrown(v, n)
      /\ Ring # <<>> => Head(Ring) <= Head(n)
  BY <1>1, <1>3, SteppedNoted
<1>5. Newest(n) = seq
  BY <1>1, <1>3, NewestNoted
<1>6. /\ versions' = versions /\ floor' = floor /\ indexed' = indexed
      /\ spent'.deleted = spent.deleted
  BY DEF Enters, nodeVars
<1>7. PICK new : new = [seq |-> seq, version |-> TRUE, floor |-> Head(n)]
  OBVIOUS
<1>8. new.seq = seq /\ new.floor = Head(n)
  BY <1>7
<1>9. Untold' = Untold \cup {new}
  BY <1>2, <1>7 DEF Enters
<1>10. Known' = Known \cup {seq}
  BY <1>6, <1>8, <1>9 DEF Known
<1>11. /\ Known \subseteq Nat /\ meta.seq \in Nat /\ meta'.seq \in Nat /\ meta.seq <= meta'.seq
       /\ floor \in Nat /\ Head(n) \in Nat /\ \A j \in Untold : j.floor \in Nat
  BY <1>4, ListTypes, RingEnds DEF Enters
<1>12. RowsAreRing'
  <2>1. \A v \in Known \ spent.deleted : InRing(v, n) \/ Outgrown(v, n)
    BY <1>4, <1>11 DEF LInv, RowsAreRing
  <2>2. \A i \in DOMAIN n : n[i] \in Known \cup {seq} \cup spent.deleted
    <3> TAKE i \in DOMAIN n
    <3>1. n[i] = seq \/ InRing(n[i], Ring)
      BY <1>4 DEF InRing
    <3>2. InRing(n[i], Ring) => n[i] \in Known \cup spent.deleted
      BY DEF InRing, LInv, RowsAreRing
    <3> QED BY <3>1, <3>2
  <2> QED BY <1>2, <1>4, <1>6, <1>10, <2>1, <2>2 DEF RowsAreRing
<1>13. FloorIsHead'
  <2>1. floor <= Head(n)
    <3>1. CASE Ring = <<>>
      BY <1>11, <3>1 DEF LInv, RowsAreRing
    <3>2. CASE Ring # <<>>
      <4>1. floor <= Head(Ring) /\ Head(Ring) <= Head(n) /\ Head(Ring) \in Nat
        BY <1>1, <1>4, <3>2, RingEnds DEF LInv, FloorIsHead
      <4> QED BY <1>11, <4>1
    <3> QED BY <3>1, <3>2
  <2>2. \A j \in Untold : j.floor <= Head(n)
    <3> TAKE j \in Untold
    <3>1. Ring # <<>>
      BY DEF LInv, RowsAreRing, Known
    <3>2. j.floor <= Head(Ring) /\ Head(Ring) <= Head(n) /\ Head(Ring) \in Nat
      BY <1>1, <1>4, <3>1, RingEnds DEF LInv, FloorIsHead
    <3> QED BY <1>11, <3>2
  <2> QED BY <1>2, <1>6, <1>8, <1>9, <1>11, <2>1, <2>2 DEF FloorIsHead
<1>14. RowReaches'
  BY <1>2, <1>5, <1>8, <1>9 DEF RowReaches
<1>15. BytesAreKept'
  <2> SUFFICES ASSUME NEW v \in (Known \cup {seq}) \ spent.deleted
               PROVE  v \in DOMAIN blob' \/ ~Retained(v, meta'.seq, n)
    BY <1>2, <1>6, <1>10 DEF BytesAreKept, Readable
  <2>1. CASE v = seq
    BY <2>1 DEF Enters
  <2>2. CASE v # seq
    <3>1. v \in Known /\ v \in Nat
      BY <1>11, <2>2
    <3>2. InRing(v, n) => InRing(v, Ring)
      BY <1>4, <2>2
    <3>3. Retained(v, meta'.seq, n) => Retained(v, meta.seq, Ring)
      BY <1>11, <3>1, <3>2, RetentionAssumption DEF Retained, InRing
    <3>4. Readable(v) => v \in DOMAIN blob'
      BY DEF Enters, Readable
    <3> QED BY <3>1, <3>3, <3>4 DEF LInv, BytesAreKept
  <2> QED BY <2>1, <2>2
<1> QED BY <1>2, <1>4, <1>12, <1>13, <1>14, <1>15 DEF LInv

-----------------------------------------------------------------------------
(* Every step keeps LInv, where puts or sends can fail *)

(* Entries, failed puts and evictions send nothing and enter nothing. *)
LEMMA EntriesSettled ==
  ASSUME DInv,
         \/ \E e \in Edits : Type(e) \/ Write(e)
         \/ FireAlarm \/ (Leave /\ live.dirty)
         \/ \E target \in DOMAIN blob : Restore(target)
         \/ Recover \/ PutFails \/ Evict
  PROVE  /\ Settled(op) /\ Settled(op') /\ meta' = meta
         /\ UNCHANGED <<blob, jobs, nodeVars>> /\ spent'.deleted = spent.deleted
<1> DEFINE Left == /\ meta' = meta /\ UNCHANGED <<blob, jobs, nodeVars>>
                   /\ spent'.deleted = spent.deleted
<1>1. op = Idle => Settled(op)
  BY IdleOK DEF Settled
<1>2. op' = Idle => Settled(op')
  BY IdleOK DEF Settled
<1>3. \A next : Starting(op', "flush", live', next) => Settled(op')
  BY DEF Starting, Settled
<1>4. ASSUME NEW e \in Edits, Type(e) PROVE Left /\ Settled(op) /\ Settled(op')
  <2>1. op = Idle /\ op' = Idle
    BY <1>4, <1>1 DEF Type
  <2>2. Current(Opened)
    BY <2>1, OpenedOK
  <2>3. Meta(Journaled(Opened, e)) = meta
    BY <2>2, JournaledOK
  <2> QED BY <1>1, <1>2, <1>4, <2>1, <2>3 DEF Type, Persist, Calm
<1>5. ASSUME NEW e \in Edits, Write(e) PROVE Left /\ Settled(op) /\ Settled(op')
  <2>1. meta' = meta /\ (op' = Idle \/ Starting(op', "flush", live', ""))
    BY <1>5, WriteOpens
  <2> QED BY <1>1, <1>2, <1>3, <1>5, <2>1 DEF Write, Calm
<1>6. ASSUME FireAlarm PROVE Left /\ Settled(op) /\ Settled(op')
  <2>1. op = Idle /\ live' = Opened /\ Opened \in Live /\ Flush(Opened, "timer", "alarm")
    BY <1>6, OpenedOK DEF FireAlarm, Current
  <2>2. \/ Starting(op', "flush", live', "alarm")
        \/ op'.at = "promote"
    BY <2>1, FlushOK DEF SameText
  <2> QED BY <1>1, <1>3, <1>6, <2>1, <2>2 DEF FireAlarm, Calm, Settled
<1>7. ASSUME Leave, live.dirty PROVE Left /\ Settled(op) /\ Settled(op')
  <2>1. live' = live /\ live \in Live /\ Flush(live, "eviction", "")
    BY <1>7 DEF Leave, DInv, Typed, ActorTypes
  <2>2. op' = Idle \/ Starting(op', "flush", live', "")
    BY <2>1, FlushOK DEF SameText
  <2> QED BY <1>1, <1>2, <1>3, <1>7, <2>2 DEF Leave, Calm
<1>8. ASSUME NEW target \in DOMAIN blob, Restore(target) PROVE Left /\ Settled(op) /\ Settled(op')
  <2>1. Current(Opened) /\ blob[target] \in Docs /\ op = Idle
    BY <1>8, OpenedOK DEF Restore, DInv, Typed, BlobTypes
  <2>2. \/ op' = Snapshotting(Opened, "checkpoint", TRUE, "install", blob[target])
        \/ op' = Installing(blob[target])
    BY <1>8 DEF Restore
  <2>3. "checkpoint" \in {"flush", "checkpoint"} /\ TRUE \in BOOLEAN /\ "install" \in OpNexts
    BY DEF OpNexts
  <2>4. op'.at = "put"
    <3>1. Opened \in Live
      BY <2>1 DEF Current
    <3>2. Starting(Snapshotting(Opened, "checkpoint", TRUE, "install", blob[target]), "checkpoint",
                   Opened, "install")
      BY <2>1, <2>3, <3>1, SnapshottingOK
    <3>3. Installing(blob[target]).at = "put"
      BY <2>1, InstallingOK
    <3> QED BY <2>2, <3>2, <3>3 DEF Starting
  <2>5. spent'.deleted = spent.deleted
    BY <1>8 DEF Restore, DInv, Typed, SpentTypes
  <2> QED BY <1>1, <1>8, <2>1, <2>4, <2>5 DEF Restore, Settled
<1>9. ASSUME Recover PROVE Left /\ Settled(op) /\ Settled(op')
  <2>1. /\ op = Idle /\ op' = [Installing(Source) EXCEPT !.then = "recover"]
        /\ SurvivorsBelow(Opened.seq) # {} \/ indexed.text \notin {NoHash, <<{}>>}
    BY <1>9 DEF Recover, Source
  <2> DEFINE o == Installing(Source)
  <2>2. o \in Ops /\ o.at = "put"
    BY <2>1, SourceOK, InstallingOK
  <2> HIDE DEF o
  <2>3. op'.at = "put"
    BY <2>1, <2>2 DEF o, Ops, OpNexts
  <2>4. spent'.deleted = spent.deleted
    BY <1>9 DEF Recover, DInv, Typed, SpentTypes
  <2> QED BY <1>1, <1>9, <2>1, <2>3, <2>4 DEF Recover, Settled
<1>10. ASSUME PutFails PROVE Left /\ Settled(op) /\ Settled(op')
  <2>1. op.at = "put" /\ Fails /\ UNCHANGED <<log, blob, stranded, jobs, nodeVars>>
        /\ spent'.deleted = spent.deleted
    BY <1>10 DEF PutFails, Incident, DInv, Typed, SpentTypes
  <2>2. op.is \in {"flush", "checkpoint", "install"} /\ op \in Ops
    BY <2>1, IdleOK DEF DInv, Phase, Typed, ActorTypes
  <2>3. meta' = meta /\ (op' = Idle \/ (op.is = "flush" /\ op' = GiveWay(op)))
    BY <2>1, <2>2 DEF Fails
  <2>4. op.is = "flush" => op.then \in {"", "alarm"}
    BY <2>1, IdleOK DEF DInv, Phase
  <2>5. op' = Idle \/ op'.at = "promote"
    BY <2>2, <2>3, <2>4, GiveWayOK
  <2> QED BY <1>2, <2>1, <2>3, <2>5 DEF Settled
<1>11. ASSUME Evict PROVE Left /\ Settled(op) /\ Settled(op')
  BY <1>1, <1>11 DEF Evict, Calm
<1> QED BY <1>4, <1>5, <1>6, <1>7, <1>8, <1>9, <1>10, <1>11

(* So the list stays. *)
LEMMA SettledList ==
  ASSUME DInv, LInv, Settled(op), Settled(op'), meta'.ring = meta.ring, meta'.seq = meta.seq,
         jobs' = jobs, UNCHANGED nodeVars, spent'.deleted = spent.deleted,
         \A v \in Nat : Readable(v) /\ Retained(v, meta.seq, meta.ring) => v \in DOMAIN blob'
  PROVE  LInv'
<1>1. Ring' = Ring /\ Ring = meta.ring /\ Coming' = {} /\ Coming = {}
  BY SettledOK
<1>2. Untold' = Untold
  BY <1>1 DEF Untold
<1> QED BY <1>1, <1>2, LeavesList, ListTypes

(* A promotion tells nothing before its send. *)
LEMMA PromoteList ==
  ASSUME DInv, VInv, LInv, Settled(op), NEW m, Current(m), NEW reason, NEW next, NEW before,
         Promote(m, reason, next, before), UNCHANGED <<blob, jobs, nodeVars, spent>>
  PROVE  LInv'
<1>1. m \in Live /\ Held(m) /\ OnHead(m) /\ Meta(m) = meta /\ m.seq = meta.seq /\ m.seq \in Nat
  BY DEF Current, Held, Live
<1>2. m.ring = meta.ring /\ m.ring \in Seq(Nat)
  BY <1>1 DEF Meta, Live
<1>3. \/ /\ Owed(m)
         /\ live' = WithVersion(m, m.seq, VersionHash(m.doc))
         /\ op' = [Idle EXCEPT !.is = "promote", !.at = "send", !.then = next,
                               !.prev = <<m.ring, m.lastHash>>, !.version = TRUE,
                               !.evicted = EvictedBy(m.ring)]
         /\ meta' = Meta(live')
      \/ op' = Idle /\ meta' = meta
  BY DEF Promote
<1>4. CASE op' = Idle /\ meta' = meta
  <2>1. Settled(op')
    BY <1>4, IdleOK DEF Settled
  <2> QED BY <1>4, <2>1, SettledList DEF Readable
<1>5. CASE /\ Owed(m)
           /\ live' = WithVersion(m, m.seq, VersionHash(m.doc))
           /\ op' = [Idle EXCEPT !.is = "promote", !.at = "send", !.then = next,
                                 !.prev = <<m.ring, m.lastHash>>, !.version = TRUE,
                                 !.evicted = EvictedBy(m.ring)]
           /\ meta' = Meta(live')
  <2>1. live'.seq = m.seq
    BY <1>1, <1>5, HashOK, WithVersionOK DEF Live, Same
  <2>2. meta'.seq = meta.seq
    BY <1>1, <1>5, <2>1 DEF Meta
  <2>3. op'.is = "promote" /\ op'.at = "send" /\ op'.prev[1] = meta.ring
    BY <1>2, <1>5, IdleOK DEF Idle
  <2>4. Ring' = Ring /\ Coming = {} /\ Coming' = {}
    BY <2>3, SettledOK DEF Ring, Coming
  <2>5. Untold' = Untold
    BY <2>4 DEF Untold
  <2> QED BY <1>1, <2>2, <2>4, <2>5, LeavesList DEF Readable
<1> QED BY <1>3, <1>4, <1>5

(* The promotions of an alarm and of someone leaving. *)
LEMMA PromotesList ==
  ASSUME DInv, VInv, LInv, AlarmPromotes \/ (Leave /\ ~live.dirty)
  PROVE  LInv'
<1>1. CASE AlarmPromotes
  <2>1. /\ op.is = "alarm" /\ Promote(live, "timer", "arm", alarm)
        /\ UNCHANGED <<blob, jobs, nodeVars, spent>>
    BY <1>1 DEF AlarmPromotes, Calm
  <2>2. Current(live)
    BY <2>1, InMemory, IdleOK DEF DInv, Memory, Current, Held, Replaced, InSnapshot
  <2>3. Settled(op)
    BY <2>1, IdleOK DEF DInv, Phase, Settled
  <2> QED BY <2>1, <2>2, <2>3, PromoteList
<1>2. CASE Leave /\ ~live.dirty
  <2>1. /\ op = Idle /\ Promote(Opened, "eviction", "", OpenedAlarm(alarm))
        /\ UNCHANGED <<blob, jobs, nodeVars, spent>>
    BY <1>2 DEF Leave, Calm
  <2>2. Settled(op)
    BY <2>1, IdleOK DEF Settled
  <2> QED BY <2>1, <2>2, OpenedOK, PromoteList
<1> QED BY <1>1, <1>2

(* A number above the head is above the ring. *)
LEMMA AboveRing ==
  ASSUME DInv, VInv, LInv, Ring = meta.ring
  PROVE  /\ meta.seq + 1 \in Nat /\ \A i \in DOMAIN meta.ring : meta.ring[i] < meta.seq + 1
<1>1. meta.ring \in Seq(Nat) /\ meta.seq \in Nat /\ Stepped(meta.ring)
  BY RingTypes DEF LInv
<1>2. ASSUME NEW i \in DOMAIN meta.ring PROVE meta.ring[i] < meta.seq + 1
  <2>1. InRing(meta.ring[i], meta.ring)
    BY DEF InRing
  <2>2. meta.ring[i] \in Nat /\ meta.ring[i] <= Newest(meta.ring) /\ Newest(meta.ring) \in Nat
    BY <1>1, <2>1, WithinRing, NewestOK
  <2>3. Newest(meta.ring) <= meta.seq
    BY DEF VInv, Standing
  <2> QED BY <1>1, <2>2, <2>3
<1> QED BY <1>1, <1>2

(* A snapshot is told of when its job is sent, or when there is none.       *)
LEMMA PutTellsNothing ==
  ASSUME DInv, LInv, Settled(op), InSnapshot, live.ring = meta.ring, op'.is = op.is,
         op'.at = "send" \/ (op'.at = "commit" /\ live' = live),
         UNCHANGED <<meta, jobs, nodeVars, spent>>, \A v \in DOMAIN blob : v \in DOMAIN blob'
  PROVE  LInv'
<1>1. InSnapshot' /\ Ring' = Ring /\ Coming = {} /\ Coming' = {}
  BY SettledOK DEF Ring, Coming, InSnapshot
<1>2. Untold' = Untold
  BY <1>1 DEF Untold
<1> QED BY <1>1, <1>2, LeavesList, ListTypes DEF Readable

(* Nor does a snapshot that is put. *)
LEMMA PutSnapshotList ==
  ASSUME DInv, VInv, LInv, PutSnapshot
  PROVE  LInv'
<1> DEFINE seq == live.seq + 1
           parked == ParkedOnly(live.doc)
           version == ~parked /\ op.hash \notin {NoHash, live.lastHash}
           stop == IF parked THEN "commit" ELSE "send"
           out == IF version THEN EvictedBy(live.ring) ELSE {}
<1>1. /\ op.at = "put" /\ InSnapshot
      /\ blob' = WithSnapshot(seq, live.doc)
      /\ live' = IF version THEN WithVersion(live, seq, op.hash) ELSE live
      /\ op' = [op EXCEPT !.at = stop, !.version = version, !.evicted = out]
      /\ UNCHANGED <<meta, log, alarm, stranded, jobs, nodeVars, spent>>
  BY DEF PutSnapshot, Calm, InSnapshot
<1>2. live \in Live /\ live.seq = meta.seq /\ op \in Ops
  BY <1>1, InMemory DEF InSnapshot
<1>3. live.ring = meta.ring /\ Settled(op) /\ meta.seq \in Nat
  BY <1>1, <1>2, InMemory DEF DInv, Memory, Held, InSnapshot, Meta, Settled, Live
<1>4. seq \in DOMAIN blob' /\ \A v \in DOMAIN blob : v \in DOMAIN blob'
  BY <1>1 DEF WithSnapshot
<1>5. op'.is = op.is /\ op'.at = stop
  <2> HIDE DEF version, stop, out
  <2> QED BY <1>1, <1>2 DEF Ops
<1>6. CASE parked
  <2>1. live' = live /\ op'.at = "commit"
    BY <1>1, <1>5, <1>6
  <2> HIDE DEF parked, version, stop, out
  <2> QED BY <1>1, <1>3, <1>4, <1>5, <2>1, PutTellsNothing
<1>7. CASE ~parked
  <2>1. op'.at = "send"
    BY <1>5, <1>7
  <2> HIDE DEF parked, version, stop, out
  <2> QED BY <1>1, <1>3, <1>4, <1>5, <2>1, PutTellsNothing
<1> QED BY <1>6, <1>7

(* A job that is sent tells of the version entered, if there was one. *)
LEMMA SendList ==
  ASSUME DInv, VInv, LInv, Adding, Send
  PROVE  LInv'
<1> DEFINE stop == IF InSnapshot THEN "commit" ELSE "prune"
           seq == IF InSnapshot THEN live.seq + 1 ELSE live.seq
<1>1. PICK j : j = Job(seq, live, op.version)
  OBVIOUS
<1>2. /\ op.at = "send" /\ jobs' = jobs \cup {j} /\ op' = [op EXCEPT !.at = stop]
      /\ UNCHANGED <<live, meta, log, alarm, blob, stranded, nodeVars, spent>>
  BY <1>1 DEF Send, Sent, Calm
<1>3. op.is \in {"flush", "checkpoint", "promote", "install"}
      /\ (op.is \in {"promote", "install"} => op.version)
  BY <1>2, IdleOK DEF DInv, Phase
<1>4. live.seq = meta.seq /\ meta.seq \in Nat /\ meta'.seq = meta.seq
  BY <1>2, <1>3, InMemory, RingTypes
<1>5. op'.at = stop /\ op'.is = op.is /\ op.version \in BOOLEAN
  <2>1. op \in Ops
    BY DEF DInv, Typed, ActorTypes
  <2> HIDE DEF stop
  <2> QED BY <1>2, <2>1 DEF Ops
<1>6. j.version = op.version /\ j.seq = seq
      /\ (op.version => j = [seq |-> seq, version |-> TRUE, floor |-> Head(live.ring)])
  BY <1>1, <1>5 DEF Job
<1>7. CASE ~op.version
  <2>1. InSnapshot /\ live.ring = meta.ring
    BY <1>2, <1>3, <1>7 DEF InSnapshot, VInv, Entering
  <2>2. Ring' = Ring /\ Coming = {} /\ Coming' = {}
    BY <1>2, <1>5, <2>1 DEF Ring, Coming, InSnapshot
  <2>3. Untold' = Untold
    BY <1>2, <1>6, <1>7, <2>2 DEF Untold
  <2> QED BY <1>2, <1>4, <2>2, <2>3, LeavesList DEF Readable
<1>8. CASE op.is = "install"
  <2>1. ~InSnapshot /\ seq = live.seq
    BY <1>8 DEF InSnapshot
  <2>2. Ring' = Ring /\ Coming = {j} /\ Coming' = {}
    <3>1. op.version = TRUE
      BY <1>3, <1>5, <1>8
    <3>2. j = Job(live.seq, live, TRUE)
      BY <1>1, <2>1, <3>1
    <3>3. op'.is = "install" /\ op'.at = "prune"
      BY <1>5, <1>8, <2>1
    <3> QED BY <1>2, <1>8, <2>1, <3>2, <3>3 DEF Ring, Coming, InSnapshot
  <2>3. Untold' = Untold
    BY <1>2, <1>3, <1>6, <1>8, <2>2 DEF Untold
  <2> QED BY <1>2, <1>4, <2>2, <2>3, LeavesList DEF Readable
<1>9. CASE op.is = "promote"
  <2>1. ~InSnapshot /\ seq = meta.seq /\ live.ring = meta.ring
    BY <1>3, <1>4, <1>9, InMemory DEF InSnapshot, DInv, Memory, Held, Meta
  <2>2. Ring = op.prev[1] /\ Ring' = meta.ring /\ Coming = {} /\ Coming' = {}
    BY <1>2, <1>5, <1>9, <2>1 DEF Ring, Coming, InSnapshot
  <2>3. Ring' = Noted(Ring, meta.seq) /\ Newest(Ring) < meta.seq /\ meta.seq \in DOMAIN blob \cup spent.deleted
    BY <1>2, <1>9, <2>2 DEF Adding
  <2>4. Untold' = Untold \cup {[seq |-> meta.seq, version |-> TRUE, floor |-> Head(Ring')]}
    <3>1. j = [seq |-> meta.seq, version |-> TRUE, floor |-> Head(Ring')] /\ j.version
      BY <1>3, <1>6, <1>9, <2>1, <2>2
    <3> QED BY <1>2, <2>2, <3>1, Zenon DEF Untold
  <2>5. \A i \in DOMAIN Ring : Ring[i] < meta.seq
    <3> TAKE i \in DOMAIN Ring
    <3>1. Ring \in Seq(Nat) /\ Stepped(Ring) /\ InRing(Ring[i], Ring)
      BY ListTypes DEF LInv, InRing
    <3>2. Ring[i] \in Nat /\ Ring[i] <= Newest(Ring) /\ Newest(Ring) \in Nat
      BY <3>1, WithinRing, NewestOK
    <3> QED BY <1>4, <2>3, <3>2
  <2>6. Enters(meta.seq)
    BY <1>2, <1>4, <2>3, <2>4, <2>5 DEF Enters
  <2> QED BY <1>4, <2>6, EntersList
<1>10. CASE op.is \in {"flush", "checkpoint"} /\ op.version
  <2>1. InSnapshot /\ seq = meta.seq + 1 /\ Readable(meta.seq + 1)
    BY <1>2, <1>4, <1>10 DEF InSnapshot, DInv, InFlight
  <2>2. Ring = meta.ring /\ Ring' = live.ring /\ Coming = {} /\ Coming' = {}
    BY <1>2, <1>5, <2>1 DEF Ring, Coming, InSnapshot
  <2>3. Ring' = Noted(Ring, meta.seq + 1)
    BY <1>2, <1>4, <1>10, <2>1, <2>2 DEF Adding
  <2>4. Untold' = Untold \cup {[seq |-> meta.seq + 1, version |-> TRUE, floor |-> Head(Ring')]}
    <3>1. j = [seq |-> meta.seq + 1, version |-> TRUE, floor |-> Head(Ring')] /\ j.version
      BY <1>6, <1>10, <2>1, <2>2
    <3> QED BY <1>2, <2>2, <3>1, Zenon DEF Untold
  <2>5. meta.seq + 1 \in Nat /\ \A i \in DOMAIN Ring : Ring[i] < meta.seq + 1
    BY <2>2, AboveRing
  <2>6. Enters(meta.seq + 1)
    BY <1>2, <1>4, <2>1, <2>3, <2>4, <2>5 DEF Enters, Readable
  <2> QED BY <2>5, <2>6, EntersList
<1> QED BY <1>3, <1>7, <1>8, <1>9, <1>10

(* One that is refused has told nothing, and what it was to tell is taken    *)
(* back, unless it was that of a head install.                             *)
LEMMA SendFailsList ==
  ASSUME DInv, LInv, SendFails, jobs' = jobs, op.is # "install"
  PROVE  LInv'
<1>1. /\ op.at = "send" /\ Fails /\ UNCHANGED <<blob, nodeVars>>
      /\ spent'.deleted = spent.deleted
  BY DEF SendFails, Incident, DInv, Typed, SpentTypes
<1>2. op.is \in {"flush", "promote", "checkpoint"} /\ op \in Ops
      /\ (op.is = "flush" => op.then \in {"", "alarm"})
  BY <1>1, IdleOK DEF DInv, Phase, Typed, ActorTypes
<1>3. op' = Idle \/ (op.is = "flush" /\ op' = GiveWay(op))
  BY <1>1, <1>2 DEF Fails
<1>4. op'.at \in {"", "promote"}
  BY <1>2, <1>3, GiveWayOK, IdleOK
<1>5. Ring' = meta'.ring /\ Coming = {} /\ Coming' = {}
  BY <1>2, <1>4, SettledOK DEF Coming, Settled
<1>6. meta'.seq = meta.seq /\ meta'.ring = Ring
  <2>1. CASE op.is = "promote"
    <3>1. live \in Live /\ live.seq = meta.seq /\ op.prev \in Seq(Nat) \X Hashes
      BY <2>1, InMemory, IdleOK DEF DInv, Phase, Held, Ops, Prevs
    <3>2. live' = RolledBack(live, op.prev) /\ meta' = Meta(live')
      BY <1>1, <2>1 DEF Fails
    <3>3. live'.seq = live.seq /\ live'.ring = op.prev[1]
      BY <3>1, <3>2, RolledBackOK DEF Same
    <3> QED BY <1>1, <2>1, <3>1, <3>2, <3>3 DEF Meta, Ring
  <2>2. CASE op.is # "promote"
    BY <1>1, <1>2, <2>2 DEF Fails, Ring
  <2> QED BY <2>1, <2>2
<1>7. Untold' = Untold
  BY <1>5 DEF Untold
<1> QED BY <1>1, <1>5, <1>6, <1>7, LeavesList, ListTypes DEF Readable

(* Its snapshot becomes the head. *)
LEMMA CommitSnapshotList ==
  ASSUME DInv, LInv, CommitSnapshot
  PROVE  LInv'
<1>1. /\ op.at = "commit" /\ meta' = Meta(live') /\ op' = [op EXCEPT !.at = "prune"]
      /\ UNCHANGED <<blob, jobs, nodeVars, spent>>
  BY DEF CommitSnapshot, Calm
<1>2. InSnapshot /\ op.is # "idle"
  BY <1>1, IdleOK DEF DInv, Phase, InSnapshot
<1>3. live \in Live /\ live.seq = meta.seq /\ op \in Ops /\ meta.seq \in Nat
  BY <1>2, InMemory, RingTypes
<1>4. live'.seq = live.seq + 1 /\ live'.ring = live.ring
  BY <1>3 DEF CommitSnapshot, Live
<1>5. meta'.seq = meta.seq + 1 /\ meta'.ring = live.ring
  BY <1>1, <1>3, <1>4 DEF Meta
<1>6. op'.at = "prune" /\ op'.is = op.is
  BY <1>1, <1>3 DEF Ops
<1>7. Ring' = Ring /\ Coming = {} /\ Coming' = {}
  BY <1>1, <1>2, <1>5, <1>6 DEF Ring, Coming, InSnapshot
<1>8. Untold' = Untold
  BY <1>1, <1>7 DEF Untold
<1> QED BY <1>1, <1>3, <1>5, <1>7, <1>8, LeavesList DEF Readable

(* Pruning takes only what is not retained. *)
LEMMA PruneList ==
  ASSUME DInv, LInv, Prune
  PROVE  LInv'
<1> DEFINE gone == Pruned(live.seq, live.ring, op.evicted)
<1>1. /\ op.at = "prune"
      /\ blob' = [seq \in DOMAIN blob \ gone |-> blob[seq]]
      /\ op' = GiveWay(op)
      /\ UNCHANGED <<meta, jobs, nodeVars, spent>>
  BY DEF Prune, Calm
<1>2. op.is \in {"flush", "checkpoint", "promote", "install"} /\ op \in Ops
  BY <1>1, IdleOK DEF DInv, Phase, Typed, ActorTypes
<1>3. live.ring = meta.ring /\ live.seq = meta.seq
  BY <1>1, <1>2, InMemory DEF DInv, Memory, Held, Meta
<1>4. Settled(op) /\ Settled(op')
  <2>1. op.doc \in Docs
    BY <1>2 DEF Ops
  <2>2. \/ op' = Idle \/ op' = Installing(op.doc) \/ op'.at = "promote"
    BY <1>1, <1>2, GiveWayOK
  <2>3. op'.at \in {"", "put", "promote"}
    BY <2>1, <2>2, InstallingOK, IdleOK
  <2> QED BY <1>1, <2>3 DEF Settled
<1>5. ASSUME NEW v \in Nat, Readable(v), Retained(v, meta.seq, meta.ring) PROVE v \in DOMAIN blob'
  <2>1. v \notin gone
    BY <1>3, <1>5 DEF Pruned
  <2> HIDE DEF gone
  <2> QED BY <1>1, <1>5, <2>1 DEF Readable
<1> QED BY <1>1, <1>4, <1>5, SettledList

(* An install puts its head, enters it, and drops the log. *)
LEMMA InstallList ==
  ASSUME DInv, VInv, LInv, PutHead \/ CommitHead \/ DropLog
  PROVE  LInv'
<1>1. CASE PutHead
  <2>1. /\ op.is = "install" /\ op.at = "put"
        /\ blob' = WithSnapshot(live.seq + 1, op.doc)
        /\ op' = [op EXCEPT !.at = "meta"] /\ op \in Ops
        /\ UNCHANGED <<meta, jobs, nodeVars, spent>>
    BY <1>1 DEF PutHead, Calm, DInv, Typed, ActorTypes
  <2>2. Settled(op) /\ Settled(op')
    BY <2>1 DEF Settled, Ops
  <2>3. \A v \in DOMAIN blob : v \in DOMAIN blob'
    BY <2>1 DEF WithSnapshot
  <2> QED BY <2>1, <2>2, <2>3, SettledList DEF Readable
<1>2. CASE CommitHead
  <2> DEFINE w == WithVersion(live, live.seq + 1, VersionHash(op.doc))
  <2>1. /\ op.at = "meta"
        /\ live' = [w EXCEPT !.seq = w.seq + 1, !.epoch = w.epoch + 1, !.hydrationIncomplete = FALSE]
        /\ meta' = Meta(live') /\ op' = [op EXCEPT !.at = "drop", !.evicted = EvictedBy(live.ring)]
        /\ UNCHANGED <<blob, jobs, nodeVars, spent>>
    BY <1>2 DEF CommitHead, Calm
  <2>2. op.is = "install" /\ op.version
    BY <2>1, IdleOK DEF DInv, Phase
  <2>3. live \in Live /\ live.seq = meta.seq /\ op \in Ops /\ live.ring = meta.ring
    BY <2>2, InMemory DEF DInv, Memory, Held, InSnapshot, Meta
  <2>4. live.seq + 1 \in Nat /\ VersionHash(op.doc) \in Hashes
    BY <2>3, HashOK DEF Live, Ops
  <2>5. w \in Live /\ Same(live, w) /\ w.ring = Noted(live.ring, live.seq + 1)
    BY <2>3, <2>4, WithVersionOK
  <2> HIDE DEF w
  <2>6. live'.seq = live.seq + 1 /\ live'.ring = w.ring
    BY <2>1, <2>5 DEF Live, Same
  <2>7. meta'.seq = meta.seq + 1 /\ meta'.ring = live'.ring /\ live'.seq = meta.seq + 1
    BY <2>1, <2>3, <2>6 DEF Meta
  <2>8. op'.is = "install" /\ op'.at = "drop" /\ op'.version
    BY <2>1, <2>2, <2>3 DEF Ops
  <2>9. Ring = meta.ring /\ Coming = {} /\ Ring' = Noted(Ring, meta.seq + 1)
    BY <2>1, <2>2, <2>3, <2>5, <2>6, <2>7, <2>8 DEF Ring, Coming, InSnapshot
  <2>10. Untold' = Untold \cup {[seq |-> meta.seq + 1, version |-> TRUE, floor |-> Head(Ring')]}
    <3>1. Coming' = {[seq |-> meta.seq + 1, version |-> TRUE, floor |-> Head(Ring')]}
      BY <2>3, <2>5, <2>6, <2>7, <2>8, <2>9 DEF Coming, Ring, InSnapshot, Job
    <3> QED BY <2>1, <2>9, <3>1 DEF Untold
  <2>11. Readable(meta.seq + 1)
    BY <2>1, <2>2, <2>3 DEF VInv, Replacing
  <2>12. meta'.seq \in Nat /\ meta.seq <= meta'.seq
    BY <2>7, RingTypes
  <2>13. Enters(meta.seq + 1)
    BY <2>1, <2>9, <2>10, <2>11, <2>12, AboveRing DEF Enters, Readable
  <2> QED BY <2>9, <2>13, AboveRing, EntersList
<1>3. CASE DropLog
  <2>1. /\ op.at = "drop" /\ op' = [op EXCEPT !.at = "send"] /\ op \in Ops
        /\ UNCHANGED <<live, meta, blob, jobs, nodeVars, spent>>
    BY <1>3 DEF DropLog, Calm, DInv, Typed, ActorTypes
  <2>2. op.is = "install"
    BY <2>1, IdleOK DEF DInv, Phase
  <2>3. op'.is = "install" /\ op'.at = "send" /\ op'.version = op.version
    BY <2>1, <2>2 DEF Ops
  <2>4. Ring' = Ring /\ Coming' = Coming
    BY <2>1, <2>2, <2>3 DEF Ring, Coming, InSnapshot
  <2>5. Untold' = Untold
    BY <2>1, <2>4 DEF Untold
  <2> QED BY <2>1, <2>4, <2>5, LeavesList, ListTypes DEF Readable
<1> QED BY <1>1, <1>2, <1>3

(* A job moves the row up, to its own number at least if it has a version. *)
LEMMA RowRises ==
  ASSUME DInv, NEW j \in jobs, Recorded(j), indexed' = IndexedAfter(j)
  PROVE  /\ indexed'.seq \in Nat /\ indexed.seq <= indexed'.seq
         /\ j.version => j.seq <= indexed'.seq
         /\ indexed'.seq <= j.seq \/ indexed'.seq = indexed.seq
<1> DEFINE text == <<IF Readable(j.seq) THEN Text(blob[j.seq]) ELSE {}>>
           upTo == {v \in versions' : v <= j.seq /\ v >= indexed.seq}
           highest == CHOOSE v \in upTo : \A w \in upTo : w <= v
           rest == IF upTo = {} THEN j.seq ELSE highest
<1>1. indexed' = IF indexed.seq >= j.seq THEN indexed
                 ELSE IF text # indexed.text THEN [seq |-> j.seq, text |-> text]
                 ELSE [indexed EXCEPT !.seq = rest]
  BY DEF IndexedAfter
<1>2. j.seq \in Nat /\ indexed \in [seq : Nat, text : Hashes] /\ indexed.seq \in Nat
  BY DEF DInv, Typed, JobTypes, NodeTypes
<1>3. versions' \subseteq Nat /\ (j.version => j.seq \in versions')
  BY RecordedOK DEF Recorded
<1>4. ASSUME indexed.seq < j.seq
      PROVE  rest \in Nat /\ indexed.seq <= rest /\ rest <= j.seq /\ (j.version => rest = j.seq)
  <2>1. \A v \in upTo : v \in 0 .. j.seq /\ v >= indexed.seq
    BY <1>2, <1>3
  <2>2. j.version => j.seq \in upTo
    BY <1>2, <1>3, <1>4
  <2> HIDE DEF upTo
  <2>3. upTo # {} => \E v \in upTo : \A w \in upTo : w <= v
    BY <1>2, <2>1, HighestExists
  <2>4. upTo # {} => highest \in upTo /\ \A w \in upTo : w <= highest
    BY <2>3
  <2> HIDE DEF highest
  <2>5. CASE upTo = {}
    BY <1>2, <1>4, <2>2, <2>5
  <2>6. CASE upTo # {}
    <3>1. highest \in 0 .. j.seq /\ highest >= indexed.seq /\ (j.version => j.seq <= highest)
      BY <2>1, <2>2, <2>4, <2>6
    <3> QED BY <1>2, <2>6, <3>1
  <2> QED BY <2>5, <2>6
<1> HIDE DEF text, rest
<1>5. CASE indexed.seq >= j.seq
  BY <1>1, <1>2, <1>5
<1>6. CASE indexed.seq < j.seq /\ text # indexed.text
  <2>1. indexed' = [seq |-> j.seq, text |-> text]
    BY <1>1, <1>2, <1>6
  <2>2. indexed'.seq = j.seq
    BY <2>1
  <2> QED BY <1>2, <1>6, <2>2
<1>7. CASE indexed.seq < j.seq /\ text = indexed.text
  <2>1. indexed' = [indexed EXCEPT !.seq = rest]
    BY <1>1, <1>2, <1>7
  <2>2. indexed'.seq = rest
    BY <1>2, <2>1
  <2> QED BY <1>2, <1>4, <1>7, <2>2
<1> QED BY <1>2, <1>5, <1>6, <1>7

(* A job recorded, once or again, was told of before. *)
LEMMA JobList ==
  ASSUME DInv, LInv, NEW j \in jobs, RunJob(j, TRUE) \/ RunJob(j, FALSE) \/ JobFails(j)
  PROVE  LInv'
<1>1. /\ Recorded(j)
      /\ jobs' = jobs \/ (jobs' = jobs \ {j} /\ indexed' = IndexedAfter(j))
      /\ indexed' = IndexedAfter(j) \/ indexed' = indexed
      /\ UNCHANGED <<live, op, meta, blob, spent>>
  BY DEF RunJob, JobFails, Calm, actorVars
<1>2. Ring' = Ring /\ Coming' = Coming
  BY <1>1 DEF Ring, Coming, InSnapshot
<1>3. /\ indexed'.seq \in Nat /\ indexed.seq <= indexed'.seq /\ indexed.seq \in Nat
      /\ jobs' # jobs /\ j.version => j.seq <= indexed'.seq
  BY <1>1, RowRises, ListTypes
<1>4. Ring # <<>> => Newest(Ring) \in Nat
  BY ListTypes, NewestOK
<1>5. /\ Untold' \subseteq Untold
      /\ \A k \in Untold : k \in Untold' \/ (k = j /\ j.version /\ jobs' # jobs)
  BY <1>1, <1>2, Zenon DEF Untold
<1>6. CASE ~j.version
  <2>1. versions' = versions /\ floor' = floor
    BY <1>1, <1>6 DEF Recorded
  <2>2. Untold' = Untold
    BY <1>5, <1>6
  <2>3. Known' = Known
    BY <2>1, <2>2 DEF Known
  <2>4. Stepped(Ring)' /\ RowsAreRing' /\ FloorIsHead' /\ BytesAreKept'
    BY <1>1, <1>2, <2>1, <2>2, <2>3
    DEF LInv, RowsAreRing, FloorIsHead, BytesAreKept, Readable
  <2>5. RowReaches'
    BY <1>2, <1>3, <1>4, <2>2 DEF LInv, RowReaches
  <2> QED BY <2>4, <2>5 DEF LInv
<1>7. CASE j.version
  <2>1. versions' = versions \cup {j.seq} /\ floor' = IF j.floor > floor THEN j.floor ELSE floor
    BY <1>1, <1>7 DEF Recorded
  <2>2. j \in Untold
    BY <1>7 DEF Untold
  <2>3. Known' = Known
    <3>1. Known' \subseteq Known
      BY <1>5, <2>1, <2>2 DEF Known
    <3>2. Known \subseteq Known'
      BY <1>5, <2>1 DEF Known
    <3> QED BY <3>1, <3>2
  <2>4. Stepped(Ring)' /\ BytesAreKept'
    BY <1>1, <1>2, <2>3 DEF LInv, BytesAreKept, Readable
  <2>5. Ring # <<>>
    BY <2>2 DEF LInv, RowsAreRing, Known
  <2>6. RowsAreRing'
    BY <1>1, <1>2, <2>3, <2>5 DEF LInv, RowsAreRing
  <2>7. FloorIsHead'
    <3>1. /\ floor \in Nat /\ \A k \in Untold : k.floor \in Nat
          /\ floor <= Head(Ring) /\ \A k \in Untold : k.floor <= Head(Ring)
          /\ floor = Head(Ring) \/ \E k \in Untold : k.floor = Head(Ring)
          /\ Head(Ring) \in Nat
      BY <2>5, ListTypes, RingEnds DEF LInv, FloorIsHead
    <3>2. floor' <= Head(Ring) /\ floor <= floor' /\ j.floor <= floor' /\ floor' \in Nat
      BY <2>1, <2>2, <3>1
    <3>3. \A k \in Untold' : k.floor <= Head(Ring)
      BY <1>5, <3>1
    <3>4. floor' = Head(Ring) \/ \E k \in Untold' : k.floor = Head(Ring)
      <4>1. CASE floor = Head(Ring)
        BY <3>1, <3>2, <4>1
      <4>2. ASSUME NEW k \in Untold, k.floor = Head(Ring)
            PROVE  floor' = Head(Ring) \/ k \in Untold'
        <5>1. CASE k = j
          BY <3>1, <3>2, <4>2, <5>1
        <5> QED BY <1>5, <5>1
      <4> QED BY <3>1, <4>1, <4>2
    <3> QED BY <1>2, <3>2, <3>3, <3>4 DEF FloorIsHead
  <2>8. RowReaches'
    <3>1. CASE indexed.seq >= Newest(Ring)
      BY <1>2, <1>3, <1>4, <2>5, <3>1 DEF RowReaches
    <3>2. ASSUME NEW k \in Untold, k.seq = Newest(Ring) PROVE RowReaches'
      <4>1. k \in Untold' \/ k.seq <= indexed'.seq
        BY <1>3, <1>5
      <4> QED BY <1>2, <1>3, <1>4, <2>5, <3>2, <4>1 DEF RowReaches
    <3> QED BY <2>5, <3>1, <3>2 DEF LInv, RowReaches
  <2> QED BY <2>4, <2>6, <2>7, <2>8 DEF LInv
<1> QED BY <1>6, <1>7

(* A version deleted is left out of both. *)
LEMMA DeleteList ==
  ASSUME DInv, LInv, NEW seq \in DOMAIN blob \cup versions, DeleteVersion(seq)
  PROVE  LInv'
<1>1. /\ blob' = [s \in DOMAIN blob \ {seq} |-> blob[s]]
      /\ versions' = versions \ {seq}
      /\ spent' = [spent EXCEPT !.deleted = spent.deleted \cup {seq}]
      /\ UNCHANGED <<live, op, meta, jobs, floor, indexed>>
  BY DEF DeleteVersion, actorVars
<1>2. spent'.deleted = spent.deleted \cup {seq}
  BY <1>1 DEF DInv, Typed, SpentTypes
<1>3. Ring' = Ring /\ Untold' = Untold
  BY <1>1 DEF Ring, Untold, Coming, InSnapshot
<1>4. Known' \subseteq Known /\ Known \subseteq Known' \cup {seq}
  BY <1>1, <1>3 DEF Known
<1>5. RowsAreRing'
  <2>1. Ring = <<>> => Known = {}
    BY DEF LInv, RowsAreRing
  <2>2. \A i \in DOMAIN Ring : Ring[i] \in Known' \cup spent'.deleted
    BY <1>2, <1>4 DEF LInv, RowsAreRing
  <2>3. \A v \in Known' \ spent'.deleted : InRing(v, Ring) \/ Outgrown(v, Ring)
    BY <1>2, <1>4 DEF LInv, RowsAreRing
  <2>4. Ring = <<>> => floor' = 0 /\ Known' = {}
    BY <1>1, <1>4 DEF LInv, RowsAreRing
  <2> QED BY <1>3, <2>2, <2>3, <2>4 DEF RowsAreRing
<1>6. FloorIsHead' /\ RowReaches' /\ Stepped(Ring)'
  BY <1>1, <1>3 DEF LInv, FloorIsHead, RowReaches
<1>7. BytesAreKept'
  <2> SUFFICES ASSUME NEW v \in Known' \ spent'.deleted
               PROVE  v \in DOMAIN blob' \/ ~Retained(v, meta.seq, Ring)
    BY <1>1, <1>3 DEF BytesAreKept, Readable
  <2>1. v \in Known \ spent.deleted /\ v # seq
    BY <1>2, <1>4
  <2>2. Readable(v) => v \in DOMAIN blob'
    BY <1>1, <2>1 DEF Readable
  <2> QED BY <2>1, <2>2 DEF LInv, BytesAreKept
<1> QED BY <1>5, <1>6, <1>7 DEF LInv

(* At first there is no version and no row. *)
LEMMA ListInit ==
  ASSUME Init
  PROVE  LInv
<1>1. meta.ring = <<>> /\ op = Idle /\ jobs = {} /\ versions = {} /\ floor = 0
  BY DEF Init, Meta, Unloaded
<1>2. Ring = <<>> /\ Coming = {}
  BY <1>1, IdleOK, SettledOK DEF Settled
<1>3. Untold = {} /\ Known = {}
  BY <1>1, <1>2 DEF Untold, Known
<1>4. DOMAIN Ring = {}
  BY <1>2
<1> QED BY <1>1, <1>2, <1>3, <1>4
    DEF LInv, Stepped, RowsAreRing, FloorIsHead, RowReaches, BytesAreKept

(* A promotion stores the ring its job will tell of. *)
LEMMA PromoteAdds ==
  ASSUME DInv, NEW m, Current(m), NEW reason, NEW next, NEW before,
         Promote(m, reason, next, before), UNCHANGED <<blob, spent>>
  PROVE  Adding'
<1>1. m \in Live /\ OnHead(m) /\ m.seq = meta.seq /\ m.seq \in Nat /\ m.doc \in Docs /\ m.ring \in Seq(Nat)
  BY DEF Current, Held, Live
<1>2. \/ /\ Owed(m)
         /\ live' = WithVersion(m, m.seq, VersionHash(m.doc))
         /\ op' = [Idle EXCEPT !.is = "promote", !.at = "send", !.then = next,
                               !.prev = <<m.ring, m.lastHash>>, !.version = TRUE,
                               !.evicted = EvictedBy(m.ring)]
         /\ meta' = Meta(live')
      \/ op' = Idle
  BY DEF Promote
<1>3. CASE op' = Idle
  BY <1>3, IdleOK DEF Adding, InSnapshot
<1>4. CASE /\ Owed(m)
           /\ live' = WithVersion(m, m.seq, VersionHash(m.doc))
           /\ op' = [Idle EXCEPT !.is = "promote", !.at = "send", !.then = next,
                                 !.prev = <<m.ring, m.lastHash>>, !.version = TRUE,
                                 !.evicted = EvictedBy(m.ring)]
           /\ meta' = Meta(live')
  <2>1. m.seq > Newest(m.ring) /\ ~m.dirty /\ ~m.hydrationIncomplete
    BY <1>4 DEF Owed, PastNewest
  <2>2. live'.ring = Noted(m.ring, m.seq) /\ live'.seq = m.seq
    BY <1>1, <1>4, HashOK, WithVersionOK DEF Same
  <2>3. meta'.ring = Noted(m.ring, m.seq) /\ meta'.seq = m.seq
    BY <1>4, <2>2 DEF Meta
  <2>4. op'.is = "promote" /\ op'.prev[1] = m.ring
    BY <1>4, IdleOK DEF Idle
  <2>5. m.seq \in DOMAIN blob \cup spent.deleted /\ Newest(m.ring) < m.seq
    <3>1. Newest(m.ring) \in Nat
      BY <1>1, NewestOK
    <3>2. m.seq > 0
      BY <1>1, <2>1, <3>1
    <3> QED BY <1>1, <2>1, <3>1, <3>2 DEF OnHead, Readable
  <2>6. meta'.ring = Noted(op'.prev[1], meta'.seq) /\ Newest(op'.prev[1]) < meta'.seq
        /\ meta'.seq \in DOMAIN blob' \cup spent'.deleted
    BY <2>3, <2>4, <2>5
  <2> QED BY <2>4, <2>6 DEF Adding, InSnapshot
<1> QED BY <1>2, <1>3, <1>4

(* A snapshot has it in memory. *)
LEMMA PutAdds ==
  ASSUME DInv, PutSnapshot
  PROVE  Adding'
<1> DEFINE seq == live.seq + 1
           parked == ParkedOnly(live.doc)
           version == ~parked /\ op.hash \notin {NoHash, live.lastHash}
           stop == IF parked THEN "commit" ELSE "send"
           out == IF version THEN EvictedBy(live.ring) ELSE {}
<1>1. /\ op.at = "put" /\ InSnapshot
      /\ live' = IF version THEN WithVersion(live, seq, op.hash) ELSE live
      /\ op' = [op EXCEPT !.at = stop, !.version = version, !.evicted = out]
      /\ meta' = meta
  BY DEF PutSnapshot, InSnapshot
<1>2. live \in Live /\ op \in Ops /\ live.ring = meta.ring
  BY <1>1, InMemory DEF DInv, Memory, Held, InSnapshot, Meta
<1>3. seq \in Nat /\ op.hash \in Hashes
  BY <1>2 DEF Live, Ops
<1>4. op'.is = op.is /\ op'.version = version
  <2>1. version \in BOOLEAN
    OBVIOUS
  <2> HIDE DEF version, stop, out
  <2> QED BY <1>1, <1>2, <2>1 DEF Ops
<1>5. op'.is # "promote"
  BY <1>1, <1>4 DEF InSnapshot
<1>6. CASE version
  <2>1. live' = WithVersion(live, seq, op.hash)
    BY <1>1, <1>6
  <2>2. live'.ring = Noted(live.ring, seq) /\ live'.seq = live.seq
    BY <1>2, <1>3, <2>1, WithVersionOK DEF Same
  <2>3. live'.ring = Noted(meta'.ring, live'.seq + 1)
    BY <1>1, <1>2, <2>2
  <2> QED BY <1>5, <2>3 DEF Adding
<1>7. CASE ~version
  BY <1>4, <1>5, <1>7 DEF Adding
<1> QED BY <1>6, <1>7

(* Every other step leaves it, or has nothing to send. *)
LEMMA AddingStep ==
  ASSUME Incidents \subseteq {"put", "send"}, DInv, Adding, [Next]_vars
  PROVE  Adding'
<1>1. op'.at # "send" => Adding'
  BY DEF Adding
<1>2. op \in Ops
  BY DEF DInv, Typed, ActorTypes
<1>3. CASE \/ \E e \in Edits : Type(e) \/ Write(e)
           \/ FireAlarm \/ (Leave /\ live.dirty)
           \/ \E target \in DOMAIN blob : Restore(target)
           \/ Recover \/ PutFails \/ Evict
  BY <1>1, <1>3, EntriesSettled DEF Settled
<1>4. CASE AlarmPromotes
  <2>1. op.is = "alarm" /\ Promote(live, "timer", "arm", alarm) /\ UNCHANGED <<blob, spent>>
    BY <1>4 DEF AlarmPromotes, Calm
  <2>2. Current(live)
    BY <2>1, InMemory, IdleOK DEF DInv, Memory, Current, Held, Replaced, InSnapshot
  <2> QED BY <2>1, <2>2, PromoteAdds
<1>5. CASE Leave /\ ~live.dirty
  <2>1. op = Idle /\ Promote(Opened, "eviction", "", OpenedAlarm(alarm)) /\ UNCHANGED <<blob, spent>>
    BY <1>5 DEF Leave, Calm
  <2> QED BY <2>1, OpenedOK, PromoteAdds
<1>6. CASE PutSnapshot
  BY <1>6, PutAdds
<1>7. CASE Send \/ CommitSnapshot \/ PutHead \/ CommitHead
  <2>1. \E stop \in {"commit", "prune", "meta", "drop"} : \E out :
           op' = [op EXCEPT !.at = stop] \/ op' = [op EXCEPT !.at = stop, !.evicted = out]
    BY <1>7 DEF Send, CommitSnapshot, PutHead, CommitHead
  <2>2. op'.at \in {"commit", "prune", "meta", "drop"}
    BY <1>2, <2>1 DEF Ops
  <2> QED BY <1>1, <2>2
<1>8. CASE DropLog
  <2>1. op.at = "drop" /\ op' = [op EXCEPT !.at = "send"]
    BY <1>8 DEF DropLog
  <2>2. op'.is = "install"
    BY <1>2, <2>1, IdleOK DEF DInv, Phase, Ops
  <2> QED BY <2>2 DEF Adding, InSnapshot
<1>9. CASE Prune
  <2>1. op' = GiveWay(op) /\ op.doc \in Docs
    BY <1>2, <1>9 DEF Prune, Ops
  <2>2. op' = Idle \/ op' = Installing(op.doc) \/ op'.at = "promote"
    BY <1>2, <2>1, GiveWayOK
  <2>3. op'.at # "send"
    BY <2>1, <2>2, InstallingOK, IdleOK
  <2> QED BY <1>1, <2>3
<1>10. CASE SendFails
  <2>1. op.at = "send" /\ Fails
    BY <1>10 DEF SendFails
  <2>2. op.is \in {"flush", "promote", "checkpoint", "install"} /\ (op.is = "flush" => op.then \in {"", "alarm"})
    BY <2>1, IdleOK DEF DInv, Phase
  <2>3. \/ op' = Idle \/ op' = [op EXCEPT !.at = "prune"]
        \/ (op.is = "flush" /\ op' = GiveWay(op))
    BY <2>1, <2>2 DEF Fails
  <2>4. op'.at \in {"", "prune", "promote"}
    BY <1>2, <2>2, <2>3, GiveWayOK, IdleOK DEF Ops
  <2> QED BY <1>1, <2>4
<1>11. CASE Crash \/ LoseSnapshot
  BY <1>11 DEF Crash, LoseSnapshot, Incident
<1>12. CASE \/ \E j \in jobs : RunJob(j, TRUE) \/ RunJob(j, FALSE) \/ JobFails(j)
            \/ \E seq \in DOMAIN blob \cup versions : DeleteVersion(seq)
            \/ UNCHANGED vars
  <2>1. UNCHANGED <<live, op, meta>>
    BY <1>12 DEF RunJob, JobFails, DeleteVersion, actorVars, vars
  <2>2. DOMAIN blob \cup spent.deleted \subseteq DOMAIN blob' \cup spent'.deleted
    <3>1. CASE \E seq \in DOMAIN blob \cup versions : DeleteVersion(seq)
      <4>1. PICK seq : /\ blob' = [s \in DOMAIN blob \ {seq} |-> blob[s]]
                       /\ spent' = [spent EXCEPT !.deleted = spent.deleted \cup {seq}]
        BY <3>1 DEF DeleteVersion
      <4>2. spent'.deleted = spent.deleted \cup {seq}
        BY <4>1 DEF DInv, Typed, SpentTypes
      <4> QED BY <4>1, <4>2
    <3>2. CASE UNCHANGED <<blob, spent>>
      BY <3>2
    <3> QED BY <1>12, <3>1, <3>2 DEF RunJob, JobFails, Calm, vars
  <2> QED BY <2>1, <2>2 DEF Adding, InSnapshot
<1> QED BY <1>3, <1>4, <1>5, <1>6, <1>7, <1>8, <1>9, <1>10, <1>11, <1>12 DEF Next

(* Without installs to begin there are none. *)
LEMMA NoInstallStep ==
  ASSUME "send" \in Incidents => MaxInstalls = 0, DInv, NoInstall, [Next]_vars
  PROVE  NoInstall'
<1> DEFINE None(o) == o.is \notin {"checkpoint", "install"}
<1> SUFFICES ASSUME MaxInstalls = 0, None(op) PROVE None(op')
  BY DEF NoInstall
<1>1. op \in Ops /\ spent.installs \in Nat
  BY DEF DInv, Typed, ActorTypes, SpentTypes
<1>2. op' = Idle \/ op' = op => None(op')
  BY IdleOK
<1>3. \A m, next : Starting(op', "flush", m, next) => None(op')
  BY DEF Starting
<1>4. op.is \in {"flush", "promote"} /\ op' = GiveWay(op) => None(op')
  <2>1. op.is \in {"flush", "promote"} => op.then # "install"
    BY IdleOK DEF DInv, Phase
  <2> QED BY <1>1, <2>1, GiveWayOK, IdleOK
<1>5. ASSUME NEW e \in Edits, Type(e) \/ Write(e) PROVE None(op')
  BY <1>2, <1>3, <1>5, WriteOpens DEF Type
<1>6. CASE FireAlarm
  <2>1. live' = Opened /\ Opened \in Live /\ Flush(Opened, "timer", "alarm")
    BY <1>6, OpenedOK DEF FireAlarm, Current
  <2>2. Starting(op', "flush", Opened, "alarm") \/ op'.is = "alarm"
    BY <2>1, FlushOK DEF SameText
  <2> QED BY <1>3, <2>2
<1>7. CASE Leave /\ live.dirty
  <2>1. live \in Live /\ Flush(live, "eviction", "")
    BY <1>7 DEF Leave, DInv, Typed, ActorTypes
  <2>2. op' = Idle \/ Starting(op', "flush", live, "")
    BY <2>1, FlushOK DEF SameText
  <2> QED BY <1>2, <1>3, <2>2
<1>8. CASE AlarmPromotes \/ (Leave /\ ~live.dirty)
  <2>1. \E m, reason, next, before : Promote(m, reason, next, before)
    BY <1>8 DEF AlarmPromotes, Leave
  <2>2. op' = Idle \/ op'.is = "promote"
    BY <2>1, IdleOK DEF Promote, Idle
  <2> QED BY <1>2, <2>2
<1>9. CASE (\E target \in DOMAIN blob : Restore(target)) \/ Recover
  <2>1. spent.installs < MaxInstalls
    BY <1>9 DEF Restore, Recover
  <2> QED BY <1>1, <2>1
<1>10. CASE PutSnapshot \/ Send \/ CommitSnapshot \/ PutHead \/ CommitHead \/ DropLog
  <2>1. CASE PutSnapshot
    <3>1. PICK stop, flag, out : op' = [op EXCEPT !.at = stop, !.version = flag, !.evicted = out]
      BY <2>1 DEF PutSnapshot
    <3> QED BY <1>1, <3>1 DEF Ops
  <2>2. CASE Send \/ CommitSnapshot \/ PutHead \/ DropLog
    <3>1. PICK stop : op' = [op EXCEPT !.at = stop]
      BY <2>2 DEF Send, CommitSnapshot, PutHead, DropLog
    <3> QED BY <1>1, <3>1 DEF Ops
  <2>3. CASE CommitHead
    <3>1. PICK out : op' = [op EXCEPT !.at = "drop", !.evicted = out]
      BY <2>3 DEF CommitHead
    <3> QED BY <1>1, <3>1 DEF Ops
  <2> QED BY <1>10, <2>1, <2>2, <2>3
<1>11. CASE Prune
  <2>1. op' = GiveWay(op) /\ op.is \in {"flush", "promote"}
    BY <1>11, IdleOK DEF Prune, DInv, Phase
  <2> QED BY <1>4, <2>1
<1>12. CASE PutFails \/ SendFails
  <2>1. op' = Idle \/ (op.is = "flush" /\ op' = GiveWay(op))
    <3>1. Fails /\ op.at \in {"put", "send"}
      BY <1>12 DEF PutFails, SendFails
    <3>2. op.is \in {"flush", "promote"}
      BY <3>1, IdleOK DEF DInv, Phase
    <3> QED BY <3>1, <3>2 DEF Fails
  <2> QED BY <1>2, <1>4, <2>1
<1>13. CASE \/ Evict \/ Crash \/ LoseSnapshot \/ UNCHANGED vars
            \/ \E j \in jobs : RunJob(j, TRUE) \/ RunJob(j, FALSE) \/ JobFails(j)
            \/ \E seq \in DOMAIN blob \cup versions : DeleteVersion(seq)
  <2>1. op' = op \/ op' = Idle
    BY <1>13 DEF Evict, Crash, LoseSnapshot, RunJob, JobFails, DeleteVersion, actorVars, vars
  <2> QED BY <1>2, <2>1
<1> QED BY <1>5, <1>6, <1>7, <1>8, <1>9, <1>10, <1>11, <1>12, <1>13 DEF Next

(* Every step keeps what the node is told in line with the ring. *)
LEMMA ListStep ==
  ASSUME Incidents \subseteq {"put", "send"}, DInv, VInv, NoInstall, Adding, LInv, [Next]_vars
  PROVE  LInv'
<1>1. CASE \/ \E e \in Edits : Type(e) \/ Write(e)
           \/ FireAlarm \/ (Leave /\ live.dirty)
           \/ \E target \in DOMAIN blob : Restore(target)
           \/ Recover \/ PutFails \/ Evict
  <2>1. /\ Settled(op) /\ Settled(op') /\ meta' = meta
        /\ UNCHANGED <<blob, jobs, nodeVars>> /\ spent'.deleted = spent.deleted
    BY <1>1, EntriesSettled
  <2> QED BY <2>1, SettledList DEF Readable
<1>2. CASE AlarmPromotes \/ (Leave /\ ~live.dirty)
  BY <1>2, PromotesList
<1>3. CASE PutSnapshot \/ Send \/ CommitSnapshot \/ Prune
  BY <1>3, PutSnapshotList, SendList, CommitSnapshotList, PruneList
<1>4. CASE PutHead \/ CommitHead \/ DropLog
  BY <1>4, InstallList
<1>5. CASE \E j \in jobs : RunJob(j, TRUE) \/ RunJob(j, FALSE) \/ JobFails(j)
  BY <1>5, JobList
<1>6. CASE \E seq \in DOMAIN blob \cup versions : DeleteVersion(seq)
  BY <1>6, DeleteList
<1>7. CASE SendFails
  <2>1. "send" \in Incidents /\ jobs' = jobs
    BY <1>7 DEF SendFails, Incident
  <2> QED BY <1>7, <2>1, SendFailsList DEF NoInstall
<1>8. CASE Crash \/ LoseSnapshot
  BY <1>8 DEF Crash, LoseSnapshot, Incident
<1>9. CASE UNCHANGED vars
  <2>1. UNCHANGED <<live, op, meta, blob, jobs, nodeVars, spent>>
    BY <1>9 DEF vars, actorVars
  <2>2. Ring' = Ring /\ Untold' = Untold
    BY <2>1 DEF Ring, Untold, Coming, InSnapshot
  <2> QED BY <2>1, <2>2, LeavesList, ListTypes DEF Readable
<1> QED BY <1>1, <1>2, <1>3, <1>4, <1>5, <1>6, <1>7, <1>8, <1>9 DEF Next

(* With no job outstanding, what LInv says is what the list shows. *)
LEMMA ListShown ==
  ASSUME DInv, LInv, Quiet
  PROVE  ListedHasBytes /\ RingIsListed
<1>1. jobs = {} /\ Ring = meta.ring /\ Coming = {}
  BY IdleOK, SettledOK DEF Quiet, Settled
<1>2. Untold = {} /\ Known = versions
  BY <1>1 DEF Untold, Known
<1>3. /\ Ring \in Seq(Nat) /\ versions \subseteq Nat /\ floor \in Nat /\ indexed.seq \in Nat
  BY ListTypes
<1>4. RingIsListed
  <2>1. CASE Ring = <<>>
    <3>1. floor = 0 /\ versions = {} /\ DOMAIN meta.ring = {}
      BY <1>1, <1>2, <2>1 DEF LInv, RowsAreRing
    <3> QED BY <1>1, <2>1, <3>1 DEF RingIsListed
  <2>2. CASE Ring # <<>>
    <3>1. floor = Head(Ring)
      BY <1>2, <2>2 DEF LInv, FloorIsHead
    <3>2. \A v \in versions \ spent.deleted : v >= floor => InRing(v, Ring)
      <4> TAKE v \in versions \ spent.deleted
      <4>1. InRing(v, Ring) \/ v < Head(Ring)
        BY <1>2 DEF LInv, RowsAreRing, Outgrown
      <4> QED BY <1>3, <3>1, <4>1
    <3>3. \A i \in DOMAIN Ring : Ring[i] \in versions \cup spent.deleted /\ Ring[i] >= floor
      <4> TAKE i \in DOMAIN Ring
      <4>1. InRing(Ring[i], Ring)
        BY DEF InRing
      <4>2. Head(Ring) <= Ring[i] /\ Ring[i] \in Nat
        BY <1>3, <4>1, WithinRing DEF LInv
      <4>3. Ring[i] \in versions \cup spent.deleted
        BY <1>2 DEF LInv, RowsAreRing
      <4> QED BY <1>3, <3>1, <4>2, <4>3
    <3>4. {v \in versions : v >= floor} \ spent.deleted
            = {Ring[i] : i \in DOMAIN Ring} \ spent.deleted
      BY <3>2, <3>3, Zenon DEF InRing
    <3> QED BY <1>1, <2>2, <3>1, <3>4 DEF RingIsListed
  <2> QED BY <2>1, <2>2
<1>5. ListedHasBytes
  <2> SUFFICES ASSUME NEW v \in versions \ spent.deleted, Listed(v)
               PROVE  Readable(v)
    BY DEF ListedHasBytes
  <2>1. Ring # <<>> /\ (InRing(v, Ring) \/ Outgrown(v, Ring)) /\ v \in Nat
    BY <1>2, <1>3 DEF LInv, RowsAreRing
  <2>2. Readable(v) \/ ~Retained(v, meta.seq, Ring)
    BY <1>2 DEF LInv, BytesAreKept
  <2>3. CASE InRing(v, Ring)
    BY <2>2, <2>3 DEF Retained, InRing
  <2>4. CASE Outgrown(v, Ring)
    <3>1. v < Head(Ring) /\ Len(Ring) >= VERSION_KEEP /\ floor = Head(Ring)
          /\ indexed.seq >= Newest(Ring)
      BY <1>2, <2>1, <2>4 DEF Outgrown, LInv, FloorIsHead, RowReaches
    <3>2. /\ 1 \in DOMAIN Ring /\ Head(Ring) = Ring[1] /\ Len(Ring) \in Nat
          /\ Head(Ring) \in Nat /\ Newest(Ring) \in Nat
      BY <1>3, <2>1, RingEnds
    <3>3. Head(Ring) + (Len(Ring) - 1) <= Newest(Ring)
      <4>1. InRing(Head(Ring), Ring)
        BY <3>2 DEF InRing
      <4> QED BY <1>3, <4>1, WithinRing DEF LInv
    <3>4. ~(v > indexed.seq - SNAPSHOT_KEEP) /\ ~(floor > 0 /\ v >= floor)
      BY <1>3, <2>1, <3>1, <3>2, <3>3, RetentionAssumption
    <3>5. v % SNAPSHOT_MILESTONE = 0
      BY <3>4 DEF Listed
    <3> QED BY <2>2, <3>5 DEF Retained
  <2> QED BY <2>1, <2>3, <2>4
<1> QED BY <1>4, <1>5

(* Once its jobs have run, in whatever order and however often, the node    *)
(* lists the versions of the actor's ring and no version without its bytes, *)
(* whatever edits, restores, evictions, deletions and failed puts there     *)
(* were, and failed sends where no head is installed.  A job that is lost,  *)
(* or sent before a crash, is another matter: the floor it carries is told   *)
(* again only with the next version.                                       *)
THEOREM ListFollowsRing ==
  ASSUME Incidents \subseteq {"put", "send"}, "send" \in Incidents => MaxInstalls = 0
  PROVE  Spec => []ListMatchesRing
<1>1. Init => LInv /\ Adding /\ NoInstall
  <2> SUFFICES ASSUME Init PROVE LInv /\ Adding /\ NoInstall
    OBVIOUS
  <2>1. op.is = "idle"
    BY IdleOK DEF Init
  <2> QED BY <2>1, ListInit DEF Adding, NoInstall, InSnapshot
<1>2. DInv /\ VInv /\ LInv /\ Adding /\ NoInstall /\ [Next]_vars => (LInv /\ Adding /\ NoInstall)'
  BY ListStep, AddingStep, NoInstallStep
<1>3. DInv /\ LInv => ListMatchesRing
  BY ListShown DEF ListMatchesRing, ListedHasBytes, RingIsListed
<1> QED BY <1>1, <1>2, <1>3, DocInvariant, VersionsStand, PTL DEF Spec

-----------------------------------------------------------------------------
(* The head stays readable *)

(* How far the node may have been told: a flush sends before it commits. *)
Ahead == IF InSnapshot /\ op.at = "commit" THEN meta.seq + 1 ELSE meta.seq

(* The node never runs ahead of the stored head but for a snapshot about to *)
(* be committed, so nobody may delete the head, and it is there.           *)
HInv ==
    /\ \A j \in jobs : j.seq <= Ahead
    /\ indexed.seq <= Ahead
    /\ meta.seq > 0 /\ Ahead = meta.seq => Readable(meta.seq)

(* The head and the jobs are left alone. *)
LEMMA HeadLeft ==
  ASSUME DInv, HInv, ~(InSnapshot /\ op.at = "commit"), jobs' = jobs, indexed' = indexed,
         meta'.seq = meta.seq, Readable(meta.seq) => meta.seq \in DOMAIN blob'
  PROVE  HInv'
<1>1. /\ Ahead = meta.seq /\ Ahead' \in {meta.seq, meta.seq + 1} /\ meta.seq \in Nat
      /\ indexed.seq \in Nat /\ \A j \in jobs : j.seq \in Nat
  BY ListTypes DEF Ahead, DInv, Typed, JobTypes
<1>2. (\A j \in jobs : j.seq <= Ahead') /\ indexed.seq <= Ahead'
  BY <1>1 DEF HInv
<1>3. meta.seq > 0 => meta.seq \in DOMAIN blob'
  BY <1>1 DEF HInv
<1> QED BY <1>1, <1>2, <1>3 DEF HInv, Readable

(* A promotion stores a ring and no head. *)
LEMMA PromoteHead ==
  ASSUME NEW m, Current(m), NEW reason, NEW next, NEW before, Promote(m, reason, next, before)
  PROVE  meta'.seq = meta.seq
<1>1. m \in Live /\ m.seq \in Nat /\ m.doc \in Docs /\ m.seq = meta.seq
  BY DEF Current, Held, Live
<1>2. \/ live' = WithVersion(m, m.seq, VersionHash(m.doc)) /\ meta' = Meta(live')
      \/ meta' = meta
  BY DEF Promote
<1>3. CASE live' = WithVersion(m, m.seq, VersionHash(m.doc)) /\ meta' = Meta(live')
  <2>1. live'.seq = m.seq
    BY <1>1, <1>3, HashOK, WithVersionOK DEF Same
  <2> QED BY <1>1, <1>3, <2>1 DEF Meta
<1> QED BY <1>2, <1>3

(* Nothing failed is more than rolled back. *)
LEMMA FailsHead ==
  ASSUME DInv, HInv, SendFails, jobs' = jobs
  PROVE  HInv'
<1>1. op.at = "send" /\ Fails /\ blob' = blob /\ indexed' = indexed
  BY DEF SendFails, nodeVars
<1>2. op.is \in {"flush", "promote", "checkpoint", "install"}
  BY <1>1, IdleOK DEF DInv, Phase
<1>3. meta'.seq = meta.seq
  <2>1. CASE op.is = "promote"
    <3>1. live \in Live /\ live.seq = meta.seq /\ op.prev \in Seq(Nat) \X Hashes
      BY <2>1, InMemory, IdleOK DEF DInv, Phase, Held, Ops, Prevs
    <3>2. live' = RolledBack(live, op.prev) /\ meta' = Meta(live')
      BY <1>1, <2>1 DEF Fails
    <3>3. live'.seq = live.seq
      BY <3>1, <3>2, RolledBackOK DEF Same
    <3> QED BY <3>1, <3>2, <3>3 DEF Meta
  <2>2. CASE op.is # "promote"
    BY <1>1, <1>2, <2>2 DEF Fails
  <2> QED BY <2>1, <2>2
<1> QED BY <1>1, <1>3, HeadLeft DEF Readable

(* The actor's own steps. *)
LEMMA ActorHead ==
  ASSUME DInv, VInv, HInv,
         \/ PutSnapshot \/ Send \/ CommitSnapshot \/ Prune \/ PutHead \/ CommitHead \/ DropLog
  PROVE  HInv'
<1>0. meta.seq \in Nat /\ live.seq \in Nat /\ indexed.seq \in Nat /\ op \in Ops
      /\ \A j \in jobs : j.seq \in Nat
  BY ListTypes DEF DInv, Typed, ActorTypes, JobTypes
<1>1. CASE PutSnapshot \/ PutHead \/ DropLog
  <2>1. /\ op.at \in {"put", "drop"} /\ UNCHANGED <<meta, jobs, nodeVars>>
        /\ \A v \in DOMAIN blob : v \in DOMAIN blob'
    BY <1>1 DEF PutSnapshot, PutHead, DropLog, WithSnapshot
  <2> QED BY <2>1, HeadLeft DEF nodeVars, Readable
<1>2. CASE Send
  <2> DEFINE stop == IF InSnapshot THEN "commit" ELSE "prune"
             j0 == Job(IF InSnapshot THEN live.seq + 1 ELSE live.seq, live, op.version)
  <2>1. /\ op.at = "send" /\ jobs' = jobs \cup {j0} /\ op' = [op EXCEPT !.at = stop]
        /\ UNCHANGED <<live, meta, blob, nodeVars>>
    BY <1>2 DEF Send, Sent
  <2>2. live.seq = meta.seq
    BY <2>1, IdleOK, InMemory DEF DInv, Phase
  <2>3. j0.seq = IF InSnapshot THEN meta.seq + 1 ELSE meta.seq
    BY <2>2 DEF Job
  <2>4. op'.at = stop /\ op'.is = op.is
    <3> HIDE DEF stop
    <3> QED BY <1>0, <2>1 DEF Ops
  <2> HIDE DEF j0
  <2>5. Ahead' = (IF InSnapshot THEN meta.seq + 1 ELSE meta.seq) /\ Ahead = meta.seq
    BY <2>1, <2>4 DEF Ahead, InSnapshot
  <2>6. \A j \in jobs' : j.seq <= Ahead'
    BY <1>0, <2>1, <2>3, <2>5 DEF HInv
  <2>7. indexed'.seq <= Ahead'
    BY <1>0, <2>1, <2>5 DEF HInv, nodeVars
  <2>8. meta.seq > 0 => Readable(meta.seq)
    BY <2>5 DEF HInv
  <2> QED BY <2>1, <2>6, <2>7, <2>8 DEF HInv, Readable
<1>3. CASE CommitSnapshot
  <2>1. /\ op.at = "commit" /\ meta' = Meta(live') /\ op' = [op EXCEPT !.at = "prune"]
        /\ UNCHANGED <<blob, jobs, nodeVars>>
    BY <1>3 DEF CommitSnapshot
  <2>2. InSnapshot /\ op.is # "idle"
    BY <2>1, IdleOK DEF DInv, Phase, InSnapshot
  <2>3. live \in Live /\ live.seq = meta.seq
    BY <2>2, InMemory
  <2>4. live'.seq = live.seq + 1
    BY <1>3, <2>3 DEF CommitSnapshot, Live
  <2>5. meta'.seq = meta.seq + 1 /\ Readable(meta.seq + 1)
    BY <2>1, <2>2, <2>3, <2>4 DEF Meta, DInv, InFlight
  <2>6. Ahead = meta.seq + 1 /\ Ahead' = meta'.seq
    <3>1. op'.at = "prune"
      BY <1>0, <2>1 DEF Ops
    <3> QED BY <2>1, <2>2, <3>1 DEF Ahead
  <2> QED BY <2>1, <2>5, <2>6 DEF HInv, nodeVars, Readable
<1>4. CASE Prune
  <2> DEFINE gone == Pruned(live.seq, live.ring, op.evicted)
  <2>1. /\ op.at = "prune" /\ blob' = [seq \in DOMAIN blob \ gone |-> blob[seq]]
        /\ UNCHANGED <<meta, jobs, nodeVars>>
    BY <1>4 DEF Prune
  <2>2. live.seq = meta.seq
    BY <2>1, IdleOK, InMemory DEF DInv, Phase
  <2>3. meta.seq \notin gone
    BY <1>0, <2>2, PrunedOK
  <2> HIDE DEF gone
  <2> QED BY <2>1, <2>3, HeadLeft DEF nodeVars, Readable
<1>5. CASE CommitHead
  <2> DEFINE w == WithVersion(live, live.seq + 1, VersionHash(op.doc))
  <2>1. /\ op.at = "meta"
        /\ live' = [w EXCEPT !.seq = w.seq + 1, !.epoch = w.epoch + 1, !.hydrationIncomplete = FALSE]
        /\ meta' = Meta(live') /\ op' = [op EXCEPT !.at = "drop", !.evicted = EvictedBy(live.ring)]
        /\ UNCHANGED <<blob, jobs, nodeVars>>
    BY <1>5 DEF CommitHead
  <2>2. op.is = "install"
    BY <2>1, IdleOK DEF DInv, Phase
  <2>3. live \in Live /\ live.seq = meta.seq
    BY <2>2, InMemory
  <2>4. live.seq + 1 \in Nat /\ VersionHash(op.doc) \in Hashes
    BY <1>0, HashOK DEF Ops
  <2>5. w \in Live /\ Same(live, w)
    BY <2>3, <2>4, WithVersionOK
  <2> HIDE DEF w
  <2>6. meta'.seq = meta.seq + 1
    BY <2>1, <2>3, <2>5 DEF Meta, Live, Same
  <2>7. Readable(meta.seq + 1)
    BY <2>1, <2>2, <2>3 DEF VInv, Replacing
  <2>8. Ahead = meta.seq /\ Ahead' = meta.seq + 1
    <3>1. op'.at = "drop"
      BY <1>0, <2>1 DEF Ops
    <3> QED BY <2>1, <2>6, <3>1 DEF Ahead
  <2>9. \A j \in jobs : j.seq <= meta.seq + 1
    BY <1>0, <2>8 DEF HInv
  <2>10. indexed.seq <= meta.seq + 1
    BY <1>0, <2>8 DEF HInv
  <2> QED BY <2>1, <2>6, <2>7, <2>8, <2>9, <2>10 DEF HInv, nodeVars, Readable
<1> QED BY <1>1, <1>2, <1>3, <1>4, <1>5

(* The node's steps: a row goes no further than its job, and what is deleted *)
(* is below the row.                                                       *)
LEMMA NodeHead ==
  ASSUME DInv, HInv,
         \/ \E j \in jobs : RunJob(j, TRUE) \/ RunJob(j, FALSE) \/ JobFails(j)
         \/ \E seq \in DOMAIN blob \cup versions : DeleteVersion(seq)
  PROVE  HInv'
<1>0. meta.seq \in Nat /\ indexed.seq \in Nat /\ \A j \in jobs : j.seq \in Nat
  BY ListTypes DEF DInv, Typed, JobTypes
<1>1. ASSUME NEW j \in jobs, RunJob(j, TRUE) \/ RunJob(j, FALSE) \/ JobFails(j) PROVE HInv'
  <2>1. /\ Recorded(j) /\ jobs' \subseteq jobs
        /\ indexed' = IndexedAfter(j) \/ indexed' = indexed
        /\ UNCHANGED <<live, op, meta, blob>>
    BY <1>1 DEF RunJob, JobFails, actorVars
  <2>2. Ahead' = Ahead /\ Ahead \in Nat
    BY <1>0, <2>1 DEF Ahead, InSnapshot
  <2>3. indexed'.seq \in Nat /\ indexed'.seq <= Ahead
    BY <1>0, <2>1, <2>2, RowRises DEF HInv
  <2> QED BY <2>1, <2>2, <2>3 DEF HInv, Readable
<1>2. ASSUME NEW seq \in DOMAIN blob \cup versions, DeleteVersion(seq) PROVE HInv'
  <2>1. /\ seq < indexed.seq
        /\ blob' = [s \in DOMAIN blob \ {seq} |-> blob[s]]
        /\ UNCHANGED <<live, op, meta, jobs, indexed>>
    BY <1>2 DEF DeleteVersion, actorVars
  <2>2. Ahead' = Ahead
    BY <2>1 DEF Ahead, InSnapshot
  <2>3. seq \in Nat
    BY ListTypes
  <2>4. Ahead = meta.seq => seq # meta.seq
    BY <1>0, <2>1, <2>3 DEF HInv
  <2>5. meta.seq > 0 /\ Ahead = meta.seq => meta.seq \in DOMAIN blob'
    BY <2>1, <2>4 DEF HInv, Readable
  <2> QED BY <2>1, <2>2, <2>5 DEF HInv, Readable
<1> QED BY <1>1, <1>2

(* Every step keeps the head. *)
LEMMA HeadStep ==
  ASSUME Incidents \subseteq {"put", "send"}, DInv, VInv, HInv, [Next]_vars
  PROVE  HInv'
<1>1. CASE \/ \E e \in Edits : Type(e) \/ Write(e)
           \/ FireAlarm \/ (Leave /\ live.dirty)
           \/ \E target \in DOMAIN blob : Restore(target)
           \/ Recover \/ PutFails \/ Evict
  <2>1. Settled(op) /\ meta' = meta /\ UNCHANGED <<blob, jobs, nodeVars>>
    BY <1>1, EntriesSettled
  <2> QED BY <2>1, HeadLeft DEF Settled, nodeVars, Readable
<1>2. CASE AlarmPromotes \/ (Leave /\ ~live.dirty)
  <2>1. UNCHANGED <<blob, jobs, nodeVars>>
    BY <1>2 DEF AlarmPromotes, Leave
  <2>2. meta'.seq = meta.seq /\ ~InSnapshot
    <3>1. CASE AlarmPromotes
      <4>1. op.is = "alarm" /\ Promote(live, "timer", "arm", alarm)
        BY <3>1 DEF AlarmPromotes
      <4>2. Current(live)
        BY <4>1, InMemory, IdleOK DEF DInv, Memory, Current, Held, Replaced, InSnapshot
      <4> QED BY <4>1, <4>2, PromoteHead DEF InSnapshot
    <3>2. CASE Leave /\ ~live.dirty
      <4>1. op = Idle /\ Promote(Opened, "eviction", "", OpenedAlarm(alarm))
        BY <3>2 DEF Leave
      <4> QED BY <4>1, OpenedOK, PromoteHead, IdleOK DEF InSnapshot
    <3> QED BY <1>2, <3>1, <3>2
  <2> QED BY <2>1, <2>2, HeadLeft DEF nodeVars, Readable
<1>3. CASE \/ PutSnapshot \/ Send \/ CommitSnapshot \/ Prune
           \/ PutHead \/ CommitHead \/ DropLog
  BY <1>3, ActorHead
<1>4. CASE \/ \E j \in jobs : RunJob(j, TRUE) \/ RunJob(j, FALSE) \/ JobFails(j)
           \/ \E seq \in DOMAIN blob \cup versions : DeleteVersion(seq)
  BY <1>4, NodeHead
<1>5. CASE SendFails
  <2>1. jobs' = jobs
    BY <1>5 DEF SendFails, Incident
  <2> QED BY <1>5, <2>1, FailsHead
<1>6. CASE Crash \/ LoseSnapshot
  BY <1>6 DEF Crash, LoseSnapshot, Incident
<1>7. CASE UNCHANGED vars
  <2>1. UNCHANGED <<op, meta, blob, jobs, indexed>>
    BY <1>7 DEF vars, actorVars, nodeVars
  <2> QED BY <2>1 DEF HInv, Ahead, InSnapshot, Readable
<1> QED BY <1>1, <1>2, <1>3, <1>4, <1>5, <1>6, <1>7 DEF Next

(* The snapshot a restart would load is there whatever versions people      *)
(* delete, restores replace and puts or sends fail: pruning spares it, and   *)
(* the row that deletions stay below is never past it.  A job whose answer  *)
(* is lost, or a crash before the commit, does put the row past it.        *)
THEOREM HeadStaysReadable ==
  ASSUME Incidents \subseteq {"put", "send"}
  PROVE  Spec => []HeadIsReadable
<1>1. Init => HInv
  <2> SUFFICES ASSUME Init PROVE HInv
    OBVIOUS
  <2>1. meta.seq = 0 /\ op = Idle /\ jobs = {} /\ indexed.seq = 0
    BY DEF Init, Meta, Unloaded
  <2>2. Ahead = 0
    BY <2>1, IdleOK DEF Ahead, InSnapshot
  <2>3. ~(meta.seq > 0) /\ indexed.seq <= Ahead
    BY <2>1, <2>2
  <2> QED BY <2>1, <2>3 DEF HInv
<1>2. DInv /\ VInv /\ HInv /\ [Next]_vars => HInv'
  BY HeadStep
<1>3. HInv => HeadIsReadable
  BY IdleOK DEF HInv, HeadIsReadable, Ahead, InSnapshot
<1> QED BY <1>1, <1>2, <1>3, DocInvariant, VersionsStand, PTL DEF Spec
=============================================================================
