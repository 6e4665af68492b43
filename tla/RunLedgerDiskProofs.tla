------------------------ MODULE RunLedgerDiskProofs ------------------------
(* Proofs about the writes of the run ledger, for any runs, hunks, calls and *)
(* faults: whatever put fails and wherever the node dies, rows have their    *)
(* objects, answers are stored, texts precede their records, notes stay      *)
(* listed and the index follows the rows.                                    *)
EXTENDS RunLedgerDisk, TLAPS, SequenceTheorems, FiniteSetTheorems, WellFoundedInduction

\* The writes of a handler, as a set.
ToSave == [rec : Record, body : Body]
Entry ==
  [do : {"active"}, to : Runs \cup {None}] \cup [do : {"list"}, to : SUBSET Runs]
  \cup [do : {"text"}, to : SUBSET Keys]
  \cup [do : {"save"}, to : UNION {[R -> ToSave] : R \in (SUBSET Runs) \ {{}}}]

\* Every variable has its shape.
Bounds ==
  /\ left.calls \in 0 .. MaxCalls /\ left.faults \in 0 .. MaxFaults /\ left.opened \in 0 .. MaxRuns
  /\ left.unsent \subseteq Runs /\ left.lost \subseteq Runs /\ left.struck \subseteq FaultKinds
  /\ left = [calls |-> left.calls, faults |-> left.faults, opened |-> left.opened,
             unsent |-> left.unsent, lost |-> left.lost, struck |-> left.struck]
Types ==
  /\ blob \in [Runs -> Body \cup {None}] /\ cached \in [Runs -> Body \cup {None}]
  /\ meta \in [Runs -> Record \cup {None}] /\ index \in [Runs -> Record \cup {None}]
  /\ active \in Runs \cup {None} /\ listed \subseteq Runs /\ text \subseteq Keys
  /\ jobs \subseteq Runs \X Record
  /\ op \in [todo : Seq(Entry), half : BOOLEAN, decides : Runs \cup {None}]
  /\ answered \in Runs \cup {None} /\ Bounds

\* The i-th of the writes q is of the kind `what`; it saves run r, and this record and body of it.
Is(q, i, what) == i \in DOMAIN q /\ q[i].do = what
Saving(q, i, r) == Is(q, i, "save") /\ r \in DOMAIN q[i].to
BodyAt(q, i, r) == q[i].to[r].body
RecAt(q, i, r) == q[i].to[r].rec

\* A handler saves a run once, and only runs that were opened; nothing is known of the others.
Once(q) == \A i, j \in DOMAIN q, r \in Runs : Saving(q, i, r) /\ Saving(q, j, r) => i = j
Orderly ==
  /\ Once(op.todo)
  /\ \A i \in DOMAIN op.todo, r \in Runs : Saving(op.todo, i, r) => r <= left.opened
  /\ \A r \in Runs : r > left.opened => blob[r] = None /\ meta[r] = None /\ cached[r] = None

\* Between the two puts of a save the object is the one the row will describe; what was lost is gone.
Halves ==
  /\ Idle => op = NoOp
  /\ op.half => /\ ~Idle /\ Due.do = "save" /\ cached[First] = Due.to[First].body
                /\ blob[First] = Due.to[First].body \/ First \in left.lost
  /\ \A r \in left.lost : blob[r] = None

\* No body gets shorter: neither in the mirror, nor in a save to come.
Longer(q) ==
  \A i \in DOMAIN q, r \in Runs : Saving(q, i, r) =>
    /\ RecAt(q, i, r).hunks = StatusesOf(BodyAt(q, i, r))
    /\ meta[r] # None => Len(BodyAt(q, i, r)) >= Len(meta[r].hunks)
    /\ blob[r] # None => Len(BodyAt(q, i, r)) >= Len(blob[r])
Whole ==
  /\ RowsHaveBodies
  /\ \A r \in Runs : cached[r] # None /\ blob[r] # None => Len(cached[r]) >= Len(blob[r])
  /\ Longer(op.todo)

\* The row and the object of a run say the same, and it is closed if nothing waits in it.
Agreed(r) ==
  blob[r] # None =>
    /\ meta[r].hunks = StatusesOf(blob[r])
    /\ Pending(blob[r]) = {} => ~meta[r].open

\* The run that is decided is saved so that it is settled.
Settling(q, d) ==
  /\ \A i \in DOMAIN q : Saving(q, i, d) => (RecAt(q, i, d).open => Pending(BodyAt(q, i, d)) # {})
  /\ (\A i \in DOMAIN q : ~Saving(q, i, d)) => Agreed(d)
Answers ==
  /\ ~Idle => answered = None
  /\ answered # None => Agreed(answered)
  /\ op.decides # None => Settling(op.todo, op.decides)

\* A record is older than another, or as old and says the same.
Same(a, b) == a.open = b.open /\ a.reverted = b.reverted /\ a.behind = b.behind
Older(a, b) == a.updated_at < b.updated_at \/ (a.updated_at = b.updated_at /\ Same(a, b))
Then == MaxCalls - left.calls
Shown(r) == index[r] # None /\ index[r].updated_at = meta[r].updated_at /\ Same(index[r], meta[r])
Newer(q, now) ==
  \A i \in DOMAIN q, r \in Runs : Saving(q, i, r) =>
    RecAt(q, i, r).updated_at <= now /\ (meta[r] # None => Older(meta[r], RecAt(q, i, r)))
Stamps ==
  /\ \A r \in Runs : meta[r] # None => meta[r].updated_at <= Then
  /\ Newer(op.todo, Then)
  /\ \A j \in jobs : meta[j[1]] # None /\ Older(j[2], meta[j[1]])
  /\ \A r \in Runs : index[r] # None => meta[r] # None /\ Older(index[r], meta[r])
  /\ \A r \in Runs \ left.unsent : meta[r] # None => <<r, meta[r]>> \in jobs \/ Shown(r)

\* Rows, jobs, index and plan left alone keep their order.
LEMMA StampsLeft ==
  ASSUME Stamps, UNCHANGED <<meta, index, jobs>>, op'.todo = op.todo, left'.unsent = left.unsent, Then' = Then
  PROVE  Stamps'
<1>1. \A r \in Runs : Shown(r)' = Shown(r)
  BY DEF Shown
<1>2. Newer(op.todo, Then)'
  <2>1. Newer(op.todo, Then)
    BY DEF Stamps
  <2> QED BY ONLY <2>1, UNCHANGED meta, op'.todo = op.todo, Then' = Then DEF Newer, Older, Same, Saving, Is, RecAt
<1> QED BY ONLY Stamps, UNCHANGED <<meta, index, jobs>>, left'.unsent = left.unsent, Then' = Then, <1>1, <1>2 DEF Stamps

\* With no put that threw, the mirror is the object but for the saves to come, a note in the mirror
\* or in a save to come stays on the list, and a run leaves the list without notes.
NoPutFailed == left.struck \cap {"blob", "list"} = {}
StaysListed(q, r) == \A i \in DOMAIN q : Is(q, i, "list") => r \in q[i].to
Mirrors(q, m) ==
  \A r \in Runs : m[r] # None /\ blob[r] # None => m[r] = blob[r] \/ \E i \in DOMAIN q : Saving(q, i, r)
Minds(q, m) ==
  \A r \in Runs : Stored(r) /\ m[r] # None /\ OpenNotes(m[r]) # {} =>
    StaysListed(q, r) /\ (r \in listed \/ \E i \in DOMAIN q : Is(q, i, "list"))
Lists(q) ==
  \A i \in DOMAIN q, r \in Runs : Saving(q, i, r) /\ OpenNotes(BodyAt(q, i, r)) # {} =>
    StaysListed(q, r) /\ (r \in listed \/ \E j \in DOMAIN q : j < i /\ Is(q, j, "list"))
Drops(q) ==
  \A i \in DOMAIN q, r \in Runs :
    /\ Is(q, i, "list") /\ r \notin q[i].to
    /\ Stored(r) /\ blob[r] # None /\ OpenNotes(blob[r]) # {}
    => \E j \in DOMAIN q : j < i /\ Saving(q, j, r)
Noted(q, m) == Minds(q, m) /\ Lists(q) /\ Drops(q)
Remembered == NoPutFailed => SavedNotesAreListed /\ Mirrors(op.todo, cached) /\ Noted(op.todo, cached)

\* With no body whose put threw, what lands in a save to come is in the text by then, and the mirror
\* knows of nothing more that landed.
LandedIn(x) == IF x = None THEN {} ELSE Landed(x)
InText(q) ==
  \A i \in DOMAIN q, r \in Runs \ left.lost : Saving(q, i, r) =>
    \A h \in Landed(BodyAt(q, i, r)) \ LandedIn(blob[r]) :
      /\ \A j \in DOMAIN q : j < i /\ Is(q, j, "text") => <<r, h>> \in q[j].to
      /\ <<r, h>> \in text \/ \E j \in DOMAIN q : j < i /\ Is(q, j, "text")
ToCome(q, m) ==
  \A r \in Runs \ left.lost : m[r] # None =>
    \A h \in Landed(m[r]) \ LandedIn(blob[r]) :
      \E i \in DOMAIN q : Saving(q, i, r) /\ h \in Landed(BodyAt(q, i, r))
NoneAfter(q) ==
  \A i, j \in DOMAIN q, r \in Runs \ left.lost : i < j /\ Is(q, i, "list") /\ Saving(q, j, r) =>
    Landed(BodyAt(q, j, r)) \subseteq LandedIn(blob[r])
Landing(q, m) == InText(q) /\ ToCome(q, m) /\ NoneAfter(q)
Recorded == "blob" \notin left.struck => Landing(op.todo, cached)

\* The invariant of the disk: inductive.
IInv == Types /\ Orderly /\ Halves /\ Whole /\ Answers /\ Stamps /\ Remembered /\ Recorded

-----------------------------------------------------------------------------
(* Runs, bodies and records *)

LEMMA Bounded ==
  /\ MaxRuns \in Nat /\ MaxHunks \in Nat /\ MaxCalls \in Nat /\ MaxFaults \in Nat
  /\ None \notin Runs /\ None \notin Body /\ None \notin Record /\ Faults \subseteq FaultKinds
  /\ Runs \subseteq Nat \ {0} /\ \A r \in Runs : r <= MaxRuns
<1>1. MaxRuns \in Nat /\ MaxHunks \in Nat /\ MaxCalls \in Nat /\ MaxFaults \in Nat
  BY DiskAssumption
<1> QED BY <1>1, DiskAssumption DEF Runs

\* A set of runs has a first.
LEMMA FirstRun ==
  ASSUME NEW I \in SUBSET Runs, I # {}
  PROVE  \E i \in I : \A j \in I : i <= j
<1>0. I \in SUBSET Nat
  BY Bounded
<1>1. IsWellFoundedOn(OpToRel(<, Nat), Nat)
  BY NatLessThanWellFounded
<1>2. PICK i \in I : \A j \in I : ~(<<j, i>> \in OpToRel(<, Nat))
  BY <1>0, <1>1, WFMin
<1>3. \A j \in I : ~(j < i)
  BY <1>0, <1>2 DEF OpToRel
<1>4. \A j \in I : i <= j
  BY <1>0, <1>3
<1> QED BY <1>4

\* A set of runs has a last.
LEMMA LastRun ==
  ASSUME NEW I \in SUBSET Runs, I # {}
  PROVE  \E i \in I : \A j \in I : j <= i
<1> DEFINE J == {k \in Runs : MaxRuns + 1 - k \in I}
<1>1. \A j \in I : MaxRuns + 1 - j \in J
  <2> TAKE j \in I
  <2>1. j \in 1 .. MaxRuns /\ MaxRuns \in Nat
    BY Bounded DEF Runs
  <2>2. MaxRuns + 1 - j \in 1 .. MaxRuns /\ MaxRuns + 1 - (MaxRuns + 1 - j) = j
    BY <2>1
  <2> QED BY <2>2 DEF Runs
<1>2. PICK k \in J : \A l \in J : k <= l
  BY <1>1, FirstRun
<1>3. \A j \in I : j <= MaxRuns + 1 - k
  <2> TAKE j \in I
  <2>1. j \in 1 .. MaxRuns /\ MaxRuns \in Nat /\ k \in 1 .. MaxRuns
    BY Bounded, <1>2 DEF Runs
  <2>2. k <= MaxRuns + 1 - j
    BY <1>1, <1>2
  <2> QED BY <2>1, <2>2
<1>4. MaxRuns + 1 - k \in I
  BY <1>2
<1> QED BY <1>3, <1>4

\* A hunk, the statuses of a body, and a record before its statuses are taken from a body.
HunkSet == [status : Statuses, note : Notes]
StatusLists == UNION {[1 .. n -> Statuses] : n \in 1 .. MaxHunks}
Draft == [open : BOOLEAN, reverted : BOOLEAN, change : Changes, behind : Runs \cup {None},
          updated_at : 0 .. MaxCalls, approvals : SUBSET (1 .. MaxHunks), hunks : StatusLists \cup {<<>>}]

LEMMA BodyParts ==
  ASSUME NEW b \in Body
  PROVE  /\ b \in Seq(HunkSet) /\ Len(b) \in 1 .. MaxHunks /\ DOMAIN b = 1 .. Len(b) /\ Len(b) \in Nat
         /\ \A i \in DOMAIN b : b[i] \in HunkSet /\ b[i].status \in Statuses /\ b[i].note \in Notes
         /\ b # None /\ b # <<>>
         /\ StatusesOf(b) \in StatusLists /\ Len(StatusesOf(b)) = Len(b)
         /\ DOMAIN StatusesOf(b) = DOMAIN b
<1>0. MaxHunks \in Nat
  BY Bounded
<1>1. PICK n \in 1 .. MaxHunks : b \in [1 .. n -> HunkSet]
  BY DEF Body, HunkSet
<1>2. b \in Seq(HunkSet) /\ Len(b) = n /\ DOMAIN b = 1 .. n
  BY <1>0, <1>1
<1>3. \A i \in DOMAIN b : b[i] \in HunkSet /\ b[i].status \in Statuses /\ b[i].note \in Notes
  BY <1>1 DEF HunkSet
<1>4. b # None
  BY Bounded
<1>5. b # <<>>
  BY <1>0, <1>2
<1>6. StatusesOf(b) \in [1 .. n -> Statuses]
  BY <1>2, <1>3 DEF StatusesOf
<1>7. StatusesOf(b) \in StatusLists /\ Len(StatusesOf(b)) = n /\ DOMAIN StatusesOf(b) = 1 .. n
  <2>1. StatusesOf(b) \in Seq(Statuses) /\ Len(StatusesOf(b)) = n
    BY <1>0, <1>6
  <2> QED BY <1>6, <2>1 DEF StatusLists
<1> QED BY <1>0, <1>1, <1>2, <1>3, <1>4, <1>5, <1>7

\* A body rewritten hunk by hunk is a body as long.
LEMMA Rewritten ==
  ASSUME NEW b \in Body, NEW c, c = [i \in DOMAIN b |-> c[i]], \A i \in DOMAIN b : c[i] \in HunkSet
  PROVE  c \in Body /\ Len(c) = Len(b) /\ DOMAIN c = DOMAIN b
<1>1. Len(b) \in 1 .. MaxHunks /\ DOMAIN b = 1 .. Len(b) /\ Len(b) \in Nat
  BY BodyParts
<1>2. c \in [1 .. Len(b) -> HunkSet]
  BY <1>1
<1>3. c \in Body
  BY <1>1, <1>2 DEF Body, HunkSet
<1>4. c \in Seq(HunkSet) /\ Len(c) = Len(b)
  BY <1>1, <1>2
<1> QED BY <1>1, <1>2, <1>3, <1>4

LEMMA OverIs ==
  ASSUME NEW b \in Body, NEW I, NEW h \in HunkSet
  PROVE  /\ Over(b, I, h) \in Body /\ Len(Over(b, I, h)) = Len(b) /\ DOMAIN Over(b, I, h) = DOMAIN b
         /\ \A i \in DOMAIN b : Over(b, I, h)[i] = IF i \in I THEN h ELSE b[i]
         /\ Landed(Over(b, I, h)) \subseteq
              Landed(b) \cup (IF h.status \in {"accepted", "auto_applied"} THEN I ELSE {})
         /\ OpenNotes(Over(b, I, h)) \subseteq OpenNotes(b) \cup (IF h.note = "open" THEN I ELSE {})
<1> DEFINE c == Over(b, I, h)
<1>1. \A i \in DOMAIN b : b[i] \in HunkSet
  BY BodyParts
<1>2. c = [i \in DOMAIN b |-> c[i]] /\ \A i \in DOMAIN b : c[i] = IF i \in I THEN h ELSE b[i]
  BY DEF Over
<1> HIDE DEF c
<1>3. c \in Body /\ Len(c) = Len(b) /\ DOMAIN c = DOMAIN b
  BY <1>1, <1>2, Rewritten
<1>4. Landed(c) \subseteq Landed(b) \cup (IF h.status \in {"accepted", "auto_applied"} THEN I ELSE {})
  BY <1>2, <1>3 DEF Landed, With
<1>5. OpenNotes(c) \subseteq OpenNotes(b) \cup (IF h.note = "open" THEN I ELSE {})
  BY <1>2, <1>3 DEF OpenNotes
<1> QED BY <1>2, <1>3, <1>4, <1>5 DEF c

LEMMA AddressedIs ==
  ASSUME NEW b \in Body
  PROVE  /\ Addressed(b) \in Body /\ Len(Addressed(b)) = Len(b)
         /\ Landed(Addressed(b)) = Landed(b) /\ OpenNotes(Addressed(b)) = {}
<1> DEFINE c == Addressed(b)
           g(i) == [b[i] EXCEPT !.note = "addressed"]
<1>1. \A i \in DOMAIN b : b[i] \in HunkSet
  BY BodyParts
<1>2. \A i \in DOMAIN b : g(i) \in HunkSet /\ g(i).status = b[i].status /\ g(i).note = "addressed"
  BY <1>1 DEF HunkSet, Notes
<1>3. c = [i \in DOMAIN b |-> c[i]] /\ \A i \in DOMAIN b : c[i] = IF i \in OpenNotes(b) THEN g(i) ELSE b[i]
  BY DEF Addressed
<1> HIDE DEF c, g
<1>4. c \in Body /\ Len(c) = Len(b) /\ DOMAIN c = DOMAIN b
  BY <1>1, <1>2, <1>3, Rewritten
<1>5. Landed(c) = Landed(b)
  BY <1>2, <1>3, <1>4 DEF Landed, With
<1>6. OpenNotes(c) = {}
  <2>1. \A i \in DOMAIN b : c[i].note # "open"
    BY <1>2, <1>3 DEF OpenNotes
  <2> QED BY <1>4, <2>1 DEF OpenNotes
<1> QED BY <1>4, <1>5, <1>6 DEF c

\* A proposal adds a hunk to what the run has.
LEMMA AddedIs ==
  ASSUME NEW b \in Body \cup {<<>>}, Len(b) < MaxHunks, NEW commit \in BOOLEAN
  PROVE  LET c == b \o <<Hunk(commit)>>
         IN  /\ c \in Body /\ Len(c) = Len(b) + 1 /\ Len(b) \in Nat
             /\ Landed(c) = Landed(b) \cup (IF commit THEN {Len(c)} ELSE {})
             /\ OpenNotes(c) = OpenNotes(b)
<1> DEFINE h == Hunk(commit)
           c == b \o <<h>>
<1>1. /\ h \in HunkSet /\ h.note = "none"
      /\ h.status \in {"accepted", "auto_applied"} <=> commit
  BY DEF Hunk, HunkSet, Statuses, Notes
<1> HIDE DEF h
<1>2. b \in Seq(HunkSet) /\ Len(b) \in Nat /\ DOMAIN b = 1 .. Len(b)
  <2>1. CASE b = <<>>
    BY <2>1
  <2>2. CASE b \in Body
    BY <2>2, BodyParts
  <2> QED BY <2>1, <2>2
<1>3. /\ c \in Seq(HunkSet) /\ Len(c) = Len(b) + 1 /\ DOMAIN c = 1 .. Len(b) + 1
      /\ \A i \in 1 .. Len(b) : c[i] = b[i]
      /\ c[Len(b) + 1] = h
  <2>1. <<h>> \in Seq(HunkSet) /\ Len(<<h>>) = 1 /\ <<h>>[1] = h
    BY <1>1
  <2>2. /\ c \in Seq(HunkSet) /\ Len(c) = Len(b) + 1
        /\ \A i \in 1 .. Len(b) + 1 : c[i] = IF i <= Len(b) THEN b[i] ELSE <<h>>[i - Len(b)]
    BY <1>2, <2>1, ConcatProperties
  <2>3. DOMAIN c = 1 .. Len(b) + 1
    BY <2>2
  <2> HIDE DEF c
  <2>4. c[Len(b) + 1] = h
    BY <1>2, <2>1, <2>2
  <2> QED BY <1>2, <2>2, <2>3, <2>4
<1> HIDE DEF c
<1>4. c \in Body
  <2>1. c \in [1 .. Len(b) + 1 -> HunkSet] /\ Len(b) + 1 \in 1 .. MaxHunks
    BY <1>2, <1>3, Bounded
  <2> QED BY <2>1 DEF Body, HunkSet
<1>5. Landed(c) = Landed(b) \cup (IF commit THEN {Len(c)} ELSE {})
  BY <1>1, <1>2, <1>3 DEF Landed, With
<1>6. OpenNotes(c) = OpenNotes(b)
  BY <1>1, <1>2, <1>3 DEF OpenNotes
<1> QED BY <1>2, <1>3, <1>4, <1>5, <1>6 DEF c, h

\* What is saved of a run: the record with the statuses of its body.
LEMMA SavedIs ==
  ASSUME NEW rec \in Draft, NEW b \in Body
  PROVE  /\ Saved(rec, b) \in ToSave /\ Saved(rec, b).body = b
         /\ Saved(rec, b).rec \in Record /\ Saved(rec, b).rec.hunks = StatusesOf(b)
         /\ Saved(rec, b).rec.updated_at = rec.updated_at /\ Saved(rec, b).rec.open = rec.open
         /\ Saved(rec, b).rec.reverted = rec.reverted /\ Saved(rec, b).rec.behind = rec.behind
<1> DEFINE new == [rec EXCEPT !.hunks = StatusesOf(b)]
<1>1. StatusesOf(b) \in StatusLists
  BY BodyParts
<1>2. /\ new \in Record /\ new.hunks = StatusesOf(b) /\ new.updated_at = rec.updated_at
      /\ new.open = rec.open /\ new.reverted = rec.reverted /\ new.behind = rec.behind
  BY <1>1 DEF Draft, Record, StatusLists
<1>3. Saved(rec, b) = [rec |-> new, body |-> b]
  BY DEF Saved
<1> HIDE DEF new
<1> QED BY <1>2, <1>3 DEF ToSave

LEMMA RecordIs ==
  ASSUME NEW rec \in Record
  PROVE  /\ rec \in Draft /\ rec # None
         /\ rec.updated_at \in 0 .. MaxCalls /\ rec.updated_at \in Nat /\ rec.behind \in Runs \cup {None}
         /\ rec.hunks \in StatusLists /\ Len(rec.hunks) \in Nat \ {0}
<1>1. rec \in Draft /\ rec.updated_at \in 0 .. MaxCalls /\ rec.behind \in Runs \cup {None} /\ rec.hunks \in StatusLists
  BY DEF Record, Draft, StatusLists
<1>2. PICK n \in 1 .. MaxHunks : rec.hunks \in [1 .. n -> Statuses]
  BY <1>1 DEF StatusLists
<1>3. rec.hunks \in Seq(Statuses) /\ Len(rec.hunks) = n
  BY <1>2
<1>4. rec # None
  BY Bounded
<1> QED BY <1>1, <1>2, <1>3, <1>4, Bounded

-----------------------------------------------------------------------------
(* The writes of a handler *)

LEMMA EntryIs ==
  ASSUME NEW e \in Entry
  PROVE  /\ e.do \in {"active", "list", "text", "save"} /\ IsWrite(e)
         /\ e.do = "active" => e.to \in Runs \cup {None}
         /\ e.do = "list" => e.to \subseteq Runs
         /\ e.do = "text" => e.to \subseteq Keys
         /\ e.do = "save" => /\ DOMAIN e.to \subseteq Runs /\ DOMAIN e.to # {}
                             /\ \A r \in DOMAIN e.to : /\ e.to[r] \in ToSave
                                                       /\ e.to[r].rec \in Record /\ e.to[r].body \in Body
                             /\ e = [do |-> "save", to |-> e.to] /\ e.to \in [DOMAIN e.to -> ToSave]
<1>1. CASE e \in [do : {"active"}, to : Runs \cup {None}]
  BY <1>1 DEF IsWrite
<1>2. CASE e \in [do : {"list"}, to : SUBSET Runs]
  BY <1>2 DEF IsWrite
<1>3. CASE e \in [do : {"text"}, to : SUBSET Keys]
  BY <1>3 DEF IsWrite
<1>4. CASE e \in [do : {"save"}, to : UNION {[R -> ToSave] : R \in (SUBSET Runs) \ {{}}}]
  <2>1. e.do = "save" /\ e = [do |-> "save", to |-> e.to]
    BY <1>4
  <2>2. PICK R \in (SUBSET Runs) \ {{}} : e.to \in [R -> ToSave]
    BY <1>4
  <2>3. DOMAIN e.to = R /\ \A r \in R : e.to[r] \in ToSave
    BY <2>2
  <2>4. \A r \in R : e.to[r].rec \in Record /\ e.to[r].body \in Body
    BY <2>3 DEF ToSave
  <2> QED BY <2>1, <2>2, <2>3, <2>4 DEF IsWrite
<1> QED BY <1>1, <1>2, <1>3, <1>4 DEF Entry

\* The writes q save run r with the record and the body s.
Wrote(q, r, s) == \E i \in DOMAIN q : Saving(q, i, r) /\ q[i].to[r] = s
\* Writes that set the pointer or save, each run once.
Part(q) == q \in Seq(Entry) /\ (\A i \in DOMAIN q : q[i].do \in {"active", "save"}) /\ Once(q)

\* One write.
LEMMA PutIs ==
  ASSUME NEW what, NEW to, [do |-> what, to |-> to] \in Entry
  PROVE  /\ Put(what, to) \in Seq(Entry) /\ Put(what, to) # <<>> /\ Len(Put(what, to)) = 1
         /\ DOMAIN Put(what, to) = {1} /\ Put(what, to)[1].do = what /\ Put(what, to)[1].to = to
<1> DEFINE e == [do |-> what, to |-> to]
<1>1. e.do = what /\ e.to = to
  OBVIOUS
<1>2. Put(what, to) = <<e>>
  BY DEF Put
<1> HIDE DEF e
<1>3. <<e>> \in Seq(Entry) /\ <<e>> # <<>> /\ Len(<<e>>) = 1 /\ DOMAIN <<e>> = {1} /\ <<e>>[1] = e
  BY DEF e
<1> QED BY <1>1, <1>2, <1>3

LEMMA NonePart == Part(<<>>) /\ \A r, s : ~Wrote(<<>>, r, s)
BY DEF Part, Once, Wrote

LEMMA PointerIs ==
  ASSUME NEW to \in Runs \cup {None}
  PROVE  /\ Part(Put("active", to)) /\ \A r, s : ~Wrote(Put("active", to), r, s)
         /\ Part(Pointer(to)) /\ \A r, s : ~Wrote(Pointer(to), r, s)
<1>1. [do |-> "active", to |-> to] \in Entry
  BY DEF Entry
<1>2. Part(Put("active", to)) /\ \A r, s : ~Wrote(Put("active", to), r, s)
  BY <1>1, PutIs DEF Part, Once, Saving, Is, Wrote
<1> QED BY <1>2, NonePart DEF Pointer

LEMMA SavesIs ==
  ASSUME NEW R \in SUBSET Runs, NEW f \in [R -> ToSave]
  PROVE  /\ Part(Saves(f))
         /\ \A r, s : Wrote(Saves(f), r, s) <=> r \in R /\ s = f[r]
<1>1. DOMAIN f = R
  OBVIOUS
<1>2. CASE R = {}
  BY <1>1, <1>2, NonePart DEF Saves
<1>3. CASE R # {}
  <2>1. [do |-> "save", to |-> f] \in Entry
    BY <1>3 DEF Entry
  <2>2. Saves(f) = Put("save", f)
    BY <1>1, <1>3 DEF Saves
  <2>3. /\ Saves(f) \in Seq(Entry) /\ DOMAIN Saves(f) = {1}
        /\ Saves(f)[1].do = "save" /\ Saves(f)[1].to = f
    BY <2>1, <2>2, PutIs
  <2> QED BY <1>1, <2>3 DEF Part, Once, Saving, Is, Wrote
<1> QED BY <1>2, <1>3

LEMMA SaveIs ==
  ASSUME NEW q \in Runs, NEW rec \in Draft, NEW b \in Body
  PROVE  /\ Part(Save(q, rec, b)) /\ Saved(rec, b) \in ToSave
         /\ \A r, s : Wrote(Save(q, rec, b), r, s) <=> r = q /\ s = Saved(rec, b)
<1> DEFINE f == [p \in {q} |-> Saved(rec, b)]
<1>1. f \in [{q} -> ToSave] /\ f[q] = Saved(rec, b) /\ {q} \in SUBSET Runs /\ Saved(rec, b) \in ToSave
  BY SavedIs
<1>2. Save(q, rec, b) = Saves(f)
  BY DEF Save
<1> HIDE DEF f
<1>3. Part(Saves(f)) /\ \A r, s : Wrote(Saves(f), r, s) <=> r \in {q} /\ s = f[r]
  BY ONLY <1>1, SavesIs
<1> QED BY <1>1, <1>2, <1>3

\* Writes one after the other.
LEMMA Joined ==
  ASSUME NEW A \in Seq(Entry), NEW B \in Seq(Entry)
  PROVE  /\ A \o B \in Seq(Entry) /\ Len(A \o B) = Len(A) + Len(B) /\ Len(A) \in Nat /\ Len(B) \in Nat
         /\ DOMAIN A = 1 .. Len(A) /\ DOMAIN B = 1 .. Len(B) /\ DOMAIN (A \o B) = 1 .. Len(A) + Len(B)
         /\ \A i \in DOMAIN A : i \in DOMAIN (A \o B) /\ (A \o B)[i] = A[i]
         /\ \A i \in DOMAIN B : i + Len(A) \in DOMAIN (A \o B) /\ (A \o B)[i + Len(A)] = B[i]
         /\ \A i \in DOMAIN (A \o B) : i > Len(A) => i - Len(A) \in DOMAIN B /\ (A \o B)[i] = B[i - Len(A)]
<1>1. /\ A \o B \in Seq(Entry) /\ Len(A \o B) = Len(A) + Len(B)
      /\ \A i \in 1 .. Len(A) + Len(B) : (A \o B)[i] = IF i <= Len(A) THEN A[i] ELSE B[i - Len(A)]
  BY ConcatProperties
<1>2. Len(A) \in Nat /\ Len(B) \in Nat /\ DOMAIN A = 1 .. Len(A) /\ DOMAIN B = 1 .. Len(B)
      /\ DOMAIN (A \o B) = 1 .. Len(A \o B)
  BY <1>1, LenProperties
<1> DEFINE q == A \o B
<1> HIDE DEF q
<1>3. \A i \in DOMAIN A : i \in DOMAIN q /\ q[i] = A[i]
  BY <1>1, <1>2 DEF q
<1>4. \A i \in DOMAIN B : i + Len(A) \in DOMAIN q /\ q[i + Len(A)] = B[i]
  <2> TAKE i \in DOMAIN B
  <2>1. i + Len(A) \in 1 .. Len(A) + Len(B) /\ ~(i + Len(A) <= Len(A)) /\ i + Len(A) - Len(A) = i
    BY <1>2
  <2> QED BY <1>1, <1>2, <2>1 DEF q
<1>5. \A i \in DOMAIN q : i > Len(A) => i - Len(A) \in DOMAIN B /\ q[i] = B[i - Len(A)]
  BY <1>1, <1>2 DEF q
<1> QED BY <1>1, <1>2, <1>3, <1>4, <1>5 DEF q

LEMMA JoinedWrites ==
  ASSUME NEW A \in Seq(Entry), NEW B \in Seq(Entry)
  PROVE  \A r, s : Wrote(A \o B, r, s) <=> Wrote(A, r, s) \/ Wrote(B, r, s)
<1> TAKE r, s
<1> DEFINE q == A \o B
<1>1. /\ Len(A) \in Nat /\ DOMAIN A = 1 .. Len(A)
      /\ \A i \in DOMAIN A : i \in DOMAIN q /\ q[i] = A[i]
      /\ \A i \in DOMAIN B : i + Len(A) \in DOMAIN q /\ q[i + Len(A)] = B[i]
      /\ \A i \in DOMAIN q : i > Len(A) => i - Len(A) \in DOMAIN B /\ q[i] = B[i - Len(A)]
      /\ DOMAIN q \subseteq Nat \ {0}
  BY Joined
<1> HIDE DEF q
<1>2. ASSUME Wrote(q, r, s) PROVE Wrote(A, r, s) \/ Wrote(B, r, s)
  <2>1. PICK i \in DOMAIN q : q[i].do = "save" /\ r \in DOMAIN q[i].to /\ q[i].to[r] = s
    BY <1>2 DEF Wrote, Saving, Is
  <2>2. CASE i <= Len(A)
    <3>1. i \in DOMAIN A /\ q[i] = A[i]
      BY <1>1, <2>1, <2>2
    <3> QED BY <2>1, <3>1 DEF Wrote, Saving, Is
  <2>3. CASE i > Len(A)
    <3>1. i - Len(A) \in DOMAIN B /\ q[i] = B[i - Len(A)]
      BY <1>1, <2>1, <2>3
    <3> QED BY <2>1, <3>1 DEF Wrote, Saving, Is
  <2> QED BY <1>1, <2>1, <2>2, <2>3
<1>3. Wrote(A, r, s) => Wrote(q, r, s)
  BY <1>1 DEF Wrote, Saving, Is
<1>4. Wrote(B, r, s) => Wrote(q, r, s)
  <2> SUFFICES ASSUME Wrote(B, r, s) PROVE Wrote(q, r, s)
    OBVIOUS
  <2>1. PICK i \in DOMAIN B : B[i].do = "save" /\ r \in DOMAIN B[i].to /\ B[i].to[r] = s
    BY DEF Wrote, Saving, Is
  <2>2. i + Len(A) \in DOMAIN q /\ q[i + Len(A)] = B[i]
    BY <1>1
  <2> QED BY <2>1, <2>2 DEF Wrote, Saving, Is
<1> QED BY <1>2, <1>3, <1>4 DEF q

\* A run that is saved is saved with something.
LEMMA SavingIsWrote ==
  ASSUME NEW q, NEW i, NEW r
  PROVE  Saving(q, i, r) => Wrote(q, r, q[i].to[r])
BY DEF Saving, Wrote, Is

LEMMA JoinedOnce ==
  ASSUME NEW A \in Seq(Entry), NEW B \in Seq(Entry), Once(A), Once(B),
         \A r \in Runs : \A s, x : ~(Wrote(A, r, s) /\ Wrote(B, r, x))
  PROVE  Once(A \o B)
<1> DEFINE q == A \o B
<1>1. /\ Len(A) \in Nat /\ DOMAIN A = 1 .. Len(A) /\ DOMAIN B \subseteq Nat
      /\ \A i \in DOMAIN A : i \in DOMAIN q /\ q[i] = A[i]
      /\ \A i \in DOMAIN q : i > Len(A) => i - Len(A) \in DOMAIN B /\ q[i] = B[i - Len(A)]
      /\ DOMAIN q \subseteq Nat \ {0}
  BY Joined
<1> HIDE DEF q
<1>2. ASSUME NEW i \in DOMAIN q, NEW r \in Runs, Saving(q, i, r)
      PROVE  \/ i <= Len(A) /\ Saving(A, i, r)
             \/ i > Len(A) /\ Saving(B, i - Len(A), r)
  <2>1. CASE i <= Len(A)
    <3>1. i \in DOMAIN A /\ q[i] = A[i]
      BY <1>1, <2>1
    <3> QED BY <1>2, <2>1, <3>1 DEF Saving, Is
  <2>2. CASE i > Len(A)
    <3>1. i - Len(A) \in DOMAIN B /\ q[i] = B[i - Len(A)]
      BY <1>1, <2>2
    <3> QED BY <1>2, <2>2, <3>1 DEF Saving, Is
  <2> QED BY <1>1, <2>1, <2>2
<1>3. ASSUME NEW i \in DOMAIN q, NEW j \in DOMAIN q, NEW r \in Runs, Saving(q, i, r), Saving(q, j, r) PROVE i = j
  <2>1. \/ i <= Len(A) /\ Saving(A, i, r)
        \/ i > Len(A) /\ Saving(B, i - Len(A), r)
    BY <1>2, <1>3
  <2>2. \/ j <= Len(A) /\ Saving(A, j, r)
        \/ j > Len(A) /\ Saving(B, j - Len(A), r)
    BY <1>2, <1>3
  <2>3. ~(Saving(A, i, r) /\ Saving(B, j - Len(A), r)) /\ ~(Saving(A, j, r) /\ Saving(B, i - Len(A), r))
    BY SavingIsWrote
  <2>4. CASE Saving(A, i, r) /\ Saving(A, j, r)
    BY <2>4 DEF Once, Saving, Is
  <2>5. CASE i > Len(A) /\ j > Len(A) /\ Saving(B, i - Len(A), r) /\ Saving(B, j - Len(A), r)
    <3>1. i - Len(A) = j - Len(A)
      BY <2>5 DEF Once, Saving, Is
    <3> QED BY <1>1, <3>1
  <2> QED BY <2>1, <2>2, <2>3, <2>4, <2>5
<1>4. Once(q)
  BY <1>3 DEF Once
<1> QED BY <1>4 DEF q

LEMMA JoinedParts ==
  ASSUME NEW A, NEW B, Part(A), Part(B), \A r \in Runs : \A s, x : ~(Wrote(A, r, s) /\ Wrote(B, r, x))
  PROVE  Part(A \o B) /\ \A r, s : Wrote(A \o B, r, s) <=> Wrote(A, r, s) \/ Wrote(B, r, s)
<1>1. A \in Seq(Entry) /\ B \in Seq(Entry) /\ Once(A) /\ Once(B)
  BY DEF Part
<1>2. Once(A \o B) /\ A \o B \in Seq(Entry)
  BY <1>1, JoinedOnce, Joined
<1>3. \A i \in DOMAIN (A \o B) : (A \o B)[i].do \in {"active", "save"}
  <2> TAKE i \in DOMAIN (A \o B)
  <2>1. i \in DOMAIN A \/ i > Len(A)
    BY <1>1, Joined
  <2>2. CASE i \in DOMAIN A
    <3>1. (A \o B)[i] = A[i]
      BY <1>1, <2>2, Joined
    <3> QED BY <2>2, <3>1 DEF Part
  <2>3. CASE i > Len(A)
    <3>1. i - Len(A) \in DOMAIN B /\ (A \o B)[i] = B[i - Len(A)]
      BY <1>1, <2>3, Joined
    <3> QED BY <3>1 DEF Part
  <2> QED BY <2>1, <2>2, <2>3
<1>4. \A r, s : Wrote(A \o B, r, s) <=> Wrote(A, r, s) \/ Wrote(B, r, s)
  BY <1>1, JoinedWrites
<1> QED BY <1>2, <1>3, <1>4 DEF Part

\* The writes q are those of X[1], then those of X[2], up to X[n].
Comes(q, n, X, stage) ==
  /\ stage \in [DOMAIN q -> 1 .. n]
  /\ \A i, j \in DOMAIN q : i < j => stage[i] <= stage[j]
  /\ \A i \in DOMAIN q : \E k \in DOMAIN X[stage[i]] : q[i] = X[stage[i]][k]
  /\ \A k \in 1 .. n : \A l \in DOMAIN X[k] : \E i \in DOMAIN q : stage[i] = k /\ q[i] = X[k][l]

LEMMA ComesFirst ==
  ASSUME NEW X, X[1] \in Seq(Entry)
  PROVE  \E stage : Comes(X[1], 1, X, stage)
<1> DEFINE stage == [i \in DOMAIN X[1] |-> 1]
<1>1. Comes(X[1], 1, X, stage)
  BY DEF Comes
<1> QED BY <1>1

LEMMA ComesNext ==
  ASSUME NEW q \in Seq(Entry), NEW n \in Nat \ {0}, NEW X, NEW stage, Comes(q, n, X, stage), X[n + 1] \in Seq(Entry)
  PROVE  \E new : Comes(q \o X[n + 1], n + 1, X, new)
<1> DEFINE B == X[n + 1]
           p == q \o B
           new == [i \in DOMAIN p |-> IF i <= Len(q) THEN stage[i] ELSE n + 1]
<1>1. /\ Len(q) \in Nat /\ DOMAIN q = 1 .. Len(q) /\ DOMAIN p \subseteq Nat \ {0}
      /\ \A i \in DOMAIN q : i \in DOMAIN p /\ p[i] = q[i]
      /\ \A i \in DOMAIN B : i + Len(q) \in DOMAIN p /\ p[i + Len(q)] = B[i]
      /\ \A i \in DOMAIN p : i > Len(q) => i - Len(q) \in DOMAIN B /\ p[i] = B[i - Len(q)]
      /\ DOMAIN B \subseteq Nat \ {0}
  BY Joined, SMTT(30)
<1>2. /\ \A i \in DOMAIN p : i <= Len(q) => new[i] = stage[i] /\ i \in DOMAIN q
      /\ \A i \in DOMAIN p : i > Len(q) => new[i] = n + 1
      /\ DOMAIN new = DOMAIN p /\ new = [i \in DOMAIN p |-> new[i]]
  BY <1>1
<1> HIDE DEF p, new
<1>3. stage \in [DOMAIN q -> 1 .. n] /\ \A i, j \in DOMAIN q : i < j => stage[i] <= stage[j]
  BY DEF Comes
<1>4. \A i \in DOMAIN p : new[i] \in 1 .. n + 1
  BY <1>1, <1>2, <1>3
<1>5. ASSUME NEW i \in DOMAIN p, NEW j \in DOMAIN p, i < j PROVE new[i] <= new[j]
  BY <1>1, <1>2, <1>3, <1>5
<1>6. ASSUME NEW i \in DOMAIN p PROVE \E k \in DOMAIN X[new[i]] : p[i] = X[new[i]][k]
  <2>1. CASE i <= Len(q)
    <3>1. i \in DOMAIN q /\ new[i] = stage[i] /\ p[i] = q[i]
      BY <1>1, <1>2, <2>1
    <3> QED BY <3>1 DEF Comes
  <2>2. CASE i > Len(q)
    <3>1. i - Len(q) \in DOMAIN B /\ p[i] = B[i - Len(q)] /\ new[i] = n + 1
      BY <1>1, <1>2, <2>2
    <3> QED BY <3>1
  <2> QED BY <1>1, <2>1, <2>2
<1>7. ASSUME NEW k \in 1 .. n + 1, NEW l \in DOMAIN X[k]
      PROVE  \E i \in DOMAIN p : new[i] = k /\ p[i] = X[k][l]
  <2>1. CASE k = n + 1
    <3>1. l + Len(q) \in DOMAIN p /\ p[l + Len(q)] = B[l] /\ l + Len(q) > Len(q)
      BY <1>1, <2>1
    <3> QED BY <1>2, <2>1, <3>1
  <2>2. CASE k # n + 1
    <3>1. PICK i \in DOMAIN q : stage[i] = k /\ q[i] = X[k][l]
      BY <1>7, <2>2 DEF Comes
    <3> QED BY <1>1, <1>2, <3>1
  <2> QED BY <2>1, <2>2
<1>8. Comes(p, n + 1, X, new)
  BY <1>2, <1>4, <1>5, <1>6, <1>7 DEF Comes
<1> QED BY <1>8 DEF p

\* Writes in five stages: pointers and saves that change nothing, the text, the list, what the
\* handler is about, the list.
Stages(E, T, L, R, U) == (((E \o T) \o L) \o R) \o U

LEMMA Staged ==
  ASSUME NEW E, NEW T \in Seq(Entry), NEW L \in Seq(Entry), NEW R, NEW U \in Seq(Entry), Part(E), Part(R)
  PROVE  /\ Stages(E, T, L, R, U) \in Seq(Entry)
         /\ \E stage : Comes(Stages(E, T, L, R, U), 5, <<E, T, L, R, U>>, stage)
<1> DEFINE X == <<E, T, L, R, U>>
           q2 == E \o T
           q3 == q2 \o L
           q4 == q3 \o R
           q5 == q4 \o U
<1>1. E \in Seq(Entry) /\ R \in Seq(Entry)
  BY DEF Part
<1>2. X[1] = E /\ X[2] = T /\ X[3] = L /\ X[4] = R /\ X[5] = U
  OBVIOUS
<1>3. q2 \in Seq(Entry) /\ q3 \in Seq(Entry) /\ q4 \in Seq(Entry) /\ q5 \in Seq(Entry)
  BY <1>1, Joined
<1>4. Stages(E, T, L, R, U) = q5
  BY DEF Stages
<1> HIDE DEF X, q5
<1>5. \E s : Comes(E, 1, X, s)
  BY <1>1, <1>2, ComesFirst
<1>6. \E s : Comes(q2, 2, X, s)
  <2>1. \A s : Comes(E, 1, X, s) => \E t : Comes(E \o X[1 + 1], 1 + 1, X, t)
    BY <1>1, <1>2, ComesNext
  <2> QED BY <1>2, <1>5, <2>1
<1> HIDE DEF q2
<1>7. \E s : Comes(q3, 3, X, s)
  <2>1. \A s : Comes(q2, 2, X, s) => \E t : Comes(q2 \o X[2 + 1], 2 + 1, X, t)
    BY <1>2, <1>3, ComesNext
  <2> QED BY <1>2, <1>6, <2>1
<1> HIDE DEF q3
<1>8. \E s : Comes(q4, 4, X, s)
  <2>1. \A s : Comes(q3, 3, X, s) => \E t : Comes(q3 \o X[3 + 1], 3 + 1, X, t)
    BY <1>1, <1>2, <1>3, ComesNext
  <2> QED BY <1>2, <1>7, <2>1
<1> HIDE DEF q4
<1>9. \E s : Comes(q5, 5, X, s)
  <2>1. \A s : Comes(q4, 4, X, s) => \E t : Comes(q4 \o X[4 + 1], 4 + 1, X, t)
    BY <1>2, <1>3, ComesNext
  <2> QED BY <1>2, <1>8, <2>1 DEF q5
<1> QED BY <1>3, <1>4, <1>9 DEF X

-----------------------------------------------------------------------------
(* What is left of the writes after a put *)

\* p is what remains of q after its first write; of a save, after that of run k.
Remains(q, p, d, k) ==
  /\ p \in Seq(Entry) /\ d \in {0, 1}
  /\ \A i \in DOMAIN p : i + d \in DOMAIN q /\ p[i].do = q[i + d].do /\ (p[i].do # "save" => p[i].to = q[i + d].to)
  /\ \A j \in DOMAIN q : j > 1 => j - d \in DOMAIN p
  /\ \A i \in DOMAIN p, r \in Runs : Saving(p, i, r) =>
       Saving(q, i + d, r) /\ p[i].to[r] = q[i + d].to[r] /\ ~(i + d = 1 /\ r = k)
  /\ \A j \in DOMAIN q, r \in Runs : Saving(q, j, r) /\ ~(j = 1 /\ r = k) => Saving(p, j - d, r)

LEMMA SeqParts ==
  ASSUME NEW q \in Seq(Entry)
  PROVE  /\ Len(q) \in Nat /\ DOMAIN q = 1 .. Len(q) /\ DOMAIN q \subseteq Nat \ {0} /\ \A i \in DOMAIN q : q[i] \in Entry
         /\ q # <<>> => /\ Head(q) = q[1] /\ 1 \in DOMAIN q /\ Tail(q) \in Seq(Entry) /\ Len(Tail(q)) = Len(q) - 1
                        /\ DOMAIN Tail(q) = 1 .. Len(q) - 1
                        /\ \A i \in DOMAIN Tail(q) : Tail(q)[i] = q[i + 1] /\ i + 1 \in DOMAIN q
                        /\ \A i \in DOMAIN q : i > 1 => i - 1 \in DOMAIN Tail(q)
<1>1. Len(q) \in Nat /\ DOMAIN q = 1 .. Len(q) /\ \A i \in DOMAIN q : q[i] \in Entry
  BY LenProperties, ElementOfSeq
<1>2. CASE q # <<>>
  <2>1. Head(q) = q[1] /\ Tail(q) \in Seq(Entry) /\ Len(Tail(q)) = Len(q) - 1 /\ Len(q) > 0
        /\ \A i \in 1 .. Len(q) - 1 : Tail(q)[i] = q[i + 1]
    BY <1>1, <1>2, HeadTailProperties, EmptySeq
  <2>2. DOMAIN Tail(q) = 1 .. Len(q) - 1
    BY <2>1, LenProperties
  <2> QED BY <1>1, <2>1, <2>2
<1> QED BY <1>1, <1>2

LEMMA TailRemains ==
  ASSUME NEW q \in Seq(Entry), q # <<>>, NEW k, q[1].do = "save" => DOMAIN q[1].to = {k}
  PROVE  Remains(q, Tail(q), 1, k)
<1> DEFINE p == Tail(q)
<1>1. /\ p \in Seq(Entry) /\ DOMAIN q \subseteq Nat \ {0} /\ DOMAIN p \subseteq Nat \ {0}
      /\ \A i \in DOMAIN p : p[i] = q[i + 1] /\ i + 1 \in DOMAIN q
      /\ \A i \in DOMAIN q : i > 1 => i - 1 \in DOMAIN p
  BY SeqParts
<1> HIDE DEF p
<1>2. ASSUME NEW i \in DOMAIN p, NEW r \in Runs, Saving(p, i, r)
      PROVE  Saving(q, i + 1, r) /\ p[i].to[r] = q[i + 1].to[r] /\ i + 1 # 1
  BY <1>1, <1>2 DEF Saving, Is
<1>3. ASSUME NEW j \in DOMAIN q, NEW r \in Runs, Saving(q, j, r), ~(j = 1 /\ r = k) PROVE Saving(p, j - 1, r)
  <2>1. j # 1
    BY <1>3 DEF Saving, Is
  <2>2. j \in Nat \ {0}
    BY <1>1
  <2>3. j > 1 /\ j - 1 \in DOMAIN p /\ (j - 1) + 1 = j
    BY <1>1, <2>1, <2>2
  <2>4. p[j - 1] = q[j]
    BY <1>1, <2>3
  <2> QED BY <1>3, <2>3, <2>4 DEF Saving, Is
<1>4. Remains(q, p, 1, k)
  BY <1>1, <1>2, <1>3 DEF Remains
<1> QED BY <1>4 DEF p

LEMMA SavesRemain ==
  ASSUME NEW q \in Seq(Entry), q # <<>>, q[1].do = "save", NEW k, DOMAIN q[1].to # {k}, k \in DOMAIN q[1].to
  PROVE  Remains(q, Saves([r \in DOMAIN q[1].to \ {k} |-> q[1].to[r]]) \o Tail(q), 0, k)
<1> DEFINE R == DOMAIN q[1].to \ {k}
           o == [r \in R |-> q[1].to[r]]
           e == [do |-> "save", to |-> o]
           p == Saves(o) \o Tail(q)
<1>1. /\ DOMAIN q \subseteq Nat \ {0} /\ 1 \in DOMAIN q /\ Tail(q) \in Seq(Entry) /\ DOMAIN Tail(q) \subseteq Nat \ {0}
      /\ \A i \in DOMAIN Tail(q) : Tail(q)[i] = q[i + 1] /\ i + 1 \in DOMAIN q
      /\ \A i \in DOMAIN q : i > 1 => i - 1 \in DOMAIN Tail(q)
      /\ \A i \in DOMAIN q : q[i] \in Entry
  BY SeqParts
<1>2. DOMAIN q[1].to \subseteq Runs /\ \A r \in DOMAIN q[1].to : q[1].to[r] \in ToSave
  BY <1>1, EntryIs
<1>3. /\ R # {} /\ R \in SUBSET Runs /\ o \in [R -> ToSave] /\ DOMAIN o = R
      /\ \A r \in R : o[r] = q[1].to[r]
  BY <1>2
<1>4. e \in Entry /\ e.do = "save" /\ e.to = o
  BY <1>3 DEF Entry
<1>5. Saves(o) = <<e>>
  BY <1>3 DEF Saves, Put
<1> HIDE DEF o, e
<1>6. <<e>> \in Seq(Entry) /\ Len(<<e>>) = 1 /\ DOMAIN <<e>> = {1} /\ <<e>>[1] = e
  BY <1>4
<1>7. /\ p \in Seq(Entry) /\ DOMAIN p \subseteq Nat \ {0}
      /\ 1 \in DOMAIN p /\ p[1] = e
      /\ \A i \in DOMAIN Tail(q) : i + 1 \in DOMAIN p
      /\ \A i \in DOMAIN p : i > 1 => i - 1 \in DOMAIN Tail(q) /\ p[i] = Tail(q)[i - 1]
  BY <1>1, <1>5, <1>6, Joined
<1> HIDE DEF p
<1>8. \A i \in DOMAIN p : i > 1 => i \in DOMAIN q /\ p[i] = q[i]
  <2> SUFFICES ASSUME NEW i \in DOMAIN p, i > 1 PROVE i \in DOMAIN q /\ p[i] = q[i]
    OBVIOUS
  <2>1. i - 1 \in DOMAIN Tail(q) /\ p[i] = Tail(q)[i - 1] /\ (i - 1) + 1 = i
    BY <1>7
  <2> QED BY <1>1, <2>1
<1>9. \A i \in DOMAIN q : i \in DOMAIN p
  <2> TAKE i \in DOMAIN q
  <2>1. CASE i = 1
    BY <1>7, <2>1
  <2>2. CASE i # 1
    <3>1. i > 1
      BY <1>1, <2>2
    <3>2. i - 1 \in DOMAIN Tail(q) /\ (i - 1) + 1 = i
      BY <1>1, <3>1
    <3> QED BY <1>7, <3>2
  <2> QED BY <2>1, <2>2
<1>10. \A i \in DOMAIN p : i + 0 = i /\ i - 0 = i /\ i \in Nat /\ (i = 1 \/ i > 1)
  BY <1>7
<1>11. \A i \in DOMAIN p : i \in DOMAIN q /\ p[i].do = q[i].do /\ (p[i].do # "save" => p[i].to = q[i].to)
  BY <1>1, <1>4, <1>7, <1>8, <1>10
<1>12. \A i \in DOMAIN p, r \in Runs : Saving(p, i, r) =>
         Saving(q, i, r) /\ p[i].to[r] = q[i].to[r] /\ ~(i = 1 /\ r = k)
  BY <1>1, <1>3, <1>4, <1>7, <1>8, <1>10 DEF Saving, Is
<1>13. \A j \in DOMAIN q, r \in Runs : Saving(q, j, r) /\ ~(j = 1 /\ r = k) => Saving(p, j, r)
  <2> SUFFICES ASSUME NEW j \in DOMAIN q, NEW r \in Runs, Saving(q, j, r), ~(j = 1 /\ r = k) PROVE Saving(p, j, r)
    OBVIOUS
  <2>1. CASE j = 1
    BY <1>3, <1>4, <1>7, <2>1 DEF Saving, Is
  <2>2. CASE j # 1
    <3>1. j \in DOMAIN p /\ p[j] = q[j]
      BY <1>8, <1>9, <1>10, <2>2
    <3> QED BY <3>1 DEF Saving, Is
  <2> QED BY <2>1, <2>2
<1>14. Remains(q, p, 0, k)
  <2>1. \A j \in DOMAIN q : j - 0 = j
    BY <1>1
  <2> QED BY <1>7, <1>9, <1>10, <1>11, <1>12, <1>13, <2>1 DEF Remains
<1> QED BY <1>14 DEF p, o

\* The put that is due, and the run whose turn it is.
LEMMA DueIs ==
  ASSUME Types, ~Idle
  PROVE  /\ op.todo \in Seq(Entry) /\ op.todo # <<>> /\ 1 \in DOMAIN op.todo /\ Due = op.todo[1] /\ Due \in Entry
         /\ Due.do \in {"active", "list", "text", "save"}
         /\ Due.do = "save" =>
              /\ First \in DOMAIN Due.to /\ First \in Runs /\ Saving(op.todo, 1, First)
              /\ Due.to[First] = op.todo[1].to[First] /\ Due.to[First].rec = RecAt(op.todo, 1, First)
              /\ Due.to[First].body = BodyAt(op.todo, 1, First)
              /\ Due.to[First].rec \in Record /\ Due.to[First].body \in Body
<1>1. op.todo \in Seq(Entry) /\ op.todo # <<>>
  BY DEF Types, Idle
<1>2. 1 \in DOMAIN op.todo /\ Due = op.todo[1] /\ Due \in Entry
  BY <1>1, SeqParts DEF Due
<1>3. Due.do \in {"active", "list", "text", "save"}
  BY <1>2, EntryIs
<1>4. ASSUME Due.do = "save" PROVE First \in DOMAIN Due.to
  <2>1. DOMAIN Due.to \in SUBSET Runs /\ DOMAIN Due.to # {}
    BY <1>2, <1>4, EntryIs
  <2>2. \E r \in DOMAIN Due.to : \A q \in DOMAIN Due.to : r <= q
    BY <2>1, FirstRun
  <2> QED BY <2>2 DEF First
<1>5. ASSUME Due.do = "save"
      PROVE  First \in Runs /\ Due.to[First].rec \in Record /\ Due.to[First].body \in Body
  BY <1>2, <1>4, <1>5, EntryIs
<1> QED BY <1>1, <1>2, <1>3, <1>4, <1>5 DEF Saving, Is, RecAt, BodyAt

\* A handler that goes on.
LEMMA GoesOnIs ==
  ASSUME Types, ~Idle, NEW p \in Seq(Entry), GoesOn(p)
  PROVE  /\ op'.todo = p /\ op'.half = FALSE /\ op' \in [todo : Seq(Entry), half : BOOLEAN, decides : Runs \cup {None}]
         /\ p = <<>> => op' = NoOp /\ answered' = op.decides
         /\ p # <<>> => op'.decides = op.decides /\ answered' = None
         /\ answered' \in Runs \cup {None}
<1>1. op \in [todo : Seq(Entry), half : BOOLEAN, decides : Runs \cup {None}]
  BY DEF Types
<1>2. CASE p = <<>>
  BY <1>1, <1>2 DEF GoesOn, NoOp
<1>3. CASE p # <<>>
  BY <1>1, <1>3 DEF GoesOn
<1> QED BY <1>2, <1>3

LEMMA OthersRemain ==
  ASSUME Types, ~Idle, Due.do = "save"
  PROVE  \E d \in {0, 1} : Remains(op.todo, Saves(Others) \o Tail(op.todo), d, First)
<1>1. /\ op.todo \in Seq(Entry) /\ op.todo # <<>> /\ Due = op.todo[1] /\ First \in DOMAIN Due.to
  BY DueIs
<1>2. CASE DOMAIN Due.to = {First}
  <2>1. Remains(op.todo, Tail(op.todo), 1, First)
    BY <1>1, <1>2, TailRemains
  <2>2. Saves(Others) = <<>>
    BY <1>2 DEF Saves, Others
  <2>3. <<>> \o Tail(op.todo) = Tail(op.todo)
    BY <1>1, SeqParts, ConcatEmptySeq
  <2> QED BY <2>1, <2>2, <2>3
<1>3. CASE DOMAIN Due.to # {First}
  <2>1. Remains(op.todo, Saves([r \in DOMAIN op.todo[1].to \ {First} |-> op.todo[1].to[r]]) \o Tail(op.todo), 0, First)
    BY <1>1, <1>3, SavesRemain
  <2> QED BY <1>1, <2>1 DEF Others
<1> QED BY <1>2, <1>3

-----------------------------------------------------------------------------
(* The puts *)

\* What TakesTurn asks and does.
LEMMA TurnIs ==
  /\ IsDue("body") <=> Due.do = "save" /\ ~op.half
  /\ IsDue("row") <=> Due.do = "save" /\ op.half
BY DEF IsDue, Turn


LEMMA PutBodyStep ==
  ASSUME IInv, PutBody
  PROVE  IInv'
<1> DEFINE k == First
           s == Due.to[k]
<1>q. PICK q : q = op.todo
  OBVIOUS
<1>0. Types /\ Orderly /\ Halves /\ Whole /\ Answers /\ Stamps /\ Remembered /\ Recorded
  BY DEF IInv
<1> USE <1>q
<1>1. ~Idle /\ Due.do = "save" /\ ~op.half /\ op' = [op EXCEPT !.half = TRUE] /\ answered' = answered
  BY TurnIs DEF PutBody, TakesTurn
<1>2. /\ blob' = [blob EXCEPT ![k] = s.body] /\ cached' = [cached EXCEPT ![k] = s.body]
      /\ left' = [left EXCEPT !.lost = @ \ {k}]
      /\ UNCHANGED <<meta, active, listed, text, index, jobs>>
  BY <1>1 DEF PutBody, Mirror
<1>3. /\ q \in Seq(Entry) /\ k \in Runs /\ 1 \in DOMAIN q /\ Saving(q, 1, k) /\ DOMAIN q \subseteq Nat \ {0}
      /\ s = q[1].to[k] /\ s.rec = RecAt(q, 1, k) /\ s.body = BodyAt(q, 1, k)
      /\ s.rec \in Record /\ s.body \in Body /\ s.body # None
  <2>1. \A b \in Body : b # None
    BY Bounded
  <2> QED BY <1>0, <1>1, <2>1, DueIs, SeqParts
<1>4. op'.todo = q /\ op'.half = TRUE /\ op'.decides = op.decides /\ ~Idle' /\ Due' = Due /\ First' = k
      /\ op' \in [todo : Seq(Entry), half : BOOLEAN, decides : Runs \cup {None}]
  <2>1. op \in [todo : Seq(Entry), half : BOOLEAN, decides : Runs \cup {None}]
    BY <1>0 DEF Types
  <2>2. op'.todo = q /\ op'.half = TRUE /\ op'.decides = op.decides
        /\ op' \in [todo : Seq(Entry), half : BOOLEAN, decides : Runs \cup {None}]
    BY <1>1, <2>1
  <2>3. ~Idle' /\ Due' = Due
    BY <1>1, <2>2 DEF Idle, Due
  <2> QED BY <2>2, <2>3 DEF First
<1>5. /\ \A r \in Runs : blob'[r] = IF r = k THEN s.body ELSE blob[r]
      /\ \A r \in Runs : cached'[r] = IF r = k THEN s.body ELSE cached[r]
      /\ blob' \in [Runs -> Body \cup {None}] /\ cached' \in [Runs -> Body \cup {None}]
  BY <1>0, <1>2, <1>3 DEF Types
<1>6. /\ left'.lost = left.lost \ {k} /\ left'.calls = left.calls /\ left'.faults = left.faults
      /\ left'.opened = left.opened /\ left'.unsent = left.unsent /\ left'.struck = left.struck /\ Bounds'
  BY <1>0, <1>2 DEF Types, Bounds
<1>7. Types'
  BY <1>0, <1>1, <1>2, <1>4, <1>5, <1>6 DEF Types
<1>8. \A j \in DOMAIN q, r \in Runs : Saving(q, j, r) => RecAt(q, j, r) = q[j].to[r].rec /\ BodyAt(q, j, r) = q[j].to[r].body
  BY DEF RecAt, BodyAt
<1>9. \A j \in DOMAIN q : Saving(q, j, k) => j = 1
  BY <1>0, <1>3 DEF Orderly, Once
<1>10. Orderly'
  <2>1. k <= left.opened
    BY <1>0, <1>3 DEF Orderly
  <2>2. ~(k > left.opened)
    BY <1>0, <1>3, <2>1, Bounded DEF Types, Bounds
  <2> QED BY <1>0, <1>2, <1>4, <1>5, <1>6, <2>2 DEF Orderly
<1>11. Halves'
  <2>1. cached'[First'] = Due'.to[First'].body /\ blob'[First'] = Due'.to[First'].body
    BY <1>3, <1>4, <1>5
  <2>2. \A r \in left'.lost : blob'[r] = None
    BY <1>0, <1>5, <1>6 DEF Halves, Types, Bounds
  <2> QED BY <1>1, <1>4, <2>1, <2>2 DEF Halves
<1>12. Whole'
  <2>1. meta[k] # None => Len(s.body) >= Len(meta[k].hunks)
    BY <1>0, <1>3 DEF Whole, Longer
  <2>2. RowsHaveBodies'
    BY <1>0, <1>2, <1>3, <1>5, <1>6, <2>1 DEF Whole, RowsHaveBodies, Stored
  <2>3. Len(s.body) \in Nat
    BY <1>3, BodyParts
  <2>4. Longer(q)'
    <3> SUFFICES ASSUME NEW i \in DOMAIN q, NEW r \in Runs, Saving(q, i, r)
                 PROVE  /\ RecAt(q, i, r).hunks = StatusesOf(BodyAt(q, i, r))
                        /\ meta[r] # None => Len(BodyAt(q, i, r)) >= Len(meta[r].hunks)
                        /\ blob'[r] # None => Len(BodyAt(q, i, r)) >= Len(blob'[r])
      BY <1>2, <1>4 DEF Longer, Saving, Is, RecAt, BodyAt
    <3>1. CASE r = k
      BY <1>0, <1>3, <1>5, <1>9, <2>3, <3>1 DEF Whole, Longer
    <3>2. CASE r # k
      BY <1>0, <1>5, <3>2 DEF Whole, Longer
    <3> QED BY <3>1, <3>2
  <2>5. \A r \in Runs : cached'[r] # None /\ blob'[r] # None => Len(cached'[r]) >= Len(blob'[r])
    BY <1>0, <1>5, <2>3 DEF Whole
  <2>6. Longer(op.todo)'
    BY <1>4, <2>4 DEF Longer, Saving, Is, RecAt, BodyAt
  <2> QED BY <2>2, <2>5, <2>6 DEF Whole
<1>13. Answers'
  <2>1. answered = None
    BY <1>0, <1>1 DEF Answers
  <2>2. op.decides # None => Settling(q, op.decides)'
    <3> SUFFICES ASSUME op.decides # None PROVE Settling(q, op.decides)'
      OBVIOUS
    <3>1. Settling(q, op.decides)
      BY <1>0 DEF Answers
    <3>2. ASSUME \A i \in DOMAIN q : ~Saving(q, i, op.decides) PROVE Agreed(op.decides)'
      <4>1. op.decides # k /\ op.decides \in Runs
        BY <1>0, <1>3, <3>2 DEF Types
      <4> QED BY <1>2, <1>4, <1>5, <3>1, <3>2, <4>1 DEF Settling, Agreed
    <3>3. op'.decides = op.decides /\ op'.todo = q
      BY <1>4
    <3> QED BY <3>1, <3>2, <3>3 DEF Settling, Agreed, Saving, Is, RecAt, BodyAt
  <2> QED BY <1>1, <1>4, <2>1, <2>2 DEF Answers, Settling, Agreed, Saving, Is, RecAt, BodyAt
<1>14. Stamps'
  <2>1. Then' = Then
    BY <1>6 DEF Then
  <2>2. UNCHANGED <<meta, index, jobs>> /\ op'.todo = op.todo /\ left'.unsent = left.unsent
    BY <1>2, <1>4, <1>6
  <2> QED BY <1>0, <2>1, <2>2, StampsLeft
<1>15. Remembered'
  <2> SUFFICES ASSUME NoPutFailed
               PROVE  SavedNotesAreListed' /\ Mirrors(op.todo, cached)' /\ Noted(op.todo, cached)'
    BY <1>6 DEF Remembered, NoPutFailed
  <2>1. SavedNotesAreListed /\ Mirrors(q, cached) /\ Noted(q, cached)
    BY <1>0 DEF Remembered
  <2>2. OpenNotes(s.body) # {} => StaysListed(q, k) /\ k \in listed
    <3>1. \A j \in DOMAIN q : ~(j < 1)
      BY <1>3
    <3> QED BY <1>3, <2>1, <3>1 DEF Noted, Lists
  <2>3. SavedNotesAreListed'
    BY <1>2, <1>5, <2>1, <2>2 DEF SavedNotesAreListed, Stored
  <2>4. Mirrors(q, cached)'
    BY <1>2, <1>4, <1>5, <2>1 DEF Mirrors, Saving, Is
  <2>5. \A r \in Runs : Stored(r) /\ cached'[r] # None /\ OpenNotes(cached'[r]) # {} =>
          StaysListed(q, r) /\ (r \in listed \/ \E i \in DOMAIN q : Is(q, i, "list"))
    <3> TAKE r \in Runs
    <3>1. CASE r = k
      BY <1>5, <2>2, <3>1
    <3>2. CASE r # k
      BY <1>5, <2>1, <3>2 DEF Noted, Minds
    <3> QED BY <3>1, <3>2
  <2>6. \A i \in DOMAIN q, r \in Runs :
          /\ Is(q, i, "list") /\ r \notin q[i].to
          /\ Stored(r) /\ blob'[r] # None /\ OpenNotes(blob'[r]) # {}
          => \E j \in DOMAIN q : j < i /\ Saving(q, j, r)
    BY <1>5, <2>1, <2>2 DEF Noted, Drops, StaysListed
  <2>7. op'.todo = q
    BY <1>4
  <2>8. Mirrors(op.todo, cached)'
    BY <2>4, <2>7 DEF Mirrors, Saving, Is
  <2>9. Minds(op.todo, cached)'
    BY <1>2, <2>5, <2>7 DEF Minds, Stored, StaysListed, Is
  <2>10. Lists(op.todo)'
    BY <1>2, <2>1, <2>7 DEF Noted, Lists, StaysListed, Saving, Is, BodyAt
  <2>11. Drops(op.todo)'
    BY <1>2, <2>6, <2>7 DEF Drops, Stored, Saving, Is
  <2> QED BY <2>3, <2>8, <2>9, <2>10, <2>11 DEF Noted
<1>16. Recorded'
  <2> SUFFICES ASSUME "blob" \notin left.struck PROVE Landing(op.todo, cached)'
    BY <1>6 DEF Recorded
  <2>1. Landing(q, cached)
    BY <1>0 DEF Recorded
  <2>2. \A r \in Runs \ left'.lost : r # k => r \in Runs \ left.lost
    BY <1>6
  <2>3. LandedIn(blob'[k]) = Landed(s.body)
    BY <1>3, <1>5 DEF LandedIn
  <2>4. ASSUME NEW i \in DOMAIN q, NEW r \in Runs \ left'.lost, Saving(q, i, r), NEW h \in Landed(BodyAt(q, i, r)) \ LandedIn(blob'[r])
        PROVE  /\ \A j \in DOMAIN q : j < i /\ Is(q, j, "text") => <<r, h>> \in q[j].to
               /\ <<r, h>> \in text \/ \E j \in DOMAIN q : j < i /\ Is(q, j, "text")
    <3>1. r # k
      BY <1>3, <1>9, <2>3, <2>4
    <3> QED BY <1>5, <2>1, <2>2, <2>4, <3>1 DEF Landing, InText, ToCome, NoneAfter
  <2>5. ASSUME NEW r \in Runs \ left'.lost, cached'[r] # None, NEW h \in Landed(cached'[r]) \ LandedIn(blob'[r])
        PROVE  \E i \in DOMAIN q : Saving(q, i, r) /\ h \in Landed(BodyAt(q, i, r))
    <3>1. r # k
      BY <1>5, <2>3, <2>5
    <3> QED BY <1>5, <2>1, <2>2, <2>5, <3>1 DEF Landing, InText, ToCome, NoneAfter
  <2>6. ASSUME NEW i \in DOMAIN q, NEW j \in DOMAIN q, NEW r \in Runs \ left'.lost,
               i < j, Is(q, i, "list"), Saving(q, j, r)
        PROVE  Landed(BodyAt(q, j, r)) \subseteq LandedIn(blob'[r])
    <3>1. r # k
      BY <1>3, <1>9, <2>6
    <3> QED BY <1>5, <2>1, <2>2, <2>6, <3>1 DEF Landing, InText, ToCome, NoneAfter
  <2>7. op'.todo = q /\ text' = text
    BY <1>2, <1>4
  <2>8. InText(op.todo)'
    BY <2>4, <2>7 DEF InText, Saving, Is, BodyAt
  <2>9. ToCome(op.todo, cached)'
    BY <2>5, <2>7 DEF ToCome, Saving, Is, BodyAt
  <2>10. NoneAfter(op.todo)'
    BY <2>6, <2>7 DEF NoneAfter, Saving, Is, BodyAt
  <2> QED BY <2>8, <2>9, <2>10 DEF Landing
<1> QED BY <1>7, <1>10, <1>11, <1>12, <1>13, <1>14, <1>15, <1>16 DEF IInv

\* What is known of the writes is known of what remains of them.
LEMMA RemainsIs ==
  ASSUME NEW q \in Seq(Entry), NEW p, NEW d, NEW k, Remains(q, p, d, k)
  PROVE  /\ p \in Seq(Entry) /\ DOMAIN p \subseteq Nat \ {0} /\ d \in {0, 1}
         /\ \A i \in DOMAIN p : i + d \in DOMAIN q
         /\ \A i \in DOMAIN p, r \in Runs : Saving(p, i, r) =>
              /\ Saving(q, i + d, r) /\ BodyAt(p, i, r) = BodyAt(q, i + d, r) /\ RecAt(p, i, r) = RecAt(q, i + d, r)
              /\ ~(i + d = 1 /\ r = k)
         /\ \A i \in DOMAIN p, what \in {"list", "text"} : Is(p, i, what) => Is(q, i + d, what) /\ p[i].to = q[i + d].to
         /\ Once(q) => Once(p)
         /\ \A r \in Runs : StaysListed(q, r) => StaysListed(p, r)
         /\ \A j \in DOMAIN q, what \in {"list", "text"} : Is(q, j, what) /\ j > 1 =>
              j - d \in DOMAIN p /\ Is(p, j - d, what) /\ p[j - d].to = q[j].to
         /\ \A j \in DOMAIN q, r \in Runs : Saving(q, j, r) /\ ~(j = 1 /\ r = k) =>
              Saving(p, j - d, r) /\ BodyAt(p, j - d, r) = BodyAt(q, j, r) /\ j - d \in DOMAIN p
         /\ \A i \in DOMAIN p, j \in DOMAIN q : j < i + d => j - d < i
         /\ \A i, j \in DOMAIN p : i < j => i + d < j + d
<1>1. /\ p \in Seq(Entry) /\ d \in {0, 1} /\ DOMAIN p \subseteq Nat \ {0} /\ DOMAIN q \subseteq Nat \ {0}
      /\ \A i \in DOMAIN p : i + d \in DOMAIN q /\ p[i].do = q[i + d].do /\ (p[i].do # "save" => p[i].to = q[i + d].to)
  BY SeqParts DEF Remains
<1>2. \A i \in DOMAIN p, r \in Runs : Saving(p, i, r) =>
        /\ Saving(q, i + d, r) /\ BodyAt(p, i, r) = BodyAt(q, i + d, r) /\ RecAt(p, i, r) = RecAt(q, i + d, r)
        /\ ~(i + d = 1 /\ r = k)
  BY DEF Remains, BodyAt, RecAt
<1>3. \A i \in DOMAIN p, what \in {"list", "text"} : Is(p, i, what) => Is(q, i + d, what) /\ p[i].to = q[i + d].to
  BY <1>1 DEF Is
<1>4. Once(q) => Once(p)
  <2> SUFFICES ASSUME Once(q), NEW i \in DOMAIN p, NEW j \in DOMAIN p, NEW r \in Runs, Saving(p, i, r), Saving(p, j, r)
               PROVE  i = j
    BY DEF Once
  <2>1. i + d = j + d
    BY <1>1, <1>2 DEF Once
  <2> QED BY <1>1, <2>1
<1>5. \A r \in Runs : StaysListed(q, r) => StaysListed(p, r)
  BY <1>1, <1>3 DEF StaysListed
<1>6. \A j \in DOMAIN q : j - d + d = j
  BY <1>1
<1>7. ASSUME NEW j \in DOMAIN q, NEW what \in {"list", "text"}, Is(q, j, what), j > 1
      PROVE  j - d \in DOMAIN p /\ Is(p, j - d, what) /\ p[j - d].to = q[j].to
  <2>1. j - d \in DOMAIN p
    BY <1>7 DEF Remains
  <2>2. p[j - d].do = q[j].do /\ (p[j - d].do # "save" => p[j - d].to = q[j].to)
    BY <1>1, <1>6, <2>1
  <2> QED BY <1>7, <2>1, <2>2 DEF Is
<1>8. ASSUME NEW j \in DOMAIN q, NEW r \in Runs, Saving(q, j, r), ~(j = 1 /\ r = k)
      PROVE  Saving(p, j - d, r) /\ BodyAt(p, j - d, r) = BodyAt(q, j, r) /\ j - d \in DOMAIN p
  <2>1. Saving(p, j - d, r)
    BY <1>8 DEF Remains
  <2>2. j - d \in DOMAIN p
    BY <2>1 DEF Saving, Is
  <2> QED BY <1>2, <1>6, <2>1, <2>2
<1>9. \A i \in DOMAIN p, j \in DOMAIN q : j < i + d => j - d < i
  BY <1>1
<1>10. \A i, j \in DOMAIN p : i < j => i + d < j + d
  BY <1>1
<1> QED BY <1>1, <1>2, <1>3, <1>4, <1>5, <1>7, <1>8, <1>9, <1>10

LEMMA OlderIs ==
  /\ \A a, b, c \in Record : Older(a, b) /\ Older(b, c) => Older(a, c)
  /\ \A a \in Record : Older(a, a)
BY RecordIs DEF Older, Same

\* The row is stored.
LEMMA PutRowStep ==
  ASSUME IInv, PutRow
  PROVE  IInv'
<1>0. Types /\ Orderly /\ Halves /\ Whole /\ Answers /\ Stamps /\ Remembered /\ Recorded
  BY DEF IInv
<1>q. PICK q : q = op.todo
  OBVIOUS
<1>k. PICK k : k = First
  OBVIOUS
<1>1. ~Idle /\ Due.do = "save" /\ op.half /\ GoesOn(Saves(Others) \o Tail(op.todo))
  BY TurnIs DEF PutRow, TakesTurn
<1>p. PICK p : p = Saves(Others) \o Tail(op.todo)
  OBVIOUS
<1>2. PICK d \in {0, 1} : Remains(q, p, d, k)
  BY <1>0, <1>1, <1>q, <1>k, <1>p, OthersRemain
<1>s. PICK s : s = Due.to[k]
  OBVIOUS
<1>3. /\ q \in Seq(Entry) /\ k \in Runs /\ 1 \in DOMAIN q /\ Saving(q, 1, k) /\ DOMAIN q \subseteq Nat \ {0}
      /\ s.rec = RecAt(q, 1, k) /\ s.body = BodyAt(q, 1, k)
      /\ s.rec \in Record /\ s.body \in Body /\ s.body # None /\ s.rec # None
  <2>1. (\A b \in Body : b # None) /\ \A b \in Record : b # None
    BY Bounded
  <2> QED BY <1>0, <1>1, <1>q, <1>k, <1>s, <2>1, DueIs, SeqParts
<1>4. /\ meta' = [meta EXCEPT ![k] = s.rec] /\ jobs' = jobs \cup {<<k, s.rec>>}
      /\ left' = [left EXCEPT !.unsent = @ \ {k}]
      /\ UNCHANGED <<blob, active, listed, text, cached, index>>
  BY <1>1, <1>k, <1>s DEF PutRow
<1>5. /\ p \in Seq(Entry) /\ DOMAIN p \subseteq Nat \ {0}
      /\ \A i \in DOMAIN p : i + d \in DOMAIN q
      /\ \A i \in DOMAIN p, r \in Runs : Saving(p, i, r) =>
           /\ Saving(q, i + d, r) /\ BodyAt(p, i, r) = BodyAt(q, i + d, r) /\ RecAt(p, i, r) = RecAt(q, i + d, r)
           /\ ~(i + d = 1 /\ r = k)
      /\ Once(q) => Once(p)
      /\ \A j \in DOMAIN q, r \in Runs : Saving(q, j, r) /\ ~(j = 1 /\ r = k) =>
           Saving(p, j - d, r) /\ BodyAt(p, j - d, r) = BodyAt(q, j, r) /\ j - d \in DOMAIN p
  BY <1>2, <1>3, RemainsIs
<1>6. /\ op'.todo = p /\ op'.half = FALSE /\ op' \in [todo : Seq(Entry), half : BOOLEAN, decides : Runs \cup {None}]
      /\ p = <<>> => op' = NoOp /\ answered' = op.decides
      /\ p # <<>> => op'.decides = op.decides /\ answered' = None
      /\ answered' \in Runs \cup {None}
  BY <1>0, <1>1, <1>5, <1>p, GoesOnIs
<1>7. /\ \A r \in Runs : meta'[r] = IF r = k THEN s.rec ELSE meta[r]
      /\ meta' \in [Runs -> Record \cup {None}]
      /\ left'.lost = left.lost /\ left'.calls = left.calls /\ left'.opened = left.opened
      /\ left'.unsent = left.unsent \ {k} /\ left'.struck = left.struck /\ Bounds'
  BY <1>0, <1>3, <1>4 DEF Types, Bounds
<1>8. Types'
  BY <1>0, <1>3, <1>4, <1>6, <1>7 DEF Types
<1>9. cached[k] = s.body /\ (blob[k] = s.body \/ k \in left.lost) /\ (\A r \in left.lost : blob[r] = None)
  BY <1>0, <1>1, <1>k, <1>s DEF Halves
<1>10. Once(q) /\ Once(p) /\ \A i \in DOMAIN q : Saving(q, i, k) => i = 1
  BY <1>0, <1>3, <1>5, <1>q DEF Orderly, Once
<1>11. \A i \in DOMAIN p : ~Saving(p, i, k)
  BY <1>3, <1>5, <1>10
<1>12. Orderly'
  <2>1. k <= left.opened
    BY <1>0, <1>3, <1>q DEF Orderly
  <2>2. ~(k > left.opened)
    BY <1>0, <1>3, <2>1, Bounded DEF Types, Bounds
  <2>3. \A i \in DOMAIN p, r \in Runs : Saving(p, i, r) => r <= left.opened
    BY <1>0, <1>5, <1>q DEF Orderly
  <2> QED BY <1>0, <1>4, <1>6, <1>7, <1>10, <2>2, <2>3 DEF Orderly, Saving, Is
<1>13. Halves'
  BY <1>4, <1>6, <1>7, <1>9 DEF Halves, Idle, NoOp
<1>14. RecAt(q, 1, k).hunks = StatusesOf(s.body) /\ s.rec.hunks = StatusesOf(s.body) /\ Len(s.rec.hunks) = Len(s.body) /\ Len(s.body) \in Nat
  <2>1. s.rec.hunks = StatusesOf(s.body)
    BY <1>0, <1>3, <1>q DEF Whole, Longer
  <2> QED BY <1>3, <2>1, BodyParts
<1>15. Whole'
  <2>1. RowsHaveBodies'
    <3> SUFFICES ASSUME NEW r \in Runs, Stored(r)', r \notin left'.lost PROVE blob[r] # None /\ Len(blob[r]) >= Len(meta'[r].hunks)
      BY <1>4 DEF RowsHaveBodies
    <3>1. CASE r = k
      BY <1>3, <1>7, <1>9, <1>14, <3>1
    <3>2. CASE r # k
      BY <1>0, <1>7, <3>2 DEF Whole, RowsHaveBodies, Stored
    <3> QED BY <3>1, <3>2
  <2>2. ASSUME NEW i \in DOMAIN p, NEW r \in Runs, Saving(p, i, r)
        PROVE  /\ RecAt(p, i, r).hunks = StatusesOf(BodyAt(p, i, r))
               /\ meta'[r] # None => Len(BodyAt(p, i, r)) >= Len(meta'[r].hunks)
               /\ blob[r] # None => Len(BodyAt(p, i, r)) >= Len(blob[r])
    <3>1. r # k /\ i + d \in DOMAIN q /\ Saving(q, i + d, r) /\ BodyAt(p, i, r) = BodyAt(q, i + d, r) /\ RecAt(p, i, r) = RecAt(q, i + d, r)
      BY <1>5, <1>11, <2>2
    <3> QED BY <1>0, <1>7, <1>q, <3>1 DEF Whole, Longer
  <2>3. Longer(op.todo)'
    BY <1>4, <1>6, <2>2 DEF Longer, Saving, Is, RecAt, BodyAt
  <2> QED BY <1>0, <1>4, <2>1, <2>3 DEF Whole
<1>16. Answers'
  <2> PICK c : c = op.decides
    OBVIOUS
  <2>0. c \in Runs \cup {None}
    BY <1>0 DEF Types
  <2>1. ASSUME c = k PROVE Agreed(k)'
    <3>1. s.rec.open => Pending(s.body) # {}
      BY <1>0, <1>3, <1>q, <2>1, Bounded DEF Answers, Settling
    <3>2. blob[k] # None => blob[k] = s.body
      BY <1>9
    <3> QED BY <1>3, <1>4, <1>7, <1>14, <3>1, <3>2 DEF Agreed
  <2>2. ASSUME c # None, c # k, \A i \in DOMAIN p : ~Saving(p, i, c) PROVE Agreed(c)'
    <3>1. c \in Runs
      BY <2>0, <2>2
    <3>2. \A i \in DOMAIN q : ~Saving(q, i, c)
      BY <1>5, <2>2, <3>1
    <3>3. Agreed(c)
      BY <1>0, <1>q, <2>2, <3>2 DEF Answers, Settling
    <3> QED BY <1>4, <1>7, <2>2, <3>1, <3>3 DEF Agreed
  <2>3. CASE p = <<>>
    <3>1. op' = NoOp /\ answered' = c /\ op'.decides = None /\ \A i \in DOMAIN p : ~Saving(p, i, c)
      BY <1>6, <2>3 DEF NoOp, Saving, Is
    <3>2. c # None => Agreed(c)'
      BY <2>1, <2>2, <3>1
    <3>3. Idle'
      BY <3>1 DEF Idle, NoOp
    <3>4. answered' # None => Agreed(answered)'
      BY <3>1, <3>2 DEF Agreed
    <3> QED BY <3>1, <3>3, <3>4 DEF Answers
  <2>4. CASE p # <<>>
    <3>1. answered' = None /\ op'.decides = c /\ op'.todo = p
      BY <1>6, <2>4
    <3>2. ASSUME c # None
          PROVE  /\ \A i \in DOMAIN p : Saving(p, i, c) => (RecAt(p, i, c).open => Pending(BodyAt(p, i, c)) # {})
                 /\ (\A i \in DOMAIN p : ~Saving(p, i, c)) => Agreed(c)'
      <4>1. c \in Runs
        BY <2>0, <3>2
      <4>2. \A i \in DOMAIN q : Saving(q, i, c) => (RecAt(q, i, c).open => Pending(BodyAt(q, i, c)) # {})
        BY <1>0, <1>q, <3>2 DEF Answers, Settling
      <4>3. \A i \in DOMAIN p : Saving(p, i, c) => (RecAt(p, i, c).open => Pending(BodyAt(p, i, c)) # {})
        BY <1>5, <4>1, <4>2
      <4> QED BY <2>1, <2>2, <3>2, <4>3
    <3>3. c # None => Settling(p, c)'
      BY <3>2 DEF Settling, Saving, Is, RecAt, BodyAt, Agreed
    <3>4. op'.decides # None => Settling(op.todo, op.decides)'
      BY <3>1, <3>3 DEF Settling, Saving, Is, RecAt, BodyAt, Agreed
    <3> QED BY <3>1, <3>4 DEF Answers
  <2> QED BY <2>3, <2>4
<1>17. meta[k] # None => Older(meta[k], s.rec)
  BY <1>0, <1>3, <1>q DEF Stamps, Newer
<1>18. Stamps'
  <2>0. Then' = Then
    BY <1>7 DEF Then
  <2>1. \A r \in Runs : meta'[r] # None => meta'[r].updated_at <= Then
    <3>1. s.rec.updated_at <= Then
      BY <1>0, <1>3, <1>q DEF Stamps, Newer
    <3> QED BY <1>0, <1>7, <3>1 DEF Stamps
  <2>2. \A i \in DOMAIN p, r \in Runs : Saving(p, i, r) =>
          RecAt(p, i, r).updated_at <= Then /\ (meta'[r] # None => Older(meta'[r], RecAt(p, i, r)))
    <3> SUFFICES ASSUME NEW i \in DOMAIN p, NEW r \in Runs, Saving(p, i, r)
                 PROVE  RecAt(p, i, r).updated_at <= Then /\ (meta'[r] # None => Older(meta'[r], RecAt(p, i, r)))
      OBVIOUS
    <3>1. r # k /\ i + d \in DOMAIN q /\ Saving(q, i + d, r) /\ RecAt(p, i, r) = RecAt(q, i + d, r)
      BY <1>5, <1>11
    <3> QED BY <1>0, <1>7, <1>q, <3>1 DEF Stamps, Newer
  <2>3. \A j \in jobs' : meta'[j[1]] # None /\ Older(j[2], meta'[j[1]])
    <3> SUFFICES ASSUME NEW j \in jobs' PROVE meta'[j[1]] # None /\ Older(j[2], meta'[j[1]])
      OBVIOUS
    <3>1. CASE j = <<k, s.rec>>
      BY <1>3, <1>7, <3>1, OlderIs
    <3>2. CASE j \in jobs
      <4>1. j[1] \in Runs /\ j[2] \in Record /\ meta[j[1]] # None /\ meta[j[1]] \in Record /\ Older(j[2], meta[j[1]])
        BY <1>0, <3>2 DEF Types, Stamps
      <4>2. CASE j[1] = k
        BY <1>3, <1>7, <1>17, <4>1, <4>2, OlderIs
      <4>3. CASE j[1] # k
        BY <1>7, <4>1, <4>3
      <4> QED BY <4>2, <4>3
    <3> QED BY <1>4, <3>1, <3>2
  <2>4. \A r \in Runs : index[r] # None => meta'[r] # None /\ Older(index[r], meta'[r])
    <3> SUFFICES ASSUME NEW r \in Runs, index[r] # None PROVE meta'[r] # None /\ Older(index[r], meta'[r])
      OBVIOUS
    <3>1. index[r] \in Record /\ meta[r] # None /\ meta[r] \in Record /\ Older(index[r], meta[r])
      BY <1>0 DEF Types, Stamps
    <3>2. CASE r = k
      BY <1>3, <1>7, <1>17, <3>1, <3>2, OlderIs
    <3>3. CASE r # k
      BY <1>7, <3>1, <3>3
    <3> QED BY <3>2, <3>3
  <2>5. ASSUME NEW r \in Runs \ left'.unsent, meta'[r] # None PROVE <<r, meta'[r]>> \in jobs' \/ Shown(r)'
    <3>1. CASE r = k
      BY <1>4, <1>7, <3>1
    <3>2. CASE r # k
      <4>1. meta'[r] = meta[r] /\ r \notin left.unsent
        BY <1>7, <2>5, <3>2
      <4>2. <<r, meta[r]>> \in jobs \/ Shown(r)
        BY <1>0, <2>5, <4>1 DEF Stamps
      <4> QED BY <1>4, <4>1, <4>2 DEF Shown, Same
    <3> QED BY <3>1, <3>2
  <2>6. Newer(op.todo, Then)'
    BY <1>6, <2>0, <2>2 DEF Newer, Older, Same, Saving, Is, RecAt
  <2>7. \A r \in Runs : index'[r] # None => meta'[r] # None /\ Older(index'[r], meta'[r])
    BY <1>4, <2>4
  <2>8. (\A j \in jobs : meta[j[1]] # None /\ Older(j[2], meta[j[1]]))'
    BY <2>3 DEF Older, Same
  <2> QED BY <2>0, <2>1, <2>5, <2>6, <2>7, <2>8 DEF Stamps, Older, Same
<1>19. Remembered'
  <2> SUFFICES ASSUME NoPutFailed
               PROVE  SavedNotesAreListed' /\ Mirrors(op.todo, cached)' /\ Noted(op.todo, cached)'
    BY <1>7 DEF Remembered, NoPutFailed
  <2>1. SavedNotesAreListed /\ Mirrors(q, cached) /\ Minds(q, cached) /\ Lists(q) /\ Drops(q)
    BY <1>0, <1>q DEF Remembered, Noted
  <2>2. OpenNotes(s.body) # {} => StaysListed(q, k) /\ k \in listed
    <3>1. \A j \in DOMAIN q : ~(j < 1)
      BY <1>3
    <3> QED BY <1>3, <2>1, <3>1 DEF Lists
  <2>3. SavedNotesAreListed'
    <3> SUFFICES ASSUME NEW r \in Runs, Stored(r)', blob[r] # None, OpenNotes(blob[r]) # {} PROVE r \in listed
      BY <1>4 DEF SavedNotesAreListed
    <3>1. CASE r = k
      BY <1>9, <2>2, <3>1
    <3>2. CASE r # k
      BY <1>7, <2>1, <3>2 DEF SavedNotesAreListed, Stored
    <3> QED BY <3>1, <3>2
  <2>4. Mirrors(op.todo, cached)'
    <3>1. \A r \in Runs : cached[r] # None /\ blob[r] # None => cached[r] = blob[r] \/ \E i \in DOMAIN p : Saving(p, i, r)
      <4> SUFFICES ASSUME NEW r \in Runs, cached[r] # None, blob[r] # None
                   PROVE  cached[r] = blob[r] \/ \E i \in DOMAIN p : Saving(p, i, r)
        OBVIOUS
      <4>1. CASE r = k
        BY <1>9, <4>1
      <4>2. CASE r # k
        BY <1>5, <2>1, <4>2 DEF Mirrors
      <4> QED BY <4>1, <4>2
    <3> QED BY <1>4, <1>6, <3>1 DEF Mirrors, Saving, Is
  <2>5. /\ \A i \in DOMAIN p : Is(p, i, "list") => Is(q, i + d, "list") /\ p[i].to = q[i + d].to
        /\ \A r \in Runs : StaysListed(q, r) => StaysListed(p, r)
        /\ \A j \in DOMAIN q : Is(q, j, "list") => j - d \in DOMAIN p /\ Is(p, j - d, "list")
        /\ \A i \in DOMAIN p, j \in DOMAIN q : j < i + d => j - d < i
    <3>1. \A j \in DOMAIN q : Is(q, j, "list") => j > 1
      BY <1>3 DEF Is, Saving
    <3> QED BY <1>2, <1>3, <3>1, RemainsIs
  <2>6. \A r \in Runs : meta'[r] # None /\ cached[r] # None /\ OpenNotes(cached[r]) # {} =>
          StaysListed(p, r) /\ (r \in listed \/ \E i \in DOMAIN p : Is(p, i, "list"))
    <3> SUFFICES ASSUME NEW r \in Runs, meta'[r] # None, cached[r] # None, OpenNotes(cached[r]) # {}
                 PROVE  StaysListed(p, r) /\ (r \in listed \/ \E i \in DOMAIN p : Is(p, i, "list"))
      OBVIOUS
    <3>1. CASE r = k
      BY <1>9, <2>2, <2>5, <3>1
    <3>2. CASE r # k
      <4>1. Stored(r)
        BY <1>7, <3>2, Bounded DEF Stored
      <4> QED BY <2>1, <2>5, <4>1 DEF Minds
    <3> QED BY <3>1, <3>2
  <2>7. \A i \in DOMAIN p, r \in Runs : Saving(p, i, r) /\ OpenNotes(BodyAt(p, i, r)) # {} =>
          StaysListed(p, r) /\ (r \in listed \/ \E j \in DOMAIN p : j < i /\ Is(p, j, "list"))
    <3> SUFFICES ASSUME NEW i \in DOMAIN p, NEW r \in Runs, Saving(p, i, r), OpenNotes(BodyAt(p, i, r)) # {}
                 PROVE  StaysListed(p, r) /\ (r \in listed \/ \E j \in DOMAIN p : j < i /\ Is(p, j, "list"))
      OBVIOUS
    <3>1. i + d \in DOMAIN q /\ Saving(q, i + d, r) /\ OpenNotes(BodyAt(q, i + d, r)) # {}
      BY <1>5
    <3>2. StaysListed(q, r) /\ (r \in listed \/ \E j \in DOMAIN q : j < i + d /\ Is(q, j, "list"))
      BY <2>1, <3>1 DEF Lists
    <3> QED BY <2>5, <3>2
  <2>8. \A i \in DOMAIN p, r \in Runs :
          /\ Is(p, i, "list") /\ r \notin p[i].to
          /\ meta'[r] # None /\ blob[r] # None /\ OpenNotes(blob[r]) # {}
          => \E j \in DOMAIN p : j < i /\ Saving(p, j, r)
    <3> SUFFICES ASSUME NEW i \in DOMAIN p, NEW r \in Runs, Is(p, i, "list"), r \notin p[i].to,
                        meta'[r] # None, blob[r] # None, OpenNotes(blob[r]) # {}
                 PROVE  \E j \in DOMAIN p : j < i /\ Saving(p, j, r)
      OBVIOUS
    <3>1. i + d \in DOMAIN q /\ Is(q, i + d, "list") /\ r \notin q[i + d].to
      BY <1>5, <2>5
    <3>2. r # k
      BY <1>9, <2>2, <3>1 DEF StaysListed
    <3>3. Stored(r)
      BY <1>7, <3>2, Bounded DEF Stored
    <3>4. PICK j \in DOMAIN q : j < i + d /\ Saving(q, j, r)
      BY <2>1, <3>1, <3>3 DEF Drops
    <3> QED BY <1>5, <2>5, <3>2, <3>4
  <2>9. Minds(op.todo, cached)'
    BY <1>4, <1>6, <2>6 DEF Minds, Stored, StaysListed, Is
  <2>10. Lists(op.todo)'
    BY <1>4, <1>6, <2>7 DEF Lists, StaysListed, Saving, Is, BodyAt
  <2>11. Drops(op.todo)'
    BY <1>4, <1>6, <2>8 DEF Drops, Stored, Saving, Is
  <2> QED BY <2>3, <2>4, <2>9, <2>10, <2>11 DEF Noted
<1>20. Recorded'
  <2> SUFFICES ASSUME "blob" \notin left.struck PROVE Landing(op.todo, cached)'
    BY <1>7 DEF Recorded
  <2>1. InText(q) /\ ToCome(q, cached) /\ NoneAfter(q)
    BY <1>0, <1>q DEF Recorded, Landing
  <2>2. /\ \A i \in DOMAIN p, what \in {"list", "text"} : Is(p, i, what) => Is(q, i + d, what) /\ p[i].to = q[i + d].to
        /\ \A j \in DOMAIN q : Is(q, j, "text") => j - d \in DOMAIN p /\ Is(p, j - d, "text")
        /\ \A i \in DOMAIN p, j \in DOMAIN q : j < i + d => j - d < i
        /\ \A i, j \in DOMAIN p : i < j => i + d < j + d
    <3>1. \A j \in DOMAIN q : Is(q, j, "text") => j > 1
      BY <1>3 DEF Is, Saving
    <3> QED BY <1>2, <1>3, <3>1, RemainsIs
  <2>3. ASSUME NEW i \in DOMAIN p, NEW r \in Runs \ left.lost, Saving(p, i, r), NEW h \in Landed(BodyAt(p, i, r)) \ LandedIn(blob[r])
        PROVE  /\ \A j \in DOMAIN p : j < i /\ Is(p, j, "text") => <<r, h>> \in p[j].to
               /\ <<r, h>> \in text \/ \E j \in DOMAIN p : j < i /\ Is(p, j, "text")
    <3>1. i + d \in DOMAIN q /\ Saving(q, i + d, r) /\ h \in Landed(BodyAt(q, i + d, r)) \ LandedIn(blob[r])
      BY <1>5, <2>3
    <3>2. /\ \A j \in DOMAIN q : j < i + d /\ Is(q, j, "text") => <<r, h>> \in q[j].to
          /\ <<r, h>> \in text \/ \E j \in DOMAIN q : j < i + d /\ Is(q, j, "text")
      BY <2>1, <3>1 DEF InText
    <3> QED BY <1>5, <2>2, <3>2
  <2>4. ASSUME NEW r \in Runs \ left.lost, cached[r] # None, NEW h \in Landed(cached[r]) \ LandedIn(blob[r])
        PROVE  \E i \in DOMAIN p : Saving(p, i, r) /\ h \in Landed(BodyAt(p, i, r))
    <3>1. r # k
      BY <1>3, <1>9, <2>4 DEF LandedIn
    <3>2. PICK i \in DOMAIN q : Saving(q, i, r) /\ h \in Landed(BodyAt(q, i, r))
      BY <2>1, <2>4 DEF ToCome
    <3> QED BY <1>5, <3>1, <3>2
  <2>5. ASSUME NEW i \in DOMAIN p, NEW j \in DOMAIN p, NEW r \in Runs \ left.lost,
               i < j, Is(p, i, "list"), Saving(p, j, r)
        PROVE  Landed(BodyAt(p, j, r)) \subseteq LandedIn(blob[r])
    BY <1>5, <2>1, <2>2, <2>5 DEF NoneAfter
  <2>6. InText(op.todo)'
    BY <1>4, <1>6, <1>7, <2>3 DEF InText, Saving, Is, BodyAt
  <2>7. ToCome(op.todo, cached)'
    BY <1>4, <1>6, <1>7, <2>4 DEF ToCome, Saving, Is, BodyAt
  <2>8. NoneAfter(op.todo)'
    BY <1>4, <1>6, <1>7, <2>5 DEF NoneAfter, Saving, Is, BodyAt
  <2> QED BY <2>6, <2>7, <2>8 DEF Landing
<1> QED BY <1>8, <1>12, <1>13, <1>15, <1>16, <1>18, <1>19, <1>20 DEF IInv

\* The pointer, the list or the text is stored.
LEMMA PutOtherStep ==
  ASSUME IInv, PutOther
  PROVE  IInv'
<1>0. Types /\ Orderly /\ Halves /\ Whole /\ Answers /\ Stamps /\ Remembered /\ Recorded
  BY DEF IInv
<1>q. PICK q : q = op.todo
  OBVIOUS
<1>p. PICK p : p = Tail(op.todo)
  OBVIOUS
<1>e. PICK e : e = Due
  OBVIOUS
<1>1. ~Idle /\ e.do # "save" /\ GoesOn(p)
  BY <1>p, <1>e DEF PutOther
<1>3. /\ q \in Seq(Entry) /\ q # <<>> /\ 1 \in DOMAIN q /\ DOMAIN q \subseteq Nat \ {0} /\ e = q[1] /\ e \in Entry
  BY <1>0, <1>1, <1>q, <1>e, DueIs, SeqParts
<1>2. Remains(q, p, 1, 0)
  BY <1>1, <1>3, <1>q, <1>p, TailRemains
<1>4. /\ active' = (IF e.do = "active" THEN e.to ELSE active)
      /\ listed' = (IF e.do = "list" THEN e.to ELSE listed)
      /\ text' = (IF e.do = "text" THEN e.to ELSE text)
      /\ UNCHANGED <<blob, meta, cached, index, jobs, left>>
  BY <1>e DEF PutOther
<1>5. /\ p \in Seq(Entry) /\ DOMAIN p \subseteq Nat \ {0}
      /\ \A i \in DOMAIN p : i + 1 \in DOMAIN q /\ 1 < i + 1
      /\ \A i \in DOMAIN p, r \in Runs : Saving(p, i, r) =>
           Saving(q, i + 1, r) /\ BodyAt(p, i, r) = BodyAt(q, i + 1, r) /\ RecAt(p, i, r) = RecAt(q, i + 1, r)
      /\ Once(q) => Once(p)
      /\ \A j \in DOMAIN q, r \in Runs : Saving(q, j, r) =>
           Saving(p, j - 1, r) /\ BodyAt(p, j - 1, r) = BodyAt(q, j, r) /\ j - 1 \in DOMAIN p
      /\ \A i \in DOMAIN p, what \in {"list", "text"} : Is(p, i, what) => Is(q, i + 1, what) /\ p[i].to = q[i + 1].to
      /\ \A r \in Runs : StaysListed(q, r) => StaysListed(p, r)
      /\ \A j \in DOMAIN q, what \in {"list", "text"} : Is(q, j, what) /\ j # 1 =>
           j - 1 \in DOMAIN p /\ Is(p, j - 1, what) /\ p[j - 1].to = q[j].to
      /\ \A i \in DOMAIN p, j \in DOMAIN q : j < i + 1 => j - 1 < i
      /\ \A i, j \in DOMAIN p : i < j => i + 1 < j + 1
  <2>1. \A j \in DOMAIN q, r \in Runs : ~(j = 1 /\ r = 0)
    BY Bounded
  <2>2. \A j \in DOMAIN q : j # 1 => j > 1
    BY <1>3
  <2>3. p \in Seq(Entry) /\ DOMAIN p \subseteq Nat \ {0} /\ \A i \in DOMAIN p : i + 1 \in DOMAIN q
    BY <1>2, <1>3, RemainsIs
  <2>4. \A i \in DOMAIN p : 1 < i + 1
    BY <2>3
  <2> QED BY <1>2, <1>3, <2>1, <2>2, <2>3, <2>4, RemainsIs
<1>6. /\ op'.todo = p /\ op'.half = FALSE /\ op' \in [todo : Seq(Entry), half : BOOLEAN, decides : Runs \cup {None}]
      /\ p = <<>> => op' = NoOp /\ answered' = op.decides
      /\ p # <<>> => op'.decides = op.decides /\ answered' = None
      /\ answered' \in Runs \cup {None}
  BY <1>0, <1>1, <1>5, GoesOnIs
<1>8. Types'
  <2>1. active' \in Runs \cup {None} /\ listed' \subseteq Runs /\ text' \subseteq Keys
    BY <1>0, <1>3, <1>4, EntryIs DEF Types
  <2>2. Bounds'
    BY <1>0, <1>4 DEF Types, Bounds
  <2> QED BY <1>0, <1>4, <1>6, <2>1, <2>2 DEF Types
<1>12. Orderly'
  <2>1. Once(p) /\ \A i \in DOMAIN p, r \in Runs : Saving(p, i, r) => r <= left.opened
    BY <1>0, <1>5, <1>q DEF Orderly
  <2> QED BY <1>0, <1>4, <1>6, <2>1 DEF Orderly, Saving, Is
<1>13. Halves'
  BY <1>0, <1>4, <1>6 DEF Halves, Idle, NoOp
<1>15. Whole'
  <2>2. ASSUME NEW i \in DOMAIN p, NEW r \in Runs, Saving(p, i, r)
        PROVE  /\ RecAt(p, i, r).hunks = StatusesOf(BodyAt(p, i, r))
               /\ meta[r] # None => Len(BodyAt(p, i, r)) >= Len(meta[r].hunks)
               /\ blob[r] # None => Len(BodyAt(p, i, r)) >= Len(blob[r])
    BY <1>0, <1>5, <1>q, <2>2 DEF Whole, Longer
  <2>3. Longer(op.todo)'
    BY <1>4, <1>6, <2>2 DEF Longer, Saving, Is, RecAt, BodyAt
  <2>4. RowsHaveBodies'
    BY <1>0, <1>4 DEF Whole, RowsHaveBodies, Stored
  <2> QED BY <1>0, <1>4, <2>3, <2>4 DEF Whole
<1>16. Answers'
  <2> PICK c : c = op.decides
    OBVIOUS
  <2>0. c \in Runs \cup {None}
    BY <1>0 DEF Types
  <2>2. ASSUME c # None, \A i \in DOMAIN p : ~Saving(p, i, c) PROVE Agreed(c)'
    <3>1. c \in Runs
      BY <2>0, <2>2
    <3>2. \A i \in DOMAIN q : ~Saving(q, i, c)
      BY <1>5, <2>2, <3>1
    <3>3. Agreed(c)
      BY <1>0, <1>q, <2>2, <3>2 DEF Answers, Settling
    <3> QED BY <1>4, <3>3 DEF Agreed
  <2>3. CASE p = <<>>
    <3>1. op' = NoOp /\ answered' = c /\ op'.decides = None /\ \A i \in DOMAIN p : ~Saving(p, i, c)
      BY <1>6, <2>3 DEF NoOp, Saving, Is
    <3>2. c # None => Agreed(c)'
      BY <2>2, <3>1
    <3>3. Idle'
      BY <3>1 DEF Idle, NoOp
    <3>4. answered' # None => Agreed(answered)'
      BY <3>1, <3>2 DEF Agreed
    <3> QED BY <3>1, <3>3, <3>4 DEF Answers
  <2>4. CASE p # <<>>
    <3>1. answered' = None /\ op'.decides = c /\ op'.todo = p
      BY <1>6, <2>4
    <3>2. ASSUME c # None
          PROVE  /\ \A i \in DOMAIN p : Saving(p, i, c) => (RecAt(p, i, c).open => Pending(BodyAt(p, i, c)) # {})
                 /\ (\A i \in DOMAIN p : ~Saving(p, i, c)) => Agreed(c)'
      <4>1. c \in Runs
        BY <2>0, <3>2
      <4>2. \A i \in DOMAIN q : Saving(q, i, c) => (RecAt(q, i, c).open => Pending(BodyAt(q, i, c)) # {})
        BY <1>0, <1>q, <3>2 DEF Answers, Settling
      <4>3. \A i \in DOMAIN p : Saving(p, i, c) => (RecAt(p, i, c).open => Pending(BodyAt(p, i, c)) # {})
        BY <1>5, <4>1, <4>2
      <4> QED BY <2>2, <3>2, <4>3
    <3>3. c # None => Settling(p, c)'
      BY <3>2 DEF Settling, Saving, Is, RecAt, BodyAt, Agreed
    <3>4. op'.decides # None => Settling(op.todo, op.decides)'
      BY <3>1, <3>3 DEF Settling, Saving, Is, RecAt, BodyAt, Agreed
    <3> QED BY <3>1, <3>4 DEF Answers
  <2> QED BY <2>3, <2>4
<1>18. Stamps'
  <2>0. Then' = Then
    BY <1>4 DEF Then
  <2>2. \A i \in DOMAIN p, r \in Runs : Saving(p, i, r) =>
          RecAt(p, i, r).updated_at <= Then /\ (meta[r] # None => Older(meta[r], RecAt(p, i, r)))
    BY <1>0, <1>5, <1>q DEF Stamps, Newer
  <2>6. Newer(op.todo, Then)'
    BY <1>4, <1>6, <2>0, <2>2 DEF Newer, Older, Same, Saving, Is, RecAt
  <2> QED BY <1>0, <1>4, <2>0, <2>6 DEF Stamps, Older, Same, Shown
<1>19. Remembered'
  <2> SUFFICES ASSUME NoPutFailed
               PROVE  SavedNotesAreListed' /\ Mirrors(op.todo, cached)' /\ Noted(op.todo, cached)'
    BY <1>4 DEF Remembered, NoPutFailed
  <2>1. SavedNotesAreListed /\ Mirrors(q, cached) /\ Minds(q, cached) /\ Lists(q) /\ Drops(q)
    BY <1>0, <1>q DEF Remembered, Noted
  <2>2. Is(q, 1, "list") <=> e.do = "list"
    BY <1>3 DEF Is
  <2>3. SavedNotesAreListed'
    <3> SUFFICES ASSUME NEW r \in Runs, Stored(r), blob[r] # None, OpenNotes(blob[r]) # {} PROVE r \in listed'
      BY <1>4 DEF SavedNotesAreListed, Stored
    <3>1. CASE e.do = "list"
      <4>1. \A j \in DOMAIN q : ~(j < 1)
        BY <1>3
      <4>2. r \in q[1].to
        BY <1>3, <2>1, <2>2, <3>1, <4>1 DEF Drops
      <4> QED BY <1>3, <1>4, <3>1, <4>2
    <3>2. CASE e.do # "list"
      BY <1>4, <2>1, <3>2 DEF SavedNotesAreListed
    <3> QED BY <3>1, <3>2
  <2>4. Mirrors(op.todo, cached)'
    <3>1. \A r \in Runs : cached[r] # None /\ blob[r] # None => cached[r] = blob[r] \/ \E i \in DOMAIN p : Saving(p, i, r)
      BY <1>5, <2>1 DEF Mirrors
    <3> QED BY <1>4, <1>6, <3>1 DEF Mirrors, Saving, Is
  <2>5. ASSUME NEW r \in Runs, StaysListed(q, r) PROVE e.do = "list" => r \in listed'
    BY <1>3, <1>4, <2>2, <2>5 DEF StaysListed
  <2>6. \A r \in Runs : Stored(r) /\ cached[r] # None /\ OpenNotes(cached[r]) # {} =>
          StaysListed(p, r) /\ (r \in listed' \/ \E i \in DOMAIN p : Is(p, i, "list"))
    <3> SUFFICES ASSUME NEW r \in Runs, Stored(r), cached[r] # None, OpenNotes(cached[r]) # {}
                 PROVE  StaysListed(p, r) /\ (r \in listed' \/ \E i \in DOMAIN p : Is(p, i, "list"))
      OBVIOUS
    <3>1. StaysListed(q, r) /\ (r \in listed \/ \E i \in DOMAIN q : Is(q, i, "list"))
      BY <2>1 DEF Minds
    <3> QED BY <1>4, <1>5, <2>2, <2>5, <3>1
  <2>7. \A i \in DOMAIN p, r \in Runs : Saving(p, i, r) /\ OpenNotes(BodyAt(p, i, r)) # {} =>
          StaysListed(p, r) /\ (r \in listed' \/ \E j \in DOMAIN p : j < i /\ Is(p, j, "list"))
    <3> SUFFICES ASSUME NEW i \in DOMAIN p, NEW r \in Runs, Saving(p, i, r), OpenNotes(BodyAt(p, i, r)) # {}
                 PROVE  StaysListed(p, r) /\ (r \in listed' \/ \E j \in DOMAIN p : j < i /\ Is(p, j, "list"))
      OBVIOUS
    <3>1. i + 1 \in DOMAIN q /\ Saving(q, i + 1, r) /\ OpenNotes(BodyAt(q, i + 1, r)) # {}
      BY <1>5
    <3>2. StaysListed(q, r) /\ (r \in listed \/ \E j \in DOMAIN q : j < i + 1 /\ Is(q, j, "list"))
      BY <2>1, <3>1 DEF Lists
    <3> QED BY <1>4, <1>5, <2>2, <2>5, <3>2
  <2>8. \A i \in DOMAIN p, r \in Runs :
          /\ Is(p, i, "list") /\ r \notin p[i].to
          /\ Stored(r) /\ blob[r] # None /\ OpenNotes(blob[r]) # {}
          => \E j \in DOMAIN p : j < i /\ Saving(p, j, r)
    <3> SUFFICES ASSUME NEW i \in DOMAIN p, NEW r \in Runs, Is(p, i, "list"), r \notin p[i].to,
                        Stored(r), blob[r] # None, OpenNotes(blob[r]) # {}
                 PROVE  \E j \in DOMAIN p : j < i /\ Saving(p, j, r)
      OBVIOUS
    <3>1. i + 1 \in DOMAIN q /\ Is(q, i + 1, "list") /\ r \notin q[i + 1].to
      BY <1>5
    <3>4. PICK j \in DOMAIN q : j < i + 1 /\ Saving(q, j, r)
      BY <2>1, <3>1 DEF Drops
    <3> QED BY <1>5, <3>4
  <2>9. Minds(op.todo, cached)'
    BY <1>4, <1>6, <2>6 DEF Minds, Stored, StaysListed, Is
  <2>10. Lists(op.todo)'
    BY <1>4, <1>6, <2>7 DEF Lists, StaysListed, Saving, Is, BodyAt
  <2>11. Drops(op.todo)'
    BY <1>4, <1>6, <2>8 DEF Drops, Stored, Saving, Is
  <2> QED BY <2>3, <2>4, <2>9, <2>10, <2>11 DEF Noted
<1>20. Recorded'
  <2> SUFFICES ASSUME "blob" \notin left.struck PROVE Landing(op.todo, cached)'
    BY <1>4 DEF Recorded
  <2>1. InText(q) /\ ToCome(q, cached) /\ NoneAfter(q)
    BY <1>0, <1>q DEF Recorded, Landing
  <2>2. Is(q, 1, "text") <=> e.do = "text"
    BY <1>3 DEF Is
  <2>3. ASSUME NEW i \in DOMAIN p, NEW r \in Runs \ left.lost, Saving(p, i, r), NEW h \in Landed(BodyAt(p, i, r)) \ LandedIn(blob[r])
        PROVE  /\ \A j \in DOMAIN p : j < i /\ Is(p, j, "text") => <<r, h>> \in p[j].to
               /\ <<r, h>> \in text' \/ \E j \in DOMAIN p : j < i /\ Is(p, j, "text")
    <3>1. i + 1 \in DOMAIN q /\ Saving(q, i + 1, r) /\ h \in Landed(BodyAt(q, i + 1, r)) \ LandedIn(blob[r])
      BY <1>5, <2>3
    <3>2. /\ \A j \in DOMAIN q : j < i + 1 /\ Is(q, j, "text") => <<r, h>> \in q[j].to
          /\ <<r, h>> \in text \/ \E j \in DOMAIN q : j < i + 1 /\ Is(q, j, "text")
      BY <2>1, <3>1 DEF InText
    <3>3. \A j \in DOMAIN p : j < i /\ Is(p, j, "text") => <<r, h>> \in p[j].to
      BY <1>5, <3>2
    <3>4. CASE e.do = "text"
      <4>1. <<r, h>> \in q[1].to
        BY <1>3, <1>5, <2>2, <3>2, <3>4
      <4> QED BY <1>3, <1>4, <3>3, <3>4, <4>1
    <3>5. CASE e.do # "text"
      BY <1>4, <1>5, <2>2, <3>2, <3>3, <3>5
    <3> QED BY <3>4, <3>5
  <2>4. ASSUME NEW r \in Runs \ left.lost, cached[r] # None, NEW h \in Landed(cached[r]) \ LandedIn(blob[r])
        PROVE  \E i \in DOMAIN p : Saving(p, i, r) /\ h \in Landed(BodyAt(p, i, r))
    <3>2. PICK i \in DOMAIN q : Saving(q, i, r) /\ h \in Landed(BodyAt(q, i, r))
      BY <2>1, <2>4 DEF ToCome
    <3> QED BY <1>5, <3>2
  <2>5. ASSUME NEW i \in DOMAIN p, NEW j \in DOMAIN p, NEW r \in Runs \ left.lost,
               i < j, Is(p, i, "list"), Saving(p, j, r)
        PROVE  Landed(BodyAt(p, j, r)) \subseteq LandedIn(blob[r])
    BY <1>5, <2>1, <2>5 DEF NoneAfter
  <2>6. InText(op.todo)'
    BY <1>4, <1>6, <2>3 DEF InText, Saving, Is, BodyAt
  <2>7. ToCome(op.todo, cached)'
    BY <1>4, <1>6, <2>4 DEF ToCome, Saving, Is, BodyAt
  <2>8. NoneAfter(op.todo)'
    BY <1>4, <1>6, <2>5 DEF NoneAfter, Saving, Is, BodyAt
  <2> QED BY <2>6, <2>7, <2>8 DEF Landing
<1> QED BY <1>8, <1>12, <1>13, <1>15, <1>16, <1>18, <1>19, <1>20 DEF IInv

-----------------------------------------------------------------------------
(* The faults, the eviction and the index *)

LEMMA OneFaultLessIs ==
  ASSUME Bounds, NEW kind \in FaultKinds, left.faults > 0
  PROVE  LET new == OneFaultLess(kind)
         IN  /\ new.calls = left.calls /\ new.opened = left.opened /\ new.unsent = left.unsent /\ new.lost = left.lost
             /\ new.faults \in 0 .. MaxFaults /\ new.struck = left.struck \cup {kind}
             /\ new.struck \subseteq FaultKinds
             /\ new \in [calls : 0 .. MaxCalls, faults : 0 .. MaxFaults, opened : 0 .. MaxRuns, unsent : SUBSET Runs,
                         lost : SUBSET Runs, struck : SUBSET FaultKinds]
<1>1. left.faults - 1 \in 0 .. MaxFaults /\ left.struck \cup {kind} \subseteq FaultKinds
  BY Bounded DEF Bounds
<1>2. left \in [calls : 0 .. MaxCalls, faults : 0 .. MaxFaults, opened : 0 .. MaxRuns, unsent : SUBSET Runs,
                lost : SUBSET Runs, struck : SUBSET FaultKinds]
  BY DEF Bounds
<1>3. PICK new : new = OneFaultLess(kind)
  OBVIOUS
<1>4. /\ new.calls = left.calls /\ new.opened = left.opened /\ new.unsent = left.unsent /\ new.lost = left.lost
      /\ new.faults = left.faults - 1 /\ new.struck = left.struck \cup {kind}
      /\ new \in [calls : 0 .. MaxCalls, faults : 0 .. MaxFaults, opened : 0 .. MaxRuns, unsent : SUBSET Runs,
                  lost : SUBSET Runs, struck : SUBSET FaultKinds]
  BY <1>1, <1>2, <1>3 DEF OneFaultLess
<1> QED BY <1>1, <1>3, <1>4

\* A process with nothing to write: what remains of the invariant is about the disk.
LEMMA NothingToDo ==
  ASSUME IInv, op' = NoOp, answered' \in {None, answered}, cached' \in [Runs -> Body \cup {None}],
         NEW kind \in FaultKinds, left.faults > 0, left' = OneFaultLess(kind),
         UNCHANGED <<disk, index, jobs>>
  PROVE  Types' /\ Answers' /\ Stamps' /\ left'.opened = left.opened /\ left'.lost = left.lost
         /\ left'.struck = left.struck \cup {kind}
<1>0. Types /\ Answers /\ Stamps
  BY DEF IInv
<1>1. /\ left'.calls = left.calls /\ left'.opened = left.opened /\ left'.unsent = left.unsent
      /\ left'.lost = left.lost /\ left'.struck = left.struck \cup {kind}
  BY <1>0, OneFaultLessIs DEF Types
<1>2. Bounds'
  BY <1>0, OneFaultLessIs DEF Types, Bounds
<1>3. op'.todo = <<>> /\ op'.decides = None /\ op' \in [todo : Seq(Entry), half : BOOLEAN, decides : Runs \cup {None}]
  BY DEF NoOp
<1>4. Types'
  BY <1>0, <1>2, <1>3 DEF Types, disk
<1>5. Answers'
  <2>1. answered' # None => Agreed(answered)'
    BY <1>0 DEF Answers, Agreed, disk
  <2>2. Idle'
    BY <1>3 DEF Idle
  <2> QED BY <1>3, <2>1, <2>2 DEF Answers
<1>6. Stamps'
  <2>1. Then' = Then
    BY <1>1 DEF Then
  <2>2. Newer(op.todo, Then)'
    BY <1>3 DEF Newer
  <2> QED BY <1>0, <1>1, <2>1, <2>2 DEF Stamps, Older, Same, Shown, disk
<1> QED BY <1>1, <1>4, <1>5, <1>6

LEMMA PutFailsStep ==
  ASSUME IInv, PutFails
  PROVE  IInv'
<1>0. Types /\ Orderly /\ Halves /\ Whole /\ Answers /\ Stamps /\ Remembered /\ Recorded
  BY DEF IInv
<1>k. PICK kind : kind = PutKind
  OBVIOUS
<1>1. /\ ~Idle /\ kind \in FaultKinds /\ left.faults > 0 /\ left' = OneFaultLess(kind)
      /\ cached' = Mirror /\ op' = NoOp /\ UNCHANGED <<disk, index, jobs, answered>>
  BY <1>k, Bounded DEF PutFails, Struck
<1>2. /\ 1 \in DOMAIN op.todo /\ Due = op.todo[1] /\ Due.do \in {"active", "list", "text", "save"}
      /\ Due.do = "save" =>
              /\ First \in Runs /\ Saving(op.todo, 1, First)
              /\ Due.to[First].body = BodyAt(op.todo, 1, First) /\ Due.to[First].body \in Body
      /\ op.todo \in Seq(Entry)
  BY <1>0, <1>1, DueIs
<1>3. kind = "blob" \/ (kind = "list" /\ Due.do = "list" /\ cached' = cached)
  BY <1>1, <1>2, <1>k DEF PutKind, FaultKinds, Mirror
<1>4. cached' \in [Runs -> Body \cup {None}]
      /\ \A r \in Runs : cached'[r] = cached[r]
                         \/ (Due.do = "save" /\ r = First /\ cached'[r] = Due.to[First].body)
  BY <1>0, <1>1, <1>2 DEF Mirror, Types
<1>5. Types' /\ Answers' /\ Stamps' /\ left'.opened = left.opened /\ left'.lost = left.lost
      /\ left'.struck = left.struck \cup {kind}
  BY <1>1, <1>4, NothingToDo
<1>6. op'.todo = <<>> /\ ~op'.half
  BY <1>1 DEF NoOp
<1>7. Orderly'
  <2>1. ASSUME NEW r \in Runs, r > left.opened PROVE cached'[r] = None
    <3>1. ASSUME Due.do = "save", r = First PROVE FALSE
      <4>1. r <= left.opened
        BY <1>0, <1>2, <3>1 DEF Orderly
      <4> QED BY <1>0, <2>1, <4>1, Bounded DEF Types, Bounds
    <3> QED BY <1>0, <1>4, <2>1, <3>1 DEF Orderly
  <2> QED BY <1>0, <1>1, <1>5, <1>6, <2>1 DEF Orderly, Once, disk
<1>8. Halves'
  BY <1>0, <1>1, <1>5, <1>6 DEF Halves, disk
<1>9. Whole'
  <2>1. RowsHaveBodies'
    BY <1>0, <1>1, <1>5 DEF Whole, RowsHaveBodies, Stored, disk
  <2>2. \A r \in Runs : cached'[r] # None /\ blob[r] # None => Len(cached'[r]) >= Len(blob[r])
    BY <1>0, <1>2, <1>4 DEF Whole, Longer
  <2> QED BY <1>1, <1>6, <2>1, <2>2 DEF Whole, Longer, disk
<1>10. Remembered'
  BY <1>3, <1>5 DEF Remembered, NoPutFailed
<1>11. Recorded'
  <2> SUFFICES ASSUME "blob" \notin left'.struck PROVE Landing(op.todo, cached)'
    BY DEF Recorded
  <2>1. kind = "list" /\ Due.do = "list" /\ cached' = cached /\ "blob" \notin left.struck
    BY <1>3, <1>5
  <2>2. ToCome(op.todo, cached) /\ NoneAfter(op.todo)
    BY <1>0, <2>1 DEF Recorded, Landing
  <2>3. ASSUME NEW r \in Runs \ left.lost, cached[r] # None, NEW h \in Landed(cached[r]) \ LandedIn(blob[r]) PROVE FALSE
    <3>1. PICK i \in DOMAIN op.todo : Saving(op.todo, i, r) /\ h \in Landed(BodyAt(op.todo, i, r))
      BY <2>2, <2>3 DEF ToCome
    <3>2. i \in Nat \ {0} /\ i # 1
      BY <1>2, <2>1, <3>1, SeqParts DEF Saving, Is
    <3>3. 1 < i /\ Is(op.todo, 1, "list")
      BY <1>2, <2>1, <3>2 DEF Is
    <3>4. Landed(BodyAt(op.todo, i, r)) \subseteq LandedIn(blob[r])
      BY <1>2, <2>2, <3>1, <3>3 DEF NoneAfter
    <3> QED BY <2>3, <3>1, <3>4
  <2>4. ToCome(op.todo, cached)'
    BY <1>1, <1>5, <2>1, <2>3 DEF ToCome, disk
  <2> QED BY <1>6, <2>4 DEF Landing, InText, NoneAfter
<1> QED BY <1>5, <1>7, <1>8, <1>9, <1>10, <1>11 DEF IInv

LEMMA CrashStep ==
  ASSUME IInv, Crash
  PROVE  IInv'
<1>0. Types /\ Orderly /\ Halves /\ Whole /\ Answers /\ Stamps /\ Remembered /\ Recorded
  BY DEF IInv
<1>1. /\ left.faults > 0 /\ left' = OneFaultLess("crash") /\ "crash" \in FaultKinds
      /\ cached' = [r \in Runs |-> None] /\ op' = NoOp /\ answered' = None /\ UNCHANGED <<disk, index, jobs>>
  BY DEF Crash, Struck, FaultKinds
<1>2. Types' /\ Answers' /\ Stamps' /\ left'.opened = left.opened /\ left'.lost = left.lost
      /\ left'.struck = left.struck \cup {"crash"}
  BY <1>1, NothingToDo
<1>3. op'.todo = <<>> /\ ~op'.half /\ \A r \in Runs : cached'[r] = None
  BY <1>1 DEF NoOp
<1>4. Orderly'
  BY <1>0, <1>1, <1>2, <1>3 DEF Orderly, Once, disk
<1>5. Halves'
  BY <1>0, <1>1, <1>2, <1>3 DEF Halves, disk
<1>6. Whole'
  BY <1>0, <1>1, <1>2, <1>3 DEF Whole, Longer, RowsHaveBodies, Stored, disk
<1>7. Remembered'
  <2> SUFFICES ASSUME NoPutFailed
               PROVE  SavedNotesAreListed' /\ Mirrors(op.todo, cached)' /\ Noted(op.todo, cached)'
    BY <1>2 DEF Remembered, NoPutFailed
  <2>1. SavedNotesAreListed'
    BY <1>0, <1>1 DEF Remembered, SavedNotesAreListed, Stored, disk
  <2>2. Mirrors(op.todo, cached)'
    BY <1>3 DEF Mirrors
  <2>3. Noted(op.todo, cached)'
    BY <1>3 DEF Noted, Minds, Lists, Drops
  <2> QED BY <2>1, <2>2, <2>3
<1>8. Recorded'
  BY <1>2, <1>3 DEF Recorded, Landing, InText, ToCome, NoneAfter
<1> QED BY <1>2, <1>4, <1>5, <1>6, <1>7, <1>8 DEF IInv

LEMMA EvictStep ==
  ASSUME IInv, Evict
  PROVE  IInv'
<1>0. Types /\ Orderly /\ Halves /\ Whole /\ Answers /\ Stamps /\ Remembered /\ Recorded
  BY DEF IInv
<1>1. op.todo = <<>> /\ op = NoOp /\ UNCHANGED <<disk, op, index, jobs, answered, left>> /\ cached' = [r \in Runs |-> None]
  BY <1>0 DEF Evict, Idle, Halves
<1>2. op'.todo = <<>> /\ ~op'.half /\ (\A r \in Runs : cached'[r] = None) /\ op.decides = None
  BY <1>1 DEF NoOp
<1>3. Types'
  BY <1>0, <1>1, <1>2 DEF Types, Bounds, disk
<1>4. Orderly' /\ Halves' /\ Whole'
  BY <1>0, <1>1, <1>2 DEF Orderly, Once, Halves, Idle, Whole, Longer, RowsHaveBodies, Stored, disk
<1>5. Answers'
  BY <1>0, <1>1, <1>2 DEF Answers, Idle, Agreed, disk
<1>6. Stamps'
  BY <1>0, <1>1, <1>2 DEF Stamps, Then, Newer, Older, Same, Shown, disk
<1>7. Remembered'
  <2> SUFFICES ASSUME NoPutFailed
               PROVE  SavedNotesAreListed' /\ Mirrors(op.todo, cached)' /\ Noted(op.todo, cached)'
    BY <1>1 DEF Remembered, NoPutFailed
  <2>1. SavedNotesAreListed'
    BY <1>0, <1>1 DEF Remembered, SavedNotesAreListed, Stored, disk
  <2>2. Mirrors(op.todo, cached)'
    BY <1>2 DEF Mirrors
  <2>3. Noted(op.todo, cached)'
    BY <1>2 DEF Noted, Minds, Lists, Drops
  <2> QED BY <2>1, <2>2, <2>3
<1>8. Recorded'
  BY <1>1, <1>2 DEF Recorded, Landing, InText, ToCome, NoneAfter
<1> QED BY <1>3, <1>4, <1>5, <1>6, <1>7, <1>8 DEF IInv

LEMMA SendFailsStep ==
  ASSUME IInv, SendFails
  PROVE  IInv'
<1>0. Types /\ Orderly /\ Halves /\ Whole /\ Answers /\ Stamps /\ Remembered /\ Recorded
  BY DEF IInv
<1>1. PICK r \in Runs : /\ <<r, meta[r]>> \in jobs /\ jobs' = jobs \ {<<r, meta[r]>>}
                        /\ left' = [OneFaultLess("send") EXCEPT !.unsent = @ \cup {r}]
  BY DEF SendFails
<1>2. /\ Idle /\ op = NoOp /\ left.faults > 0 /\ "send" \in FaultKinds
      /\ UNCHANGED <<disk, cached, op, index, answered>>
  BY <1>0 DEF SendFails, Struck, FaultKinds, Halves
<1>3. op.todo = <<>> /\ op'.todo = <<>> /\ ~op'.half /\ op'.decides = None
  BY <1>2 DEF NoOp
<1>4. /\ left'.calls = left.calls /\ left'.opened = left.opened /\ left'.unsent = left.unsent \cup {r}
      /\ left'.lost = left.lost /\ left'.struck = left.struck \cup {"send"} /\ Bounds'
  <2>1. Bounds
    BY <1>0 DEF Types
  <2>2. /\ left'.calls = left.calls /\ left'.opened = left.opened /\ left'.unsent = left.unsent \cup {r}
        /\ left'.lost = left.lost /\ left'.struck = left.struck \cup {"send"} /\ left'.faults \in 0 .. MaxFaults
        /\ left'.struck \subseteq FaultKinds
        /\ left' \in [calls : 0 .. MaxCalls, faults : 0 .. MaxFaults, opened : 0 .. MaxRuns, unsent : SUBSET Runs,
                     lost : SUBSET Runs, struck : SUBSET FaultKinds]
    <3> PICK new : new = OneFaultLess("send")
      OBVIOUS
    <3>1. left.faults > 0 /\ "send" \in FaultKinds
      BY <1>1, <1>2
    <3>3. /\ new.calls = left.calls /\ new.opened = left.opened /\ new.unsent = left.unsent /\ new.lost = left.lost
          /\ new.faults \in 0 .. MaxFaults /\ new.struck = left.struck \cup {"send"}
          /\ new.struck \subseteq FaultKinds
          /\ new \in [calls : 0 .. MaxCalls, faults : 0 .. MaxFaults, opened : 0 .. MaxRuns, unsent : SUBSET Runs,
                      lost : SUBSET Runs, struck : SUBSET FaultKinds]
      BY <2>1, <3>1, OneFaultLessIs
    <3> QED BY <1>1, <3>3
  <2> QED BY <2>1, <2>2 DEF Bounds
<1>5. Types'
  BY <1>0, <1>1, <1>2, <1>4 DEF Types, disk
<1>6. Orderly' /\ Halves' /\ Whole'
  BY <1>0, <1>2, <1>3, <1>4 DEF Orderly, Once, Halves, Idle, Whole, Longer, RowsHaveBodies, Stored, disk
<1>7. Answers'
  BY <1>0, <1>2, <1>3 DEF Answers, Idle, Agreed, disk
<1>8. Stamps'
  <2>1. Then' = Then /\ Newer(op.todo, Then)'
    BY <1>3, <1>4 DEF Then, Newer
  <2>2. ASSUME NEW q \in Runs \ left'.unsent, meta[q] # None PROVE <<q, meta[q]>> \in jobs' \/ Shown(q)
    <3>1. q # r /\ q \notin left.unsent
      BY <1>4, <2>2
    <3> QED BY <1>0, <1>1, <2>2, <3>1 DEF Stamps
  <2>3. \A q \in Runs \ left'.unsent : meta'[q] # None => <<q, meta'[q]>> \in jobs' \/ Shown(q)'
    BY <1>2, <2>2 DEF Shown, Same, disk
  <2>4. (\A j \in jobs : meta[j[1]] # None /\ Older(j[2], meta[j[1]]))'
    BY <1>0, <1>1, <1>2 DEF Stamps, Older, Same, disk
  <2>5. (\A q \in Runs : meta[q] # None => meta[q].updated_at <= Then)'
    BY <1>0, <1>2, <2>1 DEF Stamps, disk
  <2>6. (\A q \in Runs : index[q] # None => meta[q] # None /\ Older(index[q], meta[q]))'
    BY <1>0, <1>2 DEF Stamps, Older, Same, disk
  <2> QED BY <2>1, <2>3, <2>4, <2>5, <2>6 DEF Stamps
<1>9. Remembered'
  BY <1>0, <1>2, <1>3, <1>4
     DEF Remembered, NoPutFailed, SavedNotesAreListed, Mirrors, Noted, Minds, Lists, Drops, StaysListed, Stored, disk
<1>10. Recorded'
  BY <1>0, <1>2, <1>3, <1>4 DEF Recorded, Landing, InText, ToCome, NoneAfter, disk
<1> QED BY <1>5, <1>6, <1>7, <1>8, <1>9, <1>10 DEF IInv

LEMMA LoseBodyStep ==
  ASSUME IInv, NEW k \in Runs, LoseBody(k)
  PROVE  IInv'
<1>0. Types /\ Orderly /\ Halves /\ Whole /\ Answers /\ Stamps /\ Remembered /\ Recorded
  BY DEF IInv
<1>1. /\ left.faults > 0 /\ "lose" \in FaultKinds /\ blob' = [blob EXCEPT ![k] = None]
      /\ left' = [OneFaultLess("lose") EXCEPT !.lost = @ \cup {k}]
      /\ UNCHANGED <<meta, active, listed, text, cached, op, index, jobs, answered>>
  BY DEF LoseBody, Struck, FaultKinds
<1>2. \A r \in Runs : blob'[r] = IF r = k THEN None ELSE blob[r]
  BY <1>0, <1>1 DEF Types
<1>3. /\ left'.calls = left.calls /\ left'.opened = left.opened /\ left'.unsent = left.unsent
      /\ left'.lost = left.lost \cup {k} /\ left'.struck = left.struck \cup {"lose"} /\ Bounds'
  <2>1. Bounds
    BY <1>0 DEF Types
  <2>2. /\ left'.calls = left.calls /\ left'.opened = left.opened /\ left'.unsent = left.unsent
        /\ left'.lost = left.lost \cup {k} /\ left'.struck = left.struck \cup {"lose"} /\ left'.faults \in 0 .. MaxFaults
        /\ left'.struck \subseteq FaultKinds
        /\ left' \in [calls : 0 .. MaxCalls, faults : 0 .. MaxFaults, opened : 0 .. MaxRuns, unsent : SUBSET Runs,
                     lost : SUBSET Runs, struck : SUBSET FaultKinds]
    <3> PICK new : new = OneFaultLess("lose")
      OBVIOUS
    <3>1. left.faults > 0 /\ "lose" \in FaultKinds
      BY <1>1, <1>2
    <3>3. /\ new.calls = left.calls /\ new.opened = left.opened /\ new.unsent = left.unsent /\ new.lost = left.lost
          /\ new.faults \in 0 .. MaxFaults /\ new.struck = left.struck \cup {"lose"}
          /\ new.struck \subseteq FaultKinds
          /\ new \in [calls : 0 .. MaxCalls, faults : 0 .. MaxFaults, opened : 0 .. MaxRuns, unsent : SUBSET Runs,
                      lost : SUBSET Runs, struck : SUBSET FaultKinds]
      BY <2>1, <3>1, OneFaultLessIs
    <3> QED BY <1>1, <3>3
  <2> QED BY <2>1, <2>2 DEF Bounds
<1>4. Types'
  BY <1>0, <1>1, <1>3 DEF Types
<1>5. Orderly'
  BY <1>0, <1>1, <1>2, <1>3 DEF Orderly, Once, Saving, Is
<1>6. Halves'
  <2>1. \A r \in left'.lost : blob'[r] = None
    BY <1>0, <1>2, <1>3 DEF Halves, Types, Bounds
  <2>2. op'.half => ~Idle' /\ Due'.do = "save" /\ cached'[First'] = Due'.to[First'].body
                    /\ (blob'[First'] = Due'.to[First'].body \/ First' \in left'.lost)
    <3> SUFFICES ASSUME op.half
                 PROVE  ~Idle' /\ Due'.do = "save" /\ cached'[First'] = Due'.to[First'].body
                        /\ (blob'[First'] = Due'.to[First'].body \/ First' \in left'.lost)
      BY <1>1
    <3>1. ~Idle /\ Due.do = "save" /\ cached[First] = Due.to[First].body /\ (blob[First] = Due.to[First].body \/ First \in left.lost)
      BY <1>0 DEF Halves
    <3>2. Due' = Due /\ (Idle' <=> Idle)
      BY <1>1 DEF Due, Idle
    <3>3. First' = First
      BY <3>2 DEF First
    <3>4. First \in Runs
      BY <1>0, <3>1, DueIs
    <3> QED BY <1>1, <1>2, <1>3, <3>1, <3>2, <3>3, <3>4
  <2>3. Idle' => op' = NoOp
    BY <1>0, <1>1 DEF Halves, Idle, NoOp
  <2> QED BY <2>1, <2>2, <2>3 DEF Halves
<1>7. Whole'
  BY <1>0, <1>1, <1>2, <1>3 DEF Whole, Longer, RowsHaveBodies, Stored, Saving, Is, RecAt, BodyAt
<1>8. Answers'
  <2>1. ASSUME NEW r \in Runs, Agreed(r) PROVE Agreed(r)'
    BY <1>1, <1>2, <2>1 DEF Agreed
  <2>2. answered' # None => Agreed(answered)'
    <3> PICK a : a = answered
      OBVIOUS
    <3>1. a # None => Agreed(a)'
      BY <1>0, <2>1 DEF Answers, Types
    <3> QED BY <1>1, <3>1 DEF Agreed
  <2>3. op'.decides # None => Settling(op.todo, op.decides)'
    <3> PICK c : c = op.decides
      OBVIOUS
    <3>1. c # None => Settling(op.todo, c) /\ c \in Runs
      BY <1>0 DEF Answers, Types
    <3>2. c # None => Settling(op.todo, c)'
      BY <1>1, <2>1, <3>1 DEF Settling, Saving, Is, RecAt, BodyAt
    <3> QED BY <1>1, <3>2 DEF Settling, Saving, Is, RecAt, BodyAt, Agreed
  <2>4. ~Idle' => answered' = None
    BY <1>0, <1>1 DEF Answers, Idle
  <2> QED BY <2>2, <2>3, <2>4 DEF Answers
<1>9. Stamps'
  <2>1. UNCHANGED <<meta, index, jobs>> /\ op'.todo = op.todo /\ left'.unsent = left.unsent
    BY <1>1, <1>3
  <2>2. Then' = Then
    BY <1>3 DEF Then
  <2> QED BY <1>0, <2>1, <2>2, StampsLeft
<1>10. Remembered'
  <2> SUFFICES ASSUME NoPutFailed
               PROVE  SavedNotesAreListed' /\ Mirrors(op.todo, cached)' /\ Noted(op.todo, cached)'
    BY <1>3 DEF Remembered, NoPutFailed
  <2>q. PICK q : q = op.todo
    OBVIOUS
  <2>0. SavedNotesAreListed /\ Mirrors(q, cached) /\ Minds(q, cached) /\ Lists(q) /\ Drops(q)
    BY <1>0, <2>q DEF Remembered, Noted
  <2>1. SavedNotesAreListed'
    BY <1>1, <1>2, <2>0 DEF SavedNotesAreListed, Stored
  <2>2. op'.todo = q
    BY <1>1, <2>q
  <2>3. Mirrors(op.todo, cached)'
    BY <1>1, <1>2, <2>0, <2>2 DEF Mirrors, Saving, Is
  <2>4. Minds(op.todo, cached)'
    BY <1>1, <2>0, <2>2 DEF Minds, Stored, StaysListed, Is
  <2>5. Lists(op.todo)'
    BY <1>1, <2>0, <2>2 DEF Lists, StaysListed, Saving, Is, BodyAt
  <2>6. Drops(op.todo)'
    BY <1>1, <1>2, <2>0, <2>2 DEF Drops, Stored, Saving, Is
  <2> QED BY <2>1, <2>3, <2>4, <2>5, <2>6 DEF Noted
<1>11. Recorded'
  <2> SUFFICES ASSUME "blob" \notin left.struck PROVE Landing(op.todo, cached)'
    BY <1>3 DEF Recorded
  <2>q. PICK q : q = op.todo
    OBVIOUS
  <2>0. InText(q) /\ ToCome(q, cached) /\ NoneAfter(q)
    BY <1>0, <2>q DEF Recorded, Landing
  <2>1. \A r \in Runs \ left'.lost : r \in Runs \ left.lost /\ blob'[r] = blob[r]
    BY <1>2, <1>3
  <2>2. op'.todo = q
    BY <1>1, <2>q
  <2>3. InText(op.todo)'
    BY <1>1, <2>0, <2>1, <2>2 DEF InText, Saving, Is, BodyAt
  <2>4. ToCome(op.todo, cached)'
    BY <1>1, <2>0, <2>1, <2>2 DEF ToCome, Saving, Is, BodyAt
  <2>5. NoneAfter(op.todo)'
    BY <1>1, <2>0, <2>1, <2>2 DEF NoneAfter, Saving, Is, BodyAt
  <2> QED BY <2>3, <2>4, <2>5 DEF Landing
<1> QED BY <1>4, <1>5, <1>6, <1>7, <1>8, <1>9, <1>10, <1>11 DEF IInv

LEMMA IndexStep ==
  ASSUME IInv, NEW j \in jobs, Index(j)
  PROVE  IInv'
<1>0. Types /\ Orderly /\ Halves /\ Whole /\ Answers /\ Stamps /\ Remembered /\ Recorded
  BY DEF IInv
<1>k. PICK k \in Runs, rec \in Record : j = <<k, rec>>
  BY <1>0 DEF Types
<1>1. /\ op.todo = <<>> /\ op = NoOp /\ op'.todo = <<>> /\ jobs' = jobs \ {j}
      /\ index' = [index EXCEPT ![k] = Upsert(index[k], rec)]
      /\ UNCHANGED <<disk, cached, op, answered, left>>
  BY <1>0, <1>k DEF Index, Idle, Halves
<1>2. Upsert(index[k], rec) \in Record
  BY <1>0, <1>k DEF Upsert, Types
<1>3. \A r \in Runs : index'[r] = IF r = k THEN Upsert(index[k], rec) ELSE index[r]
  BY <1>0, <1>1 DEF Types
<1>4. Types'
  BY <1>0, <1>1, <1>2 DEF Types, Bounds, disk
<1>5. Orderly' /\ Halves' /\ Whole'
  BY <1>0, <1>1 DEF Orderly, Once, Halves, Idle, NoOp, Whole, Longer, RowsHaveBodies, Stored, disk
<1>6. Answers'
  BY <1>0, <1>1 DEF Answers, Idle, NoOp, Agreed, disk
<1>7. meta[k] # None /\ meta[k] \in Record /\ Older(rec, meta[k])
  BY <1>0, <1>k DEF Stamps, Types
<1>8. index[k] # None => index[k] \in Record /\ Older(index[k], meta[k])
  BY <1>0 DEF Stamps, Types
<1>9. Stamps'
  <2>1. Then' = Then /\ Newer(op.todo, Then)'
    BY <1>1 DEF Then, Newer
  <2>2. \A r \in Runs : index'[r] # None => meta[r] # None /\ Older(index'[r], meta[r])
    <3> SUFFICES ASSUME NEW r \in Runs, index'[r] # None PROVE meta[r] # None /\ Older(index'[r], meta[r])
      OBVIOUS
    <3>1. CASE r = k
      BY <1>3, <1>7, <1>8, <3>1 DEF Upsert
    <3>2. CASE r # k
      BY <1>0, <1>3, <3>2 DEF Stamps
    <3> QED BY <3>1, <3>2
  <2>3. ASSUME NEW r \in Runs \ left.unsent, meta[r] # None
        PROVE  <<r, meta[r]>> \in jobs' \/ (index'[r] # None /\ index'[r].updated_at = meta[r].updated_at /\ Same(index'[r], meta[r]))
    <3>1. <<r, meta[r]>> \in jobs \/ Shown(r)
      BY <1>0, <2>3 DEF Stamps
    <3>2. CASE r # k
      BY <1>1, <1>3, <1>k, <3>1, <3>2 DEF Shown
    <3>3. CASE r = k
      <4>1. rec.updated_at \in Nat /\ meta[k].updated_at \in Nat
            /\ (index[k] # None => index[k].updated_at \in Nat)
            /\ rec # None
        BY <1>7, <1>8, RecordIs
      <4>2. CASE rec = meta[k]
        <5>1. index'[k] # None /\ index'[k].updated_at = meta[k].updated_at /\ Same(index'[k], meta[k])
          BY <1>3, <1>7, <1>8, <4>1, <4>2 DEF Upsert, Older, Same
        <5> QED BY <3>3, <5>1
      <4>3. CASE rec # meta[k] /\ <<k, meta[k]>> \in jobs
        BY <1>1, <1>k, <3>3, <4>3
      <4>4. CASE Shown(k)
        <5>1. index'[k] # None /\ index'[k].updated_at = meta[k].updated_at /\ Same(index'[k], meta[k])
          BY <1>3, <1>7, <4>1, <4>4 DEF Shown, Upsert, Older, Same
        <5> QED BY <3>3, <5>1
      <4> QED BY <3>1, <3>3, <4>2, <4>3, <4>4
    <3> QED BY <3>2, <3>3
  <2>4. \A r \in Runs \ left'.unsent : meta'[r] # None => <<r, meta'[r]>> \in jobs' \/ Shown(r)'
    BY <1>1, <2>3 DEF Shown, Same, disk
  <2>5. (\A i \in jobs : meta[i[1]] # None /\ Older(i[2], meta[i[1]]))'
    BY <1>0, <1>1 DEF Stamps, Older, Same, disk
  <2>6. (\A r \in Runs : meta[r] # None => meta[r].updated_at <= Then)'
    BY <1>0, <1>1, <2>1 DEF Stamps, disk
  <2>7. (\A r \in Runs : index[r] # None => meta[r] # None /\ Older(index[r], meta[r]))'
    BY <1>1, <2>2 DEF Older, Same, disk
  <2> QED BY <2>1, <2>4, <2>5, <2>6, <2>7 DEF Stamps
<1>10. Remembered'
  <2> SUFFICES ASSUME NoPutFailed
               PROVE  SavedNotesAreListed' /\ Mirrors(op.todo, cached)' /\ Noted(op.todo, cached)'
    BY <1>1 DEF Remembered, NoPutFailed
  <2>1. SavedNotesAreListed'
    BY <1>0, <1>1 DEF Remembered, SavedNotesAreListed, Stored, disk
  <2>2. Mirrors(op.todo, cached)'
    BY <1>0, <1>1 DEF Remembered, Mirrors, Saving, Is, disk
  <2>3. Minds(op.todo, cached)' /\ Lists(op.todo)' /\ Drops(op.todo)'
    BY <1>0, <1>1 DEF Remembered, Noted, Minds, Lists, Drops, Stored, StaysListed, Is, Saving, disk
  <2> QED BY <2>1, <2>2, <2>3 DEF Noted
<1>11. Recorded'
  BY <1>0, <1>1 DEF Recorded, Landing, InText, ToCome, NoneAfter, Saving, Is, disk
<1> QED BY <1>4, <1>5, <1>6, <1>9, <1>10, <1>11 DEF IInv

-----------------------------------------------------------------------------
(* A handler begins *)

\* What a handler that holds the lock knows of a run it can read.
LEMMA KnownBody ==
  ASSUME IInv, Idle, NEW r \in Runs, Stored(r), ~BodyLost(r)
  PROVE  /\ BodyOf(r) \in Body /\ Len(BodyOf(r)) >= Len(meta[r].hunks) /\ r <= left.opened
         /\ BodyOf(r) = cached[r] \/ (cached[r] = None /\ BodyOf(r) = blob[r])
         /\ blob[r] # None => Len(BodyOf(r)) >= Len(blob[r])
         /\ "blob" \notin left.struck /\ r \notin left.lost => Landed(BodyOf(r)) \subseteq LandedIn(blob[r])
         /\ NoPutFailed => /\ OpenNotes(BodyOf(r)) # {} => r \in listed
                           /\ blob[r] # None => BodyOf(r) = blob[r]
<1>1. Types /\ Orderly /\ Whole /\ Remembered /\ Recorded /\ op.todo = <<>> /\ meta[r] # None /\ meta[r] \in Record
  BY DEF IInv, Idle, Stored, Types
<1>2. Len(meta[r].hunks) \in Nat \ {0}
  BY <1>1, RecordIs
<1>3. cached[r] \in Body \cup {None} /\ blob[r] \in Body \cup {None} /\ \A b \in Body : Len(b) \in Nat
  BY <1>1, BodyParts DEF Types
<1>4. BodyOf(r) # <<>>
  BY <1>2 DEF BodyLost
<1>5. /\ BodyOf(r) \in Body
      /\ BodyOf(r) = cached[r] \/ (cached[r] = None /\ BodyOf(r) = blob[r])
  BY <1>3, <1>4 DEF BodyOf
<1>6. Len(BodyOf(r)) >= Len(meta[r].hunks)
  BY <1>2, <1>3, <1>5 DEF BodyLost
<1>7. blob[r] # None => Len(BodyOf(r)) >= Len(blob[r])
  BY <1>1, <1>3, <1>5 DEF Whole, BodyOf
<1>8. r <= left.opened
  <2>1. ~(r > left.opened)
    BY <1>1 DEF Orderly
  <2> QED BY <1>1, <2>1, Bounded DEF Types, Bounds
<1>9. ASSUME "blob" \notin left.struck, r \notin left.lost PROVE Landed(BodyOf(r)) \subseteq LandedIn(blob[r])
  <2>1. ToCome(op.todo, cached)
    BY <1>1, <1>9 DEF Recorded, Landing
  <2>2. CASE cached[r] # None
    <3>1. BodyOf(r) = cached[r]
      BY <2>2 DEF BodyOf
    <3> QED BY <1>1, <1>9, <2>1, <2>2, <3>1 DEF ToCome
  <2>3. CASE cached[r] = None
    <3>1. BodyOf(r) = blob[r] /\ blob[r] # None
      BY <1>4, <2>3 DEF BodyOf
    <3> QED BY <3>1 DEF LandedIn
  <2> QED BY <2>2, <2>3
<1>10. ASSUME NoPutFailed
       PROVE  /\ OpenNotes(BodyOf(r)) # {} => r \in listed
              /\ blob[r] # None => BodyOf(r) = blob[r]
  <2>1. SavedNotesAreListed /\ Mirrors(<<>>, cached) /\ Minds(<<>>, cached)
    BY <1>1, <1>10 DEF Remembered, Noted
  <2>2. cached[r] # None /\ OpenNotes(cached[r]) # {} => r \in listed
    BY <2>1 DEF Minds, Is
  <2>3. cached[r] # None /\ blob[r] # None => cached[r] = blob[r]
    BY <2>1 DEF Mirrors, Saving, Is
  <2> QED BY <1>4, <2>1, <2>2, <2>3 DEF BodyOf, SavedNotesAreListed
<1> QED BY <1>5, <1>6, <1>7, <1>8, <1>9, <1>10

LEMMA FreshBody ==
  ASSUME IInv, NEW r \in Runs, r > left.opened
  PROVE  blob[r] = None /\ meta[r] = None /\ cached[r] = None /\ BodyOf(r) = <<>>
         /\ Landed(BodyOf(r)) = {} /\ OpenNotes(BodyOf(r)) = {} /\ ~Stored(r)
BY DEF IInv, Orderly, BodyOf, Landed, With, OpenNotes, Stored

\* The list and the text a handler leaves, and the stages that put them.
Texts(T, to) == \/ T = <<>> /\ to = text
                \/ T = Put("text", to) /\ to \subseteq Keys
Listings(L, U, list) ==
  \/ L = <<>> /\ U = <<>> /\ list = listed
  \/ L = Put("list", list) /\ U = <<>> /\ listed \subseteq list /\ list \subseteq Runs
  \/ L = <<>> /\ U = Put("list", list) /\ list \subseteq listed

\* A save of run r that may come once `opened` runs were opened.
Fits(r, s, opened) ==
  /\ r <= opened
  /\ r > left.opened \/ (Stored(r) /\ ~BodyLost(r) /\ Len(s.body) >= Len(BodyOf(r)))
  /\ s.rec.hunks = StatusesOf(s.body)
  /\ s.rec.updated_at <= Now
  /\ meta[r] # None => s.rec.updated_at = Now \/ (s.rec.updated_at = meta[r].updated_at /\ Same(meta[r], s.rec))

\* What makes the plan of a handler sound: its writes in five stages, the mirror it leaves, the run
\* it decides.
Planned(E, T, L, R, U, to, list, m, decides, opened) ==
  /\ Part(E) /\ Part(R) /\ (\A r \in Runs : \A s, x : ~(Wrote(E, r, s) /\ Wrote(R, r, x)))
  /\ Texts(T, to) /\ Listings(L, U, list)
  /\ opened \in left.opened .. MaxRuns /\ decides \in Runs \cup {None} /\ m \in [Runs -> Body \cup {None}]
  /\ \A r \in Runs : \A s : Wrote(E, r, s) \/ Wrote(R, r, s) =>
       Fits(r, s, opened) /\ (OpenNotes(s.body) # {} => r \notin listed \ list)
  /\ \A r \in Runs : \A s : Wrote(E, r, s) =>
       Stored(r) /\ Landed(s.body) \subseteq Landed(BodyOf(r)) /\ (OpenNotes(s.body) # {} => OpenNotes(BodyOf(r)) # {})
  /\ \A r \in Runs : \A s : Wrote(R, r, s) =>
       /\ \A h \in Landed(s.body) : h \in Landed(BodyOf(r)) \/ (L = <<>> /\ <<r, h>> \in to)
       /\ OpenNotes(s.body) # {} => OpenNotes(BodyOf(r)) # {} \/ r \in list
  /\ \A r \in Runs : \/ m[r] = cached[r]
                     \/ cached[r] = None /\ m[r] = blob[r]
                     \/ \E s : Wrote(R, r, s) /\ m[r] = s.body
  /\ \A r \in listed \ list : Stored(r) =>
       /\ m[r] # None => OpenNotes(m[r]) = {}
       /\ (\E s : Wrote(R, r, s)) \/ (~BodyLost(r) /\ OpenNotes(BodyOf(r)) = {})
  /\ decides # None => /\ \E s : Wrote(R, decides, s)
                       /\ \A s : Wrote(E, decides, s) \/ Wrote(R, decides, s) => (s.rec.open => Pending(s.body) # {})

Begins(q, m, decides, opened) ==
  /\ op' = [todo |-> q, half |-> FALSE, decides |-> decides]
  /\ cached' = m
  /\ left' = [left EXCEPT !.calls = @ - 1, !.opened = opened]
  /\ answered' = IF q = <<>> THEN decides ELSE None
  /\ UNCHANGED <<disk, index, jobs>>

\* The writes of five stages.
LEMMA StagesAre ==
  ASSUME NEW E, NEW T \in Seq(Entry), NEW L \in Seq(Entry), NEW R, NEW U \in Seq(Entry), Part(E), Part(R),
         \A r, s : ~Wrote(T, r, s) /\ ~Wrote(L, r, s) /\ ~Wrote(U, r, s),
         \A r \in Runs : \A s, x : ~(Wrote(E, r, s) /\ Wrote(R, r, x))
  PROVE  /\ Once(Stages(E, T, L, R, U)) /\ Stages(E, T, L, R, U) \in Seq(Entry)
         /\ \A r, s : Wrote(Stages(E, T, L, R, U), r, s) <=> Wrote(E, r, s) \/ Wrote(R, r, s)
<1> DEFINE q2 == E \o T
           q3 == q2 \o L
           q4 == q3 \o R
           q5 == q4 \o U
<1>1. E \in Seq(Entry) /\ R \in Seq(Entry) /\ Once(E) /\ Once(R)
  BY DEF Part
<1>2. Once(T) /\ Once(L) /\ Once(U)
  BY SavingIsWrote DEF Once
<1>3. /\ q2 \in Seq(Entry) /\ Once(q2)
      /\ \A r, s : Wrote(q2, r, s) <=> Wrote(E, r, s)
  BY <1>1, <1>2, Joined, JoinedOnce, JoinedWrites
<1> HIDE DEF q2
<1>4. /\ q3 \in Seq(Entry) /\ Once(q3)
      /\ \A r, s : Wrote(q3, r, s) <=> Wrote(E, r, s)
  BY <1>2, <1>3, Joined, JoinedOnce, JoinedWrites
<1> HIDE DEF q3
<1>5. /\ q4 \in Seq(Entry) /\ Once(q4)
      /\ \A r, s : Wrote(q4, r, s) <=> Wrote(E, r, s) \/ Wrote(R, r, s)
  BY <1>1, <1>4, Joined, JoinedOnce, JoinedWrites
<1> HIDE DEF q4
<1>6. /\ q5 \in Seq(Entry) /\ Once(q5)
      /\ \A r, s : Wrote(q5, r, s) <=> Wrote(E, r, s) \/ Wrote(R, r, s)
  BY <1>2, <1>5, Joined, JoinedOnce, JoinedWrites
<1> QED BY <1>6 DEF q5, q4, q3, q2, Stages

\* Where the kinds of writes stand.
Staging(E, T, L, R, U, to, list, q, stage) ==
  /\ \A i \in DOMAIN q : stage[i] \in 1 .. 5
  /\ \A i, j \in DOMAIN q : i < j => stage[i] <= stage[j]
  /\ \A i \in DOMAIN q, r \in Runs : Saving(q, i, r) =>
       \/ stage[i] = 1 /\ Wrote(E, r, q[i].to[r])
       \/ stage[i] = 4 /\ Wrote(R, r, q[i].to[r])
  /\ \A i \in DOMAIN q : Is(q, i, "text") => stage[i] = 2 /\ q[i].to = to
  /\ \A i \in DOMAIN q : Is(q, i, "list") => q[i].to = list /\ ((stage[i] = 3 /\ L # <<>>) \/ (stage[i] = 5 /\ U # <<>>))
  /\ T # <<>> => \E i \in DOMAIN q : stage[i] = 2 /\ Is(q, i, "text")
  /\ L # <<>> => \E i \in DOMAIN q : stage[i] = 3 /\ Is(q, i, "list")
  /\ U # <<>> => \E i \in DOMAIN q : stage[i] = 5 /\ Is(q, i, "list")
  /\ \A r \in Runs : (\E s : Wrote(R, r, s)) => \E i \in DOMAIN q : stage[i] = 4 /\ Saving(q, i, r)

LEMMA StagesKinds ==
  ASSUME NEW E, NEW T, NEW L, NEW R, NEW U, NEW to, NEW list, Part(E), Part(R), Texts(T, to), Listings(L, U, list), Types,
         NEW q, q = Stages(E, T, L, R, U)
  PROVE  /\ T \in Seq(Entry) /\ L \in Seq(Entry) /\ U \in Seq(Entry)
         /\ \A r, s : ~Wrote(T, r, s) /\ ~Wrote(L, r, s) /\ ~Wrote(U, r, s)
         /\ list \subseteq Runs /\ to \subseteq Keys
         /\ \E stage : Staging(E, T, L, R, U, to, list, q, stage)
         /\ T = <<>> => to = text
         /\ L # <<>> => listed \subseteq list
         /\ L = <<>> => list \subseteq listed
         /\ L = <<>> /\ U = <<>> => list = listed
<1>1. list \subseteq Runs /\ to \subseteq Keys
  BY DEF Texts, Listings, Types
<1>2. /\ T \in Seq(Entry) /\ \A i \in DOMAIN T : T[i].do = "text" /\ T[i].to = to
      /\ T # <<>> => 1 \in DOMAIN T
  <2>1. CASE T = <<>>
    BY <2>1
  <2>2. CASE T # <<>>
    <3>1. [do |-> "text", to |-> to] \in Entry /\ T = Put("text", to)
      BY <1>1, <2>2 DEF Texts, Entry
    <3> QED BY <3>1, PutIs
  <2> QED BY <2>1, <2>2
<1>3. [do |-> "list", to |-> list] \in Entry
  BY <1>1 DEF Entry
<1>4. /\ L \in Seq(Entry) /\ \A i \in DOMAIN L : L[i].do = "list" /\ L[i].to = list
      /\ L # <<>> => 1 \in DOMAIN L
  <2>1. CASE L = <<>>
    BY <2>1
  <2>2. CASE L # <<>>
    BY <1>3, <2>2, PutIs DEF Listings
  <2> QED BY <2>1, <2>2
<1>5. /\ U \in Seq(Entry) /\ \A i \in DOMAIN U : U[i].do = "list" /\ U[i].to = list
      /\ U # <<>> => 1 \in DOMAIN U
  <2>1. CASE U = <<>>
    BY <2>1
  <2>2. CASE U # <<>>
    BY <1>3, <2>2, PutIs DEF Listings
  <2> QED BY <2>1, <2>2
<1>6. \A r, s : ~Wrote(T, r, s) /\ ~Wrote(L, r, s) /\ ~Wrote(U, r, s)
  BY <1>2, <1>4, <1>5 DEF Wrote, Saving, Is
<1> DEFINE X == <<E, T, L, R, U>>
<1>7. X[1] = E /\ X[2] = T /\ X[3] = L /\ X[4] = R /\ X[5] = U
  OBVIOUS
<1>8. PICK stage : Comes(q, 5, X, stage)
  BY <1>2, <1>4, <1>5, Staged
<1> HIDE DEF X
<1>9. /\ \A i \in DOMAIN q : stage[i] \in 1 .. 5
      /\ \A i, j \in DOMAIN q : i < j => stage[i] <= stage[j]
      /\ \A i \in DOMAIN q : \E k \in DOMAIN X[stage[i]] : q[i] = X[stage[i]][k]
      /\ \A k \in 1 .. 5 : \A l \in DOMAIN X[k] : \E i \in DOMAIN q : stage[i] = k /\ q[i] = X[k][l]
  BY <1>8 DEF Comes
<1>10. \A i \in DOMAIN q : stage[i] \in {1, 2, 3, 4, 5}
  BY <1>9
<1>11. /\ \A i \in DOMAIN E : E[i].do \in {"active", "save"}
       /\ \A i \in DOMAIN R : R[i].do \in {"active", "save"}
  BY DEF Part
<1>12. ASSUME NEW i \in DOMAIN q, NEW r \in Runs, Saving(q, i, r)
       PROVE  \/ stage[i] = 1 /\ Wrote(E, r, q[i].to[r])
              \/ stage[i] = 4 /\ Wrote(R, r, q[i].to[r])
  <2>1. PICK k \in DOMAIN X[stage[i]] : q[i] = X[stage[i]][k]
    BY <1>9
  <2>2. q[i].do = "save" /\ r \in DOMAIN q[i].to
    BY <1>12 DEF Saving, Is
  <2>3. stage[i] = 1 \/ stage[i] = 4
    BY <1>2, <1>4, <1>5, <1>7, <1>10, <2>1, <2>2, SMTT(30)
  <2>4. stage[i] = 1 => Wrote(E, r, q[i].to[r])
    BY <1>7, <2>1, <2>2 DEF Wrote, Saving, Is
  <2>5. stage[i] = 4 => Wrote(R, r, q[i].to[r])
    BY <1>7, <2>1, <2>2 DEF Wrote, Saving, Is
  <2> QED BY <2>3, <2>4, <2>5
<1>13. ASSUME NEW i \in DOMAIN q, Is(q, i, "text") PROVE stage[i] = 2 /\ q[i].to = to
  <2>1. PICK k \in DOMAIN X[stage[i]] : q[i] = X[stage[i]][k]
    BY <1>9
  <2>2. q[i].do = "text"
    BY <1>13 DEF Is
  <2>3. stage[i] = 2
    BY <1>4, <1>5, <1>7, <1>10, <1>11, <2>1, <2>2
  <2> QED BY <1>2, <1>7, <2>1, <2>3
<1>14. ASSUME NEW i \in DOMAIN q, Is(q, i, "list")
       PROVE  q[i].to = list /\ ((stage[i] = 3 /\ L # <<>>) \/ (stage[i] = 5 /\ U # <<>>))
  <2>1. PICK k \in DOMAIN X[stage[i]] : q[i] = X[stage[i]][k]
    BY <1>9
  <2>2. q[i].do = "list"
    BY <1>14 DEF Is
  <2>3. stage[i] = 3 \/ stage[i] = 5
    BY <1>2, <1>7, <1>10, <1>11, <2>1, <2>2
  <2> QED BY <1>4, <1>5, <1>7, <2>1, <2>3
<1>15. T # <<>> => \E i \in DOMAIN q : stage[i] = 2 /\ Is(q, i, "text")
  BY <1>2, <1>7, <1>9 DEF Is
<1>16. L # <<>> => \E i \in DOMAIN q : stage[i] = 3 /\ Is(q, i, "list")
  BY <1>4, <1>7, <1>9 DEF Is
<1>17. U # <<>> => \E i \in DOMAIN q : stage[i] = 5 /\ Is(q, i, "list")
  BY <1>5, <1>7, <1>9 DEF Is
<1>18. ASSUME NEW r \in Runs, NEW s, Wrote(R, r, s) PROVE \E i \in DOMAIN q : stage[i] = 4 /\ Saving(q, i, r)
  <2>1. PICK l \in DOMAIN R : R[l].do = "save" /\ r \in DOMAIN R[l].to
    BY <1>18 DEF Wrote, Saving, Is
  <2>2. PICK i \in DOMAIN q : stage[i] = 4 /\ q[i] = R[l]
    BY <1>7, <1>9
  <2> QED BY <2>1, <2>2 DEF Saving, Is
<1>19. Staging(E, T, L, R, U, to, list, q, stage)
  BY <1>9, <1>12, <1>13, <1>14, <1>15, <1>16, <1>17, <1>18 DEF Staging
<1>20. T = <<>> => to = text
  <2>1. [do |-> "text", to |-> to] \in Entry
    BY <1>1 DEF Entry
  <2> QED BY <2>1, PutIs DEF Texts
<1>21. /\ L # <<>> => listed \subseteq list
       /\ L = <<>> => list \subseteq listed
       /\ L = <<>> /\ U = <<>> => list = listed
  <2>1. Put("list", list) # <<>>
    BY <1>3, PutIs
  <2> QED BY <2>1 DEF Listings
<1> QED BY <1>1, <1>2, <1>4, <1>5, <1>6, <1>19, <1>20, <1>21

\* A handler with a sound plan begins: the invariant holds of its plan.
LEMMA BeginStep ==
  ASSUME IInv, Idle, left.calls > 0,
         NEW E, NEW T, NEW L, NEW R, NEW U, NEW to, NEW list, NEW m, NEW decides, NEW opened,
         Planned(E, T, L, R, U, to, list, m, decides, opened),
         Begins(Stages(E, T, L, R, U), m, decides, opened)
  PROVE  IInv'
<1>0. Types /\ Orderly /\ Halves /\ Whole /\ Answers /\ Stamps /\ Remembered /\ Recorded /\ Bounds
  BY DEF IInv, Types
<1>q. PICK q : q = Stages(E, T, L, R, U)
  OBVIOUS
<1>1. /\ Part(E) /\ Part(R) /\ (\A r \in Runs : \A s, x : ~(Wrote(E, r, s) /\ Wrote(R, r, x)))
      /\ Texts(T, to) /\ Listings(L, U, list)
      /\ opened \in left.opened .. MaxRuns /\ decides \in Runs \cup {None} /\ m \in [Runs -> Body \cup {None}]
  BY DEF Planned
<1>2. /\ T \in Seq(Entry) /\ L \in Seq(Entry) /\ U \in Seq(Entry)
      /\ \A r, s : ~Wrote(T, r, s) /\ ~Wrote(L, r, s) /\ ~Wrote(U, r, s)
      /\ list \subseteq Runs /\ to \subseteq Keys
      /\ T = <<>> => to = text
      /\ L # <<>> => listed \subseteq list
      /\ L = <<>> => list \subseteq listed
      /\ L = <<>> /\ U = <<>> => list = listed
  BY <1>0, <1>1, <1>q, StagesKinds
<1>s. PICK stage : Staging(E, T, L, R, U, to, list, q, stage)
  BY <1>0, <1>1, <1>q, StagesKinds
<1>3. /\ \A i \in DOMAIN q : stage[i] \in 1 .. 5
      /\ \A i, j \in DOMAIN q : i < j => stage[i] <= stage[j]
      /\ \A i \in DOMAIN q, r \in Runs : Saving(q, i, r) =>
           \/ stage[i] = 1 /\ Wrote(E, r, q[i].to[r])
           \/ stage[i] = 4 /\ Wrote(R, r, q[i].to[r])
      /\ \A i \in DOMAIN q : Is(q, i, "text") => stage[i] = 2 /\ q[i].to = to
      /\ \A i \in DOMAIN q : Is(q, i, "list") => q[i].to = list /\ ((stage[i] = 3 /\ L # <<>>) \/ (stage[i] = 5 /\ U # <<>>))
      /\ T # <<>> => \E i \in DOMAIN q : stage[i] = 2 /\ Is(q, i, "text")
      /\ L # <<>> => \E i \in DOMAIN q : stage[i] = 3 /\ Is(q, i, "list")
      /\ U # <<>> => \E i \in DOMAIN q : stage[i] = 5 /\ Is(q, i, "list")
      /\ \A r \in Runs : (\E s : Wrote(R, r, s)) => \E i \in DOMAIN q : stage[i] = 4 /\ Saving(q, i, r)
  BY <1>s DEF Staging
<1>4. /\ q \in Seq(Entry) /\ Once(q) /\ DOMAIN q \subseteq Nat \ {0}
      /\ \A r, s : Wrote(q, r, s) <=> Wrote(E, r, s) \/ Wrote(R, r, s)
  BY <1>1, <1>2, <1>q, StagesAre, SeqParts
<1>5. /\ op' = [todo |-> q, half |-> FALSE, decides |-> decides] /\ cached' = m
      /\ left' = [left EXCEPT !.calls = @ - 1, !.opened = opened]
      /\ answered' = (IF q = <<>> THEN decides ELSE None)
      /\ UNCHANGED <<disk, index, jobs>>
  BY <1>q DEF Begins
<1>6. op'.todo = q /\ op'.half = FALSE /\ op'.decides = decides
  BY <1>5
<1>7. ASSUME NEW i \in DOMAIN q, NEW j \in DOMAIN q, stage[i] < stage[j] PROVE i < j
  <2>1. i \in Nat /\ j \in Nat /\ stage[i] \in 1 .. 5 /\ stage[j] \in 1 .. 5
    BY <1>3, <1>4
  <2>2. CASE j < i
    <3>1. stage[j] <= stage[i]
      BY <1>3, <2>2
    <3> QED BY <1>7, <2>1, <3>1
  <2>3. CASE i = j
    BY <1>7, <2>1, <2>3
  <2> QED BY <2>1, <2>2, <2>3
\* What is known of the saves.
<1>8. ASSUME NEW i \in DOMAIN q, NEW r \in Runs, Saving(q, i, r)
      PROVE  /\ BodyAt(q, i, r) \in Body
             /\ r <= opened /\ RecAt(q, i, r).hunks = StatusesOf(BodyAt(q, i, r))
             /\ r > left.opened \/ (Stored(r) /\ ~BodyLost(r) /\ Len(BodyAt(q, i, r)) >= Len(BodyOf(r)))
             /\ RecAt(q, i, r).updated_at <= Now
             /\ meta[r] # None => RecAt(q, i, r).updated_at = Now
                                  \/ (RecAt(q, i, r).updated_at = meta[r].updated_at /\ Same(meta[r], RecAt(q, i, r)))
             /\ OpenNotes(BodyAt(q, i, r)) # {} => r \notin listed \ list
  <2>1. Wrote(E, r, q[i].to[r]) \/ Wrote(R, r, q[i].to[r])
    BY <1>3, <1>8
  <2>2. Fits(r, q[i].to[r], opened) /\ (OpenNotes(q[i].to[r].body) # {} => r \notin listed \ list)
    BY <2>1 DEF Planned
  <2>3. q[i] \in Entry /\ q[i].do = "save" /\ r \in DOMAIN q[i].to
    BY <1>4, <1>8, SeqParts DEF Saving, Is
  <2>4. q[i].to[r].body \in Body
    BY <2>3, EntryIs
  <2> QED BY <2>2, <2>4 DEF Fits, BodyAt, RecAt
<1>9. \A r \in Runs : \/ m[r] = cached[r]
                      \/ cached[r] = None /\ m[r] = blob[r]
                      \/ \E i \in DOMAIN q : stage[i] = 4 /\ Saving(q, i, r) /\ m[r] = BodyAt(q, i, r) /\ Wrote(R, r, q[i].to[r])
  <2> TAKE r \in Runs
  <2>1. ASSUME NEW s, Wrote(R, r, s), m[r] = s.body
        PROVE  \E i \in DOMAIN q : stage[i] = 4 /\ Saving(q, i, r) /\ m[r] = BodyAt(q, i, r) /\ Wrote(R, r, q[i].to[r])
    <3>1. Wrote(q, r, s)
      BY <1>4, <2>1
    <3>2. PICK i \in DOMAIN q : Saving(q, i, r) /\ q[i].to[r] = s
      BY <3>1 DEF Wrote
    <3>3. stage[i] = 4
      BY <1>1, <1>3, <2>1, <3>2
    <3> QED BY <2>1, <3>2, <3>3 DEF BodyAt
  <2> QED BY <2>1 DEF Planned
<1>10. /\ left'.calls = left.calls - 1 /\ left'.opened = opened /\ left'.unsent = left.unsent /\ left'.lost = left.lost
       /\ left'.struck = left.struck /\ Bounds' /\ opened \in Nat /\ opened >= left.opened /\ left.opened \in Nat
  <2>1. opened \in 0 .. MaxRuns /\ opened \in Nat /\ opened >= left.opened /\ left.opened \in Nat
    BY <1>0, <1>1, Bounded DEF Bounds
  <2>2. left.calls - 1 \in 0 .. MaxCalls
    BY <1>0, Bounded DEF Bounds
  <2>3. PICK c : c = left.calls - 1
    OBVIOUS
  <2>4. left' = [left EXCEPT !.calls = c, !.opened = opened]
    BY <1>5, <2>3
  <2>5. left \in [calls : 0 .. MaxCalls, faults : 0 .. MaxFaults, opened : 0 .. MaxRuns, unsent : SUBSET Runs,
                  lost : SUBSET Runs, struck : SUBSET FaultKinds]
    BY <1>0 DEF Bounds
  <2>6. /\ left'.calls = c /\ left'.opened = opened /\ left'.unsent = left.unsent /\ left'.lost = left.lost
        /\ left'.struck = left.struck
        /\ left' \in [calls : 0 .. MaxCalls, faults : 0 .. MaxFaults, opened : 0 .. MaxRuns, unsent : SUBSET Runs,
                     lost : SUBSET Runs, struck : SUBSET FaultKinds]
    BY <2>1, <2>2, <2>3, <2>4, <2>5
  <2> QED BY <2>1, <2>3, <2>6 DEF Bounds
<1>11. Types'
  <2>1. op' \in [todo : Seq(Entry), half : BOOLEAN, decides : Runs \cup {None}]
    BY <1>1, <1>4, <1>5
  <2>2. answered' \in Runs \cup {None}
    BY <1>1, <1>5
  <2> QED BY <1>0, <1>1, <1>5, <1>10, <2>1, <2>2 DEF Types, disk
<1>12. Orderly'
  <2>1. ASSUME NEW r \in Runs, r > opened PROVE blob[r] = None /\ meta[r] = None /\ m[r] = None
    <3>1. r > left.opened /\ ~(r <= opened)
      BY <1>10, <2>1, Bounded
    <3>2. blob[r] = None /\ meta[r] = None /\ cached[r] = None
      BY <1>0, <3>1 DEF Orderly
    <3> QED BY <1>8, <1>9, <3>1, <3>2
  <2>2. \A i \in DOMAIN q, r \in Runs : Saving(q, i, r) => r <= opened
    BY <1>8
  <2> QED BY <1>4, <1>5, <1>6, <1>10, <2>1, <2>2 DEF Orderly, Once, Saving, Is, disk
\* A run that is decided is saved.
<1>13. decides # None => decides \in Runs /\ (\E i \in DOMAIN q : Saving(q, i, decides)) /\ q # <<>>
  <2> SUFFICES ASSUME decides # None PROVE decides \in Runs /\ (\E i \in DOMAIN q : Saving(q, i, decides)) /\ q # <<>>
    OBVIOUS
  <2>1. decides \in Runs /\ \E s : Wrote(R, decides, s)
    BY <1>1 DEF Planned
  <2>2. PICK i \in DOMAIN q : Saving(q, i, decides)
    BY <1>3, <2>1
  <2> QED BY <2>1, <2>2
<1>14. Halves'
  <2>1. Idle' => op' = NoOp
    BY <1>5, <1>13 DEF Idle, NoOp
  <2> QED BY <1>0, <1>5, <1>6, <1>10, <2>1 DEF Halves, disk
<1>15. ASSUME NEW i \in DOMAIN q, NEW r \in Runs, Saving(q, i, r)
       PROVE  /\ meta[r] # None => Len(BodyAt(q, i, r)) >= Len(meta[r].hunks)
              /\ blob[r] # None => Len(BodyAt(q, i, r)) >= Len(blob[r])
  <2>1. CASE r > left.opened
    BY <1>0, <2>1 DEF Orderly
  <2>2. CASE Stored(r) /\ ~BodyLost(r) /\ Len(BodyAt(q, i, r)) >= Len(BodyOf(r))
    <3>1. /\ BodyOf(r) \in Body /\ Len(BodyOf(r)) >= Len(meta[r].hunks)
          /\ blob[r] # None => Len(BodyOf(r)) >= Len(blob[r])
          /\ meta[r] \in Record
      BY <1>0, <2>2, KnownBody DEF Types, Stored
    <3>2. Len(BodyAt(q, i, r)) \in Nat /\ Len(BodyOf(r)) \in Nat /\ Len(meta[r].hunks) \in Nat
          /\ (blob[r] # None => Len(blob[r]) \in Nat)
      BY <1>0, <1>8, <1>15, <3>1, BodyParts, RecordIs DEF Types
    <3> QED BY <2>2, <3>1, <3>2
  <2> QED BY <1>8, <1>15, <2>1, <2>2
<1>16. Whole'
  <2>1. RowsHaveBodies'
    BY <1>0, <1>5, <1>10 DEF Whole, RowsHaveBodies, Stored, disk
  <2>2. \A r \in Runs : m[r] # None /\ blob[r] # None => Len(m[r]) >= Len(blob[r])
    <3> SUFFICES ASSUME NEW r \in Runs, m[r] # None, blob[r] # None PROVE Len(m[r]) >= Len(blob[r])
      OBVIOUS
    <3>1. Len(blob[r]) \in Nat
      BY <1>0, BodyParts DEF Types
    <3>2. CASE m[r] = cached[r]
      BY <1>0, <3>2 DEF Whole
    <3>3. CASE m[r] = blob[r]
      BY <3>1, <3>3
    <3>4. ASSUME NEW i \in DOMAIN q, Saving(q, i, r), m[r] = BodyAt(q, i, r) PROVE Len(m[r]) >= Len(blob[r])
      BY <1>15, <3>4
    <3> QED BY <1>9, <3>2, <3>3, <3>4
  <2>3. \A i \in DOMAIN q, r \in Runs : Saving(q, i, r) =>
          /\ RecAt(q, i, r).hunks = StatusesOf(BodyAt(q, i, r))
          /\ meta[r] # None => Len(BodyAt(q, i, r)) >= Len(meta[r].hunks)
          /\ blob[r] # None => Len(BodyAt(q, i, r)) >= Len(blob[r])
    BY <1>8, <1>15
  <2>4. Longer(op.todo)'
    BY <1>5, <1>6, <2>3 DEF Longer, Saving, Is, RecAt, BodyAt, disk
  <2> QED BY <1>5, <2>1, <2>2, <2>4 DEF Whole, disk
<1>17. Answers'
  <2>1. answered' = None
    BY <1>5, <1>13
  <2>2. ASSUME decides # None PROVE Settling(q, decides)'
    <3>1. \A i \in DOMAIN q : Saving(q, i, decides) => (RecAt(q, i, decides).open => Pending(BodyAt(q, i, decides)) # {})
      <4> SUFFICES ASSUME NEW i \in DOMAIN q, Saving(q, i, decides)
                   PROVE  q[i].to[decides].rec.open => Pending(q[i].to[decides].body) # {}
        BY DEF RecAt, BodyAt
      <4>1. Wrote(E, decides, q[i].to[decides]) \/ Wrote(R, decides, q[i].to[decides])
        BY <1>3, <1>13, <2>2
      <4> QED BY <2>2, <4>1 DEF Planned
    <3> QED BY <1>13, <2>2, <3>1 DEF Settling, Saving, Is, RecAt, BodyAt
  <2>3. op'.decides # None => Settling(op.todo, op.decides)'
    BY <1>6, <2>2 DEF Settling, Saving, Is, RecAt, BodyAt, Agreed
  <2> QED BY <2>1, <2>3 DEF Answers
<1>18. Then' = Now /\ Now = Then + 1 /\ Then \in Nat /\ Now \in Nat
  BY <1>0, <1>10, Bounded DEF Then, Now, Bounds
<1>19. Stamps'
  <2>1. \A r \in Runs : meta[r] # None => meta[r].updated_at <= Now /\ meta[r].updated_at < Now
    <3> SUFFICES ASSUME NEW r \in Runs, meta[r] # None PROVE meta[r].updated_at <= Now /\ meta[r].updated_at < Now
      OBVIOUS
    <3>1. meta[r].updated_at \in Nat /\ meta[r].updated_at <= Then
      BY <1>0, RecordIs DEF Stamps, Types
    <3> QED BY <1>18, <3>1
  <2>2. \A i \in DOMAIN q, r \in Runs : Saving(q, i, r) =>
          RecAt(q, i, r).updated_at <= Now /\ (meta[r] # None => Older(meta[r], RecAt(q, i, r)))
    BY <1>8, <2>1 DEF Older
  <2>3. Newer(op.todo, Then)'
    BY <1>5, <1>6, <1>18, <2>2 DEF Newer, Older, Same, Saving, Is, RecAt, disk
  <2> QED BY <1>0, <1>5, <1>10, <1>18, <2>1, <2>3 DEF Stamps, Older, Same, Shown, disk
<1>20. Remembered'
  <2> SUFFICES ASSUME NoPutFailed
               PROVE  SavedNotesAreListed' /\ Mirrors(op.todo, cached)' /\ Noted(op.todo, cached)'
    BY <1>10 DEF Remembered, NoPutFailed
  <2>0. SavedNotesAreListed /\ Mirrors(<<>>, cached) /\ Minds(<<>>, cached)
    BY <1>0 DEF Remembered, Noted, Idle
  <2>1. SavedNotesAreListed'
    BY <1>5, <2>0 DEF SavedNotesAreListed, Stored, disk
  <2>2. Mirrors(op.todo, cached)'
    <3>1. \A r \in Runs : m[r] # None /\ blob[r] # None => m[r] = blob[r] \/ \E i \in DOMAIN q : Saving(q, i, r)
      BY <1>9, <2>0 DEF Mirrors, Saving, Is
    <3> QED BY <1>5, <1>6, <3>1 DEF Mirrors, Saving, Is, disk
  \* A run with an open note in the object, or in the mirror, is listed and stays so.
  <2>3. ASSUME NEW r \in Runs, r \notin listed \ list, r \in listed PROVE StaysListed(q, r)
    BY <1>3, <2>3 DEF StaysListed
  <2>4. ASSUME NEW r \in Runs, r \in list PROVE StaysListed(q, r) /\ (r \in listed \/ \E i \in DOMAIN q : Is(q, i, "list"))
    <3>1. StaysListed(q, r)
      BY <1>3, <2>4 DEF StaysListed
    <3>2. CASE L = <<>> /\ U = <<>>
      BY <1>2, <2>4, <3>1, <3>2
    <3>3. CASE L # <<>> \/ U # <<>>
      BY <1>3, <3>1, <3>3
    <3> QED BY <3>1, <3>2, <3>3
  <2>5. ASSUME NEW r \in Runs, Stored(r), OpenNotes(BodyOf(r)) # {}, ~BodyLost(r) PROVE r \in listed
    BY <2>5, KnownBody
  <2>6. ASSUME NEW i \in DOMAIN q, NEW r \in Runs, Saving(q, i, r), OpenNotes(BodyAt(q, i, r)) # {}
        PROVE  StaysListed(q, r) /\ (r \in listed \/ \E j \in DOMAIN q : j < i /\ Is(q, j, "list"))
    <3>1. r \notin listed \ list
      BY <1>8, <2>6
    <3>2. CASE OpenNotes(BodyOf(r)) # {}
      <4>1. ~(r > left.opened)
        BY <3>2, FreshBody
      <4>2. r \in listed
        BY <1>8, <2>5, <2>6, <3>2, <4>1
      <4> QED BY <2>3, <3>1, <4>2
    <3>3. CASE stage[i] = 4 /\ Wrote(R, r, q[i].to[r]) /\ OpenNotes(BodyOf(r)) = {}
      <4>1. r \in list
        BY <2>6, <3>3 DEF Planned, BodyAt
      <4>2. CASE L # <<>>
        <5>1. PICK j \in DOMAIN q : stage[j] = 3 /\ Is(q, j, "list")
          BY <1>3, <4>2
        <5>2. j < i
          BY <1>7, <3>3, <5>1
        <5> QED BY <2>4, <4>1, <5>1, <5>2
      <4>3. CASE L = <<>>
        <5>1. list \subseteq listed
          BY <1>2, <4>3
        <5> QED BY <2>4, <4>1, <5>1
      <4> QED BY <4>2, <4>3
    <3>4. CASE Wrote(E, r, q[i].to[r]) /\ OpenNotes(BodyOf(r)) = {}
      BY <2>6, <3>4 DEF Planned, BodyAt
    <3> QED BY <1>3, <2>6, <3>2, <3>3, <3>4
  <2>7. ASSUME NEW r \in Runs, Stored(r), m[r] # None, OpenNotes(m[r]) # {}
        PROVE  StaysListed(q, r) /\ (r \in listed \/ \E i \in DOMAIN q : Is(q, i, "list"))
    <3>1. CASE m[r] = cached[r] \/ m[r] = blob[r]
      <4>1. r \in listed
        <5>0. \A i \in DOMAIN <<>> : FALSE
          OBVIOUS
        <5>1. cached[r] # None /\ OpenNotes(cached[r]) # {} => r \in listed
          BY ONLY <2>0, <2>7, <5>0, r \in Runs DEF Minds
        <5>2. blob[r] # None /\ OpenNotes(blob[r]) # {} => r \in listed
          BY <2>0, <2>7 DEF SavedNotesAreListed
        <5> QED BY <2>7, <3>1, <5>1, <5>2
      <4>2. r \notin listed \ list
        BY <2>7 DEF Planned
      <4> QED BY <2>3, <4>1, <4>2
    <3>2. ASSUME NEW i \in DOMAIN q, Saving(q, i, r), m[r] = BodyAt(q, i, r)
          PROVE  StaysListed(q, r) /\ (r \in listed \/ \E j \in DOMAIN q : Is(q, j, "list"))
      BY <2>6, <2>7, <3>2
    <3> QED BY <1>9, <3>1, <3>2
  <2>8. ASSUME NEW i \in DOMAIN q, NEW r \in Runs, Is(q, i, "list"), r \notin q[i].to,
               Stored(r), blob[r] # None, OpenNotes(blob[r]) # {}
        PROVE  \E j \in DOMAIN q : j < i /\ Saving(q, j, r)
    <3>1. r \in listed \ list
      BY <1>3, <2>0, <2>8 DEF SavedNotesAreListed
    <3>2. L = <<>>
      BY <1>2, <3>1
    <3>3. stage[i] = 5
      BY <1>3, <2>8, <3>2
    <3>4. ~(~BodyLost(r) /\ OpenNotes(BodyOf(r)) = {})
      <4> SUFFICES ASSUME ~BodyLost(r), OpenNotes(BodyOf(r)) = {} PROVE FALSE
        OBVIOUS
      <4>1. BodyOf(r) = blob[r]
        BY <2>8, KnownBody
      <4> QED BY <2>8, <4>1
    <3>5. \E s : Wrote(R, r, s)
      BY <2>8, <3>1, <3>4 DEF Planned
    <3>6. PICK j \in DOMAIN q : stage[j] = 4 /\ Saving(q, j, r)
      BY <1>3, <3>5
    <3>7. j < i
      BY <1>7, <3>3, <3>6
    <3> QED BY <3>6, <3>7
  <2>9. Minds(op.todo, cached)'
    BY <1>5, <1>6, <2>7 DEF Minds, Stored, StaysListed, Is, disk
  <2>10. Lists(op.todo)'
    BY <1>5, <1>6, <2>6 DEF Lists, StaysListed, Saving, Is, BodyAt, disk
  <2>11. Drops(op.todo)'
    BY <1>5, <1>6, <2>8 DEF Drops, Stored, Saving, Is, disk
  <2> QED BY <2>1, <2>2, <2>9, <2>10, <2>11 DEF Noted
<1>21. Recorded'
  <2> SUFFICES ASSUME "blob" \notin left.struck PROVE Landing(op.todo, cached)'
    BY <1>10 DEF Recorded
  <2>1. \A r \in Runs \ left.lost : cached[r] # None => Landed(cached[r]) \subseteq LandedIn(blob[r])
    BY <1>0 DEF Recorded, Landing, ToCome, Idle, Saving, Is
  <2>2. ASSUME NEW i \in DOMAIN q, NEW r \in Runs \ left.lost, Saving(q, i, r)
        PROVE  Landed(BodyOf(r)) \subseteq LandedIn(blob[r])
    <3>1. CASE r > left.opened
      BY <3>1, FreshBody
    <3>2. CASE Stored(r) /\ ~BodyLost(r)
      BY <3>2, KnownBody
    <3> QED BY <1>8, <2>2, <3>1, <3>2
  <2>3. ASSUME NEW i \in DOMAIN q, NEW r \in Runs \ left.lost, Saving(q, i, r), NEW h \in Landed(BodyAt(q, i, r)) \ LandedIn(blob[r])
        PROVE  /\ \A j \in DOMAIN q : j < i /\ Is(q, j, "text") => <<r, h>> \in q[j].to
               /\ <<r, h>> \in text \/ \E j \in DOMAIN q : j < i /\ Is(q, j, "text")
    <3>1. h \notin Landed(BodyOf(r))
      BY <2>2, <2>3
    <3>2. stage[i] = 4 /\ Wrote(R, r, q[i].to[r])
      <4>1. ~Wrote(E, r, q[i].to[r])
        BY <2>3, <3>1 DEF Planned, BodyAt
      <4> QED BY <1>3, <2>3, <4>1
    <3>3. <<r, h>> \in to
      BY <2>3, <3>1, <3>2 DEF Planned, BodyAt
    <3>4. CASE T = <<>>
      BY <1>2, <1>3, <3>3, <3>4
    <3>5. CASE T # <<>>
      <4>1. PICK j \in DOMAIN q : stage[j] = 2 /\ Is(q, j, "text")
        BY <1>3, <3>5
      <4>2. j < i
        BY <1>7, <3>2, <4>1
      <4> QED BY <1>3, <3>3, <4>1, <4>2
    <3> QED BY <3>4, <3>5
  <2>4. ASSUME NEW r \in Runs \ left.lost, m[r] # None, NEW h \in Landed(m[r]) \ LandedIn(blob[r])
        PROVE  \E i \in DOMAIN q : Saving(q, i, r) /\ h \in Landed(BodyAt(q, i, r))
    BY <1>9, <2>1, <2>4 DEF LandedIn
  <2>5. ASSUME NEW i \in DOMAIN q, NEW j \in DOMAIN q, NEW r \in Runs \ left.lost,
               i < j, Is(q, i, "list"), Saving(q, j, r)
        PROVE  Landed(BodyAt(q, j, r)) \subseteq LandedIn(blob[r])
    <3>1. stage[i] <= stage[j] /\ stage[j] \in {1, 4} /\ stage[i] \in {3, 5}
      BY <1>3, <2>5
    <3>2. stage[i] = 3 /\ L # <<>> /\ Wrote(R, r, q[j].to[r])
      BY <1>3, <2>5, <3>1
    <3>3. Landed(BodyAt(q, j, r)) \subseteq Landed(BodyOf(r))
      BY <3>2 DEF Planned, BodyAt
    <3> QED BY <2>2, <2>5, <3>3
  <2>6. InText(op.todo)'
    BY <1>5, <1>6, <1>10, <2>3 DEF InText, Saving, Is, BodyAt, disk
  <2>7. ToCome(op.todo, cached)'
    BY <1>5, <1>6, <1>10, <2>4 DEF ToCome, Saving, Is, BodyAt, disk
  <2>8. NoneAfter(op.todo)'
    BY <1>5, <1>6, <1>10, <2>5 DEF NoneAfter, Saving, Is, BodyAt, disk
  <2> QED BY <2>6, <2>7, <2>8 DEF Landing
<1> QED BY <1>11, <1>12, <1>14, <1>16, <1>17, <1>19, <1>20, <1>21 DEF IInv

-----------------------------------------------------------------------------
(* What handlers save *)

LEMMA NowIs ==
  ASSUME IInv, left.calls > 0
  PROVE  Now \in 0 .. MaxCalls /\ Now \in Nat
<1>1. left.calls \in 0 .. MaxCalls /\ MaxCalls \in Nat
  BY Bounded DEF IInv, Types, Bounds
<1> QED BY <1>1 DEF Now

\* A handler that opens no run.
LEMMA BeginIs ==
  ASSUME IInv, NEW q, NEW m, NEW decides, Begin(q, m, decides)
  PROVE  Begins(q, m, decides, left.opened) /\ Idle /\ left.calls > 0
<1>1. left \in [calls : 0 .. MaxCalls, faults : 0 .. MaxFaults, opened : 0 .. MaxRuns, unsent : SUBSET Runs,
                lost : SUBSET Runs, struck : SUBSET FaultKinds]
  BY DEF IInv, Types, Bounds
<1>2. PICK c : c = left.calls - 1
  OBVIOUS
<1>3. PICK o : o = left.opened
  OBVIOUS
<1>4. [left EXCEPT !.calls = c] = [left EXCEPT !.calls = c, !.opened = o]
  BY <1>1, <1>3
<1>5. left' = [left EXCEPT !.calls = @ - 1, !.opened = left.opened]
  BY <1>2, <1>3, <1>4 DEF Begin
<1> QED BY <1>5 DEF Begin, Begins

\* A save that leaves the hunks of a run as they are.
Keeps(f, s) ==
  /\ Stored(f) /\ ~BodyLost(f) /\ s.body = BodyOf(f)
  /\ s.rec.hunks = StatusesOf(s.body) /\ s.rec.updated_at = Now

\* A save of a run whose hunks stay as many.
LEMMA SaveFits ==
  ASSUME IInv, Idle, left.calls > 0, NEW r \in Runs, Stored(r), ~BodyLost(r), NEW s,
         Len(s.body) = Len(BodyOf(r)), s.rec.hunks = StatusesOf(s.body), s.rec.updated_at = Now,
         NEW opened \in left.opened .. MaxRuns
  PROVE  Fits(r, s, opened)
<1>1. r <= left.opened /\ BodyOf(r) \in Body
  BY KnownBody
<1>2. left.opened \in Nat /\ opened \in Nat /\ left.opened <= opened /\ r \in Nat /\ Now \in Nat
  BY NowIs, Bounded DEF IInv, Types, Bounds
<1>3. Len(BodyOf(r)) \in Nat
  BY <1>1, BodyParts
<1> QED BY <1>1, <1>2, <1>3 DEF Fits

LEMMA KeepsFits ==
  ASSUME IInv, Idle, left.calls > 0, NEW r \in Runs, NEW s, Keeps(r, s), NEW opened \in left.opened .. MaxRuns
  PROVE  Fits(r, s, opened) /\ s.body = BodyOf(r)
BY SaveFits DEF Keeps

\* The record of a run, changed.
LEMMA StoredIs ==
  ASSUME IInv, NEW r \in Runs, Stored(r)
  PROVE  meta[r] \in Record /\ meta[r] \in Draft /\ meta[r].behind \in Runs \cup {None}
         /\ AheadOf(meta[r]) \in Runs \cup {None}
<1>1. meta[r] \in Record
  BY DEF IInv, Types, Stored
<1> QED BY <1>1, RecordIs DEF AheadOf

LEMMA UnlinkIs ==
  ASSUME IInv, Idle, left.calls > 0, NEW r \in Runs, NEW rec, AheadOf(rec) \in Runs \cup {None}
  PROVE  /\ Part(Unlink(r, rec, Now))
         /\ \A f \in Runs : \A s : Wrote(Unlink(r, rec, Now), f, s) => f # r /\ Keeps(f, s)
<1> DEFINE next == AheadOf(rec)
           moved(f) == [meta[f] EXCEPT !.behind = next, !.updated_at = Now]
           P == IF active = r THEN Pointer(next) ELSE <<>>
           g == [f \in Followers(r) |-> Saved(moved(f), BodyOf(f))]
<1>1. Followers(r) \in SUBSET Runs
  BY DEF Followers
<1>2. Now \in 0 .. MaxCalls
  BY NowIs
<1>3. ASSUME NEW f \in Followers(r)
      PROVE  /\ f # r /\ f \in Runs /\ Stored(f) /\ ~BodyLost(f)
             /\ Saved(moved(f), BodyOf(f)) \in ToSave /\ Keeps(f, Saved(moved(f), BodyOf(f)))
  <2>1. f # r /\ f \in Runs /\ Stored(f) /\ ~BodyLost(f)
    BY DEF Followers
  <2>2. meta[f] \in Draft /\ BodyOf(f) \in Body
    BY <2>1, StoredIs, KnownBody
  <2>3. moved(f) \in Draft /\ moved(f).updated_at = Now
    BY <1>2, <2>2 DEF Draft
  <2> HIDE DEF moved
  <2>4. /\ Saved(moved(f), BodyOf(f)) \in ToSave /\ Saved(moved(f), BodyOf(f)).body = BodyOf(f)
        /\ Saved(moved(f), BodyOf(f)).rec.hunks = StatusesOf(BodyOf(f))
        /\ Saved(moved(f), BodyOf(f)).rec.updated_at = Now
    BY <2>2, <2>3, SavedIs
  <2> QED BY <2>1, <2>4 DEF Keeps
<1>4. Unlink(r, rec, Now) = P \o Saves(g)
  BY DEF Unlink
<1>5. g \in [Followers(r) -> ToSave] /\ \A f \in Followers(r) : g[f] = Saved(moved(f), BodyOf(f))
  BY <1>3
<1>6. Part(P) /\ \A f, s : ~Wrote(P, f, s)
  BY PointerIs, NonePart
<1> HIDE DEF next, moved, P, g
<1>7. Part(Saves(g)) /\ \A f, s : Wrote(Saves(g), f, s) <=> f \in Followers(r) /\ s = g[f]
  BY <1>1, <1>5, SavesIs
<1>8. /\ Part(P \o Saves(g))
      /\ \A f, s : Wrote(P \o Saves(g), f, s) <=> Wrote(P, f, s) \/ Wrote(Saves(g), f, s)
  BY <1>6, <1>7, JoinedParts
<1> QED BY <1>3, <1>4, <1>5, <1>6, <1>7, <1>8

\* The save of a run with body b, now, and of those queued behind it.
LEMMA WithUnlinkIs ==
  ASSUME IInv, Idle, left.calls > 0, NEW r \in Runs, NEW new \in Draft, NEW rec, NEW b \in Body,
         AheadOf(rec) \in Runs \cup {None}, new.updated_at = Now
  PROVE  LET q == Save(r, new, b) \o Unlink(r, rec, Now)
         IN  /\ Part(q)
             /\ \A s : Wrote(q, r, s) <=> s = Saved(new, b)
             /\ \A f \in Runs : \A s : Wrote(q, f, s) => f = r \/ Keeps(f, s)
<1>1. Part(Save(r, new, b)) /\ \A f, s : Wrote(Save(r, new, b), f, s) <=> f = r /\ s = Saved(new, b)
  BY SaveIs
<1>2. /\ Part(Unlink(r, rec, Now))
      /\ \A f \in Runs : \A s : Wrote(Unlink(r, rec, Now), f, s) => f # r /\ Keeps(f, s)
  BY UnlinkIs
<1>3. /\ Part(Save(r, new, b) \o Unlink(r, rec, Now))
      /\ \A f, s : Wrote(Save(r, new, b) \o Unlink(r, rec, Now), f, s) <=>
                   Wrote(Save(r, new, b), f, s) \/ Wrote(Unlink(r, rec, Now), f, s)
  BY <1>1, <1>2, JoinedParts
<1> QED BY <1>1, <1>2, <1>3

\* What a save of run r with body b has to say of itself.
Saying(r, b, s) ==
  /\ s.body = b /\ s.rec.hunks = StatusesOf(b) /\ s.rec.updated_at = Now

LEMMA CloseIs ==
  ASSUME IInv, Idle, left.calls > 0, NEW r \in Runs, NEW rec \in Draft, NEW b \in Body, rec.updated_at = Now
  PROVE  LET q == Close(r, rec, b, Now)
         IN  /\ Part(q)
             /\ \E s : Wrote(q, r, s)
             /\ \A s : Wrote(q, r, s) => Saying(r, b, s) /\ ~s.rec.open
             /\ \A f \in Runs : \A s : Wrote(q, f, s) => f = r \/ Keeps(f, s)
<1> DEFINE new == [rec EXCEPT !.open = FALSE]
<1>1. new \in Draft /\ new.updated_at = Now /\ ~new.open
  BY DEF Draft
<1>2. AheadOf(rec) \in Runs \cup {None}
  <2>1. rec.behind \in Runs \cup {None}
    BY DEF Draft
  <2> QED BY <2>1 DEF AheadOf
<1>3. Close(r, rec, b, Now) = Save(r, new, b) \o Unlink(r, rec, Now)
  BY DEF Close
<1> HIDE DEF new
<1>4. /\ Part(Close(r, rec, b, Now))
      /\ \A s : Wrote(Close(r, rec, b, Now), r, s) <=> s = Saved(new, b)
      /\ \A f \in Runs : \A s : Wrote(Close(r, rec, b, Now), f, s) => f = r \/ Keeps(f, s)
  BY <1>1, <1>2, <1>3, WithUnlinkIs
<1>5. Saying(r, b, Saved(new, b)) /\ ~Saved(new, b).rec.open
  BY <1>1, SavedIs DEF Saying
<1> QED BY <1>4, <1>5

LEMMA SettledIs ==
  ASSUME IInv, Idle, left.calls > 0, NEW r \in Runs, NEW rec \in Draft, NEW b \in Body, rec.updated_at = Now, NEW T
  PROVE  LET q == Settled(r, rec, b, T)
         IN  /\ Part(q)
             /\ \E s : Wrote(q, r, s)
             /\ \A s : Wrote(q, r, s) => Saying(r, b, s) /\ (s.rec.open => Pending(b) # {})
             /\ \A f \in Runs : \A s : Wrote(q, f, s) => f = r \/ Keeps(f, s)
<1>1. CASE rec.open /\ Pending(b) = {}
  <2>1. Settled(r, rec, b, T) = Close(r, rec, b, Now)
    BY <1>1 DEF Settled
  <2> QED BY <2>1, CloseIs
<1>2. CASE ~(rec.open /\ Pending(b) = {})
  <2>1. Settled(r, rec, b, T) = Save(r, rec, b)
    BY <1>2 DEF Settled
  <2>2. Part(Save(r, rec, b)) /\ \A f, s : Wrote(Save(r, rec, b), f, s) <=> f = r /\ s = Saved(rec, b)
    BY SaveIs
  <2>3. Saying(r, b, Saved(rec, b)) /\ (Saved(rec, b).rec.open => Pending(b) # {})
    BY <1>2, SavedIs DEF Saying
  <2> QED BY <2>1, <2>2, <2>3
<1> QED BY <1>1, <1>2

\* The mirror of a handler that changes run r.
LEMMA ChangedIs ==
  ASSUME IInv, NEW r \in Runs, NEW b \in Body
  PROVE  /\ Changed(r, b) \in [Runs -> Body \cup {None}] /\ Changed(r, b)[r] = b
         /\ \A f \in Runs : f # r => Changed(r, b)[f] = cached[f]
BY DEF Changed, Mirrored, IInv, Types

LEMMA Regrouped ==
  ASSUME NEW A \in Seq(Entry), NEW B \in Seq(Entry), NEW C \in Seq(Entry)
  PROVE  (A \o B) \o C = A \o (B \o C) /\ A \o B \in Seq(Entry) /\ B \o C \in Seq(Entry)
BY ConcatAssociative, Joined

LEMMA Alone ==
  ASSUME NEW A \in Seq(Entry)
  PROVE  <<>> \o A = A /\ A \o <<>> = A
BY ConcatEmptySeq

\* The stages of a plan without the stages it does not need.
LEMMA ListStages ==
  ASSUME NEW L \in Seq(Entry), NEW R \in Seq(Entry)
  PROVE  Stages(<<>>, <<>>, L, R, <<>>) = L \o R
<1>1. <<>> \o <<>> = <<>> /\ <<>> \o L = L /\ L \o R \in Seq(Entry)
  BY Alone, Joined
<1>2. (L \o R) \o <<>> = L \o R
  BY <1>1, Alone
<1> QED BY <1>1, <1>2 DEF Stages

LEMMA RevertStages ==
  ASSUME NEW T \in Seq(Entry), NEW L \in Seq(Entry), NEW S \in Seq(Entry), NEW N \in Seq(Entry),
         NEW R, R = S \o N, NEW q, q = T \o ((L \o S) \o N)
  PROVE  Stages(<<>>, T, L, R, <<>>) = q
<1>1. <<>> \o T = T /\ T \o L \in Seq(Entry) /\ S \o N \in Seq(Entry) /\ L \o S \in Seq(Entry)
  BY Alone, Joined
<1>2. R \in Seq(Entry)
  BY <1>1
<1>3. (T \o L) \o R \in Seq(Entry) /\ (T \o L) \o R = T \o (L \o R)
  <2>0. T \in Seq(Entry) /\ L \in Seq(Entry)
    OBVIOUS
  <2>1. (T \o L) \o R = T \o (L \o R)
    BY ONLY <1>2, <2>0, Regrouped
  <2>2. \A A, B \in Seq(Entry) : A \o B \in Seq(Entry)
    BY Joined
  <2>3. (T \o L) \o R \in Seq(Entry)
    BY ONLY <1>1, <1>2, <2>2
  <2> QED BY <2>1, <2>3
<1>4. ((T \o L) \o R) \o <<>> = (T \o L) \o R
  BY <1>3, Alone
<1>5. (L \o S) \o N = L \o (S \o N)
  BY Regrouped, SMTT(30)
<1>6. q = T \o (L \o R)
  BY <1>5
<1> QED BY <1>1, <1>3, <1>4, <1>6 DEF Stages

LEMMA TextStages ==
  ASSUME NEW E \in Seq(Entry), NEW T \in Seq(Entry), NEW R \in Seq(Entry)
  PROVE  Stages(E, T, <<>>, R, <<>>) = E \o (T \o R)
<1>1. E \o T \in Seq(Entry)
  BY Joined
<1>2. (E \o T) \o <<>> = E \o T /\ (E \o T) \o R \in Seq(Entry)
  BY <1>1, Alone, Joined
<1>3. ((E \o T) \o R) \o <<>> = (E \o T) \o R
  BY <1>2, Alone
<1>4. (E \o T) \o R = E \o (T \o R)
  BY Regrouped
<1> QED BY <1>2, <1>3, <1>4 DEF Stages

LEMMA UnlistStages ==
  ASSUME NEW R \in Seq(Entry), NEW U \in Seq(Entry)
  PROVE  Stages(<<>>, <<>>, <<>>, R, U) = R \o U
<1>1. <<>> \o <<>> = <<>> /\ <<>> \o R = R
  BY Alone
<1> QED BY <1>1 DEF Stages

-----------------------------------------------------------------------------
(* Handlers of one run *)

LEMMA ListIs ==
  ASSUME IInv, NEW r \in Runs
  PROVE  Listings(List(r), <<>>, listed \cup {r})
<1>1. CASE r \in listed
  <2>1. listed \cup {r} = listed
    BY <1>1
  <2> QED BY <1>1, <2>1 DEF List, Listings
<1>2. CASE r \notin listed
  <2>1. listed \cup {r} \subseteq Runs
    BY DEF IInv, Types
  <2> QED BY <1>2, <2>1 DEF List, Listings
<1> QED BY <1>1, <1>2

LEMMA UnlistIs ==
  ASSUME NEW R
  PROVE  Listings(<<>>, Unlist(R), listed \ R)
<1>1. CASE listed \cap R = {}
  <2>1. listed \ R = listed
    BY <1>1
  <2> QED BY <1>1, <2>1 DEF Unlist, Listings
<1>2. CASE listed \cap R # {}
  BY <1>2 DEF Unlist, Listings
<1> QED BY <1>1, <1>2

LEMMA TextIs ==
  ASSUME NEW to \in SUBSET Keys
  PROVE  Texts(IF to = text THEN <<>> ELSE Put("text", to), to)
BY DEF Texts

\* The writes of the text and of the list are sequences of writes.
LEMMA TextsAre ==
  ASSUME IInv, NEW T, NEW to, Texts(T, to)
  PROVE  T \in Seq(Entry)
<1>1. CASE T = <<>>
  BY <1>1
<1>2. CASE T # <<>>
  <2>1. [do |-> "text", to |-> to] \in Entry /\ T = Put("text", to)
    BY <1>2 DEF Texts, Entry
  <2> QED BY <2>1, PutIs
<1> QED BY <1>1, <1>2

LEMMA ListingsAre ==
  ASSUME IInv, NEW L, NEW U, NEW list, Listings(L, U, list)
  PROVE  L \in Seq(Entry) /\ U \in Seq(Entry)
<1>1. list \subseteq Runs
  BY DEF Listings, IInv, Types
<1>2. [do |-> "list", to |-> list] \in Entry
  BY <1>1 DEF Entry
<1>3. Put("list", list) \in Seq(Entry) /\ <<>> \in Seq(Entry)
  BY <1>2, PutIs
<1> QED BY <1>3 DEF Listings

LEMMA OneRunPlan ==
  ASSUME IInv, Idle, left.calls > 0, NEW r \in Runs, Stored(r), ~BodyLost(r), NEW b \in Body, Len(b) = Len(BodyOf(r)),
         NEW E, Part(E), \A f, s : ~Wrote(E, f, s),
         NEW T, NEW L, NEW U, NEW to, NEW list, Texts(T, to), Listings(L, U, list),
         NEW R, Part(R), \E s : Wrote(R, r, s), \A s : Wrote(R, r, s) => Saying(r, b, s),
         \A f \in Runs : \A s : Wrote(R, f, s) => f = r \/ Keeps(f, s),
         \A h \in Landed(b) : h \in Landed(BodyOf(r)) \/ (L = <<>> /\ <<r, h>> \in to),
         OpenNotes(b) # {} => (OpenNotes(BodyOf(r)) # {} \/ r \in list) /\ listed \subseteq list,
         listed \ list \subseteq {r},
         NEW decides \in {None, r},
         decides = r => \A s : Wrote(R, r, s) => (s.rec.open => Pending(b) # {})
  PROVE  Planned(E, T, L, R, U, to, list, Changed(r, b), decides, left.opened)
<1> DEFINE m == Changed(r, b)
<1>1. left.opened \in left.opened .. MaxRuns
  BY Bounded DEF IInv, Types, Bounds
<1>2. m \in [Runs -> Body \cup {None}] /\ m[r] = b /\ \A f \in Runs : f # r => m[f] = cached[f]
  BY ChangedIs
<1> HIDE DEF m
<1>3. ASSUME NEW f \in Runs, NEW s, Wrote(R, f, s)
      PROVE  /\ Fits(f, s, left.opened)
             /\ OpenNotes(s.body) # {} => f \notin listed \ list
             /\ \A h \in Landed(s.body) : h \in Landed(BodyOf(f)) \/ (L = <<>> /\ <<f, h>> \in to)
             /\ OpenNotes(s.body) # {} => OpenNotes(BodyOf(f)) # {} \/ f \in list
  <2>1. CASE f = r
    <3>1. s.body = b /\ s.rec.hunks = StatusesOf(s.body) /\ s.rec.updated_at = Now
      BY <1>3, <2>1 DEF Saying
    <3>2. Fits(r, s, left.opened)
      BY <1>1, <3>1, SaveFits
    <3> QED BY <2>1, <3>1, <3>2
  <2>2. CASE f # r
    <3>1. Keeps(f, s)
      BY <1>3, <2>2
    <3>2. Fits(f, s, left.opened) /\ s.body = BodyOf(f)
      BY <1>1, <3>1, KeepsFits
    <3> QED BY <2>2, <3>2
  <2> QED BY <2>1, <2>2
<1>4. \A f \in Runs : \/ m[f] = cached[f]
                      \/ cached[f] = None /\ m[f] = blob[f]
                      \/ \E s : Wrote(R, f, s) /\ m[f] = s.body
  BY <1>2 DEF Saying
<1>5. \A f \in listed \ list : Stored(f) =>
        /\ m[f] # None => OpenNotes(m[f]) = {}
        /\ (\E s : Wrote(R, f, s)) \/ (~BodyLost(f) /\ OpenNotes(BodyOf(f)) = {})
  BY <1>2
<1>6. decides # None => /\ \E s : Wrote(R, decides, s)
                        /\ \A s : Wrote(E, decides, s) \/ Wrote(R, decides, s) => (s.rec.open => Pending(s.body) # {})
  BY DEF Saying
<1>7. Planned(E, T, L, R, U, to, list, m, decides, left.opened)
  BY <1>1, <1>2, <1>3, <1>4, <1>5, <1>6 DEF Planned
<1> QED BY <1>7 DEF m

\* What the handlers of one run share.
LEMMA HandledRun ==
  ASSUME IInv, Idle, left.calls > 0, NEW r \in Runs, Stored(r), ~BodyLost(r)
  PROVE  /\ BodyOf(r) \in Body /\ meta[r] \in Draft
         /\ AheadOf(meta[r]) \in Runs \cup {None} /\ Now \in 0 .. MaxCalls
         /\ text \in SUBSET Keys /\ listed \subseteq Runs
         /\ \A i \in DOMAIN BodyOf(r) : <<r, i>> \in Keys /\ i \in 1 .. MaxHunks
         /\ DOMAIN BodyOf(r) = 1 .. Len(BodyOf(r))
<1>1. BodyOf(r) \in Body /\ meta[r] \in Draft /\ AheadOf(meta[r]) \in Runs \cup {None} /\ Now \in 0 .. MaxCalls
  BY KnownBody, StoredIs, NowIs
<1>2. DOMAIN BodyOf(r) = 1 .. Len(BodyOf(r)) /\ Len(BodyOf(r)) \in 1 .. MaxHunks
  BY <1>1, BodyParts
<1>3. \A i \in DOMAIN BodyOf(r) : <<r, i>> \in Keys /\ i \in 1 .. MaxHunks
  BY <1>2, Bounded DEF Keys
<1> QED BY <1>1, <1>2, <1>3 DEF IInv, Types

LEMMA RejectStep ==
  ASSUME IInv, NEW r \in Runs, NEW T \in SUBSET (1 .. MaxHunks), Reject(r, T)
  PROVE  IInv'
<1> DEFINE old == BodyOf(r)
           h == [status |-> "rejected", note |-> "open"]
           body == Over(old, T, h)
           rec == [meta[r] EXCEPT !.updated_at = Now]
           L == IF T = {} THEN <<>> ELSE List(r)
           list == IF T = {} THEN listed ELSE listed \cup {r}
           R == Settled(r, rec, body, T)
<1>1. Stored(r) /\ ~BodyLost(r) /\ T \subseteq Pending(old) /\ Begin(L \o R, Changed(r, body), r)
  BY DEF Reject, Decidable
<1> HIDE DEF body, rec, L, list, R
<1>2. Idle /\ left.calls > 0 /\ Begins(L \o R, Changed(r, body), r, left.opened)
  BY <1>1, BeginIs
<1>3. /\ old \in Body /\ meta[r] \in Draft /\ AheadOf(meta[r]) \in Runs \cup {None} /\ Now \in 0 .. MaxCalls
      /\ text \in SUBSET Keys /\ listed \subseteq Runs
  BY <1>1, <1>2, HandledRun
<1>4. /\ body \in Body /\ Len(body) = Len(old)
      /\ Landed(body) \subseteq Landed(old) /\ OpenNotes(body) \subseteq OpenNotes(old) \cup T
  <2>1. h \in HunkSet /\ h.status = "rejected" /\ h.note = "open"
    BY DEF HunkSet, Statuses, Notes
  <2> HIDE DEF h
  <2> QED BY <1>3, <2>1, OverIs DEF body
<1>5. rec \in Draft /\ rec.updated_at = Now
  BY <1>3 DEF rec, Draft
<1>6. /\ Part(R) /\ \E s : Wrote(R, r, s)
      /\ \A s : Wrote(R, r, s) => Saying(r, body, s) /\ (s.rec.open => Pending(body) # {})
      /\ \A f \in Runs : \A s : Wrote(R, f, s) => f = r \/ Keeps(f, s)
  BY <1>2, <1>4, <1>5, SettledIs DEF R
<1>7. Texts(<<>>, text) /\ Part(<<>>) /\ \A f, s : ~Wrote(<<>>, f, s)
  BY NonePart DEF Texts
<1>8. Listings(L, <<>>, list) /\ listed \subseteq list /\ (T # {} => r \in list)
  <2>1. CASE T = {}
    BY <2>1 DEF Listings, L, list
  <2>2. CASE T # {}
    BY <2>2, ListIs DEF L, list
  <2> QED BY <2>1, <2>2
<1>9. Planned(<<>>, <<>>, L, R, <<>>, text, list, Changed(r, body), r, left.opened)
  <2>1. \A i \in Landed(body) : i \in Landed(BodyOf(r)) \/ (L = <<>> /\ <<r, i>> \in text)
    BY <1>4
  <2>2. OpenNotes(body) # {} => (OpenNotes(BodyOf(r)) # {} \/ r \in list) /\ listed \subseteq list
    BY <1>4, <1>8
  <2>3. listed \ list \subseteq {r}
    BY <1>8
  <2> QED BY <1>1, <1>2, <1>4, <1>6, <1>7, <1>8, <2>1, <2>2, <2>3, OneRunPlan
<1>10. Stages(<<>>, <<>>, L, R, <<>>) = L \o R
  <2>1. L \in Seq(Entry) /\ R \in Seq(Entry)
    BY <1>6, <1>8, ListingsAre DEF Part
  <2> QED BY <2>1, ListStages
<1> QED BY <1>2, <1>9, <1>10, BeginStep

LEMMA AcceptStep ==
  ASSUME IInv, NEW r \in Runs, NEW T \in SUBSET (1 .. MaxHunks), Accept(r, T)
  PROVE  IInv'
<1> DEFINE old == BodyOf(r)
           fits == {i \in T : <<r, i>> \notin text}
           blocked == {i \in T \ fits : \E j \in Pending(old) \ T : j < i}
           conflict == (T \ fits) \ blocked
           h == [status |-> "accepted", note |-> "none"]
           g == [status |-> "conflict", note |-> "none"]
           body == Over(Over(old, fits, h), conflict, g)
           rec == [meta[r] EXCEPT !.updated_at = Now, !.approvals = (@ \cup fits) \ conflict]
           to == text \cup KeysOf(r, fits)
           W == IF to = text THEN <<>> ELSE Put("text", to)
           R == Settled(r, rec, body, T)
<1>1. Stored(r) /\ ~BodyLost(r) /\ T \subseteq Pending(old) /\ Begin(W \o R, Changed(r, body), r)
  BY DEF Accept, Decidable, Commit
<1>2. fits \subseteq T /\ conflict \subseteq T /\ to = text \cup {<<r, i>> : i \in fits}
  BY DEF KeysOf
<1> HIDE DEF fits, blocked, conflict, body, rec, to, W, R
<1>3. Idle /\ left.calls > 0 /\ Begins(W \o R, Changed(r, body), r, left.opened)
  BY <1>1, BeginIs
<1>4. /\ old \in Body /\ meta[r] \in Draft /\ AheadOf(meta[r]) \in Runs \cup {None} /\ Now \in 0 .. MaxCalls
      /\ text \in SUBSET Keys /\ listed \subseteq Runs
  BY <1>1, <1>3, HandledRun
<1>5. /\ body \in Body /\ Len(body) = Len(old)
      /\ Landed(body) \subseteq Landed(old) \cup fits /\ OpenNotes(body) \subseteq OpenNotes(old)
  <2>1. /\ h \in HunkSet /\ h.status = "accepted" /\ h.note = "none"
        /\ g \in HunkSet /\ g.status = "conflict" /\ g.note = "none"
    BY DEF HunkSet, Statuses, Notes
  <2> HIDE DEF h, g
  <2>2. PICK mid : mid = Over(old, fits, h)
    OBVIOUS
  <2>3. /\ mid \in Body /\ Len(mid) = Len(old)
        /\ Landed(mid) \subseteq Landed(old) \cup fits /\ OpenNotes(mid) \subseteq OpenNotes(old)
    BY <1>4, <2>1, <2>2, OverIs
  <2>4. /\ Over(mid, conflict, g) \in Body /\ Len(Over(mid, conflict, g)) = Len(mid)
        /\ Landed(Over(mid, conflict, g)) \subseteq Landed(mid) /\ OpenNotes(Over(mid, conflict, g)) \subseteq OpenNotes(mid)
    BY <2>1, <2>3, OverIs
  <2> QED BY <2>2, <2>3, <2>4 DEF body
<1>6. rec \in Draft /\ rec.updated_at = Now
  <2>1. meta[r].approvals \subseteq 1 .. MaxHunks
    BY <1>4 DEF Draft
  <2>2. PICK a : a = (meta[r].approvals \cup fits) \ conflict
    OBVIOUS
  <2>3. a \in SUBSET (1 .. MaxHunks) /\ rec = [meta[r] EXCEPT !.updated_at = Now, !.approvals = a]
    BY <1>2, <2>1, <2>2 DEF rec
  <2> QED BY <1>4, <2>3 DEF Draft
<1>7. /\ Part(R) /\ \E s : Wrote(R, r, s)
      /\ \A s : Wrote(R, r, s) => Saying(r, body, s) /\ (s.rec.open => Pending(body) # {})
      /\ \A f \in Runs : \A s : Wrote(R, f, s) => f = r \/ Keeps(f, s)
  BY <1>3, <1>5, <1>6, SettledIs DEF R
<1>8. Part(<<>>) /\ \A f, s : ~Wrote(<<>>, f, s)
  BY NonePart
<1>9. Listings(<<>>, <<>>, listed) /\ Texts(W, to)
  <2>1. to \in SUBSET Keys
    BY <1>2, <1>4 DEF Keys
  <2> QED BY <2>1, TextIs DEF Listings, W
<1>10. Planned(<<>>, W, <<>>, R, <<>>, to, listed, Changed(r, body), r, left.opened)
  <2>1. \A i \in Landed(body) : i \in Landed(BodyOf(r)) \/ (<<>> = <<>> /\ <<r, i>> \in to)
    BY <1>2, <1>5
  <2>2. OpenNotes(body) # {} => (OpenNotes(BodyOf(r)) # {} \/ r \in listed) /\ listed \subseteq listed
    BY <1>5
  <2>3. listed \ listed \subseteq {r}
    OBVIOUS
  <2> QED BY <1>1, <1>3, <1>5, <1>7, <1>8, <1>9, <2>1, <2>2, <2>3, OneRunPlan
<1>11. Stages(<<>>, W, <<>>, R, <<>>) = W \o R
  <2>1. W \in Seq(Entry) /\ R \in Seq(Entry) /\ <<>> \in Seq(Entry)
    BY <1>7, <1>8, <1>9, TextsAre DEF Part
  <2>2. <<>> \o (W \o R) = W \o R
    BY <2>1, Joined, Alone
  <2> QED BY <2>1, <2>2, TextStages
<1> QED BY <1>3, <1>10, <1>11, BeginStep

LEMMA RevertStep ==
  ASSUME IInv, NEW r \in Runs, NEW asks \in BOOLEAN, Revert(r, asks)
  PROVE  IInv'
<1> DEFINE old == BodyOf(r)
           landed == Landed(old)
           ended == [i \in DOMAIN old |-> IF i \in Pending(old) THEN [old[i] EXCEPT !.status = "rejected"] ELSE old[i]]
           body == [i \in DOMAIN old |-> IF asks /\ i \in landed \cup Pending(old) THEN [ended[i] EXCEPT !.note = "open"] ELSE ended[i]]
           rec == [meta[r] EXCEPT !.open = FALSE, !.reverted = TRUE, !.updated_at = Now]
           to == text \ KeysOf(r, landed)
           W == IF to = text THEN <<>> ELSE Put("text", to)
           L == IF asks THEN List(r) ELSE <<>>
           list == IF asks THEN listed \cup {r} ELSE listed
           S == Save(r, rec, body)
           N == Unlink(r, rec, Now)
           R == S \o N
<1>1. Stored(r) /\ ~BodyLost(r) /\ Begin(W \o ((L \o S) \o N), Changed(r, body), None)
  BY DEF Revert, Commit
<1> HIDE DEF rec, to, W, L, list, S, N
<1>3. Idle /\ left.calls > 0 /\ Begins(W \o ((L \o S) \o N), Changed(r, body), None, left.opened)
  BY <1>1, BeginIs
<1>4. /\ old \in Body /\ meta[r] \in Draft /\ AheadOf(meta[r]) \in Runs \cup {None} /\ Now \in 0 .. MaxCalls
      /\ text \in SUBSET Keys /\ listed \subseteq Runs
  BY <1>1, <1>3, HandledRun
<1>5. /\ body \in Body /\ Len(body) = Len(old)
      /\ Landed(body) \subseteq Landed(old) /\ (~asks => OpenNotes(body) \subseteq OpenNotes(old))
  <2>1. \A i \in DOMAIN old : old[i] \in HunkSet
    BY <1>4, BodyParts
  <2>2. \A i \in DOMAIN old : /\ ended[i] \in HunkSet /\ ended[i].note = old[i].note
                              /\ ended[i].status \in {"accepted", "auto_applied"} => i \in Landed(old)
    <3> SUFFICES ASSUME NEW i \in DOMAIN old
                 PROVE  /\ ended[i] \in HunkSet /\ ended[i].note = old[i].note
                        /\ ended[i].status \in {"accepted", "auto_applied"} => i \in Landed(old)
      OBVIOUS
    <3>1. [old[i] EXCEPT !.status = "rejected"] \in HunkSet /\ [old[i] EXCEPT !.status = "rejected"].note = old[i].note
          /\ [old[i] EXCEPT !.status = "rejected"].status = "rejected"
      BY <2>1 DEF HunkSet, Statuses
    <3>2. CASE i \in Pending(old)
      BY <3>1, <3>2
    <3>3. CASE i \notin Pending(old)
      BY <2>1, <3>3 DEF Landed, With
    <3> QED BY <3>2, <3>3
  <2> HIDE DEF ended
  <2>3. \A i \in DOMAIN old : /\ body[i] \in HunkSet /\ (~asks => body[i].note = old[i].note)
                              /\ body[i].status \in {"accepted", "auto_applied"} => i \in Landed(old)
    <3> SUFFICES ASSUME NEW i \in DOMAIN old
                 PROVE  /\ body[i] \in HunkSet /\ (~asks => body[i].note = old[i].note)
                        /\ body[i].status \in {"accepted", "auto_applied"} => i \in Landed(old)
      OBVIOUS
    <3>1. [ended[i] EXCEPT !.note = "open"] \in HunkSet /\ [ended[i] EXCEPT !.note = "open"].status = ended[i].status
      BY <2>2 DEF HunkSet, Notes
    <3>2. CASE asks /\ i \in landed \cup Pending(old)
      BY <2>2, <3>1, <3>2
    <3>3. CASE ~(asks /\ i \in landed \cup Pending(old))
      BY <2>2, <3>3
    <3> QED BY <3>2, <3>3
  <2>4. body = [i \in DOMAIN old |-> body[i]]
    OBVIOUS
  <2> HIDE DEF body
  <2>5. body \in Body /\ Len(body) = Len(old) /\ DOMAIN body = DOMAIN old
    BY <1>4, <2>3, <2>4, Rewritten
  <2>6. Landed(body) \subseteq Landed(old)
    BY <2>3, <2>5 DEF Landed, With
  <2>7. ~asks => OpenNotes(body) \subseteq OpenNotes(old)
    BY <2>3, <2>5 DEF OpenNotes
  <2> QED BY <2>5, <2>6, <2>7
<1> HIDE DEF body, ended, landed
<1>6. rec \in Draft /\ rec.updated_at = Now /\ AheadOf(rec) \in Runs \cup {None}
  <2>1. rec \in Draft /\ rec.updated_at = Now
    BY <1>4 DEF rec, Draft
  <2>2. rec.behind \in Runs \cup {None}
    BY <2>1 DEF Draft
  <2> QED BY <2>1, <2>2 DEF AheadOf
<1>7. /\ Part(R) /\ \A s : Wrote(R, r, s) <=> s = Saved(rec, body)
      /\ \A f \in Runs : \A s : Wrote(R, f, s) => f = r \/ Keeps(f, s)
  BY <1>3, <1>5, <1>6, WithUnlinkIs DEF S, N
<1>8. Saying(r, body, Saved(rec, body))
  BY <1>5, <1>6, SavedIs DEF Saying
<1>9. Part(<<>>) /\ \A f, s : ~Wrote(<<>>, f, s)
  BY NonePart
<1>10. Listings(L, <<>>, list) /\ listed \subseteq list /\ (asks => r \in list) /\ Texts(W, to)
  <2>1. to \in SUBSET Keys
    BY <1>4 DEF to
  <2>2. CASE ~asks
    BY <2>1, <2>2, TextIs DEF Listings, L, list, W
  <2>3. CASE asks
    BY <2>1, <2>3, TextIs, ListIs DEF L, list, W
  <2> QED BY <2>2, <2>3
<1>11. W \in Seq(Entry) /\ L \in Seq(Entry)
  BY <1>10, TextsAre, ListingsAre
<1>12. Part(S) /\ Part(N)
  BY <1>3, <1>5, <1>6, SaveIs, UnlinkIs DEF S, N
<1> HIDE DEF R
<1>13. Planned(<<>>, W, L, R, <<>>, to, list, Changed(r, body), None, left.opened)
  <2>1. \A i \in Landed(body) : i \in Landed(BodyOf(r)) \/ (L = <<>> /\ <<r, i>> \in to)
    BY <1>5
  <2>2. OpenNotes(body) # {} => (OpenNotes(BodyOf(r)) # {} \/ r \in list) /\ listed \subseteq list
    BY <1>5, <1>10
  <2>3. listed \ list \subseteq {r}
    BY <1>10
  <2>4. (\E s : Wrote(R, r, s)) /\ (\A s : Wrote(R, r, s) => Saying(r, body, s))
    BY <1>7, <1>8
  <2>5. None \in {None, r} /\ None # r
    BY Bounded
  <2> QED BY <1>1, <1>3, <1>5, <1>7, <1>9, <1>10, <2>1, <2>2, <2>3, <2>4, <2>5, OneRunPlan
<1>14. Stages(<<>>, W, L, R, <<>>) = W \o ((L \o S) \o N)
  <2>1. S \in Seq(Entry) /\ N \in Seq(Entry)
    BY <1>12 DEF Part
  <2>2. PICK q : q = W \o ((L \o S) \o N)
    OBVIOUS
  <2>3. R = S \o N
    BY DEF R
  <2>4. Stages(<<>>, W, L, R, <<>>) = q
    BY ONLY <1>11, <2>1, <2>2, <2>3, RevertStages
  <2> QED BY <2>2, <2>4
<1> QED BY <1>3, <1>13, <1>14, BeginStep

LEMMA UndoStep ==
  ASSUME IInv, NEW r \in Runs, NEW T \in SUBSET (1 .. MaxHunks), Undo(r, T)
  PROVE  IInv'
<1> DEFINE old == BodyOf(r)
           accepted == T \cap With(old, {"accepted"})
           reopens == ~meta[r].open
           h == [status |-> "pending", note |-> "none"]
           body == Over(old, T, h)
           rec == [meta[r] EXCEPT !.open = TRUE, !.updated_at = Now, !.approvals = @ \ T,
                                  !.behind = IF reopens THEN AheadOf(meta[r]) ELSE @]
           to == text \ KeysOf(r, accepted)
           E == IF reopens /\ OpenRun = None THEN Pointer(None) ELSE <<>>
           W == IF to = text THEN <<>> ELSE Put("text", to)
           S == Save(r, rec, body)
           P == IF reopens THEN Put("active", r) ELSE <<>>
           drops == OpenNotes(old) # OpenNotes(body) /\ OpenNotes(body) = {}
           U == IF drops THEN Unlist({r}) ELSE <<>>
           list == IF drops THEN listed \ {r} ELSE listed
           R == S \o P
<1>1. Stored(r) /\ ~BodyLost(r) /\ Begin(((E \o (W \o S)) \o P) \o U, Changed(r, body), None)
  BY DEF Undo, Commit
<1> HIDE DEF accepted, rec, to, E, W, S, P, U, list, R, body
<1>2. Idle /\ left.calls > 0 /\ Begins(((E \o (W \o S)) \o P) \o U, Changed(r, body), None, left.opened)
  BY <1>1, BeginIs
<1>3. /\ old \in Body /\ meta[r] \in Draft /\ AheadOf(meta[r]) \in Runs \cup {None} /\ Now \in 0 .. MaxCalls
      /\ text \in SUBSET Keys /\ listed \subseteq Runs
  BY <1>1, <1>2, HandledRun
<1>4. /\ body \in Body /\ Len(body) = Len(old)
      /\ Landed(body) \subseteq Landed(old) /\ OpenNotes(body) \subseteq OpenNotes(old)
  <2>1. h \in HunkSet /\ h.status = "pending" /\ h.note = "none"
    BY DEF HunkSet, Statuses, Notes
  <2> HIDE DEF h
  <2> QED BY <1>3, <2>1, OverIs DEF body
<1>5. rec \in Draft /\ rec.updated_at = Now
  <2>1. meta[r].approvals \subseteq 1 .. MaxHunks /\ meta[r].behind \in Runs \cup {None}
    BY <1>3 DEF Draft
  <2>2. PICK a : a = meta[r].approvals \ T
    OBVIOUS
  <2>3. PICK b : b = IF reopens THEN AheadOf(meta[r]) ELSE meta[r].behind
    OBVIOUS
  <2>4. a \in SUBSET (1 .. MaxHunks) /\ b \in Runs \cup {None}
    BY <1>3, <2>1, <2>2, <2>3
  <2>5. rec = [meta[r] EXCEPT !.open = TRUE, !.updated_at = Now, !.approvals = a, !.behind = b]
    BY <2>2, <2>3 DEF rec
  <2> QED BY <1>3, <2>4, <2>5 DEF Draft
<1>6. /\ Part(S) /\ \A f, s : Wrote(S, f, s) <=> f = r /\ s = Saved(rec, body)
      /\ Saying(r, body, Saved(rec, body))
  BY <1>4, <1>5, SaveIs, SavedIs DEF S, Saying
<1>7. Part(P) /\ \A f, s : ~Wrote(P, f, s)
  BY PointerIs, NonePart DEF P
<1>8. Part(E) /\ \A f, s : ~Wrote(E, f, s)
  <2>1. None \in Runs \cup {None}
    OBVIOUS
  <2> QED BY <2>1, PointerIs, NonePart DEF E
<1>9. Part(R) /\ \A f, s : Wrote(R, f, s) <=> f = r /\ s = Saved(rec, body)
  BY <1>6, <1>7, JoinedParts DEF R
<1>10. Listings(<<>>, U, list) /\ Texts(W, to)
  <2>1. to \in SUBSET Keys
    BY <1>3 DEF to
  <2>2. CASE drops
    BY <2>1, <2>2, TextIs, UnlistIs DEF U, list, W
  <2>3. CASE ~drops
    <3>1. U = <<>> /\ list = listed
      BY <2>3 DEF U, list
    <3> QED BY <2>1, <3>1, TextIs DEF Listings, W
  <2> QED BY <2>2, <2>3
<1>11. Planned(E, W, <<>>, R, U, to, list, Changed(r, body), None, left.opened)
  <2>1. \A i \in Landed(body) : i \in Landed(BodyOf(r)) \/ (<<>> = <<>> /\ <<r, i>> \in to)
    BY <1>4
  <2>2. OpenNotes(body) # {} => (OpenNotes(BodyOf(r)) # {} \/ r \in list) /\ listed \subseteq list
    BY <1>4 DEF list
  <2>3. listed \ list \subseteq {r}
    BY DEF list
  <2>4. /\ \E s : Wrote(R, r, s)
        /\ \A s : Wrote(R, r, s) => Saying(r, body, s)
        /\ \A f \in Runs : \A s : Wrote(R, f, s) => f = r \/ Keeps(f, s)
    BY <1>6, <1>9
  <2>5. None \in {None, r} /\ None # r
    BY Bounded
  <2> QED BY <1>1, <1>2, <1>4, <1>8, <1>9, <1>10, <2>1, <2>2, <2>3, <2>4, <2>5, OneRunPlan
<1>12. Stages(E, W, <<>>, R, U) = ((E \o (W \o S)) \o P) \o U
  <2>1. E \in Seq(Entry) /\ S \in Seq(Entry) /\ P \in Seq(Entry)
    BY <1>6, <1>7, <1>8 DEF Part
  <2>2. W \in Seq(Entry) /\ U \in Seq(Entry)
    BY <1>10, TextsAre, ListingsAre
  <2>3. PICK q : q = E \o W
    OBVIOUS
  <2>4. q \in Seq(Entry)
    BY <2>1, <2>2, <2>3, Joined
  <2>5. q \o <<>> = q
    BY ONLY <2>4, Alone
  <2>6. (q \o S) \o P = q \o (S \o P)
    BY ONLY <2>1, <2>4, Regrouped
  <2>7. (E \o W) \o S = E \o (W \o S)
    BY ONLY <2>1, <2>2, Regrouped
  <2>8. Stages(E, W, <<>>, R, U) = ((q \o <<>>) \o R) \o U
    BY ONLY <2>3 DEF Stages
  <2>9. R = S \o P
    BY ONLY DEF R
  <2> QED BY ONLY <2>3, <2>5, <2>6, <2>7, <2>8, <2>9
<1> QED BY <1>2, <1>11, <1>12, BeginStep

LEMMA AckStep ==
  ASSUME IInv, NEW r \in Runs, Ack(r)
  PROVE  IInv'
<1> DEFINE old == BodyOf(r)
           body == Addressed(old)
           rec == [meta[r] EXCEPT !.updated_at = Now]
           R == Save(r, rec, body)
           U == IF body # old THEN Unlist({r}) ELSE <<>>
           list == IF body # old THEN listed \ {r} ELSE listed
<1>1. Stored(r) /\ ~BodyLost(r) /\ Begin(R \o U, Changed(r, body), None)
  BY DEF Ack
<1> HIDE DEF body, rec, R, U, list
<1>2. Idle /\ left.calls > 0 /\ Begins(R \o U, Changed(r, body), None, left.opened)
  BY <1>1, BeginIs
<1>3. /\ old \in Body /\ meta[r] \in Draft /\ AheadOf(meta[r]) \in Runs \cup {None} /\ Now \in 0 .. MaxCalls
      /\ text \in SUBSET Keys /\ listed \subseteq Runs
  BY <1>1, <1>2, HandledRun
<1>4. body \in Body /\ Len(body) = Len(old) /\ Landed(body) = Landed(old) /\ OpenNotes(body) = {}
  BY <1>3, AddressedIs DEF body
<1>5. rec \in Draft /\ rec.updated_at = Now
  BY <1>3 DEF rec, Draft
<1>6. /\ Part(R) /\ \A f, s : Wrote(R, f, s) <=> f = r /\ s = Saved(rec, body)
      /\ Saying(r, body, Saved(rec, body))
  BY <1>4, <1>5, SaveIs, SavedIs DEF R, Saying
<1>7. Texts(<<>>, text) /\ Part(<<>>) /\ \A f, s : ~Wrote(<<>>, f, s)
  BY NonePart DEF Texts
<1>8. Listings(<<>>, U, list)
  <2>1. CASE body # old
    BY <2>1, UnlistIs DEF U, list
  <2>2. CASE body = old
    BY <2>2 DEF U, list, Listings
  <2> QED BY <2>1, <2>2
<1>9. Planned(<<>>, <<>>, <<>>, R, U, text, list, Changed(r, body), None, left.opened)
  <2>1. \A i \in Landed(body) : i \in Landed(BodyOf(r)) \/ (<<>> = <<>> /\ <<r, i>> \in text)
    BY <1>4
  <2>2. OpenNotes(body) # {} => (OpenNotes(BodyOf(r)) # {} \/ r \in list) /\ listed \subseteq list
    BY <1>4
  <2>3. listed \ list \subseteq {r}
    BY DEF list
  <2>4. /\ \E s : Wrote(R, r, s)
        /\ \A s : Wrote(R, r, s) => Saying(r, body, s)
        /\ \A f \in Runs : \A s : Wrote(R, f, s) => f = r \/ Keeps(f, s)
    BY <1>6
  <2>5. None \in {None, r} /\ None # r
    BY Bounded
  <2> QED BY <1>1, <1>2, <1>4, <1>6, <1>7, <1>8, <2>1, <2>2, <2>3, <2>4, <2>5, OneRunPlan
<1>10. Stages(<<>>, <<>>, <<>>, R, U) = R \o U
  <2>1. R \in Seq(Entry) /\ U \in Seq(Entry)
    BY <1>6, <1>8, ListingsAre DEF Part
  <2> QED BY <2>1, UnlistStages
<1> QED BY <1>2, <1>9, <1>10, BeginStep

-----------------------------------------------------------------------------
(* Handlers of several runs *)

LEMMA ScanStep ==
  ASSUME IInv, NEW A, Scan(A)
  PROVE  IInv'
<1> DEFINE read == {r \in listed : Stored(r)}
           whole == {r \in read : ~BodyLost(r)}
           answers == {r \in whole \cap A : OpenNotes(BodyOf(r)) # {}}
           gone == (listed \ read) \cup {r \in whole : r \in answers \/ OpenNotes(BodyOf(r)) = {}}
           body(r) == IF r \in answers THEN Addressed(BodyOf(r)) ELSE BodyOf(r)
           g == [r \in answers |-> Saved(meta[r], body(r))]
           R == Saves(g)
           U == Unlist(gone)
           m == [r \in Runs |-> IF r \in answers THEN body(r) ELSE Mirrored(whole)[r]]
           list == listed \ gone
<1>1. Begin(R \o U, m, None)
  BY DEF Scan
<1>2. Idle /\ left.calls > 0 /\ Begins(R \o U, m, None, left.opened)
  BY <1>1, BeginIs
<1>3. Types /\ Stamps /\ listed \subseteq Runs
  BY DEF IInv, Types
<1>4. ASSUME NEW r \in Runs, Stored(r), ~BodyLost(r)
      PROVE  /\ BodyOf(r) \in Body /\ meta[r] \in Draft /\ r <= left.opened
             /\ Addressed(BodyOf(r)) \in Body /\ Len(Addressed(BodyOf(r))) = Len(BodyOf(r))
             /\ Landed(Addressed(BodyOf(r))) = Landed(BodyOf(r)) /\ OpenNotes(Addressed(BodyOf(r))) = {}
  BY <1>2, <1>4, KnownBody, StoredIs, AddressedIs
<1>5. answers \in SUBSET Runs /\ \A r \in answers : r \in Runs /\ Stored(r) /\ ~BodyLost(r) /\ body(r) = Addressed(BodyOf(r))
  BY <1>3
<1>6. ASSUME NEW r \in answers
      PROVE  /\ g[r] \in ToSave /\ g[r].body = Addressed(BodyOf(r)) /\ g[r].rec.hunks = StatusesOf(g[r].body)
             /\ g[r].rec.updated_at = meta[r].updated_at /\ Same(meta[r], g[r].rec)
  <2>1. g[r] = Saved(meta[r], Addressed(BodyOf(r)))
    BY <1>5
  <2>2. meta[r] \in Draft /\ Addressed(BodyOf(r)) \in Body
    BY <1>4, <1>5
  <2> HIDE DEF g
  <2> QED BY <2>1, <2>2, SavedIs DEF Same
<1>7. g \in [answers -> ToSave]
  BY <1>6
<1>8. Part(R) /\ \A r, s : Wrote(R, r, s) <=> r \in answers /\ s = g[r]
  BY <1>5, <1>7, SavesIs
<1>9. Texts(<<>>, text) /\ Part(<<>>) /\ \A f, s : ~Wrote(<<>>, f, s)
  BY NonePart DEF Texts
<1>10. Listings(<<>>, U, list)
  BY UnlistIs
<1>11. /\ m \in [Runs -> Body \cup {None}]
       /\ \A r \in answers : m[r] = Addressed(BodyOf(r))
       /\ \A r \in Runs \ answers : m[r] = Mirrored(whole)[r]
       /\ \A r \in Runs : Mirrored(whole)[r] = IF r \in whole /\ cached[r] = None THEN blob[r] ELSE cached[r]
  <2>1. \A r \in Runs : /\ Mirrored(whole)[r] = IF r \in whole /\ cached[r] = None THEN blob[r] ELSE cached[r]
                        /\ Mirrored(whole)[r] \in Body \cup {None}
    BY <1>3 DEF Mirrored, Types
  <2>2. \A r \in answers : m[r] = Addressed(BodyOf(r)) /\ m[r] \in Body
    BY <1>4, <1>5
  <2>3. \A r \in Runs \ answers : m[r] = Mirrored(whole)[r] /\ m[r] \in Body \cup {None}
    BY <2>1
  <2>4. m = [r \in Runs |-> m[r]] /\ \A r \in Runs : m[r] \in Body \cup {None}
    BY <2>2, <2>3
  <2> HIDE DEF m, whole, answers
  <2>5. m \in [Runs -> Body \cup {None}]
    BY <2>4
  <2> QED BY <2>1, <2>2, <2>3, <2>5
<1>12. \A r \in listed \ list : Stored(r) => ~BodyLost(r) /\ (r \in answers \/ OpenNotes(BodyOf(r)) = {}) /\ r \in whole
  OBVIOUS
<1>13. list \subseteq listed
  OBVIOUS
<1> HIDE DEF list, m, R, U, g, body, gone, answers, read, whole
<1>14. ASSUME NEW r \in Runs, NEW s, Wrote(R, r, s)
       PROVE  /\ Fits(r, s, left.opened) /\ OpenNotes(s.body) = {} /\ Landed(s.body) = Landed(BodyOf(r))
  <2>1. r \in answers /\ s = g[r]
    BY <1>8, <1>14
  <2>2. Stored(r) /\ ~BodyLost(r) /\ s.body = Addressed(BodyOf(r)) /\ s.rec.hunks = StatusesOf(s.body)
        /\ s.rec.updated_at = meta[r].updated_at /\ Same(meta[r], s.rec)
    BY <1>5, <1>6, <2>1
  <2>3. meta[r].updated_at <= Now
    <3>1. meta[r].updated_at <= Then
      BY <1>3, <2>2 DEF Stamps, Stored
    <3>2. Now \in Nat /\ Then = Now - 1 /\ Then \in Int
      <4>1. left.calls \in 0 .. MaxCalls /\ MaxCalls \in Nat
        BY <1>3, Bounded DEF Types, Bounds
      <4> QED BY <4>1, <1>2, NowIs DEF Now, Then
    <3>3. meta[r].updated_at \in Nat
      BY <2>2, StoredIs, RecordIs
    <3> QED BY <3>1, <3>2, <3>3
  <2>4. Len(s.body) = Len(BodyOf(r)) /\ Len(BodyOf(r)) \in Nat /\ r <= left.opened
    BY <1>4, <2>2, BodyParts
  <2> QED BY <1>4, <2>2, <2>3, <2>4 DEF Fits
<1>15. \A r \in Runs : \/ m[r] = cached[r]
                       \/ cached[r] = None /\ m[r] = blob[r]
                       \/ \E s : Wrote(R, r, s) /\ m[r] = s.body
  <2> SUFFICES ASSUME NEW r \in Runs, r \in answers
               PROVE  Wrote(R, r, g[r]) /\ m[r] = g[r].body
    BY <1>11
  <2> QED BY <1>6, <1>8, <1>11
<1>16. ASSUME NEW r \in listed \ list, Stored(r)
       PROVE  /\ m[r] # None => OpenNotes(m[r]) = {}
              /\ (\E s : Wrote(R, r, s)) \/ (~BodyLost(r) /\ OpenNotes(BodyOf(r)) = {})
  <2>0. r \in Runs
    BY <1>3
  <2>1. CASE r \in answers
    <3>1. m[r] = Addressed(BodyOf(r)) /\ Wrote(R, r, g[r])
      BY <1>8, <1>11, <2>1
    <3> QED BY <1>4, <1>5, <2>1, <3>1
  <2>2. CASE r \notin answers
    <3>1. ~BodyLost(r) /\ OpenNotes(BodyOf(r)) = {} /\ m[r] = IF cached[r] = None THEN blob[r] ELSE cached[r]
      BY <1>11, <1>12, <1>16, <2>0, <2>2
    <3>2. m[r] # None => m[r] = BodyOf(r)
      BY <3>1 DEF BodyOf
    <3> QED BY <3>1, <3>2
  <2> QED BY <2>1, <2>2
<1>17. Planned(<<>>, <<>>, <<>>, R, U, text, list, m, None, left.opened)
  <2>1. left.opened \in left.opened .. MaxRuns
    BY <1>3, Bounded DEF Types, Bounds
  <2>2. \A r \in Runs : \A s, x : ~(Wrote(<<>>, r, s) /\ Wrote(R, r, x))
    BY <1>9
  <2>3. \A r \in Runs : \A s : Wrote(<<>>, r, s) \/ Wrote(R, r, s) =>
          Fits(r, s, left.opened) /\ (OpenNotes(s.body) # {} => r \notin listed \ list)
    BY <1>9, <1>14
  <2>4. \A r \in Runs : \A s : Wrote(<<>>, r, s) =>
          Stored(r) /\ Landed(s.body) \subseteq Landed(BodyOf(r)) /\ (OpenNotes(s.body) # {} => OpenNotes(BodyOf(r)) # {})
    BY <1>9
  <2>5. \A r \in Runs : \A s : Wrote(R, r, s) =>
          /\ \A h \in Landed(s.body) : h \in Landed(BodyOf(r)) \/ (<<>> = <<>> /\ <<r, h>> \in text)
          /\ OpenNotes(s.body) # {} => OpenNotes(BodyOf(r)) # {} \/ r \in list
    BY <1>14
  <2> QED BY <1>8, <1>9, <1>10, <1>11, <1>15, <1>16, <2>1, <2>2, <2>3, <2>4, <2>5 DEF Planned
<1>18. Stages(<<>>, <<>>, <<>>, R, U) = R \o U
  <2>1. R \in Seq(Entry) /\ U \in Seq(Entry)
    BY <1>8, <1>10, ListingsAre DEF Part
  <2> QED BY <2>1, UnlistStages
<1> QED BY <1>2, <1>17, <1>18, BeginStep

\* The open run, and the last of the runs that wait.
LEMMA OpenRunIs ==
  ASSUME IInv, OpenRun # None
  PROVE  OpenRun \in Runs /\ Stored(OpenRun)
BY DEF OpenRun, IsOpen, Stored, IInv, Types

LEMMA AheadIs ==
  ASSUME NEW waiting \in SUBSET Runs
  PROVE  (IF waiting = {} THEN None ELSE CHOOSE r \in waiting : \A s \in waiting : s <= r) \in Runs \cup {None}
<1>1. CASE waiting # {}
  <2>1. \E r \in waiting : \A s \in waiting : s <= r
    BY <1>1, LastRun
  <2>2. (CHOOSE r \in waiting : \A s \in waiting : s <= r) \in waiting
    BY <2>1
  <2> QED BY <1>1, <2>2
<1> QED BY <1>1

LEMMA ProposeStep ==
  ASSUME IInv, NEW c \in Changes, NEW auto \in BOOLEAN, NEW idle \in BOOLEAN, Propose(c, auto, idle)
  PROVE  IInv'
<1> DEFINE o == OpenRun
           quiet == o # None /\ Pending(BodyOf(o)) = {}
           closes == quiet /\ (idle \/ meta[o].change # c)
           goesOn == o # None /\ ~closes /\ meta[o].change = c
           open == IF goesOn THEN o ELSE None
           waiting == {r \in Chain : Pending(BodyOf(r)) # {}}
           commit == auto /\ waiting = {}
           ahead == IF waiting = {} THEN None ELSE CHOOSE r \in waiting : \A s \in waiting : s <= r
           r == IF open = None THEN left.opened + 1 ELSE open
           body == (IF open = None THEN <<>> ELSE BodyOf(open)) \o <<Hunk(commit)>>
           rec == IF open = None THEN NewRecord(c, ahead) ELSE [meta[open] EXCEPT !.updated_at = Now]
           to == IF commit THEN text \cup {<<r, Len(body)>>} ELSE text
           old == [meta[o] EXCEPT !.updated_at = Now]
           A == IF o = None THEN Pointer(None) ELSE <<>>
           B == IF closes THEN Close(o, old, BodyOf(o), Now) ELSE <<>>
           E == A \o B
           W == IF to = text THEN <<>> ELSE Put("text", to)
           Q == IF open = None THEN Put("active", r) ELSE <<>>
           S == Save(r, rec, body)
           R == Q \o S
           m == Mirrored({f \in Runs : IsOpen(f)})
           opened == IF goesOn THEN left.opened ELSE left.opened + 1
<1>1. /\ o # None => ~BodyLost(o)
      /\ IF goesOn THEN Len(BodyOf(open)) < MaxHunks ELSE left.opened < MaxRuns
      /\ Idle /\ left.calls > 0
      /\ op' = [todo |-> (A \o B) \o (W \o (Q \o S)), half |-> FALSE, decides |-> None]
      /\ cached' = m /\ answered' = None /\ UNCHANGED <<disk, index, jobs>>
  BY DEF Propose, Proposal, Commit
<1>2. left' = [left EXCEPT !.calls = @ - 1, !.opened = opened]
  <2>1. left' = [left EXCEPT !.calls = @ - 1, !.opened = IF goesOn THEN @ ELSE @ + 1]
    BY DEF Propose
  <2> HIDE DEF goesOn
  <2> QED BY <2>1
<1>3. waiting \in SUBSET Runs /\ commit \in BOOLEAN
  BY DEF Chain
<1>4. closes => open = None /\ o # None
  OBVIOUS
<1>5. open # None => open = o /\ opened = left.opened /\ Len(BodyOf(o)) < MaxHunks
  BY <1>1
<1>6. open = None => left.opened < MaxRuns /\ opened = left.opened + 1
  BY <1>1, Bounded, OpenRunIs
<1> HIDE DEF o, quiet, closes, goesOn, open, waiting, commit, ahead, r, body, rec, to, old, A, B, E, W, Q, S, R, m, opened
<1>7. Types /\ Bounds /\ Now \in 0 .. MaxCalls
  BY <1>1, NowIs DEF IInv, Types
<1>8. left.opened \in Nat /\ MaxRuns \in Nat /\ opened \in left.opened .. MaxRuns
  <2>1. left.opened \in 0 .. MaxRuns /\ MaxRuns \in Nat
    BY <1>7, Bounded DEF Bounds
  <2> QED BY <2>1, <1>5, <1>6
<1>9. ASSUME o # None
      PROVE  o \in Runs /\ Stored(o) /\ ~BodyLost(o) /\ BodyOf(o) \in Body /\ meta[o] \in Draft /\ o <= left.opened
             /\ old \in Draft /\ old.updated_at = Now
  <2>1. o \in Runs /\ Stored(o) /\ ~BodyLost(o)
    BY <1>1, <1>9, OpenRunIs DEF o
  <2>2. BodyOf(o) \in Body /\ meta[o] \in Draft /\ o <= left.opened
    BY <1>1, <2>1, KnownBody, StoredIs
  <2>3. old \in Draft /\ old.updated_at = Now
    BY <1>7, <2>2 DEF old, Draft
  <2> QED BY <2>1, <2>2, <2>3
\* What is closed first.
<1>10. Part(A) /\ \A f, s : ~Wrote(A, f, s)
  <2>1. None \in Runs \cup {None}
    OBVIOUS
  <2> QED BY <2>1, PointerIs, NonePart DEF A
<1>11. Part(B) /\ \A f \in Runs : \A s : Wrote(B, f, s) => closes /\ Keeps(f, s)
  <2>1. CASE closes
    <3>1. o # None
      BY <1>4, <2>1
    <3>2. /\ Part(Close(o, old, BodyOf(o), Now))
          /\ \A s : Wrote(Close(o, old, BodyOf(o), Now), o, s) => Saying(o, BodyOf(o), s)
          /\ \A f \in Runs : \A s : Wrote(Close(o, old, BodyOf(o), Now), f, s) => f = o \/ Keeps(f, s)
      BY <1>1, <1>9, <3>1, CloseIs
    <3>3. B = Close(o, old, BodyOf(o), Now)
      BY <2>1 DEF B
    <3>4. \A s : Wrote(B, o, s) => Keeps(o, s)
      BY <1>9, <3>1, <3>2, <3>3 DEF Saying, Keeps
    <3> QED BY <2>1, <3>2, <3>3, <3>4
  <2>2. CASE ~closes
    BY <2>2, NonePart DEF B
  <2> QED BY <2>1, <2>2
<1>12. Part(E) /\ \A f \in Runs : \A s : Wrote(E, f, s) => closes /\ Keeps(f, s)
  <2>1. Part(E) /\ \A f, s : Wrote(E, f, s) <=> Wrote(A, f, s) \/ Wrote(B, f, s)
    BY <1>10, <1>11, JoinedParts DEF E
  <2> QED BY <1>10, <1>11, <2>1
\* The run that takes the hunk.
<1>13. /\ r \in Runs /\ r <= opened /\ r \in Nat
       /\ open = None => r = left.opened + 1 /\ r > left.opened
       /\ open # None => r = o /\ o # None
  <2>1. CASE open = None
    <3>1. r = left.opened + 1 /\ r \in 1 .. MaxRuns /\ r = opened
      BY <1>6, <1>8, <2>1 DEF r
    <3> QED BY <1>8, <2>1, <3>1 DEF Runs
  <2>2. CASE open # None
    <3>1. r = o /\ o # None /\ opened = left.opened
      BY <1>5, <2>2 DEF r
    <3> QED BY <1>9, <2>2, <3>1, Bounded
  <2> QED BY <2>1, <2>2
<1>14. /\ body \in Body /\ Len(body) >= Len(BodyOf(r)) /\ OpenNotes(body) = OpenNotes(BodyOf(r))
       /\ Landed(body) = Landed(BodyOf(r)) \cup (IF commit THEN {Len(body)} ELSE {})
  <2>1. PICK b : b = IF open = None THEN <<>> ELSE BodyOf(open)
    OBVIOUS
  <2>2. body = b \o <<Hunk(commit)>>
    BY <2>1 DEF body
  <2>3. b = BodyOf(r)
    BY <1>5, <1>13, <2>1, FreshBody
  <2>4. b \in Body \cup {<<>>} /\ Len(b) < MaxHunks
    <3>1. CASE open = None
      <4>1. MaxHunks \in Nat /\ MaxHunks # 0 /\ Len(<<>>) = 0
        BY Bounded, DiskAssumption
      <4> QED BY <2>1, <3>1, <4>1
    <3>2. CASE open # None
      BY <1>5, <1>9, <1>13, <2>1, <3>2
    <3> QED BY <3>1, <3>2
  <2>5. /\ body \in Body /\ Len(body) = Len(b) + 1 /\ Len(b) \in Nat
        /\ Landed(body) = Landed(b) \cup (IF commit THEN {Len(body)} ELSE {})
        /\ OpenNotes(body) = OpenNotes(b)
    BY <1>3, <2>2, <2>4, AddedIs
  <2>6. Len(body) >= Len(b)
    BY <2>5
  <2> QED BY <2>3, <2>5, <2>6
<1>15. rec \in Draft /\ rec.updated_at = Now
  <2>1. CASE open = None
    <3>1. ahead \in Runs \cup {None}
      BY <1>3, AheadIs DEF ahead
    <3>2. NewRecord(c, ahead) \in Draft /\ NewRecord(c, ahead).updated_at = Now
      BY <1>7, <3>1 DEF NewRecord, Draft
    <3> QED BY <2>1, <3>2 DEF rec
  <2>2. CASE open # None
    BY <1>5, <1>9, <1>13, <2>2 DEF rec, old
  <2> QED BY <2>1, <2>2
<1>16. Part(Q) /\ \A f, s : ~Wrote(Q, f, s)
  BY <1>13, PointerIs, NonePart DEF Q
<1>17. Part(S) /\ \A f, s : Wrote(S, f, s) <=> f = r /\ s = Saved(rec, body)
  BY <1>13, <1>14, <1>15, SaveIs DEF S
<1>18. Part(R) /\ \A f, s : Wrote(R, f, s) <=> f = r /\ s = Saved(rec, body)
  BY <1>16, <1>17, JoinedParts DEF R
<1>19. Saying(r, body, Saved(rec, body))
  BY <1>14, <1>15, SavedIs DEF Saying
<1>20. to \in SUBSET Keys /\ Texts(W, to) /\ Listings(<<>>, <<>>, listed) /\ (commit => <<r, Len(body)>> \in to)
  <2>1. Len(body) \in 1 .. MaxHunks
    BY <1>14, BodyParts
  <2>2. to \in SUBSET Keys
    BY <1>7, <1>13, <2>1 DEF to, Keys, Types
  <2> QED BY <2>2, TextIs DEF W, Listings, to
<1>21. ASSUME NEW s, Wrote(R, r, s)
       PROVE  Fits(r, s, opened) /\ s.body = body
  <2>1. s.body = body /\ s.rec.hunks = StatusesOf(s.body) /\ s.rec.updated_at = Now
    BY <1>18, <1>19, <1>21 DEF Saying
  <2>2. r > left.opened \/ (Stored(r) /\ ~BodyLost(r) /\ Len(s.body) >= Len(BodyOf(r)))
    BY <1>9, <1>13, <1>14, <2>1
  <2>3. s.rec.updated_at <= Now
    BY <1>7, <2>1, Bounded
  <2> QED BY <1>13, <2>1, <2>2, <2>3 DEF Fits
<1>22. ASSUME NEW f \in Runs, NEW s, Wrote(E, f, s)
       PROVE  Fits(f, s, opened) /\ s.body = BodyOf(f) /\ Stored(f) /\ f # r
  <2>1. closes /\ Keeps(f, s)
    BY <1>12, <1>22
  <2>2. Fits(f, s, opened) /\ s.body = BodyOf(f)
    BY <1>1, <1>8, <2>1, KeepsFits
  <2>3. Stored(f)
    BY <2>1 DEF Keeps
  <2>4. ~Stored(r)
    BY <1>4, <1>13, <2>1, FreshBody
  <2> QED BY <2>2, <2>3, <2>4
<1>23. /\ m \in [Runs -> Body \cup {None}]
       /\ \A f \in Runs : m[f] = cached[f] \/ (cached[f] = None /\ m[f] = blob[f])
  BY <1>7 DEF m, Mirrored, Types
<1>24. Planned(E, W, <<>>, R, <<>>, to, listed, m, None, opened)
  <2>1. \A f \in Runs : \A s, x : ~(Wrote(E, f, s) /\ Wrote(R, f, x))
    BY <1>18, <1>22
  <2>2. \A f \in Runs : \A s : Wrote(E, f, s) \/ Wrote(R, f, s) =>
          Fits(f, s, opened) /\ (OpenNotes(s.body) # {} => f \notin listed \ listed)
    BY <1>18, <1>21, <1>22
  <2>3. \A f \in Runs : \A s : Wrote(E, f, s) =>
          Stored(f) /\ Landed(s.body) \subseteq Landed(BodyOf(f)) /\ (OpenNotes(s.body) # {} => OpenNotes(BodyOf(f)) # {})
    BY <1>22
  <2>4. \A f \in Runs : \A s : Wrote(R, f, s) =>
          /\ \A h \in Landed(s.body) : h \in Landed(BodyOf(f)) \/ (<<>> = <<>> /\ <<f, h>> \in to)
          /\ OpenNotes(s.body) # {} => OpenNotes(BodyOf(f)) # {} \/ f \in listed
    <3> SUFFICES ASSUME NEW s, Wrote(R, r, s)
                 PROVE  /\ \A h \in Landed(s.body) : h \in Landed(BodyOf(r)) \/ <<r, h>> \in to
                        /\ OpenNotes(s.body) # {} => OpenNotes(BodyOf(r)) # {}
      BY <1>18
    <3>1. s.body = body
      BY <1>21
    <3> QED BY <1>14, <1>20, <3>1
  <2>5. \A f \in listed \ listed : Stored(f) =>
          /\ m[f] # None => OpenNotes(m[f]) = {}
          /\ (\E s : Wrote(R, f, s)) \/ (~BodyLost(f) /\ OpenNotes(BodyOf(f)) = {})
    OBVIOUS
  <2> QED BY <1>8, <1>12, <1>18, <1>20, <1>23, <2>1, <2>2, <2>3, <2>4, <2>5 DEF Planned
<1>25. (A \o B) \o (W \o (Q \o S)) = Stages(E, W, <<>>, R, <<>>)
  <2>1. E \in Seq(Entry) /\ R \in Seq(Entry) /\ W \in Seq(Entry)
    BY <1>12, <1>18, <1>20, TextsAre DEF Part
  <2>2. Stages(E, W, <<>>, R, <<>>) = E \o (W \o R)
    BY ONLY <2>1, TextStages
  <2> QED BY ONLY <2>2 DEF E, R
<1>26. Begins(Stages(E, W, <<>>, R, <<>>), m, None, opened)
  BY <1>1, <1>2, <1>25 DEF Begins
<1> QED BY <1>1, <1>24, <1>26, BeginStep

-----------------------------------------------------------------------------
(* The invariant *)

LEMMA InitIInv == Init => IInv
<1> SUFFICES ASSUME Init PROVE IInv
  OBVIOUS
<1>1. /\ \A r \in Runs : blob[r] = None /\ meta[r] = None /\ cached[r] = None /\ index[r] = None
      /\ active = None /\ listed = {} /\ text = {} /\ jobs = {} /\ answered = None
      /\ op = NoOp /\ op.todo = <<>> /\ op.half = FALSE /\ op.decides = None
  BY DEF Init, Nothing, NoOp
<1>2. Types
  <2>1. Bounds
    BY Bounded DEF Init, Bounds
  <2>2. op \in [todo : Seq(Entry), half : BOOLEAN, decides : Runs \cup {None}]
    BY <1>1 DEF NoOp
  <2>3. /\ blob \in [Runs -> Body \cup {None}] /\ cached \in [Runs -> Body \cup {None}]
        /\ meta \in [Runs -> Record \cup {None}] /\ index \in [Runs -> Record \cup {None}]
    BY DEF Init, Nothing
  <2> QED BY <1>1, <2>1, <2>2, <2>3 DEF Types
<1>3. \A i, r : ~Saving(op.todo, i, r)
  BY <1>1 DEF Saving, Is
<1>4. \A i, what : ~Is(op.todo, i, what)
  BY <1>1 DEF Is
<1>5. Orderly
  BY <1>1, <1>3 DEF Orderly, Once
<1>6. Halves
  <2>1. left.lost = {}
    BY DEF Init
  <2> QED BY <1>1, <2>1 DEF Halves
<1>7. Whole
  BY <1>1, <1>3 DEF Whole, RowsHaveBodies, Longer, Stored
<1>8. Answers
  BY <1>1 DEF Answers
<1>9. Stamps
  BY <1>1, <1>3 DEF Stamps, Newer
<1>10. Remembered
  BY <1>1, <1>3, <1>4 DEF Remembered, SavedNotesAreListed, Stored, Mirrors, Noted, Minds, Lists, Drops
<1>11. Recorded
  BY <1>1, <1>3, <1>4 DEF Recorded, Landing, InText, ToCome, NoneAfter
<1> QED BY <1>2, <1>5, <1>6, <1>7, <1>8, <1>9, <1>10, <1>11 DEF IInv

LEMMA NothingHappens ==
  ASSUME IInv, UNCHANGED vars
  PROVE  IInv'
<1>1. UNCHANGED <<blob, meta, active, listed, text, cached, op, index, jobs, answered, left>>
  BY DEF vars
<1>2. Types' /\ Orderly'
  BY <1>1 DEF IInv, Types, Bounds, Orderly
<1>3. Halves'
  BY <1>1 DEF IInv, Halves, Idle, NoOp, Due, First
<1>4. Whole'
  BY <1>1 DEF IInv, Whole, RowsHaveBodies, Stored, Longer
<1>5. Answers'
  BY <1>1 DEF IInv, Answers, Agreed, Settling, Idle
<1>6. Stamps'
  BY <1>1 DEF IInv, Stamps, Newer, Then, Shown
<1>7. Remembered'
  <2>1. NoPutFailed' = NoPutFailed /\ SavedNotesAreListed' = SavedNotesAreListed
    BY <1>1 DEF NoPutFailed, SavedNotesAreListed, Stored
  <2>2. Mirrors(op.todo, cached)' = Mirrors(op.todo, cached)
    BY <1>1 DEF Mirrors
  <2>3. Minds(op.todo, cached)' = Minds(op.todo, cached)
    BY <1>1 DEF Minds, Stored
  <2>4. Lists(op.todo)' = Lists(op.todo)
    BY <1>1 DEF Lists
  <2>5. Drops(op.todo)' = Drops(op.todo)
    BY <1>1 DEF Drops, Stored
  <2> QED BY <2>1, <2>2, <2>3, <2>4, <2>5 DEF IInv, Remembered, Noted
<1>8. Recorded'
  <2>1. InText(op.todo)' = InText(op.todo)
    BY <1>1 DEF InText, LandedIn
  <2>2. ToCome(op.todo, cached)' = ToCome(op.todo, cached)
    BY <1>1 DEF ToCome, LandedIn
  <2>3. NoneAfter(op.todo)' = NoneAfter(op.todo)
    BY <1>1 DEF NoneAfter, LandedIn
  <2> QED BY <1>1, <2>1, <2>2, <2>3 DEF IInv, Recorded, Landing
<1> QED BY <1>2, <1>3, <1>4, <1>5, <1>6, <1>7, <1>8 DEF IInv

LEMMA NextIInv == IInv /\ [Next]_vars => IInv'
<1> SUFFICES ASSUME IInv, [Next]_vars PROVE IInv'
  OBVIOUS
<1>1. ASSUME NEW c \in Changes, NEW auto \in BOOLEAN, NEW idle \in BOOLEAN, Propose(c, auto, idle) PROVE IInv'
  BY <1>1, ProposeStep
<1>2. ASSUME NEW r \in Runs, NEW T \in SUBSET (1 .. MaxHunks), Accept(r, T) PROVE IInv'
  BY <1>2, AcceptStep
<1>3. ASSUME NEW r \in Runs, NEW T \in SUBSET (1 .. MaxHunks), Reject(r, T) PROVE IInv'
  BY <1>3, RejectStep
<1>4. ASSUME NEW r \in Runs, NEW T \in SUBSET (1 .. MaxHunks), Undo(r, T) PROVE IInv'
  BY <1>4, UndoStep
<1>5. ASSUME NEW r \in Runs, Ack(r) PROVE IInv'
  BY <1>5, AckStep
<1>6. ASSUME NEW r \in Runs, LoseBody(r) PROVE IInv'
  BY <1>6, LoseBodyStep
<1>7. ASSUME NEW r \in Runs, NEW asks \in BOOLEAN, Revert(r, asks) PROVE IInv'
  BY <1>7, RevertStep
<1>8. ASSUME NEW R \in SUBSET listed, Scan(R) PROVE IInv'
  BY <1>8, ScanStep
<1>9. ASSUME NEW j \in jobs, Index(j) PROVE IInv'
  BY <1>9, IndexStep
<1>10. CASE PutBody
  BY <1>10, PutBodyStep
<1>11. CASE PutRow
  BY <1>11, PutRowStep
<1>12. CASE PutOther
  BY <1>12, PutOtherStep
<1>13. CASE PutFails
  BY <1>13, PutFailsStep
<1>14. CASE SendFails
  BY <1>14, SendFailsStep
<1>15. CASE Crash
  BY <1>15, CrashStep
<1>16. CASE Evict
  BY <1>16, EvictStep
<1>17. CASE UNCHANGED vars
  BY <1>17, NothingHappens
<1> HIDE DEF IInv
<1> QED
  BY <1>1, <1>2, <1>3, <1>4, <1>5, <1>6, <1>7, <1>8, <1>9, <1>10, <1>11, <1>12, <1>13, <1>14, <1>15, <1>16, <1>17 DEF Next

\* The disk, the mirror, the handler that runs and the index stay in step with each other, whatever
\* put fails and wherever between two puts the process ends (run-store.ts, `save`, `loadBody`).
THEOREM DiskInvariant == Spec => []IInv
<1>1. Init => IInv
  BY InitIInv
<1>2. IInv /\ [Next]_vars => IInv'
  BY NextIInv
<1> QED BY <1>1, <1>2, PTL DEF Spec

-----------------------------------------------------------------------------
(* The properties the runs check *)

\* The object and the row of every run have the shape loadBody and load expect, and a handler only
\* ever has writes to make that putJson and putBlob know.
THEOREM DiskTypes == Spec => []TypeOK
<1>1. IInv => TypeOK
  <2> SUFFICES ASSUME IInv PROVE TypeOK
    OBVIOUS
  <2>1. Types
    BY DEF IInv
  <2>2. op.todo \in Seq(Entry) /\ op.half \in BOOLEAN /\ op.decides \in Runs \cup {None}
    BY <2>1 DEF Types
  <2>3. \A i \in DOMAIN op.todo : IsWrite(op.todo[i])
    BY <2>2, SeqParts, EntryIs
  <2> QED BY <2>1, <2>2, <2>3 DEF TypeOK, Types
<1> QED BY <1>1, DiskInvariant, PTL

\* The order of the puts of noteFeedback, dismissFeedback, ack and scan keeps a saved note on the
\* list the reads go by, wherever a handler stops, unless a put threw.
THEOREM NotesStayListed == Spec => []NotesOutliveCrashes
<1>1. IInv => NotesOutliveCrashes
  BY DEF IInv, Remembered, NoPutFailed, NotesOutliveCrashes
<1> QED BY <1>1, DiskInvariant, PTL

\* A row never lists more hunks than its object holds, and a decision that was answered is on disk
\* in both, the run closed if nothing waits in it, also when the answer is to a retry.
THEOREM RowsAndObjectsAgree == Spec => []StoredTogether
<1>1. IInv => RowsHaveBodies
  BY DEF IInv, Whole
<1>2. IInv => AnsweredIsStored
  BY DEF IInv, Answers, Agreed, AnsweredIsStored
<1>3. IInv => StoredTogether
  BY <1>1, <1>2 DEF StoredTogether
<1> QED BY <1>3, DiskInvariant, PTL

\* With every index job done, in whatever order, agent_runs shows each run as its row is, unless the
\* queue lost its last job.
THEOREM InboxFollowsTheRows == Spec => []InboxShowsTheRow
<1>1. IInv => InboxShowsTheRow
  <2> SUFFICES ASSUME IInv, jobs = {}, NEW r \in Runs \ left.unsent
               PROVE  /\ index[r] = None <=> meta[r] = None
                      /\ Stored(r) => /\ index[r].open = meta[r].open /\ index[r].reverted = meta[r].reverted
                                      /\ index[r].behind = meta[r].behind /\ index[r].updated_at = meta[r].updated_at
    BY DEF InboxShowsTheRow
  <2>1. /\ index[r] # None => meta[r] # None
        /\ meta[r] # None => Shown(r)
    BY DEF IInv, Stamps
  <2> QED BY <2>1 DEF Shown, Same, Stored
<1> QED BY <1>1, DiskInvariant, PTL

\* What changes the object or the row of a run.
LEMMA WritesOfBodies ==
  ASSUME [Next]_vars
  PROVE  PutBody \/ PutRow \/ (\E r \in Runs : LoseBody(r)) \/ UNCHANGED <<blob, meta>>
<1>1. CASE UNCHANGED vars
  BY <1>1 DEF vars
<1>2. CASE Next
  <2>1. \A c \in Changes, auto, idle \in BOOLEAN : Propose(c, auto, idle) => UNCHANGED <<blob, meta>>
    BY DEF Propose, disk
  <2>2. \A q, m, d : Begin(q, m, d) => UNCHANGED <<blob, meta>>
    BY DEF Begin, disk
  <2>3. \A r, T : Accept(r, T) \/ Reject(r, T) \/ Undo(r, T) => UNCHANGED <<blob, meta>>
    <3> TAKE r, T
    <3>1. Accept(r, T) => UNCHANGED <<blob, meta>>
      BY <2>2 DEF Accept
    <3>2. Reject(r, T) => UNCHANGED <<blob, meta>>
      BY <2>2 DEF Reject
    <3>3. Undo(r, T) => UNCHANGED <<blob, meta>>
      BY <2>2 DEF Undo
    <3> QED BY <3>1, <3>2, <3>3
  <2>4. \A r, asks : Ack(r) \/ Revert(r, asks) => UNCHANGED <<blob, meta>>
    <3> TAKE r, asks
    <3>1. Ack(r) => UNCHANGED <<blob, meta>>
      BY <2>2 DEF Ack
    <3>2. Revert(r, asks) => UNCHANGED <<blob, meta>>
      BY <2>2 DEF Revert
    <3> QED BY <3>1, <3>2
  <2>5. \A R : Scan(R) => UNCHANGED <<blob, meta>>
    BY <2>2 DEF Scan
  <2>6. PutOther \/ PutFails \/ SendFails \/ Crash \/ Evict => UNCHANGED <<blob, meta>>
    BY DEF PutOther, PutFails, SendFails, Crash, Evict, disk
  <2>7. \A j : Index(j) => UNCHANGED <<blob, meta>>
    BY DEF Index, disk
  <2> QED BY <1>2, <2>1, <2>3, <2>4, <2>5, <2>6, <2>7 DEF Next
<1> QED BY <1>1, <1>2

\* No step takes a hunk from the row or from the object of a run, whatever body was read in between:
\* the empty body of a failed read is never written back (run-store.ts, bodyLost).
THEOREM NoHunkIsForgotten == Spec => HunksAreKept
<1> DEFINE Kept == \A r \in Runs : meta[r] # None =>
                     /\ Len(meta'[r].hunks) >= Len(meta[r].hunks)
                     /\ blob[r] # None /\ blob'[r] # None => Len(blob'[r]) >= Len(blob[r])
<1>1. IInv /\ [Next]_vars => Kept
  <2> SUFFICES ASSUME IInv, [Next]_vars, NEW r \in Runs, meta[r] # None
               PROVE  /\ Len(meta'[r].hunks) >= Len(meta[r].hunks)
                      /\ blob[r] # None /\ blob'[r] # None => Len(blob'[r]) >= Len(blob[r])
    OBVIOUS
  <2>1. Types /\ Longer(op.todo)
    BY DEF IInv, Whole
  <2>2. Len(meta[r].hunks) \in Nat /\ (blob[r] # None => Len(blob[r]) \in Nat)
    <3>1. meta[r] \in Record /\ blob[r] \in Body \cup {None}
      BY <2>1 DEF Types
    <3> QED BY <3>1, RecordIs, BodyParts
  <2>3. CASE PutBody
    <3>1. ~Idle /\ Due.do = "save" /\ blob' = [blob EXCEPT ![First] = Due.to[First].body] /\ meta' = meta
      BY <2>3 DEF PutBody, TakesTurn, IsDue
    <3>2. First \in Runs /\ Saving(op.todo, 1, First) /\ 1 \in DOMAIN op.todo /\ Due.to[First].body = BodyAt(op.todo, 1, First)
      BY <2>1, <3>1, DueIs
    <3>3. blob[First] # None => Len(BodyAt(op.todo, 1, First)) >= Len(blob[First])
      BY <2>1, <3>2 DEF Longer
    <3>4. blob'[r] = IF r = First THEN BodyAt(op.todo, 1, First) ELSE blob[r]
      BY <2>1, <3>1, <3>2 DEF Types
    <3> QED BY <2>2, <3>1, <3>3, <3>4
  <2>4. CASE PutRow
    <3>1. ~Idle /\ Due.do = "save" /\ meta' = [meta EXCEPT ![First] = Due.to[First].rec] /\ blob' = blob
      BY <2>4 DEF PutRow, TakesTurn, IsDue
    <3>2. /\ First \in Runs /\ Saving(op.todo, 1, First) /\ 1 \in DOMAIN op.todo /\ Due.to[First].rec = RecAt(op.todo, 1, First)
          /\ BodyAt(op.todo, 1, First) \in Body
      BY <2>1, <3>1, DueIs
    <3>3. /\ RecAt(op.todo, 1, First).hunks = StatusesOf(BodyAt(op.todo, 1, First))
          /\ meta[First] # None => Len(BodyAt(op.todo, 1, First)) >= Len(meta[First].hunks)
      BY <2>1, <3>2 DEF Longer
    <3>4. meta[First] # None => Len(RecAt(op.todo, 1, First).hunks) >= Len(meta[First].hunks)
      BY <3>2, <3>3, BodyParts
    <3>5. meta'[r] = IF r = First THEN RecAt(op.todo, 1, First) ELSE meta[r]
      BY <2>1, <3>1, <3>2 DEF Types
    <3> QED BY <2>2, <3>1, <3>4, <3>5
  <2>5. ASSUME NEW k \in Runs, LoseBody(k)
        PROVE  /\ Len(meta'[r].hunks) >= Len(meta[r].hunks)
               /\ blob[r] # None /\ blob'[r] # None => Len(blob'[r]) >= Len(blob[r])
    <3>1. blob' = [blob EXCEPT ![k] = None] /\ meta' = meta
      BY <2>5 DEF LoseBody
    <3>2. blob'[r] = None \/ blob'[r] = blob[r]
      BY <2>1, <3>1 DEF Types
    <3> QED BY <2>2, <3>1, <3>2
  <2>6. CASE UNCHANGED <<blob, meta>>
    BY <2>2, <2>6
  <2> QED BY <2>3, <2>4, <2>5, <2>6, WritesOfBodies
<1>2. Kept => [Kept]_vars
  OBVIOUS
<1> QED BY <1>1, DiskInvariant, PTL DEF Spec, HunksAreKept

\* The stored object comes to say that a hunk landed only when its text is in the stored document:
\* commitMarkdown and flush come before the save of the decision, through every crash.
THEOREM TextComesFirst == Spec => LandedBeforeRecorded
<1> DEFINE Before ==
             \A r \in Runs : blob'[r] # None /\ r \notin left.lost /\ "blob" \notin left.struck =>
               \A i \in Landed(blob'[r]) \ (IF blob[r] = None THEN {} ELSE Landed(blob[r])) : <<r, i>> \in text
<1>1. IInv /\ [Next]_vars => Before
  <2> SUFFICES ASSUME IInv, [Next]_vars, NEW r \in Runs, blob'[r] # None, r \notin left.lost, "blob" \notin left.struck,
                      NEW i \in Landed(blob'[r]) \ LandedIn(blob[r])
               PROVE  <<r, i>> \in text
    BY DEF LandedIn
  <2>1. Types /\ InText(op.todo)
    BY DEF IInv, Recorded, Landing
  <2>2. blob'[r] # blob[r]
    BY DEF LandedIn
  <2>3. CASE PutBody
    <3>1. ~Idle /\ Due.do = "save" /\ blob' = [blob EXCEPT ![First] = Due.to[First].body]
      BY <2>3 DEF PutBody, TakesTurn, IsDue
    <3>2. First \in Runs /\ Saving(op.todo, 1, First) /\ 1 \in DOMAIN op.todo /\ Due.to[First].body = BodyAt(op.todo, 1, First)
      BY <2>1, <3>1, DueIs
    <3>3. r = First /\ blob'[r] = BodyAt(op.todo, 1, r)
      BY <2>1, <2>2, <3>1, <3>2 DEF Types
    <3>4. \A j \in DOMAIN op.todo : ~(j < 1)
      BY <2>1, SeqParts DEF Types
    <3>5. <<r, i>> \in text \/ \E j \in DOMAIN op.todo : j < 1 /\ Is(op.todo, j, "text")
      BY <2>1, <3>2, <3>3 DEF InText
    <3> QED BY <3>4, <3>5
  <2>4. CASE PutRow
    BY <2>2, <2>4 DEF PutRow
  <2>5. ASSUME NEW k \in Runs, LoseBody(k) PROVE FALSE
    BY <2>1, <2>2, <2>5 DEF LoseBody, Types
  <2>6. CASE UNCHANGED <<blob, meta>>
    BY <2>2, <2>6
  <2> QED BY <2>3, <2>4, <2>5, <2>6, WritesOfBodies
<1> QED BY <1>1, DiskInvariant, PTL DEF Spec, LandedBeforeRecorded

=============================================================================
