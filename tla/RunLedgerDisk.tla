--------------------------- MODULE RunLedgerDisk ---------------------------
(* What the run ledger of one document keeps when a write fails or the node *)
(* dies between two of them (packages/doc-actor/src/ledger).  RunLedger     *)
(* takes a handler as one step; here a handler is the sequence of its       *)
(* writes: body blob, metadata row, feedback list, open-run pointer, text   *)
(* of the document.  The lock of the actor still lets no second handler in  *)
(* between, but a fault may strike before any write, and the body mirror    *)
(* `cached` holds what the handler already made of the hunks.               *)
(*                                                                          *)
(* One agent, a document at `colleague`.  A hunk is named <<run, index>>;   *)
(* hunks are of different passages, so one fits unless its text is already  *)
(* in the document.  RunLedger has the conflicts people cause.              *)
EXTENDS Integers, Sequences, FiniteSets

CONSTANTS
  Changes,        \* the changes the agent works on
  None,           \* no run, no record
  Faults,         \* bound: the faults the instance meets, of FaultKinds
  MaxRuns,        \* bound: runs ever opened
  MaxHunks,       \* bound: hunks of one run
  MaxCalls,       \* bound: handlers that write
  MaxFaults       \* bound: faults

Runs == 1 .. MaxRuns
Keys == Runs \X (1 .. MaxHunks)
FaultKinds == {"blob",    \* a put of a body fails: the handler throws
               "list",    \* a put of the feedback list fails: the handler throws
               "send",    \* an index job is not stored: enqueue swallows it
               "crash",   \* the process ends
               "lose"}    \* a body is gone from the blob store

VARIABLES
  blob,      \* [Runs -> body or None]: the objects runBlobKey names
  meta,      \* [Runs -> record or None]: the rows runStorageKey names
  active,    \* the run runActiveKey holds, or None
  listed,    \* the runs feedbackPendingKey holds
  text,      \* the hunks whose text is in the document, durably
  cached,    \* [Runs -> body or None]: RunLedger.bodies, lost with the process
  op,        \* the handler that runs: the writes it still has to make, and whether `save` made one of its two
  index,     \* [Runs -> record or None]: the rows of agent_runs
  jobs,      \* run_index jobs not yet done
  answered,  \* the run whose decision was answered last, while nothing happened since
  left       \* what the bounds leave; runs opened; runs whose last job or body was lost; faults met

vars == <<blob, meta, active, listed, text, cached, op, index, jobs, answered, left>>
disk == <<blob, meta, active, listed, text>>

Statuses == {"pending", "accepted", "rejected", "conflict", "auto_applied"}
Notes == {"none", "open", "addressed"}
Body == UNION {[1 .. n -> [status : Statuses, note : Notes]] : n \in 1 .. MaxHunks}
Record == [open : BOOLEAN, reverted : BOOLEAN, change : Changes, behind : Runs \cup {None},
           updated_at : 0 .. MaxCalls, approvals : SUBSET (1 .. MaxHunks),
           hunks : UNION {[1 .. n -> Statuses] : n \in 1 .. MaxHunks}]

ASSUME DiskAssumption ==
  /\ None \notin Runs \cup Body \cup Record /\ Faults \subseteq FaultKinds
  /\ {MaxRuns, MaxHunks, MaxCalls, MaxFaults} \subseteq Nat /\ MaxHunks # 0 /\ Changes # {}

\* What a handler still has to write: the pointer, the list, the text, or the object and row of runs.
IsWrite(w) ==
  \/ w.do = "active" /\ w.to \in Runs \cup {None}
  \/ w.do = "list" /\ w.to \subseteq Runs
  \/ w.do = "text" /\ w.to \subseteq Keys
  \/ /\ w.do = "save" /\ DOMAIN w.to # {} /\ DOMAIN w.to \subseteq Runs
     /\ \A r \in DOMAIN w.to : w.to[r].rec \in Record /\ w.to[r].body \in Body

StatusesOf(body) == [i \in DOMAIN body |-> body[i].status]
With(body, S) == {i \in DOMAIN body : body[i].status \in S}
Pending(body) == With(body, {"pending"})
Landed(body) == With(body, {"accepted", "auto_applied"})
OpenNotes(body) == {i \in DOMAIN body : body[i].note = "open"}
KeysOf(r, I) == {<<r, i>> : i \in I}
Over(body, I, h) == [i \in DOMAIN body |-> IF i \in I THEN h ELSE body[i]]

\* loadBody: the mirror, else the object; a body that did not load is empty and is not mirrored.
BodyOf(r) == IF cached[r] # None THEN cached[r] ELSE IF blob[r] # None THEN blob[r] ELSE <<>>
\* Mutant: the empty body of a failed read is mirrored too.
MirroredEmpty(R) ==
  [r \in Runs |-> IF r \notin R \/ cached[r] # None THEN cached[r] ELSE IF blob[r] # None THEN blob[r] ELSE <<>>]
Mirrored(R) == [r \in Runs |-> IF r \in R /\ cached[r] = None THEN blob[r] ELSE cached[r]]
\* Mutant: a body that did not load is taken for the body of the run.
BodyNeverLost(r) == FALSE
BodyLost(r) == Len(BodyOf(r)) < Len(meta[r].hunks)

Stored(r) == r # None /\ meta[r] # None
IsOpen(r) == Stored(r) /\ meta[r].open
\* chainFor
Chain == {r \in Runs : IsOpen(r) /\ ~BodyLost(r)}
AheadOf(rec) == IF IsOpen(rec.behind) THEN rec.behind ELSE None
-----------------------------------------------------------------------------
(* The writes handlers are made of. *)
Put(what, to) == <<[do |-> what, to |-> to]>>
Pointer(to) == IF active = to THEN <<>> ELSE Put("active", to)
List(r) == IF r \in listed THEN <<>> ELSE Put("list", listed \cup {r})
Unlist(R) == IF listed \cap R = {} THEN <<>> ELSE Put("list", listed \ R)
\* commitMarkdown and flush, then what is written after them.  Mutant: the ledger first.
CommitLast(to, writes) == writes \o (IF to = text THEN <<>> ELSE Put("text", to))
Commit(to, writes) == (IF to = text THEN <<>> ELSE Put("text", to)) \o writes

\* The saves of the runs in the domain of `what`, in the order the runs were opened: the object and
\* the row of each.
Saves(what) == IF DOMAIN what = {} THEN <<>> ELSE Put("save", what)
Saved(rec, body) == [rec |-> [rec EXCEPT !.hunks = StatusesOf(body)], body |-> body]
Save(r, rec, body) == Saves([q \in {r} |-> Saved(rec, body)])
\* The turns of a save.  Mutant: the row is written before the object it describes.
RowFirst(put) == IF put = "row" THEN 1 ELSE 2
Turn(put) == IF put = "body" THEN 1 ELSE 2

Followers(r) == {f \in Runs : f # r /\ Stored(f) /\ meta[f].behind = r /\ ~BodyLost(f)}
Unlink(r, rec, now) ==
  LET next == AheadOf(rec)
      moved(f) == [meta[f] EXCEPT !.behind = next, !.updated_at = now]
  IN  (IF active = r THEN Pointer(next) ELSE <<>>)
      \o Saves([f \in Followers(r) |-> Saved(moved(f), BodyOf(f))])

Close(r, rec, body, now) == Save(r, [rec EXCEPT !.open = FALSE], body) \o Unlink(r, rec, now)

Now == MaxCalls - left.calls + 1
Idle == op.todo = <<>>
NoOp == [todo |-> <<>>, half |-> FALSE, decides |-> None]

\* A handler that holds the lock, with the bodies it loaded or changed in the mirror.
Begin(writes, bodies, decides) ==
  /\ Idle /\ left.calls > 0
  /\ op' = [todo |-> writes, half |-> FALSE, decides |-> decides]
  /\ cached' = bodies
  /\ left' = [left EXCEPT !.calls = @ - 1]
  /\ answered' = IF writes = <<>> THEN decides ELSE None
  /\ UNCHANGED <<disk, index, jobs>>
-----------------------------------------------------------------------------
(* Handlers. *)
NewRecord(c, behind) ==
  [open |-> TRUE, reverted |-> FALSE, change |-> c, behind |-> behind,
   updated_at |-> Now, approvals |-> {}, hunks |-> <<>>]
\* openRunFor: the run the pointer names; a pointer to a run that closed is cleared.
OpenRun == IF IsOpen(active) THEN active ELSE None

Hunk(commit) == [status |-> IF commit THEN "auto_applied" ELSE "pending", note |-> "none"]

\* The writes of a proposal for change `c` once the agent's open run is `open`, or None: it waits
\* when anything of the agent's waits, or when the level it was made at asks a person.
Proposal(c, auto, open, waiting) ==
  LET commit == auto /\ waiting = {}
      ahead == IF waiting = {} THEN None ELSE CHOOSE r \in waiting : \A s \in waiting : s <= r
      r == IF open = None THEN left.opened + 1 ELSE open
      body == (IF open = None THEN <<>> ELSE BodyOf(open)) \o <<Hunk(commit)>>
      rec == IF open = None THEN NewRecord(c, ahead) ELSE [meta[open] EXCEPT !.updated_at = Now]
  IN  Commit(IF commit THEN text \cup {<<r, Len(body)>>} ELSE text,
             (IF open = None THEN Put("active", r) ELSE <<>>) \o Save(r, rec, body))

\* proposeRunEdit, of one hunk; `idle` says the open run was quiet for RUN_IDLE_MS.
Propose(c, auto, idle) ==
  LET quiet == OpenRun # None /\ Pending(BodyOf(OpenRun)) = {}
      closes == quiet /\ (idle \/ meta[OpenRun].change # c)
      goesOn == OpenRun # None /\ ~closes /\ meta[OpenRun].change = c
      open == IF goesOn THEN OpenRun ELSE None
      waiting == {r \in Chain : Pending(BodyOf(r)) # {}}
  IN  /\ OpenRun # None => ~BodyLost(OpenRun)
      /\ idle => quiet
      /\ IF goesOn THEN Len(BodyOf(open)) < MaxHunks ELSE left.opened < MaxRuns
      /\ Idle /\ left.calls > 0
      /\ op' = [todo |-> (IF OpenRun = None THEN Pointer(None) ELSE <<>>)
                         \o (IF closes THEN Close(OpenRun, [meta[OpenRun] EXCEPT !.updated_at = Now], BodyOf(OpenRun), Now)
                             ELSE <<>>)
                         \o Proposal(c, auto, open, waiting),
                half |-> FALSE, decides |-> None]
      /\ cached' = Mirrored({r \in Runs : IsOpen(r)})
      /\ left' = [left EXCEPT !.calls = @ - 1, !.opened = IF goesOn THEN @ ELSE @ + 1]
      /\ answered' = None
      /\ UNCHANGED <<disk, index, jobs>>

\* The end of handleRunDecide: an open run with nothing left to decide closes, when the hunks T are
\* none as well.  Mutant: a call that finds nothing to decide is answered at once.
SettledIfAny(r, rec, body, T) ==
  IF T = {} THEN <<>> ELSE IF rec.open /\ Pending(body) = {} THEN Close(r, rec, body, Now) ELSE Save(r, rec, body)
Settled(r, rec, body, T) ==
  IF rec.open /\ Pending(body) = {} THEN Close(r, rec, body, Now) ELSE Save(r, rec, body)

Decidable(r, T) == Stored(r) /\ ~BodyLost(r) /\ T \subseteq Pending(BodyOf(r))
Changed(r, body) == [Mirrored({r}) EXCEPT ![r] = body]

\* handleRunDecide, decision "reject" of the hunks T.
Reject(r, T) ==
  /\ Decidable(r, T)
  /\ LET body == Over(BodyOf(r), T, [status |-> "rejected", note |-> "open"])
         rec == [meta[r] EXCEPT !.updated_at = Now]
     IN  Begin((IF T = {} THEN <<>> ELSE List(r)) \o Settled(r, rec, body, T), Changed(r, body), r)

\* handleRunDecide, decision "accept": a hunk that does not fit conflicts, unless one before it waits.
Accept(r, T) ==
  /\ Decidable(r, T) /\ AheadOf(meta[r]) = None
  /\ LET fits == {i \in T : <<r, i>> \notin text}
         blocked == {i \in T \ fits : \E j \in Pending(BodyOf(r)) \ T : j < i}
         conflict == (T \ fits) \ blocked
         body == Over(Over(BodyOf(r), fits, [status |-> "accepted", note |-> "none"]),
                      conflict, [status |-> "conflict", note |-> "none"])
         rec == [meta[r] EXCEPT !.updated_at = Now, !.approvals = (@ \cup fits) \ conflict]
     IN  Begin(Commit(text \cup KeysOf(r, fits), Settled(r, rec, body, T)), Changed(r, body), r)

\* handleRunRevert; `asks` says it carries a note.
Revert(r, asks) ==
  /\ Stored(r) /\ ~meta[r].reverted /\ ~BodyLost(r)
  /\ LET old == BodyOf(r)
         landed == Landed(old)
         ended == [i \in DOMAIN old |-> IF i \in Pending(old) THEN [old[i] EXCEPT !.status = "rejected"] ELSE old[i]]
         body == [i \in DOMAIN old |-> IF asks /\ i \in landed \cup Pending(old) THEN [ended[i] EXCEPT !.note = "open"] ELSE ended[i]]
         rec == [meta[r] EXCEPT !.open = FALSE, !.reverted = TRUE, !.updated_at = Now]
     IN  /\ landed # {} /\ KeysOf(r, landed) \subseteq text
         /\ Begin(Commit(text \ KeysOf(r, landed),
                         (IF asks THEN List(r) ELSE <<>>) \o Save(r, rec, body) \o Unlink(r, rec, Now)),
                  Changed(r, body), None)

\* handleRunUndo of the hunks T.
Undo(r, T) ==
  /\ Stored(r) /\ ~meta[r].reverted /\ ~BodyLost(r)
  /\ LET old == BodyOf(r)
         accepted == T \cap With(old, {"accepted"})
         reopens == ~meta[r].open
         body == Over(old, T, [status |-> "pending", note |-> "none"])
         rec == [meta[r] EXCEPT !.open = TRUE, !.updated_at = Now, !.approvals = @ \ T,
                                !.behind = IF reopens THEN AheadOf(meta[r]) ELSE @]
     IN  /\ T # {} /\ T \subseteq With(old, {"accepted", "rejected"})
         /\ \A i \in T : old[i].status = "rejected" => old[i].note # "addressed"
         /\ reopens => OpenRun \in {None, r}
         /\ accepted # {} => AheadOf(meta[r]) = None
         /\ KeysOf(r, accepted) \subseteq text
         /\ Begin((IF reopens /\ OpenRun = None THEN Pointer(None) ELSE <<>>)
                  \o Commit(text \ KeysOf(r, accepted), Save(r, rec, body))
                  \o (IF reopens THEN Put("active", r) ELSE <<>>)
                  \o (IF OpenNotes(old) # OpenNotes(body) /\ OpenNotes(body) = {} THEN Unlist({r}) ELSE <<>>),
                  Changed(r, body), None)

Addressed(body) == [i \in DOMAIN body |-> IF i \in OpenNotes(body) THEN [body[i] EXCEPT !.note = "addressed"] ELSE body[i]]

\* handleRunAck: the note is withdrawn on the hunks first, the list follows.  Mutant: the list first.
AckListFirst(r) ==
  /\ Stored(r) /\ ~BodyLost(r)
  /\ LET body == Addressed(BodyOf(r))
         rec == [meta[r] EXCEPT !.updated_at = Now]
     IN  Begin((IF body # BodyOf(r) THEN Unlist({r}) ELSE <<>>) \o Save(r, rec, body), Changed(r, body), None)
Ack(r) ==
  /\ Stored(r) /\ ~BodyLost(r)
  /\ LET body == Addressed(BodyOf(r))
         rec == [meta[r] EXCEPT !.updated_at = Now]
     IN  Begin(Save(r, rec, body) \o (IF body # BodyOf(r) THEN Unlist({r}) ELSE <<>>), Changed(r, body), None)

\* scanFeedback: the agent reads its notes and answers those of the runs R; a run left without leaves the list.
Scan(R) ==
  LET read == {r \in listed : Stored(r)}
      whole == {r \in read : ~BodyLost(r)}
      answers == {r \in whole \cap R : OpenNotes(BodyOf(r)) # {}}
      gone == (listed \ read) \cup {r \in whole : r \in answers \/ OpenNotes(BodyOf(r)) = {}}
      body(r) == IF r \in answers THEN Addressed(BodyOf(r)) ELSE BodyOf(r)
  IN  /\ answers = R
      /\ Begin(Saves([r \in answers |-> Saved(meta[r], body(r))]) \o Unlist(gone),
               [r \in Runs |-> IF r \in answers THEN body(r) ELSE Mirrored(whole)[r]], None)
-----------------------------------------------------------------------------
(* Writes, faults, and the index behind the job queue. *)
Due == Head(op.todo)
First == CHOOSE r \in DOMAIN Due.to : \A q \in DOMAIN Due.to : r <= q
Mirror == IF Due.do = "save" THEN [cached EXCEPT ![First] = Due.to[First].body] ELSE cached

\* The handler goes on to its next writes, or returns.
GoesOn(writes) ==
  /\ op' = IF writes = <<>> THEN NoOp ELSE [op EXCEPT !.todo = writes, !.half = FALSE]
  /\ answered' = IF writes = <<>> THEN op.decides ELSE None

\* `put` is what `save` does next for the first of its runs; after both it goes on to the others.
IsDue(put) == Due.do = "save" /\ Turn(put) = (IF op.half THEN 2 ELSE 1)
Others == [r \in DOMAIN Due.to \ {First} |-> Due.to[r]]
TakesTurn(put) ==
  /\ ~Idle /\ IsDue(put)
  /\ IF op.half THEN GoesOn(Saves(Others) \o Tail(op.todo))
     ELSE op' = [op EXCEPT !.half = TRUE] /\ UNCHANGED answered

PutBody ==
  /\ TakesTurn("body")
  /\ blob' = [blob EXCEPT ![First] = Due.to[First].body]
  /\ cached' = Mirror
  /\ left' = [left EXCEPT !.lost = @ \ {First}]
  /\ UNCHANGED <<meta, active, listed, text, index, jobs>>

\* The index job is sent once the row is stored.
PutRow ==
  /\ TakesTurn("row")
  /\ meta' = [meta EXCEPT ![First] = Due.to[First].rec]
  /\ jobs' = jobs \cup {<<First, Due.to[First].rec>>}
  /\ left' = [left EXCEPT !.unsent = @ \ {First}]
  /\ UNCHANGED <<blob, active, listed, text, cached, index>>

\* A put that is no part of a save: the pointer, the feedback list, the text of the document.
PutOther ==
  /\ ~Idle /\ Due.do # "save"
  /\ GoesOn(Tail(op.todo))
  /\ active' = IF Due.do = "active" THEN Due.to ELSE active
  /\ listed' = IF Due.do = "list" THEN Due.to ELSE listed
  /\ text' = IF Due.do = "text" THEN Due.to ELSE text
  /\ UNCHANGED <<blob, meta, cached, index, jobs, left>>

Struck(kind) == kind \in Faults /\ left.faults > 0
OneFaultLess(kind) == [left EXCEPT !.faults = @ - 1, !.struck = @ \cup {kind}]

\* The fault that the put due now can meet.
PutKind == IF IsDue("body") THEN "blob" ELSE Due.do

\* The put throws and the handler with it: the mirror keeps what save already put there.
PutFails ==
  /\ ~Idle /\ Struck(PutKind)
  /\ cached' = Mirror
  /\ op' = NoOp /\ left' = OneFaultLess(PutKind)
  /\ UNCHANGED <<disk, index, jobs, answered>>

\* A job sent for the last row of a run, and lost.
SendFails ==
  /\ Idle /\ Struck("send")
  /\ \E r \in Runs : /\ <<r, meta[r]>> \in jobs
                     /\ jobs' = jobs \ {<<r, meta[r]>>}
                     /\ left' = [OneFaultLess("send") EXCEPT !.unsent = @ \cup {r}]
  /\ UNCHANGED <<disk, cached, op, index, answered>>

Crash ==
  /\ Struck("crash")
  /\ cached' = [r \in Runs |-> None] /\ op' = NoOp /\ answered' = None
  /\ left' = OneFaultLess("crash")
  /\ UNCHANGED <<disk, index, jobs>>

\* The host evicts an idle actor.
Evict == Idle /\ cached' = [r \in Runs |-> None]
         /\ UNCHANGED <<disk, op, index, jobs, answered, left>>

LoseBody(r) ==
  /\ Struck("lose") /\ blob[r] # None
  /\ blob' = [blob EXCEPT ![r] = None]
  /\ left' = [OneFaultLess("lose") EXCEPT !.lost = @ \cup {r}]
  /\ UNCHANGED <<meta, active, listed, text, cached, op, index, jobs, answered>>

\* upsertAgentRun. Mutant: the last entry to arrive stays.
UpsertLast(row, rec) == rec
Upsert(row, rec) == IF row = None \/ row.updated_at <= rec.updated_at THEN rec ELSE row

\* A job runs, in any order.  No handler reads the index, so it loses nothing that jobs run between
\* handlers; a job that runs twice is like one that runs late, which Upsert cannot tell apart.
Index(j) ==
  /\ Idle
  /\ jobs' = jobs \ {j}
  /\ index' = [index EXCEPT ![j[1]] = Upsert(@, j[2])]
  /\ UNCHANGED <<disk, cached, op, answered, left>>
-----------------------------------------------------------------------------
Nothing == [r \in Runs |-> None]
Init ==
  /\ blob = Nothing /\ meta = Nothing /\ cached = Nothing /\ index = Nothing
  /\ active = None /\ listed = {} /\ text = {} /\ jobs = {}
  /\ op = NoOp /\ answered = None
  /\ left = [calls |-> MaxCalls, faults |-> MaxFaults, opened |-> 0, unsent |-> {}, lost |-> {}, struck |-> {}]

Next ==
  \/ \E c \in Changes, auto, idle \in BOOLEAN : Propose(c, auto, idle)
  \/ \E r \in Runs : \E T \in SUBSET (1 .. MaxHunks) : Accept(r, T) \/ Reject(r, T) \/ Undo(r, T)
  \/ \E r \in Runs : Ack(r) \/ LoseBody(r) \/ \E asks \in BOOLEAN : Revert(r, asks)
  \/ \E R \in SUBSET listed : Scan(R)
  \/ PutBody \/ PutRow \/ PutOther \/ PutFails \/ SendFails \/ Crash \/ Evict
  \/ \E j \in jobs : Index(j)

Spec == Init /\ [][Next]_vars
-----------------------------------------------------------------------------
(* Properties. *)

\* Every variable stays in its type; in particular the object and the row of a run always have the shape loadBody and load expect.
TypeOK ==
  /\ blob \in [Runs -> Body \cup {None}] /\ cached \in [Runs -> Body \cup {None}]
  /\ meta \in [Runs -> Record \cup {None}] /\ index \in [Runs -> Record \cup {None}]
  /\ active \in Runs \cup {None} /\ listed \subseteq Runs /\ text \subseteq Keys
  /\ jobs \subseteq Runs \X Record
  /\ op.decides \in Runs \cup {None} /\ answered \in Runs \cup {None} /\ op.half \in BOOLEAN
  /\ \A i \in DOMAIN op.todo : IsWrite(op.todo[i])

\* No crash and no failed put leaves a row that lists more hunks than the object holds: every
\* handler would refuse such a run with run_unavailable for good (run-store.ts, save, bodyLost).
RowsHaveBodies ==
  \A r \in Runs : Stored(r) /\ r \notin left.lost => blob[r] # None /\ Len(blob[r]) >= Len(meta[r].hunks)

\* A hunk the row knows is never forgotten, whatever body was read in between: writing back the
\* empty body of a failed read "would turn a read error into permanent loss" (bodyLost).
HunksAreKept ==
  [][\A r \in Runs : meta[r] # None =>
       /\ Len(meta'[r].hunks) >= Len(meta[r].hunks)
       /\ blob[r] # None /\ blob'[r] # None => Len(blob'[r]) >= Len(blob[r])]_vars

\* A saved note its agent has not answered is on the list reads go by, whenever the run can be read:
\* "a failed save leaves a listed run with open feedback, which reads still show, never an unlisted
\* run whose note nobody sees" (dismissFeedback; noteFeedback says the same of the put before it).
SavedNotesAreListed ==
  \A r \in Runs : Stored(r) /\ blob[r] # None /\ OpenNotes(blob[r]) # {} => r \in listed

\* The order of the writes keeps that promise through every fault but a put that throws.
NotesOutliveCrashes == left.struck \cap {"blob", "list"} = {} => SavedNotesAreListed

\* The stored object comes to say that a hunk landed only when its text is in the stored document:
\* however often the node dies, no decision is recorded before what it decided.  (Only after a put
\* that threw may the save of a revert be the first to record what it takes out.)
LandedBeforeRecorded ==
  [][\A r \in Runs : blob'[r] # None /\ r \notin left.lost /\ "blob" \notin left.struck =>
       \A i \in Landed(blob'[r]) \ (IF blob[r] = None THEN {} ELSE Landed(blob[r])) : <<r, i>> \in text]_vars

\* A decision that was answered is on disk, row and object alike, and the run is closed if nothing
\* waits in it: also when the answer is to a retry of one that failed half way.
AnsweredIsStored ==
  answered # None /\ blob[answered] # None =>
    /\ meta[answered].hunks = StatusesOf(blob[answered])
    /\ Pending(blob[answered]) = {} => ~meta[answered].open

\* The two together: the row and the object of a run agree as far as anybody was told they do,
\* wherever between the writes the process stopped.
StoredTogether == RowsHaveBodies /\ AnsweredIsStored

\* With every job done the inbox shows each run as open, closed, reverted or queued as its row is,
\* in whatever order jobs ran (governance.ts, updated_at), unless the queue lost its last job.  The
\* counts are left out: an answer that completes a decision saved by half stamps no new time.
InboxShowsTheRow ==
  jobs = {} => \A r \in Runs \ left.unsent :
    /\ index[r] = None <=> meta[r] = None
    /\ Stored(r) => /\ index[r].open = meta[r].open /\ index[r].reverted = meta[r].reverted
                    /\ index[r].behind = meta[r].behind /\ index[r].updated_at = meta[r].updated_at

=============================================================================
