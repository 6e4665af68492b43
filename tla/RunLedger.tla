----------------------------- MODULE RunLedger -----------------------------
(* The run ledger of one document: what AI agents proposed to it, and what  *)
(* people decided (packages/doc-actor/src/ledger, packages/protocol/src/    *)
(* domain/runs.ts).  A document actor runs one handler at a time, so each   *)
(* handler is one action here: nothing else enters the actor meanwhile.     *)
(*                                                                          *)
(* A document is a set of passages (Slots).  A hunk replaces one passage:   *)
(* it names the text it expects there (old) and the text it puts there      *)
(* (new).  An agent's text is named by the hunk that wrote it, <<run,       *)
(* index>>, so what stands in the document says who let it in.  Text a      *)
(* person typed is a member of Plain.                                       *)
EXTENDS Integers, Sequences, FiniteSets, SequencesExt

CONSTANTS
  Agents,         \* agent aliases that propose here
  People,         \* people who decide
  Reviewer,       \* [Agents -> People]: the person each agent works for
  Changes,        \* change ids, the null change of a run outside any change among them
  Slots,          \* passages of the document
  Plain,          \* texts a person wrote in a passage
  Typed,          \* bound: what people make of a passage while the ledger runs
  Gone,           \* the text of a deleted passage
  None,           \* no approval, no change
  LevelsInUse,    \* bound: the review levels the document is given
  Deletes,        \* bound: whether a hunk may delete its passage
  Clock,          \* bound: which of the three ages of time the instance lets pass
  MaxRuns,        \* bound: runs ever opened
  MaxHunks,       \* bound: hunks of one run
  RunOrderMax     \* RUN_ORDER_MAX, and PENDING_RUN_MAX with it

RunIds == 1 .. MaxRuns
HunkIx == 1 .. MaxHunks
NoRun == 0
Values == Plain \cup {Gone} \cup (RunIds \X HunkIx)

ASSUME BoundsAssumption ==
  /\ MaxRuns \in Nat /\ MaxHunks \in Nat
  /\ RunOrderMax \in Nat \ {0}
ASSUME ReviewerAssumption ==
  Agents # {} /\ Reviewer \in [Agents -> People] /\ None \notin People
ASSUME TextAssumption == Gone \notin Plain /\ (Plain \cup {Gone}) \cap (RunIds \X HunkIx) = {}

Levels == {"auto", "review", "colleague"}
ASSUME InputAssumption == LevelsInUse \subseteq Levels /\ Deletes \subseteq BOOLEAN /\ Typed \subseteq Plain \cup {Gone}
                          /\ Clock \subseteq {"run idle", "note stale", "run stale"}

Rank(l) == CASE l = "auto" -> 0 [] l = "review" -> 1 [] l = "colleague" -> 2
Stricter(a, b) == IF Rank(a) >= Rank(b) THEN a ELSE b

Acts == {"accept", "reject", "revert", "undo", "ack"}
ActLevel(act, proposedAt, itemNow) ==
  IF act = "ack" THEN proposedAt ELSE Stricter(proposedAt, itemNow)

\* Mutant: the person an agent works for may approve it.
MayActOnOwnRun(act, level, by, reviewer, approver, manager) ==
  CASE level # "colleague" -> by = reviewer \/ manager
    [] level = "colleague" /\ act = "accept" -> approver
    [] level = "colleague" /\ act = "ack" -> approver \/ manager
    [] OTHER -> by = reviewer \/ approver \/ manager
MayActOnRun(act, level, by, reviewer, approver, manager) ==
  CASE level # "colleague" -> by = reviewer \/ manager
    [] level = "colleague" /\ act = "accept" -> by # reviewer /\ approver
    [] level = "colleague" /\ act = "ack" -> by # reviewer /\ (approver \/ manager)
    [] OTHER -> by = reviewer \/ approver \/ manager

-----------------------------------------------------------------------------
(* Records *)

HunkStatus == {"pending", "accepted", "rejected", "conflict", "auto_applied"}
\* A note a decision left: the hunks it covered name it, and whether reads still show it.
Feedback == [of : SUBSET HunkIx, state : {"none", "open", "answered", "stale"}]
NoFeedback == [of |-> {}, state |-> "none"]
Hunk == [slot : Slots, old : Values, new : Values, status : HunkStatus,
         review : Levels, feedback : Feedback]

\* age: how long ago updated_at was stamped, against RUN_IDLE_MS and RUN_FEEDBACK_LOOKBACK_DAYS.
Run == [agent : Agents, status : {"none", "open", "applied", "rejected", "expired"},
        acknowledged : BOOLEAN, auto_applied : BOOLEAN, reverted : BOOLEAN,
        review_mode : Levels, approvals : [HunkIx -> People \cup {None}],
        change : Changes \cup {None}, queued_behind : RunIds \cup {NoRun}, stacked_on : SUBSET RunIds,
        hunks : Seq(Hunk), age : {"new", "idle", "old"}]

NewRun(a, level, c, ahead, waiting) ==
  [agent |-> a, status |-> "open", acknowledged |-> FALSE, auto_applied |-> FALSE,
   reverted |-> FALSE, review_mode |-> level, approvals |-> [i \in HunkIx |-> None],
   change |-> c, queued_behind |-> ahead, stacked_on |-> waiting,
   hunks |-> <<>>, age |-> "new"]

Anyone == CHOOSE a \in Agents : TRUE
\* A run id that was never minted, or whose run was evicted.
Blank == [NewRun(Anyone, "auto", None, NoRun, {}) EXCEPT !.status = "none"]

\* What the actor keeps: run:<id>, run-active:<alias>, feedback-pending:<alias>.
Ledgers == [runs : [RunIds -> Run], active : [Agents -> RunIds \cup {NoRun}],
            listed : [Agents -> SUBSET RunIds]]

VARIABLES
  text,    \* the live document
  runs,    \* the runs the ledger keeps, in the order they were opened
  active,  \* the run an agent adds to
  listed,  \* the runs of an agent that hold feedback for it
  minted   \* how many run ids were handed out

vars == <<text, runs, active, listed, minted>>
Ledger == [runs |-> runs, active |-> active, listed |-> listed]
SetLedger(L) == runs' = L.runs /\ active' = L.active /\ listed' = L.listed

\* Every variable has its type; a run holds no more hunks than the ledger's limit lets it.
TypeOK ==
  /\ text \in [Slots -> Values]
  /\ runs \in [RunIds -> Run]
  /\ \A r \in RunIds : Len(runs[r].hunks) <= MaxHunks
  /\ active \in [Agents -> RunIds \cup {NoRun}]
  /\ listed \in [Agents -> SUBSET RunIds]
  /\ minted \in 0 .. MaxRuns

-----------------------------------------------------------------------------
(* Applying hunks to text *)

Landed(h) == h.status \in {"accepted", "auto_applied"}
Pending(run) == {i \in DOMAIN run.hunks : run.hunks[i].status = "pending"}
LandedIn(run) == {i \in DOMAIN run.hunks : Landed(run.hunks[i])}
Highest(I) == CHOOSE i \in I : \A j \in I : j <= i
Lowest(I) == CHOOSE i \in I : \A j \in I : i <= j
At(hs, A, s) == {i \in A : hs[i].slot = s}

\* The document once the hunks A of hs were applied in order, each over the one before it.
TextAfter(hs, A, doc) ==
  [s \in Slots |-> IF At(hs, A, s) = {} THEN doc[s] ELSE hs[Highest(At(hs, A, s))].new]

\* A is what applyStrEditsStrict applies of the targets T: exactly those that find their text.
Lands(hs, T, A, doc) ==
  \A i \in T : i \in A <=> TextAfter(hs, {j \in A : j < i}, doc)[hs[i].slot] = hs[i].old

\* Mutant: an inverse edit that finds other text there overwrites it.
UnwindsAnyway(hs, L, doc) == TRUE
\* The inverse edits of L, newest first: each must find its own text again.
Unwinds(hs, L, doc) ==
  \A i \in L :
    LET later == {j \in At(hs, L, hs[i].slot) : j > i}
    IN  hs[i].new = IF later = {} THEN doc[hs[i].slot] ELSE hs[Lowest(later)].old
TextBefore(hs, L, doc) ==
  [s \in Slots |-> IF At(hs, L, s) = {} THEN doc[s] ELSE hs[Lowest(At(hs, L, s))].old]

-----------------------------------------------------------------------------
(* The ledger's own operations: a ledger to a ledger *)

Kept(L) == {r \in RunIds : L.runs[r].status # "none"}
IsOpen(L, r) == r # NoRun /\ L.runs[r].status = "open"
Waiting(L, a) == {r \in Kept(L) : L.runs[r].agent = a /\ IsOpen(L, r) /\ Pending(L.runs[r]) # {}}
AheadOf(L, r) == IF IsOpen(L, L.runs[r].queued_behind) THEN L.runs[r].queued_behind ELSE NoRun
OpenFeedback(run) == {i \in DOMAIN run.hunks : run.hunks[i].feedback.state = "open"}
\* None has answered or withdrawn it, whether or not reads still show it.
OpenOrStale(run) == {i \in DOMAIN run.hunks : run.hunks[i].feedback.state \in {"open", "stale"}}

\* Mutant: what landed at once does not count.
ClosedByAcceptance(run) == IF \E i \in DOMAIN run.hunks : run.hunks[i].status = "accepted" THEN "applied" ELSE "rejected"
ClosedStatus(run) == IF LandedIn(run) # {} THEN "applied" ELSE "rejected"

\* Mutant: the agent's pointer is dropped with the run it named.
UnlinkedToNothing(L, r) ==
  [runs |-> [q \in RunIds |-> IF L.runs[q].queued_behind = r
                              THEN [L.runs[q] EXCEPT !.queued_behind = AheadOf(L, r), !.age = "new"]
                              ELSE L.runs[q]],
   active |-> [a \in Agents |-> IF a = L.runs[r].agent /\ L.active[a] = r THEN NoRun ELSE L.active[a]],
   listed |-> L.listed]
\* Mutant: the runs behind are freed, not moved up.
UnlinkedAndFreed(L, r) ==
  [runs |-> [q \in RunIds |-> IF L.runs[q].queued_behind = r
                              THEN [L.runs[q] EXCEPT !.queued_behind = NoRun, !.age = "new"]
                              ELSE L.runs[q]],
   active |-> [a \in Agents |-> IF a = L.runs[r].agent /\ L.active[a] = r THEN AheadOf(L, r) ELSE L.active[a]],
   listed |-> L.listed]
\* The agent's pointer goes back to the run ahead, and the runs behind move up.
Unlinked(L, r) ==
  LET next == AheadOf(L, r) IN
  [runs |-> [q \in RunIds |-> IF L.runs[q].queued_behind = r
                              THEN [L.runs[q] EXCEPT !.queued_behind = next, !.age = "new"]
                              ELSE L.runs[q]],
   active |-> [a \in Agents |-> IF a = L.runs[r].agent /\ L.active[a] = r THEN next ELSE L.active[a]],
   listed |-> L.listed]

Closed(L, r) ==
  Unlinked([L EXCEPT !.runs[r] = [L.runs[r] EXCEPT !.status = ClosedStatus(L.runs[r]), !.age = "new"]], r)

\* The agent's open run for a proposal of change c; NoRun: the proposal opens one.
GoesOn(L, a, c) ==
  LET r == L.active[a] IN
  /\ IsOpen(L, r)
  /\ L.runs[r].change = c
  /\ Pending(L.runs[r]) # {} \/ L.runs[r].age = "new"
OpenRunFor(L, a, c) == IF GoesOn(L, a, c) THEN L.active[a] ELSE NoRun

\* What finding that run does: a stale pointer is dropped, a finished run that is idle or of
\* another change is closed.
Prepared(L, a, c) ==
  LET r == L.active[a] IN
  CASE r = NoRun \/ GoesOn(L, a, c) -> L
    [] r # NoRun /\ ~IsOpen(L, r) -> [L EXCEPT !.active[a] = NoRun]
    [] OTHER -> IF Pending(L.runs[r]) = {} THEN Closed(L, r) ELSE L

PendingRunCount(L) ==
  IF Cardinality(Kept(L)) < RunOrderMax THEN Cardinality(Kept(L))
  ELSE Cardinality({r \in Kept(L) : Pending(L.runs[r]) # {}})

\* Mutant: a run is dropped however fresh the note its agent is owed.
EvictableUnread(L, r) == Pending(L.runs[r]) = {}
\* Mutant: a run is dropped while a person has not decided it.
EvictableUndecided(L, r) == r \in L.listed[L.runs[r].agent] => L.runs[r].age = "old"
\* A run the ledger may drop: nothing in it is undecided, and its agent is owed no fresh note.
Evictable(L, r) ==
  /\ Pending(L.runs[r]) = {}
  /\ r \in L.listed[L.runs[r].agent] => L.runs[r].age = "old"
Overflow(L) == Cardinality(Kept(L)) + 1 - RunOrderMax
\* The oldest droppable runs, as many as the list is over its cap with the new run in it.
Evicted(L) ==
  LET may == {r \in Kept(L) : Evictable(L, r)} IN
  {r \in may : Cardinality({q \in may : q <= r}) <= Overflow(L)}

Tracked(L, id, run) ==
  LET E == Evicted(L) IN
  [runs |-> [r \in RunIds |-> CASE r = id -> run [] r # id /\ r \in E -> Blank [] OTHER -> L.runs[r]],
   listed |-> [a \in Agents |-> L.listed[a] \ {r \in E : L.runs[r].agent = a}],
   active |-> [a \in Agents |-> IF a = run.agent THEN id
                                ELSE IF L.active[a] \in E THEN NoRun ELSE L.active[a]]]

\* One pass over the agent's list: the notes in answers are answered, and a run with none left
\* to show leaves the list.
Answered(run, r, answers) ==
  [run EXCEPT !.hunks =
     [i \in DOMAIN run.hunks |->
        IF run.hunks[i].feedback.state = "open" /\ <<r, run.hunks[i].feedback.of>> \in answers
        THEN [run.hunks[i] EXCEPT !.feedback.state = "answered"] ELSE run.hunks[i]]]
\* Mutant: a note is listed for one read only.
ScannedOnce(L, a, answers) ==
  [L EXCEPT !.runs = [r \in RunIds |-> IF r \in L.listed[a] /\ L.runs[r].agent = a
                                       THEN Answered(L.runs[r], r, answers) ELSE L.runs[r]],
            !.listed[a] = {}]
Scanned(L, a, answers) ==
  LET after == [r \in RunIds |-> IF r \in L.listed[a] /\ L.runs[r].agent = a
                                 THEN Answered(L.runs[r], r, answers) ELSE L.runs[r]]
  IN  [L EXCEPT !.runs = after,
                !.listed[a] = {r \in L.listed[a] : after[r].agent = a /\ OpenFeedback(after[r]) # {}}]

Noted(L, r) == [L EXCEPT !.listed[L.runs[r].agent] = @ \cup {r}]
Unlisted(L, r) == [L EXCEPT !.listed[L.runs[r].agent] = @ \ {r}]

ChainHunks(L, a) ==
  FoldLeft(LAMBDA hs, r : hs \o SelectSeq(L.runs[r].hunks, LAMBDA h : h.status = "pending"),
           <<>>, SetToSortSeq(Waiting(L, a), <))
\* The document as the agent believes it to be: its own pending hunks, if any wait, laid over the
\* live text.
Working(L, a) ==
  LET hs == ChainHunks(L, a)
      A == CHOOSE A \in SUBSET DOMAIN hs : Lands(hs, DOMAIN hs, A, text)
  IN  IF Waiting(L, a) = {} THEN text ELSE TextAfter(hs, A, text)

-----------------------------------------------------------------------------
(* Handlers *)

Init ==
  /\ text \in [Slots -> Plain]
  /\ \A s, t \in Slots : text[s] = text[t]
  /\ runs = [r \in RunIds |-> Blank]
  /\ active = [a \in Agents |-> NoRun]
  /\ listed = [a \in Agents |-> {}]
  /\ minted = 0

\* A hunk of the proposal: the agent quotes the passage as it reads it, and names its own text
\* by the hunk (a deletion puts nothing there).
Proposed(id, i, s, old, delete, level, status) ==
  [slot |-> s, old |-> old, new |-> IF delete THEN Gone ELSE <<id, i>>, status |-> status,
   review |-> level, feedback |-> NoFeedback]

\* The run a proposal lands in, and the ledger it lands in: the open run, or a new one behind the
\* newest run that waits.
ProposeInto(L, a, c, level) ==
  LET waiting == Waiting(L, a)
      ahead == IF waiting = {} THEN NoRun ELSE Highest(waiting)
  IN  IF OpenRunFor(Ledger, a, c) # NoRun THEN L
      ELSE Tracked(L, minted + 1, NewRun(a, level, c, ahead, waiting))
WithHunk(run, h, level, commit) ==
  [run EXCEPT !.hunks = Append(@, h), !.review_mode = Stricter(@, level), !.age = "new",
              !.auto_applied = @ \/ commit]

\* proposeRunEdit, then the feedback the proposal answers and carries.
Propose(a, c, level, s, delete, answers) ==
  LET L == Prepared(Ledger, a, c)
      open == OpenRunFor(Ledger, a, c)
      id == IF open = NoRun THEN minted + 1 ELSE open
      old == Working(L, a)[s]
      commit == level = "auto" /\ Waiting(L, a) = {}
      M == ProposeInto(L, a, c, level)
      i == Len(M.runs[id].hunks) + 1
      h == Proposed(id, i, s, old, delete, level, IF commit THEN "auto_applied" ELSE "pending")
  IN
  /\ open = NoRun => minted < MaxRuns /\ PendingRunCount(L) < RunOrderMax
  /\ id \in RunIds /\ i \in HunkIx
  /\ old \in Values \ {Gone}
  /\ SetLedger(Scanned([M EXCEPT !.runs[id] = WithHunk(@, h, level, commit)], a, answers))
  /\ text' = IF commit THEN [text EXCEPT ![s] = h.new] ELSE text
  /\ minted' = IF open = NoRun THEN minted + 1 ELSE minted

\* A proposal that changes nothing, or is refused for the backlog, has still rolled the run over.
ProposeNothing(a, c) ==
  /\ Prepared(Ledger, a, c) # Ledger
  /\ SetLedger(Prepared(Ledger, a, c))
  /\ UNCHANGED <<text, minted>>

\* A read by the agent: a stale pointer is dropped and its feedback list pruned.
ReadBack(a) ==
  LET L == IF active[a] # NoRun /\ ~IsOpen(Ledger, active[a])
           THEN [Ledger EXCEPT !.active[a] = NoRun] ELSE Ledger
  IN  /\ Scanned(L, a, {}) # Ledger
      /\ SetLedger(Scanned(L, a, {}))
      /\ UNCHANGED <<text, minted>>

\* by may do act while the item is at itemLevel, going by what the node vouches for them: who is an
\* approver or a manager is the node's to say, and may differ at every call.
Vouched(act, level, by, reviewer) ==
  {v \in [approver : BOOLEAN, manager : BOOLEAN] : MayActOnRun(act, level, by, reviewer, v.approver, v.manager)}
May(act, r, by, itemLevel) ==
  /\ runs[r].status # "none"
  /\ Vouched(act, ActLevel(act, runs[r].review_mode, itemLevel), by, Reviewer[runs[r].agent]) # {}
Deciders(act, r) == {by \in People : \E itemLevel \in LevelsInUse : May(act, r, by, itemLevel)}
Someone(act, r) == Deciders(act, r) # {}

\* Mutant: a run closes only if something of it was taken.
SettleTaken(L, r) ==
  IF L.runs[r].status = "open" /\ Pending(L.runs[r]) = {} /\ LandedIn(L.runs[r]) # {} THEN Closed(L, r) ELSE L
\* An open run with nothing left to decide closes with the decision; any other is saved.
Settle(L, r) ==
  IF L.runs[r].status = "open" /\ Pending(L.runs[r]) = {} THEN Closed(L, r) ELSE L

Reject(r, T) ==
  LET run == runs[r]
      turned == [i \in DOMAIN run.hunks |->
                   IF i \in T THEN [run.hunks[i] EXCEPT !.status = "rejected",
                                      !.feedback = [of |-> T, state |-> "open"]]
                   ELSE run.hunks[i]]
      L == [Ledger EXCEPT !.runs[r] = [run EXCEPT !.hunks = turned, !.age = "new"]]
  IN
  /\ Someone("reject", r)
  /\ T \subseteq Pending(run)
  /\ SetLedger(Settle(IF T = {} THEN L ELSE Noted(L, r), r))
  /\ UNCHANGED <<text, minted>>

\* A target that misses while an earlier hunk of the run still waits is put off; else it is a conflict.
Blocked(run, T, i) == \E j \in Pending(run) \ T : j < i
\* Mutant: a hunk that is put off is given a status of its own.
AcceptedOrBlocked(run, T, A, i) ==
  CASE i \in A -> [run.hunks[i] EXCEPT !.status = "accepted"]
    [] i \in T \ A -> [run.hunks[i] EXCEPT !.status = IF Blocked(run, T, i) THEN "blocked" ELSE "conflict"]
    [] OTHER -> run.hunks[i]
\* Mutant: a hunk that no longer fits is taken as accepted.
AcceptedAnyway(run, T, A, i) ==
  IF i \in T /\ ~Blocked(run, T, i) THEN [run.hunks[i] EXCEPT !.status = "accepted"] ELSE run.hunks[i]
AcceptedHunk(run, T, A, i) ==
  CASE i \in A -> [run.hunks[i] EXCEPT !.status = "accepted"]
    [] i \in T \ A /\ ~Blocked(run, T, i) -> [run.hunks[i] EXCEPT !.status = "conflict"]
    [] OTHER -> run.hunks[i]
\* Who let a hunk in is kept where a colleague must.
ApprovalOf(run, T, A, i, level, by) ==
  CASE i \in A /\ level = "colleague" -> by
    [] i \in A /\ level # "colleague" -> None
    [] i \in T \ A /\ ~Blocked(run, T, i) -> None
    [] OTHER -> run.approvals[i]
Accept(r, T, A, by, itemLevel) ==
  LET run == runs[r]
      level == Stricter(run.review_mode, itemLevel)
      taken == [run EXCEPT
                  !.hunks = [i \in DOMAIN run.hunks |-> AcceptedHunk(run, T, A, i)],
                  !.approvals = [i \in HunkIx |-> ApprovalOf(run, T, A, i, level, by)],
                  !.age = "new"]
  IN
  /\ May("accept", r, by, itemLevel)
  /\ AheadOf(Ledger, r) = NoRun
  /\ T \subseteq Pending(run) /\ A \subseteq T
  /\ Lands(run.hunks, T, A, text)
  /\ text' = TextAfter(run.hunks, A, text)
  /\ SetLedger(Settle([Ledger EXCEPT !.runs[r] = taken], r))
  /\ UNCHANGED minted

\* All that landed is taken back out, what still waits is turned down, and the run ends.
Revert(r, note) ==
  LET run == runs[r]
      told == LandedIn(run) \cup Pending(run)
      turned == [i \in DOMAIN run.hunks |->
                   [run.hunks[i] EXCEPT
                      !.status = IF i \in Pending(run) THEN "rejected" ELSE run.hunks[i].status,
                      !.feedback = IF note /\ i \in told THEN [of |-> told, state |-> "open"]
                                   ELSE run.hunks[i].feedback]]
      L == [Ledger EXCEPT !.runs[r] =
              [run EXCEPT !.hunks = turned, !.status = "expired", !.reverted = TRUE,
                          !.acknowledged = TRUE, !.age = "new"]]
  IN
  /\ Someone("revert", r)
  /\ ~run.reverted
  /\ LandedIn(run) # {}
  /\ \A i \in LandedIn(run) : run.hunks[i].new # Gone
  /\ Unwinds(run.hunks, LandedIn(run), text)
  /\ text' = TextBefore(run.hunks, LandedIn(run), text)
  /\ SetLedger(Unlinked(IF note THEN Noted(L, r) ELSE L, r))
  /\ UNCHANGED minted

\* The named decisions are taken back: accepted text leaves the document, a note goes with its
\* rejection, and the hunks wait again.
Undo(r, T) ==
  LET run == runs[r]
      back == {i \in T : run.hunks[i].status = "accepted"}
      reopens == run.status # "open"
      \* openRunFor drops a pointer at a run that is gone or closed.
      current == IF IsOpen(Ledger, active[run.agent]) THEN active[run.agent] ELSE NoRun
      waiting == [i \in DOMAIN run.hunks |->
                    IF i \in T THEN [run.hunks[i] EXCEPT !.status = "pending", !.feedback = NoFeedback]
                    ELSE run.hunks[i]]
      again == [run EXCEPT
                  !.hunks = waiting, !.age = "new",
                  !.approvals = [i \in HunkIx |-> IF i \in T THEN None ELSE run.approvals[i]],
                  !.status = "open",
                  !.queued_behind = IF reopens /\ AheadOf(Ledger, r) = NoRun THEN NoRun ELSE @]
      L == [Ledger EXCEPT !.runs[r] = again, !.active[run.agent] = IF reopens THEN r ELSE @]
  IN
  /\ Someone("undo", r)
  /\ ~run.reverted
  /\ T # {} /\ T \subseteq {i \in DOMAIN run.hunks : run.hunks[i].status \in {"accepted", "rejected"}}
  /\ \A i \in T : run.hunks[i].status = "rejected" => run.hunks[i].feedback.state # "answered"
  /\ reopens => current \in {NoRun, r}
  /\ back # {} => AheadOf(Ledger, r) = NoRun
  /\ \A i \in back : run.hunks[i].new # Gone
  /\ Unwinds(run.hunks, back, text)
  /\ text' = TextBefore(run.hunks, back, text)
  /\ SetLedger(IF (\E i \in T : run.hunks[i].feedback # NoFeedback) /\ OpenOrStale(again) = {}
               THEN Unlisted(L, r) ELSE L)
  /\ UNCHANGED minted

\* Marked as reviewed: what was asked for on the run is withdrawn with it.
Ack(r) ==
  LET run == runs[r]
      read == [i \in DOMAIN run.hunks |->
                 [run.hunks[i] EXCEPT
                    !.feedback.state = IF @ \in {"open", "stale"} THEN "answered" ELSE @]]
      L == [Ledger EXCEPT !.runs[r] = [run EXCEPT !.acknowledged = TRUE, !.hunks = read, !.age = "new"]]
  IN
  /\ Someone("ack", r)
  /\ SetLedger(IF OpenOrStale(run) # {} THEN Unlisted(L, r) ELSE L)
  /\ UNCHANGED <<text, minted>>

-----------------------------------------------------------------------------
(* People at the editor, and the clock *)

PersonEdits(s, v) ==
  /\ text[s] # v
  /\ text' = [text EXCEPT ![s] = v]
  /\ UNCHANGED <<runs, active, listed, minted>>

\* An open run with nothing waiting has been quiet for RUN_IDLE_MS.
GoesIdle(r) ==
  /\ "run idle" \in Clock
  /\ runs[r].status = "open" /\ runs[r].age = "new" /\ Pending(runs[r]) = {}
  /\ runs' = [runs EXCEPT ![r].age = "idle"]
  /\ UNCHANGED <<text, active, listed, minted>>

\* A note has aged past RUN_FEEDBACK_LOOKBACK_DAYS.
FeedbackAges(r, i) ==
  LET note == runs[r].hunks[i].feedback IN
  /\ "note stale" \in Clock
  /\ note.state = "open"
  /\ runs' = [runs EXCEPT ![r].hunks =
                [j \in DOMAIN runs[r].hunks |->
                   IF runs[r].hunks[j].feedback = note
                   THEN [runs[r].hunks[j] EXCEPT !.feedback.state = "stale"] ELSE runs[r].hunks[j]]]
  /\ UNCHANGED <<text, active, listed, minted>>

\* A run has not been touched since: every note in it is at least as old.
GoesOld(r) ==
  /\ "run stale" \in Clock
  /\ r \in listed[runs[r].agent] /\ runs[r].age # "old"
  /\ OpenFeedback(runs[r]) = {} /\ Pending(runs[r]) = {}
  /\ runs' = [runs EXCEPT ![r].age = "old"]
  /\ UNCHANGED <<text, active, listed, minted>>

NotesFor(a) ==
  UNION {{<<r, runs[r].hunks[i].feedback.of>> : i \in OpenFeedback(runs[r])} : r \in listed[a]}

Next ==
  \/ \E a \in Agents, c \in Changes, level \in LevelsInUse, s \in Slots, delete \in Deletes :
       \E answers \in SUBSET NotesFor(a) : Propose(a, c, level, s, delete, answers)
  \/ \E a \in Agents, c \in Changes : ProposeNothing(a, c)
  \/ \E a \in Agents : ReadBack(a)
  \/ \E r \in RunIds :
       \/ \E T \in SUBSET Pending(runs[r]) :
            \/ Reject(r, T)
            \/ \E A \in SUBSET T, by \in People, itemLevel \in LevelsInUse : Accept(r, T, A, by, itemLevel)
       \/ \E note \in BOOLEAN : Revert(r, note)
       \/ \E T \in SUBSET DOMAIN runs[r].hunks : Undo(r, T)
       \/ Ack(r)
       \/ GoesIdle(r)
       \/ \E i \in DOMAIN runs[r].hunks : FeedbackAges(r, i)
       \/ GoesOld(r)
  \/ \E s \in Slots, v \in Typed : PersonEdits(s, v)

Spec == Init /\ [][Next]_vars

-----------------------------------------------------------------------------
(* Review as a reader of the docs knows it: ReviewGate *)

HunkNames == RunIds \X HunkIx
Known(h) == h[2] \in DOMAIN runs[h[1]].hunks
HunkOf(h) == runs[h[1]].hunks[h[2]]
\* A run id handed out that holds nothing any more was evicted.
FateOf(h) ==
  CASE ~Known(h) -> IF h[1] <= minted /\ runs[h[1]].status = "none" THEN "forgotten" ELSE "new"
    [] Known(h) /\ HunkOf(h).status = "pending" -> "waiting"
    [] Known(h) /\ Landed(HunkOf(h)) /\ ~runs[h[1]].reverted -> "in"
    [] OTHER -> "out"

Gate == INSTANCE ReviewGate WITH
  Typed <- Plain \cup {Gone},
  Hunks <- HunkNames,
  fate <- [h \in HunkNames |-> FateOf(h)],
  level <- [h \in HunkNames |-> IF Known(h) THEN HunkOf(h).review ELSE "auto"],
  asker <- [h \in HunkNames |-> Reviewer[runs[h[1]].agent]],
  signed <- [h \in HunkNames |-> IF runs[h[1]].approvals[h[2]] = None THEN {} ELSE {runs[h[1]].approvals[h[2]]}]

\* Every handler is one step of that gate, or changes nothing it speaks of: a hunk's text enters
\* the document with a person's decision or under `auto`, leaves it whole, and no decision touches
\* text that is not in it.
ImplementsReviewGate == Gate!Spec

-----------------------------------------------------------------------------
(* What the ledger promises *)

\* None approves their own AI: a hunk proposed at `colleague` that stands accepted was let in
\* by a named person who is not the one the agent works for (mayActOnRun, approvals in
\* handleRunDecide), whatever the node vouched, however often it was decided and undone.
ColleagueSigned ==
  \A r \in RunIds : \A i \in DOMAIN runs[r].hunks :
    runs[r].hunks[i].status = "accepted" /\ runs[r].hunks[i].review = "colleague"
      => runs[r].approvals[i] \in People \ {Reviewer[runs[r].agent]}

\* An agent's text stands in the document only while the ledger says it landed: never text that
\* waits, was turned down, conflicted or was undone, whatever order hunks were accepted, undone
\* and reverted in (handleRunDecide, handleRunRevert, handleRunUndo).
OnlyLandedText ==
  \A s \in Slots, r \in RunIds : \A i \in DOMAIN runs[r].hunks :
    text[s] = <<r, i>> => Landed(runs[r].hunks[i]) /\ ~runs[r].reverted

\* A run that blocks another can itself be decided: it is the agent's, older, and holds a hunk
\* that waits, so "decide those first" always names something to decide (aheadOf, unlink).
AheadHasWork ==
  \A r \in RunIds :
    LET ahead == AheadOf(Ledger, r) IN
    ahead # NoRun => /\ ahead < r
                     /\ runs[ahead].agent = runs[r].agent
                     /\ Pending(runs[ahead]) # {}

\* A closed run holds nothing that waits, and its status says whether anything of it landed
\* (closedStatus): a hunk is never stranded in a run nobody is shown any more.
StatusTruth ==
  \A r \in RunIds :
    LET run == runs[r] IN
    /\ run.status \in {"applied", "rejected", "expired"} => Pending(run) = {}
    /\ run.status = "applied" => LandedIn(run) # {}
    /\ run.status = "rejected" => LandedIn(run) = {}
    /\ run.reverted <=> run.status = "expired"

\* The agent's own waiting text is in what it reads: while a run of its waits, its pointer names
\* an open run, without which projectionFor lays nothing over the live text.
OwnWorkShown ==
  \A a \in Agents : Waiting(Ledger, a) # {} => IsOpen(Ledger, active[a]) /\ runs[active[a]].agent = a

\* The two together: nobody is stuck in the queue, the person who is told what to decide first nor
\* the agent that works on top of what waits.
QueueIsUsable == AheadHasWork /\ OwnWorkShown

\* A reviewer's note reaches its agent: a run holding a note that is neither answered, withdrawn
\* nor past the lookback is on the list the agent's reads go through (noteFeedback, unlistFeedback).
NotesAreListed ==
  \A r \in Kept(Ledger) : OpenFeedback(runs[r]) # {} => r \in listed[runs[r].agent]

\* Accepted in order: a hunk is let in only when no run it was proposed on top of still waits,
\* however the queue was shortened, reopened or moved up meanwhile (queued_behind, stacked_on).
AcceptedInOrder ==
  [][\A r \in RunIds : \A i \in DOMAIN runs[r].hunks :
       runs[r].hunks[i].status = "pending" /\ runs'[r].status # "none"
         /\ runs'[r].hunks[i].status = "accepted"
       => \A q \in runs[r].stacked_on : ~(runs[q].status = "open" /\ Pending(runs[q]) # {})]_vars

\* The cap never costs anyone anything: a run leaves the ledger only when nothing in it waits for
\* a person and no fresh note in it waits for its agent (track).
NothingOwedIsEvicted ==
  [][\A r \in Kept(Ledger) :
       runs'[r].status = "none" => Pending(runs[r]) = {} /\ OpenFeedback(runs[r]) = {}]_vars

\* A passage is told to readers as reviewed only once a person accepted it or dismissed the card
\* it stands on (docs/api.md, provenance; ProvenancePassage.reviewed): no step both lands a
\* passage without a person and has it read as reviewed.
ReviewedOnlyIfSeen ==
  [][\A r \in RunIds : \A i \in DOMAIN runs'[r].hunks :
       runs'[r].hunks[i].status = "auto_applied" /\ runs'[r].acknowledged /\ ~runs'[r].reverted
       => i \in DOMAIN runs[r].hunks]_vars
=============================================================================
