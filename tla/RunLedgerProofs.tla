-------------------------- MODULE RunLedgerProofs --------------------------
(* Proofs about the run ledger, for any agents, people, passages and        *)
(* bounds.  Every handler builds its new ledger from the old one with the   *)
(* ledger's own operations, so the proof has a lemma for each operation and *)
(* then a step for each handler.                                            *)
EXTENDS RunLedger, TLAPS, WellFoundedInduction

\* Who let a colleague's hunk in, and that a run holding one is itself at `colleague`: the second
\* half is what an accept goes by, so the first is inductive only with it.
Signed(run) ==
  \A i \in DOMAIN run.hunks :
    run.hunks[i].review = "colleague"
      => /\ run.review_mode = "colleague"
         /\ run.hunks[i].status = "accepted" => run.approvals[i] \in People \ {Reviewer[run.agent]}

\* StatusTruth of one run; what is not kept holds nothing that waits either.
Settled(run) ==
  /\ run.status # "open" => Pending(run) = {}
  /\ run.status = "applied" => LandedIn(run) # {}
  /\ run.status = "rejected" => LandedIn(run) = {}
  /\ run.reverted <=> run.status = "expired"

RunOK(run) == run \in Run /\ Len(run.hunks) <= MaxHunks /\ Signed(run) /\ Settled(run)

LedgerOK(L) == L \in Ledgers /\ \A r \in RunIds : RunOK(L.runs[r])

IInv ==
  /\ text \in [Slots -> Values]
  /\ LedgerOK(Ledger)
  /\ minted \in 0 .. MaxRuns

-----------------------------------------------------------------------------
(* Sequences and records *)

\* A function on 1..n into S is a sequence over S of length n.
LEMMA SeqOfLen ==
  ASSUME NEW S, NEW n \in Nat, NEW f \in [1 .. n -> S]
  PROVE  f \in Seq(S) /\ Len(f) = n /\ DOMAIN f = 1 .. n
OBVIOUS

\* Rewriting the hunks of a run one by one keeps it a run of as many hunks.
LEMMA Rewritten ==
  ASSUME NEW S, NEW s \in Seq(S), NEW f, f = [i \in DOMAIN s |-> f[i]], \A i \in DOMAIN s : f[i] \in S
  PROVE  f \in Seq(S) /\ Len(f) = Len(s) /\ DOMAIN f = DOMAIN s
<1>1. Len(s) \in Nat /\ DOMAIN s = 1 .. Len(s)
  OBVIOUS
<1>2. f \in [1 .. Len(s) -> S]
  BY <1>1
<1> QED BY <1>1, <1>2, SeqOfLen

\* A run that was never opened, or was evicted, satisfies what is asked of a run.
LEMMA BlankOK == RunOK(Blank) /\ Blank.status = "none" /\ Blank.queued_behind = NoRun
<1>1. Anyone \in Agents
  BY ReviewerAssumption DEF Anyone
<1>2. NewRun(Anyone, "auto", None, NoRun, {}) \in Run
  BY <1>1 DEF NewRun, Run, Levels
<1>3. Blank \in Run /\ Blank.hunks = <<>>
  BY <1>2 DEF Blank, NewRun, Run
<1> QED BY <1>3, BoundsAssumption DEF RunOK, Signed, Settled, Blank, NewRun, Pending, LandedIn, NoRun

\* So does a run just opened.
LEMMA NewRunOK ==
  ASSUME NEW a \in Agents, NEW level \in Levels, NEW c \in Changes,
         NEW ahead \in RunIds \cup {NoRun}, NEW waiting \in SUBSET RunIds
  PROVE  RunOK(NewRun(a, level, c, ahead, waiting))
<1> DEFINE run == NewRun(a, level, c, ahead, waiting)
<1>1. run \in Run /\ run.hunks = <<>>
  BY DEF NewRun, Run
<1> QED BY <1>1, BoundsAssumption DEF RunOK, Signed, Settled, NewRun, Pending, LandedIn

\* Moving up in the queue and being touched leave a run what it was.
LEMMA MovedUpOK ==
  ASSUME NEW run, RunOK(run), NEW next \in RunIds \cup {NoRun}
  PROVE  RunOK([run EXCEPT !.queued_behind = next, !.age = "new"])
BY ZenonT(60) DEF RunOK, Run, Signed, Settled, Pending, LandedIn

-----------------------------------------------------------------------------
(* The ledger's operations keep it a ledger of such runs *)

\* The parts of a well-formed ledger, each of its kind.
LEMMA LedgerParts ==
  ASSUME NEW L, LedgerOK(L)
  PROVE  /\ L.runs \in [RunIds -> Run] /\ L.active \in [Agents -> RunIds \cup {NoRun}]
         /\ L.listed \in [Agents -> SUBSET RunIds]
         /\ \A r \in RunIds : L.runs[r].queued_behind \in RunIds \cup {NoRun}
         /\ \A r \in RunIds : L.runs[r].agent \in Agents
BY DEF LedgerOK, Ledgers, Run

\* Writing one well-formed run into the ledger.
LEMMA WrittenOK ==
  ASSUME NEW L, LedgerOK(L), NEW r \in RunIds, NEW run, RunOK(run)
  PROVE  LedgerOK([L EXCEPT !.runs[r] = run])
<1>1. run \in Run
  BY DEF RunOK
<1> QED BY <1>1 DEF LedgerOK, Ledgers

\* The run ahead is a run, or none.
LEMMA AheadOfOK ==
  ASSUME NEW L, LedgerOK(L), NEW r \in RunIds
  PROVE  AheadOf(L, r) \in RunIds \cup {NoRun}
BY LedgerParts DEF AheadOf

\* After a run closed, the rest of the ledger is as good as it was.
LEMMA UnlinkedOK ==
  ASSUME NEW L, LedgerOK(L), NEW r \in RunIds
  PROVE  LedgerOK(Unlinked(L, r))
<1> DEFINE next == AheadOf(L, r)
           M == Unlinked(L, r)
<1>1. next \in RunIds \cup {NoRun}
  BY AheadOfOK
<1>2. /\ M.runs = [q \in RunIds |-> IF L.runs[q].queued_behind = r
                                    THEN [L.runs[q] EXCEPT !.queued_behind = next, !.age = "new"]
                                    ELSE L.runs[q]]
      /\ M.active = [a \in Agents |-> IF a = L.runs[r].agent /\ L.active[a] = r THEN next ELSE L.active[a]]
      /\ M.listed = L.listed
      /\ M = [runs |-> M.runs, active |-> M.active, listed |-> M.listed]
  BY DEF Unlinked
<1> HIDE DEF M, next
<1>3. \A q \in RunIds : RunOK(M.runs[q])
  <2> TAKE q \in RunIds
  <2>1. RunOK(L.runs[q])
    BY DEF LedgerOK
  <2>2. RunOK([L.runs[q] EXCEPT !.queued_behind = next, !.age = "new"])
    BY <1>1, <2>1, MovedUpOK
  <2> QED BY <1>2, <2>1, <2>2
<1>4. M.active \in [Agents -> RunIds \cup {NoRun}]
  <2>1. L.active \in [Agents -> RunIds \cup {NoRun}]
    BY LedgerParts
  <2> QED BY <1>1, <1>2, <2>1
<1>5. M.runs \in [RunIds -> Run]
  BY <1>2, <1>3 DEF RunOK
<1>6. M.listed \in [Agents -> SUBSET RunIds]
  BY <1>2, LedgerParts
<1>7. LedgerOK(M)
  BY <1>2, <1>3, <1>4, <1>5, <1>6 DEF LedgerOK, Ledgers
<1> QED BY <1>7 DEF M

\* Closing a run none of whose hunks wait.
LEMMA ClosedOK ==
  ASSUME NEW L, LedgerOK(L), NEW r \in RunIds, L.runs[r].status = "open", Pending(L.runs[r]) = {}
  PROVE  LedgerOK(Closed(L, r))
<1> DEFINE run == [L.runs[r] EXCEPT !.status = ClosedStatus(L.runs[r]), !.age = "new"]
<1>1. RunOK(L.runs[r])
  BY DEF LedgerOK
<1>2. RunOK(run)
  <2>1. run \in Run
    BY <1>1 DEF RunOK, Run, ClosedStatus
  <2>2. /\ run.hunks = L.runs[r].hunks /\ run.approvals = L.runs[r].approvals
        /\ run.agent = L.runs[r].agent /\ run.review_mode = L.runs[r].review_mode
        /\ run.reverted = L.runs[r].reverted /\ run.status = ClosedStatus(L.runs[r])
    BY <1>1 DEF RunOK, Run
  <2>3. Pending(run) = Pending(L.runs[r]) /\ LandedIn(run) = LandedIn(L.runs[r])
    BY <2>2 DEF Pending, LandedIn
  <2>4. Signed(run)
    BY <1>1, <2>2 DEF RunOK, Signed
  <2>5. Settled(run)
    <3>1. ~run.reverted
      BY <1>1, <2>2 DEF RunOK, Settled
    <3> HIDE DEF run
    <3>2. /\ run.status \in {"applied", "rejected"}
          /\ run.status = "applied" <=> LandedIn(run) # {}
      BY <2>2, <2>3 DEF ClosedStatus
    <3> QED BY <2>3, <3>1, <3>2 DEF Settled
  <2> QED BY <1>1, <2>1, <2>2, <2>4, <2>5 DEF RunOK
<1>3. LedgerOK([L EXCEPT !.runs[r] = run])
  BY <1>2, WrittenOK
<1> QED BY <1>3, UnlinkedOK DEF Closed

\* Rolling the run over keeps the ledger well formed.
LEMMA PreparedOK ==
  ASSUME NEW L, LedgerOK(L), NEW a \in Agents, NEW c
  PROVE  LedgerOK(Prepared(L, a, c))
<1> DEFINE r == L.active[a]
<1>1. r \in RunIds \cup {NoRun}
  BY LedgerParts
<1>2. CASE r = NoRun \/ GoesOn(L, a, c)
  BY <1>2 DEF Prepared, GoesOn
<1>3. CASE r # NoRun /\ ~IsOpen(L, r)
  <2>1. Prepared(L, a, c) = [L EXCEPT !.active[a] = NoRun]
    BY <1>3 DEF Prepared, GoesOn
  <2>2. [L EXCEPT !.active[a] = NoRun] \in Ledgers
    BY DEF LedgerOK, Ledgers
  <2>3. [L EXCEPT !.active[a] = NoRun].runs = L.runs
    BY DEF LedgerOK, Ledgers
  <2> QED BY <2>1, <2>2, <2>3 DEF LedgerOK
<1>4. CASE r # NoRun /\ IsOpen(L, r) /\ ~GoesOn(L, a, c)
  <2>1. Prepared(L, a, c) = IF Pending(L.runs[r]) = {} THEN Closed(L, r) ELSE L
    BY <1>4 DEF Prepared
  <2>2. r \in RunIds /\ L.runs[r].status = "open"
    BY <1>1, <1>4 DEF IsOpen
  <2>3. Pending(L.runs[r]) = {} => LedgerOK(Closed(L, r))
    BY <2>2, ClosedOK
  <2> QED BY <2>1, <2>3
<1> QED BY <1>2, <1>3, <1>4

\* So does opening a run, with the evictions that make room for it.
LEMMA TrackedOK ==
  ASSUME NEW L, LedgerOK(L), NEW id \in RunIds, NEW run, RunOK(run)
  PROVE  LedgerOK(Tracked(L, id, run)) /\ Tracked(L, id, run).runs[id] = run
<1> DEFINE E == Evicted(L)
           M == Tracked(L, id, run)
<1>1. /\ M.runs = [r \in RunIds |-> CASE r = id -> run [] r # id /\ r \in E -> Blank [] OTHER -> L.runs[r]]
      /\ M.listed = [a \in Agents |-> L.listed[a] \ {r \in E : L.runs[r].agent = a}]
      /\ M.active = [a \in Agents |-> IF a = run.agent THEN id
                                      ELSE IF L.active[a] \in E THEN NoRun ELSE L.active[a]]
      /\ M = [runs |-> M.runs, listed |-> M.listed, active |-> M.active]
  BY DEF Tracked
<1> HIDE DEF M, E
<1>2. \A r \in RunIds : RunOK(M.runs[r])
  <2> TAKE r \in RunIds
  <2>1. M.runs[r] \in {run, Blank, L.runs[r]}
    BY <1>1
  <2>2. RunOK(L.runs[r])
    BY DEF LedgerOK
  <2> QED BY <2>1, <2>2, BlankOK
<1>3. M.runs \in [RunIds -> Run]
  BY <1>1, <1>2 DEF RunOK
<1>4. M.listed \in [Agents -> SUBSET RunIds]
  BY <1>1, LedgerParts
<1>5. M.active \in [Agents -> RunIds \cup {NoRun}]
  <2>1. L.active \in [Agents -> RunIds \cup {NoRun}]
    BY LedgerParts
  <2> QED BY <1>1, <2>1
<1>6. LedgerOK(M)
  BY <1>1, <1>2, <1>3, <1>4, <1>5 DEF LedgerOK, Ledgers
<1>7. M.runs[id] = run
  BY <1>1
<1> QED BY <1>6, <1>7 DEF M

\* Only the feedback of hunks changes: what RunOK says of a run says nothing of that.
LEMMA NotesChangedOK ==
  ASSUME NEW run, RunOK(run), NEW new, new \in Run,
         new.agent = run.agent, new.status = run.status, new.reverted = run.reverted,
         new.review_mode = run.review_mode, new.approvals = run.approvals,
         DOMAIN new.hunks = DOMAIN run.hunks, Len(new.hunks) = Len(run.hunks),
         \A i \in DOMAIN run.hunks : /\ new.hunks[i].status = run.hunks[i].status
                                     /\ new.hunks[i].review = run.hunks[i].review
  PROVE  RunOK(new)
<1>1. Signed(new)
  BY DEF RunOK, Signed
<1>2. Pending(new) = Pending(run) /\ LandedIn(new) = LandedIn(run)
  BY DEF Pending, LandedIn, Landed
<1>3. Settled(new)
  BY <1>2 DEF RunOK, Settled
<1> QED BY <1>1, <1>3 DEF RunOK

\* Answering notes keeps a run well formed.
LEMMA AnsweredOK ==
  ASSUME NEW run, RunOK(run), NEW r, NEW answers
  PROVE  RunOK(Answered(run, r, answers)) /\ Answered(run, r, answers).agent = run.agent
<1> DEFINE hs == [i \in DOMAIN run.hunks |->
             IF run.hunks[i].feedback.state = "open" /\ <<r, run.hunks[i].feedback.of>> \in answers
             THEN [run.hunks[i] EXCEPT !.feedback.state = "answered"] ELSE run.hunks[i]]
           new == [run EXCEPT !.hunks = hs]
<1>1. run \in Run /\ run.hunks \in Seq(Hunk)
  BY DEF RunOK, Run
<1>2. \A i \in DOMAIN run.hunks : /\ hs[i] \in Hunk
                                  /\ hs[i].status = run.hunks[i].status
                                  /\ hs[i].review = run.hunks[i].review
  <2> TAKE i \in DOMAIN run.hunks
  <2>1. run.hunks[i] \in Hunk
    BY <1>1
  <2> QED BY <2>1 DEF Hunk, Feedback
<1>3. hs \in Seq(Hunk) /\ Len(hs) = Len(run.hunks) /\ DOMAIN hs = DOMAIN run.hunks
  BY <1>1, <1>2, Rewritten, ZenonT(60)
<1>4. /\ new \in Run /\ new.hunks = hs
      /\ new.agent = run.agent /\ new.status = run.status /\ new.reverted = run.reverted
      /\ new.review_mode = run.review_mode /\ new.approvals = run.approvals
  BY <1>1, <1>3 DEF Run
<1> HIDE DEF hs, new
<1>5. RunOK(new)
  BY <1>2, <1>3, <1>4, NotesChangedOK
<1> QED BY <1>4, <1>5 DEF Answered, hs, new

\* And a read of the list, the ledger.
LEMMA ScannedOK ==
  ASSUME NEW L, LedgerOK(L), NEW a \in Agents, NEW answers
  PROVE  LedgerOK(Scanned(L, a, answers))
<1> DEFINE after == [r \in RunIds |-> IF r \in L.listed[a] /\ L.runs[r].agent = a
                                     THEN Answered(L.runs[r], r, answers) ELSE L.runs[r]]
           left == {r \in L.listed[a] : after[r].agent = a /\ OpenFeedback(after[r]) # {}}
           M == [L EXCEPT !.runs = after, !.listed[a] = left]
<1>1. \A r \in RunIds : RunOK(after[r])
  BY AnsweredOK DEF LedgerOK
<1>2. after \in [RunIds -> Run]
  BY <1>1 DEF RunOK
<1>3. left \in SUBSET RunIds
  BY LedgerParts
<1> HIDE DEF after, left
<1>4. M \in Ledgers /\ M.runs = after
  BY <1>2, <1>3 DEF LedgerOK, Ledgers
<1>5. LedgerOK(M)
  BY <1>1, <1>4 DEF LedgerOK
<1> QED BY <1>5 DEF Scanned, after, left

\* Listing a run for its agent keeps the ledger well formed.
LEMMA NotedOK ==
  ASSUME NEW L, LedgerOK(L), NEW r \in RunIds
  PROVE  /\ LedgerOK(Noted(L, r)) /\ Noted(L, r).runs = L.runs
         /\ LedgerOK(Unlisted(L, r)) /\ Unlisted(L, r).runs = L.runs
<1>1. L.runs[r].agent \in Agents
  BY LedgerParts
<1>2. Noted(L, r) \in Ledgers /\ Noted(L, r).runs = L.runs
  BY <1>1 DEF LedgerOK, Ledgers, Noted
<1>3. Unlisted(L, r) \in Ledgers /\ Unlisted(L, r).runs = L.runs
  BY <1>1 DEF LedgerOK, Ledgers, Unlisted
<1> QED BY <1>2, <1>3 DEF LedgerOK

\* Closing a run with nothing left to decide keeps the ledger well formed.
LEMMA SettleOK ==
  ASSUME NEW L, LedgerOK(L), NEW r \in RunIds
  PROVE  LedgerOK(Settle(L, r))
BY ClosedOK DEF Settle

-----------------------------------------------------------------------------
(* Text that hunks put in the document, or take out again, is text *)

\* A set of numbers has a lowest.
LEMMA LowestExists ==
  ASSUME NEW I \in SUBSET Nat, I # {}
  PROVE  Lowest(I) \in I /\ \A j \in I : Lowest(I) <= j
<1>1. IsWellFoundedOn(OpToRel(<, Nat), Nat)
  BY NatLessThanWellFounded
<1>2. PICK i \in I : \A j \in I : ~(<<j, i>> \in OpToRel(<, Nat))
  BY <1>1, WFMin
<1>3. \A j \in I : ~(j < i)
  BY <1>2 DEF OpToRel
<1>4. \A j \in I : i <= j
  BY <1>3
<1> QED BY <1>4 DEF Lowest

\* A set of bounded numbers has a highest.
LEMMA HighestExists ==
  ASSUME NEW n \in Nat, NEW I \in SUBSET (0 .. n), I # {}
  PROVE  Highest(I) \in I /\ \A j \in I : j <= Highest(I)
<1> DEFINE J == {m \in Nat : n - m \in I}
<1>1. J # {}
  <2>1. PICK i \in I : TRUE
    OBVIOUS
  <2>2. n - (n - i) = i /\ n - i \in Nat
    OBVIOUS
  <2> QED BY <2>1, <2>2
<1>2. Lowest(J) \in J /\ \A k \in J : Lowest(J) <= k
  BY <1>1, LowestExists
<1>3. \A j \in I : j <= n - Lowest(J)
  <2> TAKE j \in I
  <2>1. n - j \in Nat /\ n - (n - j) = j
    OBVIOUS
  <2>2. Lowest(J) <= n - j
    BY <1>2, <2>1
  <2> QED BY <1>2, <2>1, <2>2
<1>4. n - Lowest(J) \in I
  BY <1>2
<1> QED BY <1>3, <1>4 DEF Highest

\* Hunks applied to a document leave a document.
LEMMA TextAfterOK ==
  ASSUME NEW hs \in Seq(Hunk), NEW A \in SUBSET DOMAIN hs, NEW doc \in [Slots -> Values]
  PROVE  TextAfter(hs, A, doc) \in [Slots -> Values]
<1>1. \A s \in Slots : At(hs, A, s) # {} => hs[Highest(At(hs, A, s))].new \in Values
  <2> TAKE s \in Slots
  <2> HAVE At(hs, A, s) # {}
  <2> DEFINE I == At(hs, A, s)
  <2>1. Len(hs) \in Nat /\ I \in SUBSET (0 .. Len(hs)) /\ I \subseteq DOMAIN hs
    BY DEF At
  <2> HIDE DEF I
  <2>2. Highest(I) \in DOMAIN hs
    BY <2>1, HighestExists DEF I
  <2>3. hs[Highest(I)] \in Hunk
    BY <2>2
  <2> QED BY <2>3 DEF Hunk, I
<1> QED BY <1>1 DEF TextAfter

\* Hunks taken out of a document leave a document.
LEMMA TextBeforeOK ==
  ASSUME NEW hs \in Seq(Hunk), NEW A \in SUBSET DOMAIN hs, NEW doc \in [Slots -> Values]
  PROVE  TextBefore(hs, A, doc) \in [Slots -> Values]
<1>1. \A s \in Slots : At(hs, A, s) # {} => hs[Lowest(At(hs, A, s))].old \in Values
  <2> TAKE s \in Slots
  <2> HAVE At(hs, A, s) # {}
  <2> DEFINE I == At(hs, A, s)
  <2>1. I \in SUBSET Nat /\ I \subseteq DOMAIN hs
    BY DEF At
  <2> HIDE DEF I
  <2>2. Lowest(I) \in DOMAIN hs
    BY <2>1, LowestExists DEF I
  <2>3. hs[Lowest(I)] \in Hunk
    BY <2>2
  <2> QED BY <2>3 DEF Hunk, I
<1> QED BY <1>1 DEF TextBefore

-----------------------------------------------------------------------------
(* Every handler keeps IInv *)

\* The ledger after a step is well formed when the one the handler set is.
LEMMA SetOK ==
  ASSUME NEW L, LedgerOK(L), SetLedger(L)
  PROVE  LedgerOK(Ledger')
<1>1. L = [runs |-> L.runs, active |-> L.active, listed |-> L.listed]
  BY DEF LedgerOK, Ledgers
<1> QED BY <1>1 DEF SetLedger, Ledger

\* What the handlers read of the run they act on.
LEMMA TheRun ==
  ASSUME IInv, NEW r \in RunIds
  PROVE  /\ LedgerOK(Ledger) /\ Ledger.runs = runs /\ Ledger.active = active
         /\ RunOK(runs[r]) /\ runs[r] \in Run /\ runs[r].hunks \in Seq(Hunk)
         /\ runs[r].agent \in Agents /\ runs[r].approvals \in [HunkIx -> People \cup {None}]
         /\ runs[r].status \in {"none", "open", "applied", "rejected", "expired"}
BY DEF IInv, LedgerOK, Ledger, RunOK, Run

\* The stricter of two levels is a level, and `colleague` exactly when one of the two is.
LEMMA StricterOK ==
  ASSUME NEW a \in Levels, NEW b \in Levels
  PROVE  /\ Stricter(a, b) \in Levels
         /\ a = "colleague" \/ b = "colleague" <=> Stricter(a, b) = "colleague"
BY DEF Stricter, Rank, Levels

\* A hunk added to an open run leaves it well formed.
LEMMA WithHunkOK ==
  ASSUME NEW run, RunOK(run), run.status = "open", Len(run.hunks) + 1 \in HunkIx,
         NEW h \in Hunk, h.status \in {"pending", "auto_applied"}, NEW level \in Levels, h.review = level,
         NEW commit \in BOOLEAN
  PROVE  LET new == WithHunk(run, h, level, commit) IN
         /\ RunOK(new) /\ new.hunks = Append(run.hunks, h) /\ new.agent = run.agent /\ new.status = "open"
         /\ new.queued_behind = run.queued_behind /\ new.stacked_on = run.stacked_on /\ new.age = "new"
         /\ new.reverted = run.reverted /\ new.approvals = run.approvals
<1> DEFINE hs == Append(run.hunks, h)
           new == WithHunk(run, h, level, commit)
<1>1. run \in Run /\ run.hunks \in Seq(Hunk) /\ run.review_mode \in Levels
  BY DEF RunOK, Run
<1>2. /\ hs \in Seq(Hunk) /\ Len(hs) = Len(run.hunks) + 1
      /\ \A i \in DOMAIN run.hunks : hs[i] = run.hunks[i]
      /\ DOMAIN hs = DOMAIN run.hunks \cup {Len(run.hunks) + 1}
      /\ hs[Len(run.hunks) + 1] = h
  BY <1>1
<1>3. Len(hs) <= MaxHunks
  BY <1>1, <1>2, BoundsAssumption DEF HunkIx
<1>4. Stricter(run.review_mode, level) \in Levels
  BY <1>1, StricterOK
<1> HIDE DEF hs
<1>5. new \in Run
  BY <1>1, <1>2, <1>4 DEF Run, WithHunk, hs
<1>6. /\ new.hunks = hs /\ new.status = "open" /\ new.agent = run.agent
      /\ new.reverted = run.reverted /\ new.approvals = run.approvals
      /\ new.review_mode = Stricter(run.review_mode, level)
      /\ new.queued_behind = run.queued_behind /\ new.stacked_on = run.stacked_on /\ new.age = "new"
  BY <1>1 DEF Run, WithHunk, hs
<1> HIDE DEF new
<1>7. Signed(new)
  <2> SUFFICES ASSUME NEW i \in DOMAIN hs, hs[i].review = "colleague"
               PROVE  /\ new.review_mode = "colleague"
                      /\ hs[i].status = "accepted" => run.approvals[i] \in People \ {Reviewer[run.agent]}
    BY <1>6 DEF Signed
  <2>1. CASE i \in DOMAIN run.hunks
    BY <2>1, <1>1, <1>2, <1>6, StricterOK DEF RunOK, Signed
  <2>2. CASE i = Len(run.hunks) + 1
    BY <2>2, <1>1, <1>2, <1>6, StricterOK
  <2> QED BY <2>1, <2>2, <1>2
<1>8. Settled(new)
  BY <1>6 DEF RunOK, Settled
<1>9. RunOK(new)
  BY <1>3, <1>5, <1>6, <1>7, <1>8 DEF RunOK
<1> QED BY <1>6, <1>9 DEF new, hs

\* A run whose hunks were decided anew, one by one.
LEMMA DecidedOK ==
  ASSUME NEW run, RunOK(run), NEW new, new \in Run,
         new.agent = run.agent, new.review_mode = run.review_mode,
         DOMAIN new.hunks = DOMAIN run.hunks, Len(new.hunks) = Len(run.hunks),
         \A i \in DOMAIN run.hunks : new.hunks[i].review = run.hunks[i].review,
         \A i \in DOMAIN run.hunks :
           run.review_mode = "colleague" /\ new.hunks[i].status = "accepted" =>
             \/ new.approvals[i] \in People \ {Reviewer[run.agent]}
             \/ run.hunks[i].status = "accepted" /\ new.approvals[i] = run.approvals[i],
         Settled(new)
  PROVE  RunOK(new)
<1>1. Signed(new)
  BY DEF RunOK, Signed
<1> QED BY <1>1 DEF RunOK

\* Only an open run holds hunks that wait.
LEMMA NothingWaits ==
  ASSUME NEW run, RunOK(run), run.status # "open"
  PROVE  Pending(run) = {}
BY DEF RunOK, Settled

\* Writing the status of a hunk changes nothing else of it.
LEMMA HunkTurned ==
  ASSUME NEW h \in Hunk, NEW status \in HunkStatus
  PROVE  /\ [h EXCEPT !.status = status] \in Hunk
         /\ [h EXCEPT !.status = status].status = status
         /\ [h EXCEPT !.status = status].review = h.review
         /\ [h EXCEPT !.status = status].feedback = h.feedback
BY DEF Hunk

\* The run a handler decides on, as the handler leaves it before the queue closes up behind it.
RejectedRun(r, T) ==
  [runs[r] EXCEPT
     !.hunks = [i \in DOMAIN runs[r].hunks |->
                  IF i \in T THEN [runs[r].hunks[i] EXCEPT !.status = "rejected",
                                     !.feedback = [of |-> T, state |-> "open"]]
                  ELSE runs[r].hunks[i]],
     !.age = "new"]
AcceptedRun(r, T, A, by, itemLevel) ==
  LET run == runs[r]
      level == Stricter(run.review_mode, itemLevel)
  IN  [run EXCEPT !.hunks = [i \in DOMAIN run.hunks |-> AcceptedHunk(run, T, A, i)],
                  !.approvals = [i \in HunkIx |-> ApprovalOf(run, T, A, i, level, by)],
                  !.age = "new"]
RevertedRun(r, note) ==
  LET run == runs[r]
      told == LandedIn(run) \cup Pending(run)
  IN  [run EXCEPT
         !.hunks = [i \in DOMAIN run.hunks |->
                      [run.hunks[i] EXCEPT
                         !.status = IF i \in Pending(run) THEN "rejected" ELSE run.hunks[i].status,
                         !.feedback = IF note /\ i \in told THEN [of |-> told, state |-> "open"]
                                      ELSE run.hunks[i].feedback]],
         !.status = "expired", !.reverted = TRUE, !.acknowledged = TRUE, !.age = "new"]
UndoneRun(r, T) ==
  LET run == runs[r] IN
  [run EXCEPT
     !.hunks = [i \in DOMAIN run.hunks |->
                  IF i \in T THEN [run.hunks[i] EXCEPT !.status = "pending", !.feedback = NoFeedback]
                  ELSE run.hunks[i]],
     !.age = "new",
     !.approvals = [i \in HunkIx |-> IF i \in T THEN None ELSE run.approvals[i]],
     !.status = "open",
     !.queued_behind = IF run.status # "open" /\ AheadOf(Ledger, r) = NoRun THEN NoRun ELSE @]
AckedRun(r) ==
  [runs[r] EXCEPT
     !.acknowledged = TRUE,
     !.hunks = [i \in DOMAIN runs[r].hunks |->
                  [runs[r].hunks[i] EXCEPT
                     !.feedback.state = IF @ \in {"open", "stale"} THEN "answered" ELSE @]],
     !.age = "new"]

\* Hunks turned down, each with the note that says so.
LEMMA RejectedRunOK ==
  ASSUME IInv, NEW r \in RunIds, NEW T \in SUBSET Pending(runs[r]), Reject(r, T)
  PROVE  LET run == runs[r]
             new == RejectedRun(r, T)
         IN  /\ RunOK(new) /\ run.status # "none"
             /\ new.agent = run.agent /\ new.status = run.status /\ new.age = "new"
             /\ new.queued_behind = run.queued_behind /\ new.stacked_on = run.stacked_on
             /\ DOMAIN new.hunks = DOMAIN run.hunks
             /\ \A i \in DOMAIN run.hunks :
                  /\ new.hunks[i].status = "accepted" => run.hunks[i].status = "accepted"
                  /\ i \notin T => new.hunks[i] = run.hunks[i]
<1> DEFINE run == runs[r]
           turned == [i \in DOMAIN run.hunks |->
                        IF i \in T THEN [run.hunks[i] EXCEPT !.status = "rejected",
                                           !.feedback = [of |-> T, state |-> "open"]]
                        ELSE run.hunks[i]]
           new == [run EXCEPT !.hunks = turned, !.age = "new"]
<1>1. RunOK(run) /\ run \in Run /\ run.hunks \in Seq(Hunk) /\ LedgerOK(Ledger)
  BY TheRun
<1>2. T \in SUBSET HunkIx
  BY <1>1, BoundsAssumption DEF Pending, RunOK, HunkIx
<1>3. \A i \in DOMAIN run.hunks : /\ turned[i] \in Hunk
                                  /\ turned[i].review = run.hunks[i].review
                                  /\ turned[i].status = IF i \in T THEN "rejected" ELSE run.hunks[i].status
                                  /\ i \notin T => turned[i] = run.hunks[i]
  <2> TAKE i \in DOMAIN run.hunks
  <2> DEFINE note == [of |-> T, state |-> "open"]
  <2>1. run.hunks[i] \in Hunk /\ note \in Feedback /\ "rejected" \in HunkStatus
    BY <1>1, <1>2 DEF Feedback, HunkStatus
  <2>2. turned[i] = IF i \in T THEN [run.hunks[i] EXCEPT !.status = "rejected", !.feedback = note]
                    ELSE run.hunks[i]
    OBVIOUS
  <2> HIDE DEF turned, note
  <2> DEFINE h == [run.hunks[i] EXCEPT !.status = "rejected", !.feedback = note]
  <2>3. CASE i \in T
    <3>1. h \in Hunk /\ h.status = "rejected" /\ h.review = run.hunks[i].review
      BY <2>1 DEF Hunk
    <3>2. turned[i] = h
      BY <2>2, <2>3
    <3> QED BY <2>3, <3>1, <3>2
  <2>4. CASE i \notin T
    BY <2>1, <2>2, <2>4
  <2> QED BY <2>3, <2>4
<1>4. turned = [i \in DOMAIN run.hunks |-> turned[i]]
  OBVIOUS
<1> HIDE DEF turned
<1>5. turned \in Seq(Hunk) /\ Len(turned) = Len(run.hunks) /\ DOMAIN turned = DOMAIN run.hunks
  BY <1>1, <1>3, <1>4, Rewritten
<1>6. /\ new \in Run /\ new.hunks = turned /\ new.agent = run.agent /\ new.status = run.status
      /\ new.review_mode = run.review_mode /\ new.approvals = run.approvals /\ new.reverted = run.reverted
      /\ new.queued_behind = run.queued_behind /\ new.stacked_on = run.stacked_on /\ new.age = "new"
  BY <1>1, <1>5 DEF Run
<1>7. run.status # "none"
  BY DEF Reject, Someone, Deciders, May
<1> HIDE DEF new
<1>8. Settled(new)
  <2>1. CASE run.status = "open"
    BY <1>1, <1>6, <2>1 DEF RunOK, Settled
  <2>2. CASE run.status # "open"
    <3>1. T = {}
      BY <1>1, <1>7, <2>2, NothingWaits
    <3>2. Pending(new) = Pending(run) /\ LandedIn(new) = LandedIn(run)
      BY <1>3, <1>5, <1>6, <3>1 DEF Pending, LandedIn, Landed
    <3> QED BY <1>1, <1>6, <3>2 DEF RunOK, Settled
  <2> QED BY <2>1, <2>2
<1>9. RunOK(new)
  BY <1>1, <1>3, <1>5, <1>6, <1>8, DecidedOK
<1>10. new = RejectedRun(r, T)
  BY DEF new, turned, RejectedRun
<1>11. \A i \in DOMAIN run.hunks :
         /\ new.hunks[i].status = "accepted" => run.hunks[i].status = "accepted"
         /\ i \notin T => new.hunks[i] = run.hunks[i]
  BY <1>3, <1>6
<1> QED BY <1>5, <1>6, <1>7, <1>9, <1>10, <1>11

\* Reject keeps the invariant.
LEMMA RejectOK ==
  ASSUME IInv, NEW r \in RunIds, NEW T \in SUBSET Pending(runs[r]), Reject(r, T)
  PROVE  IInv'
<1> DEFINE L == [Ledger EXCEPT !.runs[r] = RejectedRun(r, T)]
<1>1. LedgerOK(L)
  BY RejectedRunOK, WrittenOK DEF IInv
<1>2. SetLedger(Settle(IF T = {} THEN L ELSE Noted(L, r), r)) /\ UNCHANGED <<text, minted>>
  BY DEF Reject, RejectedRun
<1> HIDE DEF L
<1>3. LedgerOK(IF T = {} THEN L ELSE Noted(L, r))
  BY <1>1, NotedOK
<1>4. LedgerOK(Settle(IF T = {} THEN L ELSE Noted(L, r), r))
  BY <1>3, SettleOK
<1>5. LedgerOK(Ledger')
  BY <1>2, <1>4, SetOK
<1> QED BY <1>2, <1>5 DEF IInv

\* Hunks taken, or found not to fit any more.
LEMMA AcceptedRunOK ==
  ASSUME IInv, NEW r \in RunIds, NEW T \in SUBSET Pending(runs[r]), NEW A \in SUBSET T,
         NEW by \in People, NEW itemLevel \in LevelsInUse, Accept(r, T, A, by, itemLevel)
  PROVE  LET run == runs[r]
             new == AcceptedRun(r, T, A, by, itemLevel)
         IN  /\ RunOK(new) /\ run.status # "none"
             /\ new.agent = run.agent /\ new.status = run.status /\ new.age = "new"
             /\ new.queued_behind = run.queued_behind /\ new.stacked_on = run.stacked_on
             /\ DOMAIN new.hunks = DOMAIN run.hunks
             /\ \A i \in DOMAIN run.hunks :
                  /\ new.hunks[i].feedback = run.hunks[i].feedback
                  /\ new.hunks[i].status = "accepted" => i \in A \/ run.hunks[i].status = "accepted"
<1> DEFINE run == runs[r]
           level == Stricter(run.review_mode, itemLevel)
           hs == [i \in DOMAIN run.hunks |-> AcceptedHunk(run, T, A, i)]
           approvals == [i \in HunkIx |-> ApprovalOf(run, T, A, i, level, by)]
           new == [run EXCEPT !.hunks = hs, !.approvals = approvals, !.age = "new"]
<1>1. /\ RunOK(run) /\ run \in Run /\ run.hunks \in Seq(Hunk) /\ LedgerOK(Ledger)
      /\ run.approvals \in [HunkIx -> People \cup {None}] /\ run.review_mode \in Levels
  BY TheRun DEF Run
<1>2. \A i \in DOMAIN run.hunks : /\ hs[i] \in Hunk
                                  /\ hs[i].review = run.hunks[i].review
                                  /\ hs[i].feedback = run.hunks[i].feedback
                                  /\ i \in A => hs[i].status = "accepted"
                                  /\ i \notin A /\ hs[i].status = "accepted" => run.hunks[i].status = "accepted"
                                  /\ T = {} => hs[i] = run.hunks[i]
                                  /\ i \notin T => hs[i] = run.hunks[i]
  <2> TAKE i \in DOMAIN run.hunks
  <2>1. run.hunks[i] \in Hunk /\ NoFeedback \in Feedback
    BY <1>1 DEF NoFeedback, Feedback
  <2>2. hs[i] = AcceptedHunk(run, T, A, i)
    OBVIOUS
  <2>3. CASE i \in A
    BY <2>1, <2>2, <2>3, HunkTurned DEF AcceptedHunk, HunkStatus
  <2>4. CASE i \in T \ A /\ ~Blocked(run, T, i)
    BY <2>1, <2>2, <2>4, HunkTurned DEF AcceptedHunk, HunkStatus
  <2>5. CASE i \notin A /\ ~(i \in T \ A /\ ~Blocked(run, T, i))
    BY <2>1, <2>2, <2>5 DEF AcceptedHunk
  <2> QED BY <2>3, <2>4, <2>5
<1>3. hs \in Seq(Hunk) /\ Len(hs) = Len(run.hunks) /\ DOMAIN hs = DOMAIN run.hunks
  <2>1. hs = [i \in DOMAIN run.hunks |-> hs[i]]
    OBVIOUS
  <2> HIDE DEF hs
  <2> QED BY <1>1, <1>2, <2>1, Rewritten
<1>4. approvals \in [HunkIx -> People \cup {None}]
  BY <1>1 DEF ApprovalOf
<1>5. DOMAIN run.hunks \subseteq HunkIx
  BY <1>1, BoundsAssumption DEF RunOK, HunkIx
<1>6. run.review_mode = "colleague" => level = "colleague" /\ by # Reviewer[run.agent]
  <2>1. itemLevel \in Levels /\ May("accept", r, by, itemLevel)
    BY InputAssumption DEF Accept
  <2>2. run.review_mode = "colleague" => level = "colleague"
    BY <1>1, <2>1, StricterOK
  <2> QED BY <2>1, <2>2 DEF May, Vouched, MayActOnRun, ActLevel
<1>7. \A i \in DOMAIN run.hunks :
        /\ i \in A /\ level = "colleague" => approvals[i] = by
        /\ i \notin T => approvals[i] = run.approvals[i]
  BY <1>5 DEF ApprovalOf
<1>8. T \subseteq DOMAIN run.hunks /\ \A i \in T : run.hunks[i].status = "pending"
  BY DEF Pending
<1> HIDE DEF hs, approvals
<1>9. /\ new \in Run /\ new.hunks = hs /\ new.approvals = approvals /\ new.agent = run.agent
      /\ new.status = run.status /\ new.review_mode = run.review_mode /\ new.reverted = run.reverted
      /\ new.queued_behind = run.queued_behind /\ new.stacked_on = run.stacked_on /\ new.age = "new"
  BY <1>1, <1>3, <1>4 DEF Run
<1>10. run.status # "none"
  BY DEF Accept, May
<1> HIDE DEF new, level
<1>11. Settled(new)
  <2>1. CASE run.status = "open"
    BY <1>1, <1>9, <2>1 DEF RunOK, Settled
  <2>2. CASE run.status # "open"
    <3>1. T = {}
      BY <1>1, <1>10, <2>2, NothingWaits
    <3>2. \A i \in DOMAIN run.hunks : hs[i] = run.hunks[i]
      BY <1>2, <3>1
    <3>3. Pending(new) = Pending(run) /\ LandedIn(new) = LandedIn(run)
      BY <1>3, <1>9, <3>2 DEF Pending, LandedIn
    <3> QED BY <1>1, <1>9, <3>3 DEF RunOK, Settled
  <2> QED BY <2>1, <2>2
<1>12. \A i \in DOMAIN run.hunks :
         run.review_mode = "colleague" /\ new.hunks[i].status = "accepted" =>
           \/ new.approvals[i] \in People \ {Reviewer[run.agent]}
           \/ run.hunks[i].status = "accepted" /\ new.approvals[i] = run.approvals[i]
  <2> SUFFICES ASSUME NEW i \in DOMAIN run.hunks, run.review_mode = "colleague", hs[i].status = "accepted"
               PROVE  \/ approvals[i] \in People \ {Reviewer[run.agent]}
                      \/ run.hunks[i].status = "accepted" /\ approvals[i] = run.approvals[i]
    BY <1>9
  <2>1. CASE i \in A
    BY <1>6, <1>7, <2>1
  <2>2. CASE i \notin A
    <3>1. run.hunks[i].status = "accepted"
      BY <1>2, <2>2
    <3>2. i \notin T
      BY <1>8, <3>1
    <3> QED BY <1>7, <3>1, <3>2
  <2> QED BY <2>1, <2>2
<1>13. RunOK(new)
  <2>1. \A i \in DOMAIN run.hunks : new.hunks[i].review = run.hunks[i].review
    BY <1>2, <1>9
  <2> HIDE DEF run
  <2> QED BY <1>1, <1>3, <1>9, <1>11, <1>12, <2>1, DecidedOK
<1>14. new = AcceptedRun(r, T, A, by, itemLevel)
  BY DEF new, hs, approvals, level, AcceptedRun
<1>15. \A i \in DOMAIN run.hunks :
         /\ new.hunks[i].feedback = run.hunks[i].feedback
         /\ new.hunks[i].status = "accepted" => i \in A \/ run.hunks[i].status = "accepted"
  BY <1>2, <1>9
<1> QED BY <1>3, <1>9, <1>10, <1>13, <1>14, <1>15

\* Accept keeps the invariant.
LEMMA AcceptOK ==
  ASSUME IInv, NEW r \in RunIds, NEW T \in SUBSET Pending(runs[r]), NEW A \in SUBSET T,
         NEW by \in People, NEW itemLevel \in LevelsInUse, Accept(r, T, A, by, itemLevel)
  PROVE  IInv'
<1> DEFINE L == [Ledger EXCEPT !.runs[r] = AcceptedRun(r, T, A, by, itemLevel)]
<1>1. LedgerOK(Settle(L, r))
  BY AcceptedRunOK, WrittenOK, SettleOK DEF IInv
<1>2. SetLedger(Settle(L, r)) /\ minted' = minted /\ text' = TextAfter(runs[r].hunks, A, text)
  BY DEF Accept, AcceptedRun
<1> HIDE DEF L
<1>3. LedgerOK(Ledger')
  BY <1>1, <1>2, SetOK
<1>4. text' \in [Slots -> Values]
  BY <1>2, TheRun, TextAfterOK DEF IInv, Pending
<1> QED BY <1>2, <1>3, <1>4 DEF IInv

\* What landed taken back out, what waits turned down.
LEMMA RevertedRunOK ==
  ASSUME IInv, NEW r \in RunIds, NEW note \in BOOLEAN, Revert(r, note)
  PROVE  LET run == runs[r]
             new == RevertedRun(r, note)
         IN  /\ RunOK(new) /\ run.status # "none"
             /\ new.agent = run.agent /\ new.status = "expired" /\ new.age = "new"
             /\ new.queued_behind = run.queued_behind /\ new.stacked_on = run.stacked_on
             /\ DOMAIN new.hunks = DOMAIN run.hunks
             /\ \A i \in DOMAIN run.hunks :
                  /\ ~note => new.hunks[i].feedback = run.hunks[i].feedback
                  /\ new.hunks[i].status = "accepted" => run.hunks[i].status = "accepted"
<1> DEFINE run == runs[r]
           told == LandedIn(run) \cup Pending(run)
           mark == [of |-> told, state |-> "open"]
           status(i) == IF i \in Pending(run) THEN "rejected" ELSE run.hunks[i].status
           feedback(i) == IF note /\ i \in told THEN mark ELSE run.hunks[i].feedback
           turned == [i \in DOMAIN run.hunks |->
                        [run.hunks[i] EXCEPT !.status = status(i), !.feedback = feedback(i)]]
           new == [run EXCEPT !.hunks = turned, !.status = "expired", !.reverted = TRUE,
                              !.acknowledged = TRUE, !.age = "new"]
<1>1. RunOK(run) /\ run \in Run /\ run.hunks \in Seq(Hunk) /\ LedgerOK(Ledger)
  BY TheRun
<1>2. told \in SUBSET HunkIx
  BY <1>1, BoundsAssumption DEF Pending, LandedIn, RunOK, HunkIx
<1>3. mark \in Feedback
  BY <1>2 DEF Feedback
<1>4. \A i \in DOMAIN run.hunks :
        /\ turned[i] \in Hunk
        /\ turned[i].review = run.hunks[i].review
        /\ turned[i].status = status(i)
        /\ turned[i].feedback = feedback(i)
  <2> TAKE i \in DOMAIN run.hunks
  <2>1. run.hunks[i] \in Hunk
    BY <1>1
  <2>2. status(i) \in HunkStatus /\ feedback(i) \in Feedback
    BY <1>3, <2>1 DEF Hunk, HunkStatus
  <2>3. turned[i] = [run.hunks[i] EXCEPT !.status = status(i), !.feedback = feedback(i)]
    OBVIOUS
  <2> HIDE DEF turned, status, feedback, mark
  <2> QED BY <2>1, <2>2, <2>3 DEF Hunk
<1>5. turned = [i \in DOMAIN run.hunks |-> turned[i]]
  OBVIOUS
<1>6. \A i \in DOMAIN run.hunks :
        /\ status(i) # "pending"
        /\ status(i) = "accepted" => run.hunks[i].status = "accepted"
        /\ ~note => feedback(i) = run.hunks[i].feedback
  BY DEF Pending
<1> HIDE DEF turned, status, feedback, mark
<1>7. turned \in Seq(Hunk) /\ Len(turned) = Len(run.hunks) /\ DOMAIN turned = DOMAIN run.hunks
  BY <1>1, <1>4, <1>5, Rewritten
<1>8. /\ new \in Run /\ new.hunks = turned /\ new.agent = run.agent /\ new.status = "expired"
      /\ new.review_mode = run.review_mode /\ new.approvals = run.approvals /\ new.reverted = TRUE
      /\ new.queued_behind = run.queued_behind /\ new.stacked_on = run.stacked_on /\ new.age = "new"
  BY <1>1, <1>7 DEF Run
<1> HIDE DEF new
<1>9. Settled(new)
  <2>1. Pending(new) = {}
    BY <1>4, <1>6, <1>7, <1>8 DEF Pending
  <2> QED BY <1>8, <2>1 DEF Settled
<1>10. \A i \in DOMAIN run.hunks :
         /\ new.hunks[i].review = run.hunks[i].review
         /\ new.hunks[i].status = "accepted" =>
               run.hunks[i].status = "accepted" /\ new.approvals[i] = run.approvals[i]
  BY <1>4, <1>6, <1>8
<1>11. RunOK(new)
  <2> HIDE DEF run
  <2> QED BY <1>1, <1>7, <1>8, <1>9, <1>10, DecidedOK
<1>12. new = RevertedRun(r, note)
  BY DEF new, turned, status, feedback, mark, RevertedRun
<1>13. \A i \in DOMAIN run.hunks :
         /\ ~note => new.hunks[i].feedback = run.hunks[i].feedback
         /\ new.hunks[i].status = "accepted" => run.hunks[i].status = "accepted"
  BY <1>4, <1>6, <1>8
<1>14. run.status # "none"
  BY DEF Revert, Someone, Deciders, May
<1> QED BY <1>7, <1>8, <1>11, <1>12, <1>13, <1>14

\* Revert keeps the invariant.
LEMMA RevertOK ==
  ASSUME IInv, NEW r \in RunIds, NEW note \in BOOLEAN, Revert(r, note)
  PROVE  IInv'
<1> DEFINE L == [Ledger EXCEPT !.runs[r] = RevertedRun(r, note)]
<1>1. LedgerOK(L)
  BY RevertedRunOK, WrittenOK DEF IInv
<1>2. SetLedger(Unlinked(IF note THEN Noted(L, r) ELSE L, r))
  BY DEF Revert, RevertedRun
<1>3. minted' = minted /\ text' = TextBefore(runs[r].hunks, LandedIn(runs[r]), text)
  BY DEF Revert
<1> HIDE DEF L
<1>4. LedgerOK(Unlinked(IF note THEN Noted(L, r) ELSE L, r))
  <2>1. LedgerOK(IF note THEN Noted(L, r) ELSE L)
    BY <1>1, NotedOK
  <2> QED BY <2>1, UnlinkedOK
<1>5. LedgerOK(Ledger')
  BY <1>2, <1>4, SetOK
<1>6. text' \in [Slots -> Values]
  BY <1>3, TheRun, TextBeforeOK DEF IInv, LandedIn
<1> QED BY <1>3, <1>5, <1>6 DEF IInv

\* Decisions taken back: the hunks wait again, and the run is open.
LEMMA UndoneRunOK ==
  ASSUME IInv, NEW r \in RunIds, NEW T \in SUBSET DOMAIN runs[r].hunks, Undo(r, T)
  PROVE  LET run == runs[r]
             new == UndoneRun(r, T)
         IN  /\ RunOK(new) /\ run.status # "none"
             /\ new.agent = run.agent /\ new.status = "open" /\ new.age = "new"
             /\ new.queued_behind = (IF run.status # "open" /\ AheadOf(Ledger, r) = NoRun THEN NoRun
                                     ELSE run.queued_behind)
             /\ new.stacked_on = run.stacked_on
             /\ DOMAIN new.hunks = DOMAIN run.hunks
             /\ \A i \in DOMAIN run.hunks :
                  /\ i \in T => new.hunks[i].status = "pending" /\ new.hunks[i].feedback = NoFeedback
                  /\ i \notin T => new.hunks[i] = run.hunks[i]
<1> DEFINE run == runs[r]
           reopens == run.status # "open"
           waiting == [i \in DOMAIN run.hunks |->
                         IF i \in T THEN [run.hunks[i] EXCEPT !.status = "pending", !.feedback = NoFeedback]
                         ELSE run.hunks[i]]
           approvals == [i \in HunkIx |-> IF i \in T THEN None ELSE run.approvals[i]]
           again == [run EXCEPT
                       !.hunks = waiting, !.age = "new", !.approvals = approvals, !.status = "open",
                       !.queued_behind = IF reopens /\ AheadOf(Ledger, r) = NoRun THEN NoRun ELSE @]
<1>1. /\ RunOK(run) /\ run \in Run /\ run.hunks \in Seq(Hunk) /\ LedgerOK(Ledger)
      /\ run.approvals \in [HunkIx -> People \cup {None}] /\ run.agent \in Agents
  BY TheRun
<1>2. \A i \in DOMAIN run.hunks :
        /\ waiting[i] \in Hunk
        /\ waiting[i].review = run.hunks[i].review
        /\ waiting[i].status = "accepted" => i \notin T /\ run.hunks[i].status = "accepted"
        /\ i \in T => waiting[i].status = "pending" /\ waiting[i].feedback = NoFeedback
        /\ i \notin T => waiting[i] = run.hunks[i]
  <2> TAKE i \in DOMAIN run.hunks
  <2>1. run.hunks[i] \in Hunk /\ NoFeedback \in Feedback
    BY <1>1 DEF NoFeedback, Feedback
  <2> QED BY <2>1 DEF Hunk, HunkStatus
<1>3. waiting \in Seq(Hunk) /\ Len(waiting) = Len(run.hunks) /\ DOMAIN waiting = DOMAIN run.hunks
  <2>1. waiting = [i \in DOMAIN run.hunks |-> waiting[i]]
    OBVIOUS
  <2> HIDE DEF waiting
  <2> QED BY <1>1, <1>2, <2>1, Rewritten
<1>4. approvals \in [HunkIx -> People \cup {None}]
  BY <1>1
<1>5. \A i \in DOMAIN run.hunks : i \notin T => approvals[i] = run.approvals[i]
  BY <1>1, BoundsAssumption DEF RunOK, HunkIx
<1> HIDE DEF waiting, approvals
<1>6. /\ again \in Run /\ again.hunks = waiting /\ again.approvals = approvals /\ again.agent = run.agent
      /\ again.status = "open" /\ again.review_mode = run.review_mode /\ again.reverted = run.reverted
      /\ again.queued_behind = (IF reopens /\ AheadOf(Ledger, r) = NoRun THEN NoRun ELSE run.queued_behind)
      /\ again.stacked_on = run.stacked_on /\ again.age = "new"
  BY <1>1, <1>3, <1>4 DEF Run
<1>7. ~run.reverted
  BY DEF Undo
<1> HIDE DEF again
<1>8. Settled(again)
  BY <1>6, <1>7 DEF Settled
<1>9. \A i \in DOMAIN run.hunks :
        /\ again.hunks[i].review = run.hunks[i].review
        /\ again.hunks[i].status = "accepted" =>
             run.hunks[i].status = "accepted" /\ again.approvals[i] = run.approvals[i]
  BY <1>2, <1>5, <1>6
<1>10. RunOK(again)
  <2> HIDE DEF run
  <2> QED BY <1>1, <1>3, <1>6, <1>8, <1>9, DecidedOK
<1>11. again = UndoneRun(r, T)
  BY DEF again, waiting, approvals, UndoneRun
<1>12. \A i \in DOMAIN run.hunks :
         /\ i \in T => again.hunks[i].status = "pending" /\ again.hunks[i].feedback = NoFeedback
         /\ i \notin T => again.hunks[i] = run.hunks[i]
  BY <1>2, <1>6
<1>13. run.status # "none"
  BY DEF Undo, Someone, Deciders, May
<1> QED BY <1>3, <1>6, <1>10, <1>11, <1>12, <1>13

\* The ledger an undo writes, before the list of notes is pruned.
UndoneLedger(r, T) ==
  [Ledger EXCEPT !.runs[r] = UndoneRun(r, T),
                 !.active[runs[r].agent] = IF runs[r].status # "open" THEN r ELSE @]

\* The ledger Undo leaves is well formed.
LEMMA UndoneLedgerOK ==
  ASSUME IInv, NEW r \in RunIds, NEW T \in SUBSET DOMAIN runs[r].hunks, Undo(r, T)
  PROVE  /\ LedgerOK(UndoneLedger(r, T))
         /\ UndoneLedger(r, T).runs = [runs EXCEPT ![r] = UndoneRun(r, T)]
         /\ UndoneLedger(r, T).active =
              [active EXCEPT ![runs[r].agent] = IF runs[r].status # "open" THEN r ELSE active[runs[r].agent]]
         /\ UndoneLedger(r, T).listed = listed
<1> DEFINE again == UndoneRun(r, T)
           K == [Ledger EXCEPT !.runs[r] = again]
           L == UndoneLedger(r, T)
<1>1. LedgerOK(Ledger) /\ RunOK(again) /\ runs[r].agent \in Agents
  BY TheRun, UndoneRunOK
<1>2. again \in Run
  BY <1>1 DEF RunOK
<1>3. active \in [Agents -> RunIds \cup {NoRun}]
  BY <1>1 DEF LedgerOK, Ledgers, Ledger
<1> HIDE DEF again
<1>4. LedgerOK(K)
  BY <1>1, WrittenOK
<1>5. L = [K EXCEPT !.active[runs[r].agent] = IF runs[r].status # "open" THEN r ELSE active[runs[r].agent]]
  BY DEF Ledger, UndoneLedger, again
<1>6. K.runs = [runs EXCEPT ![r] = again] /\ K.active = active /\ K.listed = listed
  BY DEF Ledger
<1> HIDE DEF K, L
<1>7. L \in Ledgers /\ L.runs = K.runs /\ L.listed = K.listed
      /\ L.active = [active EXCEPT ![runs[r].agent] = IF runs[r].status # "open" THEN r ELSE active[runs[r].agent]]
  BY <1>1, <1>3, <1>4, <1>5, <1>6 DEF LedgerOK, Ledgers
<1>8. LedgerOK(L)
  BY <1>4, <1>7 DEF LedgerOK
<1> QED BY <1>6, <1>7, <1>8 DEF L, again

\* Undo keeps the invariant.
LEMMA UndoOK ==
  ASSUME IInv, NEW r \in RunIds, NEW T \in SUBSET DOMAIN runs[r].hunks, Undo(r, T)
  PROVE  IInv'
<1> DEFINE L == UndoneLedger(r, T)
           back == {i \in T : runs[r].hunks[i].status = "accepted"}
<1>1. LedgerOK(L)
  BY UndoneLedgerOK
<1>2. /\ minted' = minted /\ text' = TextBefore(runs[r].hunks, back, text)
      /\ SetLedger(L) \/ SetLedger(Unlisted(L, r))
  BY DEF Undo, UndoneLedger, UndoneRun
<1> HIDE DEF L
<1>3. LedgerOK(Ledger')
  BY <1>1, <1>2, NotedOK, SetOK
<1>4. text' \in [Slots -> Values]
  BY <1>2, TheRun, TextBeforeOK DEF IInv
<1> QED BY <1>2, <1>3, <1>4 DEF IInv

\* A run marked as reviewed, and what was asked for on it withdrawn.
LEMMA AckedRunOK ==
  ASSUME IInv, NEW r \in RunIds, Ack(r)
  PROVE  LET run == runs[r]
             new == AckedRun(r)
         IN  /\ RunOK(new) /\ run.status # "none"
             /\ new.agent = run.agent /\ new.status = run.status /\ new.age = "new"
             /\ new.queued_behind = run.queued_behind /\ new.stacked_on = run.stacked_on
             /\ DOMAIN new.hunks = DOMAIN run.hunks
             /\ \A i \in DOMAIN run.hunks : /\ new.hunks[i].status = run.hunks[i].status
                                            /\ new.hunks[i].feedback.state # "open"
<1> DEFINE run == runs[r]
           read == [i \in DOMAIN run.hunks |->
                      [run.hunks[i] EXCEPT
                         !.feedback.state = IF @ \in {"open", "stale"} THEN "answered" ELSE @]]
           new == [run EXCEPT !.acknowledged = TRUE, !.hunks = read, !.age = "new"]
<1>1. RunOK(run) /\ run \in Run /\ run.hunks \in Seq(Hunk) /\ LedgerOK(Ledger)
  BY TheRun
<1>2. \A i \in DOMAIN run.hunks :
        /\ read[i] \in Hunk
        /\ read[i].status = run.hunks[i].status
        /\ read[i].review = run.hunks[i].review
        /\ read[i].feedback.state # "open"
  <2> TAKE i \in DOMAIN run.hunks
  <2>1. run.hunks[i] \in Hunk
    BY <1>1
  <2> QED BY <2>1 DEF Hunk, Feedback
<1>3. read \in Seq(Hunk) /\ Len(read) = Len(run.hunks) /\ DOMAIN read = DOMAIN run.hunks
  <2>1. read = [i \in DOMAIN run.hunks |-> read[i]]
    OBVIOUS
  <2> HIDE DEF read
  <2> QED BY <1>1, <1>2, <2>1, Rewritten
<1> HIDE DEF read
<1>4. /\ new \in Run /\ new.hunks = read /\ new.agent = run.agent /\ new.status = run.status
      /\ new.review_mode = run.review_mode /\ new.approvals = run.approvals /\ new.reverted = run.reverted
      /\ new.queued_behind = run.queued_behind /\ new.stacked_on = run.stacked_on /\ new.age = "new"
  BY <1>1, <1>3 DEF Run
<1> HIDE DEF new
<1>5. RunOK(new)
  <2> HIDE DEF run
  <2> QED BY <1>1, <1>2, <1>3, <1>4, NotesChangedOK
<1>6. new = AckedRun(r)
  BY DEF new, read, AckedRun
<1>7. run.status # "none"
  BY DEF Ack, Someone, Deciders, May
<1> QED BY <1>2, <1>3, <1>4, <1>5, <1>6, <1>7

\* Ack keeps the invariant.
LEMMA AckOK ==
  ASSUME IInv, NEW r \in RunIds, Ack(r)
  PROVE  IInv'
<1> DEFINE L == [Ledger EXCEPT !.runs[r] = AckedRun(r)]
<1>1. LedgerOK(L)
  BY AckedRunOK, WrittenOK DEF IInv
<1>2. /\ UNCHANGED <<text, minted>>
      /\ SetLedger(L) \/ SetLedger(Unlisted(L, r))
  BY DEF Ack, AckedRun
<1> HIDE DEF L
<1>3. LedgerOK(Ledger')
  BY <1>1, <1>2, NotedOK, SetOK
<1> QED BY <1>2, <1>3 DEF IInv

\* The run a proposal lands in is open, whether it was or the proposal opened it.
LEMMA ProposeIntoOK ==
  ASSUME IInv, NEW a \in Agents, NEW c \in Changes, NEW level \in Levels, NEW id \in RunIds,
         id = IF OpenRunFor(Ledger, a, c) = NoRun THEN minted + 1 ELSE OpenRunFor(Ledger, a, c)
  PROVE  LET M == ProposeInto(Prepared(Ledger, a, c), a, c, level)
         IN  LedgerOK(M) /\ M.runs[id].status = "open"
<1> DEFINE L == Prepared(Ledger, a, c)
           waiting == Waiting(L, a)
           ahead == IF waiting = {} THEN NoRun ELSE Highest(waiting)
           run == NewRun(a, level, c, ahead, waiting)
<1>1. LedgerOK(Ledger) /\ LedgerOK(L)
  BY PreparedOK DEF IInv
<1>2. CASE OpenRunFor(Ledger, a, c) # NoRun
  <2>1. GoesOn(Ledger, a, c) /\ id = active[a]
    BY <1>2 DEF OpenRunFor, Ledger
  <2>2. L = Ledger
    BY <2>1 DEF Prepared, GoesOn
  <2>3. ProposeInto(L, a, c, level) = Ledger
    BY <1>2, <2>2 DEF ProposeInto
  <2>4. Ledger.runs[id].status = "open"
    BY <2>1 DEF GoesOn, IsOpen, Ledger
  <2> QED BY <1>1, <2>3, <2>4
<1>3. CASE OpenRunFor(Ledger, a, c) = NoRun
  <2>1. waiting \in SUBSET RunIds
    BY DEF Waiting, Kept
  <2>2. ahead \in RunIds \cup {NoRun}
    <3> HIDE DEF waiting
    <3>1. waiting \in SUBSET (0 .. MaxRuns) /\ MaxRuns \in Nat
      BY <2>1, BoundsAssumption DEF RunIds
    <3>2. waiting # {} => Highest(waiting) \in waiting
      BY <3>1, HighestExists
    <3> QED BY <2>1, <3>2
  <2> HIDE DEF waiting, ahead
  <2>3. RunOK(run) /\ run.status = "open"
    BY <2>1, <2>2, NewRunOK DEF NewRun
  <2> HIDE DEF run, L
  <2>4. LedgerOK(Tracked(L, id, run)) /\ Tracked(L, id, run).runs[id] = run
    BY <1>1, <2>3, TrackedOK
  <2>5. ProposeInto(L, a, c, level) = Tracked(L, id, run)
    BY <1>3 DEF ProposeInto, run, ahead, waiting
  <2> QED BY <2>3, <2>4, <2>5 DEF L
<1> QED BY <1>2, <1>3

\* The run a proposal adds its hunk to, and whether it lands at once.
ProposalRun(a, c) == IF OpenRunFor(Ledger, a, c) = NoRun THEN minted + 1 ELSE OpenRunFor(Ledger, a, c)
LandsAtOnce(a, c, level) == level = "auto" /\ Waiting(Prepared(Ledger, a, c), a) = {}

\* What a proposal writes before the agent's notes are answered: the hunk h, in the run it lands in,
\* which leaves the ledger N.
Writes(a, c, level, s, answers, h, N) ==
  LET id == ProposalRun(a, c)
      commit == LandsAtOnce(a, c, level)
      M == ProposeInto(Prepared(Ledger, a, c), a, c, level)
      new == WithHunk(M.runs[id], h, level, commit)
  IN  /\ h.status = (IF commit THEN "auto_applied" ELSE "pending") /\ h.feedback = NoFeedback
      /\ h.slot = s /\ h.review = level /\ h.new \in {Gone, <<id, Len(M.runs[id].hunks) + 1>>}
      /\ commit => h.old = text[s]
      /\ new.reverted = M.runs[id].reverted /\ new.approvals = M.runs[id].approvals
      /\ RunOK(new) /\ new.hunks = Append(M.runs[id].hunks, h)
      /\ new.agent = M.runs[id].agent /\ new.status = "open" /\ new.age = "new"
      /\ new.queued_behind = M.runs[id].queued_behind /\ new.stacked_on = M.runs[id].stacked_on
      /\ LedgerOK(N) /\ N.runs = [M.runs EXCEPT ![id] = new]
      /\ N.active = M.active /\ N.listed = M.listed
      /\ SetLedger(Scanned(N, a, answers))
      /\ text' = IF commit THEN [text EXCEPT ![s] = h.new] ELSE text

\* What Propose writes: one hunk, in a run that takes it.
LEMMA ProposedOK ==
  ASSUME IInv, NEW a \in Agents, NEW c \in Changes, NEW level \in LevelsInUse, NEW s \in Slots,
         NEW delete \in Deletes, NEW answers, Propose(a, c, level, s, delete, answers)
  PROVE  LET id == ProposalRun(a, c)
             M == ProposeInto(Prepared(Ledger, a, c), a, c, level)
         IN  /\ id \in RunIds /\ LedgerOK(M) /\ M.runs[id].status = "open"
             /\ minted' = (IF OpenRunFor(Ledger, a, c) = NoRun THEN minted + 1 ELSE minted)
             /\ minted' \in 0 .. MaxRuns
             /\ \E h \in Hunk : \E N : Writes(a, c, level, s, answers, h, N)
<1> DEFINE L == Prepared(Ledger, a, c)
           open == OpenRunFor(Ledger, a, c)
           id == ProposalRun(a, c)
           old == Working(L, a)[s]
           commit == LandsAtOnce(a, c, level)
           M == ProposeInto(L, a, c, level)
           i == Len(M.runs[id].hunks) + 1
           h == Proposed(id, i, s, old, delete, level, IF commit THEN "auto_applied" ELSE "pending")
           N == [M EXCEPT !.runs[id] = WithHunk(@, h, level, commit)]
<1>1. /\ open = NoRun => minted < MaxRuns
      /\ id \in RunIds /\ i \in HunkIx /\ old \in Values
      /\ SetLedger(Scanned(N, a, answers))
      /\ text' = IF commit THEN [text EXCEPT ![s] = h.new] ELSE text
      /\ minted' = IF open = NoRun THEN minted + 1 ELSE minted
  BY DEF Propose, ProposalRun, LandsAtOnce
<1>2. level \in Levels
  BY InputAssumption
<1>3. LedgerOK(M) /\ M.runs[id].status = "open"
  <2>1. id = IF OpenRunFor(Ledger, a, c) = NoRun THEN minted + 1 ELSE OpenRunFor(Ledger, a, c)
    BY DEF ProposalRun
  <2> HIDE DEF id
  <2> QED BY <1>1, <1>2, <2>1, ProposeIntoOK
<1>4. minted' \in 0 .. MaxRuns
  BY <1>1, BoundsAssumption DEF IInv
<1>5. commit => old = text[s]
  BY DEF LandsAtOnce, Working
<1> HIDE DEF id, L, old, commit, M, open
<1>6. /\ h \in Hunk /\ h.review = level /\ h.status \in {"pending", "auto_applied"}
      /\ h.status = (IF commit THEN "auto_applied" ELSE "pending") /\ h.feedback = NoFeedback
      /\ h.slot = s /\ h.new \in {Gone, <<id, i>>} /\ h.old = old
  <2>1. (IF delete THEN Gone ELSE <<id, i>>) \in Values
    BY <1>1 DEF Values
  <2>2. NoFeedback \in Feedback
    BY DEF NoFeedback, Feedback
  <2> HIDE DEF i
  <2> QED BY <1>1, <1>2, <2>1, <2>2 DEF Proposed, Hunk, HunkStatus
<1>7. commit \in BOOLEAN
  BY DEF commit, LandsAtOnce
<1>8. RunOK(M.runs[id]) /\ M.runs \in [RunIds -> Run]
  BY <1>1, <1>3, LedgerParts DEF LedgerOK
<1> HIDE DEF h
<1> DEFINE new == WithHunk(M.runs[id], h, level, commit)
<1>9. /\ RunOK(new) /\ new.hunks = Append(M.runs[id].hunks, h)
      /\ new.agent = M.runs[id].agent /\ new.status = "open" /\ new.age = "new"
      /\ new.queued_behind = M.runs[id].queued_behind /\ new.stacked_on = M.runs[id].stacked_on
      /\ new.reverted = M.runs[id].reverted /\ new.approvals = M.runs[id].approvals
  BY <1>1, <1>2, <1>3, <1>6, <1>7, <1>8, WithHunkOK
<1>10. LedgerOK(N) /\ N.runs = [M.runs EXCEPT ![id] = new] /\ N.active = M.active /\ N.listed = M.listed
  <2>1. N = [M EXCEPT !.runs[id] = new]
    BY <1>1, <1>3 DEF LedgerOK, Ledgers
  <2> HIDE DEF new, N
  <2>2. LedgerOK(N)
    BY <1>1, <1>3, <1>9, <2>1, WrittenOK
  <2> QED BY <1>3, <2>1, <2>2 DEF LedgerOK, Ledgers
<1>11. i = Len(M.runs[id].hunks) + 1
  OBVIOUS
<1> HIDE DEF N, i
<1>12. Writes(a, c, level, s, answers, h, N)
  BY <1>1, <1>6, <1>9, <1>10, <1>5, <1>11 DEF Writes, id, L, commit, M
<1> QED BY <1>1, <1>3, <1>4, <1>6, <1>12 DEF id, L, M, open

\* Propose keeps the invariant.
LEMMA ProposeOK ==
  ASSUME IInv, NEW a \in Agents, NEW c \in Changes, NEW level \in LevelsInUse, NEW s \in Slots,
         NEW delete \in Deletes, NEW answers, Propose(a, c, level, s, delete, answers)
  PROVE  IInv'
<1>1. PICK h \in Hunk : \E N : Writes(a, c, level, s, answers, h, N)
  BY ProposedOK
<1>2. PICK N : Writes(a, c, level, s, answers, h, N)
  BY <1>1
<1>3. LedgerOK(Ledger')
  BY <1>2, ScannedOK, SetOK DEF Writes
<1>4. text' \in [Slots -> Values]
  BY <1>2 DEF IInv, Hunk, Writes
<1>5. minted' \in 0 .. MaxRuns
  BY ProposedOK
<1> QED BY <1>3, <1>4, <1>5 DEF IInv

\* Rolling a run over keeps the invariant.
LEMMA ProposeNothingOK ==
  ASSUME IInv, NEW a \in Agents, NEW c \in Changes, ProposeNothing(a, c)
  PROVE  IInv'
<1>1. LedgerOK(Prepared(Ledger, a, c))
  BY PreparedOK DEF IInv
<1>2. LedgerOK(Ledger')
  BY <1>1, SetOK DEF ProposeNothing
<1> QED BY <1>2 DEF IInv, ProposeNothing

\* A read by the agent keeps the invariant.
LEMMA ReadBackOK ==
  ASSUME IInv, NEW a \in Agents, ReadBack(a)
  PROVE  IInv'
<1> DEFINE L == IF active[a] # NoRun /\ ~IsOpen(Ledger, active[a])
                THEN [Ledger EXCEPT !.active[a] = NoRun] ELSE Ledger
<1>1. LedgerOK(L)
  <2>1. LedgerOK(Ledger)
    BY DEF IInv
  <2>2. [Ledger EXCEPT !.active[a] = NoRun] \in Ledgers /\ [Ledger EXCEPT !.active[a] = NoRun].runs = Ledger.runs
    BY <2>1 DEF LedgerOK, Ledgers, Ledger
  <2> QED BY <2>1, <2>2 DEF LedgerOK
<1>2. SetLedger(Scanned(L, a, {})) /\ UNCHANGED <<text, minted>>
  BY DEF ReadBack
<1>3. LedgerOK(Ledger')
  BY <1>1, <1>2, ScannedOK, SetOK
<1> QED BY <1>2, <1>3 DEF IInv

\* A step that only ages a run, or a note in it.
LEMMA AgedOK ==
  ASSUME IInv, NEW r \in RunIds, NEW run, RunOK(run), runs' = [runs EXCEPT ![r] = run],
         UNCHANGED <<text, active, listed, minted>>
  PROVE  IInv'
<1>1. LedgerOK([Ledger EXCEPT !.runs[r] = run])
  BY WrittenOK DEF IInv
<1>2. SetLedger([Ledger EXCEPT !.runs[r] = run])
  BY DEF SetLedger, Ledger
<1>3. LedgerOK(Ledger')
  BY <1>1, <1>2, SetOK
<1> QED BY <1>3 DEF IInv

\* The clock keeps the invariant.
LEMMA ClockOK ==
  ASSUME IInv, NEW r \in RunIds,
         GoesIdle(r) \/ GoesOld(r) \/ \E i \in DOMAIN runs[r].hunks : FeedbackAges(r, i)
  PROVE  IInv'
<1>1. RunOK(runs[r]) /\ runs[r] \in Run /\ runs[r].hunks \in Seq(Hunk) /\ runs \in [RunIds -> Run]
  BY TheRun, LedgerParts
<1>2. ASSUME NEW age \in {"idle", "old"}, runs' = [runs EXCEPT ![r].age = age],
             UNCHANGED <<text, active, listed, minted>>
      PROVE  IInv'
  <2> DEFINE run == [runs[r] EXCEPT !.age = age]
  <2>1. RunOK(run)
    BY <1>1, NotesChangedOK DEF Run
  <2>2. runs' = [runs EXCEPT ![r] = run]
    BY <1>1, <1>2
  <2> HIDE DEF run
  <2> QED BY <1>2, <2>1, <2>2, AgedOK
<1>3. ASSUME NEW i \in DOMAIN runs[r].hunks, FeedbackAges(r, i)
      PROVE  IInv'
  <2> DEFINE hs == [j \in DOMAIN runs[r].hunks |->
                      IF runs[r].hunks[j].feedback = runs[r].hunks[i].feedback
                      THEN [runs[r].hunks[j] EXCEPT !.feedback.state = "stale"] ELSE runs[r].hunks[j]]
             run == [runs[r] EXCEPT !.hunks = hs]
  <2>1. \A j \in DOMAIN runs[r].hunks :
          /\ hs[j] \in Hunk
          /\ hs[j].status = runs[r].hunks[j].status
          /\ hs[j].review = runs[r].hunks[j].review
    <3> TAKE j \in DOMAIN runs[r].hunks
    <3>1. runs[r].hunks[j] \in Hunk
      BY <1>1
    <3> QED BY <3>1 DEF Hunk, Feedback
  <2>2. hs = [j \in DOMAIN runs[r].hunks |-> hs[j]]
    OBVIOUS
  <2>3. runs' = [runs EXCEPT ![r] = run] /\ UNCHANGED <<text, active, listed, minted>>
    BY <1>1, <1>3 DEF FeedbackAges
  <2> HIDE DEF hs
  <2>4. hs \in Seq(Hunk) /\ Len(hs) = Len(runs[r].hunks) /\ DOMAIN hs = DOMAIN runs[r].hunks
    BY <1>1, <2>1, <2>2, Rewritten
  <2>5. /\ run \in Run /\ run.hunks = hs /\ run.agent = runs[r].agent /\ run.status = runs[r].status
        /\ run.review_mode = runs[r].review_mode /\ run.approvals = runs[r].approvals
        /\ run.reverted = runs[r].reverted
    BY <1>1, <2>4 DEF Run
  <2> HIDE DEF run
  <2>6. RunOK(run)
    BY <1>1, <2>1, <2>4, <2>5, NotesChangedOK
  <2> QED BY <2>3, <2>6, AgedOK
<1>4. CASE GoesIdle(r)
  BY <1>2, <1>4 DEF GoesIdle
<1>5. CASE GoesOld(r)
  BY <1>2, <1>5 DEF GoesOld
<1> QED BY <1>3, <1>4, <1>5

\* A person's writing keeps the invariant.
LEMMA PersonEditsOK ==
  ASSUME IInv, NEW s \in Slots, NEW v \in Typed, PersonEdits(s, v)
  PROVE  IInv'
<1>1. v \in Values
  BY InputAssumption DEF Values
<1>2. text' \in [Slots -> Values]
  BY <1>1 DEF IInv, PersonEdits
<1> QED BY <1>2 DEF IInv, PersonEdits, Ledger

-----------------------------------------------------------------------------
(* The invariant, and what follows from it *)

\* A ledger that was never written is well formed.
LEMMA InitOK == Init => IInv
<1> SUFFICES ASSUME Init PROVE IInv
  OBVIOUS
<1>1. text \in [Slots -> Values]
  BY DEF Init, Values
<1>2. Ledger \in Ledgers /\ \A r \in RunIds : Ledger.runs[r] = Blank
  BY BlankOK DEF Init, Ledger, Ledgers, RunOK
<1>3. LedgerOK(Ledger)
  BY <1>2, BlankOK DEF LedgerOK
<1>4. minted \in 0 .. MaxRuns
  BY BoundsAssumption DEF Init
<1> QED BY <1>1, <1>3, <1>4 DEF IInv

\* The invariant is inductive.
LEMMA StepOK == IInv /\ [Next]_vars => IInv'
<1> SUFFICES ASSUME IInv, [Next]_vars PROVE IInv'
  OBVIOUS
<1>1. ASSUME NEW a \in Agents, NEW c \in Changes, NEW level \in LevelsInUse, NEW s \in Slots,
             NEW delete \in Deletes, NEW answers \in SUBSET NotesFor(a),
             Propose(a, c, level, s, delete, answers)
      PROVE  IInv'
  BY <1>1, ProposeOK
<1>2. ASSUME NEW a \in Agents, NEW c \in Changes, ProposeNothing(a, c) PROVE IInv'
  BY <1>2, ProposeNothingOK
<1>3. ASSUME NEW a \in Agents, ReadBack(a) PROVE IInv'
  BY <1>3, ReadBackOK
<1>4. ASSUME NEW r \in RunIds, NEW T \in SUBSET Pending(runs[r]), Reject(r, T) PROVE IInv'
  BY <1>4, RejectOK
<1>5. ASSUME NEW r \in RunIds, NEW T \in SUBSET Pending(runs[r]), NEW A \in SUBSET T,
             NEW by \in People, NEW itemLevel \in LevelsInUse, Accept(r, T, A, by, itemLevel)
      PROVE  IInv'
  BY <1>5, AcceptOK
<1>6. ASSUME NEW r \in RunIds, NEW note \in BOOLEAN, Revert(r, note) PROVE IInv'
  BY <1>6, RevertOK
<1>7. ASSUME NEW r \in RunIds, NEW T \in SUBSET DOMAIN runs[r].hunks, Undo(r, T) PROVE IInv'
  BY <1>7, UndoOK
<1>8. ASSUME NEW r \in RunIds, Ack(r) PROVE IInv'
  BY <1>8, AckOK
<1>9. ASSUME NEW r \in RunIds,
             GoesIdle(r) \/ GoesOld(r) \/ \E i \in DOMAIN runs[r].hunks : FeedbackAges(r, i)
      PROVE  IInv'
  BY <1>9, ClockOK
<1>10. ASSUME NEW s \in Slots, NEW v \in Typed, PersonEdits(s, v) PROVE IInv'
  BY <1>10, PersonEditsOK
<1>11. CASE UNCHANGED vars
  BY <1>11 DEF vars, IInv, Ledger
<1> QED BY <1>1, <1>2, <1>3, <1>4, <1>5, <1>6, <1>7, <1>8, <1>9, <1>10, <1>11 DEF Next

\* The ledger of every document, whatever was proposed to it and decided on it, is well-formed,
\* and each of its runs is signed and settled (the handlers of routes.ts, together).
THEOREM LedgerInvariant == Spec => []IInv
BY InitOK, StepOK, PTL DEF Spec

\* Every state holds runs, hunks, queue positions, pointers and feedback lists of the right kind.
THEOREM TypeCorrect == Spec => []TypeOK
<1>1. IInv => TypeOK
  BY DEF IInv, TypeOK, LedgerOK, Ledgers, Ledger, RunOK
<1> QED BY <1>1, LedgerInvariant, PTL

\* For any people, agents and levels: a hunk proposed at `colleague` that stands accepted was let
\* in by a named person who is not the one its agent works for (mayActOnRun, handleRunDecide).
THEOREM NobodyApprovesTheirOwn == Spec => []ColleagueSigned
<1>1. IInv => ColleagueSigned
  BY DEF IInv, ColleagueSigned, LedgerOK, Ledger, RunOK, Signed
<1> QED BY <1>1, LedgerInvariant, PTL

\* For any number of runs and hunks: a closed run holds nothing that waits, and its status says
\* whether anything of it landed (closedStatus, close, handleRunRevert, handleRunUndo).
THEOREM ClosedRunsAreDecided == Spec => []StatusTruth
<1>1. IInv => StatusTruth
  BY DEF IInv, StatusTruth, LedgerOK, Ledger, RunOK, Settled
<1> QED BY <1>1, LedgerInvariant, PTL
=============================================================================
