-------------------------- MODULE HeldPagesProofs --------------------------
(* Proofs about held pages, for any number of requests at once, runs, items *)
(* and faults.  Most steps of a request only read: they change nothing but  *)
(* the request.  One lemma covers those; the others are taken one by one.   *)
EXTENDS HeldPages, TLAPS, WellFoundedInduction

\* Where a request stands that has released the page, up to its event.
Releasing == {"grants", "access", "announce"}

\* What is true of the page and of what happened, given where a request stands and what it read:
\* it goes on releasing only a page that is released and unannounced, whose grants nobody but
\* its owner touched; it read a status only after a person made it.
Good(call) ==
  /\ call.at \in Releasing => row = "released" /\ feed = 0
  /\ call.at = "trash" => row = "removed"
  /\ call.at \in {"sharing", "shared"} => "shared" \in met
  /\ "accepted" \in call.got => "approved" \in met
  /\ "rejected" \in call.got => "declined" \in met
  /\ call.at \in {"grants", "access"} => "shared" \in met \/ doc.own = {"approver"}
  /\ call.at = "access" => "shared" \in met \/ call.fresh.own = {"approver"}
  /\ call.at = "announce" => "shared" \in met \/ (doc.inherits /\ doc.own = {"release"})

Types ==
  /\ TypeOK
  /\ calls \in [Calls -> Call \cup {Idle}]

Requests == \A c \in Calls : calls[c] # Idle => Good(calls[c])

\* One request at most releases the page.
Alone ==
  \A c, d \in Calls :
    /\ calls[c] # Idle /\ calls[c].at \in Releasing
    /\ calls[d] # Idle /\ calls[d].at \in Releasing
    => c = d

\* Items are decided by persons.
Decisive ==
  \A r \in Runs : /\ Has(r, "accepted") => "approved" \in met
                  /\ Has(r, "rejected") => "declined" \in met

\* The row, the event and the trash.
Page ==
  /\ SettledByAPerson /\ NeverWider
  /\ feed \in {0, 1} /\ (feed = 1 => row = "released")
  /\ doc.trashed => row = "removed"

\* A release that nothing interrupts is under way or done.
UnderWay ==
  row = "released" /\ met \cap {"shared", "crash", "unsent"} = {} =>
    \/ doc.inherits /\ doc.own = {"release"} /\ feed = 1
    \/ \E c \in Calls : calls[c] # Idle /\ calls[c].at \in Releasing

IInv == Types /\ Requests /\ Alone /\ Decisive /\ Page /\ UnderWay

-----------------------------------------------------------------------------
(* Records of requests *)

\* The events that set a release aside.
Broken == {"shared", "crash", "unsent"}

\* The least of a set of runs is one of them.
LEMMA FirstIn ==
  ASSUME NEW R \in SUBSET Runs, R # {}
  PROVE  First(R) \in R /\ First(R) \in Runs
<1>1. R \subseteq Nat
  BY HeldAssumption DEF Runs
<1>2. IsWellFoundedOn(OpToRel(<, Nat), Nat)
  BY NatLessThanWellFounded
<1>3. PICK r \in R : \A q \in R : ~(<<q, r>> \in OpToRel(<, Nat))
  BY <1>1, <1>2, WFMin
<1>4. \A q \in R : ~(q < r)
  BY <1>1, <1>3 DEF OpToRel
<1>5. \A q \in R : r <= q
  BY <1>1, <1>4
<1> QED BY <1>5 DEF First

\* A request that forgot what it read, wherever it goes on to, is a request that read nothing.
LEMMA ForgetOK ==
  ASSUME NEW call \in Call, NEW at \in Places
  PROVE  /\ [Forget(call) EXCEPT !.at = at] \in Call
         /\ [Forget(call) EXCEPT !.at = at].at = at
         /\ [Forget(call) EXCEPT !.at = at].got = {}
<1>1. 1 \in Runs /\ NoDoc \in Doc
  BY HeldAssumption DEF Runs, NoDoc, Doc
<1> QED BY <1>1 DEF Call, Forget

\* A request that has just begun has read nothing but the page.
LEMMA AskOK ==
  ASSUME doc \in Doc, NEW scope \in Scopes, NEW decision \in Decisions, NEW at \in Places,
         NEW r \in Runs, NEW S \in SUBSET Items, NEW todo \in SUBSET Runs
  PROVE  /\ Ask(scope, decision, at, r, S, todo) \in Call
         /\ Ask(scope, decision, at, r, S, todo).at = at
         /\ Ask(scope, decision, at, r, S, todo).got = {}
<1>1. NoDoc \in Doc
  BY DEF NoDoc, Doc
<1> QED BY <1>1 DEF Ask, Call

-----------------------------------------------------------------------------
(* Kinds of steps *)

\* A step of a request that releases nothing, and leaves the page as it is.
LEMMA Reads ==
  ASSUME IInv, NEW c \in Calls, NEW X \in Call \cup {Idle},
         calls' = [calls EXCEPT ![c] = X],
         UNCHANGED <<row, doc, feed>>,
         runs' \in [Runs -> [items : [Items -> Statuses], reverted : BOOLEAN]],
         linked' \subseteq Runs, Decisive',
         met \subseteq met', met' \cap Broken = met \cap Broken,
         calls[c] # Idle => calls[c].at \notin Releasing,
         X # Idle => Good(X) /\ X.at \notin Releasing
  PROVE  IInv'
<1> USE DEF IInv
<1>1. Types'
  BY DEF Types, TypeOK
<1>2. \A d \in Calls : calls'[d] = IF d = c THEN X ELSE calls[d]
  BY DEF Types
<1>3. Requests'
  BY <1>2 DEF Requests, Good
<1>4. Alone'
  BY <1>2 DEF Alone
<1>5. Page'
  BY DEF Page, SettledByAPerson, NeverWider, Broken
<1>6. UnderWay'
  BY <1>2 DEF UnderWay, Broken
<1> QED BY <1>1, <1>3, <1>4, <1>5, <1>6

\* A step of nobody's request.
LEMMA Aside ==
  ASSUME IInv, UNCHANGED <<row, calls, feed>>,
         doc' \in Doc, doc'.own = doc.own, doc'.inherits = doc.inherits, doc'.trashed = doc.trashed,
         runs' \in [Runs -> [items : [Items -> Statuses], reverted : BOOLEAN]],
         linked' \subseteq Runs, Decisive',
         met \subseteq met', met' \cap Broken = met \cap Broken
  PROVE  IInv'
<1> USE DEF IInv
<1>1. Types'
  BY DEF Types, TypeOK
<1>2. Requests'
  BY DEF Requests, Good
<1>3. Alone'
  BY DEF Alone
<1>4. Page'
  BY DEF Page, SettledByAPerson, NeverWider, Broken
<1>5. UnderWay'
  BY DEF UnderWay, Broken
<1> QED BY <1>1, <1>2, <1>3, <1>4, <1>5

\* While the page is held nobody releases it, and nothing of a release has been done.
LEMMA HeldYet ==
  ASSUME IInv, row = "held"
  PROVE  /\ feed = 0
         /\ \A c \in Calls : calls[c] # Idle => calls[c].at \notin Releasing
         /\ "shared" \in met \/ (doc.own = {"approver"} /\ ~doc.inherits)
BY DEF IInv, Page, NeverWider, Requests, Good

\* A request settles a held page: it goes on to release it, or to put it in the trash.
LEMMA Settles ==
  ASSUME IInv, row = "held", NEW c \in Calls, NEW X \in Call,
         calls' = [calls EXCEPT ![c] = X],
         UNCHANGED <<doc, runs, linked, feed>>,
         met \subseteq met', met' \cap Broken = met \cap Broken,
         "accepted" \in X.got => "approved" \in met,
         "rejected" \in X.got => "declined" \in met,
         \/ /\ row' = "released" /\ met' \cap {"approved", "shared"} # {}
            /\ X.at = "grants" \/ (X.at = "announce" /\ "shared" \in met)
         \/ row' = "removed" /\ "declined" \in met' /\ X.at = "trash"
  PROVE  IInv'
<1> USE DEF IInv
<1>1. /\ feed = 0
      /\ \A d \in Calls : calls[d] # Idle => calls[d].at \notin Releasing
      /\ "shared" \in met \/ (doc.own = {"approver"} /\ ~doc.inherits)
  BY HeldYet
<1>2. Types'
  BY DEF Types, TypeOK
<1>3. \A d \in Calls : calls'[d] = IF d = c THEN X ELSE calls[d]
  BY DEF Types
<1>4. Requests'
  <2> SUFFICES ASSUME NEW d \in Calls, (calls[d] # Idle)'
               PROVE  Good(calls[d])'
    BY DEF Requests
  <2>1. CASE d = c
    BY <1>1, <1>3, <2>1 DEF Good, Releasing
  <2>2. CASE d # c
    <3>1. calls'[d] = calls[d] /\ Good(calls[d]) /\ calls[d].at \notin Releasing /\ calls[d].at # "trash"
      BY <1>1, <1>3, <2>2 DEF Requests, Good
    <3> QED BY <3>1 DEF Good, Releasing
  <2> QED BY <2>1, <2>2
<1>5. Alone'
  BY <1>1, <1>3 DEF Alone
<1>6. Page'
  BY <1>1 DEF Page, SettledByAPerson, NeverWider, Broken
<1>7. UnderWay'
  BY <1>3, IdleAssumption DEF UnderWay, Broken, Releasing
<1>8. Decisive'
  BY DEF Decisive, Has
<1> QED BY <1>2, <1>4, <1>5, <1>6, <1>7, <1>8

-----------------------------------------------------------------------------
(* The steps that only read *)

\* What the steps below have in common: a request that stands elsewhere than in a release goes on
\* as X, having read no status that it had not read before.
LEMMA ReadsOn ==
  ASSUME IInv, NEW c \in Calls, NEW X \in Call \cup {Idle},
         calls' = [calls EXCEPT ![c] = X],
         UNCHANGED <<row, doc, runs, linked, feed>>,
         met \subseteq met', met' \cap Broken = met \cap Broken,
         calls[c] # Idle => calls[c].at \notin Releasing,
         X # Idle => /\ X.at \notin Releasing \cup {"trash", "sharing", "shared"}
                     /\ "accepted" \in X.got => "approved" \in met
                     /\ "rejected" \in X.got => "declined" \in met
  PROVE  IInv'
<1>1. X # Idle => Good(X)
  BY DEF Good, Releasing
<1>2. runs' \in [Runs -> [items : [Items -> Statuses], reverted : BOOLEAN]] /\ linked' \subseteq Runs
  BY DEF IInv, Types, TypeOK
<1>3. Decisive'
  BY DEF IInv, Decisive, Has
<1> QED BY <1>1, <1>2, <1>3, Reads

\* What is known of a request under way.
LEMMA Known ==
  ASSUME IInv, NEW c \in Calls, calls[c] # Idle
  PROVE  /\ calls[c] \in Call /\ Good(calls[c]) /\ doc \in Doc
BY DEF IInv, Types, TypeOK, Requests

\* A decision that has done with its page: the request is over, or goes on to the next run of its change.
LEMMA EndsOK ==
  ASSUME IInv, NEW c \in Calls, calls[c] # Idle, calls[c].at \notin Releasing, Ends(c),
         UNCHANGED <<row, doc, runs, linked, feed>>,
         met \subseteq met', met' \cap Broken = met \cap Broken
  PROVE  IInv'
<1> DEFINE next == [Forget(calls[c]) EXCEPT !.at = "next"]
           X == IF calls[c].scope = "change" THEN next ELSE Idle
<1>1. next \in Call /\ next.at = "next" /\ next.got = {}
  <2>1. calls[c] \in Call
    BY Known
  <2>2. "next" \in Places
    BY DEF Places
  <2> QED BY ONLY <2>1, <2>2, ForgetOK
<1>2. calls' = [calls EXCEPT ![c] = X]
  BY DEF Ends, GoesOn
<1> HIDE DEF next
<1>3. X \in Call \cup {Idle} /\ (X # Idle => X.at = "next" /\ X.got = {})
  BY <1>1
<1> HIDE DEF X
<1> QED BY <1>3, <1>2, ReadsOn DEF Releasing

\* A request that goes on to `at` with the same statuses read, or none.
LEMMA GoesOnOK ==
  ASSUME IInv, NEW c \in Calls, calls[c] # Idle, calls[c].at \notin Releasing,
         NEW X \in Call \cup {Idle}, GoesOn(c, X),
         X # Idle => /\ X.at \notin Releasing \cup {"trash", "sharing", "shared"}
                     /\ X.got \subseteq calls[c].got,
         UNCHANGED <<row, doc, runs, linked, feed>>,
         met \subseteq met', met' \cap Broken = met \cap Broken
  PROVE  IInv'
<1>1. Good(calls[c])
  BY Known
<1> QED BY <1>1, ReadsOn DEF GoesOn, Good

\* A request reads the statuses of the next run of its list.
LEMMA ReadsNextOK ==
  ASSUME IInv, NEW c \in Calls, calls[c] # Idle, calls[c].at \notin Releasing \cup {"trash", "sharing", "shared"},
         calls[c].todo # {}, ReadsNext(c), UNCHANGED <<row, doc, runs, linked, feed, met>>
  PROVE  IInv'
<1> DEFINE r == First(calls[c].todo)
           X == [calls[c] EXCEPT !.todo = @ \ {r}, !.got = @ \cup StatusesIn(r)]
<1>1. calls[c] \in Call /\ Good(calls[c])
  BY Known
<1>2. r \in Runs
  BY <1>1, FirstIn DEF Call
<1>3. /\ "accepted" \in StatusesIn(r) => "approved" \in met
      /\ "rejected" \in StatusesIn(r) => "declined" \in met
  BY <1>2 DEF IInv, Decisive, Has, StatusesIn
<1>4. StatusesIn(r) \subseteq Statuses
  BY <1>2 DEF IInv, Types, TypeOK, StatusesIn
<1> HIDE DEF r
<1>5. X \in Call /\ X.at = calls[c].at /\ X.got = calls[c].got \cup StatusesIn(r)
  BY <1>1, <1>4 DEF Call
<1>6. calls' = [calls EXCEPT ![c] = X]
  BY DEF ReadsNext, GoesOn, r
<1> HIDE DEF X
<1> QED BY <1>1, <1>3, <1>5, <1>6, ReadsOn DEF Good

-----------------------------------------------------------------------------
(* Every step of a request *)

\* changePageOf: the page is settled already, or its row is read on.
LEMMA ReadRowOK == ASSUME IInv, NEW c \in Calls, ReadRow(c) PROVE IInv'
<1>1. calls[c] \in Call /\ calls[c] # Idle /\ calls[c].at \notin Releasing
  BY Known DEF ReadRow, At, Releasing
<1>2. CASE Ends(c)
  BY <1>1, <1>2, EndsOK DEF ReadRow
<1>3. CASE To(c, "doc")
  <2>1. [calls[c] EXCEPT !.at = "doc"] \in Call
    BY <1>1 DEF Call, Places
  <2> QED BY <1>1, <1>3, <2>1, GoesOnOK DEF ReadRow, To, Releasing, Call
<1> QED BY <1>2, <1>3 DEF ReadRow

\* getDoc: the page as it is now, before its runs are listed.
LEMMA ReadDocOK == ASSUME IInv, NEW c \in Calls, ReadDoc(c) PROVE IInv'
<1>1. calls[c] \in Call /\ doc \in Doc /\ calls[c] # Idle /\ calls[c].at \notin Releasing
  BY Known DEF ReadDoc, At, Releasing
<1>2. [calls[c] EXCEPT !.at = "list", !.fresh = doc] \in Call
  BY <1>1 DEF Call, Places
<1> QED BY <1>1, <1>2, GoesOnOK DEF ReadDoc, Releasing, Call

\* listChangeRuns: the runs to tally, none of them read yet.
LEMMA ListRunsOK == ASSUME IInv, NEW c \in Calls, ListRuns(c) PROVE IInv'
<1>1. calls[c] \in Call /\ linked \in SUBSET Runs /\ calls[c] # Idle /\ calls[c].at \notin Releasing
  BY Known DEF ListRuns, At, Releasing, IInv, Types, TypeOK
<1>2. [calls[c] EXCEPT !.at = "tally", !.todo = linked, !.got = {}] \in Call
  BY <1>1 DEF Call, Places
<1>3. CASE linked = {}
  BY <1>1, <1>3, EndsOK DEF ListRuns
<1>4. CASE linked # {}
  BY <1>1, <1>2, <1>4, GoesOnOK DEF ListRuns, Releasing, Call
<1> QED BY <1>3, <1>4

\* tallyRuns: the statuses of one run's items.
LEMMA TallyOK == ASSUME IInv, NEW c \in Calls, Tally(c) PROVE IInv'
BY ReadsNextOK DEF Tally, At, Releasing

\* The winner of settleChangePage, or a request that came too late.
LEMMA SettleRowOK ==
  ASSUME IInv, NEW c \in Calls, calls[c] # Idle, calls[c].at \notin Releasing,
         NEW state, NEW at, SettleRow(c, state, at), UNCHANGED <<doc, runs, linked, feed, met>>,
         \/ /\ state = "released" /\ met \cap {"approved", "shared"} # {}
            /\ at = "grants" \/ (at = "announce" /\ "shared" \in met)
         \/ state = "removed" /\ "declined" \in met /\ at = "trash"
  PROVE  IInv'
<1>1. calls[c] \in Call
  BY Known
<1>2. CASE row = "held"
  <2> DEFINE X == [calls[c] EXCEPT !.at = at, !.got = {}]
  <2>1. at \in Places
    BY DEF Places
  <2>2. X \in Call /\ X.at = at /\ X.got = {}
    BY <1>1, <2>1 DEF Call
  <2>3. row' = state /\ calls' = [calls EXCEPT ![c] = X]
    BY <1>2 DEF SettleRow, GoesOn
  <2> HIDE DEF X
  <2> QED BY <1>2, <2>2, <2>3, Settles
<1>3. CASE row # "held"
  BY <1>3, EndsOK DEF SettleRow
<1> QED BY <1>2, <1>3

\* settleHeldPage on what was tallied: what releases the page was approved, what removes it declined.
LEMMA SettleOK == ASSUME IInv, NEW c \in Calls, Settle(c) PROVE IInv'
<1>1. calls[c] \in Call /\ Good(calls[c]) /\ calls[c] # Idle /\ calls[c].at \notin Releasing
  BY Known DEF Settle, At, Releasing
<1>2. UNCHANGED <<doc, runs, linked, feed, met>>
  BY DEF Settle
<1>3. CASE Ends(c) /\ UNCHANGED row
  BY <1>1, <1>2, <1>3, EndsOK
<1>4. CASE "accepted" \in calls[c].got /\ Releases(c)
  BY <1>1, <1>2, <1>4, SettleRowOK DEF Releases, Good
<1>5. CASE "rejected" \in calls[c].got /\ Removes(c)
  <2>1. CASE calls[c].fresh.locked
    BY <1>1, <1>2, <1>5, <2>1, EndsOK DEF Removes
  <2>2. CASE ~calls[c].fresh.locked
    BY <1>1, <1>2, <1>5, <2>2, SettleRowOK DEF Removes, Good
  <2> QED BY <2>1, <2>2
<1> QED BY <1>3, <1>4, <1>5 DEF Settle

\* loadChangeView: which runs of the card wait.
LEMMA ReadCardOK == ASSUME IInv, NEW c \in Calls, ReadCard(c) PROVE IInv'
<1> DEFINE r == First(calls[c].todo)
           Y == [calls[c] EXCEPT !.todo = @ \ {r}, !.waits = IF Has(r, "pending") THEN @ \cup {r} ELSE @]
<1>1. calls[c] \in Call /\ calls[c] # Idle /\ calls[c].at \notin Releasing \cup {"trash", "sharing", "shared"}
  BY Known DEF ReadCard, At, Releasing
<1>2. CASE calls[c].todo = {}
  <2>1. [calls[c] EXCEPT !.at = "next"] \in Call
    BY <1>1 DEF Call, Places
  <2> QED BY <1>1, <1>2, <2>1, GoesOnOK DEF ReadCard, To, Releasing, Call
<1>3. CASE calls[c].todo # {}
  <2>1. r \in Runs
    BY <1>1, <1>3, FirstIn DEF Call
  <2>2. GoesOn(c, Y) /\ UNCHANGED <<row, doc, runs, linked, feed, met>>
    BY <1>3 DEF ReadCard
  <2> HIDE DEF r
  <2>3. Y \in Call /\ Y.at = calls[c].at /\ Y.got = calls[c].got
    BY <1>1, <2>1 DEF Call
  <2> HIDE DEF Y
  <2> QED BY <1>1, <2>2, <2>3, GoesOnOK
<1> QED BY <1>2, <1>3

\* decideChange goes on to its next run, or leaves it.
LEMMA NextRunOK == ASSUME IInv, NEW c \in Calls, NextRun(c) PROVE IInv'
<1> DEFINE r == First(calls[c].waits)
           Y == [[calls[c] EXCEPT !.waits = @ \ {r}] EXCEPT !.left = TRUE]
           Z == [[calls[c] EXCEPT !.waits = @ \ {r}] EXCEPT !.at = "actor", !.run = r]
<1>1. calls[c] \in Call /\ calls[c] # Idle /\ calls[c].at \notin Releasing \cup {"trash", "sharing", "shared"}
  BY Known DEF NextRun, At, Releasing
<1>2. r \in Runs
  BY <1>1, FirstIn DEF Call, NextRun
<1>3. (GoesOn(c, Y) \/ GoesOn(c, Z)) /\ UNCHANGED <<row, doc, runs, linked, feed, met>>
  BY DEF NextRun
<1> HIDE DEF r
<1>4. Y \in Call /\ Y.at = calls[c].at /\ Y.got = calls[c].got
  BY <1>1, <1>2 DEF Call
<1>5. Z \in Call /\ Z.at = "actor" /\ Z.got = calls[c].got
  BY <1>1, <1>2 DEF Call, Places
<1> HIDE DEF Y, Z
<1> QED BY <1>1, <1>3, <1>4, <1>5, GoesOnOK DEF Releasing

\* listChangePages: the page is decided as a page, or the request is over.
LEMMA ReadPagesOK == ASSUME IInv, NEW c \in Calls, ReadPages(c) PROVE IInv'
<1>1. calls[c] \in Call /\ calls[c] # Idle /\ calls[c].at \notin Releasing
  BY Known DEF ReadPages, At, Releasing
<1>2. [calls[c] EXCEPT !.at = "waiting", !.todo = calls[c].view, !.got = {}] \in Call
  BY <1>1 DEF Call, Places
<1>3. CASE GoesOn(c, Idle)
  BY <1>1, <1>3, GoesOnOK DEF ReadPages
<1>4. CASE GoesOn(c, [calls[c] EXCEPT !.at = "waiting", !.todo = calls[c].view, !.got = {}])
  BY <1>1, <1>2, <1>4, GoesOnOK DEF ReadPages, Releasing, Call
<1> QED BY <1>3, <1>4 DEF ReadPages

\* anyWaiting and anyLanded: the statuses of one of the card's runs.
LEMMA ReadAgainOK == ASSUME IInv, NEW c \in Calls, ReadAgain(c) PROVE IInv'
BY ReadsNextOK DEF ReadAgain, Releasing

\* getDoc after anyWaiting: the page as it is now.
LEMMA NoneWaitingOK == ASSUME IInv, NEW c \in Calls, NoneWaiting(c) PROVE IInv'
<1> DEFINE X == [calls[c] EXCEPT !.at = "landed", !.fresh = doc, !.got = {},
                                 !.todo = IF calls[c].decision = "reject" THEN calls[c].view ELSE {}]
<1>1. calls[c] \in Call /\ doc \in Doc /\ calls[c] # Idle /\ calls[c].at \notin Releasing
  BY Known DEF NoneWaiting, At, Releasing
<1>2. X \in Call /\ X.at = "landed" /\ X.got = {}
  BY <1>1 DEF Call, Places
<1>3. GoesOn(c, Idle) \/ GoesOn(c, X)
  BY DEF NoneWaiting
<1>4. UNCHANGED <<row, doc, runs, linked, feed, met>>
  BY DEF NoneWaiting
<1> HIDE DEF X
<1>5. CASE GoesOn(c, Idle)
  BY <1>1, <1>4, <1>5, GoesOnOK
<1>6. CASE GoesOn(c, X)
  BY <1>1, <1>2, <1>4, <1>6, GoesOnOK DEF Releasing
<1> QED BY <1>3, <1>5, <1>6

\* A held page decided as a page is released by an approval and removed by a refusal.
LEMMA SettlePageOK == ASSUME IInv, NEW c \in Calls, SettlePage(c) PROVE IInv'
<1> DEFINE X == [calls[c] EXCEPT !.scope = "run",
                                 !.at = IF calls[c].decision = "accept" THEN "grants" ELSE "trash"]
<1>1. calls[c] \in Call /\ Good(calls[c]) /\ calls[c] # Idle /\ calls[c].at \notin Releasing
  BY Known DEF SettlePage, At, Releasing
<1>2. CASE GoesOn(c, Idle) /\ UNCHANGED <<row, met>>
  BY <1>1, <1>2, GoesOnOK DEF SettlePage
<1>3. CASE /\ row = "held" /\ GoesOn(c, X)
           /\ row' = IF calls[c].decision = "accept" THEN "released" ELSE "removed"
           /\ Note(IF calls[c].decision = "accept" THEN {"approved", "as a page"} ELSE {"declined"})
  <2>1. /\ X \in Call /\ X.got = calls[c].got
        /\ X.at = IF calls[c].decision = "accept" THEN "grants" ELSE "trash"
    BY <1>1 DEF Call, Scopes, Places
  <2>2. calls' = [calls EXCEPT ![c] = X]
    BY <1>3 DEF GoesOn
  <2> HIDE DEF X
  <2>3. met \subseteq met' /\ met' \cap Broken = met \cap Broken
    BY <1>3 DEF Note, Broken
  <2>4. "accepted" \in X.got => "approved" \in met
    BY <1>1, <2>1 DEF Good
  <2>5. "rejected" \in X.got => "declined" \in met
    BY <1>1, <2>1 DEF Good
  <2>6. UNCHANGED <<doc, runs, linked, feed>>
    BY DEF SettlePage
  <2>7. \/ row' = "released" /\ met' \cap {"approved", "shared"} # {} /\ X.at = "grants"
        \/ row' = "removed" /\ "declined" \in met' /\ X.at = "trash"
    BY <1>3, <2>1 DEF Note
  <2> QED BY <1>3, <2>1, <2>2, <2>3, <2>4, <2>5, <2>6, <2>7, Settles
<1> QED BY <1>2, <1>3 DEF SettlePage

\* releasedBySharing looks the page up after its owner shared it.
LEMMA ReadSharedOK == ASSUME IInv, NEW c \in Calls, ReadShared(c) PROVE IInv'
<1> DEFINE X == [calls[c] EXCEPT !.at = "shared"]
<1>1. /\ calls[c] \in Call /\ Good(calls[c]) /\ calls[c] # Idle
      /\ calls[c].at = "sharing" /\ calls[c].at \notin Releasing /\ "shared" \in met
  BY Known DEF ReadShared, At, Releasing, Good
<1>2. CASE GoesOn(c, Idle)
  BY <1>1, <1>2, GoesOnOK DEF ReadShared
<1>3. CASE To(c, "shared")
  <2>1. X \in Call /\ X.at = "shared" /\ X.got = calls[c].got
    BY <1>1 DEF Call, Places
  <2>2. calls' = [calls EXCEPT ![c] = X] /\ UNCHANGED <<row, doc, runs, linked, feed, met>>
    BY <1>3 DEF To, GoesOn, ReadShared
  <2> HIDE DEF X
  <2>3. Good(X) /\ X.at \notin Releasing
    BY <1>1, <2>1 DEF Good, Releasing
  <2>4. /\ runs' \in [Runs -> [items : [Items -> Statuses], reverted : BOOLEAN]]
        /\ linked' \subseteq Runs /\ Decisive'
    BY <2>2 DEF IInv, Types, TypeOK, Decisive, Has
  <2> QED BY <1>1, <2>1, <2>2, <2>3, <2>4, Reads
<1> QED BY <1>2, <1>3 DEF ReadShared

\* releasedBySharing: sharing is what releases the page.
LEMMA ReleaseSharedOK == ASSUME IInv, NEW c \in Calls, ReleaseShared(c) PROVE IInv'
<1>1. calls[c] # Idle /\ calls[c].at \notin Releasing /\ "shared" \in met
  BY Known DEF ReleaseShared, At, Releasing, Good
<1> QED BY <1>1, SettleRowOK DEF ReleaseShared

-----------------------------------------------------------------------------
(* The steps that release the page, remove it or share it *)

\* releasePage reads the grants: of a page its owner did not share, its approvers alone.
LEMMA ReadGrantsOK == ASSUME IInv, NEW c \in Calls, ReadGrants(c) PROVE IInv'
<1> USE DEF IInv
<1> DEFINE X == [calls[c] EXCEPT !.at = "access", !.fresh = doc]
<1>1. calls[c] \in Call /\ doc \in Doc /\ Good(calls[c]) /\ calls[c] # Idle /\ calls[c].at = "grants"
  BY Known DEF ReadGrants, At
<1>2. X \in Call /\ X.at = "access" /\ X.got = calls[c].got /\ X.fresh = doc
  BY <1>1 DEF Call, Places
<1>3. calls' = [calls EXCEPT ![c] = X] /\ UNCHANGED <<row, doc, runs, linked, feed, met>>
  BY DEF ReadGrants, GoesOn
<1> HIDE DEF X
<1>4. \A d \in Calls : calls'[d] = IF d = c THEN X ELSE calls[d]
  BY <1>3 DEF Types
<1>5. Types'
  BY <1>2, <1>3 DEF Types, TypeOK
<1>6. Good(X)
  BY <1>1, <1>2 DEF Good, Releasing
<1>7. Requests'
  BY <1>3, <1>4, <1>6 DEF Requests, Good
<1>8. Alone'
  BY <1>1, <1>4 DEF Alone, Releasing
<1>9. Decisive' /\ Page'
  BY <1>3 DEF Decisive, Has, Page, SettledByAPerson, NeverWider
<1>10. UnderWay'
  BY <1>2, <1>3, <1>4, IdleAssumption DEF UnderWay, Releasing
<1> QED BY <1>5, <1>7, <1>8, <1>9, <1>10

\* setDocAcl of a release: the approvers go, the folder's access comes.
LEMMA TakeAccessOK == ASSUME IInv, NEW c \in Calls, TakeAccess(c) PROVE IInv'
<1> USE DEF IInv
<1> DEFINE X == [Forget(calls[c]) EXCEPT !.at = "announce"]
<1>1. calls[c] \in Call /\ doc \in Doc /\ Good(calls[c]) /\ calls[c] # Idle /\ calls[c].at = "access"
  BY Known DEF TakeAccess, At
<1>2. X \in Call /\ X.at = "announce" /\ X.got = {}
  <2>1. "announce" \in Places
    BY DEF Places
  <2> QED BY ONLY <1>1, <2>1, ForgetOK
<1>3. /\ calls' = [calls EXCEPT ![c] = X] /\ UNCHANGED <<row, runs, linked, feed, met>>
      /\ doc' = [doc EXCEPT !.inherits = TRUE, !.own = ReleasedGrants(calls[c].fresh.own)]
  BY DEF TakeAccess, GoesOn
<1> HIDE DEF X
<1>4. \A d \in Calls : calls'[d] = IF d = c THEN X ELSE calls[d]
  BY <1>3 DEF Types
<1>5. /\ doc' \in Doc /\ doc'.trashed = doc.trashed /\ doc'.inherits
      /\ "shared" \in met \/ doc'.own = {"release"}
  <2>1. ReleasedGrants(calls[c].fresh.own) \in SUBSET Grants
    BY <1>1 DEF ReleasedGrants, Grants, Call, Doc
  <2>2. "shared" \in met \/ ReleasedGrants(calls[c].fresh.own) = {"release"}
    BY <1>1 DEF ReleasedGrants, Good
  <2> QED BY <1>1, <1>3, <2>1, <2>2 DEF Doc
<1>6. Types'
  BY <1>2, <1>3, <1>5 DEF Types, TypeOK
<1>7. row = "released" /\ feed = 0
  BY <1>1 DEF Good, Releasing
<1>8. Requests'
  <2> SUFFICES ASSUME NEW d \in Calls, (calls[d] # Idle)'
               PROVE  Good(calls[d])'
    BY DEF Requests
  <2>1. CASE d = c
    BY <1>2, <1>3, <1>4, <1>5, <1>7, <2>1 DEF Good, Releasing
  <2>2. CASE d # c
    <3>1. calls'[d] = calls[d] /\ Good(calls[d]) /\ calls[d].at \notin Releasing
      BY <1>1, <1>4, <2>2 DEF Requests, Alone, Releasing
    <3> QED BY <1>3, <3>1 DEF Good, Releasing
  <2> QED BY <2>1, <2>2
<1>9. Alone'
  BY <1>1, <1>4 DEF Alone, Releasing
<1>10. Decisive' /\ Page'
  BY <1>3, <1>5, <1>7 DEF Decisive, Has, Page, SettledByAPerson, NeverWider
<1>11. UnderWay'
  BY <1>2, <1>4, IdleAssumption DEF UnderWay, Releasing
<1> QED BY <1>6, <1>8, <1>9, <1>10, <1>11

\* The event is sent, or lost: the release is over.
LEMMA ReleaseEnds ==
  ASSUME IInv, NEW c \in Calls, calls[c] # Idle, calls[c].at = "announce", Ends(c),
         UNCHANGED <<row, doc, runs, linked>>,
         \/ feed' = feed + 1 /\ met' = met
         \/ feed' = feed /\ met' = met \cup {"unsent"}
  PROVE  IInv'
<1> USE DEF IInv
<1> DEFINE next == [Forget(calls[c]) EXCEPT !.at = "next"]
           X == IF calls[c].scope = "change" THEN next ELSE Idle
<1>1. calls[c] \in Call /\ Good(calls[c])
  BY Known
<1>2. next \in Call /\ next.at = "next" /\ next.got = {}
  <2>1. "next" \in Places
    BY DEF Places
  <2> QED BY ONLY <1>1, <2>1, ForgetOK
<1>3. calls' = [calls EXCEPT ![c] = X]
  BY DEF Ends, GoesOn
<1> HIDE DEF next
<1>4. X \in Call \cup {Idle} /\ (X # Idle => X.at = "next" /\ X.got = {})
  BY <1>2
<1> HIDE DEF X
<1>5. \A d \in Calls : calls'[d] = IF d = c THEN X ELSE calls[d]
  BY <1>3 DEF Types
<1>6. /\ row = "released" /\ feed = 0 /\ feed' \in {0, 1}
      /\ "shared" \in met \/ (doc.inherits /\ doc.own = {"release"})
  BY <1>1 DEF Good, Releasing
<1>7. \A d \in Calls : (calls[d] # Idle)' => (calls[d].at)' \notin Releasing
  BY <1>4, <1>5 DEF Alone, Releasing
<1>8. Types'
  BY <1>3, <1>4, <1>6 DEF Types, TypeOK
<1>9. Requests'
  <2> SUFFICES ASSUME NEW d \in Calls, (calls[d] # Idle)'
               PROVE  Good(calls[d])'
    BY DEF Requests
  <2>1. CASE d = c
    BY <1>4, <1>5, <2>1 DEF Good, Releasing
  <2>2. CASE d # c
    <3>1. calls'[d] = calls[d] /\ Good(calls[d]) /\ calls[d].at \notin Releasing
      BY <1>5, <1>7, <2>2 DEF Requests
    <3> QED BY <3>1 DEF Good, Releasing
  <2> QED BY <2>1, <2>2
<1>10. Alone'
  BY <1>7 DEF Alone
<1>11. Decisive' /\ Page'
  BY <1>6 DEF Decisive, Has, Page, SettledByAPerson, NeverWider
<1>12. UnderWay'
  BY <1>6 DEF UnderWay
<1> QED BY <1>8, <1>9, <1>10, <1>11, <1>12

\* doc.created, once the page follows its folder.
LEMMA AnnounceOK == ASSUME IInv, NEW c \in Calls, Announce(c) PROVE IInv'
BY ReleaseEnds DEF Announce, At

\* A doc.created that is not stored cuts the release short.
LEMMA UnsentOK == ASSUME IInv, NEW c \in Calls, Unsent(c) PROVE IInv'
BY ReleaseEnds DEF Unsent, At, Strikes, Note

\* Only a page whose row says removed goes to the trash.
LEMMA TrashOK == ASSUME IInv, NEW c \in Calls, Trash(c) PROVE IInv'
<1> USE DEF IInv
<1> DEFINE next == [Forget(calls[c]) EXCEPT !.at = "next"]
           X == IF calls[c].scope = "change" THEN next ELSE Idle
<1>1. calls[c] \in Call /\ Good(calls[c]) /\ doc \in Doc /\ calls[c] # Idle /\ calls[c].at = "trash"
  BY Known DEF Trash, At
<1>2. next \in Call /\ next.at = "next" /\ next.got = {}
  <2>1. "next" \in Places
    BY DEF Places
  <2> QED BY ONLY <1>1, <2>1, ForgetOK
<1>3. calls' = [calls EXCEPT ![c] = X] /\ UNCHANGED <<row, runs, linked, feed, met>>
  BY DEF Trash, Ends, GoesOn
<1> HIDE DEF next
<1>4. X \in Call \cup {Idle} /\ (X # Idle => X.at = "next" /\ X.got = {})
  BY <1>2
<1> HIDE DEF X
<1>5. \A d \in Calls : calls'[d] = IF d = c THEN X ELSE calls[d]
  BY <1>3 DEF Types
<1>6. row = "removed"
  BY <1>1 DEF Good
<1>7. doc' \in Doc /\ doc'.own = doc.own /\ doc'.inherits = doc.inherits
  BY <1>1 DEF Trash, Doc
<1>8. Types'
  BY <1>3, <1>4, <1>7 DEF Types, TypeOK
<1>9. Requests'
  BY <1>3, <1>4, <1>5, <1>7 DEF Requests, Good, Releasing
<1>10. Alone'
  BY <1>4, <1>5 DEF Alone, Releasing
<1>11. Decisive' /\ Page'
  BY <1>3, <1>6, <1>7 DEF Decisive, Has, Page, SettledByAPerson, NeverWider
<1>12. UnderWay'
  BY <1>3, <1>6 DEF UnderWay
<1> QED BY <1>8, <1>9, <1>10, <1>11, <1>12

\* setDocAcl of the sharing route: from here on the owner has shared the page.
LEMMA SetSharingOK == ASSUME IInv, NEW c \in Calls, SetSharing(c) PROVE IInv'
<1> USE DEF IInv
<1> DEFINE X == [Forget(calls[c]) EXCEPT !.at = "sharing"]
<1>1. calls[c] \in Call /\ doc \in Doc /\ calls[c] # Idle /\ calls[c].at = "share"
  BY Known DEF SetSharing, At
<1>2. X \in Call /\ X.at = "sharing" /\ X.got = {}
  <2>1. "sharing" \in Places
    BY DEF Places
  <2> QED BY ONLY <1>1, <2>1, ForgetOK
<1>3. /\ calls' = [calls EXCEPT ![c] = X] /\ UNCHANGED <<row, runs, linked, feed>>
      /\ met' = met \cup {"shared"}
  BY DEF SetSharing, GoesOn, Note
<1> HIDE DEF X
<1>4. \A d \in Calls : calls'[d] = IF d = c THEN X ELSE calls[d]
  BY <1>3 DEF Types
<1>5. doc' \in Doc /\ doc'.trashed = doc.trashed
  BY <1>1 DEF SetSharing, Doc, Call
<1>6. Types'
  BY <1>2, <1>3, <1>5 DEF Types, TypeOK
<1>7. Requests'
  <2> SUFFICES ASSUME NEW d \in Calls, (calls[d] # Idle)'
               PROVE  Good(calls[d])'
    BY DEF Requests
  <2>1. CASE d = c
    BY <1>2, <1>3, <1>4, <2>1 DEF Good, Releasing
  <2>2. CASE d # c
    <3>1. calls'[d] = calls[d] /\ Good(calls[d])
      BY <1>4, <2>2 DEF Requests
    <3> QED BY <1>3, <3>1 DEF Good
  <2> QED BY <2>1, <2>2
<1>8. Alone'
  BY <1>2, <1>4 DEF Alone, Releasing
<1>9. Decisive' /\ Page'
  BY <1>3, <1>5 DEF Decisive, Has, Page, SettledByAPerson, NeverWider
<1>10. UnderWay'
  BY <1>3 DEF UnderWay
<1> QED BY <1>6, <1>7, <1>8, <1>9, <1>10

-----------------------------------------------------------------------------
(* The steps that decide items *)

\* A decision at the actor turns items that waited into accepted ones, or into rejected ones.
LEMMA DecidedIs ==
  ASSUME NEW run \in [items : [Items -> Statuses], reverted : BOOLEAN], NEW d \in Decisions,
         NEW S \in SUBSET Items, NEW outcome \in {"accepted", "conflict", "rejected"},
         d = "accept" => outcome \in {"accepted", "conflict"}
  PROVE  /\ Decided(run, d, S, outcome) \in [items : [Items -> Statuses], reverted : BOOLEAN]
         /\ \A i \in Items :
              LET after == Decided(run, d, S, outcome).items[i]
              IN  /\ after = "accepted" => run.items[i] = "accepted" \/ d = "accept"
                  /\ after = "rejected" => run.items[i] = "rejected" \/ d # "accept"
<1>1. CASE d = "accept"
  <2> DEFINE after == [i \in Items |-> IF i \in S /\ run.items[i] = "pending" THEN outcome ELSE run.items[i]]
  <2>1. Decided(run, d, S, outcome) = [run EXCEPT !.items = after]
    BY <1>1 DEF Decided
  <2>2. after \in [Items -> Statuses]
    BY DEF Statuses
  <2>3. [run EXCEPT !.items = after].items = after
    OBVIOUS
  <2> QED BY <1>1, <2>1, <2>2, <2>3
<1>2. CASE d = "reject"
  <2> DEFINE after == [i \in Items |-> IF i \in S /\ run.items[i] = "pending" THEN "rejected" ELSE run.items[i]]
  <2>1. Decided(run, d, S, outcome) = [run EXCEPT !.items = after]
    BY <1>2 DEF Decided
  <2>2. after \in [Items -> Statuses]
    BY DEF Statuses
  <2>3. [run EXCEPT !.items = after].items = after
    OBVIOUS
  <2> QED BY <1>2, <2>1, <2>2, <2>3
<1>3. CASE d = "revert"
  <2> DEFINE after == [i \in Items |-> IF run.items[i] = "pending" THEN "rejected" ELSE run.items[i]]
  <2>1. Decided(run, d, S, outcome) = [items |-> after, reverted |-> TRUE]
    BY <1>3 DEF Decided
  <2>2. after \in [Items -> Statuses]
    BY DEF Statuses
  <2>3. \A i \in Items : after[i] = IF run.items[i] = "pending" THEN "rejected" ELSE run.items[i]
    OBVIOUS
  <2> HIDE DEF after
  <2>4. Decided(run, d, S, outcome).items = after
    BY <2>1
  <2>5. Decided(run, d, S, outcome) \in [items : [Items -> Statuses], reverted : BOOLEAN]
    BY <2>1, <2>2
  <2>6. d # "accept"
    BY <1>3
  <2> QED BY <2>3, <2>4, <2>5, <2>6
<1> QED BY <1>1, <1>2, <1>3 DEF Decisions

\* runs/decide and runs/revert: what a person decided is noted with the items.
LEMMA DecideItems ==
  ASSUME IInv, NEW r \in Runs, NEW d \in Decisions, NEW S \in SUBSET Items,
         NEW outcome \in IF d = "accept" THEN {"accepted", "conflict"} ELSE {"rejected"},
         runs' = [runs EXCEPT ![r] = Decided(@, d, S, outcome)],
         Note({IF d = "accept" THEN "approved" ELSE "declined"})
  PROVE  /\ runs' \in [Runs -> [items : [Items -> Statuses], reverted : BOOLEAN]]
         /\ Decisive' /\ met \subseteq met' /\ met' \cap Broken = met \cap Broken
<1>1. runs \in [Runs -> [items : [Items -> Statuses], reverted : BOOLEAN]]
  BY DEF IInv, Types, TypeOK
<1>2. outcome \in {"accepted", "conflict", "rejected"} /\ (d = "accept" => outcome \in {"accepted", "conflict"})
  OBVIOUS
<1>3. /\ Decided(runs[r], d, S, outcome) \in [items : [Items -> Statuses], reverted : BOOLEAN]
      /\ \A i \in Items :
           LET after == Decided(runs[r], d, S, outcome).items[i]
           IN  /\ after = "accepted" => runs[r].items[i] = "accepted" \/ d = "accept"
               /\ after = "rejected" => runs[r].items[i] = "rejected" \/ d # "accept"
  BY <1>1, <1>2, DecidedIs
<1>4. \A q \in Runs : runs'[q] = IF q = r THEN Decided(runs[r], d, S, outcome) ELSE runs[q]
  BY <1>1
<1>5. runs' \in [Runs -> [items : [Items -> Statuses], reverted : BOOLEAN]]
  BY <1>1, <1>3
<1>6. met' = met \cup {IF d = "accept" THEN "approved" ELSE "declined"}
  BY DEF Note
<1>7. Decisive'
  <2> SUFFICES ASSUME NEW q \in Runs
               PROVE  /\ Has(q, "accepted")' => "approved" \in met'
                      /\ Has(q, "rejected")' => "declined" \in met'
    BY DEF Decisive
  <2>1. CASE q = r
    BY <1>3, <1>4, <1>6, <2>1 DEF IInv, Decisive, Has
  <2>2. CASE q # r
    BY <1>4, <1>6, <2>2 DEF IInv, Decisive, Has
  <2> QED BY <2>1, <2>2
<1> QED BY <1>5, <1>6, <1>7 DEF Broken

\* A decision at the actor: refused, or made and noted.
LEMMA AtTheActorOK == ASSUME IInv, NEW c \in Calls, AtTheActor(c) PROVE IInv'
<1> DEFINE Z == [Forget(calls[c]) EXCEPT !.at = "next"]
           Y == [Forget(calls[c]) EXCEPT !.at = "next", !.left = TRUE]
           X == [Forget(calls[c]) EXCEPT !.at = "page"]
           d == calls[c].decision
           r == calls[c].run
<1>1. calls[c] \in Call /\ calls[c] # Idle /\ calls[c].at \notin Releasing
  BY Known DEF AtTheActor, At, Releasing
<1>2. X \in Call /\ X.at = "page" /\ X.got = {} /\ Z \in Call /\ Z.at = "next" /\ Z.got = {}
  <2>1. "page" \in Places /\ "next" \in Places
    BY DEF Places
  <2> QED BY ONLY <1>1, <2>1, ForgetOK
<1>3. Y \in Call /\ Y.at = "next" /\ Y.got = {}
  <2>1. Y = [Z EXCEPT !.left = TRUE]
    BY DEF Forget
  <2> HIDE DEF Y, Z
  <2> QED BY <1>2, <2>1 DEF Call
<1>4. UNCHANGED <<row, doc, linked, feed>>
  BY DEF AtTheActor
<1>5. \/ (GoesOn(c, Y) \/ GoesOn(c, Idle)) /\ UNCHANGED <<runs, met>>
      \/ \E outcome \in IF d = "accept" THEN {"accepted", "conflict"} ELSE {"rejected"} :
           /\ runs' = [runs EXCEPT ![r] = Decided(@, d, calls[c].items, outcome)]
           /\ Note({IF d = "accept" THEN "approved" ELSE "declined"})
           /\ GoesOn(c, X)
  BY DEF AtTheActor
<1>6. r \in Runs /\ d \in Decisions /\ calls[c].items \in SUBSET Items
  BY <1>1 DEF Call
<1> HIDE DEF X, Y, Z, d, r
<1>7. CASE GoesOn(c, Y) /\ UNCHANGED <<runs, met>>
  BY <1>1, <1>3, <1>4, <1>7, GoesOnOK DEF Releasing
<1>8. CASE GoesOn(c, Idle) /\ UNCHANGED <<runs, met>>
  BY <1>1, <1>4, <1>8, GoesOnOK
<1>9. ASSUME NEW outcome \in IF d = "accept" THEN {"accepted", "conflict"} ELSE {"rejected"},
             runs' = [runs EXCEPT ![r] = Decided(@, d, calls[c].items, outcome)],
             Note({IF d = "accept" THEN "approved" ELSE "declined"}),
             GoesOn(c, X)
      PROVE  IInv'
  <2>1. /\ runs' \in [Runs -> [items : [Items -> Statuses], reverted : BOOLEAN]]
        /\ Decisive' /\ met \subseteq met' /\ met' \cap Broken = met \cap Broken
    BY <1>6, <1>9, DecideItems
  <2>2. Good(X) /\ X.at \notin Releasing
    BY <1>2 DEF Good, Releasing
  <2>3. linked' \subseteq Runs
    BY <1>4 DEF IInv, Types, TypeOK
  <2> QED BY <1>1, <1>2, <1>4, <1>9, <2>1, <2>2, <2>3, Reads DEF GoesOn
<1> QED BY <1>5, <1>7, <1>8, <1>9

\* runs/undo: an item waits again.
LEMMA UndoOK == ASSUME IInv, NEW r \in Runs, NEW i \in Items, Undo(r, i) PROVE IInv'
<1>1. runs \in [Runs -> [items : [Items -> Statuses], reverted : BOOLEAN]] /\ doc \in Doc
  BY DEF IInv, Types, TypeOK
<1>2. runs' = [runs EXCEPT ![r].items[i] = "pending"]
  BY DEF Undo
<1>3. runs' \in [Runs -> [items : [Items -> Statuses], reverted : BOOLEAN]]
  BY <1>1, <1>2 DEF Statuses
<1>4. met' = met \cup {"undone"} /\ UNCHANGED <<row, doc, linked, calls, feed>>
  BY DEF Undo, Note
<1>5. Decisive'
  BY <1>1, <1>2, <1>4 DEF IInv, Decisive, Has
<1>6. linked' \subseteq Runs
  BY <1>4 DEF IInv, Types, TypeOK
<1> QED BY <1>1, <1>3, <1>4, <1>5, <1>6, Aside DEF Broken

\* An item of the agent waits.
LEMMA ProposeOK == ASSUME IInv, NEW r \in Runs, NEW i \in Items, Propose(r, i) PROVE IInv'
<1>1. runs \in [Runs -> [items : [Items -> Statuses], reverted : BOOLEAN]] /\ doc \in Doc
  BY DEF IInv, Types, TypeOK
<1>2. runs' = [runs EXCEPT ![r].items[i] = "pending"] /\ UNCHANGED <<row, doc, linked, calls, feed, met>>
  BY DEF Propose
<1>3. runs' \in [Runs -> [items : [Items -> Statuses], reverted : BOOLEAN]]
  BY <1>1, <1>2 DEF Statuses
<1>4. Decisive'
  BY <1>1, <1>2 DEF IInv, Decisive, Has
<1>5. linked' \subseteq Runs
  BY <1>2 DEF IInv, Types, TypeOK
<1> QED BY <1>1, <1>2, <1>3, <1>4, <1>5, Aside

\* linkChangeRun: a link is nothing the page goes by.
LEMMA LinkOK == ASSUME IInv, NEW r \in Runs, Link(r) PROVE IInv'
<1>1. UNCHANGED <<row, doc, runs, calls, feed>> /\ linked' = linked \cup {r}
  BY DEF Link
<1>2. met \subseteq met' /\ met' \cap Broken = met \cap Broken
  BY DEF Link, Note, Broken
<1>3. /\ doc \in Doc /\ linked' \subseteq Runs
      /\ runs' \in [Runs -> [items : [Items -> Statuses], reverted : BOOLEAN]]
  BY <1>1 DEF IInv, Types, TypeOK
<1>4. Decisive'
  BY <1>1, <1>2 DEF IInv, Decisive, Has
<1> QED BY <1>1, <1>2, <1>3, <1>4, Aside

\* setDocLocked: the lock is no part of who opens the page.
LEMMA LockOK == ASSUME IInv, Lock PROVE IInv'
<1>1. /\ UNCHANGED <<row, runs, linked, calls, feed>> /\ doc' = [doc EXCEPT !.locked = ~@]
      /\ met' = met \cup {"locked"}
  BY DEF Lock, Strikes, Note
<1>2. /\ doc \in Doc /\ linked' \subseteq Runs
      /\ runs' \in [Runs -> [items : [Items -> Statuses], reverted : BOOLEAN]]
  BY <1>1 DEF IInv, Types, TypeOK
<1>3. doc' \in Doc /\ doc'.own = doc.own /\ doc'.inherits = doc.inherits /\ doc'.trashed = doc.trashed
  BY <1>1, <1>2 DEF Doc
<1>4. Decisive'
  BY <1>1 DEF IInv, Decisive, Has
<1> QED BY <1>1, <1>2, <1>3, <1>4, Aside DEF Broken

-----------------------------------------------------------------------------
(* The requests that begin, and the faults *)

\* A request begins as one that has read nothing but the page.
LEMMA BeginsOK ==
  ASSUME IInv, NEW c \in Calls, calls[c] = Idle, NEW X \in Call,
         calls' = [calls EXCEPT ![c] = X], X.at \in {"actor", "card", "share"}, X.got = {},
         UNCHANGED <<row, doc, runs, linked, feed, met>>
  PROVE  IInv'
BY ReadsOn DEF Releasing

\* A decision on one run begins.
LEMMA DecideRunOK ==
  ASSUME IInv, NEW c \in Calls, NEW d \in Decisions, NEW r \in Runs, NEW S \in SUBSET Items, DecideRun(c, d, r, S)
  PROVE  IInv'
<1> DEFINE X == Ask("run", d, "actor", r, S, {})
<1>1. doc \in Doc /\ "run" \in Scopes /\ "actor" \in Places /\ {} \in SUBSET Runs
  BY DEF IInv, Types, TypeOK, Scopes, Places
<1>2. X \in Call /\ X.at = "actor" /\ X.got = {}
  BY <1>1, AskOK
<1>3. calls[c] = Idle /\ calls' = [calls EXCEPT ![c] = X] /\ UNCHANGED <<row, doc, runs, linked, feed, met>>
  BY DEF DecideRun, Begins
<1> HIDE DEF X
<1> QED BY <1>2, <1>3, BeginsOK

\* A decision on a change begins with its card.
LEMMA DecideChangeOK ==
  ASSUME IInv, NEW c \in Calls, NEW d \in {"accept", "reject"}, DecideChange(c, d)
  PROVE  IInv'
<1> DEFINE X == Ask("change", d, "card", 1, Items, linked)
<1>1. /\ doc \in Doc /\ "change" \in Scopes /\ "card" \in Places /\ linked \in SUBSET Runs
      /\ d \in Decisions /\ Items \in SUBSET Items
  BY DEF IInv, Types, TypeOK, Scopes, Places, Decisions
<1>2. 1 \in Runs
  BY HeldAssumption DEF Runs
<1>3. X \in Call /\ X.at = "card" /\ X.got = {}
  BY <1>1, <1>2, AskOK
<1>4. calls[c] = Idle /\ calls' = [calls EXCEPT ![c] = X] /\ UNCHANGED <<row, doc, runs, linked, feed, met>>
  BY DEF DecideChange, Begins
<1> HIDE DEF X
<1> QED BY <1>3, <1>4, BeginsOK

\* The owner's sharing begins.
LEMMA ShareOK ==
  ASSUME IInv, NEW c \in Calls, NEW own \in Sharings, NEW inherits \in BOOLEAN, Share(c, own, inherits)
  PROVE  IInv'
<1> DEFINE Y == Ask("share", "accept", "share", 1, {}, {})
           granted == [NoDoc EXCEPT !.own = own, !.inherits = inherits]
           X == [Y EXCEPT !.fresh = granted]
<1>1. /\ doc \in Doc /\ "share" \in Scopes /\ "share" \in Places /\ "accept" \in Decisions
      /\ {} \in SUBSET Runs /\ {} \in SUBSET Items
  BY DEF IInv, Types, TypeOK, Scopes, Places, Decisions
<1>2. 1 \in Runs /\ own \in SUBSET Grants
  BY HeldAssumption DEF Runs, Grants
<1>3. Y \in Call /\ Y.at = "share" /\ Y.got = {}
  BY <1>1, <1>2, AskOK
<1>4. granted \in Doc
  BY <1>2 DEF NoDoc, Doc
<1>5. calls[c] = Idle /\ calls' = [calls EXCEPT ![c] = X] /\ UNCHANGED <<row, doc, runs, linked, feed, met>>
  BY DEF Share
<1> HIDE DEF Y, granted
<1>6. X \in Call /\ X.at = "share" /\ X.got = {}
  BY <1>3, <1>4 DEF Call
<1> HIDE DEF X
<1> QED BY <1>5, <1>6, BeginsOK

\* A run that cannot be read: the request goes by none of what it read.
LEMMA UnreadableOK == ASSUME IInv, NEW c \in Calls, Unreadable(c) PROVE IInv'
<1> DEFINE r == First(calls[c].todo)
           Y == [calls[c] EXCEPT !.todo = @ \ {r}, !.view = @ \ {r}, !.left = TRUE]
<1>1. /\ calls[c] \in Call /\ calls[c] # Idle /\ calls[c].at \notin Releasing
      /\ calls[c].at \in {"card", "tally", "waiting", "landed"}
  BY Known DEF Unreadable, Releasing
<1>2. met \subseteq met' /\ met' \cap Broken = met \cap Broken /\ UNCHANGED <<row, doc, runs, linked, feed>>
  BY DEF Unreadable, Strikes, Note, Broken
<1>3. Ends(c) \/ GoesOn(c, Idle) \/ (calls[c].at = "card" /\ GoesOn(c, Y))
  BY DEF Unreadable
<1> HIDE DEF r
<1>4. Y \in Call /\ Y.at = calls[c].at /\ Y.got = calls[c].got
  BY <1>1 DEF Call
<1> HIDE DEF Y
<1>5. CASE Ends(c)
  BY <1>1, <1>2, <1>5, EndsOK
<1>6. CASE GoesOn(c, Idle)
  BY <1>1, <1>2, <1>6, GoesOnOK
<1>7. CASE GoesOn(c, Y)
  BY <1>1, <1>2, <1>4, <1>7, GoesOnOK
<1> QED BY <1>3, <1>5, <1>6, <1>7

\* The process ends: no request is under way, and what was released stays so.
LEMMA CrashOK == ASSUME IInv, Crash PROVE IInv'
<1> USE DEF IInv
<1>1. /\ calls' = [c \in Calls |-> Idle] /\ UNCHANGED <<row, doc, runs, linked, feed>>
      /\ met' = met \cup {"crash"}
  BY DEF Crash, Strikes, Note
<1>2. Types'
  BY <1>1 DEF Types, TypeOK
<1>3. Requests' /\ Alone'
  BY <1>1 DEF Requests, Alone
<1>4. Decisive' /\ Page'
  BY <1>1 DEF Decisive, Has, Page, SettledByAPerson, NeverWider
<1>5. UnderWay'
  BY <1>1 DEF UnderWay
<1> QED BY <1>2, <1>3, <1>4, <1>5

-----------------------------------------------------------------------------
(* The invariant, and what it says *)

\* A page just made is held, with nothing decided and no request.
LEMMA InitOK == Init => IInv
<1> SUFFICES ASSUME Init PROVE IInv
  OBVIOUS
<1>1. Types
  BY DEF Init, Types, TypeOK, Doc, Grants, Statuses
<1>2. Requests /\ Alone /\ Decisive
  BY DEF Init, Requests, Alone, Decisive, Has
<1>3. Page /\ UnderWay
  BY DEF Init, Page, SettledByAPerson, NeverWider, UnderWay
<1> QED BY <1>1, <1>2, <1>3 DEF IInv

\* Every step keeps the invariant.
LEMMA StepOK == IInv /\ [Next]_vars => IInv'
<1> SUFFICES ASSUME IInv, [Next]_vars PROVE IInv'
  OBVIOUS
<1>1. CASE UNCHANGED vars
  <2>1. UNCHANGED <<row, doc, runs, linked, calls, feed, met>>
    BY <1>1 DEF vars
  <2>2. /\ doc \in Doc /\ linked \subseteq Runs
        /\ runs \in [Runs -> [items : [Items -> Statuses], reverted : BOOLEAN]] /\ Decisive
    BY DEF IInv, Types, TypeOK
  <2>3. Decisive'
    BY <2>1, <2>2 DEF Decisive, Has
  <2> QED BY <2>1, <2>2, <2>3, Aside
<1>2. ASSUME NEW r \in Runs, \/ Link(r)
                             \/ \E i \in Items : Propose(r, i) \/ Undo(r, i)
      PROVE  IInv'
  BY <1>2, LinkOK, ProposeOK, UndoOK
<1>3. ASSUME NEW c \in Calls, Step(c)
      PROVE  IInv'
  BY <1>3, AtTheActorOK, ReadRowOK, ReadDocOK, ListRunsOK, TallyOK, SettleOK, ReadGrantsOK, TakeAccessOK,
     AnnounceOK, TrashOK, ReadCardOK, NextRunOK, ReadPagesOK, ReadAgainOK, NoneWaitingOK, SettlePageOK,
     SetSharingOK, ReadSharedOK, ReleaseSharedOK DEF Step
<1>4. ASSUME NEW c \in Calls,
             \/ \E d \in Decisions, r \in Runs, S \in SUBSET Items : DecideRun(c, d, r, S)
             \/ \E d \in {"accept", "reject"} : DecideChange(c, d)
             \/ \E own \in Sharings, inherits \in BOOLEAN : Share(c, own, inherits)
      PROVE  IInv'
  BY <1>4, DecideRunOK, DecideChangeOK, ShareOK
<1>5. ASSUME NEW c \in Calls, Unreadable(c) \/ Unsent(c)
      PROVE  IInv'
  BY <1>5, UnreadableOK, UnsentOK
<1>6. CASE Lock \/ Crash
  BY <1>6, LockOK, CrashOK
<1> QED BY <1>1, <1>2, <1>3, <1>4, <1>5, <1>6 DEF Next

\* The inductive invariant holds in every state, for any number of requests, runs, items and faults.
THEOREM HeldInvariant == Spec => []IInv
BY InitOK, StepOK, PTL DEF Spec

\* Every variable keeps its type, and an item only the statuses a page's readers know.
THEOREM TypeCorrect == Spec => []TypeOK
<1>1. IInv => TypeOK
  BY DEF IInv, Types
<1> QED BY <1>1, HeldInvariant, PTL

\* However many decide at once, and whatever the owner shares meanwhile, a page leaves its hold
\* once, on something a person did, is announced at most once and never from the trash.
THEOREM LeavesItsHoldOnce == Spec => []SettledOnce
<1>1. IInv => SettledOnce
  BY DEF IInv, Page, SettledOnce, AnnouncedOnce
<1> QED BY <1>1, HeldInvariant, PTL

\* Until it is released nobody else opens it, at whatever await anything fails or the process
\* ends, unless its owner shared it.
THEOREM HeldStaysHeld == Spec => []NeverWider
<1>1. IInv => NeverWider
  BY DEF IInv, Page
<1> QED BY <1>1, HeldInvariant, PTL

\* A release that was not cut short ends with the page open as its folder is, and announced.
THEOREM ReleaseCompletes == Spec => []ReleasedIsOpen
<1>1. IInv => ReleasedIsOpen
  BY DEF IInv, UnderWay, ReleasedIsOpen, Quiet
<1> QED BY <1>1, HeldInvariant, PTL

-----------------------------------------------------------------------------
(* The last decision settles the page *)

\* Nothing has got in the way of the page's settling.
Untroubled == met \cap {"late", "locked", "unread", "crash"} = {}

\* The change's runs on the page are decided, and something of them was approved or declined.
AllDecided ==
  /\ linked # {} /\ \A r \in linked : ~Has(r, "pending")
  /\ \E r \in linked : Has(r, "accepted") \/ Has(r, "rejected")

\* A request that decided and is on its way to settle the page: it still has all of it to read, or
\* what it read and what it has yet to read settle it.
Carries(call) ==
  \/ call.at \in {"page", "doc", "list"}
  \/ /\ call.at = "tally" /\ "pending" \notin call.got
     /\ \/ call.got \cap {"accepted", "rejected"} # {}
        \/ \E r \in call.todo : Has(r, "accepted") \/ Has(r, "rejected")

\* The owner's sharing, on its way to release the page.
Opens(call) == call.at \in {"sharing", "shared"} /\ ~call.first.inherits

\* Nobody locked the page: it is not locked, nor was it when a request read it.
Unlocked ==
  "locked" \notin met => ~doc.locked /\ \A c \in Calls : calls[c] # Idle => ~calls[c].fresh.locked

\* The runs a request has yet to read are runs of the change.
Tallied == \A c \in Calls : calls[c] # Idle /\ calls[c].at = "tally" => calls[c].todo \subseteq linked

\* A held page follows its folder only while the sharing that made it so is about to release it.
Following == doc.inherits \/ \E c \in Calls : calls[c] # Idle /\ calls[c].first.inherits
Opening ==
  row = "held" /\ "crash" \notin met /\ Following => \E s \in Calls : calls[s] # Idle /\ Opens(calls[s])

\* A page still held with everything decided has a request on its way to settle it.
Settling ==
  row = "held" /\ Untroubled /\ AllDecided =>
    \E c \in Calls : calls[c] # Idle /\ (Carries(calls[c]) \/ Opens(calls[c]))

SInv == Unlocked /\ Tallied /\ Opening /\ Settling

\* A request goes on as X.  When it was to settle the page, it still is, or the page is settled, or
\* it met a page that follows its folder.
LEMMA Onward ==
  ASSUME IInv, SInv, NEW c \in Calls, NEW X \in Call \cup {Idle},
         calls' = [calls EXCEPT ![c] = X], UNCHANGED <<doc, runs, linked>>,
         met \subseteq met', row' = "held" => row = "held",
         "locked" \notin met /\ X # Idle => ~X.fresh.locked,
         X # Idle /\ X.at = "tally" => X.todo \subseteq linked,
         X # Idle /\ X.first.inherits => Following,
         calls[c] # Idle /\ Opens(calls[c]) /\ row' = "held" => X # Idle /\ Opens(X),
         calls[c] # Idle /\ Carries(calls[c]) /\ row' = "held" /\ Untroubled' /\ AllDecided =>
           (X # Idle /\ Carries(X)) \/ calls[c].first.inherits
  PROVE  SInv'
<1>1. \A d \in Calls : calls'[d] = IF d = c THEN X ELSE calls[d]
  BY DEF IInv, Types
<1>2. Unlocked'
  BY <1>1 DEF SInv, Unlocked
<1>3. Tallied'
  BY <1>1 DEF SInv, Tallied
<1>4. Following' => Following
  BY <1>1 DEF Following
<1>5. ASSUME NEW s \in Calls, calls[s] # Idle, Opens(calls[s]), row' = "held"
      PROVE  calls'[s] # Idle /\ Opens(calls'[s])
  BY <1>1, <1>5
<1>6. Opening'
  BY <1>4, <1>5 DEF SInv, Opening, Opens
<1>7. Settling'
  <2> SUFFICES ASSUME row' = "held", Untroubled', AllDecided'
               PROVE  \E d \in Calls : calls'[d] # Idle /\ (Carries(calls[d])' \/ Opens(calls'[d]))
    BY DEF Settling, Opens
  <2>1. row = "held" /\ Untroubled /\ AllDecided /\ "crash" \notin met
    BY DEF Untroubled, AllDecided, Has
  <2>2. PICK d \in Calls : calls[d] # Idle /\ (Carries(calls[d]) \/ Opens(calls[d]))
    BY <2>1 DEF SInv, Settling
  <2>3. CASE Opens(calls[d])
    BY <1>5, <2>2, <2>3
  <2>4. CASE Carries(calls[d]) /\ d # c
    <3>1. calls'[d] = calls[d]
      BY <1>1, <2>4
    <3> QED BY <2>2, <2>4, <3>1 DEF Carries, Has
  <2>5. CASE Carries(calls[d]) /\ d = c
    <3>1. CASE X # Idle /\ Carries(X)
      <4>1. calls'[c] = X
        BY <1>1
      <4> QED BY <3>1, <4>1 DEF Carries, Has
    <3>2. CASE calls[c].first.inherits
      <4>1. Following
        BY <2>2, <2>5, <3>2 DEF Following
      <4>2. PICK s \in Calls : calls[s] # Idle /\ Opens(calls[s])
        BY <2>1, <4>1 DEF SInv, Opening
      <4> QED BY <1>5, <4>2
    <3> QED BY <2>1, <2>2, <2>5, <3>1, <3>2
  <2> QED BY <2>2, <2>3, <2>4, <2>5
<1> QED BY <1>2, <1>3, <1>6, <1>7 DEF SInv

\* A request that was not on its way to settle the page goes on, as nothing that counts.
LEMMA Beside ==
  ASSUME IInv, SInv, NEW c \in Calls, calls[c] # Idle, NEW X \in Call \cup {Idle}, GoesOn(c, X),
         calls[c].at \notin {"page", "doc", "list", "tally", "sharing", "shared"},
         UNCHANGED <<doc, runs, linked>>, met \subseteq met', row' = "held" => row = "held",
         X # Idle => /\ X.first = calls[c].first /\ X.at # "tally"
                     /\ X.fresh \in {doc, calls[c].fresh, NoDoc}
  PROVE  SInv'
<1>1. "locked" \notin met => ~doc.locked /\ ~calls[c].fresh.locked /\ ~NoDoc.locked
  BY DEF SInv, Unlocked, NoDoc
<1>2. X # Idle /\ X.first.inherits => Following
  BY DEF Following
<1>3. ~Opens(calls[c]) /\ ~Carries(calls[c])
  BY DEF Opens, Carries
<1> QED BY <1>1, <1>2, <1>3, Onward DEF GoesOn

\* A request that forgets what it read keeps how it read the page first.
LEMMA Forgotten ==
  ASSUME NEW call \in Call, NEW at \in Places
  PROVE  LET X == [Forget(call) EXCEPT !.at = at]
         IN  X \in Call /\ X.at = at /\ X.first = call.first /\ X.fresh = NoDoc /\ X.got = {}
<1>1. 1 \in Runs /\ NoDoc \in Doc
  BY HeldAssumption DEF Runs, NoDoc, Doc
<1> QED BY <1>1 DEF Call, Forget

\* A decision that has done with its page reads nothing more of it.
LEMMA EndsAs ==
  ASSUME NEW c \in Calls, calls[c] \in Call, Ends(c)
  PROVE  \E X \in Call \cup {Idle} :
           /\ GoesOn(c, X)
           /\ X # Idle => X.first = calls[c].first /\ X.at = "next" /\ X.fresh = NoDoc
<1> DEFINE next == [Forget(calls[c]) EXCEPT !.at = "next"]
<1>1. next \in Call /\ next.first = calls[c].first /\ next.at = "next" /\ next.fresh = NoDoc
  <2>1. "next" \in Places
    BY DEF Places
  <2> QED BY ONLY <2>1, calls[c] \in Call, Forgotten
<1>2. GoesOn(c, next) \/ GoesOn(c, Idle)
  BY DEF Ends
<1> HIDE DEF next
<1> QED BY <1>1, <1>2

\* A request that was not on its way to settle the page is over, or its change goes on.
LEMMA BesideEnds ==
  ASSUME IInv, SInv, NEW c \in Calls, calls[c] # Idle, Ends(c),
         calls[c].at \notin {"page", "doc", "list", "tally", "sharing", "shared"},
         UNCHANGED <<doc, runs, linked>>, met \subseteq met', row' = "held" => row = "held"
  PROVE  SInv'
<1>1. PICK X \in Call \cup {Idle} :
        /\ GoesOn(c, X)
        /\ X # Idle => X.first = calls[c].first /\ X.at = "next" /\ X.fresh = NoDoc
  BY Known, EndsAs
<1> QED BY <1>1, Beside

\* A request on its way has done with the page, because it is settled, something got in the way,
\* or the page follows its folder.
LEMMA CarrierEnds ==
  ASSUME IInv, SInv, NEW c \in Calls, calls[c] # Idle, Ends(c),
         calls[c].at \in {"page", "doc", "list", "tally"},
         UNCHANGED <<doc, runs, linked>>, met \subseteq met', row' = "held" => row = "held",
         Carries(calls[c]) /\ row' = "held" /\ Untroubled' /\ AllDecided => calls[c].first.inherits
  PROVE  SInv'
<1>1. PICK X \in Call \cup {Idle} :
        /\ GoesOn(c, X)
        /\ X # Idle => X.first = calls[c].first /\ X.at = "next" /\ X.fresh = NoDoc
  BY Known, EndsAs
<1>2. ~Opens(calls[c]) /\ ~NoDoc.locked
  BY DEF Opens, NoDoc
<1>3. X # Idle /\ X.first.inherits => Following
  BY <1>1 DEF Following
<1> QED BY <1>1, <1>2, <1>3, Onward DEF GoesOn

\* changePageOf: the page is settled, or follows its folder, or its row is read on.
LEMMA ReadRowSettles == ASSUME IInv, SInv, NEW c \in Calls, ReadRow(c) PROVE SInv'
<1>1. calls[c] \in Call /\ calls[c] # Idle /\ calls[c].at = "page" /\ UNCHANGED <<row, doc, runs, linked, met>>
  BY Known DEF ReadRow, At
<1>2. CASE calls[c].first.inherits \/ row # "held"
  BY <1>1, <1>2, CarrierEnds DEF ReadRow
<1>3. CASE ~(calls[c].first.inherits \/ row # "held")
  <2> DEFINE X == [calls[c] EXCEPT !.at = "doc"]
  <2>1. X \in Call /\ X.at = "doc" /\ X.fresh = calls[c].fresh /\ X.first = calls[c].first
    BY <1>1 DEF Call, Places
  <2>2. calls' = [calls EXCEPT ![c] = X]
    BY <1>3 DEF ReadRow, To, GoesOn
  <2> HIDE DEF X
  <2>3. ~Opens(calls[c]) /\ Carries(X) /\ ("locked" \notin met => ~X.fresh.locked)
    BY <1>1, <2>1 DEF Opens, Carries, SInv, Unlocked
  <2>4. X.first.inherits => Following
    BY <1>1, <2>1 DEF Following
  <2> QED BY <1>1, <2>1, <2>2, <2>3, <2>4, IdleAssumption, Onward
<1> QED BY <1>2, <1>3

\* getDoc: the page is read unlocked, if nobody locked it.
LEMMA ReadDocSettles == ASSUME IInv, SInv, NEW c \in Calls, ReadDoc(c) PROVE SInv'
<1> DEFINE X == [calls[c] EXCEPT !.at = "list", !.fresh = doc]
<1>1. /\ calls[c] \in Call /\ doc \in Doc /\ calls[c] # Idle /\ calls[c].at = "doc"
      /\ UNCHANGED <<row, doc, runs, linked, met>>
  BY Known DEF ReadDoc, At
<1>2. X \in Call /\ X.at = "list" /\ X.fresh = doc /\ X.first = calls[c].first
  BY <1>1 DEF Call, Places
<1>3. calls' = [calls EXCEPT ![c] = X]
  BY DEF ReadDoc, GoesOn
<1> HIDE DEF X
<1>4. ~Opens(calls[c]) /\ Carries(X) /\ ("locked" \notin met => ~X.fresh.locked)
  BY <1>1, <1>2 DEF Opens, Carries, SInv, Unlocked
<1>5. X.first.inherits => Following
  BY <1>1, <1>2 DEF Following
<1> QED BY <1>1, <1>2, <1>3, <1>4, <1>5, IdleAssumption, Onward

\* listChangeRuns: with everything decided, what is listed settles the page.
LEMMA ListRunsSettles == ASSUME IInv, SInv, NEW c \in Calls, ListRuns(c) PROVE SInv'
<1> DEFINE X == [calls[c] EXCEPT !.at = "tally", !.todo = linked, !.got = {}]
<1>1. /\ calls[c] \in Call /\ linked \in SUBSET Runs /\ calls[c] # Idle /\ calls[c].at = "list"
      /\ UNCHANGED <<row, doc, runs, linked, met>>
  BY Known DEF ListRuns, At, IInv, Types, TypeOK
<1>2. CASE linked = {}
  BY <1>1, <1>2, CarrierEnds DEF ListRuns, AllDecided
<1>3. CASE linked # {}
  <2>1. /\ X \in Call /\ X.at = "tally" /\ X.fresh = calls[c].fresh /\ X.first = calls[c].first
        /\ X.todo = linked /\ X.got = {}
    BY <1>1 DEF Call, Places
  <2>2. calls' = [calls EXCEPT ![c] = X]
    BY <1>3 DEF ListRuns, GoesOn
  <2> HIDE DEF X
  <2>3. ~Opens(calls[c]) /\ (AllDecided => Carries(X)) /\ ("locked" \notin met => ~X.fresh.locked)
    BY <1>1, <2>1 DEF Opens, Carries, SInv, Unlocked, AllDecided
  <2>4. X.first.inherits => Following
    BY <1>1, <2>1 DEF Following
  <2> QED BY <1>1, <2>1, <2>2, <2>3, <2>4, IdleAssumption, Onward
<1> QED BY <1>2, <1>3

\* tallyRuns: what is read of one run was yet to be read.
LEMMA TallySettles == ASSUME IInv, SInv, NEW c \in Calls, Tally(c) PROVE SInv'
<1> DEFINE r == First(calls[c].todo)
           X == [calls[c] EXCEPT !.todo = @ \ {r}, !.got = @ \cup StatusesIn(r)]
<1>1. /\ calls[c] \in Call /\ calls[c] # Idle /\ calls[c].at = "tally" /\ calls[c].todo # {}
      /\ UNCHANGED <<row, doc, runs, linked, met>>
  BY Known DEF Tally, At
<1>2. r \in Runs /\ r \in calls[c].todo /\ calls[c].todo \subseteq linked
  BY <1>1, FirstIn DEF Call, SInv, Tallied
<1>3. StatusesIn(r) \subseteq Statuses /\ \A s \in Statuses \ {"none"} : s \in StatusesIn(r) <=> Has(r, s)
  BY <1>2 DEF IInv, Types, TypeOK, StatusesIn, Has
<1>4. calls' = [calls EXCEPT ![c] = X]
  BY DEF Tally, ReadsNext, GoesOn
<1> HIDE DEF r
<1>5. /\ X \in Call /\ X.at = "tally" /\ X.fresh = calls[c].fresh /\ X.first = calls[c].first
      /\ X.todo = calls[c].todo \ {r} /\ X.got = calls[c].got \cup StatusesIn(r)
  BY <1>1, <1>3 DEF Call
<1> HIDE DEF X
<1>6. AllDecided /\ Carries(calls[c]) => Carries(X)
  <2> SUFFICES ASSUME AllDecided, Carries(calls[c]) PROVE Carries(X)
    OBVIOUS
  <2>1. "pending" \notin X.got
    BY <1>1, <1>2, <1>3, <1>5 DEF AllDecided, Carries, Statuses
  <2>2. CASE calls[c].got \cap {"accepted", "rejected"} # {}
    BY <1>5, <2>1, <2>2 DEF Carries
  <2>3. ASSUME NEW q \in calls[c].todo, Has(q, "accepted") \/ Has(q, "rejected") PROVE Carries(X)
    <3>1. CASE q = r
      BY <1>3, <1>5, <2>1, <2>3, <3>1 DEF Carries, Statuses
    <3>2. CASE q # r
      BY <1>5, <2>1, <2>3, <3>2 DEF Carries
    <3> QED BY <3>1, <3>2
  <2> QED BY <1>1, <2>2, <2>3 DEF Carries
<1>7. ~Opens(calls[c]) /\ ("locked" \notin met => ~X.fresh.locked)
  BY <1>1, <1>5 DEF Opens, SInv, Unlocked
<1>8. X.first.inherits => Following
  BY <1>1, <1>5 DEF Following
<1> QED BY <1>1, <1>2, <1>4, <1>5, <1>6, <1>7, <1>8, IdleAssumption, Onward

\* Nothing waits and something was decided: the page is settled, unless it was before.
LEMMA SettleSettles == ASSUME IInv, SInv, NEW c \in Calls, Settle(c) PROVE SInv'
<1>1. /\ calls[c] \in Call /\ calls[c] # Idle /\ calls[c].at = "tally" /\ calls[c].todo = {}
      /\ UNCHANGED <<doc, runs, linked, met>>
  BY Known DEF Settle, At
<1>2. CASE Ends(c) /\ UNCHANGED row
  <2>1. Carries(calls[c]) /\ row = "held" /\ Untroubled => FALSE
    <3> SUFFICES ASSUME Carries(calls[c]), row = "held", Untroubled PROVE FALSE
      OBVIOUS
    <3>1. "pending" \notin calls[c].got /\ calls[c].got \cap {"accepted", "rejected"} # {}
      BY <1>1 DEF Carries
    <3>2. ~calls[c].fresh.locked
      BY <1>1 DEF Untroubled, SInv, Unlocked
    <3>3. Releases(c) \/ Removes(c)
      BY <3>1 DEF Settle
    <3>4. row' # "held"
      BY <3>2, <3>3 DEF Releases, Removes, SettleRow
    <3> QED BY <1>2, <3>4
  <2> QED BY <1>1, <1>2, <2>1, CarrierEnds DEF Untroubled
<1>3. ASSUME NEW at \in {"grants", "trash"}, row' # "held", GoesOn(c, [calls[c] EXCEPT !.at = at, !.got = {}])
      PROVE  SInv'
  <2> DEFINE X == [calls[c] EXCEPT !.at = at, !.got = {}]
  <2>1. X \in Call /\ X.at = at /\ X.fresh = calls[c].fresh /\ X.first = calls[c].first
    BY <1>1 DEF Call, Places
  <2>2. calls' = [calls EXCEPT ![c] = X]
    BY <1>3 DEF GoesOn
  <2> HIDE DEF X
  <2>3. "locked" \notin met => ~X.fresh.locked
    BY <1>1, <2>1 DEF SInv, Unlocked
  <2>4. X.first.inherits => Following
    BY <1>1, <2>1 DEF Following
  <2> QED BY <1>1, <1>3, <2>1, <2>2, <2>3, <2>4, Onward
<1> QED BY <1>2, <1>3 DEF Settle, Releases, Removes, SettleRow

\* The page's grants are read for its release.
LEMMA ReadGrantsSettles == ASSUME IInv, SInv, NEW c \in Calls, ReadGrants(c) PROVE SInv'
<1> DEFINE X == [calls[c] EXCEPT !.at = "access", !.fresh = doc]
<1>1. calls[c] \in Call /\ doc \in Doc /\ calls[c] # Idle /\ calls[c].at = "grants"
  BY Known DEF ReadGrants, At
<1>2. X \in Call /\ X.at = "access" /\ X.fresh = doc /\ X.first = calls[c].first
  BY <1>1 DEF Call, Places
<1>3. GoesOn(c, X) /\ UNCHANGED <<row, doc, runs, linked, met>>
  BY DEF ReadGrants
<1> HIDE DEF X
<1> QED BY <1>1, <1>2, <1>3, Beside

\* A release is over once its event is sent, or was not stored.
LEMMA AnnounceSettles == ASSUME IInv, SInv, NEW c \in Calls, Announce(c) \/ Unsent(c) PROVE SInv'
<1>1. calls[c] # Idle /\ calls[c].at = "announce" /\ Ends(c) /\ UNCHANGED <<row, doc, runs, linked>> /\ met \subseteq met'
  BY DEF Announce, Unsent, Strikes, Note, At
<1> QED BY <1>1, BesideEnds

\* A run of the card is read.
LEMMA ReadCardSettles == ASSUME IInv, SInv, NEW c \in Calls, ReadCard(c) PROVE SInv'
<1> DEFINE r == First(calls[c].todo)
           Y == [calls[c] EXCEPT !.todo = @ \ {r}, !.waits = IF Has(r, "pending") THEN @ \cup {r} ELSE @]
           Z == [calls[c] EXCEPT !.at = "next"]
<1>1. calls[c] \in Call /\ calls[c] # Idle /\ calls[c].at = "card" /\ UNCHANGED <<row, doc, runs, linked, met>>
  BY Known DEF ReadCard, At
<1>2. (calls[c].todo = {} /\ GoesOn(c, Z)) \/ (calls[c].todo # {} /\ GoesOn(c, Y))
  BY DEF ReadCard, To
<1>3. Z \in Call /\ Z.at = "next" /\ Z.first = calls[c].first /\ Z.fresh = calls[c].fresh
  BY <1>1 DEF Call, Places
<1>4. calls[c].todo # {} => Y \in Call /\ Y.at = "card" /\ Y.first = calls[c].first /\ Y.fresh = calls[c].fresh
  BY <1>1, FirstIn DEF Call
<1> HIDE DEF Y, Z
<1> QED BY <1>1, <1>2, <1>3, <1>4, Beside

\* The next run of the change is decided, or left for the lock.
LEMMA NextRunSettles == ASSUME IInv, SInv, NEW c \in Calls, NextRun(c) PROVE SInv'
<1> DEFINE r == First(calls[c].waits)
           on == [calls[c] EXCEPT !.waits = @ \ {r}]
           Y == [on EXCEPT !.left = TRUE]
           Z == [on EXCEPT !.at = "actor", !.run = r]
<1>1. /\ calls[c] \in Call /\ calls[c] # Idle /\ calls[c].at = "next" /\ calls[c].waits # {}
      /\ UNCHANGED <<row, doc, runs, linked, met>>
  BY Known DEF NextRun, At
<1>2. r \in Runs
  BY <1>1, FirstIn DEF Call
<1>3. GoesOn(c, Y) \/ GoesOn(c, Z)
  BY DEF NextRun
<1> HIDE DEF r
<1>4. Y \in Call /\ Y.at = "next" /\ Y.first = calls[c].first /\ Y.fresh = calls[c].fresh
  BY <1>1, <1>2 DEF Call
<1>5. Z \in Call /\ Z.at = "actor" /\ Z.first = calls[c].first /\ Z.fresh = calls[c].fresh
  BY <1>1, <1>2 DEF Call, Places
<1> HIDE DEF Y, Z
<1> QED BY <1>1, <1>3, <1>4, <1>5, Beside

\* The change's pages are read again.
LEMMA ReadPagesSettles == ASSUME IInv, SInv, NEW c \in Calls, ReadPages(c) PROVE SInv'
<1> DEFINE X == [calls[c] EXCEPT !.at = "waiting", !.todo = calls[c].view, !.got = {}]
<1>1. calls[c] \in Call /\ calls[c] # Idle /\ calls[c].at = "next" /\ UNCHANGED <<row, doc, runs, linked, met>>
  BY Known DEF ReadPages, At
<1>2. X \in Call /\ X.at = "waiting" /\ X.first = calls[c].first /\ X.fresh = calls[c].fresh
  BY <1>1 DEF Call, Places
<1>3. GoesOn(c, X) \/ GoesOn(c, Idle)
  BY DEF ReadPages
<1> HIDE DEF X
<1> QED BY <1>1, <1>2, <1>3, Beside

\* A run of the card is read again.
LEMMA ReadAgainSettles == ASSUME IInv, SInv, NEW c \in Calls, ReadAgain(c) PROVE SInv'
<1> DEFINE r == First(calls[c].todo)
           X == [calls[c] EXCEPT !.todo = @ \ {r}, !.got = @ \cup StatusesIn(r)]
<1>1. /\ calls[c] \in Call /\ calls[c] # Idle /\ calls[c].at \in {"waiting", "landed"} /\ calls[c].todo # {}
      /\ UNCHANGED <<row, doc, runs, linked, met>>
  BY Known DEF ReadAgain
<1>2. r \in Runs
  BY <1>1, FirstIn DEF Call
<1>3. StatusesIn(r) \subseteq Statuses
  BY <1>2 DEF IInv, Types, TypeOK, StatusesIn
<1>4. GoesOn(c, X)
  BY DEF ReadAgain, ReadsNext
<1> HIDE DEF r
<1>5. X \in Call /\ X.at = calls[c].at /\ X.first = calls[c].first /\ X.fresh = calls[c].fresh
  BY <1>1, <1>3 DEF Call
<1> HIDE DEF X
<1> QED BY <1>1, <1>4, <1>5, Beside

\* Nothing of the card waits, and the page is read as it is.
LEMMA NoneWaitingSettles == ASSUME IInv, SInv, NEW c \in Calls, NoneWaiting(c) PROVE SInv'
<1> DEFINE again == IF calls[c].decision = "reject" THEN calls[c].view ELSE {}
           X == [calls[c] EXCEPT !.at = "landed", !.fresh = doc, !.got = {}, !.todo = again]
<1>1. /\ calls[c] \in Call /\ doc \in Doc /\ calls[c] # Idle /\ calls[c].at = "waiting"
      /\ UNCHANGED <<row, doc, runs, linked, met>>
  BY Known DEF NoneWaiting, At
<1>2. again \in SUBSET Runs
  BY <1>1 DEF Call
<1>3. GoesOn(c, X) \/ GoesOn(c, Idle)
  BY DEF NoneWaiting
<1> HIDE DEF again
<1>4. X \in Call /\ X.at = "landed" /\ X.first = calls[c].first /\ X.fresh = doc
  BY <1>1, <1>2 DEF Call, Places
<1> HIDE DEF X
<1> QED BY <1>1, <1>3, <1>4, Beside

\* The page is decided as a page, which settles it or leaves it alone.
LEMMA SettlePageSettles == ASSUME IInv, SInv, NEW c \in Calls, SettlePage(c) PROVE SInv'
<1> DEFINE at == IF calls[c].decision = "accept" THEN "grants" ELSE "trash"
           X == [calls[c] EXCEPT !.scope = "run", !.at = at]
<1>1. /\ calls[c] \in Call /\ calls[c] # Idle /\ calls[c].at = "landed"
      /\ UNCHANGED <<doc, runs, linked>> /\ met \subseteq met' /\ (row' = "held" => row = "held")
  BY Known DEF SettlePage, At, Note
<1>2. GoesOn(c, X) \/ GoesOn(c, Idle)
  BY DEF SettlePage
<1>3. at \in {"grants", "trash"}
  OBVIOUS
<1> HIDE DEF at
<1>4. X \in Call /\ X.at = at /\ X.first = calls[c].first /\ X.fresh = calls[c].fresh
  BY <1>1, <1>3 DEF Call, Places, Scopes
<1> HIDE DEF X
<1> QED BY <1>1, <1>2, <1>3, <1>4, Beside

\* A run that cannot be read is trouble; it counts only for a request on its way.
LEMMA UnreadableSettles == ASSUME IInv, SInv, NEW c \in Calls, Unreadable(c) PROVE SInv'
<1> DEFINE r == First(calls[c].todo)
           Y == [calls[c] EXCEPT !.todo = @ \ {r}, !.view = @ \ {r}, !.left = TRUE]
<1>1. calls[c] \in Call /\ calls[c] # Idle /\ calls[c].at \in {"card", "tally", "waiting", "landed"}
  BY Known DEF Unreadable
<1>2. met \subseteq met' /\ "unread" \in met' /\ UNCHANGED <<row, doc, runs, linked>>
  BY DEF Unreadable, Strikes, Note
<1>3. CASE calls[c].at = "card"
  <2>1. GoesOn(c, Y)
    BY <1>3 DEF Unreadable
  <2> HIDE DEF r
  <2>2. Y \in Call /\ Y.at = "card" /\ Y.first = calls[c].first /\ Y.fresh = calls[c].fresh
    BY <1>1, <1>3 DEF Call
  <2> HIDE DEF Y
  <2> QED BY <1>1, <1>2, <1>3, <2>1, <2>2, Beside
<1>4. CASE calls[c].at = "tally"
  <2>1. Ends(c)
    BY <1>4 DEF Unreadable
  <2> QED BY <1>1, <1>2, <1>4, <2>1, CarrierEnds DEF Untroubled
<1>5. CASE calls[c].at \in {"waiting", "landed"}
  <2>1. GoesOn(c, Idle)
    BY <1>5 DEF Unreadable
  <2> QED BY <1>1, <1>2, <1>5, <2>1, Beside
<1> QED BY <1>1, <1>3, <1>4, <1>5

\* releasedBySharing goes on to release a page that did not follow its folder before.
LEMMA ReadSharedSettles == ASSUME IInv, SInv, NEW c \in Calls, ReadShared(c) PROVE SInv'
<1> DEFINE X == [calls[c] EXCEPT !.at = "shared"]
<1>1. /\ calls[c] \in Call /\ calls[c] # Idle /\ calls[c].at = "sharing"
      /\ UNCHANGED <<row, doc, runs, linked, met>>
  BY Known DEF ReadShared, At
<1>2. ~Carries(calls[c])
  BY <1>1 DEF Carries
<1>3. CASE calls[c].first.inherits \/ row # "held"
  <2>1. calls' = [calls EXCEPT ![c] = Idle]
    BY <1>3 DEF ReadShared, GoesOn
  <2>2. ~(Opens(calls[c]) /\ row' = "held")
    BY <1>1, <1>3 DEF Opens
  <2> QED BY <1>1, <1>2, <2>1, <2>2, Onward
<1>4. CASE ~(calls[c].first.inherits \/ row # "held")
  <2>1. calls' = [calls EXCEPT ![c] = X]
    BY <1>4 DEF ReadShared, To, GoesOn
  <2>2. X \in Call /\ X.at = "shared" /\ X.first = calls[c].first /\ X.fresh = calls[c].fresh
    BY <1>1 DEF Call, Places
  <2> HIDE DEF X
  <2>3. Opens(X) /\ ("locked" \notin met => ~X.fresh.locked) /\ ~X.first.inherits
    BY <1>1, <1>4, <2>2 DEF Opens, SInv, Unlocked
  <2> QED BY <1>1, <1>2, <2>1, <2>2, <2>3, IdleAssumption, Onward
<1> QED BY <1>3, <1>4

\* The sharing releases the page, or finds it settled.
LEMMA ReleaseSharedSettles == ASSUME IInv, SInv, NEW c \in Calls, ReleaseShared(c) PROVE SInv'
<1> DEFINE X == [calls[c] EXCEPT !.at = "announce", !.got = {}]
<1>1. /\ calls[c] \in Call /\ calls[c] # Idle /\ calls[c].at = "shared"
      /\ UNCHANGED <<doc, runs, linked, met>>
  BY Known DEF ReleaseShared, At
<1>2. ~Carries(calls[c])
  BY <1>1 DEF Carries
<1>3. CASE row = "held"
  <2>1. calls' = [calls EXCEPT ![c] = X] /\ row' = "released"
    BY <1>3 DEF ReleaseShared, SettleRow, GoesOn
  <2>2. X \in Call /\ X.at = "announce" /\ X.first = calls[c].first /\ X.fresh = calls[c].fresh
    BY <1>1 DEF Call, Places
  <2> HIDE DEF X
  <2>3. ("locked" \notin met => ~X.fresh.locked) /\ (X.first.inherits => Following)
    BY <1>1, <2>2 DEF Following, SInv, Unlocked
  <2> QED BY <1>1, <1>2, <2>1, <2>2, <2>3, Onward
<1>4. CASE row # "held"
  <2>1. Ends(c) /\ row' = row
    BY <1>4 DEF ReleaseShared, SettleRow
  <2>2. PICK Z \in Call \cup {Idle} :
          /\ GoesOn(c, Z)
          /\ Z # Idle => Z.first = calls[c].first /\ Z.at = "next" /\ Z.fresh = NoDoc
    BY <1>1, <2>1, EndsAs
  <2>3. (Z # Idle /\ Z.first.inherits => Following) /\ ~NoDoc.locked
    BY <1>1, <2>2 DEF Following, NoDoc
  <2> QED BY <1>1, <1>2, <1>4, <2>1, <2>2, <2>3, Onward DEF GoesOn
<1> QED BY <1>3, <1>4

\* A decision lands at the actor: its request is on its way to settle the page.
LEMMA AtTheActorSettles == ASSUME IInv, SInv, NEW c \in Calls, AtTheActor(c) PROVE SInv'
<1> DEFINE Y == [Forget(calls[c]) EXCEPT !.at = "next", !.left = TRUE]
           X == [Forget(calls[c]) EXCEPT !.at = "page"]
<1>1. calls[c] \in Call /\ calls[c] # Idle /\ calls[c].at = "actor" /\ UNCHANGED <<row, doc, linked>>
  BY Known DEF AtTheActor, At
<1>2. {"next", "page"} \subseteq Places
  BY DEF Places
<1>3. X \in Call /\ X.at = "page" /\ X.first = calls[c].first /\ X.fresh = NoDoc
  BY ONLY <1>1, <1>2, Forgotten
<1>4. Y \in Call /\ Y.at = "next" /\ Y.first = calls[c].first /\ Y.fresh = NoDoc
  <2> DEFINE Z == [Forget(calls[c]) EXCEPT !.at = "next"]
  <2>1. Z \in Call /\ Z.at = "next" /\ Z.first = calls[c].first /\ Z.fresh = NoDoc
    BY ONLY <1>1, <1>2, Forgotten
  <2>2. Y = [Z EXCEPT !.left = TRUE]
    OBVIOUS
  <2> HIDE DEF Y, Z
  <2> QED BY <2>1, <2>2 DEF Call
<1>5. \/ (GoesOn(c, Y) \/ GoesOn(c, Idle)) /\ UNCHANGED <<runs, met>>
      \/ GoesOn(c, X) /\ met \subseteq met'
  BY DEF AtTheActor, Note
<1> HIDE DEF X, Y
<1>6. CASE (GoesOn(c, Y) \/ GoesOn(c, Idle)) /\ UNCHANGED <<runs, met>>
  BY <1>1, <1>4, <1>6, Beside
<1>7. CASE GoesOn(c, X) /\ met \subseteq met'
  <2>1. \A d \in Calls : calls'[d] = IF d = c THEN X ELSE calls[d]
    BY <1>7 DEF IInv, Types, GoesOn
  <2>2. Unlocked'
    BY <1>1, <1>3, <1>7, <2>1 DEF SInv, Unlocked, NoDoc
  <2>3. Tallied'
    BY <1>1, <1>3, <2>1 DEF SInv, Tallied
  <2>4. Opening'
    <3> SUFFICES ASSUME row' = "held", "crash" \notin met', Following'
                 PROVE  \E s \in Calls : calls'[s] # Idle /\ Opens(calls'[s])
      BY DEF Opening, Opens
    <3>1. Following
      BY <1>1, <1>3, <2>1 DEF Following
    <3>2. PICK s \in Calls : calls[s] # Idle /\ Opens(calls[s])
      BY <1>1, <1>7, <3>1 DEF SInv, Opening
    <3>3. s # c
      BY <1>1, <3>2 DEF Opens
    <3> QED BY <2>1, <3>2, <3>3
  <2>5. Settling'
    <3>1. calls'[c] = X /\ X # Idle
      BY <1>3, <2>1, IdleAssumption
    <3>2. Carries(calls[c])'
      BY <1>3, <3>1 DEF Carries
    <3> QED BY <3>1, <3>2 DEF Settling
  <2> QED BY <2>2, <2>3, <2>4, <2>5 DEF SInv
<1> QED BY <1>5, <1>6, <1>7

\* A request begins with the page as it is, on its way to nothing.
LEMMA BeginsBeside ==
  ASSUME IInv, SInv, NEW c \in Calls, calls[c] = Idle, NEW X \in Call,
         calls' = [calls EXCEPT ![c] = X], X.at \in {"actor", "card", "share"},
         X.first = doc, ~X.fresh.locked, UNCHANGED <<row, doc, runs, linked, met>>
  PROVE  SInv'
<1>1. X.first.inherits => Following
  BY DEF Following
<1> QED BY <1>1, Onward

\* A decision on one run begins.
LEMMA DecideRunSettles ==
  ASSUME IInv, SInv, NEW c \in Calls, NEW d \in Decisions, NEW r \in Runs, NEW S \in SUBSET Items, DecideRun(c, d, r, S)
  PROVE  SInv'
<1> DEFINE X == Ask("run", d, "actor", r, S, {})
<1>1. doc \in Doc /\ "run" \in Scopes /\ "actor" \in Places /\ {} \in SUBSET Runs
  BY DEF IInv, Types, TypeOK, Scopes, Places
<1>2. X \in Call /\ X.at = "actor" /\ X.got = {}
  BY ONLY <1>1, AskOK
<1>3. X.first = doc /\ ~X.fresh.locked
  BY DEF Ask, NoDoc
<1>4. calls[c] = Idle /\ calls' = [calls EXCEPT ![c] = X] /\ UNCHANGED <<row, doc, runs, linked, met>>
  BY DEF DecideRun, Begins
<1> HIDE DEF X
<1> QED BY <1>2, <1>3, <1>4, BeginsBeside

\* A decision on a change begins.
LEMMA DecideChangeSettles ==
  ASSUME IInv, SInv, NEW c \in Calls, NEW d \in {"accept", "reject"}, DecideChange(c, d)
  PROVE  SInv'
<1> DEFINE X == Ask("change", d, "card", 1, Items, linked)
<1>1. /\ doc \in Doc /\ "change" \in Scopes /\ "card" \in Places /\ linked \in SUBSET Runs
      /\ d \in Decisions /\ Items \in SUBSET Items
  BY DEF IInv, Types, TypeOK, Scopes, Places, Decisions
<1>2. 1 \in Runs
  BY HeldAssumption DEF Runs
<1>3. X \in Call /\ X.at = "card"
  <2>1. NoDoc \in Doc
    BY DEF NoDoc, Doc
  <2> QED BY ONLY <1>1, <1>2, <2>1 DEF Ask, Call, X
<1>4. X.first = doc /\ ~X.fresh.locked
  BY DEF Ask, NoDoc
<1>5. calls[c] = Idle /\ calls' = [calls EXCEPT ![c] = X] /\ UNCHANGED <<row, doc, runs, linked, met>>
  BY DEF DecideChange, Begins
<1> HIDE DEF X
<1> QED BY <1>3, <1>4, <1>5, BeginsBeside

\* The owner's sharing begins.
LEMMA ShareSettles ==
  ASSUME IInv, SInv, NEW c \in Calls, NEW own \in Sharings, NEW inherits \in BOOLEAN, Share(c, own, inherits)
  PROVE  SInv'
<1> DEFINE Y == Ask("share", "accept", "share", 1, {}, {})
           granted == [NoDoc EXCEPT !.own = own, !.inherits = inherits]
           X == [Y EXCEPT !.fresh = granted]
<1>1. /\ doc \in Doc /\ "share" \in Scopes /\ "share" \in Places /\ "accept" \in Decisions
      /\ {} \in SUBSET Runs /\ {} \in SUBSET Items
  BY DEF IInv, Types, TypeOK, Scopes, Places, Decisions
<1>2. 1 \in Runs /\ own \in SUBSET Grants
  BY HeldAssumption DEF Runs, Grants
<1>3. Y \in Call /\ Y.at = "share" /\ Y.got = {}
  BY ONLY <1>1, <1>2, AskOK
<1>4. Y.first = doc
  BY DEF Ask
<1>5. granted \in Doc /\ ~granted.locked
  BY <1>2 DEF NoDoc, Doc
<1>6. calls[c] = Idle /\ calls' = [calls EXCEPT ![c] = X] /\ UNCHANGED <<row, doc, runs, linked, met>>
  BY DEF Share
<1> HIDE DEF Y, granted
<1>7. X \in Call /\ X.at = "share" /\ X.first = doc /\ X.fresh = granted
  BY <1>3, <1>4, <1>5 DEF Call
<1> HIDE DEF X
<1> QED BY <1>5, <1>6, <1>7, BeginsBeside

\* A page that is settled stays so: what its release or its trash does needs nobody on its way.
LEMMA Settled ==
  ASSUME IInv, SInv, NEW c \in Calls, NEW X \in Call \cup {Idle}, GoesOn(c, X), row # "held",
         UNCHANGED <<row, linked, met>>, doc'.locked = doc.locked,
         X # Idle => X.at # "tally" /\ X.fresh = NoDoc
  PROVE  SInv'
<1>1. \A d \in Calls : calls'[d] = IF d = c THEN X ELSE calls[d]
  BY DEF IInv, Types, GoesOn
<1>2. Unlocked'
  BY <1>1 DEF SInv, Unlocked, NoDoc
<1>3. Tallied'
  BY <1>1 DEF SInv, Tallied
<1> QED BY <1>2, <1>3 DEF SInv, Opening, Settling

\* A released page takes its folder's access.
LEMMA TakeAccessSettles == ASSUME IInv, SInv, NEW c \in Calls, TakeAccess(c) PROVE SInv'
<1> DEFINE X == [Forget(calls[c]) EXCEPT !.at = "announce"]
<1>1. /\ calls[c] \in Call /\ Good(calls[c]) /\ doc \in Doc /\ calls[c] # Idle /\ calls[c].at = "access"
      /\ GoesOn(c, X) /\ UNCHANGED <<row, linked, met>>
  BY Known DEF TakeAccess, At
<1>2. "announce" \in Places
  BY DEF Places
<1>3. X \in Call /\ X.at = "announce" /\ X.fresh = NoDoc
  BY ONLY <1>1, <1>2, Forgotten
<1>4. doc'.locked = doc.locked
  BY <1>1 DEF TakeAccess, Doc
<1>5. row # "held"
  BY <1>1 DEF Good, Releasing
<1> HIDE DEF X
<1> QED BY <1>1, <1>3, <1>4, <1>5, Settled

\* A removed page goes to the trash.
LEMMA TrashSettles == ASSUME IInv, SInv, NEW c \in Calls, Trash(c) PROVE SInv'
<1>1. /\ calls[c] \in Call /\ Good(calls[c]) /\ doc \in Doc /\ calls[c] # Idle /\ calls[c].at = "trash"
      /\ Ends(c) /\ UNCHANGED <<row, linked, met>>
  BY Known DEF Trash, At
<1>2. PICK X \in Call \cup {Idle} :
        /\ GoesOn(c, X)
        /\ X # Idle => X.first = calls[c].first /\ X.at = "next" /\ X.fresh = NoDoc
  BY <1>1, EndsAs
<1>3. doc'.locked = doc.locked
  BY <1>1 DEF Trash, Doc
<1>4. row # "held"
  BY <1>1 DEF Good
<1> QED BY <1>1, <1>2, <1>3, <1>4, Settled

\* The sharing that has a held page follow its folder is the one to release it, or another is.
LEMMA SetSharingSettles == ASSUME IInv, SInv, NEW c \in Calls, SetSharing(c) PROVE SInv'
<1> DEFINE X == [Forget(calls[c]) EXCEPT !.at = "sharing"]
<1>1. /\ calls[c] \in Call /\ doc \in Doc /\ calls[c] # Idle /\ calls[c].at = "share"
      /\ GoesOn(c, X) /\ UNCHANGED <<row, runs, linked>> /\ met' = met \cup {"shared"}
  BY Known DEF SetSharing, At, Note
<1>2. "sharing" \in Places
  BY DEF Places
<1>3. X \in Call /\ X.at = "sharing" /\ X.first = calls[c].first /\ X.fresh = NoDoc
  BY ONLY <1>1, <1>2, Forgotten
<1>4. doc'.locked = doc.locked
  BY <1>1 DEF SetSharing, Doc
<1> HIDE DEF X
<1>5. \A d \in Calls : calls'[d] = IF d = c THEN X ELSE calls[d]
  BY <1>1 DEF IInv, Types, GoesOn
<1>6. calls'[c] = X /\ X # Idle
  BY <1>3, <1>5, IdleAssumption
<1>7. Unlocked'
  BY <1>1, <1>3, <1>4, <1>5 DEF SInv, Unlocked, NoDoc
<1>8. Tallied'
  BY <1>1, <1>3, <1>5 DEF SInv, Tallied
<1>9. Opening'
  <2> SUFFICES ASSUME row' = "held", "crash" \notin met'
               PROVE  \E s \in Calls : calls'[s] # Idle /\ Opens(calls'[s])
    BY DEF Opening, Opens
  <2>1. CASE ~X.first.inherits
    BY <1>3, <1>6, <2>1 DEF Opens
  <2>2. CASE X.first.inherits
    <3>1. Following
      BY <1>1, <1>3, <2>2 DEF Following
    <3>2. PICK s \in Calls : calls[s] # Idle /\ Opens(calls[s])
      BY <1>1, <3>1 DEF SInv, Opening
    <3>3. s # c
      BY <1>1, <3>2 DEF Opens
    <3> QED BY <1>5, <3>2, <3>3
  <2> QED BY <2>1, <2>2
<1>10. Settling'
  <2> SUFFICES ASSUME row' = "held", Untroubled', AllDecided'
               PROVE  \E d \in Calls : calls'[d] # Idle /\ (Carries(calls[d])' \/ Opens(calls'[d]))
    BY DEF Settling, Opens
  <2>1. row = "held" /\ Untroubled /\ AllDecided
    BY <1>1 DEF Untroubled, AllDecided, Has
  <2>2. PICK d \in Calls : calls[d] # Idle /\ (Carries(calls[d]) \/ Opens(calls[d]))
    BY <2>1 DEF SInv, Settling
  <2>3. d # c
    BY <1>1, <2>2 DEF Carries, Opens
  <2>4. calls'[d] = calls[d]
    BY <1>5, <2>3
  <2> QED BY <1>1, <2>2, <2>4 DEF Carries, Has
<1> QED BY <1>7, <1>8, <1>9, <1>10 DEF SInv

\* An item waits, in a run of the change or in one that is none yet.
LEMMA Waits ==
  ASSUME IInv, SInv, NEW r \in Runs, NEW i \in Items,
         runs' = [runs EXCEPT ![r].items[i] = "pending"],
         UNCHANGED <<row, doc, linked, calls>>, met \subseteq met'
  PROVE  SInv'
<1>1. Unlocked' /\ Tallied'
  BY DEF SInv, Unlocked, Tallied
<1>2. Opening'
  BY DEF SInv, Opening, Following, Opens
<1>3. /\ Has(r, "pending")'
      /\ \A q \in Runs \ {r}, s \in Statuses : Has(q, s)' <=> Has(q, s)
  BY DEF IInv, Types, TypeOK, Has
<1>4. Settling'
  <2> SUFFICES ASSUME row' = "held", Untroubled', AllDecided'
               PROVE  \E d \in Calls : calls'[d] # Idle /\ (Carries(calls[d])' \/ Opens(calls'[d]))
    BY DEF Settling, Opens
  <2>1. linked \subseteq Runs
    BY DEF IInv, Types, TypeOK
  <2>2. r \notin linked
    BY <1>3 DEF AllDecided, Has
  <2>3. \A q \in linked, s \in {"pending", "accepted", "rejected"} : Has(q, s)' <=> Has(q, s)
    BY <1>3, <2>1, <2>2 DEF Statuses
  <2>4. AllDecided
    <3>1. linked # {} /\ \A q \in linked : ~Has(q, "pending")'
      BY DEF AllDecided, Has
    <3>2. PICK q \in linked : Has(q, "accepted")' \/ Has(q, "rejected")'
      BY DEF AllDecided, Has
    <3> QED BY <2>3, <3>1, <3>2 DEF AllDecided
  <2>5. row = "held" /\ Untroubled
    BY DEF Untroubled
  <2>6. PICK d \in Calls : calls[d] # Idle /\ (Carries(calls[d]) \/ Opens(calls[d]))
    BY <2>4, <2>5 DEF SInv, Settling
  <2>7. calls[d].at = "tally" => calls[d].todo \subseteq linked
    BY <2>6 DEF SInv, Tallied
  <2>8. Carries(calls[d]) => Carries(calls[d])'
    BY <2>3, <2>7 DEF Carries, Has
  <2> QED BY <2>6, <2>8
<1> QED BY <1>1, <1>2, <1>4 DEF SInv

\* Linked in time, the run has items that wait; linked late, it is trouble.
LEMMA LinkSettles == ASSUME IInv, SInv, NEW r \in Runs, Link(r) PROVE SInv'
<1>1. /\ linked' = linked \cup {r} /\ met \subseteq met' /\ UNCHANGED <<row, doc, runs, calls>>
      /\ Has(r, "pending") \/ "late" \in met'
  BY DEF Link, Note
<1>2. Unlocked' /\ Tallied'
  BY <1>1 DEF SInv, Unlocked, Tallied
<1>3. Opening'
  BY <1>1 DEF SInv, Opening, Following, Opens
<1>4. Settling'
  BY <1>1 DEF Settling, Untroubled, AllDecided, Has
<1> QED BY <1>2, <1>3, <1>4 DEF SInv

\* The owner's lock is trouble.
LEMMA LockSettles == ASSUME IInv, SInv, Lock PROVE SInv'
<1>1. "locked" \in met' /\ met \subseteq met' /\ UNCHANGED <<row, runs, linked, calls>>
  BY DEF Lock, Strikes, Note
<1>2. doc'.inherits = doc.inherits
  BY DEF Lock, IInv, Types, TypeOK, Doc
<1>3. Unlocked' /\ Tallied'
  BY <1>1 DEF SInv, Unlocked, Tallied
<1>4. Opening'
  BY <1>1, <1>2 DEF SInv, Opening, Following, Opens
<1>5. Settling'
  BY <1>1 DEF Settling, Untroubled
<1> QED BY <1>3, <1>4, <1>5 DEF SInv

\* The end of the process is trouble.
LEMMA CrashSettles == ASSUME IInv, SInv, Crash PROVE SInv'
<1>1. "crash" \in met' /\ met \subseteq met' /\ UNCHANGED <<row, doc>> /\ calls' = [c \in Calls |-> Idle]
  BY DEF Crash, Strikes, Note
<1> QED BY <1>1 DEF SInv, Unlocked, Tallied, Opening, Settling, Untroubled

\* A page just made has no run of its change.
LEMMA SettleInit == Init => SInv
BY DEF Init, SInv, Unlocked, Tallied, Opening, Following, Settling, AllDecided

\* Every step keeps somebody on the way to settle the page.
LEMMA SettleStep == IInv /\ SInv /\ [Next]_vars => SInv'
<1> SUFFICES ASSUME IInv, SInv, [Next]_vars PROVE SInv'
  OBVIOUS
<1>1. CASE UNCHANGED vars
  BY <1>1 DEF vars, SInv, Unlocked, Tallied, Opening, Following, Settling, Untroubled, AllDecided, Carries, Opens, Has
<1>2. ASSUME NEW r \in Runs, \/ Link(r)
                             \/ \E i \in Items : Propose(r, i) \/ Undo(r, i)
      PROVE  SInv'
  BY <1>2, LinkSettles, Waits DEF Propose, Undo, Note
<1>3. ASSUME NEW c \in Calls, Step(c)
      PROVE  SInv'
  BY <1>3, AtTheActorSettles, ReadRowSettles, ReadDocSettles, ListRunsSettles, TallySettles, SettleSettles,
     ReadGrantsSettles, TakeAccessSettles, AnnounceSettles, TrashSettles, ReadCardSettles, NextRunSettles,
     ReadPagesSettles, ReadAgainSettles, NoneWaitingSettles, SettlePageSettles, SetSharingSettles,
     ReadSharedSettles, ReleaseSharedSettles DEF Step
<1>4. ASSUME NEW c \in Calls,
             \/ \E d \in Decisions, r \in Runs, S \in SUBSET Items : DecideRun(c, d, r, S)
             \/ \E d \in {"accept", "reject"} : DecideChange(c, d)
             \/ \E own \in Sharings, inherits \in BOOLEAN : Share(c, own, inherits)
      PROVE  SInv'
  BY <1>4, DecideRunSettles, DecideChangeSettles, ShareSettles
<1>5. ASSUME NEW c \in Calls, Unreadable(c) \/ Unsent(c)
      PROVE  SInv'
  BY <1>5, UnreadableSettles, AnnounceSettles
<1>6. CASE Lock \/ Crash
  BY <1>6, LockSettles, CrashSettles
<1> QED BY <1>1, <1>2, <1>3, <1>4, <1>5, <1>6 DEF Next

\* A page still held with everything decided and nothing in the way has a request on its way to settle it.
THEOREM SettlingInvariant == Spec => []SInv
<1>1. IInv /\ SInv /\ [Next]_vars => SInv'
  BY SettleStep
<1> QED BY <1>1, SettleInit, HeldInvariant, PTL DEF Spec

\* With nothing failed, nothing locked and every run linked in time, no page is left held with every
\* item decided: the last of any number of concurrent decisions settles it.
THEOREM TheLastDecisionSettles == Spec => []DecidedMeansSettled
<1>1. SInv => DecidedMeansSettled
  BY DEF SInv, Settling, DecidedMeansSettled, Quiet, Untroubled, AllDecided
<1> QED BY <1>1, SettlingInvariant, PTL
=============================================================================
