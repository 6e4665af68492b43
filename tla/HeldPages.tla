----------------------------- MODULE HeldPages -----------------------------
(* A new page an agent made where AI edits wait for a colleague             *)
(* (services/node/src/changes/held.ts and changes/routes.ts).  Until its    *)
(* change's runs on it are decided it is held: only its owner and its       *)
(* approvers open it.  Then it is released, announced, and follows its      *)
(* folder; or it is removed, to the trash, never announced.                 *)
(*                                                                          *)
(* What settles it is no transaction: a request decides a run at the actor, *)
(* reads the page's row, the change's runs and each run's items, settles    *)
(* the row, then sets the page's access and sends doc.created, an await     *)
(* between any two of those.  Here every request is a record in `calls` and *)
(* every await a step of its own; other requests, the agent, the owner's    *)
(* sharing and the end of the process come between.                         *)
(*                                                                          *)
(* The actor of the page is taken as what RunLedger models: one decision is *)
(* one step.  Who may decide is abstracted: a call is by someone who may.   *)
EXTENDS Naturals, FiniteSets

CONSTANTS
  Items,         \* the items (hunks, ops) a run may hold
  Calls,         \* the requests that are under way at once
  Idle,          \* no request
  Faults,        \* bound: what gets in the way in the instance, of FaultKinds
  MaxRuns,       \* bound: runs the agent opens on the page
  MaxCalls,      \* bound: requests ever begun
  MaxFaults,     \* bound: times something does
  MaxShares,     \* bound: times the owner sets who may open the page
  Sharings       \* bound: the grants the owner's sharing may set

Runs == 1 .. MaxRuns
FaultKinds == {"unread",   \* an actor's run cannot be read now
               "unsent",   \* the event job is not stored
               "locked",   \* the owner sets the page's lock, or lifts it
               "crash"}    \* the process ends
Statuses == {"none", "pending", "accepted", "rejected", "conflict"}
Grants == {"approver", "release", "guest"}

ASSUME HeldAssumption ==
  /\ Idle \notin Calls /\ Faults \subseteq FaultKinds /\ Items # {} /\ MaxRuns # 0
  /\ {MaxRuns, MaxCalls, MaxFaults, MaxShares} \subseteq Nat
  /\ Sharings \subseteq SUBSET {"approver", "guest"}

VARIABLES
  row,      \* wiki_change_pages.state of the page
  doc,      \* the page's row in docs: the grants of its own, whether it follows its folder, its lock, the trash
  runs,     \* [Runs -> the run's items and whether it was reverted], at the actor
  linked,   \* the runs wiki_change_runs links to the change
  calls,    \* [Calls -> a request under way, or Idle]
  feed,     \* how often doc.created was sent
  met,      \* what has happened at least once, for the properties
  left      \* what the bounds leave

vars == <<row, doc, runs, linked, calls, feed, met, left>>

Doc == [inherits : BOOLEAN, own : SUBSET Grants, locked : BOOLEAN, trashed : BOOLEAN]
Scopes == {"run", "change", "share"}
Decisions == {"accept", "reject", "revert"}
\* The awaits a request may stand at.
Places == {"actor", "page", "doc", "list", "tally", "grants", "access", "announce", "trash",
           "card", "next", "waiting", "landed", "share", "sharing", "shared"}
Call == [scope : Scopes, decision : Decisions, at : Places,
         run : Runs, items : SUBSET Items,           \* what is decided now
         first : Doc, fresh : Doc,                   \* the page as the request read it first, and last
         todo : SUBSET Runs, got : SUBSET Statuses,  \* runs still to read; the statuses read
         view : SUBSET Runs, waits : SUBSET Runs,    \* runs of the card, and those of them with waiting items
         judged : BOOLEAN, left : BOOLEAN]           \* the page was held when the card was read; something was left

ASSUME IdleAssumption == Idle \notin Call

Has(r, s) == \E i \in Items : runs[r].items[i] = s
Opened == {r \in Runs : \E i \in Items : runs[r].items[i] # "none"}
StatusesIn(r) == {runs[r].items[i] : i \in Items} \ {"none"}
First(R) == CHOOSE r \in R : \A q \in R : r <= q
\* What a run's accepted items put in the page, and no revert took back.
InThePage == {r \in Runs : Has(r, "accepted") /\ ~runs[r].reverted}

\* releasedGrants: those it would have had, and any its owner added while it was held.
ReleasedGrants(own) == {"release"} \cup (own \ {"approver"})

\* A page not read yet; a request forgets what it read once it no longer goes by it.
NoDoc == [inherits |-> FALSE, own |-> {}, locked |-> FALSE, trashed |-> FALSE]
Forget(call) == [call EXCEPT !.fresh = NoDoc, !.got = {}, !.todo = {}, !.run = 1,
                             !.items = IF call.scope = "change" THEN @ ELSE {}]

Ask(scope, decision, at, r, S, todo) ==
  [scope |-> scope, decision |-> decision, at |-> at, run |-> r, items |-> S,
   first |-> doc, fresh |-> NoDoc, todo |-> todo, got |-> {}, view |-> todo, waits |-> {},
   judged |-> scope = "change" /\ row = "held", left |-> FALSE]

Begins(c, call) ==
  /\ calls[c] = Idle /\ left.calls > 0
  /\ calls' = [calls EXCEPT ![c] = call]
  /\ left' = [left EXCEPT !.calls = @ - 1]

\* Request c goes on as `call`; a decision on one run is over when its page is dealt with, a change's goes on to the next.
GoesOn(c, call) == calls' = [calls EXCEPT ![c] = call]
To(c, at) == GoesOn(c, [calls[c] EXCEPT !.at = at])
Ends(c) == GoesOn(c, IF calls[c].scope = "change" THEN [Forget(calls[c]) EXCEPT !.at = "next"] ELSE Idle)
At(c, at) == calls[c] # Idle /\ calls[c].at = at

Note(happened) == met' = met \cup happened
Strikes(kind) ==
  /\ kind \in Faults /\ left.faults > 0
  /\ left' = [left EXCEPT !.faults = @ - 1]
  /\ Note({kind})

Init ==
  /\ row = "held"
  /\ doc = [inherits |-> FALSE, own |-> {"approver"}, locked |-> FALSE, trashed |-> FALSE]
  /\ runs = [r \in Runs |-> [items |-> [i \in Items |-> "none"], reverted |-> FALSE]]
  /\ linked = {} /\ feed = 0 /\ met = {}
  /\ calls = [c \in Calls |-> Idle]
  /\ left = [calls |-> MaxCalls, faults |-> MaxFaults, shares |-> MaxShares]
-----------------------------------------------------------------------------
(* The agent, and the mirror that heals its links. *)

\* An item goes into the agent's open run, or opens the next one (openRunFor, modelled in RunLedger).
Propose(r, i) ==
  /\ ~doc.trashed /\ runs[r].items[i] = "none"
  /\ \/ Has(r, "pending")
     \/ r \notin Opened /\ \A q \in 1 .. r - 1 : q \in Opened
  /\ ~runs[r].reverted
  /\ runs' = [runs EXCEPT ![r].items[i] = "pending"]
  /\ UNCHANGED <<row, doc, linked, calls, feed, met, left>>

\* linkChangeRun: as the proposal is answered, or by a later run_index job when that write was lost.
\* A run somebody decided before is linked late: what decided it did not see it.
Link(r) ==
  /\ r \in Opened \ linked
  /\ linked' = linked \cup {r}
  /\ Note(IF Has(r, "pending") THEN {} ELSE {"late"})
  /\ UNCHANGED <<row, doc, runs, calls, feed, left>>
-----------------------------------------------------------------------------
(* A decision on one run. *)

\* decideDocRunAs, revertDocRun: the gates on the page as the request read it.
DecideRun(c, d, r, S) ==
  /\ r \in Opened /\ S # {}
  /\ d \in {"accept", "revert"} => ~doc.locked
  /\ Begins(c, Ask("run", d, "actor", r, S, {}))
  /\ UNCHANGED <<row, doc, runs, linked, feed, met>>

\* A run behind another that waits is not accepted (409 queued).
Queued(r) == \E q \in 1 .. r - 1 : Has(q, "pending")

\* Mutant: a reverted item gets a status of its own, which no reader of a run knows.
DecidedMarks(run, d, S, outcome) ==
  IF d = "revert"
  THEN [items |-> [i \in Items |-> IF run.items[i] = "accepted" THEN "reverted" ELSE run.items[i]], reverted |-> TRUE]
  ELSE [run EXCEPT !.items = [i \in Items |-> IF i \in S /\ @[i] = "pending" THEN outcome ELSE @[i]]]

\* runs/decide and runs/revert at the actor.  A revert leaves the status of what it takes back,
\* and rejects what waits.
Decided(run, d, S, outcome) ==
  CASE d = "accept" -> [run EXCEPT !.items = [i \in Items |-> IF i \in S /\ @[i] = "pending" THEN outcome ELSE @[i]]]
    [] d = "reject" -> [run EXCEPT !.items = [i \in Items |-> IF i \in S /\ @[i] = "pending" THEN "rejected" ELSE @[i]]]
    [] d = "revert" -> [items |-> [i \in Items |-> IF run.items[i] = "pending" THEN "rejected" ELSE run.items[i]],
                        reverted |-> TRUE]

AtTheActor(c) ==
  /\ At(c, "actor")
  /\ LET r == calls[c].run
         d == calls[c].decision
         refused == \/ d = "accept" /\ Queued(r)
                    \/ d = "revert" /\ r \notin InThePage
     IN  IF refused
         THEN /\ IF calls[c].scope = "change"
                 THEN GoesOn(c, [Forget(calls[c]) EXCEPT !.at = "next", !.left = TRUE])
                 ELSE GoesOn(c, Idle)
              /\ UNCHANGED <<runs, met>>
         ELSE \E outcome \in IF d = "accept" THEN {"accepted", "conflict"} ELSE {"rejected"} :
                /\ runs' = [runs EXCEPT ![r] = Decided(@, d, calls[c].items, outcome)]
                /\ Note({IF d = "accept" THEN "approved" ELSE "declined"})
                /\ GoesOn(c, [Forget(calls[c]) EXCEPT !.at = "page"])
  /\ UNCHANGED <<row, doc, linked, feed, left>>

\* runs/undo: an item waits again; the page is not looked at.
Undo(r, i) ==
  /\ left.calls > 0 /\ ~runs[r].reverted /\ runs[r].items[i] \in {"accepted", "rejected"}
  /\ runs[r].items[i] = "accepted" => ~doc.locked /\ ~Queued(r)
  /\ Has(r, "pending") \/ \A q \in Runs \ {r} : ~Has(q, "pending")
  /\ runs' = [runs EXCEPT ![r].items[i] = "pending"]
  /\ left' = [left EXCEPT !.calls = @ - 1]
  /\ Note({"undone"})
  /\ UNCHANGED <<row, doc, linked, calls, feed>>
-----------------------------------------------------------------------------
(* settleHeldPage, after a decision. *)

\* changePageOf, unless the page as first read follows its folder.
ReadRow(c) ==
  /\ At(c, "page")
  /\ IF calls[c].first.inherits \/ row # "held" THEN Ends(c) ELSE To(c, "doc")
  /\ UNCHANGED <<row, doc, runs, linked, feed, met, left>>

\* getDoc, whose lock and trash removePage goes by.
ReadDoc(c) ==
  /\ At(c, "doc")
  /\ GoesOn(c, [calls[c] EXCEPT !.at = "list", !.fresh = doc])
  /\ UNCHANGED <<row, doc, runs, linked, feed, met, left>>

\* listChangeRuns: a page holding no run of its change yet is left to the change's card.
ListRuns(c) ==
  /\ At(c, "list")
  /\ IF linked = {} THEN Ends(c) ELSE GoesOn(c, [calls[c] EXCEPT !.at = "tally", !.todo = linked, !.got = {}])
  /\ UNCHANGED <<row, doc, runs, linked, feed, met, left>>

\* completeRun of the next run of the list, for tallyRuns.
ReadsNext(c) ==
  LET r == First(calls[c].todo)
  IN  GoesOn(c, [calls[c] EXCEPT !.todo = @ \ {r}, !.got = @ \cup StatusesIn(r)])

Tally(c) ==
  /\ At(c, "tally") /\ calls[c].todo # {}
  /\ ReadsNext(c)
  /\ UNCHANGED <<row, doc, runs, linked, feed, met, left>>

\* Mutants: the update is not guarded on `held`; its answer is not looked at.
SettleRowAgain(c, state, at) == row' = state /\ GoesOn(c, [calls[c] EXCEPT !.at = at, !.got = {}])
SettleRowAnyway(c, state, at) ==
  /\ row' = IF row = "held" THEN state ELSE row
  /\ GoesOn(c, [calls[c] EXCEPT !.at = at, !.got = {}])

\* settleChangePage: of two racing decisions only one settles the page.
SettleRow(c, state, at) ==
  IF row = "held" THEN row' = state /\ GoesOn(c, [calls[c] EXCEPT !.at = at, !.got = {}]) ELSE UNCHANGED row /\ Ends(c)

\* removePage: a lock keeps a page out of the trash.
Removes(c) == IF calls[c].fresh.locked THEN UNCHANGED row /\ Ends(c) ELSE SettleRow(c, "removed", "trash")
Releases(c) == SettleRow(c, "released", "grants")

\* Mutants: approved unless something waits; approved only when nothing was declined.
SettleUnlessWaiting(c) ==
  /\ At(c, "tally") /\ calls[c].todo = {}
  /\ IF "pending" \in calls[c].got THEN Ends(c) /\ UNCHANGED row ELSE Releases(c)
  /\ UNCHANGED <<doc, runs, linked, feed, met, left>>
SettleUnanimous(c) ==
  /\ At(c, "tally") /\ calls[c].todo = {}
  /\ \/ calls[c].got = {"accepted"} /\ Releases(c)
     \/ calls[c].got = {"rejected"} /\ Removes(c)
     \/ calls[c].got \notin {{"accepted"}, {"rejected"}} /\ Ends(c) /\ UNCHANGED row
  /\ UNCHANGED <<doc, runs, linked, feed, met, left>>

\* Nothing happens while any item waits.
Settle(c) ==
  /\ At(c, "tally") /\ calls[c].todo = {}
  /\ \/ "pending" \in calls[c].got /\ Ends(c) /\ UNCHANGED row
     \/ "pending" \notin calls[c].got /\ "accepted" \in calls[c].got /\ Releases(c)
     \/ calls[c].got \cap {"pending", "accepted"} = {} /\ "rejected" \in calls[c].got /\ Removes(c)
     \/ calls[c].got \subseteq {"conflict"} /\ Ends(c) /\ UNCHANGED row
  /\ UNCHANGED <<doc, runs, linked, feed, met, left>>

\* releasePage, the row settled: the page's grants as they are now,
ReadGrants(c) ==
  /\ At(c, "grants")
  /\ GoesOn(c, [calls[c] EXCEPT !.at = "access", !.fresh = doc])
  /\ UNCHANGED <<row, doc, runs, linked, feed, met, left>>

\* Mutant: the approvers it was held for keep their grants.
TakeAccessHeld(c) ==
  /\ At(c, "access")
  /\ doc' = [doc EXCEPT !.inherits = TRUE, !.own = {"release"} \cup calls[c].fresh.own]
  /\ GoesOn(c, [Forget(calls[c]) EXCEPT !.at = "announce"])
  /\ UNCHANGED <<row, runs, linked, feed, met, left>>

\* setDocAcl: its grants and its folder's access,
TakeAccess(c) ==
  /\ At(c, "access")
  /\ doc' = [doc EXCEPT !.inherits = TRUE, !.own = ReleasedGrants(calls[c].fresh.own)]
  /\ GoesOn(c, [Forget(calls[c]) EXCEPT !.at = "announce"])
  /\ UNCHANGED <<row, runs, linked, feed, met, left>>

\* and the event doc.created, best-effort.
Announce(c) ==
  /\ At(c, "announce")
  /\ feed' = feed + 1
  /\ Ends(c)
  /\ UNCHANGED <<row, doc, runs, linked, met, left>>

\* removePage, the row settled.
Trash(c) ==
  /\ At(c, "trash")
  /\ doc' = IF calls[c].fresh.trashed THEN doc ELSE [doc EXCEPT !.trashed = TRUE]
  /\ Ends(c)
  /\ UNCHANGED <<row, runs, linked, feed, met, left>>
-----------------------------------------------------------------------------
(* decideChange: every run of the card, then the page. *)

\* loadChangeView: the change's runs and the page's row; a page in the trash is on the card only when removed.
DecideChange(c, d) ==
  /\ doc.trashed => row = "removed"
  /\ Begins(c, Ask("change", d, "card", 1, Items, linked))
  /\ UNCHANGED <<row, doc, runs, linked, feed, met>>

ReadCard(c) ==
  /\ At(c, "card")
  /\ LET r == First(calls[c].todo)
     IN  IF calls[c].todo = {} THEN To(c, "next")
         ELSE GoesOn(c, [calls[c] EXCEPT !.todo = @ \ {r}, !.waits = IF Has(r, "pending") THEN @ \cup {r} ELSE @])
  /\ UNCHANGED <<row, doc, runs, linked, feed, met, left>>

\* The next run that waited, oldest first; what the lock keeps is left.
NextRun(c) ==
  /\ At(c, "next") /\ calls[c].waits # {}
  /\ LET r == First(calls[c].waits)
         on == [calls[c] EXCEPT !.waits = @ \ {r}]
     IN  IF on.decision = "accept" /\ on.first.locked
         THEN GoesOn(c, [on EXCEPT !.left = TRUE])
         ELSE GoesOn(c, [on EXCEPT !.at = "actor", !.run = r])
  /\ UNCHANGED <<row, doc, runs, linked, feed, met, left>>

\* listChangePages again: a page still held with nothing left is decided as a page.
ReadPages(c) ==
  /\ At(c, "next") /\ calls[c].waits = {}
  /\ IF row = "held" /\ calls[c].judged /\ ~calls[c].left
     THEN GoesOn(c, [calls[c] EXCEPT !.at = "waiting", !.todo = calls[c].view, !.got = {}])
     ELSE GoesOn(c, Idle)
  /\ UNCHANGED <<row, doc, runs, linked, feed, met, left>>

\* anyWaiting, then anyLanded for a page that is declined: the card's runs read again.
ReadAgain(c) ==
  /\ calls[c] # Idle /\ calls[c].at \in {"waiting", "landed"} /\ calls[c].todo # {}
  /\ ReadsNext(c)
  /\ UNCHANGED <<row, doc, runs, linked, feed, met, left>>

\* getDoc between the two.
NoneWaiting(c) ==
  /\ At(c, "waiting") /\ calls[c].todo = {}
  /\ IF "pending" \in calls[c].got THEN GoesOn(c, Idle)
     ELSE GoesOn(c, [calls[c] EXCEPT !.at = "landed", !.fresh = doc, !.got = {},
                       !.todo = IF calls[c].decision = "reject" THEN calls[c].view ELSE {}])
  /\ UNCHANGED <<row, doc, runs, linked, feed, met, left>>

\* releasePage or removePage; a request past this point ends with the page.
SettlePage(c) ==
  /\ At(c, "landed") /\ calls[c].todo = {}
  /\ LET call == calls[c]
         settles == row = "held" /\ ~call.fresh.locked /\ ("accepted" \in call.got => call.decision = "accept")
     IN  IF settles
         THEN /\ row' = IF call.decision = "accept" THEN "released" ELSE "removed"
              /\ GoesOn(c, [call EXCEPT !.scope = "run", !.at = IF call.decision = "accept" THEN "grants" ELSE "trash"])
              /\ Note(IF call.decision = "accept" THEN {"approved", "as a page"} ELSE {"declined"})
         ELSE GoesOn(c, Idle) /\ UNCHANGED <<row, met>>
  /\ UNCHANGED <<doc, runs, linked, feed, left>>
-----------------------------------------------------------------------------
(* The owner's sharing and lock, and what goes wrong. *)

\* The sharing route; what it sets is in its `fresh`.
Share(c, own, inherits) ==
  /\ left.shares > 0 /\ calls[c] = Idle
  /\ calls' = [calls EXCEPT ![c] = [Ask("share", "accept", "share", 1, {}, {}) EXCEPT
                                      !.fresh = [NoDoc EXCEPT !.own = own, !.inherits = inherits]]]
  /\ left' = [left EXCEPT !.shares = @ - 1]
  /\ UNCHANGED <<row, doc, runs, linked, feed, met>>

\* setDocAcl of the sharing route.
SetSharing(c) ==
  /\ At(c, "share")
  /\ doc' = [doc EXCEPT !.own = calls[c].fresh.own, !.inherits = calls[c].fresh.inherits]
  /\ Note({"shared"})
  /\ GoesOn(c, [Forget(calls[c]) EXCEPT !.at = "sharing"])
  /\ UNCHANGED <<row, runs, linked, feed, left>>

\* releasedBySharing: the page is looked up, then released.
ReadShared(c) ==
  /\ At(c, "sharing")
  /\ IF calls[c].first.inherits \/ row # "held" THEN GoesOn(c, Idle) ELSE To(c, "shared")
  /\ UNCHANGED <<row, doc, runs, linked, feed, met, left>>

ReleaseShared(c) ==
  /\ At(c, "shared")
  /\ SettleRow(c, "released", "announce")
  /\ UNCHANGED <<doc, runs, linked, feed, met, left>>

\* setDocLocked.
Lock ==
  /\ ~doc.trashed /\ Strikes("locked")
  /\ doc' = [doc EXCEPT !.locked = ~@]
  /\ UNCHANGED <<row, runs, linked, calls, feed>>

\* A run that cannot be read now settles nothing; a card's is left.
Unreadable(c) ==
  /\ calls[c] # Idle /\ calls[c].at \in {"card", "tally", "waiting", "landed"} /\ calls[c].todo # {}
  /\ CASE calls[c].at = "card" -> LET r == First(calls[c].todo)
                                  IN  GoesOn(c, [calls[c] EXCEPT !.todo = @ \ {r}, !.view = @ \ {r}, !.left = TRUE])
       [] calls[c].at = "tally" -> Ends(c)
       [] OTHER -> GoesOn(c, Idle)
  /\ Strikes("unread")
  /\ UNCHANGED <<row, doc, runs, linked, feed>>

Unsent(c) ==
  /\ At(c, "announce") /\ Strikes("unsent")
  /\ Ends(c)
  /\ UNCHANGED <<row, doc, runs, linked, feed>>

\* The requests are gone; rows, links and what the actor saved stay.
Crash ==
  /\ \E c \in Calls : calls[c] # Idle
  /\ Strikes("crash")
  /\ calls' = [c \in Calls |-> Idle]
  /\ UNCHANGED <<row, doc, runs, linked, feed>>

Step(c) ==
  \/ AtTheActor(c) \/ ReadRow(c) \/ ReadDoc(c) \/ ListRuns(c) \/ Tally(c) \/ Settle(c)
  \/ ReadGrants(c) \/ TakeAccess(c) \/ Announce(c) \/ Trash(c)
  \/ ReadCard(c) \/ NextRun(c) \/ ReadPages(c) \/ ReadAgain(c) \/ NoneWaiting(c) \/ SettlePage(c)
  \/ SetSharing(c) \/ ReadShared(c) \/ ReleaseShared(c)

Next ==
  \/ \E r \in Runs : Link(r) \/ \E i \in Items : Propose(r, i) \/ Undo(r, i)
  \/ \E c \in Calls :
       \/ Step(c) \/ Unreadable(c) \/ Unsent(c)
       \/ \E d \in Decisions, r \in Runs, S \in SUBSET Items : DecideRun(c, d, r, S)
       \/ \E d \in {"accept", "reject"} : DecideChange(c, d)
       \/ \E own \in Sharings, inherits \in BOOLEAN : Share(c, own, inherits)
  \/ Lock \/ Crash

Spec == Init /\ [][Next]_vars
-----------------------------------------------------------------------------
(* Properties. *)

\* Every variable has its type: a run's items keep the statuses the page's readers know (tallyRuns).
TypeOK ==
  /\ row \in {"held", "released", "removed"} /\ doc \in Doc /\ linked \subseteq Runs /\ feed \in Nat
  /\ runs \in [Runs -> [items : [Items -> Statuses], reverted : BOOLEAN]]
  /\ \A c \in Calls : calls[c] # Idle => calls[c] \in Call

\* The page is announced once at most, only when it was released, and never from the trash: two
\* people deciding at once, or a decision and the owner's sharing, settle it once (settleChangePage).
AnnouncedOnce == feed <= 1 /\ (feed = 1 => row = "released" /\ ~doc.trashed)

\* Until it is released nobody but those it was held for opens the page, whatever fails and whoever
\* races, unless its owner shared it: "a held page that is not settled now stays held, never wider".
NeverWider == row # "released" /\ "shared" \notin met => ~doc.inherits /\ doc.own = {"approver"}

\* A person approved something before the page went out, or declined before it went to the trash.
SettledByAPerson ==
  /\ row = "released" => met \cap {"approved", "shared"} # {}
  /\ row = "removed" => "declined" \in met

\* The two together: however the decisions and the owner race, the page leaves its hold once, on
\* something a person did, and nobody hears of it a second time.
SettledOnce == AnnouncedOnce /\ SettledByAPerson

Quiet == \A c \in Calls : calls[c] = Idle

\* With nothing failed, nothing locked and every run linked before it was decided, the last of any
\* number of concurrent decisions settles the page: none is left held with every item decided.
DecidedMeansSettled ==
  Quiet /\ met \cap {"late", "locked", "unread", "crash"} = {} /\ linked # {}
    /\ (\A r \in linked : ~Has(r, "pending")) /\ (\E r \in linked : Has(r, "accepted") \/ Has(r, "rejected"))
    => row # "held"

\* A page released by an approval, nothing failed, follows its folder with its grants once the
\* request is over, and was announced.
ReleasedIsOpen ==
  Quiet /\ row = "released" /\ met \cap {"shared", "crash", "unsent"} = {}
    => doc.inherits /\ doc.own = {"release"} /\ feed = 1

\* "A revert rejects what still waited: a new page of a change with nothing landed goes"
\* (services/node/src/api/runs.ts, revertDocRun): decisions on its runs, with no undo among them and
\* every run linked in time, never release a page while nothing they landed is in it.
NothingLandedIsNotReleased ==
  [][row = "held" /\ row' = "released" /\ met' \cap {"shared", "as a page", "undone", "late"} = {} => InThePage # {}]_vars
=============================================================================
