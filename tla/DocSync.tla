------------------------------ MODULE DocSync ------------------------------
(***************************************************************************)
(* How the open pages of one document stay the same document: the document *)
(* actor (packages/doc-actor/src/doc-actor.ts, sync/gates.ts, session.ts,  *)
(* store/head.ts) on one side, the page's provider                         *)
(* (apps/web/src/sync/stuga-provider.ts) on the other, sockets between     *)
(* them, and the rows of the node above them.                              *)
(*                                                                         *)
(* A document is the set of edits merged into it; merging is union.  The   *)
(* actor's lock makes a handler one step, and what waits for the lock is   *)
(* part of a socket's `up`.  A page has up to |Slots| sockets the server   *)
(* still knows of: the one it uses and those it gave up on.                *)
(***************************************************************************)
EXTENDS Naturals, Sequences, FiniteSets

CONSTANTS
  Tabs,         \* pages, each a person's, holding a Y.Doc of its own
  Edits,        \* what may be typed, each at most once
  Slots,        \* places for the sockets of one page
  Tiers,        \* the tiers an ACL change gives out: "none", "read", "write"
  Flips,        \* what people change in the node: "lock", "trash", "tier"
  NoSlot, NoEpoch,
  MaxRestores, MaxCrashes, MaxDrops, MaxFlips, MaxRefusals  \* bounds

ASSUME MarksAssumption == NoSlot \notin Slots /\ NoEpoch \notin Nat
ASSUME BoundsAssumption ==
  {MaxRestores, MaxCrashes, MaxDrops, MaxFlips, MaxRefusals} \subseteq Nat
ASSUME TiersAssumption == Tiers \subseteq {"none", "read", "write"}
ASSUME FlipsAssumption == Flips \subseteq {"lock", "trash", "tier"}

VARIABLES
  row,       \* the node's row: locked, trashed, tier of each page's person
  calls,     \* calls from the node to the actor, in order, on their way
  asked,     \* restores the node has let through, on their way
  doc,       \* the actor's live document
  saved,     \* what storage would give back of it
  epoch,     \* rollback generation, stored
  locked,    \* the actor's mirror of row.locked, stored
  trashed,   \* the actor's mirror of row.trashed, in memory
  versions,  \* documents that were saved, and may be recorded as versions
  socks,     \* the sockets as the server has them
  tabs,      \* the pages
  typed,     \* edits that have been made at all
  undone,    \* edits a restore took out and nothing has brought back
  early,     \* edits typed by a page that had heard no generation yet
  refused,   \* [page -> edits of it that were refused]
  lost,      \* a call was lost with the process
  left       \* what the bounds leave

node == <<row, calls, asked>>
actor == <<doc, saved, epoch, locked, trashed, versions>>
seen == <<typed, undone, early, refused, lost>>
vars == <<node, actor, socks, tabs, seen, left>>

Content == SUBSET Edits

(***************************************************************************)
(* Sockets and pages                                                       *)
(***************************************************************************)

\* code: how the server closed it; live: the page still listens to it.
Vacant == [code |-> "vacant", live |-> FALSE, acked |-> FALSE,
           canWrite |-> FALSE, born |-> 0, up |-> <<>>, down |-> <<>>]

FreshTab == [state |-> "down", slot |-> NoSlot, doc |-> {}, heard |-> NoEpoch,
             accepted |-> FALSE, readOnly |-> FALSE, can |-> "unknown",
             ticket |-> "none"]

Used(s) == s.code # "vacant"
Open(s) == s.code = "open"
Sock(t) == socks[t][tabs[t].slot]

\* safeSend: to a closed socket nothing goes, and no one hears a dead link
Put(s, frames) == IF Open(s) /\ s.live THEN [s EXCEPT !.down = @ \o frames] ELSE s

Shut(s, code, frames) ==
  IF Open(s) THEN [Put(s, frames) EXCEPT !.code = code] ELSE s

\* The page stops listening.
Deaf(s) == [s EXCEPT !.live = FALSE, !.down = <<>>]

\* What the page sends.  A socket the server has closed passes nothing on.
Sends(s, frames) == IF Open(s) THEN [s EXCEPT !.up = @ \o frames] ELSE s

StateFor(s, lk, tr) == [op |-> "STATE", readOnly |-> lk \/ tr \/ ~s.canWrite,
                        can |-> IF s.canWrite THEN "yes" ELSE "no"]

Write(op, edits) == [op |-> op, edits |-> edits]
Reset == [op |-> "RESET"]
Refusal(kind) == [op |-> "REFUSED", kind |-> kind]

\* To every socket but one: socket s of page t has its first frame taken.
Fanned(t, s, frames) == [u \in Tabs |-> [r \in Slots |->
  IF <<u, r>> = <<t, s>> THEN [socks[u][r] EXCEPT !.up = Tail(@)]
                         ELSE Put(socks[u][r], frames)]]
\* To every socket its level under a lock and a trash flag.
Leveled(lk, tr) == [u \in Tabs |-> [r \in Slots |->
  Put(socks[u][r], <<StateFor(socks[u][r], lk, tr)>>)]]

Init ==
  /\ row = [locked |-> FALSE, trashed |-> FALSE,
            tier |-> [t \in Tabs |-> "write"]]
  /\ calls = <<>> /\ asked = {}
  /\ doc = {} /\ saved = {} /\ epoch = 0
  /\ locked = FALSE /\ trashed = FALSE /\ versions = {{}}
  /\ socks = [t \in Tabs |-> [s \in Slots |-> Vacant]]
  /\ tabs = [t \in Tabs |-> FreshTab]
  /\ typed = {} /\ undone = {} /\ early = {} /\ lost = FALSE
  /\ refused = [t \in Tabs |-> {}]
  /\ left = [restores |-> MaxRestores, crashes |-> MaxCrashes,
             drops |-> MaxDrops, flips |-> MaxFlips, refusals |-> MaxRefusals]

(***************************************************************************)
(* The page                                                                *)
(***************************************************************************)

\* The page is loaded again: nothing of it is kept (forceReload).
Reloaded(t) == /\ tabs' = [tabs EXCEPT ![t] = FreshTab]
               /\ refused' = [refused EXCEPT ![t] = {}]

\* The frame at the head of the page's socket, and what is left of the socket.
Heard(t, op) == /\ tabs[t].state = "up" /\ Sock(t).down # <<>>
                /\ Head(Sock(t).down).op = op
Rest(t) == [Sock(t) EXCEPT !.down = Tail(@)]
After(t, s) == socks' = [socks EXCEPT ![t][tabs[t].slot] = s]

\* A keystroke, sent when the page's end of the socket is open: it may not be
\* yet while the server's first frames are still on their way.
Type(t, e) ==
  /\ e \in Edits \ typed
  /\ tabs[t].state # "over" /\ ~tabs[t].readOnly
  /\ typed' = typed \cup {e}
  /\ early' = IF tabs[t].heard = NoEpoch THEN early \cup {e} ELSE early
  /\ tabs' = [tabs EXCEPT ![t].doc = @ \cup {e}]
  /\ \/ /\ tabs[t].state = "up"
        /\ After(t, Sends(Sock(t), <<Write("UPDATE", {e})>>))
     \/ ~tabs[t].accepted /\ UNCHANGED socks
  /\ UNCHANGED <<node, actor, undone, refused, lost, left>>

\* The page asks for a ticket, having none or one that ran out.  Refused
\* outright, it ends for good.
Mint(t) ==
  /\ tabs[t].state = "down"
  /\ tabs' = [tabs EXCEPT ![t] =
       IF row.tier[t] = "none" THEN [@ EXCEPT !.state = "over"]
                               ELSE [@ EXCEPT !.ticket = row.tier[t]]]
  /\ UNCHANGED <<node, actor, socks, seen, left>>

\* Mutant: the actor keeps the trash flag it has.
ConnectUnasked(t) ==
  LET s == CHOOSE r \in Slots : ~Used(socks[t][r]) IN
  /\ tabs[t].state = "down" /\ tabs[t].ticket # "none"
  /\ \E r \in Slots : ~Used(socks[t][r])
  /\ row.tier[t] # "none"
  /\ socks' = [socks EXCEPT ![t][s] =
       [code |-> "open", live |-> TRUE, acked |-> FALSE,
        canWrite |-> row.tier[t] = "write" /\ tabs[t].ticket = "write",
        born |-> epoch, up |-> <<>>,
        down |-> <<[op |-> "HELLO", epoch |-> epoch, has |-> doc]>>]]
  /\ tabs' = [tabs EXCEPT ![t].state = "up", ![t].slot = s, ![t].accepted = FALSE]
  /\ UNCHANGED <<node, actor, seen, left>>

\* The upgrade: the node reads the row and calls the actor, which takes the
\* node's word on the trash, sends its generation and its state vector
\* (DOCUMENT_EPOCH and SYNC_STEP_1, back to back in one outbox: one frame).
Connect(t) ==
  LET s == CHOOSE r \in Slots : ~Used(socks[t][r]) IN
  /\ tabs[t].state = "down" /\ tabs[t].ticket # "none"
  /\ \E r \in Slots : ~Used(socks[t][r])
  /\ row.tier[t] # "none"
  /\ trashed' = row.trashed
  /\ socks' = [socks EXCEPT ![t][s] =
       [code |-> "open", live |-> TRUE, acked |-> FALSE,
        canWrite |-> row.tier[t] = "write" /\ tabs[t].ticket = "write",
        born |-> epoch, up |-> <<>>,
        down |-> <<[op |-> "HELLO", epoch |-> epoch, has |-> doc]>>]]
  /\ tabs' = [tabs EXCEPT ![t].state = "up", ![t].slot = s, ![t].accepted = FALSE]
  /\ UNCHANGED <<node, doc, saved, epoch, locked, versions, seen, left>>

\* Mutant: a page that is back takes the new generation for its own.
HearsAnyEpoch(t, f) ==
  /\ tabs' = [tabs EXCEPT ![t].heard = f.epoch, ![t].accepted = TRUE]
  /\ After(t, Sends(Rest(t), <<[op |-> "ACK", epoch |-> f.epoch],
                               [op |-> "STEP1", has |-> tabs[t].doc],
                               Write("STEP2", tabs[t].doc \ f.has)>>))
  /\ UNCHANGED refused

\* Mutant: a page that was synced before does not offer what it holds again.
HearsEpochOnce(t, f) ==
  /\ tabs' = [tabs EXCEPT ![t].heard = f.epoch, ![t].accepted = TRUE]
  /\ After(t, Sends(Rest(t), <<[op |-> "ACK", epoch |-> f.epoch],
                               [op |-> "STEP1", has |-> tabs[t].doc]>> \o
       IF tabs[t].heard = NoEpoch THEN <<Write("STEP2", tabs[t].doc \ f.has)>> ELSE <<>>))
  /\ UNCHANGED refused

\* The page hears a generation.  Another than the one it holds means it was
\* rolled back meanwhile: it loads again.  Only an accepted one is answered,
\* with its acknowledgement, the page's state vector and what the actor lacks.
HearsEpoch(t, f) ==
  IF tabs[t].heard \in {NoEpoch, f.epoch}
  THEN /\ tabs' = [tabs EXCEPT ![t].heard = f.epoch, ![t].accepted = TRUE]
       /\ After(t, Sends(Rest(t), <<[op |-> "ACK", epoch |-> f.epoch],
                                    [op |-> "STEP1", has |-> tabs[t].doc],
                                    Write("STEP2", tabs[t].doc \ f.has)>>))
       /\ UNCHANGED refused
  ELSE Reloaded(t) /\ After(t, Deaf(Sock(t)))

\* A level: what the page may do.  A new tier also ends the ticket in hand.
WithState(tab, f) ==
  [tab EXCEPT !.readOnly = f.readOnly, !.can = f.can,
              !.ticket = IF tab.can \in {"unknown", f.can} THEN @ ELSE "none"]

Hears(t) ==
  /\ \/ Heard(t, "HELLO") /\ HearsEpoch(t, Head(Sock(t).down))
     \/ /\ Heard(t, "SYNC")
        /\ LET f == Head(Sock(t).down) IN
           tabs' = [tabs EXCEPT ![t] = WithState([tabs[t] EXCEPT !.doc = @ \cup f.edits], f)]
        /\ After(t, Rest(t)) /\ UNCHANGED refused
     \/ /\ Heard(t, "UPDATE")
        /\ tabs' = [tabs EXCEPT ![t].doc = @ \cup Head(Sock(t).down).edits]
        /\ After(t, Rest(t)) /\ UNCHANGED refused
     \/ /\ Heard(t, "STATE")
        /\ tabs' = [tabs EXCEPT ![t] = WithState(@, Head(Sock(t).down))]
        /\ After(t, Rest(t)) /\ UNCHANGED refused
     \/ /\ Heard(t, "REFUSED")
        /\ tabs' = [tabs EXCEPT ![t].readOnly =
                      @ \/ Head(Sock(t).down).kind \in {"locked", "trashed", "acl"}]
        /\ After(t, Rest(t)) /\ UNCHANGED refused
     \/ Heard(t, "RESET") /\ Reloaded(t) /\ After(t, Deaf(Sock(t)))
  /\ UNCHANGED <<node, actor, typed, undone, early, lost, left>>

\* The page sees its access revoked: over for good, after every frame sent
\* before the close.  (A reset closes behind a RESET frame, which reloads.)
HearsClose(t) ==
  /\ tabs[t].state = "up" /\ Sock(t).down = <<>> /\ Sock(t).code = "revoked"
  /\ tabs' = [tabs EXCEPT ![t].state = "over", ![t].slot = NoSlot, ![t].accepted = FALSE]
  /\ After(t, Deaf(Sock(t)))
  /\ UNCHANGED <<node, actor, seen, left>>

\* Mutant: a page that gave up keeps its socket for its own.
LinkDiesHeld(t) ==
  /\ tabs[t].state = "up" /\ left.drops > 0
  /\ tabs' = [tabs EXCEPT ![t].state = "down", ![t].accepted = FALSE]
  /\ After(t, Deaf(Sock(t)))
  /\ left' = [left EXCEPT !.drops = @ - 1]
  /\ UNCHANGED <<node, actor, seen>>

\* The link dies, or the page gives up on a silent socket: it connects anew,
\* while the server may still have the old socket and frames of it.
LinkDies(t) ==
  /\ tabs[t].state = "up" /\ left.drops > 0
  /\ tabs' = [tabs EXCEPT ![t].state = "down", ![t].slot = NoSlot, ![t].accepted = FALSE]
  /\ After(t, Deaf(Sock(t)))
  /\ left' = [left EXCEPT !.drops = @ - 1]
  /\ UNCHANGED <<node, actor, seen>>

(***************************************************************************)
(* The actor: one frame of one socket.  A closed socket's queued frames    *)
(* are handled like any others; only what it would send goes nowhere.      *)
(***************************************************************************)
Taken(t, s) == [socks[t][s] EXCEPT !.up = Tail(@)]
Given(t, s, op) == socks[t][s].up # <<>> /\ Head(socks[t][s].up).op = op

\* An acknowledged generation opens the rollback fence for this socket.
HandleAck(t, s) ==
  /\ Given(t, s, "ACK")
  /\ socks' = [socks EXCEPT ![t][s] =
       IF Head(@.up).epoch = epoch
       THEN [Taken(t, s) EXCEPT !.acked = TRUE]
       ELSE Shut(Taken(t, s), "reset", <<Refusal("epoch"), Reset>>)]
  /\ UNCHANGED <<node, actor, tabs, seen, left>>

\* SYNC_STEP_2, SYNC_DONE and DOC_STATE, sent back to back, as one frame.
HandleStep1(t, s) ==
  /\ Given(t, s, "STEP1")
  /\ LET st == StateFor(socks[t][s], locked, trashed) IN
     socks' = [socks EXCEPT ![t][s] = Put(Taken(t, s),
       <<[op |-> "SYNC", edits |-> doc \ Head(@.up).has,
          readOnly |-> st.readOnly, can |-> st.can]>>)]
  /\ UNCHANGED <<node, actor, tabs, seen, left>>

\* judgeWrite: the first gate that says no.
Opening(f) == f.op = "STEP2" /\ f.edits \subseteq doc
Verdict(s, f) ==
  IF locked THEN "locked"
  ELSE IF trashed THEN "trashed"
  ELSE IF epoch > 0 /\ ~s.acked /\ ~Opening(f) THEN "epoch"
  ELSE IF ~s.canWrite THEN "acl"
  ELSE IF Opening(f) THEN "ack" ELSE "apply"

HandleRefused(t, s, kind) ==
  LET f == Head(socks[t][s].up) IN
  /\ socks' = [socks EXCEPT ![t][s] =
       IF kind = "epoch" THEN Shut(Taken(t, s), "reset", <<Refusal(kind), Reset>>)
                         ELSE Put(Taken(t, s), <<Refusal(kind)>>)]
  /\ refused' = [refused EXCEPT ![t] = @ \cup (f.edits \ doc)]
  /\ UNCHANGED <<node, actor, tabs, typed, undone, early, lost>>

\* Mutant: a socket with frames waiting is passed over.
AppliedToIdle(t, s) ==
  LET f == Head(socks[t][s].up)
      Told == Fanned(t, s, <<Write("UPDATE", f.edits)>>)
  IN /\ doc' = doc \cup f.edits
     /\ undone' = undone \ f.edits
     /\ socks' = [u \in Tabs |-> [r \in Slots |->
          IF socks[u][r].down # <<>> THEN Fanned(t, s, <<>>)[u][r] ELSE Told[u][r]]]
     /\ UNCHANGED <<node, saved, epoch, locked, trashed, versions, tabs,
                    typed, early, refused, lost, left>>

HandleApplied(t, s) ==
  LET f == Head(socks[t][s].up)
  IN /\ doc' = doc \cup f.edits
     /\ undone' = undone \ f.edits
     /\ socks' = Fanned(t, s, <<Write("UPDATE", f.edits)>>)
     /\ UNCHANGED <<node, saved, epoch, locked, trashed, versions, tabs,
                    typed, early, refused, lost, left>>

HandleWrite(t, s) ==
  /\ Given(t, s, "STEP2") \/ Given(t, s, "UPDATE")
  /\ LET v == Verdict(socks[t][s], Head(socks[t][s].up)) IN
     \/ /\ v \in {"locked", "trashed", "epoch", "acl"}
        /\ HandleRefused(t, s, v) /\ UNCHANGED left
     \/ /\ v = "ack"
        /\ socks' = [socks EXCEPT ![t][s] = Taken(t, s)]
        /\ UNCHANGED <<node, actor, tabs, seen, left>>
     \/ v = "apply" /\ HandleApplied(t, s)
     \/ /\ v = "apply" /\ left.refusals > 0   \* the rate window or the table guard
        /\ HandleRefused(t, s, "limit")
        /\ left' = [left EXCEPT !.refusals = @ - 1]

Handle(t, s) == HandleAck(t, s) \/ HandleStep1(t, s) \/ HandleWrite(t, s)

\* Which saves record a version is left open: any may be asked back.
Saves == saved' = doc /\ versions' = versions \cup {doc}

\* The server learns that the page's end is gone: frames that never arrived
\* are lost.  Someone leaving saves the document, unless they were put out.
Departs(t, s) ==
  /\ Used(socks[t][s]) /\ ~socks[t][s].live
  /\ socks' = [socks EXCEPT ![t][s] = Vacant]
  /\ IF socks[t][s].code = "revoked" THEN UNCHANGED <<saved, versions>>
     ELSE Saves
  /\ UNCHANGED <<node, doc, epoch, locked, trashed, tabs, seen, left>>

\* The pending log is stored, or the document is flushed.
Save ==
  /\ Saves
  /\ UNCHANGED <<node, doc, epoch, locked, trashed, socks, tabs, seen, left>>

(***************************************************************************)
(* The node                                                                *)
(***************************************************************************)

\* A restore is let through while the row is not locked.
AskRestore(v) ==
  /\ v \in versions /\ ~row.locked /\ left.restores > 0
  /\ asked' = asked \cup {v}
  /\ left' = [left EXCEPT !.restores = @ - 1]
  /\ UNCHANGED <<row, calls, actor, socks, tabs, seen>>

\* What a page of the present generation holds goes with it, too.
Superseded(v) == (undone \cup doc \cup
  UNION {tabs[t].doc : t \in {u \in Tabs : tabs[u].heard = epoch}}) \ v

\* restoreToVersion: the present document is recorded, the version becomes
\* the head of a new generation, and every page is told to reload.
Restore(v) ==
  /\ v \in asked /\ asked' = asked \ {v}
  /\ versions' = versions \cup {doc}
  /\ doc' = v /\ saved' = v /\ epoch' = epoch + 1
  /\ undone' = Superseded(v)
  /\ socks' = [t \in Tabs |-> [s \in Slots |-> Shut(socks[t][s], "reset", <<Reset>>)]]
  /\ UNCHANGED <<row, calls, locked, trashed, tabs, typed,
                 early, refused, lost, left>>

\* A person changes the row; the call to the actor follows it.
Flip(what, t, tier) ==
  /\ what \in Flips /\ left.flips > 0
  /\ row' = CASE what = "lock" -> [row EXCEPT !.locked = ~@]
              [] what = "trash" -> [row EXCEPT !.trashed = ~@]
              [] what = "tier" -> [row EXCEPT !.tier[t] = tier]
  /\ row' # row
  /\ calls' = Append(calls, [op |-> what, row |-> row'])
  /\ left' = [left EXCEPT !.flips = @ - 1]
  /\ UNCHANGED <<asked, actor, socks, tabs, seen>>

\* Mutant: a new tier is not told.
RetieredSilently(s, tier) ==
  IF tier = "none" THEN Shut(s, "revoked", <<>>)
  ELSE [s EXCEPT !.canWrite = tier = "write"]

\* applyAcl, for the sockets of one page.
Retiered(s, tier) ==
  IF tier = "none" THEN Shut(s, "revoked", <<>>)
  ELSE IF ~Open(s) \/ s.canWrite = (tier = "write") THEN s
  ELSE LET r == [s EXCEPT !.canWrite = tier = "write"]
       IN Put(r, <<StateFor(r, locked, trashed)>>)

\* /set-locked, /set-trashed, /revoke.  (A refusal sent just ahead of the
\* state that says the same is part of it.)
Deliver ==
  /\ calls # <<>> /\ calls' = Tail(calls)
  /\ LET c == Head(calls)
     IN \/ c.op = "lock" /\ locked' = c.row.locked /\ UNCHANGED trashed
           /\ socks' = Leveled(locked', trashed')
        \/ c.op = "trash" /\ trashed' = c.row.trashed /\ UNCHANGED locked
           /\ socks' = Leveled(locked', trashed')
        \/ /\ c.op = "tier" /\ UNCHANGED <<locked, trashed>>
           /\ socks' = [t \in Tabs |-> [s \in Slots |->
                          Retiered(socks[t][s], c.row.tier[t])]]
  /\ UNCHANGED <<row, asked, doc, saved, epoch, versions, tabs, seen, left>>

\* The process ends and starts again: storage and the rows are what is left,
\* and the pages, which try again.
Crash ==
  /\ left.crashes > 0
  /\ left' = [left EXCEPT !.crashes = @ - 1]
  /\ calls' = <<>> /\ asked' = {}
  /\ lost' = (lost \/ calls # <<>>)
  /\ doc' = saved /\ trashed' = FALSE
  /\ socks' = [t \in Tabs |-> [s \in Slots |-> Vacant]]
  /\ tabs' = [t \in Tabs |-> IF tabs[t].state = "up"
                THEN [tabs[t] EXCEPT !.state = "down", !.slot = NoSlot, !.accepted = FALSE]
                ELSE tabs[t]]
  /\ UNCHANGED <<row, saved, epoch, locked, versions, typed, undone, early,
                 refused>>

Next ==
  \/ \E t \in Tabs : \/ \E e \in Edits : Type(t, e)
                     \/ Mint(t) \/ Connect(t) \/ Hears(t) \/ HearsClose(t) \/ LinkDies(t)
                     \/ \E s \in Slots : Handle(t, s) \/ Departs(t, s)
                     \/ \E what \in Flips, tier \in Tiers : Flip(what, t, tier)
  \/ \E v \in Content : AskRestore(v) \/ Restore(v)
  \/ Save \/ Deliver \/ Crash

(***************************************************************************)
(* The network delivers, the actor answers each page and the node's calls  *)
(* arrive; a page keeps trying while a held ticket lives (minutes, against *)
(* a connection's moments: strong fairness).  Nothing makes anyone type,   *)
(* restore, change a row, lose a link or crash.                            *)
(***************************************************************************)
PageHears(t) == Hears(t) \/ HearsClose(t)
Served(t) == \E s \in Slots : Handle(t, s) \/ Departs(t, s)

Fairness ==
  /\ \A t \in Tabs : /\ WF_vars(Mint(t)) /\ SF_vars(Connect(t))
                     /\ WF_vars(PageHears(t)) /\ WF_vars(Served(t))
  /\ WF_vars(Deliver)

Spec == Init /\ [][Next]_vars
FairSpec == Spec /\ Fairness

(***************************************************************************)
(* Properties                                                              *)
(***************************************************************************)
Frames ==
  [op : {"HELLO"}, epoch : Nat, has : Content]
  \cup [op : {"ACK"}, epoch : Nat] \cup [op : {"STEP1"}, has : Content]
  \cup [op : {"STEP2", "UPDATE"}, edits : Content] \cup [op : {"RESET"}]
  \cup [op : {"SYNC"}, edits : Content, readOnly : BOOLEAN, can : {"yes", "no"}]
  \cup [op : {"STATE"}, readOnly : BOOLEAN, can : {"yes", "no"}]
  \cup [op : {"REFUSED"}, kind : {"locked", "trashed", "epoch", "acl", "limit"}]

\* Every part of the state has its shape, and the document only what was typed.
TypeOK ==
  /\ row \in [locked : BOOLEAN, trashed : BOOLEAN,
              tier : [Tabs -> {"none", "read", "write"}]]
  /\ asked \subseteq versions /\ versions \subseteq Content
  /\ typed \in Content /\ doc \subseteq typed /\ saved \subseteq typed
  /\ undone \subseteq typed /\ early \subseteq typed
  /\ epoch \in Nat /\ locked \in BOOLEAN /\ trashed \in BOOLEAN /\ lost \in BOOLEAN
  /\ \A t \in Tabs, s \in Slots :
       /\ socks[t][s].code \in {"vacant", "open", "reset", "revoked"}
       /\ socks[t][s].born \in 0 .. epoch
       /\ \A i \in DOMAIN socks[t][s].up : socks[t][s].up[i] \in Frames
       /\ \A i \in DOMAIN socks[t][s].down : socks[t][s].down[i] \in Frames
  /\ \A t \in Tabs :
       /\ tabs[t].doc \subseteq typed /\ refused[t] \subseteq typed
       /\ tabs[t].heard \in Nat \cup {NoEpoch}
       /\ tabs[t].ticket \in {"none", "read", "write"}
       /\ tabs[t].slot \in Slots <=> tabs[t].state = "up"

Connected(t) == tabs[t].state = "up" /\ tabs[t].accepted /\ Open(Sock(t))
Quiet(t) == Sock(t).up = <<>> /\ Sock(t).down = <<>>

\* Once nothing is on its way between a page and the actor, the page shows the
\* whole document, and nothing more than what it was told was refused: the
\* two-way handshake and the fan-out miss nothing, in whatever order a page
\* connects, others type, and links and processes end (doc-actor.ts, connect
\* and onMessage; stuga-provider.ts, acceptEpoch and onMessage).
QuietMeansSame ==
  \A t \in Tabs : Connected(t) /\ Quiet(t) =>
    /\ doc \subseteq tabs[t].doc
    /\ tabs[t].doc \ doc \subseteq refused[t]

\* What a restore took out comes back only in frames already queued on a socket
\* closed by then, mostly by the restore: never from a page that was away and
\* returned, and never from one that loaded since.  (What a page's person typed
\* before it had heard any generation is of none, and may always be sent.)
\* gates.ts, the rollback fence; stuga-provider.ts, serverEpoch.
ReturningTabsAreFenced ==
  [][epoch' = epoch =>
      \A e \in undone \cap (doc' \ doc) :
        \/ e \in early
        \/ \E t \in Tabs, s \in Slots :
             /\ ~Open(socks[t][s]) /\ socks[t][s].born < epoch
             /\ Given(t, s, "STEP2") \/ Given(t, s, "UPDATE")
             /\ e \in Head(socks[t][s].up).edits]_vars

\* When no call is on its way the actor acts on what the row says: no socket
\* of a page without access is open, none writes above its tier, and the trash
\* flag is the row's whenever a page is connected; so is the lock, unless the
\* process ended with a call on its way.  (access.ts, revokeDocAccess,
\* pushLockState and pushTrashState; doc-actor.ts, connect and revoke.)
MirrorsAgree ==
  calls = <<>> =>
    /\ \A t \in Tabs, s \in Slots : Open(socks[t][s]) =>
         /\ row.tier[t] # "none" /\ trashed = row.trashed
         /\ socks[t][s].canWrite => row.tier[t] = "write"
    /\ lost \/ locked = row.locked

\* With nothing on its way to it or to the actor, a page is read-only exactly when the actor
\* would refuse its writes: the level sent with every handshake and every
\* change reaches it, and no older refusal outlasts it (DocPage.tsx, onDocState).
PageKnowsItsLevel ==
  calls = <<>> => \A t \in Tabs : Connected(t) /\ Quiet(t) =>
    (tabs[t].readOnly <=> locked \/ trashed \/ ~Sock(t).canWrite)

\* What a page holds arrives: it is merged, refused, or gone with a reload or
\* the end of the page, however often links die and processes end.
EditsArrive ==
  \A t \in Tabs, e \in Edits :
    e \in tabs[t].doc ~> \/ e \in doc \/ e \notin tabs[t].doc
                         \/ e \in refused[t] \/ tabs[t].state = "over"

(***************************************************************************)
(* Claims the code makes that do not hold                                  *)
(***************************************************************************)

\* gates.ts: after a restore, a socket that has not acked the current generation
\* "holds superseded state that would re-merge rolled-back content".  What a
\* restore took out stays out until a version that has it is restored.
RolledBackStaysGone ==
  [][epoch' = epoch => undone \cap (doc' \ doc) \subseteq early]_vars

\* doc-actor.ts, SYNC_STEP_1: the state goes out again on every reconnect, "so a
\* tab that missed a change (an unlock, a restore, a new tier) catches up": a
\* page given the write tier is in the end not held below it.
NewTierReaches ==
  \A t \in Tabs :
    row.tier[t] = "write" ~> \/ row.tier[t] # "write" \/ tabs[t].state = "over"
                             \/ tabs[t].state = "up" /\ Sock(t).canWrite
=============================================================================
