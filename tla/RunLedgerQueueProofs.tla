----------------------- MODULE RunLedgerQueueProofs ------------------------
(* Proofs about the queue of runs an agent builds on top of itself, the     *)
(* notes people leave it, and the cap on runs kept, for any agents,         *)
(* passages and bounds.                                                     *)
EXTENDS RunLedgerProofs

\* A run is queued behind an older one of its agent that can itself be decided, or behind none:
\* what unlink, an undo and an eviction must each restore.
Behind(L) ==
  \A r \in RunIds :
    LET q == L.runs[r].queued_behind IN
    q # NoRun => /\ q < r
                 /\ L.runs[q].status = "open" /\ L.runs[q].agent = L.runs[r].agent
                 /\ Pending(L.runs[q]) # {}

\* Of two open runs of an agent both wait, and the newer is queued no further up than the older:
\* without it, closing the run between them would let the newer one overtake.
InLine(L) ==
  \A q, r \in RunIds :
    q # r /\ L.runs[q].status = "open" /\ L.runs[r].status = "open" /\ L.runs[q].agent = L.runs[r].agent
      => Pending(L.runs[q]) # {} /\ (q < r => q <= L.runs[r].queued_behind)

\* The pointer of an agent that has open runs names the newest of them.
Pointed(L) ==
  \A r \in RunIds :
    LET c == L.active[L.runs[r].agent] IN
    L.runs[r].status = "open" => /\ c # NoRun /\ r <= c
                                 /\ L.runs[c].status = "open" /\ L.runs[c].agent = L.runs[r].agent

\* A run was proposed on top of older runs of its own agent.
Stacked(L) ==
  \A r \in RunIds : \A q \in L.runs[r].stacked_on :
    L.runs[r].status # "none" => /\ q < r
                                 /\ L.runs[q].status # "none" => L.runs[q].agent = L.runs[r].agent

Lined(L) == LedgerOK(L) /\ Behind(L) /\ InLine(L) /\ Pointed(L) /\ Stacked(L)

\* A note still to be shown is listed for its agent, in a run young enough that the cap spares it.
NotesHeld(L) ==
  \A r \in RunIds :
    L.runs[r].status # "none" /\ OpenFeedback(L.runs[r]) # {}
      => r \in L.listed[L.runs[r].agent] /\ L.runs[r].age # "old"

Numbered(L, n) == \A r \in RunIds : L.runs[r].status # "none" => r <= n

QInv == IInv /\ Lined(Ledger) /\ NotesHeld(Ledger) /\ Numbered(Ledger, minted)

\* What one run and its successor in a step have in common where the queue is left alone.
SamePlace(x, y) ==
  /\ y.agent = x.agent /\ y.status = x.status
  /\ y.queued_behind = x.queued_behind /\ y.stacked_on = x.stacked_on

\* What they have in common where nothing is proposed, decided or noted.
SameWork(x, y) ==
  /\ y.agent = x.agent /\ y.hunks = x.hunks /\ y.age \in {x.age, "new"}
  /\ y.status = "none" <=> x.status = "none"

-----------------------------------------------------------------------------
(* Four ways a ledger changes, and the queue with it *)

\* Runs keep their places, and none that waits stops waiting; a pointer moves only if it was stale.
LEMMA LinedSame ==
  ASSUME NEW L, Lined(L), NEW M, LedgerOK(M),
         \A q \in RunIds : SamePlace(L.runs[q], M.runs[q]),
         \A q \in RunIds : L.runs[q].status = "open" /\ Pending(L.runs[q]) # {} => Pending(M.runs[q]) # {},
         \A a \in Agents : M.active[a] = L.active[a] \/ ~IsOpen(L, L.active[a])
  PROVE  Lined(M)
<1>1. \A q \in RunIds : /\ L.runs[q].agent \in Agents
                        /\ L.runs[q].queued_behind \in RunIds \cup {NoRun}
                        /\ L.runs[q].stacked_on \subseteq RunIds
  BY DEF Lined, LedgerOK, Ledgers, Run
<1>2. \A a \in Agents : L.active[a] \in RunIds \cup {NoRun}
  BY DEF Lined, LedgerOK, Ledgers
<1>3. Behind(M)
  <2> SUFFICES ASSUME NEW r \in RunIds, NEW q, q = M.runs[r].queued_behind, q # NoRun
               PROVE  /\ q < r /\ M.runs[q].status = "open" /\ M.runs[q].agent = M.runs[r].agent
                      /\ Pending(M.runs[q]) # {}
    BY DEF Behind
  <2>1. q = L.runs[r].queued_behind /\ q \in RunIds
    BY <1>1 DEF SamePlace
  <2>2. q < r /\ L.runs[q].status = "open" /\ L.runs[q].agent = L.runs[r].agent /\ Pending(L.runs[q]) # {}
    BY <2>1 DEF Lined, Behind
  <2> QED BY <2>1, <2>2 DEF SamePlace
<1>4. InLine(M)
  BY <1>1 DEF Lined, InLine, SamePlace
<1>5. Pointed(M)
  <2> SUFFICES ASSUME NEW r \in RunIds, M.runs[r].status = "open"
               PROVE  LET c == M.active[M.runs[r].agent] IN
                      /\ c # NoRun /\ r <= c
                      /\ M.runs[c].status = "open" /\ M.runs[c].agent = M.runs[r].agent
    BY DEF Pointed
  <2> DEFINE a == L.runs[r].agent
  <2>1. /\ L.active[a] # NoRun /\ r <= L.active[a]
        /\ L.runs[L.active[a]].status = "open" /\ L.runs[L.active[a]].agent = a
    BY DEF Lined, Pointed, SamePlace
  <2>2. M.active[a] = L.active[a]
    BY <1>1, <2>1 DEF IsOpen
  <2> QED BY <1>1, <1>2, <2>1, <2>2 DEF SamePlace
<1>6. Stacked(M)
  BY <1>1 DEF Lined, Stacked, SamePlace
<1> QED BY <1>3, <1>4, <1>5, <1>6 DEF Lined

\* A run ended: the runs behind it and its agent's pointer move to the run ahead of it.
LEMMA LinedUnlinked ==
  ASSUME NEW L, Lined(L), NEW M, LedgerOK(M), NEW r \in RunIds,
         M.runs[r].status \notin {"open", "none"}, L.runs[r].status # "none",
         \A q \in RunIds : /\ M.runs[q].agent = L.runs[q].agent
                           /\ M.runs[q].stacked_on = L.runs[q].stacked_on
                           /\ M.runs[q].queued_behind = IF L.runs[q].queued_behind = r
                                                        THEN L.runs[r].queued_behind
                                                        ELSE L.runs[q].queued_behind,
         \A q \in RunIds \ {r} : M.runs[q].status = L.runs[q].status /\ M.runs[q].hunks = L.runs[q].hunks,
         \A a \in Agents : M.active[a] = IF a = L.runs[r].agent /\ L.active[a] = r
                                         THEN L.runs[r].queued_behind ELSE L.active[a]
  PROVE  Lined(M)
<1>1. \A q \in RunIds : /\ L.runs[q].agent \in Agents
                        /\ L.runs[q].queued_behind \in RunIds \cup {NoRun}
                        /\ L.runs[q].stacked_on \subseteq RunIds
  BY DEF Lined, LedgerOK, Ledgers, Run
<1>2. \A a \in Agents : L.active[a] \in RunIds \cup {NoRun}
  BY DEF Lined, LedgerOK, Ledgers
<1>3. \A q \in RunIds \ {r} : Pending(M.runs[q]) = Pending(L.runs[q])
  BY DEF Pending
<1>4. RunIds \subseteq Nat \ {0} /\ NoRun = 0
  BY BoundsAssumption DEF RunIds, NoRun
<1>5. Behind(M)
  <2> SUFFICES ASSUME NEW s \in RunIds, NEW q, q = M.runs[s].queued_behind, q # NoRun
               PROVE  /\ q < s /\ M.runs[q].status = "open" /\ M.runs[q].agent = M.runs[s].agent
                      /\ Pending(M.runs[q]) # {}
    BY DEF Behind
  <2>1. CASE L.runs[s].queued_behind = r
    <3>1. r < s /\ L.runs[r].agent = L.runs[s].agent
      BY <2>1, <1>4 DEF Lined, Behind
    <3>2. q = L.runs[r].queued_behind
      BY <2>1
    <3>3. q < r /\ L.runs[q].status = "open" /\ L.runs[q].agent = L.runs[r].agent /\ Pending(L.runs[q]) # {}
      BY <3>2 DEF Lined, Behind
    <3>4. q \in RunIds \ {r}
      BY <1>1, <1>4, <3>2, <3>3
    <3> QED BY <1>3, <1>4, <3>1, <3>3, <3>4
  <2>2. CASE L.runs[s].queued_behind # r
    <3>1. q = L.runs[s].queued_behind
      BY <2>2
    <3>2. q < s /\ L.runs[q].status = "open" /\ L.runs[q].agent = L.runs[s].agent /\ Pending(L.runs[q]) # {}
      BY <3>1 DEF Lined, Behind
    <3>3. q \in RunIds \ {r}
      BY <1>1, <2>2, <3>1
    <3> QED BY <1>3, <3>2, <3>3
  <2> QED BY <2>1, <2>2
<1>6. InLine(M)
  <2> SUFFICES ASSUME NEW q \in RunIds, NEW s \in RunIds, q # s, M.runs[q].status = "open",
                      M.runs[s].status = "open", M.runs[q].agent = M.runs[s].agent
               PROVE  Pending(M.runs[q]) # {} /\ (q < s => q <= M.runs[s].queued_behind)
    BY DEF InLine
  <2>1. q # r /\ s # r
    OBVIOUS
  <2>2. L.runs[q].status = "open" /\ L.runs[s].status = "open" /\ L.runs[q].agent = L.runs[s].agent
    BY <2>1
  <2>3. Pending(L.runs[q]) # {} /\ (q < s => q <= L.runs[s].queued_behind)
    BY <2>2 DEF Lined, InLine
  <2>4. ASSUME q < s, L.runs[s].queued_behind = r PROVE q <= L.runs[r].queued_behind
    <3>1. L.runs[r].status = "open" /\ L.runs[r].agent = L.runs[s].agent
      BY <1>4, <2>4 DEF Lined, Behind
    <3>2. q < r
      BY <1>4, <2>1, <2>3, <2>4
    <3> QED BY <2>1, <2>2, <3>1, <3>2 DEF Lined, InLine
  <2> QED BY <1>3, <2>1, <2>3, <2>4
<1>7. Pointed(M)
  <2> SUFFICES ASSUME NEW s \in RunIds, M.runs[s].status = "open"
               PROVE  LET c == M.active[M.runs[s].agent] IN
                      /\ c # NoRun /\ s <= c
                      /\ M.runs[c].status = "open" /\ M.runs[c].agent = M.runs[s].agent
    BY DEF Pointed
  <2> DEFINE a == L.runs[s].agent
             c == L.active[a]
  <2>1. s # r /\ L.runs[s].status = "open" /\ a \in Agents
    BY <1>1
  <2>2. c # NoRun /\ s <= c /\ L.runs[c].status = "open" /\ L.runs[c].agent = a
    BY <2>1 DEF Lined, Pointed
  <2>3. c \in RunIds
    BY <1>2, <2>1, <2>2
  <2>4. CASE c = r
    <3> DEFINE n == L.runs[r].queued_behind
    <3>1. s < r
      BY <1>4, <2>1, <2>2, <2>4
    <3>2. s <= n
      BY <2>1, <2>2, <2>4, <3>1 DEF Lined, InLine
    <3>3. n \in RunIds /\ n # NoRun
      BY <1>1, <1>4, <3>2
    <3>4. n < r /\ L.runs[n].status = "open" /\ L.runs[n].agent = L.runs[r].agent
      BY <3>3 DEF Lined, Behind
    <3>5. M.active[a] = n
      BY <2>1, <2>2, <2>4
    <3>6. n # r
      BY <1>4, <3>3, <3>4
    <3> QED BY <2>2, <2>4, <3>2, <3>3, <3>4, <3>5, <3>6, SMTT(30)
  <2>5. CASE c # r
    BY <2>1, <2>2, <2>3, <2>5, ZenonT(60)
  <2> QED BY <2>4, <2>5
<1>8. Stacked(M)
  <2> SUFFICES ASSUME NEW s \in RunIds, NEW q \in M.runs[s].stacked_on,
                      M.runs[s].status # "none"
               PROVE  q < s /\ (M.runs[q].status # "none" => M.runs[q].agent = M.runs[s].agent)
    BY DEF Stacked
  <2>1. q \in RunIds /\ q \in L.runs[s].stacked_on
    BY <1>1
  <2>2. L.runs[s].status # "none" /\ (M.runs[q].status # "none" => L.runs[q].status # "none")
    BY <2>1
  <2> QED BY <2>1, <2>2 DEF Lined, Stacked
<1> QED BY <1>5, <1>6, <1>7, <1>8 DEF Lined

\* A closed run opens again while its agent has no open run: it is first in line, and pointed at.
LEMMA LinedReopened ==
  ASSUME NEW L, Lined(L), NEW M, LedgerOK(M), NEW r \in RunIds,
         M.runs[r].status = "open", L.runs[r].status # "none",
         \A q \in RunIds : L.runs[q].status = "open" => L.runs[q].agent # L.runs[r].agent,
         \A q \in RunIds : /\ M.runs[q].agent = L.runs[q].agent
                           /\ M.runs[q].stacked_on = L.runs[q].stacked_on
                           /\ M.runs[q].queued_behind = L.runs[q].queued_behind,
         \A q \in RunIds \ {r} : M.runs[q].status = L.runs[q].status /\ M.runs[q].hunks = L.runs[q].hunks,
         \A a \in Agents : M.active[a] = IF a = L.runs[r].agent THEN r ELSE L.active[a]
  PROVE  Lined(M)
<1>1. \A q \in RunIds : /\ L.runs[q].agent \in Agents
                        /\ L.runs[q].queued_behind \in RunIds \cup {NoRun}
                        /\ L.runs[q].stacked_on \subseteq RunIds
  BY DEF Lined, LedgerOK, Ledgers, Run
<1>2. \A a \in Agents : L.active[a] \in RunIds \cup {NoRun}
  BY DEF Lined, LedgerOK, Ledgers
<1>3. \A q \in RunIds \ {r} : Pending(M.runs[q]) = Pending(L.runs[q])
  BY DEF Pending
<1>4. RunIds \subseteq Nat \ {0} /\ NoRun = 0
  BY BoundsAssumption DEF RunIds, NoRun
<1>5. L.runs[r].status # "open"
  OBVIOUS
<1>6. Behind(M)
  <2> SUFFICES ASSUME NEW s \in RunIds, NEW q, q = M.runs[s].queued_behind, q # NoRun
               PROVE  /\ q < s /\ M.runs[q].status = "open" /\ M.runs[q].agent = M.runs[s].agent
                      /\ Pending(M.runs[q]) # {}
    BY DEF Behind
  <2>1. q = L.runs[s].queued_behind /\ q \in RunIds
    BY <1>1
  <2>2. q < s /\ L.runs[q].status = "open" /\ L.runs[q].agent = L.runs[s].agent /\ Pending(L.runs[q]) # {}
    BY <2>1 DEF Lined, Behind
  <2>3. q # r
    BY <1>5, <2>2
  <2> QED BY <1>3, <2>1, <2>2, <2>3
<1>7. InLine(M)
  <2> SUFFICES ASSUME NEW q \in RunIds, NEW s \in RunIds, q # s, M.runs[q].status = "open",
                      M.runs[s].status = "open", M.runs[q].agent = M.runs[s].agent
               PROVE  Pending(M.runs[q]) # {} /\ (q < s => q <= M.runs[s].queued_behind)
    BY DEF InLine
  <2>1. q # r /\ s # r
    OBVIOUS
  <2>2. L.runs[q].status = "open" /\ L.runs[s].status = "open" /\ L.runs[q].agent = L.runs[s].agent
    BY <2>1
  <2>3. Pending(L.runs[q]) # {} /\ (q < s => q <= L.runs[s].queued_behind)
    BY <2>2 DEF Lined, InLine
  <2> QED BY <1>3, <2>1, <2>3
<1>8. Pointed(M)
  <2> SUFFICES ASSUME NEW s \in RunIds, M.runs[s].status = "open", NEW c, c = M.active[M.runs[s].agent]
               PROVE  /\ c # NoRun /\ s <= c
                      /\ M.runs[c].status = "open" /\ M.runs[c].agent = M.runs[s].agent
    BY DEF Pointed
  <2>1. CASE s = r
    <3>1. c = r
      BY <1>1, <2>1
    <3> QED BY <1>4, <2>1, <3>1
  <2>2. CASE s # r
    <3>1. L.runs[s].status = "open" /\ L.runs[s].agent # L.runs[r].agent /\ L.runs[s].agent \in Agents
      BY <1>1, <2>2
    <3>2. c = L.active[L.runs[s].agent]
      BY <3>1
    <3>3. c # NoRun /\ s <= c /\ L.runs[c].status = "open" /\ L.runs[c].agent = L.runs[s].agent
      BY <3>1, <3>2, SMTT(30) DEF Lined, Pointed
    <3>4. c \in RunIds \ {r}
      BY <1>2, <1>5, <3>1, <3>2, <3>3
    <3> QED BY <3>1, <3>3, <3>4
  <2> QED BY <2>1, <2>2
<1>9. Stacked(M)
  <2> SUFFICES ASSUME NEW s \in RunIds, NEW q \in M.runs[s].stacked_on,
                      M.runs[s].status # "none"
               PROVE  q < s /\ (M.runs[q].status # "none" => M.runs[q].agent = M.runs[s].agent)
    BY DEF Stacked
  <2>1. q \in RunIds /\ q \in L.runs[s].stacked_on
    BY <1>1
  <2>2. L.runs[s].status # "none" /\ (M.runs[q].status # "none" => L.runs[q].status # "none")
    BY <2>1
  <2> QED BY <2>1, <2>2 DEF Lined, Stacked
<1> QED BY <1>6, <1>7, <1>8, <1>9 DEF Lined

\* The run id of agent a takes its place behind the newest of the runs of L that wait, and the runs
\* E, in which nothing waits, are dropped.
Enters(L, M, id, a, E) ==
  /\ \A q \in RunIds : L.runs[q].status # "none" => q < id
  /\ \A q \in E : Pending(L.runs[q]) = {}
  /\ \A q \in RunIds : L.runs[q].status = "open" /\ L.runs[q].agent = a =>
       /\ Pending(L.runs[q]) # {} /\ Pending(M.runs[id]) # {}
       /\ q <= M.runs[id].queued_behind
  /\ M.runs[id].status = "open" /\ M.runs[id].agent = a
  /\ M.runs[id].queued_behind # NoRun => M.runs[id].queued_behind \in Waiting(L, a)
  /\ M.runs[id].stacked_on \subseteq Waiting(L, a)
  /\ \A q \in RunIds \ {id} : M.runs[q] = IF q \in E THEN Blank ELSE L.runs[q]
  /\ \A b \in Agents : M.active[b] = IF b = a THEN id ELSE IF L.active[b] \in E THEN NoRun ELSE L.active[b]

\* The queue holds with the new run in it.
LEMMA LinedTracked ==
  ASSUME NEW L, Lined(L), NEW M, LedgerOK(M), NEW id \in RunIds, NEW a \in Agents, NEW E \in SUBSET RunIds,
         Enters(L, M, id, a, E)
  PROVE  Lined(M)
<1> USE DEF Enters
<1>1. \A q \in RunIds : /\ L.runs[q].agent \in Agents
                        /\ L.runs[q].queued_behind \in RunIds \cup {NoRun}
                        /\ L.runs[q].stacked_on \subseteq RunIds
  BY DEF Lined, LedgerOK, Ledgers, Run
<1>2. \A b \in Agents : L.active[b] \in RunIds \cup {NoRun}
  BY DEF Lined, LedgerOK, Ledgers
<1>3. RunIds \subseteq Nat \ {0} /\ NoRun = 0
  BY BoundsAssumption DEF RunIds, NoRun
<1>4. L.runs[id].status = "none"
  BY <1>3
<1>5. Blank.status = "none" /\ Blank.queued_behind = NoRun
  BY BlankOK
<1>6. \A q \in RunIds : L.runs[q].status = "open" /\ Pending(L.runs[q]) # {} =>
        q # id /\ q < id /\ M.runs[q] = L.runs[q]
  BY <1>3, <1>4
<1>7. \A q \in Waiting(L, a) : /\ q \in RunIds /\ L.runs[q].status = "open" /\ L.runs[q].agent = a
                               /\ Pending(L.runs[q]) # {}
  BY DEF Waiting, Kept, IsOpen
<1>8. \A q \in RunIds \ {id} : M.runs[q].status = "open" =>
        q \notin E /\ M.runs[q] = L.runs[q] /\ L.runs[q].status = "open" /\ q < id
  BY <1>5
<1>9. Behind(M)
  <2> SUFFICES ASSUME NEW s \in RunIds, NEW q, q = M.runs[s].queued_behind, q # NoRun
               PROVE  /\ q < s /\ M.runs[q].status = "open" /\ M.runs[q].agent = M.runs[s].agent
                      /\ Pending(M.runs[q]) # {}
    BY DEF Behind
  <2>1. CASE s = id
    <3>1. q \in Waiting(L, a)
      BY <2>1
    <3>2. q \in RunIds /\ L.runs[q].status = "open" /\ L.runs[q].agent = a /\ Pending(L.runs[q]) # {}
      BY <1>7, <3>1
    <3> QED BY <1>6, <2>1, <3>2
  <2>2. CASE s # id
    <3>1. M.runs[s] = L.runs[s]
      BY <1>5, <2>2
    <3>2. q < s /\ L.runs[q].status = "open" /\ L.runs[q].agent = L.runs[s].agent /\ Pending(L.runs[q]) # {}
      BY <3>1 DEF Lined, Behind
    <3>3. q \in RunIds
      BY <1>1, <3>1
    <3> QED BY <1>6, <3>1, <3>2, <3>3
  <2> QED BY <2>1, <2>2
<1>10. InLine(M)
  <2> SUFFICES ASSUME NEW q \in RunIds, NEW s \in RunIds, q # s, M.runs[q].status = "open",
                      M.runs[s].status = "open", M.runs[q].agent = M.runs[s].agent
               PROVE  Pending(M.runs[q]) # {} /\ (q < s => q <= M.runs[s].queued_behind)
    BY DEF InLine
  <2>1. CASE q = id
    <3>1. M.runs[s] = L.runs[s] /\ L.runs[s].status = "open" /\ s < id
      BY <1>8, <2>1
    <3> QED BY <1>3, <2>1, <3>1
  <2>2. CASE s = id
    <3>1. M.runs[q] = L.runs[q] /\ L.runs[q].status = "open"
      BY <1>8, <2>2
    <3> QED BY <2>2, <3>1
  <2>3. CASE q # id /\ s # id
    BY <1>8, <2>3 DEF Lined, InLine
  <2> QED BY <2>1, <2>2, <2>3
<1>11. Pointed(M)
  <2> SUFFICES ASSUME NEW s \in RunIds, M.runs[s].status = "open"
               PROVE  LET c == M.active[M.runs[s].agent] IN
                      /\ c # NoRun /\ s <= c
                      /\ M.runs[c].status = "open" /\ M.runs[c].agent = M.runs[s].agent
    BY DEF Pointed
  <2>1. CASE M.runs[s].agent = a
    <3>1. s <= id
      <4>1. s = id \/ s < id
        BY <1>8
      <4> QED BY <1>3, <4>1
    <3> QED BY <1>3, <2>1, <3>1
  <2>2. CASE M.runs[s].agent # a
    <3> DEFINE b == L.runs[s].agent
               c == L.active[b]
    <3>1. s # id /\ s \notin E /\ M.runs[s] = L.runs[s] /\ L.runs[s].status = "open" /\ b # a /\ b \in Agents
      BY <1>1, <1>8, <2>2
    <3>2. c # NoRun /\ s <= c /\ L.runs[c].status = "open" /\ L.runs[c].agent = b
      BY <3>1 DEF Lined, Pointed
    <3>3. c \in RunIds /\ c # id
      BY <1>2, <1>4, <3>1, <3>2
    <3>4. c \notin E
      <4>1. c # s => Pending(L.runs[c]) # {}
        BY <3>1, <3>2, <3>3 DEF Lined, InLine
      <4> QED BY <3>1, <4>1
    <3> QED BY <3>1, <3>2, <3>3, <3>4, SMTT(30)
  <2> QED BY <2>1, <2>2
<1>12. Stacked(M)
  <2> SUFFICES ASSUME NEW s \in RunIds, NEW q \in M.runs[s].stacked_on,
                      M.runs[s].status # "none"
               PROVE  q < s /\ (M.runs[q].status # "none" => M.runs[q].agent = M.runs[s].agent)
    BY DEF Stacked
  <2>1. CASE s = id
    BY <1>6, <1>7, <2>1
  <2>2. CASE s # id
    <3>1. M.runs[s] = L.runs[s] /\ s < id
      BY <1>5, <2>2
    <3>2. q \in RunIds
      BY <1>1, <3>1
    <3>3. q < s
      BY <3>1, <3>2 DEF Lined, Stacked
    <3>4. q # id
      BY <1>3, <3>1, <3>2, <3>3
    <3> QED BY <1>5, <3>1, <3>2, <3>3, <3>4 DEF Lined, Stacked
  <2> QED BY <2>1, <2>2
<1> QED BY <1>9, <1>10, <1>11, <1>12 DEF Lined

-----------------------------------------------------------------------------
(* The notes *)

\* No note is added, none leaves the list, no run is made old.
LEMMA NotesSame ==
  ASSUME NEW L, NotesHeld(L), NEW M,
         \A q \in RunIds : /\ M.runs[q].agent = L.runs[q].agent
                           /\ M.runs[q].status # "none" => L.runs[q].status # "none"
                           /\ OpenFeedback(M.runs[q]) \subseteq OpenFeedback(L.runs[q])
                           /\ M.runs[q].age = "old" => L.runs[q].age = "old"
                           /\ q \in L.listed[L.runs[q].agent] => q \in M.listed[L.runs[q].agent]
  PROVE  NotesHeld(M)
BY DEF NotesHeld

\* Where the lists and the notes are what they were, no note is lost.
LEMMA NotesSameWork ==
  ASSUME NEW L, NotesHeld(L), NEW M, M.listed = L.listed, \A q \in RunIds : SameWork(L.runs[q], M.runs[q])
  PROVE  NotesHeld(M)
<1>1. \A q \in RunIds : OpenFeedback(M.runs[q]) = OpenFeedback(L.runs[q])
  BY DEF SameWork, OpenFeedback
<1>2. \A q \in RunIds : /\ M.runs[q].agent = L.runs[q].agent
                        /\ M.runs[q].status # "none" => L.runs[q].status # "none"
                        /\ M.runs[q].age = "old" => L.runs[q].age = "old"
  BY DEF SameWork
<1> QED BY <1>1, <1>2, NotesSame

\* Where the same runs are kept, the numbers handed out still cover them.
LEMMA NumberedSame ==
  ASSUME NEW L, NEW n, Numbered(L, n), NEW M,
         \A q \in RunIds : M.runs[q].status # "none" => L.runs[q].status # "none"
  PROVE  Numbered(M, n)
BY DEF Numbered

-----------------------------------------------------------------------------
(* The ledger's operations *)

\* What unlinking a run changes of the others: only what they queue behind.
LEMMA UnlinkedFields ==
  ASSUME NEW L, LedgerOK(L), NEW r \in RunIds
  PROVE  LET U == Unlinked(L, r) IN
         /\ LedgerOK(U) /\ U.listed = L.listed
         /\ \A q \in RunIds :
              /\ SameWork(L.runs[q], U.runs[q]) /\ U.runs[q].status = L.runs[q].status
              /\ U.runs[q].stacked_on = L.runs[q].stacked_on
              /\ U.runs[q].queued_behind = IF L.runs[q].queued_behind = r THEN AheadOf(L, r)
                                           ELSE L.runs[q].queued_behind
         /\ \A a \in Agents : U.active[a] = IF a = L.runs[r].agent /\ L.active[a] = r
                                            THEN AheadOf(L, r) ELSE L.active[a]
<1> DEFINE U == Unlinked(L, r)
           next == AheadOf(L, r)
<1>1. LedgerOK(U)
  BY UnlinkedOK
<1>2. /\ U.runs = [q \in RunIds |-> IF L.runs[q].queued_behind = r
                                    THEN [L.runs[q] EXCEPT !.queued_behind = next, !.age = "new"]
                                    ELSE L.runs[q]]
      /\ U.active = [a \in Agents |-> IF a = L.runs[r].agent /\ L.active[a] = r THEN next ELSE L.active[a]]
      /\ U.listed = L.listed
  BY DEF Unlinked
<1> HIDE DEF U, next
<1>3. ASSUME NEW q \in RunIds
      PROVE  /\ SameWork(L.runs[q], U.runs[q]) /\ U.runs[q].status = L.runs[q].status
             /\ U.runs[q].stacked_on = L.runs[q].stacked_on
             /\ U.runs[q].queued_behind = IF L.runs[q].queued_behind = r THEN next ELSE L.runs[q].queued_behind
  <2>1. L.runs[q] \in Run
    BY DEF LedgerOK, Ledgers
  <2>2. CASE L.runs[q].queued_behind = r
    <3>1. U.runs[q] = [L.runs[q] EXCEPT !.queued_behind = next, !.age = "new"]
      BY <1>2, <2>2
    <3> QED BY <2>1, <2>2, <3>1 DEF Run, SameWork
  <2>3. CASE L.runs[q].queued_behind # r
    BY <1>2, <2>3 DEF SameWork
  <2> QED BY <2>2, <2>3
<1>4. \A a \in Agents : U.active[a] = IF a = L.runs[r].agent /\ L.active[a] = r THEN next ELSE L.active[a]
  BY <1>2
<1> QED BY <1>1, <1>2, <1>3, <1>4 DEF U, next

\* A run that was rewritten as ended leaves the queue in order; L is the ledger before, K with the
\* run rewritten.
LEMMA EndedLined ==
  ASSUME NEW L, Lined(L), NEW r \in RunIds, L.runs[r].status # "none", NEW K, LedgerOK(K),
         K.runs[r].status \notin {"open", "none"}, K.runs[r].agent = L.runs[r].agent,
         K.runs[r].queued_behind = L.runs[r].queued_behind, K.runs[r].stacked_on = L.runs[r].stacked_on,
         \A q \in RunIds \ {r} : K.runs[q] = L.runs[q], K.active = L.active
  PROVE  Lined(Unlinked(K, r))
<1> DEFINE U == Unlinked(K, r)
           ahead == L.runs[r].queued_behind
<1>1. RunIds \subseteq Nat \ {0} /\ NoRun = 0 /\ ahead \in RunIds \cup {NoRun}
  BY BoundsAssumption DEF RunIds, NoRun, Lined, LedgerOK, Ledgers, Run
<1>2. AheadOf(K, r) = ahead
  <2>1. CASE ahead = NoRun
    BY <2>1 DEF AheadOf, IsOpen
  <2>2. CASE ahead # NoRun
    <3>1. ahead < r /\ L.runs[ahead].status = "open"
      BY <2>2 DEF Lined, Behind
    <3>2. K.runs[ahead].status = "open"
      BY <1>1, <2>2, <3>1
    <3> QED BY <2>2, <3>2 DEF AheadOf, IsOpen
  <2> QED BY <2>1, <2>2
<1>3. /\ LedgerOK(U)
      /\ \A q \in RunIds :
           /\ U.runs[q].agent = K.runs[q].agent /\ U.runs[q].hunks = K.runs[q].hunks
           /\ U.runs[q].status = K.runs[q].status /\ U.runs[q].stacked_on = K.runs[q].stacked_on
           /\ U.runs[q].queued_behind = IF K.runs[q].queued_behind = r THEN ahead ELSE K.runs[q].queued_behind
      /\ \A a \in Agents : U.active[a] = IF a = K.runs[r].agent /\ K.active[a] = r THEN ahead ELSE K.active[a]
  BY <1>2, UnlinkedFields DEF SameWork
<1> HIDE DEF U
<1>4. \A q \in RunIds : /\ K.runs[q].agent = L.runs[q].agent
                        /\ K.runs[q].queued_behind = L.runs[q].queued_behind
                        /\ K.runs[q].stacked_on = L.runs[q].stacked_on
  OBVIOUS
<1>5. \A q \in RunIds : /\ U.runs[q].agent = L.runs[q].agent
                        /\ U.runs[q].stacked_on = L.runs[q].stacked_on
                        /\ U.runs[q].queued_behind = IF L.runs[q].queued_behind = r THEN L.runs[r].queued_behind
                                                     ELSE L.runs[q].queued_behind
  BY <1>3, <1>4
<1>6. \A q \in RunIds \ {r} : U.runs[q].status = L.runs[q].status /\ U.runs[q].hunks = L.runs[q].hunks
  BY <1>3
<1>7. \A a \in Agents : U.active[a] = IF a = L.runs[r].agent /\ L.active[a] = r
                                      THEN L.runs[r].queued_behind ELSE L.active[a]
  BY <1>3
<1>8. U.runs[r].status \notin {"open", "none"}
  BY <1>3
<1> HIDE DEF ahead
<1>9. Lined(U)
  BY <1>3, <1>5, <1>6, <1>7, <1>8, LinedUnlinked
<1> QED BY <1>9 DEF U

\* Closing a run: L is the ledger before the decision that closes it, K the one after.
LEMMA ClosedLined ==
  ASSUME NEW L, Lined(L), NEW r \in RunIds, L.runs[r].status # "none", NEW K, LedgerOK(K),
         K.runs[r].status = "open", Pending(K.runs[r]) = {}, K.runs[r].agent = L.runs[r].agent,
         K.runs[r].queued_behind = L.runs[r].queued_behind, K.runs[r].stacked_on = L.runs[r].stacked_on,
         \A q \in RunIds \ {r} : K.runs[q] = L.runs[q], K.active = L.active
  PROVE  /\ Lined(Closed(K, r)) /\ Closed(K, r).listed = K.listed
         /\ \A q \in RunIds : SameWork(K.runs[q], Closed(K, r).runs[q])
         /\ Closed(K, r).runs[r].status # "open"
         /\ \A q \in RunIds \ {r} : Closed(K, r).runs[q].status = L.runs[q].status
<1> DEFINE run == [K.runs[r] EXCEPT !.status = ClosedStatus(K.runs[r]), !.age = "new"]
           J == [K EXCEPT !.runs[r] = run]
           U == Unlinked(J, r)
<1>1. U = Closed(K, r)
  BY DEF Closed
<1>2. RunOK(K.runs[r]) /\ K.runs[r] \in Run
  BY DEF LedgerOK, Ledgers
<1>3. RunOK(run)
  <2>1. run \in Run
    BY <1>2 DEF Run, ClosedStatus
  <2>2. /\ run.hunks = K.runs[r].hunks /\ run.approvals = K.runs[r].approvals
        /\ run.agent = K.runs[r].agent /\ run.review_mode = K.runs[r].review_mode
        /\ run.reverted = K.runs[r].reverted /\ run.status = ClosedStatus(K.runs[r])
    BY <1>2 DEF Run
  <2>3. Pending(run) = Pending(K.runs[r]) /\ LandedIn(run) = LandedIn(K.runs[r])
    BY <2>2 DEF Pending, LandedIn
  <2>4. Signed(run)
    BY <1>2, <2>2 DEF RunOK, Signed
  <2>5. ~run.reverted
    BY <1>2, <2>2 DEF RunOK, Settled
  <2> HIDE DEF run
  <2>6. run.status \in {"applied", "rejected"} /\ (run.status = "applied" <=> LandedIn(run) # {})
    BY <2>2, <2>3 DEF ClosedStatus
  <2>7. Settled(run)
    BY <2>3, <2>5, <2>6 DEF Settled
  <2> QED BY <1>2, <2>1, <2>2, <2>4, <2>7 DEF RunOK
<1>4. /\ run.status \in {"applied", "rejected"} /\ run.agent = K.runs[r].agent /\ run.hunks = K.runs[r].hunks
      /\ run.queued_behind = K.runs[r].queued_behind /\ run.stacked_on = K.runs[r].stacked_on /\ run.age = "new"
  BY <1>2 DEF Run, ClosedStatus
<1> HIDE DEF run
<1>5. /\ LedgerOK(J) /\ J.runs = [K.runs EXCEPT ![r] = run] /\ J.active = K.active /\ J.listed = K.listed
      /\ J.runs[r] = run /\ \A q \in RunIds \ {r} : J.runs[q] = K.runs[q]
  <2>1. LedgerOK(J)
    BY <1>3, WrittenOK
  <2>2. J.runs = [K.runs EXCEPT ![r] = run] /\ J.active = K.active /\ J.listed = K.listed
    BY DEF LedgerOK, Ledgers
  <2>3. K.runs \in [RunIds -> Run]
    BY DEF LedgerOK, Ledgers
  <2> HIDE DEF J
  <2> QED BY <2>1, <2>2, <2>3
<1> HIDE DEF J
<1>6. Lined(U)
  <2>1. /\ J.runs[r].status \notin {"open", "none"} /\ J.runs[r].agent = L.runs[r].agent
        /\ J.runs[r].queued_behind = L.runs[r].queued_behind /\ J.runs[r].stacked_on = L.runs[r].stacked_on
    BY <1>4, <1>5
  <2>2. J.active = L.active /\ \A q \in RunIds \ {r} : J.runs[q] = L.runs[q]
    BY <1>5
  <2> QED BY <1>5, <2>1, <2>2, EndedLined, ZenonT(60)
<1>7. U.listed = J.listed /\ \A q \in RunIds : SameWork(J.runs[q], U.runs[q])
  BY <1>5, UnlinkedFields, ZenonT(60)
<1>8. \A q \in RunIds : U.runs[q].status = J.runs[q].status
  <2>1. LedgerOK(J) /\ r \in RunIds
    BY <1>5
  <2> QED BY <2>1, UnlinkedFields DEF SameWork
<1>9. \A q \in RunIds : SameWork(K.runs[q], J.runs[q])
  BY <1>4, <1>5 DEF SameWork
<1>10. \A q \in RunIds : SameWork(K.runs[q], U.runs[q])
  BY <1>7, <1>9 DEF SameWork
<1>11. U.runs[r].status # "open" /\ \A q \in RunIds \ {r} : U.runs[q].status = L.runs[q].status
  BY <1>4, <1>5, <1>8
<1> QED BY <1>1, <1>5, <1>6, <1>7, <1>10, <1>11

\* A decision on a run that keeps its place, and what the ledger does once it was taken.
LEMMA SettledLined ==
  ASSUME NEW L, Lined(L), NEW r \in RunIds, L.runs[r].status # "none", NEW K, LedgerOK(K),
         SamePlace(L.runs[r], K.runs[r]), \A q \in RunIds \ {r} : K.runs[q] = L.runs[q], K.active = L.active
  PROVE  /\ Lined(Settle(K, r)) /\ Settle(K, r).listed = K.listed
         /\ \A q \in RunIds : SameWork(K.runs[q], Settle(K, r).runs[q])
<1>1. CASE K.runs[r].status = "open" /\ Pending(K.runs[r]) = {}
  <2>1. Settle(K, r) = Closed(K, r)
    BY <1>1 DEF Settle
  <2>2. /\ K.runs[r].agent = L.runs[r].agent /\ K.runs[r].queued_behind = L.runs[r].queued_behind
        /\ K.runs[r].stacked_on = L.runs[r].stacked_on
    BY DEF SamePlace
  <2>3. /\ Lined(Closed(K, r)) /\ Closed(K, r).listed = K.listed
        /\ \A q \in RunIds : SameWork(K.runs[q], Closed(K, r).runs[q])
    BY <1>1, <2>2, ClosedLined
  <2> QED BY <2>1, <2>3
<1>2. CASE K.runs[r].status = "open" => Pending(K.runs[r]) # {}
  <2>1. Settle(K, r) = K
    BY <1>2 DEF Settle
  <2>2. \A q \in RunIds : SamePlace(L.runs[q], K.runs[q])
    BY DEF SamePlace
  <2>3. \A q \in RunIds : L.runs[q].status = "open" /\ Pending(L.runs[q]) # {} => Pending(K.runs[q]) # {}
    BY <1>2, <2>2 DEF SamePlace
  <2>4. Lined(K)
    BY <2>2, <2>3, LinedSame
  <2> QED BY <2>1, <2>4 DEF SameWork
<1> QED BY <1>1, <1>2

\* Nothing but the lists of notes differs.
LEMMA ListedLined ==
  ASSUME NEW L, Lined(L), NEW M, LedgerOK(M), M.runs = L.runs, M.active = L.active
  PROVE  Lined(M)
<1>1. \A q \in RunIds : SamePlace(L.runs[q], M.runs[q])
  BY DEF SamePlace
<1> QED BY <1>1, LinedSame

\* What putting a run on the list of its agent changes, or taking it off.
LEMMA NotedFields ==
  ASSUME NEW L, LedgerOK(L), NEW r \in RunIds
  PROVE  /\ LedgerOK(Noted(L, r)) /\ Noted(L, r).runs = L.runs /\ Noted(L, r).active = L.active
         /\ \A a \in Agents : Noted(L, r).listed[a] =
              IF a = L.runs[r].agent THEN L.listed[a] \cup {r} ELSE L.listed[a]
         /\ LedgerOK(Unlisted(L, r)) /\ Unlisted(L, r).runs = L.runs /\ Unlisted(L, r).active = L.active
         /\ \A a \in Agents : Unlisted(L, r).listed[a] =
              IF a = L.runs[r].agent THEN L.listed[a] \ {r} ELSE L.listed[a]
<1>1. LedgerOK(Noted(L, r)) /\ LedgerOK(Unlisted(L, r))
  BY NotedOK
<1>2. L.listed \in [Agents -> SUBSET RunIds] /\ L.runs[r].agent \in Agents
  BY LedgerParts
<1>3. /\ Noted(L, r).runs = L.runs /\ Noted(L, r).active = L.active
      /\ Noted(L, r).listed = [L.listed EXCEPT ![L.runs[r].agent] = L.listed[L.runs[r].agent] \cup {r}]
  BY <1>2 DEF LedgerOK, Ledgers, Noted
<1>4. /\ Unlisted(L, r).runs = L.runs /\ Unlisted(L, r).active = L.active
      /\ Unlisted(L, r).listed = [L.listed EXCEPT ![L.runs[r].agent] = L.listed[L.runs[r].agent] \ {r}]
  BY <1>2 DEF LedgerOK, Ledgers, Unlisted
<1> QED BY <1>1, <1>2, <1>3, <1>4

\* A proposal that opens a run finds no open run of its agent but such as wait.
LEMMA PreparedLined ==
  ASSUME NEW L, Lined(L), NEW a \in Agents, NEW c
  PROVE  LET P == Prepared(L, a, c) IN
         /\ Lined(P) /\ P.listed = L.listed
         /\ \A q \in RunIds : SameWork(L.runs[q], P.runs[q])
         /\ ~GoesOn(L, a, c) => \A q \in RunIds : P.runs[q].status = "open" /\ P.runs[q].agent = a
                                                  => Pending(P.runs[q]) # {}
<1> DEFINE r == L.active[a]
           P == Prepared(L, a, c)
<1>1. LedgerOK(L) /\ r \in RunIds \cup {NoRun}
  BY DEF Lined, LedgerOK, Ledgers
<1>2. \A q \in RunIds : SameWork(L.runs[q], L.runs[q])
  BY DEF SameWork
<1>3. CASE GoesOn(L, a, c)
  <2>1. P = L
    BY <1>3 DEF Prepared, GoesOn
  <2> QED BY <1>2, <1>3, <2>1
<1>4. CASE ~IsOpen(L, r)
  <2>1. ~GoesOn(L, a, c)
    BY <1>4 DEF GoesOn
  <2>2. \A q \in RunIds : L.runs[q].status = "open" => L.runs[q].agent # a
    BY <1>1, <1>4 DEF Lined, Pointed, IsOpen
  <2>3. CASE r = NoRun
    <3>1. P = L
      BY <2>3 DEF Prepared
    <3> QED BY <1>2, <2>2, <3>1
  <2>4. CASE r # NoRun
    <3>1. P = [L EXCEPT !.active[a] = NoRun]
      BY <1>4, <2>1, <2>4 DEF Prepared
    <3>2. /\ P.runs = L.runs /\ P.listed = L.listed
          /\ \A b \in Agents : P.active[b] = IF b = a THEN NoRun ELSE L.active[b]
      BY <1>1, <3>1 DEF LedgerOK, Ledgers
    <3>3. LedgerOK(P)
      BY <1>1, PreparedOK
    <3> HIDE DEF P
    <3>4. \A q \in RunIds : SamePlace(L.runs[q], P.runs[q])
      BY <3>2 DEF SamePlace
    <3>5. \A b \in Agents : P.active[b] = L.active[b] \/ ~IsOpen(L, L.active[b])
      BY <1>4, <3>2
    <3>6. Lined(P)
      BY <3>2, <3>3, <3>4, <3>5, LinedSame
    <3> QED BY <1>2, <2>2, <3>2, <3>6 DEF P
  <2> QED BY <2>3, <2>4
<1>5. CASE IsOpen(L, r) /\ ~GoesOn(L, a, c)
  <2>1. r \in RunIds /\ L.runs[r].status = "open"
    BY <1>1, <1>5 DEF IsOpen
  <2>2. P = IF Pending(L.runs[r]) = {} THEN Closed(L, r) ELSE L
    BY <1>5, <2>1 DEF Prepared, IsOpen
  <2>3. \A q \in RunIds : L.runs[q].status = "open" /\ L.runs[q].agent = a =>
          L.runs[r].agent = a /\ (q # r => Pending(L.runs[q]) # {})
    BY <2>1 DEF Lined, Pointed, InLine
  <2>4. CASE Pending(L.runs[r]) # {}
    BY <1>2, <2>2, <2>3, <2>4
  <2>5. CASE Pending(L.runs[r]) = {}
    <3> HIDE DEF r
    <3>1. /\ Lined(Closed(L, r)) /\ Closed(L, r).listed = L.listed
          /\ \A q \in RunIds : SameWork(L.runs[q], Closed(L, r).runs[q])
          /\ Closed(L, r).runs[r].status # "open"
          /\ \A q \in RunIds \ {r} : Closed(L, r).runs[q].status = L.runs[q].status
      <4>1. L.runs[r].status # "none" /\ \A q \in RunIds \ {r} : L.runs[q] = L.runs[q]
        BY <2>1
      <4> QED BY <1>1, <2>1, <2>5, <4>1, ClosedLined
    <3> DEFINE C == Closed(L, r)
    <3>4. \A q \in RunIds : Pending(C.runs[q]) = Pending(L.runs[q]) /\ C.runs[q].agent = L.runs[q].agent
      BY <3>1 DEF SameWork, Pending
    <3> HIDE DEF C
    <3> QED BY <2>2, <2>3, <2>5, <3>1, <3>4 DEF C
  <2> QED BY <2>4, <2>5
<1> QED BY <1>3, <1>4, <1>5

\* Answering notes and pruning an agent's list: no run moves, no hunk is decided, and what stays
\* open stays listed.
LEMMA ScannedLined ==
  ASSUME NEW L, Lined(L), NotesHeld(L), NEW a \in Agents, NEW answers
  PROVE  LET M == Scanned(L, a, answers) IN
         /\ Lined(M) /\ NotesHeld(M)
         /\ \A q \in RunIds : /\ M.runs[q].status = L.runs[q].status
                              /\ DOMAIN M.runs[q].hunks = DOMAIN L.runs[q].hunks
                              /\ \A i \in DOMAIN L.runs[q].hunks :
                                   M.runs[q].hunks[i].status = L.runs[q].hunks[i].status
<1> DEFINE after == [r \in RunIds |-> IF r \in L.listed[a] /\ L.runs[r].agent = a
                                     THEN Answered(L.runs[r], r, answers) ELSE L.runs[r]]
           left == {r \in L.listed[a] : after[r].agent = a /\ OpenFeedback(after[r]) # {}}
           M == [L EXCEPT !.runs = after, !.listed[a] = left]
<1>1. M = Scanned(L, a, answers)
  BY DEF Scanned
<1>2. LedgerOK(L) /\ LedgerOK(M)
  BY <1>1, ScannedOK DEF Lined
<1>3. ASSUME NEW q \in RunIds
      PROVE  /\ SamePlace(L.runs[q], after[q]) /\ after[q].age = L.runs[q].age
             /\ DOMAIN after[q].hunks = DOMAIN L.runs[q].hunks
             /\ \A i \in DOMAIN L.runs[q].hunks : /\ after[q].hunks[i].status = L.runs[q].hunks[i].status
                                                  /\ after[q].hunks[i].feedback.state = "open"
                                                       => L.runs[q].hunks[i].feedback.state = "open"
  <2> DEFINE run == L.runs[q]
             hs == [i \in DOMAIN run.hunks |->
                     IF run.hunks[i].feedback.state = "open" /\ <<q, run.hunks[i].feedback.of>> \in answers
                     THEN [run.hunks[i] EXCEPT !.feedback.state = "answered"] ELSE run.hunks[i]]
  <2>1. run \in Run /\ run.hunks \in Seq(Hunk)
    BY <1>2 DEF LedgerOK, Ledgers, Run
  <2>2. \A i \in DOMAIN run.hunks : /\ hs[i].status = run.hunks[i].status
                                    /\ hs[i].feedback.state = "open" => run.hunks[i].feedback.state = "open"
    <3> TAKE i \in DOMAIN run.hunks
    <3>1. run.hunks[i] \in Hunk
      BY <2>1
    <3> QED BY <3>1 DEF Hunk, Feedback
  <2>3. DOMAIN hs = DOMAIN run.hunks
    OBVIOUS
  <2> HIDE DEF hs
  <2>4. CASE after[q] = [run EXCEPT !.hunks = hs]
    BY <2>1, <2>2, <2>3, <2>4, SMTT(30) DEF Run, SamePlace
  <2>5. CASE after[q] = run
    BY <2>5 DEF SamePlace
  <2>6. after[q] = [run EXCEPT !.hunks = hs] \/ after[q] = run
    BY DEF Answered, hs
  <2> QED BY <2>4, <2>5, <2>6
<1> HIDE DEF after, left
<1>4. /\ M.runs = after /\ M.active = L.active
      /\ \A b \in Agents : M.listed[b] = IF b = a THEN left ELSE L.listed[b]
  BY <1>2 DEF LedgerOK, Ledgers
<1> HIDE DEF M
<1>5. \A q \in RunIds : Pending(M.runs[q]) = Pending(L.runs[q])
  BY <1>3, <1>4 DEF Pending
<1>6. Lined(M)
  BY <1>2, <1>3, <1>4, <1>5, LinedSame
<1>7. NotesHeld(M)
  <2> SUFFICES ASSUME NEW q \in RunIds, M.runs[q].status # "none", OpenFeedback(M.runs[q]) # {}
               PROVE  q \in M.listed[M.runs[q].agent] /\ M.runs[q].age # "old"
    BY DEF NotesHeld
  <2>1. OpenFeedback(L.runs[q]) # {} /\ L.runs[q].status # "none"
    BY <1>3, <1>4 DEF OpenFeedback, SamePlace
  <2>2. q \in L.listed[L.runs[q].agent] /\ L.runs[q].age # "old"
    BY <2>1 DEF NotesHeld
  <2>3. M.runs[q].agent = L.runs[q].agent /\ M.runs[q].age = L.runs[q].age /\ L.runs[q].agent \in Agents
    BY <1>2, <1>3, <1>4, LedgerParts DEF SamePlace
  <2>4. L.runs[q].agent = a => q \in left
    BY <1>4, <2>2, <2>3 DEF left
  <2> QED BY <1>4, <2>2, <2>3, <2>4
<1>8. \A q \in RunIds : /\ M.runs[q].status = L.runs[q].status
                        /\ DOMAIN M.runs[q].hunks = DOMAIN L.runs[q].hunks
                        /\ \A i \in DOMAIN L.runs[q].hunks :
                             M.runs[q].hunks[i].status = L.runs[q].hunks[i].status
  BY <1>3, <1>4 DEF SamePlace
<1> QED BY <1>1, <1>6, <1>7, <1>8

-----------------------------------------------------------------------------
(* What every handler has to show *)

\* NothingOwedIsEvicted and AcceptedInOrder, of the runs before a step and after it.
KeepsTheOwed(rs, ss) ==
  \A r \in RunIds :
    rs[r].status # "none" /\ ss[r].status = "none" => Pending(rs[r]) = {} /\ OpenFeedback(rs[r]) = {}
TakesInOrder(rs, ss) ==
  \A r \in RunIds : \A i \in DOMAIN rs[r].hunks :
    rs[r].hunks[i].status = "pending" /\ ss[r].status # "none" /\ ss[r].hunks[i].status = "accepted"
      => \A q \in rs[r].stacked_on : ~(rs[q].status = "open" /\ Pending(rs[q]) # {})

\* A run kept has a place for every hunk of it that waited.
LosesNothing(rs, ss) ==
  \A r \in RunIds : ss[r].status # "none" => Pending(rs[r]) \subseteq DOMAIN ss[r].hunks

QStep ==
  /\ Lined(Ledger') /\ NotesHeld(Ledger') /\ Numbered(Ledger', minted')
  /\ KeepsTheOwed(runs, runs') /\ TakesInOrder(runs, runs')

\* The ledger after a step is the one the handler set.
LEMMA SetIs ==
  ASSUME NEW L, LedgerOK(L), SetLedger(L)
  PROVE  Ledger' = L /\ runs' = L.runs
<1>1. L = [runs |-> L.runs, active |-> L.active, listed |-> L.listed]
  BY DEF LedgerOK, Ledgers
<1> QED BY <1>1 DEF SetLedger, Ledger

\* A handler that wrote the ledger K and then let the queue close up into M.
LEMMA Concluded ==
  ASSUME QInv, NEW K, NEW M, NotesHeld(K), TakesInOrder(runs, K.runs),
         \A q \in RunIds : K.runs[q].status = "none" <=> runs[q].status = "none",
         Lined(M), M.listed = K.listed, \A q \in RunIds : SameWork(K.runs[q], M.runs[q]),
         SetLedger(M), minted' = minted
  PROVE  QStep
<1>1. Ledger' = M /\ runs' = M.runs
  BY SetIs DEF Lined
<1>2. NotesHeld(M)
  BY NotesSameWork
<1>3. \A q \in RunIds : (M.runs[q].status = "none" <=> runs[q].status = "none") /\ M.runs[q].hunks = K.runs[q].hunks
  BY DEF SameWork
<1>4. Numbered(M, minted)
  BY <1>3 DEF QInv, Numbered, Ledger
<1>5. KeepsTheOwed(runs, M.runs)
  BY <1>3 DEF KeepsTheOwed
<1>6. TakesInOrder(runs, M.runs)
  BY <1>3 DEF TakesInOrder
<1> QED BY <1>1, <1>2, <1>4, <1>5, <1>6 DEF QStep

\* A ledger in which no waiting hunk stands accepted took nothing out of order.
LEMMA TakesNothing ==
  ASSUME NEW rs, NEW ss,
         \A r \in RunIds : \A i \in DOMAIN rs[r].hunks :
           rs[r].hunks[i].status = "pending" => ss[r].hunks[i].status # "accepted"
  PROVE  TakesInOrder(rs, ss)
BY DEF TakesInOrder

-----------------------------------------------------------------------------
(* Every handler keeps QInv, evicts nothing owed and takes nothing out of order *)

\* K is the ledger with the run r rewritten, its lists aside.
OneRun(K, r, run) ==
  /\ LedgerOK(K) /\ RunOK(run) /\ K.active = active
  /\ K.runs[r] = run /\ \A q \in RunIds \ {r} : K.runs[q] = runs[q]

\* The parts of the ledger the variables hold.
LEMMA TheLedger ==
  ASSUME QInv
  PROVE  /\ Lined(Ledger) /\ NotesHeld(Ledger) /\ LedgerOK(Ledger) /\ Numbered(Ledger, minted) /\ IInv
         /\ Ledger.runs = runs /\ Ledger.active = active /\ Ledger.listed = listed
         /\ \A q \in RunIds : runs[q].agent \in Agents
<1>1. LedgerOK(Ledger) /\ Ledger.runs = runs
  BY DEF QInv, IInv, Ledger
<1> QED BY <1>1, LedgerParts DEF QInv, Ledger

\* One run written into the ledger.
LEMMA RunWritten ==
  ASSUME QInv, NEW r \in RunIds, NEW new, RunOK(new)
  PROVE  LET L == [Ledger EXCEPT !.runs[r] = new] IN OneRun(L, r, new) /\ L.listed = listed
<1> DEFINE L == [Ledger EXCEPT !.runs[r] = new]
<1>1. LedgerOK(L)
  BY WrittenOK DEF QInv, IInv
<1>2. L.runs = [runs EXCEPT ![r] = new] /\ L.active = active /\ L.listed = listed
  BY DEF Ledger
<1>3. runs \in [RunIds -> Run]
  BY TheLedger, LedgerParts
<1> HIDE DEF L
<1>4. L.runs[r] = new /\ \A q \in RunIds \ {r} : L.runs[q] = runs[q]
  BY <1>2, <1>3
<1>5. OneRun(L, r, new)
  BY <1>1, <1>2, <1>4 DEF OneRun
<1> QED BY <1>2, <1>5 DEF L

\* No other run leaves a list, and this one only with its last open note.
LEMMA WrittenNotes ==
  ASSUME QInv, NEW r \in RunIds, runs[r].status # "none",
         NEW new, new.agent = runs[r].agent, new.age = "new", NEW K, OneRun(K, r, new),
         \A q \in RunIds \ {r}, a \in Agents : q \in listed[a] => q \in K.listed[a],
         OpenFeedback(new) # {} => r \in K.listed[new.agent]
  PROVE  NotesHeld(K)
BY TheLedger DEF NotesHeld, OneRun

\* Of the hunks, only those of one run are decided, and none of them is accepted.
LEMMA WrittenTakes ==
  ASSUME QInv, NEW r \in RunIds, NEW new, NEW K, OneRun(K, r, new),
         \A i \in DOMAIN runs[r].hunks :
           runs[r].hunks[i].status = "pending" => new.hunks[i].status # "accepted"
  PROVE  TakesInOrder(runs, K.runs)
<1>1. ASSUME NEW q \in RunIds, NEW i \in DOMAIN runs[q].hunks, runs[q].hunks[i].status = "pending"
      PROVE  K.runs[q].hunks[i].status # "accepted"
  BY <1>1 DEF OneRun
<1> QED BY <1>1, TakesNothing

\* The run keeps its place, and closes if the decision was its last.
LEMMA WrittenSettles ==
  ASSUME QInv, NEW r \in RunIds, runs[r].status # "none", NEW new, SamePlace(runs[r], new),
         NEW K, OneRun(K, r, new), NotesHeld(K), TakesInOrder(runs, K.runs),
         SetLedger(Settle(K, r)), minted' = minted
  PROVE  QStep
<1>1. /\ Lined(Settle(K, r)) /\ Settle(K, r).listed = K.listed
      /\ \A q \in RunIds : SameWork(K.runs[q], Settle(K, r).runs[q])
  <2>1. /\ Lined(Ledger) /\ Ledger.runs[r].status # "none" /\ LedgerOK(K)
        /\ SamePlace(Ledger.runs[r], K.runs[r]) /\ K.active = Ledger.active
        /\ \A q \in RunIds \ {r} : K.runs[q] = Ledger.runs[q]
    BY TheLedger DEF OneRun
  <2> QED BY <2>1, SettledLined
<1>2. \A q \in RunIds : K.runs[q].status = "none" <=> runs[q].status = "none"
  BY DEF OneRun, SamePlace
<1> QED BY <1>1, <1>2, Concluded

\* Reject keeps the queue in order.
LEMMA RejectQ ==
  ASSUME QInv, NEW r \in RunIds, NEW T \in SUBSET Pending(runs[r]), Reject(r, T)
  PROVE  QStep
<1> DEFINE new == RejectedRun(r, T)
           L == [Ledger EXCEPT !.runs[r] = new]
           K == IF T = {} THEN L ELSE Noted(L, r)
<1>1. IInv
  BY DEF QInv
<1>2. /\ RunOK(new) /\ runs[r].status # "none"
      /\ new.agent = runs[r].agent /\ new.status = runs[r].status /\ new.age = "new"
      /\ new.queued_behind = runs[r].queued_behind /\ new.stacked_on = runs[r].stacked_on
      /\ DOMAIN new.hunks = DOMAIN runs[r].hunks
      /\ \A i \in DOMAIN runs[r].hunks :
           /\ new.hunks[i].status = "accepted" => runs[r].hunks[i].status = "accepted"
           /\ i \notin T => new.hunks[i] = runs[r].hunks[i]
  BY <1>1, RejectedRunOK
<1>3. SetLedger(Settle(K, r)) /\ minted' = minted
  BY DEF Reject, RejectedRun
<1> HIDE DEF new
<1>4. OneRun(L, r, new) /\ L.listed = listed
  BY <1>2, RunWritten
<1> HIDE DEF L
<1>5. LedgerOK(L) /\ L.runs[r] = new
  BY <1>4 DEF OneRun
<1>6. /\ LedgerOK(K) /\ K.runs = L.runs /\ K.active = L.active
      /\ \A a \in Agents : K.listed[a] = IF T # {} /\ a = new.agent THEN listed[a] \cup {r} ELSE listed[a]
  <2>1. CASE T = {}
    <3>1. K = L
      BY <2>1
    <3> QED BY <1>4, <1>5, <2>1, <3>1
  <2>2. CASE T # {}
    <3>1. K = Noted(L, r)
      BY <2>2
    <3> HIDE DEF K
    <3>2. /\ LedgerOK(K) /\ K.runs = L.runs /\ K.active = L.active
          /\ \A a \in Agents : K.listed[a] = IF a = L.runs[r].agent THEN L.listed[a] \cup {r} ELSE L.listed[a]
      BY <1>5, <3>1, NotedFields
    <3> QED BY <1>4, <1>5, <2>2, <3>2
  <2> QED BY <2>1, <2>2
<1> HIDE DEF K
<1>7. OneRun(K, r, new) /\ SamePlace(runs[r], new) /\ runs[r].agent \in Agents
  BY <1>2, <1>4, <1>6, TheLedger DEF OneRun, SamePlace
<1>8. NotesHeld(K)
  <2>1. OpenFeedback(new) # {} => r \in K.listed[new.agent]
    <3>1. CASE T = {}
      <4>1. OpenFeedback(new) = OpenFeedback(runs[r])
        BY <1>2, <3>1 DEF OpenFeedback
      <4> QED BY <1>2, <1>6, <1>7, <3>1, <4>1, TheLedger DEF NotesHeld
    <3>2. CASE T # {}
      BY <1>2, <1>6, <1>7, <3>2
    <3> QED BY <3>1, <3>2
  <2>2. \A q \in RunIds \ {r}, a \in Agents : q \in listed[a] => q \in K.listed[a]
    BY <1>6
  <2> QED BY <1>2, <1>7, <2>1, <2>2, WrittenNotes
<1>9. TakesInOrder(runs, K.runs)
  BY <1>2, <1>7, WrittenTakes
<1> QED BY <1>2, <1>3, <1>7, <1>8, <1>9, WrittenSettles

\* The one handler that takes hunks: nothing its run stands on waits any more.
LEMMA AcceptQ ==
  ASSUME QInv, NEW r \in RunIds, NEW T \in SUBSET Pending(runs[r]), NEW A \in SUBSET T,
         NEW by \in People, NEW itemLevel \in LevelsInUse, Accept(r, T, A, by, itemLevel)
  PROVE  QStep
<1> DEFINE new == AcceptedRun(r, T, A, by, itemLevel)
           K == [Ledger EXCEPT !.runs[r] = new]
<1>1. IInv
  BY DEF QInv
<1>2. /\ RunOK(new) /\ runs[r].status # "none"
      /\ new.agent = runs[r].agent /\ new.status = runs[r].status /\ new.age = "new"
      /\ new.queued_behind = runs[r].queued_behind /\ new.stacked_on = runs[r].stacked_on
      /\ DOMAIN new.hunks = DOMAIN runs[r].hunks
      /\ \A i \in DOMAIN runs[r].hunks :
           /\ new.hunks[i].feedback = runs[r].hunks[i].feedback
           /\ new.hunks[i].status = "accepted" => i \in A \/ runs[r].hunks[i].status = "accepted"
  BY <1>1, AcceptedRunOK
<1>3. SetLedger(Settle(K, r)) /\ minted' = minted /\ AheadOf(Ledger, r) = NoRun
  BY DEF Accept, AcceptedRun
<1> HIDE DEF new
<1>4. OneRun(K, r, new) /\ K.listed = listed
  BY <1>2, RunWritten
<1> HIDE DEF K
<1>5. /\ SamePlace(runs[r], new) /\ runs[r].agent \in Agents
      /\ Lined(Ledger) /\ NotesHeld(Ledger) /\ Ledger.runs = runs /\ Ledger.listed = listed
  BY <1>2, TheLedger DEF SamePlace
<1>6. NotesHeld(K)
  <2>1. OpenFeedback(new) = OpenFeedback(runs[r])
    BY <1>2 DEF OpenFeedback
  <2>2. OpenFeedback(new) # {} => r \in K.listed[new.agent]
    BY <1>2, <1>4, <1>5, <2>1 DEF NotesHeld
  <2> QED BY <1>2, <1>4, <2>2, WrittenNotes
<1>7. A # {} => \A q \in runs[r].stacked_on : ~(runs[q].status = "open" /\ Pending(runs[q]) # {})
  <2> SUFFICES ASSUME A # {}, NEW q \in runs[r].stacked_on, runs[q].status = "open", Pending(runs[q]) # {}
               PROVE  FALSE
    OBVIOUS
  <2>1. RunOK(runs[r]) /\ runs[r] \in Run /\ q \in RunIds
    BY <1>1, TheRun DEF Run
  <2>2. runs[r].status = "open"
    BY <1>2, <2>1, NothingWaits
  <2>3. runs[r].queued_behind = NoRun
    BY <1>3, <1>5 DEF Lined, Behind, AheadOf, IsOpen
  <2>4. q < r /\ runs[q].agent = runs[r].agent
    BY <1>2, <1>5 DEF Lined, Stacked
  <2>5. RunIds \subseteq Nat \ {0} /\ NoRun = 0
    BY BoundsAssumption DEF RunIds, NoRun
  <2>6. q <= runs[r].queued_behind
    BY <1>5, <2>1, <2>2, <2>4, <2>5 DEF Lined, InLine
  <2> QED BY <2>1, <2>3, <2>5, <2>6
<1>8. TakesInOrder(runs, K.runs)
  <2> SUFFICES ASSUME NEW s \in RunIds, NEW i \in DOMAIN runs[s].hunks, runs[s].hunks[i].status = "pending",
                      K.runs[s].hunks[i].status = "accepted", NEW q \in runs[s].stacked_on
               PROVE  ~(runs[q].status = "open" /\ Pending(runs[q]) # {})
    BY DEF TakesInOrder
  <2>1. s = r /\ i \in A
    BY <1>2, <1>4 DEF OneRun
  <2> QED BY <1>7, <2>1
<1> QED BY <1>2, <1>3, <1>4, <1>5, <1>6, <1>8, WrittenSettles

\* A run taken back leaves the queue, with its note or without.
LEMMA RevertQ ==
  ASSUME QInv, NEW r \in RunIds, NEW note \in BOOLEAN, Revert(r, note)
  PROVE  QStep
<1> DEFINE new == RevertedRun(r, note)
           L == [Ledger EXCEPT !.runs[r] = new]
           K == IF note THEN Noted(L, r) ELSE L
           M == Unlinked(K, r)
<1>1. IInv
  BY DEF QInv
<1>2. /\ RunOK(new) /\ runs[r].status # "none"
      /\ new.agent = runs[r].agent /\ new.status = "expired" /\ new.age = "new"
      /\ new.queued_behind = runs[r].queued_behind /\ new.stacked_on = runs[r].stacked_on
      /\ DOMAIN new.hunks = DOMAIN runs[r].hunks
      /\ \A i \in DOMAIN runs[r].hunks :
           /\ ~note => new.hunks[i].feedback = runs[r].hunks[i].feedback
           /\ new.hunks[i].status = "accepted" => runs[r].hunks[i].status = "accepted"
  BY <1>1, RevertedRunOK
<1>3. SetLedger(M) /\ minted' = minted
  BY DEF Revert, RevertedRun
<1> HIDE DEF new
<1>4. OneRun(L, r, new) /\ L.listed = listed
  BY <1>2, RunWritten
<1> HIDE DEF L
<1>5. LedgerOK(L) /\ L.runs[r] = new
  BY <1>4 DEF OneRun
<1>6. /\ LedgerOK(K) /\ K.runs = L.runs /\ K.active = L.active
      /\ \A a \in Agents : K.listed[a] = IF note /\ a = new.agent THEN listed[a] \cup {r} ELSE listed[a]
  <2>1. CASE ~note
    <3>1. K = L
      BY <2>1
    <3> QED BY <1>4, <1>5, <2>1, <3>1
  <2>2. CASE note
    <3>1. K = Noted(L, r)
      BY <2>2
    <3> HIDE DEF K
    <3>2. /\ LedgerOK(K) /\ K.runs = L.runs /\ K.active = L.active
          /\ \A a \in Agents : K.listed[a] = IF a = L.runs[r].agent THEN L.listed[a] \cup {r} ELSE L.listed[a]
      BY <1>5, <3>1, NotedFields
    <3> QED BY <1>4, <1>5, <2>2, <3>2
  <2> QED BY <2>1, <2>2
<1> HIDE DEF K
<1>7. OneRun(K, r, new) /\ runs[r].agent \in Agents
  BY <1>2, <1>4, <1>6, TheLedger DEF OneRun
<1>8. NotesHeld(K)
  <2>1. OpenFeedback(new) # {} => r \in K.listed[new.agent]
    <3>1. CASE ~note
      <4>1. OpenFeedback(new) = OpenFeedback(runs[r])
        BY <1>2, <3>1 DEF OpenFeedback
      <4> QED BY <1>2, <1>6, <1>7, <3>1, <4>1, TheLedger DEF NotesHeld
    <3>2. CASE note
      BY <1>2, <1>6, <1>7, <3>2
    <3> QED BY <3>1, <3>2
  <2>2. \A q \in RunIds \ {r}, a \in Agents : q \in listed[a] => q \in K.listed[a]
    BY <1>6
  <2> QED BY <1>2, <1>7, <2>1, <2>2, WrittenNotes
<1>9. TakesInOrder(runs, K.runs)
  BY <1>2, <1>7, WrittenTakes
<1>10. /\ LedgerOK(K) /\ K.active = Ledger.active /\ K.runs[r] = new
       /\ \A q \in RunIds \ {r} : K.runs[q] = Ledger.runs[q]
  BY <1>7, TheLedger DEF OneRun
<1>11. Lined(M)
  <2>1. /\ Lined(Ledger) /\ Ledger.runs[r].status # "none"
        /\ K.runs[r].status \notin {"open", "none"} /\ K.runs[r].agent = Ledger.runs[r].agent
        /\ K.runs[r].queued_behind = Ledger.runs[r].queued_behind
        /\ K.runs[r].stacked_on = Ledger.runs[r].stacked_on
    BY <1>2, <1>10, TheLedger
  <2> QED BY <1>10, <2>1, EndedLined
<1>12. M.listed = K.listed /\ \A q \in RunIds : SameWork(K.runs[q], M.runs[q])
  BY <1>10, UnlinkedFields
<1>13. \A q \in RunIds : K.runs[q].status = "none" <=> runs[q].status = "none"
  BY <1>2, <1>7 DEF OneRun
<1> HIDE DEF M
<1> QED BY <1>3, <1>8, <1>9, <1>11, <1>12, <1>13, Concluded

\* A run marked as reviewed stays where it is in the queue.
LEMMA AckQ ==
  ASSUME QInv, NEW r \in RunIds, Ack(r)
  PROVE  QStep
<1> DEFINE new == AckedRun(r)
           L == [Ledger EXCEPT !.runs[r] = new]
<1>1. IInv
  BY DEF QInv
<1>2. /\ RunOK(new) /\ runs[r].status # "none"
      /\ new.agent = runs[r].agent /\ new.status = runs[r].status /\ new.age = "new"
      /\ new.queued_behind = runs[r].queued_behind /\ new.stacked_on = runs[r].stacked_on
      /\ DOMAIN new.hunks = DOMAIN runs[r].hunks
      /\ \A i \in DOMAIN runs[r].hunks : /\ new.hunks[i].status = runs[r].hunks[i].status
                                         /\ new.hunks[i].feedback.state # "open"
  BY <1>1, AckedRunOK
<1>3. (SetLedger(L) \/ SetLedger(Unlisted(L, r))) /\ minted' = minted
  BY DEF Ack, AckedRun
<1> HIDE DEF new
<1>4. OneRun(L, r, new) /\ L.listed = listed
  BY <1>2, RunWritten
<1> HIDE DEF L
<1>5. PICK K : K \in {L, Unlisted(L, r)} /\ SetLedger(K)
  BY <1>3
<1>6. /\ LedgerOK(K) /\ K.runs = L.runs /\ K.active = L.active
      /\ \A q \in RunIds \ {r}, a \in Agents : q \in listed[a] => q \in K.listed[a]
  <2>1. LedgerOK(L)
    BY <1>4 DEF OneRun
  <2>2. /\ LedgerOK(Unlisted(L, r)) /\ Unlisted(L, r).runs = L.runs /\ Unlisted(L, r).active = L.active
        /\ \A a \in Agents : Unlisted(L, r).listed[a] =
                             IF a = L.runs[r].agent THEN L.listed[a] \ {r} ELSE L.listed[a]
    BY <2>1, NotedFields
  <2>3. CASE K = L
    BY <1>4, <2>1, <2>3
  <2>4. CASE K = Unlisted(L, r)
    BY <1>4, <2>2, <2>4
  <2> QED BY <1>5, <2>3, <2>4
<1>7. OneRun(K, r, new) /\ runs[r].agent \in Agents
  BY <1>4, <1>6, TheLedger DEF OneRun
<1>8. NotesHeld(K)
  <2>1. OpenFeedback(new) = {}
    BY <1>2 DEF OpenFeedback
  <2> QED BY <1>2, <1>6, <1>7, <2>1, WrittenNotes
<1>9. TakesInOrder(runs, K.runs)
  BY <1>2, <1>7, WrittenTakes
<1>10. Lined(K)
  <2>1. \A q \in RunIds : SamePlace(Ledger.runs[q], K.runs[q]) /\ Pending(K.runs[q]) = Pending(Ledger.runs[q])
    BY <1>2, <1>7, TheLedger DEF OneRun, SamePlace, Pending
  <2>2. K.active = Ledger.active /\ Lined(Ledger)
    BY <1>7, TheLedger DEF OneRun
  <2> QED BY <1>6, <2>1, <2>2, LinedSame
<1>11. \A q \in RunIds : (K.runs[q].status = "none" <=> runs[q].status = "none") /\ SameWork(K.runs[q], K.runs[q])
  BY <1>2, <1>7 DEF OneRun, SameWork
<1> QED BY <1>3, <1>5, <1>8, <1>9, <1>10, <1>11, Concluded

\* A decision taken back: its run waits again where it was, or reopens at the head of its queue.
LEMMA UndoQ ==
  ASSUME QInv, NEW r \in RunIds, NEW T \in SUBSET DOMAIN runs[r].hunks, Undo(r, T)
  PROVE  QStep
<1> DEFINE new == UndoneRun(r, T)
           L == UndoneLedger(r, T)
           a == runs[r].agent
           reopens == runs[r].status # "open"
<1>1. IInv
  BY DEF QInv
<1>2. /\ RunOK(new) /\ runs[r].status # "none"
      /\ new.agent = a /\ new.status = "open" /\ new.age = "new"
      /\ new.queued_behind = (IF reopens /\ AheadOf(Ledger, r) = NoRun THEN NoRun ELSE runs[r].queued_behind)
      /\ new.stacked_on = runs[r].stacked_on
      /\ DOMAIN new.hunks = DOMAIN runs[r].hunks
      /\ \A i \in DOMAIN runs[r].hunks :
           /\ i \in T => new.hunks[i].status = "pending" /\ new.hunks[i].feedback = NoFeedback
           /\ i \notin T => new.hunks[i] = runs[r].hunks[i]
  BY <1>1, UndoneRunOK
<1>3. /\ LedgerOK(L) /\ L.runs = [runs EXCEPT ![r] = new] /\ L.listed = listed
      /\ L.active = [active EXCEPT ![a] = IF reopens THEN r ELSE active[a]]
  BY <1>1, UndoneLedgerOK
<1>4. /\ SetLedger(L) \/ (SetLedger(Unlisted(L, r)) /\ OpenOrStale(new) = {})
      /\ minted' = minted /\ T # {}
      /\ reopens /\ IsOpen(Ledger, active[a]) => active[a] = r
  BY DEF Undo, UndoneLedger, UndoneRun, IsOpen
<1> HIDE DEF new, L
<1>5. L.runs[r] = new /\ \A q \in RunIds \ {r} : L.runs[q] = runs[q]
  BY <1>3, TheLedger, LedgerParts
<1>6. \A b \in Agents : L.active[b] = IF b = a /\ reopens THEN r ELSE active[b]
  BY <1>3, TheLedger, LedgerParts
<1>7. \A q \in RunIds : (L.runs[q].status = "none" <=> runs[q].status = "none") /\ SameWork(L.runs[q], L.runs[q])
  BY <1>2, <1>5 DEF SameWork
<1>8. OpenFeedback(new) \subseteq OpenFeedback(runs[r])
  BY <1>2 DEF OpenFeedback, NoFeedback
<1>9. NotesHeld(L)
  <2>1. \A q \in RunIds :
          /\ L.runs[q].agent = runs[q].agent /\ (L.runs[q].status # "none" => runs[q].status # "none")
          /\ OpenFeedback(L.runs[q]) \subseteq OpenFeedback(runs[q])
          /\ L.runs[q].age = "old" => runs[q].age = "old"
    BY <1>2, <1>5, <1>8
  <2>2. NotesHeld(Ledger) /\ Ledger.runs = runs /\ L.listed = Ledger.listed
    BY <1>3, TheLedger
  <2>3. \A q \in RunIds :
          /\ L.runs[q].agent = Ledger.runs[q].agent
          /\ L.runs[q].status # "none" => Ledger.runs[q].status # "none"
          /\ OpenFeedback(L.runs[q]) \subseteq OpenFeedback(Ledger.runs[q])
          /\ L.runs[q].age = "old" => Ledger.runs[q].age = "old"
          /\ q \in Ledger.listed[Ledger.runs[q].agent] => q \in L.listed[Ledger.runs[q].agent]
    BY <2>1, <2>2
  <2> QED BY <2>2, <2>3, NotesSame
<1>10. TakesInOrder(runs, L.runs)
  <2>1. \A q \in RunIds : \A i \in DOMAIN runs[q].hunks :
          runs[q].hunks[i].status = "pending" => L.runs[q].hunks[i].status # "accepted"
    BY <1>2, <1>5
  <2> QED BY <2>1, TakesNothing
<1>11. Lined(L)
  <2>1. CASE ~reopens
    <3>1. \A q \in RunIds : SamePlace(Ledger.runs[q], L.runs[q])
      BY <1>2, <1>5, <2>1, TheLedger DEF SamePlace
    <3>2. Pending(new) # {}
      BY <1>2, <1>4 DEF Pending
    <3>3. \A q \in RunIds : Pending(Ledger.runs[q]) # {} => Pending(L.runs[q]) # {}
      BY <1>5, <3>2, TheLedger
    <3>4. \A b \in Agents : L.active[b] = Ledger.active[b]
      BY <1>6, <2>1, TheLedger
    <3> QED BY <1>3, <3>1, <3>3, <3>4, TheLedger, LinedSame
  <2>2. CASE reopens
    <3>1. \A q \in RunIds : runs[q].status = "open" => runs[q].agent # a
      <4> SUFFICES ASSUME NEW q \in RunIds, runs[q].status = "open", runs[q].agent = a PROVE FALSE
        OBVIOUS
      <4>1. active[a] # NoRun /\ runs[active[a]].status = "open"
        BY TheLedger DEF Lined, Pointed
      <4>2. active[a] = r
        BY <1>4, <2>2, <4>1, TheLedger DEF IsOpen
      <4> QED BY <2>2, <4>1, <4>2
    <3>2. runs[r].queued_behind = NoRun
      BY <3>1, TheLedger, LedgerParts DEF Lined, Behind
    <3>3. \A q \in RunIds : /\ L.runs[q].agent = runs[q].agent
                            /\ L.runs[q].stacked_on = runs[q].stacked_on
                            /\ L.runs[q].queued_behind = runs[q].queued_behind
      BY <1>2, <1>5, <3>2
    <3>4. \A b \in Agents : L.active[b] = IF b = Ledger.runs[r].agent THEN r ELSE Ledger.active[b]
      BY <1>6, <2>2, TheLedger
    <3>5. /\ L.runs[r].status = "open" /\ Ledger.runs[r].status # "none"
          /\ \A q \in RunIds : Ledger.runs[q].status = "open" => Ledger.runs[q].agent # Ledger.runs[r].agent
          /\ \A q \in RunIds : /\ L.runs[q].agent = Ledger.runs[q].agent
                               /\ L.runs[q].stacked_on = Ledger.runs[q].stacked_on
                               /\ L.runs[q].queued_behind = Ledger.runs[q].queued_behind
          /\ \A q \in RunIds \ {r} : L.runs[q].status = Ledger.runs[q].status
                                     /\ L.runs[q].hunks = Ledger.runs[q].hunks
      BY <1>2, <1>5, <3>1, <3>3, TheLedger
    <3>6. Lined(Ledger) /\ LedgerOK(L)
      BY <1>3, TheLedger
    <3> QED BY <3>4, <3>5, <3>6, LinedReopened
  <2> QED BY <2>1, <2>2
<1>12. CASE SetLedger(L)
  BY <1>4, <1>7, <1>9, <1>10, <1>11, <1>12, Concluded
<1>13. CASE SetLedger(Unlisted(L, r)) /\ OpenOrStale(new) = {}
  <2> DEFINE K == Unlisted(L, r)
  <2>1. /\ LedgerOK(K) /\ K.runs = L.runs /\ K.active = L.active
        /\ \A b \in Agents : K.listed[b] = IF b = L.runs[r].agent THEN L.listed[b] \ {r} ELSE L.listed[b]
    BY <1>3, NotedFields
  <2> HIDE DEF K
  <2>2. Lined(K)
    BY <1>11, <2>1, ListedLined
  <2>3. OpenFeedback(new) = {}
    BY <1>13 DEF OpenFeedback, OpenOrStale
  <2>4. NotesHeld(K)
    <3>1. \A q \in RunIds : L.runs[q].agent \in Agents
      BY <1>3, LedgerParts
    <3> QED BY <1>5, <1>9, <2>1, <2>3, <3>1, ZenonT(60) DEF NotesHeld
  <2>5. SetLedger(K)
    BY <1>13 DEF K
  <2> QED BY <1>4, <1>7, <1>10, <2>1, <2>2, <2>4, <2>5, Concluded
<1> QED BY <1>4, <1>12, <1>13

\* Rolling a run over keeps the queue in order.
LEMMA ProposeNothingQ ==
  ASSUME QInv, NEW a \in Agents, NEW c \in Changes, ProposeNothing(a, c)
  PROVE  QStep
<1> DEFINE P == Prepared(Ledger, a, c)
<1>1. SetLedger(P) /\ minted' = minted
  BY DEF ProposeNothing
<1>2. Lined(P) /\ P.listed = Ledger.listed /\ \A q \in RunIds : SameWork(Ledger.runs[q], P.runs[q])
  BY TheLedger, PreparedLined
<1> HIDE DEF P
<1>3. TakesInOrder(runs, Ledger.runs)
  BY TheLedger, TakesNothing
<1>4. \A q \in RunIds : Ledger.runs[q].status = "none" <=> runs[q].status = "none"
  BY TheLedger
<1> QED BY <1>1, <1>2, <1>3, <1>4, TheLedger, Concluded

\* A read by the agent keeps the queue in order.
LEMMA ReadBackQ ==
  ASSUME QInv, NEW a \in Agents, ReadBack(a)
  PROVE  QStep
<1> DEFINE L == IF active[a] # NoRun /\ ~IsOpen(Ledger, active[a])
                THEN [Ledger EXCEPT !.active[a] = NoRun] ELSE Ledger
           M == Scanned(L, a, {})
<1>1. SetLedger(M) /\ minted' = minted
  BY DEF ReadBack
<1>2. /\ LedgerOK(L) /\ L.runs = runs /\ L.listed = listed
      /\ \A b \in Agents : L.active[b] = active[b] \/ ~IsOpen(Ledger, active[b])
  <2>1. LedgerOK(L)
    <3>1. [Ledger EXCEPT !.active[a] = NoRun] \in Ledgers /\ [Ledger EXCEPT !.active[a] = NoRun].runs = Ledger.runs
      BY TheLedger DEF LedgerOK, Ledgers, Ledger
    <3> QED BY <3>1, TheLedger DEF LedgerOK
  <2>2. \A b \in Agents : [active EXCEPT ![a] = NoRun][b] = IF b = a THEN NoRun ELSE active[b]
    BY TheLedger, LedgerParts
  <2>3. L.runs = runs /\ L.listed = listed /\ L.active \in {active, [active EXCEPT ![a] = NoRun]}
        /\ (IsOpen(Ledger, active[a]) => L.active = active)
    BY DEF Ledger
  <2> HIDE DEF L
  <2> QED BY <2>1, <2>2, <2>3
<1> HIDE DEF L
<1>3. Lined(L)
  <2>1. \A q \in RunIds : SamePlace(Ledger.runs[q], L.runs[q])
    BY <1>2, TheLedger DEF SamePlace
  <2> QED BY <1>2, <2>1, TheLedger, LinedSame
<1>4. NotesHeld(L)
  BY <1>2, TheLedger DEF NotesHeld
<1>5. /\ Lined(M) /\ NotesHeld(M)
      /\ \A q \in RunIds : /\ M.runs[q].status = L.runs[q].status
                           /\ \A i \in DOMAIN L.runs[q].hunks :
                                M.runs[q].hunks[i].status = L.runs[q].hunks[i].status
  BY <1>3, <1>4, ScannedLined
<1> HIDE DEF M
<1>6. TakesInOrder(runs, M.runs)
  BY <1>2, <1>5, TakesNothing
<1>7. \A q \in RunIds : (M.runs[q].status = "none" <=> runs[q].status = "none") /\ SameWork(M.runs[q], M.runs[q])
  BY <1>2, <1>5 DEF SameWork
<1> QED BY <1>1, <1>5, <1>6, <1>7, Concluded

\* Time passing over a run and its notes.
LEMMA AgedQ ==
  ASSUME QInv, NEW r \in RunIds, NEW new, RunOK(new), SamePlace(runs[r], new),
         DOMAIN new.hunks = DOMAIN runs[r].hunks,
         \A i \in DOMAIN runs[r].hunks : /\ new.hunks[i].status = runs[r].hunks[i].status
                                         /\ new.hunks[i].feedback.state = "open"
                                              => runs[r].hunks[i].feedback.state = "open",
         new.age = "old" => runs[r].age = "old" \/ OpenFeedback(runs[r]) = {},
         runs' = [runs EXCEPT ![r] = new], active' = active, listed' = listed, minted' = minted
  PROVE  QStep
<1> DEFINE K == [Ledger EXCEPT !.runs[r] = new]
<1>1. SetLedger(K)
  BY DEF SetLedger, Ledger
<1>2. OneRun(K, r, new) /\ K.listed = listed
  BY RunWritten
<1> HIDE DEF K
<1>3. OpenFeedback(new) \subseteq OpenFeedback(runs[r]) /\ Pending(new) = Pending(runs[r])
  BY DEF OpenFeedback, Pending
<1>4. /\ LedgerOK(K) /\ K.active = Ledger.active /\ K.runs[r] = new
      /\ \A q \in RunIds \ {r} : K.runs[q] = runs[q]
      /\ Ledger.runs = runs /\ Ledger.listed = listed /\ Lined(Ledger) /\ NotesHeld(Ledger)
  BY <1>2, TheLedger DEF OneRun
<1>5. Lined(K)
  <2>1. \A q \in RunIds : SamePlace(Ledger.runs[q], K.runs[q]) /\ Pending(K.runs[q]) = Pending(Ledger.runs[q])
    BY <1>3, <1>4 DEF SamePlace
  <2> QED BY <1>4, <2>1, LinedSame
<1>6. NotesHeld(K)
  <2> SUFFICES ASSUME NEW q \in RunIds, K.runs[q].status # "none", OpenFeedback(K.runs[q]) # {}
               PROVE  q \in K.listed[K.runs[q].agent] /\ K.runs[q].age # "old"
    BY DEF NotesHeld
  <2>1. OpenFeedback(runs[q]) # {} /\ runs[q].status # "none" /\ K.runs[q].agent = runs[q].agent
    BY <1>3, <1>4 DEF SamePlace
  <2>2. q \in listed[runs[q].agent] /\ runs[q].age # "old"
    BY <1>4, <2>1 DEF NotesHeld
  <2>3. K.runs[q].age = "old" => runs[q].age = "old"
    BY <1>4, <2>1
  <2> QED BY <1>2, <2>1, <2>2, <2>3
<1>7. TakesInOrder(runs, K.runs)
  BY <1>2, WrittenTakes
<1>8. \A q \in RunIds : (K.runs[q].status = "none" <=> runs[q].status = "none") /\ SameWork(K.runs[q], K.runs[q])
  BY <1>4 DEF SamePlace, SameWork
<1> QED BY <1>1, <1>5, <1>6, <1>7, <1>8, Concluded

\* The clock keeps the queue in order.
LEMMA ClockQ ==
  ASSUME QInv, NEW r \in RunIds,
         GoesIdle(r) \/ GoesOld(r) \/ \E i \in DOMAIN runs[r].hunks : FeedbackAges(r, i)
  PROVE  QStep
<1>1. runs \in [RunIds -> Run] /\ runs[r] \in Run /\ runs[r].hunks \in Seq(Hunk)
  BY TheLedger, LedgerParts, TheRun
<1>2. PICK new : new = runs'[r]
  OBVIOUS
<1>3. RunOK(new)
  <2>1. IInv'
    BY TheLedger, ClockOK
  <2> QED BY <1>2, <2>1 DEF IInv, LedgerOK, Ledger
<1>4. ASSUME NEW age \in {"idle", "old"}, runs' = [runs EXCEPT ![r].age = age],
             age = "old" => OpenFeedback(runs[r]) = {}, UNCHANGED <<text, active, listed, minted>>
      PROVE  QStep
  <2>1. new = [runs[r] EXCEPT !.age = age] /\ runs' = [runs EXCEPT ![r] = new]
    BY <1>1, <1>2, <1>4
  <2>2. /\ new.hunks = runs[r].hunks /\ new.age = age /\ SamePlace(runs[r], new)
        /\ active' = active /\ listed' = listed /\ minted' = minted
    BY <1>1, <1>4, <2>1 DEF Run, SamePlace
  <2>3. /\ DOMAIN new.hunks = DOMAIN runs[r].hunks
        /\ \A i \in DOMAIN runs[r].hunks : /\ new.hunks[i].status = runs[r].hunks[i].status
                                           /\ new.hunks[i].feedback.state = "open"
                                                => runs[r].hunks[i].feedback.state = "open"
        /\ new.age = "old" => runs[r].age = "old" \/ OpenFeedback(runs[r]) = {}
    BY <1>4, <2>2
  <2>4. runs' = [runs EXCEPT ![r] = new]
    BY <2>1
  <2> QED BY <1>3, <2>2, <2>3, <2>4, AgedQ
<1>5. ASSUME NEW i \in DOMAIN runs[r].hunks, FeedbackAges(r, i)
      PROVE  QStep
  <2> DEFINE hs == [j \in DOMAIN runs[r].hunks |->
                      IF runs[r].hunks[j].feedback = runs[r].hunks[i].feedback
                      THEN [runs[r].hunks[j] EXCEPT !.feedback.state = "stale"] ELSE runs[r].hunks[j]]
  <2>1. \A j \in DOMAIN runs[r].hunks :
          /\ hs[j].status = runs[r].hunks[j].status
          /\ hs[j].feedback.state = "open" => runs[r].hunks[j].feedback.state = "open"
    <3> TAKE j \in DOMAIN runs[r].hunks
    <3>1. runs[r].hunks[j] \in Hunk
      BY <1>1
    <3> QED BY <3>1 DEF Hunk, Feedback
  <2>2. runs' = [runs EXCEPT ![r].hunks = hs] /\ active' = active /\ listed' = listed /\ minted' = minted
    BY <1>5 DEF FeedbackAges
  <2>3. DOMAIN hs = DOMAIN runs[r].hunks
    OBVIOUS
  <2> HIDE DEF hs
  <2>4. new = [runs[r] EXCEPT !.hunks = hs] /\ runs' = [runs EXCEPT ![r] = new]
    BY <1>1, <1>2, <2>2
  <2>5. new.hunks = hs /\ new.age = runs[r].age /\ SamePlace(runs[r], new)
    BY <1>1, <2>4 DEF Run, SamePlace
  <2>6. /\ DOMAIN new.hunks = DOMAIN runs[r].hunks
        /\ \A j \in DOMAIN runs[r].hunks : /\ new.hunks[j].status = runs[r].hunks[j].status
                                           /\ new.hunks[j].feedback.state = "open"
                                                => runs[r].hunks[j].feedback.state = "open"
        /\ new.age = "old" => runs[r].age = "old" \/ OpenFeedback(runs[r]) = {}
    BY <2>1, <2>3, <2>5
  <2>7. runs' = [runs EXCEPT ![r] = new] /\ active' = active /\ listed' = listed /\ minted' = minted
    BY <2>2, <2>4
  <2> QED BY <1>3, <2>5, <2>6, <2>7, AgedQ
<1>6. CASE GoesIdle(r)
  BY <1>4, <1>6 DEF GoesIdle
<1>7. CASE GoesOld(r)
  BY <1>4, <1>7 DEF GoesOld
<1> QED BY <1>5, <1>6, <1>7

\* A step that leaves the ledger alone.
LEMMA StillQ ==
  ASSUME QInv, UNCHANGED <<runs, active, listed, minted>>
  PROVE  QStep
<1>1. Ledger' = Ledger /\ runs' = runs /\ minted' = minted
  BY DEF Ledger
<1>2. KeepsTheOwed(runs, runs)
  BY DEF KeepsTheOwed
<1>3. TakesInOrder(runs, runs)
  BY TakesNothing
<1> QED BY <1>1, <1>2, <1>3, TheLedger DEF QStep

\* A proposal that goes on in the agent's open run adds to it and moves nothing.
LEMMA GoesOnQ ==
  ASSUME QInv, NEW a \in Agents, NEW c \in Changes, NEW level \in Levels, NEW s, NEW answers,
         OpenRunFor(Ledger, a, c) # NoRun, ProposalRun(a, c) \in RunIds,
         NEW h \in Hunk, NEW N, Writes(a, c, level, s, answers, h, N)
  PROVE  /\ Lined(N) /\ NotesHeld(N) /\ Numbered(N, minted)
         /\ KeepsTheOwed(runs, N.runs) /\ TakesInOrder(runs, N.runs) /\ LosesNothing(runs, N.runs)
<1> DEFINE id == ProposalRun(a, c)
           new == WithHunk(runs[id], h, level, LandsAtOnce(a, c, level))
<1>1. GoesOn(Ledger, a, c) /\ id = active[a] /\ id \in RunIds
  BY TheLedger DEF OpenRunFor, ProposalRun
<1>2. ProposeInto(Prepared(Ledger, a, c), a, c, level) = Ledger
  BY <1>1 DEF ProposeInto, Prepared, GoesOn
<1>3. runs[id].status = "open" /\ runs[id] \in Run /\ runs[id].hunks \in Seq(Hunk) /\ runs \in [RunIds -> Run]
  BY <1>1, TheLedger, TheRun, LedgerParts DEF GoesOn, IsOpen
<1>4. /\ h.status # "accepted" /\ h.feedback = NoFeedback
      /\ RunOK(new) /\ new.hunks = Append(runs[id].hunks, h)
      /\ new.agent = runs[id].agent /\ new.status = "open" /\ new.age = "new"
      /\ new.queued_behind = runs[id].queued_behind /\ new.stacked_on = runs[id].stacked_on
      /\ LedgerOK(N) /\ N.runs = [runs EXCEPT ![id] = new] /\ N.active = active /\ N.listed = listed
  BY <1>2, TheLedger, SMTT(30) DEF Writes
<1>5. \A i \in DOMAIN runs[id].hunks : i \in DOMAIN new.hunks /\ new.hunks[i] = runs[id].hunks[i]
  BY <1>3, <1>4
<1>6. \A i \in DOMAIN new.hunks : i \in DOMAIN runs[id].hunks \/ new.hunks[i] = h
  BY <1>3, <1>4
<1> HIDE DEF id, new
<1>7. OneRun(N, id, new) /\ SamePlace(runs[id], new)
  BY <1>1, <1>3, <1>4 DEF OneRun, SamePlace
<1>8. Lined(N)
  <2>1. Pending(runs[id]) # {} => Pending(new) # {}
    BY <1>5 DEF Pending
  <2>2. \A q \in RunIds : /\ SamePlace(Ledger.runs[q], N.runs[q])
                          /\ Pending(Ledger.runs[q]) # {} => Pending(N.runs[q]) # {}
    BY <1>7, <2>1, TheLedger DEF OneRun, SamePlace
  <2> QED BY <1>4, <2>2, TheLedger, LinedSame
<1>9. NotesHeld(N)
  <2>1. OpenFeedback(new) = OpenFeedback(runs[id])
    <3>1. h.feedback.state # "open"
      BY <1>4 DEF NoFeedback
    <3> QED BY <1>5, <1>6, <3>1 DEF OpenFeedback
  <2>2. OpenFeedback(new) # {} => id \in N.listed[new.agent]
    BY <1>1, <1>3, <1>4, <2>1, TheLedger, ZenonT(60) DEF NotesHeld
  <2> QED BY <1>1, <1>3, <1>4, <1>7, <2>2, WrittenNotes
<1>10. \A q \in RunIds : N.runs[q].status = "none" <=> runs[q].status = "none"
  BY <1>7 DEF OneRun, SamePlace
<1>11. Numbered(N, minted) /\ KeepsTheOwed(runs, N.runs)
  BY <1>10, TheLedger DEF Numbered, KeepsTheOwed
<1>12. TakesInOrder(runs, N.runs)
  BY <1>1, <1>5, <1>7, WrittenTakes
<1>13. LosesNothing(runs, N.runs)
  BY <1>5, <1>7 DEF LosesNothing, Pending, OneRun
<1> QED BY <1>8, <1>9, <1>11, <1>12, <1>13

\* What is dropped for a new run is kept, decided, and owes its agent nothing fresh.
LEMMA EvictedOnes ==
  ASSUME NEW L, NotesHeld(L)
  PROVE  Evicted(L) \subseteq RunIds
         /\ \A q \in Evicted(L) : Pending(L.runs[q]) = {} /\ OpenFeedback(L.runs[q]) = {}
<1>1. \A q \in Evicted(L) : q \in RunIds /\ L.runs[q].status # "none" /\ Evictable(L, q)
  BY DEF Evicted, Kept
<1> QED BY <1>1 DEF Evictable, NotesHeld

\* A proposal that opens a run puts it last in line.
LEMMA OpensQ ==
  ASSUME QInv, NEW a \in Agents, NEW c \in Changes, NEW level \in Levels, NEW s, NEW answers,
         OpenRunFor(Ledger, a, c) = NoRun, ProposalRun(a, c) \in RunIds,
         NEW h \in Hunk, NEW N, Writes(a, c, level, s, answers, h, N)
  PROVE  /\ Lined(N) /\ NotesHeld(N) /\ Numbered(N, minted + 1)
         /\ KeepsTheOwed(runs, N.runs) /\ TakesInOrder(runs, N.runs) /\ LosesNothing(runs, N.runs)
<1> DEFINE id == ProposalRun(a, c)
           P == Prepared(Ledger, a, c)
           waiting == Waiting(P, a)
           ahead == IF waiting = {} THEN NoRun ELSE Highest(waiting)
           fresh == NewRun(a, level, c, ahead, waiting)
           new == WithHunk(fresh, h, level, LandsAtOnce(a, c, level))
           E == Evicted(P)
           M == Tracked(P, id, fresh)
<1>1. id = minted + 1 /\ id \in RunIds /\ minted \in Nat
  BY TheLedger, BoundsAssumption DEF ProposalRun, IInv
<1>2. ~GoesOn(Ledger, a, c)
  BY TheLedger DEF OpenRunFor, GoesOn, IsOpen
<1>3. /\ Lined(P) /\ P.listed = listed
      /\ \A q \in RunIds : SameWork(runs[q], P.runs[q])
      /\ \A q \in RunIds : P.runs[q].status = "open" /\ P.runs[q].agent = a => Pending(P.runs[q]) # {}
  BY <1>2, TheLedger, PreparedLined
<1>4. NotesHeld(P)
  BY <1>3, TheLedger, NotesSameWork
<1>5. ProposeInto(P, a, c, level) = M
  BY <1>1 DEF ProposeInto
<1>6. LandsAtOnce(a, c, level) => waiting = {}
  BY DEF LandsAtOnce
<1>7. E \subseteq RunIds /\ \A q \in E : Pending(P.runs[q]) = {} /\ OpenFeedback(P.runs[q]) = {}
  BY <1>4, EvictedOnes
<1>8. \A q \in waiting : /\ q \in RunIds /\ P.runs[q].status = "open" /\ P.runs[q].agent = a
                         /\ Pending(P.runs[q]) # {}
  BY DEF Waiting, Kept, IsOpen
<1>9. \A q \in RunIds : P.runs[q].status = "open" /\ P.runs[q].agent = a => q \in waiting
  <2>1. NoRun \notin RunIds
    BY BoundsAssumption DEF RunIds, NoRun
  <2> QED BY <1>3, <2>1 DEF Waiting, Kept, IsOpen
<1>10. /\ ahead # NoRun => ahead \in waiting
       /\ \A q \in waiting : q <= ahead
  <2> HIDE DEF waiting
  <2>1. waiting \in SUBSET (0 .. MaxRuns) /\ MaxRuns \in Nat
    BY <1>8, BoundsAssumption DEF RunIds
  <2> QED BY <2>1, HighestExists
<1>11. /\ M.runs = [q \in RunIds |-> CASE q = id -> fresh [] q # id /\ q \in E -> Blank [] OTHER -> P.runs[q]]
       /\ M.listed = [b \in Agents |-> P.listed[b] \ {q \in E : P.runs[q].agent = b}]
       /\ M.active = [b \in Agents |-> IF b = fresh.agent THEN id
                                       ELSE IF P.active[b] \in E THEN NoRun ELSE P.active[b]]
  BY DEF Tracked
<1>12. /\ fresh.agent = a /\ fresh.hunks = <<>> /\ fresh.queued_behind = ahead /\ fresh.stacked_on = waiting
  BY DEF NewRun
<1>13. /\ h.status = (IF LandsAtOnce(a, c, level) THEN "auto_applied" ELSE "pending") /\ h.feedback = NoFeedback
       /\ LET new2 == WithHunk(M.runs[id], h, level, LandsAtOnce(a, c, level)) IN
          /\ RunOK(new2) /\ new2.hunks = Append(M.runs[id].hunks, h)
          /\ new2.agent = M.runs[id].agent /\ new2.status = "open" /\ new2.age = "new"
          /\ new2.queued_behind = M.runs[id].queued_behind /\ new2.stacked_on = M.runs[id].stacked_on
          /\ N.runs = [M.runs EXCEPT ![id] = new2]
       /\ LedgerOK(N) /\ N.active = M.active /\ N.listed = M.listed
  BY <1>5, ZenonT(60) DEF Writes
<1> HIDE DEF id, P, waiting, ahead, fresh, E, M
<1>14. M.runs[id] = fresh
  BY <1>1, <1>11
<1>15. /\ RunOK(new) /\ new.hunks = <<h>> /\ new.agent = a /\ new.status = "open" /\ new.age = "new"
       /\ new.queued_behind = ahead /\ new.stacked_on = waiting
       /\ N.runs = [M.runs EXCEPT ![id] = new]
  <2>1. Append(<<>>, h) = <<h>>
    OBVIOUS
  <2> QED BY <1>12, <1>13, <1>14, <2>1
<1> HIDE DEF new
<1>16. N.runs[id] = new /\ \A q \in RunIds \ {id} : N.runs[q] = IF q \in E THEN Blank ELSE P.runs[q]
  BY <1>1, <1>11, <1>15
<1>17. \A b \in Agents : /\ N.active[b] = IF b = a THEN id ELSE IF P.active[b] \in E THEN NoRun ELSE P.active[b]
                         /\ N.listed[b] = listed[b] \ {q \in E : P.runs[q].agent = b}
  <2>1. N.active = M.active /\ N.listed = M.listed /\ P.listed = listed /\ fresh.agent = a
    BY <1>3, <1>12, <1>13
  <2> TAKE b \in Agents
  <2>2. /\ M.active[b] = IF b = fresh.agent THEN id ELSE IF P.active[b] \in E THEN NoRun ELSE P.active[b]
        /\ M.listed[b] = P.listed[b] \ {q \in E : P.runs[q].agent = b}
    BY <1>11, Zenon
  <2> QED BY <2>1, <2>2, Zenon
<1>18. \A q \in RunIds : P.runs[q].status # "none" => q < id
  <2>1. \A q \in RunIds : P.runs[q].status # "none" => q <= minted
    BY <1>3, TheLedger DEF SameWork, Numbered
  <2>2. RunIds \subseteq Nat
    BY BoundsAssumption DEF RunIds
  <2> QED BY <1>1, <2>1, <2>2
<1>19. Lined(N)
  <2>1. waiting # {} => Pending(new) # {}
    <3>1. waiting # {} => h.status = "pending"
      BY <1>6, <1>13
    <3> QED BY <1>15, <3>1 DEF Pending
  <2>2. \A q \in RunIds : P.runs[q].status = "open" /\ P.runs[q].agent = a =>
          /\ Pending(P.runs[q]) # {} /\ Pending(N.runs[id]) # {}
          /\ q <= N.runs[id].queued_behind
    BY <1>8, <1>9, <1>10, <1>15, <1>16, <2>1
  <2>3. /\ N.runs[id].status = "open" /\ N.runs[id].agent = a
        /\ N.runs[id].queued_behind # NoRun => N.runs[id].queued_behind \in Waiting(P, a)
        /\ N.runs[id].stacked_on \subseteq Waiting(P, a)
    BY <1>10, <1>15, <1>16 DEF waiting
  <2>4. \A b \in Agents : N.active[b] = IF b = a THEN id ELSE IF P.active[b] \in E THEN NoRun ELSE P.active[b]
    BY <1>17
  <2>5. \A q \in E : Pending(P.runs[q]) = {}
    BY <1>7
  <2>6. E \in SUBSET RunIds /\ LedgerOK(N)
    BY <1>7, <1>13
  <2>7. N.runs[id].status = "open" /\ N.runs[id].agent = a
    BY <2>3
  <2>8. N.runs[id].queued_behind # NoRun => N.runs[id].queued_behind \in Waiting(P, a)
    BY <2>3
  <2>9. N.runs[id].stacked_on \subseteq Waiting(P, a)
    BY <2>3
  <2>10. \A q \in RunIds \ {id} : N.runs[q] = IF q \in E THEN Blank ELSE P.runs[q]
    BY <1>16
  <2>11. Lined(P) /\ id \in RunIds /\ E \in SUBSET RunIds /\ LedgerOK(N)
    BY <1>1, <1>3, <2>6
  <2>12. Enters(P, N, id, a, E)
    BY <1>18, <2>2, <2>4, <2>5, <2>7, <2>8, <2>9, <2>10 DEF Enters
  <2> QED BY <2>11, <2>12, LinedTracked
<1>20. Blank.status = "none"
  BY BlankOK
<1>21. NotesHeld(N)
  <2> SUFFICES ASSUME NEW q \in RunIds, N.runs[q].status # "none", OpenFeedback(N.runs[q]) # {}
               PROVE  q \in N.listed[N.runs[q].agent] /\ N.runs[q].age # "old"
    BY DEF NotesHeld
  <2>1. q # id
    <3>1. OpenFeedback(new) = {}
      BY <1>13, <1>15, SMTT(30) DEF OpenFeedback, NoFeedback
    <3> QED BY <1>16, <3>1
  <2>2. q \notin E /\ N.runs[q] = P.runs[q]
    BY <1>16, <1>20, <2>1
  <2>3. q \in P.listed[P.runs[q].agent] /\ P.runs[q].age # "old"
    BY <1>4, <2>2 DEF NotesHeld
  <2>4. P.runs[q].agent \in Agents
    BY <1>3, LedgerParts DEF Lined
  <2> QED BY <1>3, <1>17, <2>2, <2>3, <2>4
<1>22. Numbered(N, minted + 1)
  <2>1. RunIds \subseteq Nat
    BY BoundsAssumption DEF RunIds
  <2>2. \A q \in RunIds \ {id} : N.runs[q].status # "none" => q < id
    BY <1>16, <1>18, <1>20
  <2> QED BY <1>1, <2>1, <2>2 DEF Numbered
<1>23. KeepsTheOwed(runs, N.runs)
  <2> SUFFICES ASSUME NEW q \in RunIds, runs[q].status # "none", N.runs[q].status = "none"
               PROVE  Pending(runs[q]) = {} /\ OpenFeedback(runs[q]) = {}
    BY DEF KeepsTheOwed
  <2>1. q \in E
    BY <1>3, <1>15, <1>16 DEF SameWork
  <2>2. Pending(runs[q]) = Pending(P.runs[q]) /\ OpenFeedback(runs[q]) = OpenFeedback(P.runs[q])
    BY <1>3 DEF SameWork, Pending, OpenFeedback
  <2> QED BY <1>7, <2>1, <2>2
<1>24. Pending(runs[id]) = {}
  <2>1. ~(id <= minted)
    BY <1>1
  <2>2. runs[id].status = "none"
    BY <1>1, <2>1, TheLedger DEF Numbered
  <2> QED BY <1>1, <2>2, TheLedger, TheRun, NothingWaits
<1>25. TakesInOrder(runs, N.runs)
  <2> SUFFICES ASSUME NEW q \in RunIds, NEW i \in DOMAIN runs[q].hunks, runs[q].hunks[i].status = "pending",
                      N.runs[q].status # "none", N.runs[q].hunks[i].status = "accepted"
               PROVE  FALSE
    BY DEF TakesInOrder
  <2>1. q # id
    BY <1>24 DEF Pending
  <2> QED BY <1>3, <1>16, <1>20, <2>1 DEF SameWork
<1>26. LosesNothing(runs, N.runs)
  <2> SUFFICES ASSUME NEW q \in RunIds, N.runs[q].status # "none"
               PROVE  Pending(runs[q]) \subseteq DOMAIN N.runs[q].hunks
    BY DEF LosesNothing
  <2>1. CASE q = id
    BY <1>24, <2>1
  <2>2. CASE q # id
    BY <1>3, <1>16, <1>20, <2>2 DEF SameWork, Pending
  <2> QED BY <2>1, <2>2
<1> QED BY <1>19, <1>21, <1>22, <1>23, <1>25, <1>26

\* A proposal, with the notes it answers.
LEMMA ProposeQ ==
  ASSUME QInv, NEW a \in Agents, NEW c \in Changes, NEW level \in LevelsInUse, NEW s \in Slots,
         NEW delete \in Deletes, NEW answers, Propose(a, c, level, s, delete, answers)
  PROVE  QStep
<1>1. level \in Levels /\ IInv
  BY InputAssumption DEF QInv
<1>2. /\ ProposalRun(a, c) \in RunIds
      /\ minted' = (IF OpenRunFor(Ledger, a, c) = NoRun THEN minted + 1 ELSE minted)
      /\ \E h \in Hunk : \E N : Writes(a, c, level, s, answers, h, N)
  BY <1>1, ProposedOK
<1>3. PICK h \in Hunk : \E N : Writes(a, c, level, s, answers, h, N)
  BY <1>2
<1>4. PICK N : Writes(a, c, level, s, answers, h, N)
  BY <1>3
<1>5. /\ Lined(N) /\ NotesHeld(N) /\ Numbered(N, minted')
      /\ KeepsTheOwed(runs, N.runs) /\ TakesInOrder(runs, N.runs) /\ LosesNothing(runs, N.runs)
  <2>1. CASE OpenRunFor(Ledger, a, c) = NoRun
    BY <1>1, <1>2, <1>4, <2>1, OpensQ
  <2>2. CASE OpenRunFor(Ledger, a, c) # NoRun
    BY <1>1, <1>2, <1>4, <2>2, GoesOnQ
  <2> QED BY <2>1, <2>2
<1> DEFINE M == Scanned(N, a, answers)
<1>6. /\ Lined(M) /\ NotesHeld(M)
      /\ \A q \in RunIds : /\ M.runs[q].status = N.runs[q].status
                           /\ DOMAIN M.runs[q].hunks = DOMAIN N.runs[q].hunks
                           /\ \A i \in DOMAIN N.runs[q].hunks :
                                M.runs[q].hunks[i].status = N.runs[q].hunks[i].status
  BY <1>5, ScannedLined
<1>7. SetLedger(M)
  BY <1>4 DEF Writes
<1> HIDE DEF M
<1>8. Ledger' = M /\ runs' = M.runs
  BY <1>6, <1>7, SetIs DEF Lined
<1>9. Numbered(M, minted')
  BY <1>5, <1>6 DEF Numbered
<1>10. KeepsTheOwed(runs, M.runs)
  BY <1>5, <1>6 DEF KeepsTheOwed
<1>11. TakesInOrder(runs, M.runs)
  <2> SUFFICES ASSUME NEW q \in RunIds, NEW i \in DOMAIN runs[q].hunks, runs[q].hunks[i].status = "pending",
                      M.runs[q].status # "none", M.runs[q].hunks[i].status = "accepted"
               PROVE  \A p \in runs[q].stacked_on : ~(runs[p].status = "open" /\ Pending(runs[p]) # {})
    BY DEF TakesInOrder
  <2>1. i \in Pending(runs[q])
    BY DEF Pending
  <2>2. i \in DOMAIN N.runs[q].hunks /\ N.runs[q].status # "none"
    BY <1>5, <1>6, <2>1 DEF LosesNothing
  <2>3. N.runs[q].hunks[i].status = "accepted"
    BY <1>6, <2>2
  <2> QED BY <1>5, <2>2, <2>3 DEF TakesInOrder
<1> QED BY <1>6, <1>8, <1>9, <1>10, <1>11 DEF QStep

-----------------------------------------------------------------------------
(* The queue, whatever is done to it *)

\* A ledger that was never written has no queue.
LEMMA InitQ == Init => QInv
<1> SUFFICES ASSUME Init PROVE QInv
  OBVIOUS
<1>1. IInv
  BY InitOK
<1>2. \A r \in RunIds : Ledger.runs[r] = Blank
  BY DEF Init, Ledger
<1>3. Blank.status = "none" /\ Blank.queued_behind = NoRun
  BY BlankOK
<1>4. LedgerOK(Ledger)
  BY <1>1 DEF IInv
<1>5. Behind(Ledger) /\ InLine(Ledger) /\ Pointed(Ledger) /\ Stacked(Ledger)
  BY <1>2, <1>3 DEF Behind, InLine, Pointed, Stacked
<1>6. NotesHeld(Ledger) /\ Numbered(Ledger, minted)
  BY <1>2, <1>3 DEF NotesHeld, Numbered
<1> QED BY <1>1, <1>4, <1>5, <1>6 DEF QInv, Lined

\* The invariant is inductive, and every step accepts in order and evicts nothing owed.
LEMMA QStepOK == QInv /\ [Next]_vars => QInv' /\ QStep
<1> SUFFICES ASSUME QInv, [Next]_vars PROVE QInv' /\ QStep
  OBVIOUS
<1>1. ASSUME NEW a \in Agents, NEW c \in Changes, NEW level \in LevelsInUse, NEW s \in Slots,
             NEW delete \in Deletes, NEW answers \in SUBSET NotesFor(a),
             Propose(a, c, level, s, delete, answers)
      PROVE  QStep
  BY <1>1, ProposeQ
<1>2. ASSUME NEW a \in Agents, NEW c \in Changes, ProposeNothing(a, c) PROVE QStep
  BY <1>2, ProposeNothingQ
<1>3. ASSUME NEW a \in Agents, ReadBack(a) PROVE QStep
  BY <1>3, ReadBackQ
<1>4. ASSUME NEW r \in RunIds, NEW T \in SUBSET Pending(runs[r]), Reject(r, T) PROVE QStep
  BY <1>4, RejectQ
<1>5. ASSUME NEW r \in RunIds, NEW T \in SUBSET Pending(runs[r]), NEW A \in SUBSET T,
             NEW by \in People, NEW itemLevel \in LevelsInUse, Accept(r, T, A, by, itemLevel)
      PROVE  QStep
  BY <1>5, AcceptQ
<1>6. ASSUME NEW r \in RunIds, NEW note \in BOOLEAN, Revert(r, note) PROVE QStep
  BY <1>6, RevertQ
<1>7. ASSUME NEW r \in RunIds, NEW T \in SUBSET DOMAIN runs[r].hunks, Undo(r, T) PROVE QStep
  BY <1>7, UndoQ
<1>8. ASSUME NEW r \in RunIds, Ack(r) PROVE QStep
  BY <1>8, AckQ
<1>9. ASSUME NEW r \in RunIds,
             GoesIdle(r) \/ GoesOld(r) \/ \E i \in DOMAIN runs[r].hunks : FeedbackAges(r, i)
      PROVE  QStep
  BY <1>9, ClockQ
<1>10. ASSUME NEW s \in Slots, NEW v \in Typed, PersonEdits(s, v) PROVE QStep
  BY <1>10, StillQ DEF PersonEdits
<1>11. ASSUME UNCHANGED vars PROVE QStep
  BY <1>11, StillQ DEF vars
<1>12. QStep
  BY <1>1, <1>2, <1>3, <1>4, <1>5, <1>6, <1>7, <1>8, <1>9, <1>10, <1>11 DEF Next
<1>13. IInv'
  BY StepOK DEF QInv
<1> QED BY <1>12, <1>13 DEF QInv, QStep

\* The queue, the notes and the numbers hold in every state of every ledger (track, unlink,
\* openRunFor, noteFeedback, unlistFeedback, and the handlers of routes.ts that call them).
THEOREM QueueInvariant == Spec => []QInv
BY InitQ, QStepOK, PTL DEF Spec

\* For any number of agents, runs and hunks: the run a person is told to decide first can itself be
\* decided, and an agent that has work waiting is shown it (aheadOf, unlink, projectionFor).
THEOREM QueueStaysUsable == Spec => []QueueIsUsable
<1>1. QInv => AheadHasWork
  <2> SUFFICES ASSUME QInv, NEW r \in RunIds, AheadOf(Ledger, r) # NoRun
               PROVE  LET ahead == AheadOf(Ledger, r) IN
                      ahead < r /\ runs[ahead].agent = runs[r].agent /\ Pending(runs[ahead]) # {}
    BY DEF AheadHasWork
  <2>1. AheadOf(Ledger, r) = Ledger.runs[r].queued_behind /\ Ledger.runs = runs
    BY DEF AheadOf, Ledger
  <2> QED BY <2>1 DEF QInv, Lined, Behind
<1>2. QInv => OwnWorkShown
  <2> SUFFICES ASSUME QInv, NEW a \in Agents, NEW r \in Waiting(Ledger, a)
               PROVE  IsOpen(Ledger, active[a]) /\ runs[active[a]].agent = a
    BY DEF OwnWorkShown
  <2>1. r \in RunIds /\ Ledger.runs[r].status = "open" /\ Ledger.runs[r].agent = a
    BY DEF Waiting, Kept, IsOpen
  <2>2. /\ Ledger.active[a] # NoRun
        /\ Ledger.runs[Ledger.active[a]].status = "open" /\ Ledger.runs[Ledger.active[a]].agent = a
    BY <2>1 DEF QInv, Lined, Pointed
  <2> QED BY <2>2, TheLedger DEF IsOpen
<1>3. QInv => QueueIsUsable
  BY <1>1, <1>2 DEF QueueIsUsable
<1> QED BY <1>3, QueueInvariant, PTL

\* However many notes people leave, and however the runs that hold them are closed, reverted,
\* undone or dropped: a note still to be shown is in the list its agent reads (noteFeedback,
\* unlistFeedback, feedbackFor, track).
THEOREM NotesReachTheirAgents == Spec => []NotesAreListed
<1>1. QInv => NotesAreListed
  BY TheLedger DEF QInv, NotesAreListed, NotesHeld, Kept
<1> QED BY <1>1, QueueInvariant, PTL

\* For a queue of any length: no step lets a hunk in while a run it was proposed on top of waits
\* (the check of aheadOf in handleRunDecide, with what unlink and an undo leave it to look at).
THEOREM AcceptsInOrder == Spec => AcceptedInOrder
<1>1. QInv /\ [Next]_vars =>
        [\A r \in RunIds : \A i \in DOMAIN runs[r].hunks :
           runs[r].hunks[i].status = "pending" /\ runs'[r].status # "none"
             /\ runs'[r].hunks[i].status = "accepted"
           => \A q \in runs[r].stacked_on : ~(runs[q].status = "open" /\ Pending(runs[q]) # {})]_vars
  BY QStepOK DEF QStep, TakesInOrder
<1> QED BY <1>1, QueueInvariant, PTL DEF Spec, AcceptedInOrder

\* Under any cap: no step drops a run that a person has yet to decide, or that holds a fresh note
\* for its agent (track).
THEOREM EvictsNothingOwed == Spec => NothingOwedIsEvicted
<1>1. QInv /\ [Next]_vars =>
        [\A r \in Kept(Ledger) :
           runs'[r].status = "none" => Pending(runs[r]) = {} /\ OpenFeedback(runs[r]) = {}]_vars
  <2>1. \A r \in Kept(Ledger) : r \in RunIds /\ runs[r].status # "none"
    BY DEF Kept, Ledger
  <2> QED BY <2>1, QStepOK DEF QStep, KeepsTheOwed
<1> QED BY <1>1, QueueInvariant, PTL DEF Spec, NothingOwedIsEvicted

=============================================================================
