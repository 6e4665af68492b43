-------------------------- MODULE ActorHostProofs --------------------------
(* Proofs about the actor host, for any actors, clients and bounds.  First  *)
(* the hosts themselves: whose store is open, what wakes an actor.  Then,   *)
(* on top of that, the sockets: what a peer sent before it left.            *)
EXTENDS ActorHost, TLAPS, SequenceTheorems

Entries == [kind : EntryKinds, by : Callers \cup {NoHost}, k : Nat]
Departures == [peer : Peers, frames : Seq(Nat)]
Hosted == [closed : BOOLEAN, done : BOOLEAN, timer : Alarms, released : BOOLEAN,
           retries : 0 .. ALARM_RETRY_LIMIT, queue : Seq(Entries), departures : Seq(Departures),
           running : BOOLEAN]
CallStates == {"none", "waiting", "woken", "queued", "answered", "refused"}
PeerStates == {"away", "on", "leaving", "gone", "dropped"}

SocketTypes == [on : Hosts \cup {NoHost}, at : PeerStates, sent : Nat, got : Seq(Nat), held : Seq(Nat)]

HostTypes ==
    /\ host \in [Hosts -> Hosted]
    /\ resident \in [Names -> Slots \cup {0}]
    /\ cold \in [Names -> Alarms] /\ heldAlarms \in [Names -> Alarms] /\ alarm \in [Names -> Alarms]
    /\ paused \in BOOLEAN /\ pausing \in BOOLEAN

ClientTypes ==
    /\ call \in [Callers -> [to : Names \cup {""}, at : CallStates]]
    /\ \A c \in Callers : call[c].at \in {"waiting", "woken"} => call[c].to \in Names
    /\ peer \in [Peers -> SocketTypes]

(* A host whose store is open: once close() was called it is the last entry  *)
(* of the queue, and the timer is gone.                                     *)
Working(hosted) ==
    /\ hosted \in Hosted /\ ~hosted.done
    /\ \A i \in 1 .. Len(hosted.queue) :
        hosted.queue[i].kind = "close" => hosted.closed /\ i = Len(hosted.queue)
    /\ hosted.closed => /\ hosted.timer = "none" /\ hosted.queue # <<>>
                        /\ hosted.queue[Len(hosted.queue)].kind = "close"

(* What wakes an actor with this row while its host is open. *)
Wakes(hosted, row) ==
    \/ row = "none" \/ hosted.closed
    \/ hosted.timer # "none" /\ NoLater(hosted.timer, row)
    \/ \E i \in 1 .. Len(hosted.queue) : hosted.queue[i].kind = "alarm"

(* A host is open or an empty place; the one in memory is the one nobody    *)
(* closes.                                                                  *)
HostOK(h) ==
    /\ host[h] = Vacant \/ (Working(host[h]) /\ Wakes(host[h], alarm[h[1]]))
    /\ ~host[h].closed <=> resident[h[1]] = h[2]

(* A name with no host open has a timer of its own, or waits for resume; a  *)
(* pause takes the timer, and leaves nothing in memory.                     *)
NameOK(n) ==
    LET out == \A i \in Slots : host[<<n, i>>].done
    IN  /\ cold[n] # "none" => out
        /\ out /\ alarm[n] # "none" =>
             \/ ~paused /\ cold[n] # "none" /\ NoLater(cold[n], alarm[n])
             \/ paused /\ heldAlarms[n] # "none" /\ NoLater(heldAlarms[n], alarm[n])
        /\ paused => resident[n] = 0 /\ cold[n] = "none"

HInv ==
    /\ HostTypes /\ ClientTypes
    /\ \A h \in Hosts : HostOK(h)
    /\ \A n \in Names : NameOK(n)
    /\ OneHostPerStore /\ PausedIsStill /\ (pausing => paused)

-----------------------------------------------------------------------------
(* The sockets *)

FrameOf(p, e) == e.kind = "frame" /\ e.by = p
LeftOf(p, e) == e.kind = "left" /\ e.by = p

(* The queue holds the frames of p after the nth up to the mth, in order. *)
InOrder(p, q, n, m) ==
    /\ n <= m
    /\ \A i \in 1 .. Len(q) : FrameOf(p, q[i]) => q[i].k \in n + 1 .. m
    /\ \A k \in n + 1 .. m : \E i \in 1 .. Len(q) : FrameOf(p, q[i]) /\ q[i].k = k
    /\ \A i, j \in 1 .. Len(q) : FrameOf(p, q[i]) /\ FrameOf(p, q[j]) /\ i < j => q[i].k < q[j].k

(* The numbers after the nth. *)
Following(n, s) == \A i \in 1 .. Len(s) : s[i] = n + i

(* The departure of p is not in the queue, or is there once, behind its     *)
(* frames; it is not among those kept for close().                          *)
NoLeft(p, q) == \A i \in 1 .. Len(q) : ~LeftOf(p, q[i])
LastLeft(p, q) ==
    \E i \in 1 .. Len(q) :
        /\ LeftOf(p, q[i])
        /\ \A j \in 1 .. Len(q) : LeftOf(p, q[j]) => i = j
        /\ \A j \in 1 .. Len(q) : FrameOf(p, q[j]) => j < i
NoDeparture(p, d) == \A j \in 1 .. Len(d) : d[j].peer # p

(* What became of the frames of a peer p that is connected, or whose        *)
(* departure is on its way: handled, then queued, then held.                *)
Connected(p, s, hosted) ==
    /\ NoLeft(p, hosted.queue) /\ NoDeparture(p, hosted.departures)
    /\ ~hosted.closed => s.held = <<>>
    /\ Following(s.sent - Len(s.held), s.held)
    /\ InOrder(p, hosted.queue, Len(s.got), s.sent - Len(s.held))
LeftQueued(p, s, hosted) ==
    /\ LastLeft(p, hosted.queue) /\ NoDeparture(p, hosted.departures)
    /\ InOrder(p, hosted.queue, Len(s.got), s.sent)
LeftKept(p, s, hosted) ==
    /\ NoLeft(p, hosted.queue)
    /\ \E j \in 1 .. Len(hosted.departures) :
        LET d == hosted.departures[j]
        IN  /\ d.peer = p
            /\ \A i \in 1 .. Len(hosted.departures) : hosted.departures[i].peer = p => i = j
            /\ Following(s.sent - Len(d.frames), d.frames)
            /\ InOrder(p, hosted.queue, Len(s.got), s.sent - Len(d.frames))
Heard(p, s, hosted) ==
    /\ Following(0, s.got)
    /\ s.at = "on" => Connected(p, s, hosted)
    /\ s.at = "leaving" => LeftQueued(p, s, hosted) \/ LeftKept(p, s, hosted)

PeerOK(p) ==
    /\ peer[p].at \in {"on", "leaving"} <=> peer[p].on \in Hosts
    /\ peer[p].on \in Hosts => ~host[peer[p].on].done /\ Heard(p, peer[p], host[peer[p].on])
    /\ peer[p].at = "gone" => Len(peer[p].got) = peer[p].sent /\ Following(0, peer[p].got)
    /\ call[p].at \in {"waiting", "woken"} => peer[p].on = NoHost

(* An entry of a peer is of the socket it has, or asks for its next one,    *)
(* which it does once at a time.                                            *)
Owns(h, hosted, sockets, calls) ==
    /\ \A i \in 1 .. Len(hosted.queue) :
        LET e == hosted.queue[i]
        IN  /\ e.kind \in {"frame", "left"} => e.by \in Peers /\ sockets[e.by].on = h
            /\ e.kind = "fetch" /\ e.by \in Peers =>
                 sockets[e.by].on = NoHost /\ calls[e.by].at = "queued" /\ calls[e.by].to = h[1]
    /\ \A i, j \in 1 .. Len(hosted.queue) :
        /\ hosted.queue[i].kind = "fetch" /\ hosted.queue[j].kind = "fetch"
        /\ hosted.queue[i].by \in Peers /\ hosted.queue[i].by = hosted.queue[j].by
        => i = j
    /\ \A j \in 1 .. Len(hosted.departures) : sockets[hosted.departures[j].peer].on = h

PInv == (\A p \in Peers : PeerOK(p)) /\ \A h \in Hosts : Owns(h, host[h], peer, call)

-----------------------------------------------------------------------------
(* Hosts as records *)

(* An empty place is a host with nothing to do. *)
LEMMA VacantOK == Vacant \in Hosted /\ Vacant.queue = <<>> /\ Vacant.closed /\ Vacant.done
BY LimitsAssumption DEF Vacant, Hosted, Alarms

(* Waiting for the lock puts an entry behind the others. *)
LEMMA QueuedIs ==
    ASSUME NEW X \in Hosted, NEW e \in Entries
    PROVE  /\ Queued(X, e) \in Hosted
           /\ Len(Queued(X, e).queue) = Len(X.queue) + 1
           /\ \A i \in 1 .. Len(X.queue) : Queued(X, e).queue[i] = X.queue[i]
           /\ Queued(X, e).queue[Len(X.queue) + 1] = e
           /\ Queued(X, e).queue # <<>>
           /\ Queued(X, e).closed = X.closed /\ Queued(X, e).done = X.done /\ Queued(X, e).timer = X.timer
           /\ Queued(X, e).departures = X.departures
<1>1. X.queue \in Seq(Entries)
  BY DEF Hosted
<1>2. /\ Append(X.queue, e) \in Seq(Entries) /\ Append(X.queue, e) # <<>>
      /\ Len(Append(X.queue, e)) = Len(X.queue) + 1
      /\ \A i \in 1 .. Len(X.queue) : Append(X.queue, e)[i] = X.queue[i]
      /\ Append(X.queue, e)[Len(X.queue) + 1] = e
  BY <1>1
<1>3. Queued(X, e) = [X EXCEPT !.queue = Append(X.queue, e)]
  BY DEF Queued
<1> QED BY <1>2, <1>3 DEF Hosted

(* The first entry done, the others move up. *)
LEMMA PoppedIs ==
    ASSUME NEW X \in Hosted, X.queue # <<>>
    PROVE  /\ Popped(X) \in Hosted /\ Head(X.queue) = X.queue[1] /\ Head(X.queue) \in Entries
           /\ Len(X.queue) \in Nat \ {0}
           /\ Len(Popped(X).queue) = Len(X.queue) - 1
           /\ \A i \in 1 .. Len(Popped(X).queue) : Popped(X).queue[i] = X.queue[i + 1]
           /\ Popped(X).closed = X.closed /\ Popped(X).done = X.done /\ Popped(X).timer = X.timer
           /\ Popped(X).departures = X.departures /\ Popped(X).retries = X.retries
<1>1. X.queue \in Seq(Entries)
  BY DEF Hosted
<1>2. /\ Head(X.queue) = X.queue[1] /\ Head(X.queue) \in Entries /\ Len(X.queue) \in Nat \ {0}
      /\ Tail(X.queue) \in Seq(Entries) /\ Len(Tail(X.queue)) = Len(X.queue) - 1
      /\ \A i \in 1 .. Len(Tail(X.queue)) : Tail(X.queue)[i] = X.queue[i + 1]
  BY <1>1, HeadTailProperties
<1>3. Popped(X) = [X EXCEPT !.queue = Tail(X.queue), !.running = FALSE]
  BY DEF Popped
<1> QED BY <1>2, <1>3 DEF Hosted

(* A host that nobody closes takes one entry more, and is woken as before. *)
LEMMA WorkingQueued ==
    ASSUME NEW X, Working(X), ~X.closed, NEW e \in Entries, e.kind # "close"
    PROVE  /\ Working(Queued(X, e)) /\ ~Queued(X, e).closed
           /\ \A row : Wakes(X, row) \/ e.kind = "alarm" => Wakes(Queued(X, e), row)
<1>1. X \in Hosted
  BY DEF Working
<1>2. Len(X.queue) \in Nat
  BY <1>1 DEF Hosted
<1> DEFINE Y == Queued(X, e)
<1>3. /\ Y \in Hosted /\ Len(Y.queue) = Len(X.queue) + 1 /\ Y.closed = X.closed /\ Y.done = X.done
      /\ Y.timer = X.timer
      /\ \A i \in 1 .. Len(X.queue) : Y.queue[i] = X.queue[i]
      /\ Y.queue[Len(X.queue) + 1] = e
  BY <1>1, QueuedIs
<1> HIDE DEF Y
<1>4. Working(Y) /\ ~Y.closed
  BY <1>2, <1>3 DEF Working
<1>5. ASSUME NEW row, Wakes(X, row) \/ e.kind = "alarm" PROVE Wakes(Y, row)
  BY <1>2, <1>3, <1>5 DEF Wakes
<1> QED BY <1>4, <1>5 DEF Y

(* An entry is done: the host goes on, and is woken as before unless it was its alarm. *)
LEMMA WorkingPopped ==
    ASSUME NEW X, Working(X), X.queue # <<>>, Head(X.queue).kind # "close"
    PROVE  /\ Working(Popped(X)) /\ Popped(X).closed = X.closed
           /\ Head(X.queue).kind # "alarm" => \A row : Wakes(X, row) => Wakes(Popped(X), row)
<1>1. X \in Hosted
  BY DEF Working
<1> DEFINE Y == Popped(X)
<1>2. /\ Y \in Hosted /\ Head(X.queue) = X.queue[1] /\ Len(X.queue) \in Nat \ {0}
      /\ Len(Y.queue) = Len(X.queue) - 1 /\ Y.closed = X.closed /\ Y.done = X.done /\ Y.timer = X.timer
      /\ \A i \in 1 .. Len(Y.queue) : Y.queue[i] = X.queue[i + 1]
  BY <1>1, PoppedIs
<1> HIDE DEF Y
<1>3. Working(Y)
  <2>1. ASSUME NEW i \in 1 .. Len(Y.queue), Y.queue[i].kind = "close"
        PROVE  Y.closed /\ i = Len(Y.queue)
    BY <1>2, <2>1 DEF Working
  <2>2. ASSUME Y.closed
        PROVE  Y.timer = "none" /\ Y.queue # <<>> /\ Y.queue[Len(Y.queue)].kind = "close"
    <3>1. X.queue[Len(X.queue)].kind = "close"
      BY <1>2, <2>2 DEF Working
    <3>2. Len(X.queue) # 1
      BY <1>2, <3>1
    <3>3. Len(Y.queue) \in 1 .. Len(Y.queue) /\ Len(Y.queue) + 1 = Len(X.queue)
      <4> DEFINE m == Len(X.queue)
                 n == Len(Y.queue)
      <4>1. m \in Nat /\ m # 0 /\ m # 1 /\ n = m - 1
        BY <1>2, <3>2
      <4> HIDE DEF m, n
      <4>2. n \in 1 .. n /\ n + 1 = m
        BY <4>1
      <4> QED BY <4>2 DEF m, n
    <3>4. Y.queue[Len(Y.queue)] = X.queue[Len(Y.queue) + 1]
      BY <1>2, <3>3
    <3> QED BY <1>2, <2>2, <3>1, <3>3, <3>4 DEF Working
  <2> QED BY <1>2, <2>1, <2>2 DEF Working
<1>4. ASSUME Head(X.queue).kind # "alarm", NEW row, Wakes(X, row) PROVE Wakes(Y, row)
  <2>1. ASSUME NEW i \in 1 .. Len(X.queue), X.queue[i].kind = "alarm"
        PROVE  \E j \in 1 .. Len(Y.queue) : Y.queue[j].kind = "alarm"
    <3>1. i - 1 \in 1 .. Len(Y.queue) /\ Y.queue[i - 1] = X.queue[i]
      BY <1>2, <1>4, <2>1
    <3> QED BY <2>1, <3>1
  <2> QED BY <1>2, <1>4, <2>1 DEF Wakes
<1> QED BY <1>2, <1>3, <1>4 DEF Y

(* close() is called: from here on nothing else gets into the queue. *)
LEMMA WorkingClosed ==
    ASSUME NEW X, Working(X), ~X.closed
    PROVE  Working(CloseCalled(X)) /\ CloseCalled(X).closed
<1> DEFINE Z == [X EXCEPT !.closed = TRUE, !.timer = "none"]
           e == Entry("close", NoHost, 0)
           Y == Queued(Z, e)
<1>1. X \in Hosted
  BY DEF Working
<1>2. /\ Z \in Hosted /\ Z.queue = X.queue /\ Z.closed /\ Z.timer = "none" /\ ~Z.done /\ Len(X.queue) \in Nat
  <2>1. "none" \in Alarms /\ X.queue \in Seq(Entries) /\ ~X.done
    BY <1>1 DEF Alarms, Hosted, Working
  <2>2. Len(X.queue) \in Nat
    BY <2>1
  <2>3. Z \in Hosted
    BY <1>1, <2>1 DEF Hosted
  <2> QED BY <1>1, <2>1, <2>2, <2>3 DEF Hosted
<1>3. e \in Entries /\ e.kind = "close"
  BY DEF Entry, Entries, EntryKinds
<1> HIDE DEF Z, e
<1>4. /\ Y \in Hosted /\ Len(Y.queue) = Len(X.queue) + 1 /\ Y.closed /\ ~Y.done /\ Y.timer = "none"
      /\ Y.queue # <<>>
      /\ \A i \in 1 .. Len(X.queue) : Y.queue[i] = X.queue[i]
      /\ Y.queue[Len(X.queue) + 1] = e
  BY <1>2, <1>3, QueuedIs
<1>5. CloseCalled(X) = Y
  BY DEF CloseCalled, Z, e
<1> HIDE DEF Y
<1>6. Working(Y)
  BY <1>2, <1>3, <1>4, SMTT(30) DEF Working
<1> QED BY <1>4, <1>5, <1>6

(* A timer armed from a row wakes the actor in time. *)
LEMMA ArmedOK ==
    ASSUME NEW X, Working(X), NEW row \in Alarms
    PROVE  /\ Working([X EXCEPT !.timer = Armed(X, row)])
           /\ Wakes([X EXCEPT !.timer = Armed(X, row)], row)
           /\ [X EXCEPT !.timer = Armed(X, row)].closed = X.closed
<1> DEFINE Y == [X EXCEPT !.timer = Armed(X, row)]
<1>1. Armed(X, row) \in Alarms /\ X \in Hosted
  BY DEF Armed, Working, Hosted
<1>2. /\ Y \in Hosted /\ Y.queue = X.queue /\ Y.closed = X.closed /\ Y.done = X.done /\ Y.timer = Armed(X, row)
  BY <1>1 DEF Hosted
<1> HIDE DEF Y
<1>3. Working(Y)
  BY <1>1, <1>2 DEF Working, Armed
<1>4. Wakes(Y, row)
  BY <1>1, <1>2 DEF Wakes, Armed, NoLater
<1> QED BY <1>2, <1>3, <1>4 DEF Y

(* A host just made. *)
LEMMA NewHostOK ==
    ASSUME HostTypes, NEW n \in Names
    PROVE  Working(NewHost(n)) /\ Wakes(NewHost(n), alarm[n]) /\ ~NewHost(n).closed
<1>1. alarm[n] \in Alarms
  BY DEF HostTypes
<1>2. Vacant \in Hosted /\ Vacant.queue = <<>>
  BY VacantOK
<1>3. /\ NewHost(n) \in Hosted /\ NewHost(n).queue = <<>> /\ ~NewHost(n).closed /\ ~NewHost(n).done
      /\ NewHost(n).timer = alarm[n]
  BY <1>1, <1>2 DEF NewHost, Hosted
<1> QED BY <1>3 DEF Working, Wakes, NoLater

-----------------------------------------------------------------------------
(* Kinds of steps *)

(* A host has a name and a slot. *)
LEMMA HostPair ==
    /\ \A h \in Hosts : h[1] \in Names /\ h[2] \in Slots /\ h = <<h[1], h[2]>>
    /\ \A n \in Names, i \in Slots : <<n, i>> \in Hosts /\ <<n, i>>[1] = n /\ <<n, i>>[2] = i
BY DEF Hosts

(* What is known of a host whose store is open: it is the only one of its name. *)
LEMMA KnownHost ==
    ASSUME HInv, NEW h \in Hosts, ~host[h].done
    PROVE  /\ host[h] \in Hosted /\ Working(host[h]) /\ Wakes(host[h], alarm[h[1]])
           /\ \A g \in Hosts : g[1] = h[1] /\ g # h => host[g] = Vacant
           /\ ~host[h].closed <=> resident[h[1]] = h[2]
<1>1. \A g \in Hosts : host[g].done => host[g] = Vacant
  BY DEF HInv, HostOK, Working
<1>2. \A g \in Hosts : g[1] = h[1] /\ g # h => host[g].done
  BY HostPair DEF HInv, OneHostPerStore
<1>3. host[h] # Vacant
  BY DEF Vacant
<1> QED BY <1>1, <1>2, <1>3 DEF HInv, HostTypes, HostOK

(* The host in memory is the one nobody closes; its store is open. *)
LEMMA InMemory ==
    ASSUME HInv, NEW h \in Hosts
    PROVE  /\ resident[h[1]] = h[2] => ~host[h].closed
           /\ resident[h[1]] # h[2] => host[h].closed
           /\ ~host[h].closed => ~host[h].done
           /\ host[h].done => host[h] = Vacant
<1>1. HostOK(h)
  BY DEF HInv
<1>2. host[h] = Vacant => host[h].closed
  BY VacantOK
<1>3. Working(host[h]) => ~host[h].done
  BY DEF Working
<1> QED BY <1>1, <1>2, <1>3 DEF HostOK

(* A step of one host that neither opens it nor calls its close. *)
LEMMA HostStep ==
    ASSUME HInv, NEW h \in Hosts, ~host[h].done, NEW X, Working(X), X.closed = host[h].closed,
           host' = [host EXCEPT ![h] = X], UNCHANGED namespaceVars,
           alarm' \in [Names -> Alarms], \A n \in Names : n # h[1] => alarm'[n] = alarm[n],
           Wakes(X, alarm'[h[1]]), ClientTypes'
    PROVE  HInv'
<1> USE DEF HInv
<1>1. X \in Hosted /\ ~X.done
  BY DEF Working
<1>2. \A g \in Hosts : host'[g] = IF g = h THEN X ELSE host[g]
  BY DEF HostTypes
<1>3. UNCHANGED <<resident, cold, heldAlarms, paused, pausing>>
  BY DEF namespaceVars
<1>4. HostTypes'
  BY <1>1, <1>3 DEF HostTypes
<1>5. \A g \in Hosts : (host'[g].done <=> host[g].done) /\ host'[g].closed = host[g].closed
  BY <1>1, <1>2
<1>6. ASSUME NEW g \in Hosts PROVE HostOK(g)'
  <2>1. CASE g = h
    <3>1. host'[g] = X
      BY <1>2, <2>1
    <3> QED BY <1>3, <1>5, <2>1, <3>1 DEF HostOK, Working, Wakes
  <2>2. CASE g # h /\ g[1] = h[1]
    <3>1. host'[g] = Vacant
      BY <1>2, <2>2, KnownHost
    <3> QED BY <1>3, <1>5, <3>1 DEF HostOK
  <2>3. CASE g # h /\ g[1] # h[1]
    <3>1. host'[g] = host[g] /\ alarm'[g[1]] = alarm[g[1]]
      BY <1>2, <2>3, HostPair
    <3> QED BY <1>3, <3>1 DEF HostOK, Working, Wakes
  <2> QED BY <2>1, <2>2, <2>3
<1>7. ASSUME NEW n \in Names PROVE NameOK(n)'
  <2>1. \A i \in Slots : (host[<<n, i>>].done)' <=> host[<<n, i>>].done
    BY <1>5, HostPair
  <2>2. CASE n = h[1]
    BY <1>3, <2>1, <2>2, HostPair DEF NameOK
  <2>3. CASE n # h[1]
    BY <1>3, <2>1, <2>3 DEF NameOK
  <2> QED BY <2>2, <2>3
<1>8. OneHostPerStore' /\ PausedIsStill' /\ (pausing => paused)'
  BY <1>3, <1>5, HostPair DEF OneHostPerStore, PausedIsStill
<1> QED BY <1>4, <1>6, <1>7, <1>8

(* A step that touches no host. *)
LEMMA HostsStay ==
    ASSUME HInv, UNCHANGED <<host, namespaceVars, alarm>>, ClientTypes'
    PROVE  HInv'
<1>1. UNCHANGED <<host, resident, cold, heldAlarms, paused, pausing, alarm>>
  BY DEF namespaceVars
<1>2. HostTypes'
  BY <1>1 DEF HInv, HostTypes
<1>3. \A h \in Hosts : HostOK(h)'
  BY <1>1 DEF HInv, HostOK, Working, Wakes
<1>4. \A n \in Names : NameOK(n)'
  BY <1>1 DEF HInv, NameOK
<1>5. OneHostPerStore' /\ PausedIsStill' /\ (pausing => paused)'
  BY <1>1 DEF HInv, OneHostPerStore, PausedIsStill
<1> QED BY <1>2, <1>3, <1>4, <1>5 DEF HInv

(* close() is called on the host in memory. *)
LEMMA EvictedOK ==
    ASSUME HInv, NEW h \in Hosts, resident[h[1]] = h[2], NEW X, Working(X), ~X.closed, Evicted(h, X),
           alarm' \in [Names -> Alarms], \A n \in Names : n # h[1] => alarm'[n] = alarm[n], ClientTypes'
    PROVE  HInv'
<1> USE DEF HInv
<1> DEFINE Y == CloseCalled(X)
<1>1. Working(Y) /\ Y.closed /\ ~Y.done /\ Y \in Hosted
  BY WorkingClosed DEF Working
<1>2. /\ host' = [host EXCEPT ![h] = Y] /\ resident' = [resident EXCEPT ![h[1]] = 0]
      /\ UNCHANGED <<cold, heldAlarms, paused, pausing>>
  BY DEF Evicted
<1> HIDE DEF Y
<1>3. ~host[h].closed /\ ~host[h].done
  BY InMemory
<1>4. \A g \in Hosts : host'[g] = IF g = h THEN Y ELSE host[g]
  BY <1>2 DEF HostTypes
<1>5. \A n \in Names : resident'[n] = IF n = h[1] THEN 0 ELSE resident[n]
  BY <1>2 DEF HostTypes
<1>6. HostTypes'
  BY <1>1, <1>2 DEF HostTypes
<1>7. \A g \in Hosts : host'[g].done <=> host[g].done
  BY <1>1, <1>3, <1>4
<1>8. ASSUME NEW g \in Hosts PROVE HostOK(g)'
  <2>1. CASE g[1] = h[1]
    <3>1. host'[g] = IF g = h THEN Y ELSE Vacant
      BY <1>3, <1>4, <2>1, KnownHost
    <3>2. resident'[g[1]] = 0 /\ 0 # g[2]
      BY <1>5, <2>1, HostPair DEF Slots
    <3>3. Wakes(Y, alarm'[g[1]])
      BY <1>1 DEF Wakes
    <3> QED BY <1>1, <3>1, <3>2, <3>3, VacantOK DEF HostOK, Working, Wakes
  <2>2. CASE g[1] # h[1]
    <3>1. host'[g] = host[g] /\ alarm'[g[1]] = alarm[g[1]] /\ resident'[g[1]] = resident[g[1]]
      BY <1>4, <1>5, <2>2, HostPair
    <3> QED BY <3>1 DEF HostOK, Working, Wakes
  <2> QED BY <2>1, <2>2
<1>9. ASSUME NEW n \in Names PROVE NameOK(n)'
  <2>1. \A i \in Slots : (host[<<n, i>>].done)' <=> host[<<n, i>>].done
    BY <1>7, HostPair
  <2>2. CASE n = h[1]
    BY <1>2, <1>3, <1>5, <2>1, <2>2, HostPair DEF NameOK
  <2>3. CASE n # h[1]
    BY <1>2, <1>5, <2>1, <2>3 DEF NameOK
  <2> QED BY <2>2, <2>3
<1>10. OneHostPerStore' /\ PausedIsStill' /\ (pausing => paused)'
  BY <1>2, <1>7, HostPair DEF OneHostPerStore, PausedIsStill
<1> QED BY <1>6, <1>8, <1>9, <1>10

(* The place of a host that is opened, or is in memory already: no other    *)
(* host of the name has its store open.                                     *)
LEMMA SlotOK ==
    ASSUME HInv, NEW n \in Names, Closing(n) = {}
    PROVE  /\ SlotFor(n) \in Slots
           /\ \A i \in Slots : i # SlotFor(n) => host[<<n, i>>] = Vacant
           /\ resident[n] # 0 => ~host[<<n, resident[n]>>].closed /\ ~host[<<n, resident[n]>>].done
           /\ resident[n] = 0 => \A i \in Slots : host[<<n, i>>] = Vacant
<1> USE DEF HInv
<1>1. resident[n] \in Slots \cup {0}
  BY DEF HostTypes
<1>2. CASE resident[n] # 0
  <2>1. ~host[<<n, resident[n]>>].closed /\ ~host[<<n, resident[n]>>].done
    BY <1>1, <1>2, HostPair, InMemory
  <2>2. \A i \in Slots : i # resident[n] => host[<<n, i>>] = Vacant
    BY <1>1, <1>2, <2>1, KnownHost, HostPair
  <2> QED BY <1>1, <1>2, <2>1, <2>2 DEF SlotFor
<1>3. CASE resident[n] = 0
  <2>1. ASSUME NEW i \in Slots PROVE host[<<n, i>>] = Vacant /\ host[<<n, i>>].done
    <3>1. host[<<n, i>>].closed
      <4>1. <<n, i>> \in Hosts /\ <<n, i>>[1] = n /\ <<n, i>>[2] = i
        BY HostPair
      <4>2. i # 0
        BY DEF Slots
      <4> QED BY <1>3, <4>1, <4>2, InMemory
    <3>2. host[<<n, i>>].done
      BY <3>1 DEF Closing
    <3> QED BY <3>2, HostPair DEF HostOK, Working
  <2>2. SlotFor(n) = CHOOSE i \in Slots : host[<<n, i>>].done
    BY <1>3 DEF SlotFor
  <2>3. 1 \in Slots /\ host[<<n, 1>>].done
    BY <2>1 DEF Slots
  <2>4. SlotFor(n) \in Slots
    BY <2>2, <2>3
  <2> QED BY <1>3, <2>1, <2>4
<1> QED BY <1>2, <1>3

(* A host is opened, or the one in memory goes on as Y. *)
LEMMA OpenOK ==
    ASSUME HInv, ~paused, NEW n \in Names, Closing(n) = {}, NEW Y, Working(Y), ~Y.closed, Wakes(Y, alarm[n]),
           Open(n, Y), UNCHANGED alarm, ClientTypes'
    PROVE  HInv'
<1> USE DEF HInv
<1> DEFINE s == SlotFor(n)
           h == <<n, s>>
<1>1. s \in Slots /\ \A i \in Slots : i # s => host[<<n, i>>] = Vacant
  BY SlotOK
<1>2. Y \in Hosted /\ ~Y.done
  BY DEF Working
<1>3. /\ host' = [host EXCEPT ![h] = Y] /\ resident' = [resident EXCEPT ![n] = s]
      /\ cold' = [cold EXCEPT ![n] = "none"] /\ UNCHANGED <<heldAlarms, paused, pausing>>
  BY DEF Open
<1> HIDE DEF s
<1>4. h \in Hosts /\ h[1] = n /\ h[2] = s
  BY <1>1, HostPair
<1>5. \A g \in Hosts : host'[g] = IF g = h THEN Y ELSE host[g]
  BY <1>3, <1>4 DEF HostTypes
<1>6. /\ \A m \in Names : resident'[m] = IF m = n THEN s ELSE resident[m]
      /\ \A m \in Names : cold'[m] = IF m = n THEN "none" ELSE cold[m]
  BY <1>3 DEF HostTypes
<1>7. HostTypes'
  BY <1>1, <1>2, <1>3, <1>4 DEF HostTypes, Alarms
<1>8. \A g \in Hosts : g[1] = n /\ g # h => host'[g] = Vacant /\ g[2] # s
  BY <1>1, <1>4, <1>5, HostPair
<1>9. ASSUME NEW g \in Hosts PROVE HostOK(g)'
  <2>1. CASE g = h
    BY <1>2, <1>4, <1>5, <1>6, <2>1 DEF HostOK, Working, Wakes
  <2>2. CASE g[1] = n /\ g # h
    BY <1>6, <1>8, <2>2, VacantOK DEF HostOK
  <2>3. CASE g[1] # n
    <3>1. host'[g] = host[g] /\ resident'[g[1]] = resident[g[1]] /\ g[1] \in Names
      BY <1>4, <1>5, <1>6, <2>3, HostPair
    <3> QED BY <3>1 DEF HostOK, Working, Wakes
  <2> QED BY <2>1, <2>2, <2>3
<1>10. ASSUME NEW m \in Names PROVE NameOK(m)'
  <2>1. CASE m = n
    BY <1>1, <1>2, <1>3, <1>4, <1>5, <1>6, <2>1 DEF NameOK
  <2>2. CASE m # n
    <3>1. \A i \in Slots : (host[<<m, i>>])' = host[<<m, i>>]
      BY <1>4, <1>5, <2>2, HostPair
    <3> QED BY <1>3, <1>6, <2>2, <3>1 DEF NameOK
  <2> QED BY <2>1, <2>2
<1>11. OneHostPerStore'
  <2> SUFFICES ASSUME NEW m \in Names, NEW i \in Slots, NEW j \in Slots,
                      ~(host[<<m, i>>].done)', ~(host[<<m, j>>].done)'
               PROVE  i = j
    BY DEF OneHostPerStore
  <2>1. CASE m = n
    BY <1>4, <1>8, <2>1, HostPair, VacantOK
  <2>2. CASE m # n
    <3>1. host'[<<m, i>>] = host[<<m, i>>] /\ host'[<<m, j>>] = host[<<m, j>>]
      BY <1>4, <1>5, <2>2, HostPair
    <3> QED BY <3>1 DEF OneHostPerStore
  <2> QED BY <2>1, <2>2
<1> QED BY <1>3, <1>7, <1>9, <1>10, <1>11 DEF PausedIsStill

-----------------------------------------------------------------------------
(* Calls and sockets keep their types *)

(* Hosts and peers call; "no host" is not one of them. *)
LEMMA NoHostIsNone == NoHost \notin Hosts /\ Hosts \subseteq Callers /\ Peers \subseteq Callers
BY DEF NoHost, Hosts, Callers

(* A caller that is told its answer. *)
LEMMA ToldTyped ==
    ASSUME ClientTypes, NEW c, NEW answer \in {"answered", "refused"}, Told(c, answer), UNCHANGED peer
    PROVE  ClientTypes'
<1> DEFINE told == IF c \in Hosts THEN [call[c] EXCEPT !.at = answer] ELSE NoCall
<1>1. call' = [call EXCEPT ![c] = told]
  BY DEF Told
<1>2. c \in Callers => told \in [to : Names \cup {""}, at : CallStates] /\ told.at \notin {"waiting", "woken"}
  BY DEF ClientTypes, NoCall, CallStates, SocketTypes
<1> HIDE DEF told
<1> QED BY <1>1, <1>2 DEF ClientTypes, SocketTypes

(* A call that is queued or made to wait. *)
LEMMA AskedTyped ==
    ASSUME ClientTypes, NEW c, NEW n \in Names, NEW at \in {"waiting", "queued"},
           call' = [call EXCEPT ![c] = [to |-> n, at |-> at]], UNCHANGED peer
    PROVE  ClientTypes'
BY DEF ClientTypes, CallStates, SocketTypes

(* A caller that asks, whichever way fetch goes. *)
LEMMA FetchTyped ==
    ASSUME ClientTypes, NEW c, NEW n \in Names, Fetch(c, n), UNCHANGED peer
    PROVE  ClientTypes'
BY ToldTyped, AskedTyped DEF Fetch

-----------------------------------------------------------------------------
(* Every step *)

(* A host's record with the same queue, timer and place. *)
LEMMA WorkingSame ==
    ASSUME NEW X, Working(X), NEW Y \in Hosted, Y.queue = X.queue, Y.timer = X.timer,
           Y.closed = X.closed, Y.done = X.done
    PROVE  Working(Y) /\ \A row : Wakes(X, row) => Wakes(Y, row)
BY DEF Working, Wakes

(* fetch: refused, made to wait, or into the queue of a host. *)
LEMMA FetchOK ==
    ASSUME HInv, NEW c \in Callers, NEW n \in Names, Fetch(c, n), UNCHANGED <<alarm, peer>>
    PROVE  HInv'
<1> DEFINE e == Entry("fetch", c, 0)
           Y == [Queued(HostFor(n), e) EXCEPT !.released = FALSE]
<1>1. ClientTypes'
  BY FetchTyped DEF HInv
<1>2. CASE UNCHANGED <<host, namespaceVars>>
  BY <1>1, <1>2, HostsStay
<1>3. CASE ~paused /\ Closing(n) = {} /\ Open(n, Y)
  <2>1. e \in Entries /\ e.kind # "close"
    BY DEF Entry, Entries, EntryKinds
  <2>2. Working(HostFor(n)) /\ ~HostFor(n).closed /\ Wakes(HostFor(n), alarm[n])
    <3>1. CASE resident[n] = 0
      BY <3>1, NewHostOK DEF HostFor, HInv
    <3>2. CASE resident[n] # 0
      <4>1. <<n, resident[n]>> \in Hosts /\ <<n, resident[n]>>[1] = n
        BY <3>2, HostPair DEF HInv, HostTypes
      <4>2. ~host[<<n, resident[n]>>].closed /\ ~host[<<n, resident[n]>>].done
        BY <1>3, <3>2, SlotOK
      <4>3. Working(host[<<n, resident[n]>>]) /\ Wakes(host[<<n, resident[n]>>], alarm[n])
        BY <4>1, <4>2, KnownHost
      <4> QED BY <3>2, <4>2, <4>3 DEF HostFor
    <3> QED BY <3>1, <3>2
  <2> HIDE DEF e
  <2>3. Working(Queued(HostFor(n), e)) /\ ~Queued(HostFor(n), e).closed /\ Wakes(Queued(HostFor(n), e), alarm[n])
    BY <2>1, <2>2, WorkingQueued
  <2>4. /\ Y \in Hosted /\ Y.queue = Queued(HostFor(n), e).queue /\ Y.timer = Queued(HostFor(n), e).timer
        /\ Y.closed = Queued(HostFor(n), e).closed /\ Y.done = Queued(HostFor(n), e).done
    BY <2>3 DEF Working, Hosted
  <2> HIDE DEF Y
  <2>5. Working(Y) /\ Wakes(Y, alarm[n]) /\ ~Y.closed
    BY <2>3, <2>4, WorkingSame
  <2> QED BY <1>1, <1>3, <2>5, OpenOK
<1> QED BY <1>2, <1>3 DEF Fetch

(* A client asks for its actor. *)
LEMMA RequestOK ==
    ASSUME HInv, NEW c \in Peers \cup Requests, Request(c)
    PROVE  HInv'
<1>1. c \in Callers /\ Door[c] \in Names
  BY NamesAssumption DEF Callers
<1> QED BY <1>1, FetchOK DEF Request

(* A call the close has woken asks again. *)
LEMMA RetryOK ==
    ASSUME HInv, NEW c \in Callers, Retry(c)
    PROVE  HInv'
<1>1. call[c].to \in Names
  BY DEF HInv, ClientTypes, Retry, SocketTypes
<1> QED BY <1>1, FetchOK DEF Retry

(* A turn asks for another document. *)
LEMMA TurnCallsOK ==
    ASSUME HInv, NEW h \in Hosts, NEW m \in Names, TurnCalls(h, m)
    PROVE  HInv'
BY FetchOK, NoHostIsNone DEF TurnCalls

(* The idle sweep closes a host. *)
LEMMA EvictIdleOK ==
    ASSUME HInv, NEW n \in Names, EvictIdle(n)
    PROVE  HInv'
<1> DEFINE h == <<n, resident[n]>>
<1>1. h \in Hosts /\ h[1] = n /\ resident[h[1]] = h[2]
  BY HostPair DEF EvictIdle, HInv, HostTypes
<1>2. Evicted(h, host[h]) /\ UNCHANGED <<alarm, call, peer>>
  BY DEF EvictIdle
<1> HIDE DEF h
<1>3. ~host[h].closed /\ ~host[h].done
  BY <1>1, InMemory
<1>4. Working(host[h])
  BY <1>1, <1>3, KnownHost
<1>5. ClientTypes' /\ alarm' \in [Names -> Alarms]
  BY <1>2 DEF HInv, HostTypes, ClientTypes, SocketTypes
<1> QED BY <1>1, <1>2, <1>3, <1>4, <1>5, EvictedOK

(* Whoever opened an actor lets go of it: it closes, or stays for its alarm. *)
LEMMA ReleaseOK ==
    ASSUME HInv, NEW n \in Names, Release(n)
    PROVE  HInv'
<1> DEFINE h == <<n, resident[n]>>
           X == [host[h] EXCEPT !.released = TRUE]
<1>1. h \in Hosts /\ h[1] = n /\ resident[h[1]] = h[2]
  BY HostPair DEF Release, HInv, HostTypes
<1>2. /\ Evicted(h, host[h]) \/ (host' = [host EXCEPT ![h].released = TRUE] /\ UNCHANGED namespaceVars)
      /\ UNCHANGED <<alarm, call, peer>>
  BY DEF Release
<1> HIDE DEF h
<1>3. ~host[h].closed /\ ~host[h].done
  BY <1>1, InMemory
<1>4. Working(host[h]) /\ Wakes(host[h], alarm[h[1]]) /\ host[h] \in Hosted
  BY <1>1, <1>3, KnownHost
<1>5. ClientTypes' /\ alarm' \in [Names -> Alarms] /\ host \in [Hosts -> Hosted]
  BY <1>2 DEF HInv, HostTypes, ClientTypes, SocketTypes
<1>6. CASE Evicted(h, host[h])
  BY <1>1, <1>2, <1>3, <1>4, <1>5, <1>6, EvictedOK
<1>7. CASE host' = [host EXCEPT ![h].released = TRUE] /\ UNCHANGED namespaceVars
  <2>1. host' = [host EXCEPT ![h] = X]
    BY <1>7
  <2>2. X \in Hosted /\ X.queue = host[h].queue /\ X.timer = host[h].timer /\ X.closed = host[h].closed
        /\ X.done = host[h].done
    BY <1>4 DEF Hosted
  <2> HIDE DEF X
  <2>3. Working(X) /\ Wakes(X, alarm[h[1]])
    BY <1>4, <2>2, WorkingSame
  <2> QED BY <1>1, <1>2, <1>3, <1>5, <1>7, <2>1, <2>2, <2>3, HostStep
<1> QED BY <1>2, <1>6, <1>7

(* Whoever runs has its store open, and only its own host is of its name. *)
LEMMA RunningOK ==
    ASSUME HInv, NEW h \in Hosts, NEW kind, Running(h, kind)
    PROVE  /\ ~host[h].done /\ host[h] \in Hosted /\ host[h].queue # <<>> /\ Head(host[h].queue).kind = kind
           /\ Working(host[h]) /\ Wakes(host[h], alarm[h[1]])
<1>1. host[h].queue # <<>> /\ Head(host[h].queue).kind = kind
  BY DEF Running
<1>2. ~host[h].done
  BY <1>1, InMemory, VacantOK
<1> QED BY <1>1, <1>2, KnownHost

(* A handler returns, the alarm row as it was or not. *)
LEMMA HandledOK ==
    ASSUME HInv, NEW h \in Hosts, ~host[h].done, NEW X, Working(X), X.closed = host[h].closed,
           Wakes(X, alarm[h[1]]), Handled(h, X), UNCHANGED namespaceVars, ClientTypes'
    PROVE  HInv'
<1>1. alarm \in [Names -> Alarms]
  BY DEF HInv, HostTypes
<1>2. CASE host' = [host EXCEPT ![h] = X] /\ UNCHANGED alarm
  BY <1>1, <1>2, HostStep
<1>3. ASSUME NEW row \in Alarms, alarm' = [alarm EXCEPT ![h[1]] = row],
             host' = [host EXCEPT ![h] = [X EXCEPT !.timer = Armed(X, row)]]
      PROVE  HInv'
  <2> DEFINE Y == [X EXCEPT !.timer = Armed(X, row)]
  <2>1. Working(Y) /\ Wakes(Y, row) /\ Y.closed = host[h].closed
    BY ArmedOK
  <2>2. host' = [host EXCEPT ![h] = Y]
    BY <1>3
  <2> HIDE DEF Y
  <2>3. h[1] \in Names /\ alarm' \in [Names -> Alarms] /\ alarm'[h[1]] = row
        /\ \A n \in Names : n # h[1] => alarm'[n] = alarm[n]
    BY <1>1, <1>3, HostPair
  <2> QED BY <2>1, <2>2, <2>3, HostStep
<1> QED BY <1>2, <1>3 DEF Handled

(* What a frame, a departure or a request leaves of its host. *)
LEMMA PoppedHandledOK ==
    ASSUME HInv, NEW h \in Hosts, NEW kind \in {"fetch", "frame", "left"}, Running(h, kind),
           Handled(h, Popped(host[h])), UNCHANGED namespaceVars, ClientTypes'
    PROVE  HInv'
<1> DEFINE X == Popped(host[h])
<1>1. /\ ~host[h].done /\ host[h] \in Hosted /\ host[h].queue # <<>> /\ Head(host[h].queue).kind = kind
      /\ Working(host[h]) /\ Wakes(host[h], alarm[h[1]])
  BY RunningOK
<1>2. Working(X) /\ X.closed = host[h].closed /\ Wakes(X, alarm[h[1]])
  BY <1>1, WorkingPopped
<1> HIDE DEF X
<1> QED BY <1>1, <1>2, HandledOK DEF X

(* A socket just opened: nothing sent, nothing heard. *)
LEMMA SocketIs ==
    ASSUME NEW h \in Hosts \cup {NoHost}, NEW at \in PeerStates
    PROVE  LET s == [NoSocket EXCEPT !.on = h, !.at = at]
           IN  /\ s \in SocketTypes
               /\ s.on = h /\ s.at = at /\ s.sent = 0 /\ s.got = <<>> /\ s.held = <<>>
<1>1. /\ NoSocket \in SocketTypes
      /\ NoSocket.sent = 0 /\ NoSocket.got = <<>> /\ NoSocket.held = <<>>
  BY DEF NoSocket, PeerStates, SocketTypes
<1> QED BY <1>1 DEF SocketTypes

(* A request's handler returns. *)
LEMMA RunFetchOK ==
    ASSUME HInv, NEW h \in Hosts, RunFetch(h)
    PROVE  HInv'
<1> DEFINE c == Current(h).by
           told == IF c \in Hosts THEN [call[c] EXCEPT !.at = "answered"] ELSE NoCall
           socket == [NoSocket EXCEPT !.on = h, !.at = "on"]
<1>1. /\ call' = [call EXCEPT ![c] = told]
      /\ peer' = IF c \in Peers THEN [peer EXCEPT ![c] = socket] ELSE peer
  BY DEF RunFetch, Told
<1>2. c \in Callers => told \in [to : Names \cup {""}, at : CallStates] /\ told.at \notin {"waiting", "woken"}
  <2>1. c \in Callers => call[c] \in [to : Names \cup {""}, at : CallStates]
    BY DEF HInv, ClientTypes, SocketTypes
  <2> HIDE DEF c
  <2> QED BY <2>1 DEF NoCall, CallStates
<1>3. socket \in SocketTypes
  <2>1. h \in Hosts \cup {NoHost} /\ "on" \in PeerStates
    BY DEF PeerStates, SocketTypes
  <2> QED BY ONLY <2>1, SocketIs
<1> HIDE DEF told, socket, c
<1>4. ClientTypes'
  BY <1>1, <1>2, <1>3 DEF HInv, ClientTypes, SocketTypes
<1> QED BY <1>4, PoppedHandledOK DEF RunFetch

(* What a peer has been heard of grows by numbers. *)
LEMMA GotTyped ==
    ASSUME HInv, NEW h \in Hosts, host[h].queue # <<>>
    PROVE  Current(h).k \in Nat
<1>1. host[h] \in Hosted
  BY DEF HInv, HostTypes
<1> QED BY <1>1, PoppedIs DEF Current, Entries

(* A frame's handler returns. *)
LEMMA RunFrameOK ==
    ASSUME HInv, NEW h \in Hosts, RunFrame(h)
    PROVE  HInv'
<1> DEFINE p == Current(h).by
           k == Current(h).k
<1>1. k \in Nat
  BY GotTyped DEF RunFrame, Running
<1>2. peer' = [peer EXCEPT ![p].got = Append(@, k)] /\ call' = [call EXCEPT ![h] = NoCall]
  BY DEF RunFrame
<1> HIDE DEF p, k
<1>3. ASSUME p \in Peers PROVE Append(peer[p].got, k) \in Seq(Nat)
  <2>1. peer[p].got \in Seq(Nat)
    BY <1>3 DEF HInv, ClientTypes, SocketTypes
  <2> QED BY <1>1, <2>1, AppendProperties
<1>4. ClientTypes'
  BY <1>2, <1>3 DEF HInv, ClientTypes, NoCall, CallStates, SocketTypes
<1> QED BY <1>4, PoppedHandledOK DEF RunFrame

(* A departure is of a peer, or of nobody. *)
LEMMA GoneTyped ==
    ASSUME ClientTypes, NEW p, NEW frames \in Seq(Nat), peer' = Gone(p, frames), UNCHANGED call
    PROVE  ClientTypes'
<1>1. ASSUME p \in Peers PROVE peer[p].got \o frames \in Seq(Nat)
  <2>1. peer[p].got \in Seq(Nat)
    BY <1>1 DEF ClientTypes, SocketTypes
  <2> QED BY <2>1, ConcatProperties
<1>2. peer' = [peer EXCEPT ![p] = [peer[p] EXCEPT !.on = NoHost, !.at = "gone", !.got = peer[p].got \o frames]]
  BY DEF Gone
<1>3. p \in Peers => [peer[p] EXCEPT !.on = NoHost, !.at = "gone", !.got = peer[p].got \o frames]
                       \in SocketTypes
  BY <1>1 DEF ClientTypes, PeerStates, SocketTypes
<1> QED BY <1>2, <1>3, ZenonT(60) DEF ClientTypes, SocketTypes

(* A departure's handler returns. *)
LEMMA RunLeftOK ==
    ASSUME HInv, NEW h \in Hosts, RunLeft(h)
    PROVE  HInv'
<1>1. <<>> \in Seq(Nat) /\ ClientTypes
  BY DEF HInv
<1>2. ClientTypes'
  BY <1>1, GoneTyped DEF RunLeft
<1> QED BY <1>2, PoppedHandledOK DEF RunLeft

(* close() handles a departure it kept. *)
LEMMA RunDepartureOK ==
    ASSUME HInv, NEW h \in Hosts, RunDeparture(h)
    PROVE  HInv'
<1> DEFINE left == Head(host[h].departures)
           X == [host[h] EXCEPT !.departures = Tail(@)]
<1>1. /\ ~host[h].done /\ host[h] \in Hosted /\ Working(host[h]) /\ Wakes(host[h], alarm[h[1]])
      /\ host[h].departures # <<>>
  BY RunningOK DEF RunDeparture
<1>2. host[h].departures \in Seq(Departures)
  BY <1>1 DEF Hosted
<1>3. left \in Departures /\ Tail(host[h].departures) \in Seq(Departures)
  BY <1>1, <1>2
<1>4. peer' = Gone(left.peer, left.frames) /\ left.frames \in Seq(Nat) /\ UNCHANGED <<call, namespaceVars>>
      /\ Handled(h, X)
  BY <1>3 DEF RunDeparture, Departures
<1>5. /\ X \in Hosted /\ X.queue = host[h].queue /\ X.timer = host[h].timer
      /\ X.closed = host[h].closed /\ X.done = host[h].done
  BY <1>1, <1>3 DEF Hosted
<1> HIDE DEF X, left
<1>6. Working(X) /\ Wakes(X, alarm[h[1]])
  BY <1>1, <1>5, WorkingSame
<1>7. ClientTypes'
  BY <1>4, GoneTyped DEF HInv
<1> QED BY <1>1, <1>4, <1>5, <1>6, <1>7, HandledOK

(* afterAlarm: the host goes on, or closes when it was opened for this alarm. *)
LEMMA AfterAlarmOK ==
    ASSUME HInv, NEW h \in Hosts, ~host[h].done, NEW X, Working(X), X.closed = host[h].closed,
           AfterAlarm(h, X), alarm' \in [Names -> Alarms], \A n \in Names : n # h[1] => alarm'[n] = alarm[n],
           Wakes(X, alarm'[h[1]]), UNCHANGED <<call, peer>>
    PROVE  HInv'
<1>1. ClientTypes'
  BY DEF HInv, ClientTypes, SocketTypes
<1>2. CASE host' = [host EXCEPT ![h] = X] /\ UNCHANGED namespaceVars
  BY <1>1, <1>2, HostStep
<1>3. CASE resident[h[1]] = h[2] /\ ~X.closed /\ Evicted(h, X)
  BY <1>1, <1>3, EvictedOK
<1> QED BY <1>2, <1>3 DEF AfterAlarm

(* The alarm's entry done, the timer armed from the row that is left. *)
LEMMA RearmedOK ==
    ASSUME HInv, NEW h \in Hosts, Running(h, "alarm"), NEW retries \in 0 .. ALARM_RETRY_LIMIT, NEW row \in Alarms
    PROVE  LET popped == [Popped(host[h]) EXCEPT !.retries = retries]
               X == [popped EXCEPT !.timer = Armed(popped, row)]
           IN  Working(X) /\ X.closed = host[h].closed /\ Wakes(X, row)
<1> DEFINE Y == Popped(host[h])
           popped == [Y EXCEPT !.retries = retries]
<1>1. /\ host[h] \in Hosted /\ host[h].queue # <<>> /\ Head(host[h].queue).kind = "alarm" /\ Working(host[h])
  BY RunningOK
<1>2. Working(Y) /\ Y.closed = host[h].closed /\ Y \in Hosted
  BY <1>1, WorkingPopped DEF Working
<1> HIDE DEF Y
<1>3. popped \in Hosted /\ popped.queue = Y.queue /\ popped.timer = Y.timer /\ popped.closed = Y.closed
      /\ popped.done = Y.done
  BY <1>2 DEF Hosted
<1> HIDE DEF popped
<1>4. Working(popped)
  BY <1>2, <1>3, WorkingSame
<1> QED BY <1>2, <1>3, <1>4, ArmedOK DEF popped, Y

(* An alarm's entry reaches the head of the queue: its handler starts, or   *)
(* the row says it is not due any more.                                     *)
LEMMA RunAlarmOK ==
    ASSUME HInv, NEW h \in Hosts, RunAlarm(h)
    PROVE  HInv'
<1>1. /\ ~host[h].done /\ host[h] \in Hosted /\ host[h].queue # <<>> /\ Head(host[h].queue).kind = "alarm"
      /\ Working(host[h]) /\ Wakes(host[h], alarm[h[1]])
  BY RunningOK DEF RunAlarm
<1>2. UNCHANGED <<call, peer>> /\ alarm \in [Names -> Alarms] /\ h[1] \in Names
  BY HostPair DEF RunAlarm, HInv, HostTypes
<1>3. CASE ~host[h].closed /\ alarm[h[1]] = "soon"
  <2> DEFINE X == [host[h] EXCEPT !.running = TRUE]
  <2>1. /\ host' = [host EXCEPT ![h] = X] /\ UNCHANGED namespaceVars
        /\ alarm' = [alarm EXCEPT ![h[1]] = "none"]
    BY <1>3 DEF RunAlarm
  <2>2. /\ X \in Hosted /\ X.queue = host[h].queue /\ X.timer = host[h].timer
        /\ X.closed = host[h].closed /\ X.done = host[h].done
    BY <1>1 DEF Hosted
  <2> HIDE DEF X
  <2>3. Working(X) /\ X.closed = host[h].closed
    BY <1>1, <2>2, WorkingSame
  <2>4. /\ alarm' \in [Names -> Alarms] /\ \A n \in Names : n # h[1] => alarm'[n] = alarm[n]
        /\ alarm'[h[1]] = "none"
    BY <1>2, <2>1 DEF Alarms
  <2>5. ClientTypes' /\ Wakes(X, alarm'[h[1]])
    BY <1>2, <2>4 DEF HInv, ClientTypes, Wakes, SocketTypes
  <2> QED BY <1>1, <2>1, <2>3, <2>4, <2>5, HostStep
<1>4. CASE host[h].closed \/ alarm[h[1]] # "soon"
  <2> DEFINE Y == Popped(host[h])
             X == IF alarm[h[1]] = "later" THEN [Y EXCEPT !.timer = Armed(Y, "later")] ELSE Y
  <2>1. UNCHANGED alarm /\ AfterAlarm(h, X)
    BY <1>4 DEF RunAlarm
  <2>2. Working(Y) /\ Y.closed = host[h].closed
    BY <1>1, WorkingPopped
  <2>3. Working(X) /\ X.closed = host[h].closed /\ Wakes(X, alarm[h[1]])
    <3> HIDE DEF Y
    <3>1. CASE alarm[h[1]] = "later"
      <4>1. X = [Y EXCEPT !.timer = Armed(Y, "later")] /\ "later" \in Alarms
        BY <3>1 DEF Alarms, Dues
      <4> HIDE DEF X
      <4> QED BY <2>2, <3>1, <4>1, ArmedOK
    <3>2. CASE alarm[h[1]] # "later"
      <4>1. X = Y /\ (host[h].closed \/ alarm[h[1]] = "none")
        BY <1>2, <1>4, <3>2 DEF Alarms, Dues
      <4> HIDE DEF X
      <4> QED BY <2>2, <4>1 DEF Wakes
    <3> QED BY <3>1, <3>2
  <2> HIDE DEF X, Y
  <2> QED BY <1>1, <1>2, <2>1, <2>3, AfterAlarmOK
<1> QED BY <1>3, <1>4

(* The handler of an alarm has returned or thrown: the row it leaves.       *)
LEMMA AlarmEndsOK ==
    ASSUME HInv, NEW h \in Hosts, Running(h, "alarm"), NEW row \in Alarms,
           NEW retries \in 0 .. ALARM_RETRY_LIMIT, alarm' = [alarm EXCEPT ![h[1]] = row],
           AfterAlarm(h, [[Popped(host[h]) EXCEPT !.retries = retries]
                            EXCEPT !.timer = Armed([Popped(host[h]) EXCEPT !.retries = retries], row)]),
           UNCHANGED <<call, peer>>
    PROVE  HInv'
<1> DEFINE popped == [Popped(host[h]) EXCEPT !.retries = retries]
           X == [popped EXCEPT !.timer = Armed(popped, row)]
<1>1. Working(X) /\ X.closed = host[h].closed /\ Wakes(X, row)
  BY RearmedOK
<1>2. AfterAlarm(h, X) /\ ~host[h].done
  BY RunningOK
<1> HIDE DEF X, popped
<1>3. /\ alarm' \in [Names -> Alarms] /\ \A n \in Names : n # h[1] => alarm'[n] = alarm[n]
      /\ alarm'[h[1]] = row
  BY HostPair DEF HInv, HostTypes
<1> QED BY <1>1, <1>2, <1>3, AfterAlarmOK

(* The alarm's handler returns. *)
LEMMA AlarmReturnsOK ==
    ASSUME HInv, NEW h \in Hosts, AlarmReturns(h)
    PROVE  HInv'
<1>1. 0 \in 0 .. ALARM_RETRY_LIMIT
  BY LimitsAssumption
<1> QED BY <1>1, AlarmEndsOK DEF AlarmReturns

(* The alarm's handler throws. *)
LEMMA AlarmThrowsOK ==
    ASSUME HInv, NEW h \in Hosts, AlarmThrows(h)
    PROVE  HInv'
<1>1. Running(h, "alarm") /\ UNCHANGED <<call, peer>>
  BY DEF AlarmThrows
<1>2. /\ Popped(host[h]).retries = host[h].retries /\ host[h].retries \in 0 .. ALARM_RETRY_LIMIT
  <2>1. host[h] \in Hosted /\ host[h].queue # <<>>
    BY <1>1, RunningOK
  <2> QED BY <2>1, PoppedIs DEF Hosted
<1>3. PICK set \in Alarms :
        LET again == set = "none" /\ host[h].retries < ALARM_RETRY_LIMIT
            row == IF again THEN "later" ELSE set
            popped == [Popped(host[h]) EXCEPT !.retries = IF again THEN @ + 1 ELSE @]
        IN  /\ alarm' = [alarm EXCEPT ![h[1]] = row]
            /\ AfterAlarm(h, [popped EXCEPT !.timer = Armed(popped, row)])
  BY DEF AlarmThrows
<1> DEFINE again == set = "none" /\ host[h].retries < ALARM_RETRY_LIMIT
           row == IF again THEN "later" ELSE set
           retries == IF again THEN Popped(host[h]).retries + 1 ELSE Popped(host[h]).retries
<1>4. row \in Alarms
  BY DEF Alarms, Dues
<1>5. retries \in 0 .. ALARM_RETRY_LIMIT
  BY <1>2, LimitsAssumption
<1>6. [Popped(host[h]) EXCEPT !.retries = IF again THEN @ + 1 ELSE @] = [Popped(host[h]) EXCEPT !.retries = retries]
  OBVIOUS
<1>7. /\ alarm' = [alarm EXCEPT ![h[1]] = row]
      /\ AfterAlarm(h, [[Popped(host[h]) EXCEPT !.retries = retries]
                          EXCEPT !.timer = Armed([Popped(host[h]) EXCEPT !.retries = retries], row)])
  BY <1>3, <1>6
<1> HIDE DEF row, retries, again
<1> QED BY <1>1, <1>4, <1>5, <1>7, AlarmEndsOK

(* A timer fires: its alarm waits for the lock. *)
LEMMA TimerFiresOK ==
    ASSUME HInv, NEW h \in Hosts, TimerFires(h)
    PROVE  HInv'
<1> DEFINE Z == [host[h] EXCEPT !.timer = "none"]
           e == Entry("alarm", NoHost, 0)
           X == Queued(Z, e)
<1>1. ~host[h].done
  BY InMemory DEF TimerFires, Vacant
<1>2. host[h] \in Hosted /\ Working(host[h]) /\ host[h].timer = "soon"
  BY <1>1, KnownHost DEF TimerFires
<1>3. ~host[h].closed
  BY <1>2 DEF Working
<1>4. /\ host' = [host EXCEPT ![h] = X] /\ UNCHANGED namespaceVars /\ alarm' = alarm /\ UNCHANGED <<call, peer>>
  BY DEF TimerFires
<1>5. /\ Z \in Hosted /\ Z.queue = host[h].queue /\ Z.closed = host[h].closed /\ Z.done = host[h].done
      /\ Z.timer = "none"
  BY <1>2 DEF Hosted, Alarms
<1>6. e \in Entries /\ e.kind = "alarm"
  BY DEF Entry, Entries, EntryKinds
<1> HIDE DEF Z, e
<1>7. Working(Z) /\ ~Z.closed
  BY <1>2, <1>3, <1>5 DEF Working
<1>8. X.closed \in BOOLEAN /\ host[h].closed \in BOOLEAN /\ ~X.closed
  BY <1>2, <1>5, <1>6, <1>7, QueuedIs, WorkingQueued DEF Hosted, Working
<1>9. Working(X) /\ X.closed = host[h].closed /\ Wakes(X, alarm[h[1]])
  BY <1>8, <1>3, <1>6, <1>7, WorkingQueued
<1> HIDE DEF X
<1>10. ClientTypes' /\ alarm' \in [Names -> Alarms]
  BY <1>4 DEF HInv, HostTypes, ClientTypes, SocketTypes
<1> QED BY <1>1, <1>4, <1>9, <1>10, HostStep

(* A cold timer fires: nobody has the store open, so it is opened. *)
LEMMA ColdFiresOK ==
    ASSUME HInv, NEW n \in Names, ColdFires(n)
    PROVE  HInv'
<1> DEFINE Y == [NewHost(n) EXCEPT !.released = TRUE]
<1>1. ~paused /\ \A i \in Slots : host[<<n, i>>].done
  BY DEF HInv, NameOK, ColdFires
<1>2. Closing(n) = {}
  BY <1>1 DEF Closing
<1>3. resident[n] = 0
  BY <1>1, <1>2, SlotOK DEF HInv, HostTypes
<1>4. Working(NewHost(n)) /\ Wakes(NewHost(n), alarm[n]) /\ ~NewHost(n).closed
  BY NewHostOK DEF HInv
<1>5. Open(n, Y) /\ UNCHANGED alarm /\ UNCHANGED <<call, peer>> /\ ~paused
  BY <1>1, <1>3 DEF ColdFires, HostFor
<1>6. /\ Y \in Hosted /\ Y.queue = NewHost(n).queue /\ Y.timer = NewHost(n).timer
      /\ Y.closed = NewHost(n).closed /\ Y.done = NewHost(n).done
  BY <1>4 DEF Working, Hosted
<1> HIDE DEF Y
<1>7. Working(Y) /\ Wakes(Y, alarm[n]) /\ ~Y.closed
  BY <1>4, <1>6, WorkingSame
<1>8. ClientTypes'
  BY <1>5 DEF HInv, ClientTypes, SocketTypes
<1> QED BY ONLY HInv, <1>2, <1>5, <1>7, <1>8, OpenOK, n \in Names

(* close() comes last: what it leaves is an empty place. *)
LEMMA EmptyTail ==
    ASSUME NEW h \in Hosts, HInv, Running(h, "close")
    PROVE  /\ Len(host[h].queue) = 1 /\ Tail(host[h].queue) = <<>> /\ host[h].closed /\ ~host[h].done
           /\ [Vacant EXCEPT !.queue = Tail(host[h].queue)] = Vacant
<1>1. /\ ~host[h].done /\ host[h] \in Hosted /\ Working(host[h]) /\ host[h].queue # <<>>
      /\ Head(host[h].queue).kind = "close"
  BY RunningOK
<1>2. host[h].queue \in Seq(Entries)
  BY <1>1 DEF Hosted
<1>3. Head(host[h].queue) = host[h].queue[1] /\ Len(host[h].queue) \in Nat \ {0}
  BY <1>1, <1>2, HeadTailProperties
<1>4. Len(host[h].queue) = 1 /\ host[h].closed
  <2>1. 1 \in 1 .. Len(host[h].queue) /\ host[h].queue[1].kind = "close"
    BY <1>1, <1>3
  <2> QED BY <1>1, <2>1 DEF Working
<1>5. Tail(host[h].queue) \in Seq(Entries) /\ Len(Tail(host[h].queue)) = 0
  BY <1>1, <1>2, <1>4, HeadTailProperties
<1>6. Tail(host[h].queue) = <<>>
  BY <1>5, EmptySeq
<1>7. [Vacant EXCEPT !.queue = <<>>] = Vacant
  BY VacantOK DEF Hosted
<1> QED BY <1>1, <1>4, <1>6, <1>7

(* A socket a close or a crash took. *)
LEMMA DroppedIs ==
    LET s == [NoSocket EXCEPT !.at = "dropped"]
    IN  /\ s \in SocketTypes
        /\ s.on = NoHost /\ s.at = "dropped"
<1>1. /\ NoSocket \in SocketTypes
      /\ NoSocket.on = NoHost
  BY DEF NoSocket, PeerStates, SocketTypes
<1>2. "dropped" \in PeerStates
  BY DEF PeerStates, SocketTypes
<1> QED BY <1>1, <1>2 DEF SocketTypes

(* The store closes: the alarm that is pending has its timer, or waits for  *)
(* resume, and nobody has the store open.                                   *)
LEMMA CloseStoreOK ==
    ASSUME HInv, NEW h \in Hosts, CloseStore(h)
    PROVE  HInv'
<1> USE DEF HInv
<1> DEFINE n == h[1]
<1>1. host[h].closed /\ ~host[h].done /\ host' = [host EXCEPT ![h] = Vacant] /\ n \in Names
  BY EmptyTail, HostPair DEF CloseStore
<1>2. \A g \in Hosts : host'[g] = IF g = h THEN Vacant ELSE host[g]
  BY <1>1 DEF HostTypes
<1>3. UNCHANGED <<resident, paused, pausing, alarm>>
  BY DEF CloseStore
<1>4. \A i \in Slots : host'[<<n, i>>] = Vacant /\ host[<<n, i>>].closed
  BY <1>1, <1>2, KnownHost, HostPair, VacantOK
<1>5. resident[n] = 0
  <2>1. resident[n] \in Slots \cup {0}
    BY <1>1 DEF HostTypes
  <2> QED BY <1>1, <1>4, <2>1, HostPair, InMemory
<1>6. /\ heldAlarms' = IF paused /\ alarm[n] # "none" THEN [heldAlarms EXCEPT ![n] = alarm[n]] ELSE heldAlarms
      /\ cold' = IF ~paused /\ alarm[n] # "none" /\ resident[n] = 0 THEN [cold EXCEPT ![n] = alarm[n]] ELSE cold
      /\ call' = Woken(n)
      /\ peer' = [p \in Peers |-> IF peer[p].on = h THEN [NoSocket EXCEPT !.at = "dropped"] ELSE peer[p]]
  BY DEF CloseStore
<1>7. HostTypes'
  BY <1>1, <1>3, <1>6, VacantOK DEF HostTypes
<1>8. ClientTypes'
  <2>1. call' \in [Callers -> [to : Names \cup {""}, at : CallStates]]
    BY <1>1, <1>6 DEF Woken, ClientTypes, CallStates, SocketTypes
  <2>2. ASSUME NEW c \in Callers, call'[c].at \in {"waiting", "woken"} PROVE call'[c].to \in Names
    BY <1>1, <1>6, <2>2 DEF Woken, ClientTypes, SocketTypes
  <2>3. [NoSocket EXCEPT !.at = "dropped"]
          \in SocketTypes
    BY DroppedIs
  <2>4. peer' \in [Peers -> SocketTypes]
    BY <1>6, <2>3 DEF ClientTypes, SocketTypes
  <2> QED BY <2>1, <2>2, <2>4 DEF ClientTypes, SocketTypes
<1>9. ASSUME NEW g \in Hosts PROVE HostOK(g)'
  <2>1. CASE g = h
    BY <1>2, <1>3, <1>1, <2>1, VacantOK, InMemory DEF HostOK
  <2>2. CASE g # h
    <3>1. host'[g] = host[g]
      BY <1>2, <2>2
    <3> QED BY <1>3, <3>1 DEF HostOK, Working, Wakes
  <2> QED BY <2>1, <2>2
<1>10. ASSUME NEW m \in Names PROVE NameOK(m)'
  <2>1. CASE m = n
    <3>1. \A i \in Slots : (host[<<m, i>>].done)'
      BY <1>4, <2>1, VacantOK
    <3>2. paused => cold[n] = "none"
      BY <1>1 DEF NameOK
    <3>3. /\ paused /\ alarm[n] # "none" => heldAlarms'[n] = alarm[n]
          /\ ~paused /\ alarm[n] # "none" => cold'[n] = alarm[n]
          /\ paused => cold' = cold
      BY <1>1, <1>5, <1>6 DEF HostTypes
    <3> QED BY <1>3, <1>5, <2>1, <3>1, <3>2, <3>3 DEF NameOK, NoLater
  <2>2. CASE m # n
    <3>1. \A i \in Slots : host'[<<m, i>>] = host[<<m, i>>]
      BY <1>2, <2>2, HostPair
    <3>2. cold'[m] = cold[m] /\ heldAlarms'[m] = heldAlarms[m]
      BY <1>6, <2>2 DEF HostTypes
    <3> QED BY <1>3, <2>2, <3>1, <3>2 DEF NameOK
  <2> QED BY <2>1, <2>2
<1>11. OneHostPerStore' /\ PausedIsStill' /\ (pausing => paused)'
  BY <1>2, <1>3, VacantOK, HostPair DEF OneHostPerStore, PausedIsStill
<1> QED BY <1>7, <1>8, <1>9, <1>10, <1>11

(* A frame arrives: its peer's host has its store open. *)
LEMMA SendOK ==
    ASSUME HInv, NEW p \in Peers, PeerOK(p), Send(p)
    PROVE  HInv'
<1> DEFINE h == peer[p].on
           k == peer[p].sent + 1
           Z == [host[h] EXCEPT !.released = FALSE]
           e == Entry("frame", p, k)
           X == IF host[h].closed THEN Z ELSE Queued(Z, e)
<1>1. h \in Hosts /\ ~host[h].done
  BY DEF PeerOK, Send
<1>2. Working(host[h]) /\ Wakes(host[h], alarm[h[1]]) /\ host[h] \in Hosted
  BY <1>1, KnownHost
<1>3. /\ host' = [host EXCEPT ![h] = X] /\ UNCHANGED namespaceVars /\ alarm' = alarm /\ call' = call
      /\ peer' = IF host[h].closed THEN [peer EXCEPT ![p].sent = k, ![p].held = Append(@, k)]
                 ELSE [peer EXCEPT ![p].sent = k]
  BY DEF Send
<1>4. /\ peer \in [Peers -> SocketTypes]
      /\ peer[p].sent \in Nat /\ peer[p].held \in Seq(Nat) /\ k \in Nat
  <2>1. peer \in [Peers -> SocketTypes]
    BY DEF HInv, ClientTypes, SocketTypes
  <2>2. peer[p].sent \in Nat /\ peer[p].held \in Seq(Nat)
    BY <2>1 DEF SocketTypes
  <2> QED BY <2>1, <2>2
<1>5. ClientTypes'
  <2>1. Append(peer[p].held, k) \in Seq(Nat)
    BY <1>4, AppendProperties
  <2> HIDE DEF h, k
  <2>2. peer' \in [Peers -> SocketTypes]
    BY <1>3, <1>4, <2>1 DEF SocketTypes
  <2> QED BY <1>3, <2>2 DEF HInv, ClientTypes, SocketTypes
<1> HIDE DEF k, h
<1>6. e \in Entries /\ e.kind = "frame"
  BY <1>4 DEF Entry, Entries, EntryKinds, Callers
<1>7. /\ Z \in Hosted /\ Z.queue = host[h].queue /\ Z.timer = host[h].timer /\ Z.closed = host[h].closed
      /\ Z.done = host[h].done /\ Z.closed \in BOOLEAN
  BY <1>2 DEF Hosted
<1> HIDE DEF Z, e
<1>8. Working(Z) /\ Wakes(Z, alarm[h[1]])
  BY <1>2, <1>7, WorkingSame
<1>9. Working(X) /\ Wakes(X, alarm[h[1]]) /\ X.closed = host[h].closed
  <2>1. CASE host[h].closed
    BY <1>7, <1>8, <2>1
  <2>2. CASE ~host[h].closed
    BY <1>6, <1>7, <1>8, <2>2, WorkingQueued, QueuedIs
  <2> QED BY <2>1, <2>2
<1>10. alarm' \in [Names -> Alarms]
  BY <1>3 DEF HInv, HostTypes
<1> HIDE DEF X
<1> QED BY <1>1, <1>3, <1>5, <1>9, <1>10, HostStep

(* A departure arrives. *)
LEMMA DepartOK ==
    ASSUME HInv, NEW p \in Peers, PeerOK(p), Depart(p)
    PROVE  HInv'
<1> DEFINE h == peer[p].on
           d == [peer |-> p, frames |-> peer[p].held]
           Z == [host[h] EXCEPT !.departures = Append(@, d)]
           e == Entry("left", p, 0)
           X == IF host[h].closed THEN Z ELSE Queued(host[h], e)
<1>1. h \in Hosts /\ ~host[h].done
  BY DEF PeerOK, Depart
<1>2. Working(host[h]) /\ Wakes(host[h], alarm[h[1]]) /\ host[h] \in Hosted
  BY <1>1, KnownHost
<1>3. /\ host' = [host EXCEPT ![h] = X] /\ UNCHANGED namespaceVars /\ alarm' = alarm /\ call' = call
      /\ peer' = [peer EXCEPT ![p] = [peer[p] EXCEPT !.at = "leaving", !.held = <<>>]]
  <2>1. host' = [host EXCEPT ![h] = X]
    BY Zenon DEF Depart
  <2>2. peer' = [peer EXCEPT ![p] = [peer[p] EXCEPT !.at = "leaving", !.held = <<>>]]
    BY DEF Depart
  <2> QED BY <2>1, <2>2 DEF Depart
<1>4. /\ peer \in [Peers -> SocketTypes]
      /\ peer[p].held \in Seq(Nat)
  BY DEF HInv, ClientTypes, SocketTypes
<1> HIDE DEF h
<1>5. ClientTypes'
  <2>1. peer' \in [Peers -> SocketTypes]
    <3>1. "leaving" \in PeerStates /\ <<>> \in Seq(Nat)
      BY DEF PeerStates, SocketTypes
    <3>2. peer[p] \in SocketTypes
      BY <1>4
    <3>3. [peer[p] EXCEPT !.at = "leaving", !.held = <<>>]
            \in SocketTypes
      BY ONLY <3>1, <3>2 DEF SocketTypes
    <3> QED BY <1>3, <1>4, <3>3
  <2> QED BY <1>3, <2>1 DEF HInv, ClientTypes, SocketTypes
<1>6. e \in Entries /\ e.kind = "left"
  BY DEF Entry, Entries, EntryKinds, Callers
<1>7. /\ Z \in Hosted /\ Z.queue = host[h].queue /\ Z.timer = host[h].timer /\ Z.closed = host[h].closed
      /\ Z.done = host[h].done
  <2>1. d \in Departures /\ host[h].departures \in Seq(Departures)
    BY <1>2, <1>4 DEF Departures, Hosted
  <2> HIDE DEF d
  <2>2. Append(host[h].departures, d) \in Seq(Departures)
    BY <2>1, AppendProperties
  <2> QED BY <1>2, <2>2 DEF Hosted
<1> HIDE DEF Z, e
<1>8. Working(X) /\ Wakes(X, alarm[h[1]]) /\ X.closed = host[h].closed
  <2>1. CASE host[h].closed
    <3>1. X = Z
      BY <2>1
    <3>2. Working(Z) /\ Wakes(Z, alarm[h[1]])
      BY <1>2, <1>7, WorkingSame
    <3> QED BY <1>7, <3>1, <3>2
  <2>2. CASE ~host[h].closed
    <3>1. X = Queued(host[h], e)
      BY <2>2
    <3>2. Working(Queued(host[h], e)) /\ Wakes(Queued(host[h], e), alarm[h[1]])
      BY <1>2, <1>6, <2>2, WorkingQueued
    <3> QED BY <1>2, <1>6, <3>1, <3>2, QueuedIs
  <2> QED BY <2>1, <2>2
<1>9. alarm' \in [Names -> Alarms]
  BY <1>3 DEF HInv, HostTypes
<1> HIDE DEF X
<1> QED BY <1>1, <1>3, <1>5, <1>8, <1>9, HostStep

(* Time passes alike for a row and for the timers set for it. *)
LEMMA SoonerOK ==
    /\ \A due \in Alarms : Sooner(due) \in Alarms /\ (Sooner(due) = "none" <=> due = "none")
    /\ \A timer, row \in Alarms : NoLater(timer, row) => NoLater(Sooner(timer), Sooner(row))
BY DEF Sooner, Alarms, Dues, NoLater

(* Time passes for an actor: its row and its timers come due together. *)
LEMMA ComesDueOK ==
    ASSUME HInv, NEW n \in Names, ComesDue(n)
    PROVE  HInv'
<1> USE DEF HInv
<1>1. /\ alarm' = [alarm EXCEPT ![n] = Sooner(alarm[n])] /\ cold' = [cold EXCEPT ![n] = Sooner(cold[n])]
      /\ heldAlarms' = [heldAlarms EXCEPT ![n] = Sooner(heldAlarms[n])]
      /\ host' = [h \in Hosts |-> IF h[1] = n THEN [host[h] EXCEPT !.timer = Sooner(host[h].timer)] ELSE host[h]]
      /\ UNCHANGED <<resident, paused, pausing, call, peer>>
  BY DEF ComesDue
<1>2. /\ alarm \in [Names -> Alarms] /\ cold \in [Names -> Alarms] /\ heldAlarms \in [Names -> Alarms]
      /\ host \in [Hosts -> Hosted]
  BY DEF HostTypes
<1>3. ASSUME NEW h \in Hosts
      PROVE  LET Y == [host[h] EXCEPT !.timer = Sooner(host[h].timer)]
             IN  /\ Y \in Hosted /\ Y.timer = Sooner(host[h].timer) /\ Y.queue = host[h].queue
                 /\ Y.closed = host[h].closed /\ Y.done = host[h].done
                 /\ host[h] = Vacant => Y = Vacant
  <2>1. host[h] \in Hosted /\ host[h].timer \in Alarms
    BY <1>2 DEF Hosted
  <2>2. Sooner(host[h].timer) \in Alarms /\ (host[h] = Vacant => Sooner(host[h].timer) = host[h].timer)
    BY <2>1, SoonerOK DEF Vacant, Sooner
  <2> QED BY <2>1, <2>2 DEF Hosted
<1>4. ASSUME NEW h \in Hosts
      PROVE  /\ host'[h] \in Hosted /\ host'[h].queue = host[h].queue
             /\ host'[h].closed = host[h].closed /\ host'[h].done = host[h].done
             /\ host[h] = Vacant => host'[h] = Vacant
             /\ host'[h].timer = IF h[1] = n THEN Sooner(host[h].timer) ELSE host[h].timer
  BY <1>1, <1>2, <1>3
<1>5. HostTypes'
  <2>1. host' \in [Hosts -> Hosted]
    BY <1>1, <1>4
  <2>2. Sooner(alarm[n]) \in Alarms /\ Sooner(cold[n]) \in Alarms /\ Sooner(heldAlarms[n]) \in Alarms
    BY <1>2, SoonerOK
  <2> QED BY <1>1, <1>2, <2>1, <2>2 DEF HostTypes
<1>6. ClientTypes'
  BY <1>1 DEF ClientTypes, SocketTypes
<1>7. ASSUME NEW h \in Hosts PROVE HostOK(h)'
  <2>1. h[1] \in Names /\ alarm[h[1]] \in Alarms /\ host[h].timer \in Alarms
    BY <1>2, HostPair DEF Hosted
  <2>2. /\ (host'[h].timer = "none" <=> host[h].timer = "none")
        /\ (alarm'[h[1]] = "none" <=> alarm[h[1]] = "none")
        /\ NoLater(host[h].timer, alarm[h[1]]) => NoLater(host'[h].timer, alarm'[h[1]])
    BY <1>1, <1>2, <1>4, <2>1, SoonerOK
  <2>3. HostOK(h)
    OBVIOUS
  <2>4. Working(host[h]) => Working(host'[h])
    BY <1>4, <2>2 DEF Working
  <2>5. Wakes(host[h], alarm[h[1]]) => Wakes(host'[h], alarm'[h[1]])
    BY <1>4, <2>2 DEF Wakes
  <2>6. /\ host'[h] = Vacant \/ (Working(host'[h]) /\ Wakes(host'[h], alarm'[h[1]]))
        /\ ~host'[h].closed <=> resident'[h[1]] = h[2]
    BY <1>1, <1>4, <2>3, <2>4, <2>5 DEF HostOK
  <2> QED BY <2>6 DEF HostOK, Working, Wakes
<1>8. ASSUME NEW m \in Names PROVE NameOK(m)'
  <2>1. /\ (cold'[m] = "none" <=> cold[m] = "none") /\ (heldAlarms'[m] = "none" <=> heldAlarms[m] = "none")
        /\ (alarm'[m] = "none" <=> alarm[m] = "none")
        /\ NoLater(cold[m], alarm[m]) => NoLater(cold'[m], alarm'[m])
        /\ NoLater(heldAlarms[m], alarm[m]) => NoLater(heldAlarms'[m], alarm'[m])
    <3>1. alarm[m] \in Alarms /\ cold[m] \in Alarms /\ heldAlarms[m] \in Alarms
      BY <1>2
    <3> QED BY <1>1, <1>2, <3>1, SoonerOK
  <2>2. \A i \in Slots : (host[<<m, i>>].done)' <=> host[<<m, i>>].done
    BY <1>4, HostPair
  <2> QED BY <1>1, <2>1, <2>2 DEF NameOK
<1>9. OneHostPerStore' /\ PausedIsStill' /\ (pausing => paused)'
  BY <1>1, <1>4, HostPair DEF OneHostPerStore, PausedIsStill
<1> QED BY <1>5, <1>6, <1>7, <1>8, <1>9

(* pause(): everything in memory is asked to close, timers are set aside. *)
LEMMA PauseOK ==
    ASSUME HInv, Pause
    PROVE  HInv'
<1> USE DEF HInv
<1>1. /\ ~paused /\ paused' = TRUE /\ pausing' = TRUE
      /\ heldAlarms' = [n \in Names |-> IF cold[n] # "none" THEN cold[n] ELSE heldAlarms[n]]
      /\ cold' = [n \in Names |-> "none"]
      /\ host' = [h \in Hosts |-> IF resident[h[1]] = h[2] THEN CloseCalled(host[h]) ELSE host[h]]
      /\ resident' = [n \in Names |-> 0]
      /\ UNCHANGED <<alarm, call, peer>>
  BY DEF Pause
<1>2. ASSUME NEW h \in Hosts
      PROVE  /\ host'[h] = Vacant \/ (Working(host'[h]) /\ Wakes(host'[h], alarm[h[1]]))
             /\ host'[h] \in Hosted /\ host'[h].closed /\ (host'[h].done <=> host[h].done)
  <2>1. CASE resident[h[1]] = h[2]
    <3>1. ~host[h].closed /\ ~host[h].done /\ host'[h] = CloseCalled(host[h])
      BY <1>1, <2>1, InMemory
    <3>2. Working(host[h])
      BY <3>1, KnownHost
    <3>3. Working(host'[h]) /\ host'[h].closed
      BY <3>1, <3>2, WorkingClosed
    <3> QED BY <3>1, <3>3 DEF Working, Wakes
  <2>2. CASE resident[h[1]] # h[2]
    <3>1. host'[h] = host[h] /\ host[h].closed /\ HostOK(h)
      BY <1>1, <2>2, InMemory
    <3> QED BY <3>1 DEF HostOK, HostTypes
  <2> QED BY <2>1, <2>2
<1>3. HostTypes' /\ ClientTypes'
  <2>1. host' \in [Hosts -> Hosted]
    BY <1>1, <1>2
  <2>2. resident' \in [Names -> Slots \cup {0}] /\ cold' \in [Names -> Alarms] /\ heldAlarms' \in [Names -> Alarms]
    BY <1>1 DEF HostTypes, Alarms
  <2> QED BY <1>1, <2>1, <2>2 DEF HostTypes, ClientTypes, SocketTypes
<1>4. ASSUME NEW h \in Hosts PROVE HostOK(h)'
  <2>1. resident'[h[1]] = 0 /\ h[2] # 0
    BY <1>1, HostPair DEF Slots
  <2> QED BY <1>1, <1>2, <2>1 DEF HostOK, Working, Wakes
<1>5. ASSUME NEW n \in Names PROVE NameOK(n)'
  <2>1. \A i \in Slots : (host[<<n, i>>].done)' <=> host[<<n, i>>].done
    BY <1>2, HostPair
  <2> QED BY <1>1, <2>1 DEF NameOK
<1>6. OneHostPerStore' /\ PausedIsStill' /\ (pausing => paused)'
  BY <1>1, <1>2, HostPair DEF OneHostPerStore, PausedIsStill
<1> QED BY <1>3, <1>4, <1>5, <1>6

(* pause() resolves once every close has run. *)
LEMMA PauseEndsOK ==
    ASSUME HInv, PauseEnds
    PROVE  HInv'
<1> USE DEF HInv
<1>1. /\ pausing /\ pausing' = FALSE /\ \A n \in Names : Closing(n) = {}
      /\ UNCHANGED <<host, resident, cold, heldAlarms, paused, alarm, call, peer>>
  BY DEF PauseEnds
<1>2. ASSUME NEW h \in Hosts PROVE host[h].done
  <2>1. h[1] \in Names /\ h[2] \in Slots /\ host[<<h[1], h[2]>>] = host[h]
    BY HostPair
  <2>2. resident[h[1]] = 0 /\ h[2] # 0
    <3>1. paused /\ NameOK(h[1])
      BY <1>1, <2>1
    <3> QED BY <2>1, <3>1 DEF NameOK, Slots
  <2>3. host[h].closed
    BY <2>2, InMemory
  <2> QED BY <1>1, <2>1, <2>3 DEF Closing
<1>3. HostTypes' /\ ClientTypes'
  BY <1>1 DEF HostTypes, ClientTypes, SocketTypes
<1>4. (\A h \in Hosts : HostOK(h)') /\ \A n \in Names : NameOK(n)'
  BY <1>1 DEF HostOK, NameOK, Working, Wakes
<1>5. OneHostPerStore' /\ PausedIsStill' /\ (pausing => paused)'
  BY <1>1, <1>2 DEF OneHostPerStore, PausedIsStill
<1> QED BY <1>3, <1>4, <1>5

(* resume(): the timers set aside are armed again. *)
LEMMA ResumeOK ==
    ASSUME HInv, Resume
    PROVE  HInv'
<1> USE DEF HInv
<1>1. /\ paused /\ ~pausing /\ paused' = FALSE
      /\ cold' = [n \in Names |-> IF heldAlarms[n] # "none" THEN heldAlarms[n] ELSE cold[n]]
      /\ heldAlarms' = [n \in Names |-> "none"]
      /\ UNCHANGED <<host, resident, pausing, alarm, call, peer>>
  BY DEF Resume
<1>2. \A h \in Hosts : host[h].done
  BY <1>1 DEF PausedIsStill
<1>3. HostTypes' /\ ClientTypes'
  <2>1. cold' \in [Names -> Alarms] /\ heldAlarms' \in [Names -> Alarms]
    BY <1>1 DEF HostTypes, Alarms
  <2> QED BY <1>1, <2>1 DEF HostTypes, ClientTypes, SocketTypes
<1>4. \A h \in Hosts : HostOK(h)'
  BY <1>1 DEF HostOK, Working, Wakes
<1>5. ASSUME NEW n \in Names PROVE NameOK(n)'
  <2>1. \A i \in Slots : host[<<n, i>>].done
    BY <1>2, HostPair
  <2>2. cold[n] = "none" /\ (alarm[n] # "none" => heldAlarms[n] # "none" /\ NoLater(heldAlarms[n], alarm[n]))
    BY <1>1, <2>1 DEF NameOK
  <2> QED BY <1>1, <2>1, <2>2 DEF NameOK
<1>6. OneHostPerStore' /\ PausedIsStill' /\ (pausing => paused)'
  BY <1>1 DEF OneHostPerStore, PausedIsStill
<1> QED BY <1>3, <1>4, <1>5, <1>6

(* Everything is closed, every pending alarm has its cold timer. *)
AllClosed ==
    /\ alarm \in [Names -> Alarms] /\ host = [h \in Hosts |-> Vacant] /\ resident = [n \in Names |-> 0]
    /\ cold = alarm /\ heldAlarms = [n \in Names |-> "none"] /\ paused = FALSE /\ pausing = FALSE
    /\ ClientTypes

(* A node just booted is as it should be. *)
LEMMA AllClosedOK == AllClosed => HInv
<1> SUFFICES ASSUME AllClosed PROVE HInv
  OBVIOUS
<1> USE DEF AllClosed
<1>1. HostTypes
  BY VacantOK DEF HostTypes, Alarms
<1>2. ASSUME NEW h \in Hosts PROVE HostOK(h)
  <2>1. h[1] \in Names /\ h[2] # 0 /\ host[h] = Vacant
    BY HostPair DEF Slots
  <2> QED BY <2>1, VacantOK DEF HostOK
<1>3. ASSUME NEW n \in Names PROVE NameOK(n)
  BY HostPair, VacantOK DEF NameOK, NoLater
<1>4. OneHostPerStore /\ PausedIsStill
  BY HostPair, VacantOK DEF OneHostPerStore, PausedIsStill
<1> QED BY <1>1, <1>2, <1>3, <1>4 DEF HInv

(* The process dies, and boots. *)
LEMMA CrashOK ==
    ASSUME HInv, Crash
    PROVE  HInv'
<1>1. /\ alarm' \in [Names -> Alarms] /\ host' = [h \in Hosts |-> Vacant] /\ resident' = [n \in Names |-> 0]
      /\ cold' = alarm' /\ heldAlarms' = [n \in Names |-> "none"] /\ paused' = FALSE /\ pausing' = FALSE
  BY DEF Crash, HInv, HostTypes
<1>2. ClientTypes'
  <2>1. /\ call' = [c \in Callers |-> NoCall]
        /\ peer' = [p \in Peers |-> [NoSocket EXCEPT !.at = "dropped"]]
    BY DEF Crash
  <2>2. call' \in [Callers -> [to : Names \cup {""}, at : CallStates]]
        /\ \A c \in Callers : call'[c].at \notin {"waiting", "woken"}
    BY <2>1 DEF NoCall, CallStates
  <2>3. peer' \in [Peers -> SocketTypes]
    BY <2>1, DroppedIs
  <2> QED BY <2>2, <2>3 DEF ClientTypes, SocketTypes
<1>3. AllClosed'
  BY <1>1, <1>2 DEF AllClosed
<1> QED BY <1>3, AllClosedOK, PTL

-----------------------------------------------------------------------------
(* The queue as a peer sees it: one entry more at its end, or one less at   *)
(* its head.                                                                *)

Longer(q, r, e) ==
    /\ Len(q) \in Nat /\ Len(r) = Len(q) + 1
    /\ (\A i \in 1 .. Len(q) : r[i] = q[i]) /\ r[Len(q) + 1] = e
Shorter(q, r) ==
    /\ Len(q) \in Nat \ {0} /\ Len(r) = Len(q) - 1
    /\ \A i \in 1 .. Len(r) : r[i] = q[i + 1]

(* Entries of others, or of other kinds, do not matter to a peer. *)
LEMMA OrderQueued ==
    ASSUME NEW p, NEW q, NEW r, NEW e, Longer(q, r, e), ~FrameOf(p, e), NEW n \in Nat, NEW m \in Int,
           InOrder(p, q, n, m)
    PROVE  InOrder(p, r, n, m)
<1> DEFINE a == Len(q)
           b == Len(r)
<1>1. a \in Nat /\ b = a + 1 /\ (\A i \in 1 .. a : r[i] = q[i]) /\ r[a + 1] = e
  BY DEF Longer
<1>2. /\ n <= m
      /\ \A i \in 1 .. a : FrameOf(p, q[i]) => q[i].k \in n + 1 .. m
      /\ \A k \in n + 1 .. m : \E i \in 1 .. a : FrameOf(p, q[i]) /\ q[i].k = k
      /\ \A i, j \in 1 .. a : FrameOf(p, q[i]) /\ FrameOf(p, q[j]) /\ i < j => q[i].k < q[j].k
  BY DEF InOrder
<1> HIDE DEF a, b
<1>3. \A i \in 1 .. b : FrameOf(p, r[i]) => i \in 1 .. a /\ r[i] = q[i] /\ FrameOf(p, q[i])
  BY <1>1
<1>4. \A i \in 1 .. a : i \in 1 .. b /\ r[i] = q[i]
  BY <1>1
<1>5. \A i \in 1 .. b : FrameOf(p, r[i]) => r[i].k \in n + 1 .. m
  BY <1>2, <1>3
<1>6. \A k \in n + 1 .. m : \E i \in 1 .. b : FrameOf(p, r[i]) /\ r[i].k = k
  BY <1>2, <1>4
<1>7. \A i, j \in 1 .. b : FrameOf(p, r[i]) /\ FrameOf(p, r[j]) /\ i < j => r[i].k < r[j].k
  BY <1>2, <1>3
<1> QED BY <1>2, <1>5, <1>6, <1>7 DEF InOrder, b

(* The next frame of the peer goes behind the others. *)
LEMMA OrderSent ==
    ASSUME NEW p, NEW q, NEW r, NEW e, Longer(q, r, e), FrameOf(p, e), NEW n \in Nat, NEW m \in Int, InOrder(p,
           q, n, m),
           e.k = m + 1
    PROVE  InOrder(p, r, n, m + 1)
<1> DEFINE a == Len(q)
           b == Len(r)
<1>1. a \in Nat /\ b = a + 1 /\ (\A i \in 1 .. a : r[i] = q[i]) /\ r[a + 1] = e
  BY DEF Longer
<1>2. /\ n <= m
      /\ \A i \in 1 .. a : FrameOf(p, q[i]) => q[i].k \in n + 1 .. m
      /\ \A k \in n + 1 .. m : \E i \in 1 .. a : FrameOf(p, q[i]) /\ q[i].k = k
      /\ \A i, j \in 1 .. a : FrameOf(p, q[i]) /\ FrameOf(p, q[j]) /\ i < j => q[i].k < q[j].k
  BY DEF InOrder
<1> HIDE DEF a, b
<1>3. \A i \in 1 .. a : i \in 1 .. b /\ r[i] = q[i]
  BY <1>1
<1>4. a + 1 \in 1 .. b /\ \A i \in 1 .. b : i \in 1 .. a \/ i = a + 1
  BY <1>1
<1>5. \A i \in 1 .. b : FrameOf(p, r[i]) => r[i].k \in n + 1 .. m + 1
  <2> SUFFICES ASSUME NEW i \in 1 .. b, FrameOf(p, r[i]) PROVE r[i].k \in n + 1 .. m + 1
    OBVIOUS
  <2>1. CASE i \in 1 .. a
    BY <1>1, <1>2, <2>1
  <2>2. CASE i = a + 1
    BY <1>1, <1>2, <2>2
  <2> QED BY <1>4, <2>1, <2>2
<1>6. \A k \in n + 1 .. m + 1 : \E i \in 1 .. b : FrameOf(p, r[i]) /\ r[i].k = k
  <2> SUFFICES ASSUME NEW k \in n + 1 .. m + 1 PROVE \E i \in 1 .. b : FrameOf(p, r[i]) /\ r[i].k = k
    OBVIOUS
  <2>1. CASE k = m + 1
    BY <1>1, <1>4, <2>1
  <2>2. CASE k # m + 1
    <3>1. k \in n + 1 .. m
      BY <2>2
    <3> QED BY <1>2, <1>3, <3>1
  <2> QED BY <2>1, <2>2
<1>7. \A i, j \in 1 .. b : FrameOf(p, r[i]) /\ FrameOf(p, r[j]) /\ i < j => r[i].k < r[j].k
  <2> SUFFICES ASSUME NEW i \in 1 .. b, NEW j \in 1 .. b, FrameOf(p, r[i]), FrameOf(p, r[j]), i < j
               PROVE  r[i].k < r[j].k
    OBVIOUS
  <2>1. i \in 1 .. a /\ r[i] = q[i]
    BY <1>1, <1>4
  <2>2. CASE j \in 1 .. a
    BY <1>1, <1>2, <2>1, <2>2
  <2>3. CASE j = a + 1
    <3>1. q[i].k \in n + 1 .. m
      BY <1>2, <2>1
    <3> QED BY <1>1, <2>1, <2>3, <3>1
  <2> QED BY <1>4, <2>2, <2>3
<1>8. n <= m + 1
  BY <1>2
<1> QED BY <1>5, <1>6, <1>7, <1>8 DEF InOrder, b

(* What is at the head is not the peer's: its frames move up. *)
LEMMA OrderPopped ==
    ASSUME NEW p, NEW q, NEW r, Shorter(q, r), ~FrameOf(p, q[1]), NEW n \in Nat, NEW m \in Int, InOrder(p, q, n, m)
    PROVE  InOrder(p, r, n, m)
<1> DEFINE a == Len(q)
           b == Len(r)
<1>1. a \in Nat /\ a # 0 /\ b = a - 1 /\ (\A i \in 1 .. b : r[i] = q[i + 1])
  BY DEF Shorter
<1>2. /\ n <= m
      /\ \A i \in 1 .. a : FrameOf(p, q[i]) => q[i].k \in n + 1 .. m
      /\ \A k \in n + 1 .. m : \E i \in 1 .. a : FrameOf(p, q[i]) /\ q[i].k = k
      /\ \A i, j \in 1 .. a : FrameOf(p, q[i]) /\ FrameOf(p, q[j]) /\ i < j => q[i].k < q[j].k
  BY DEF InOrder
<1> HIDE DEF a, b
<1>3. \A i \in 1 .. b : i + 1 \in 1 .. a /\ r[i] = q[i + 1]
  BY <1>1
<1>4. \A i \in 1 .. a : FrameOf(p, q[i]) => i - 1 \in 1 .. b /\ r[i - 1] = q[i]
  BY <1>1
<1>5. \A i \in 1 .. b : FrameOf(p, r[i]) => r[i].k \in n + 1 .. m
  BY <1>2, <1>3
<1>6. \A k \in n + 1 .. m : \E i \in 1 .. b : FrameOf(p, r[i]) /\ r[i].k = k
  <2> SUFFICES ASSUME NEW k \in n + 1 .. m PROVE \E i \in 1 .. b : FrameOf(p, r[i]) /\ r[i].k = k
    OBVIOUS
  <2>1. PICK i \in 1 .. a : FrameOf(p, q[i]) /\ q[i].k = k
    BY <1>2
  <2> QED BY <1>4, <2>1
<1>7. \A i, j \in 1 .. b : FrameOf(p, r[i]) /\ FrameOf(p, r[j]) /\ i < j => r[i].k < r[j].k
  <2> SUFFICES ASSUME NEW i \in 1 .. b, NEW j \in 1 .. b, FrameOf(p, r[i]), FrameOf(p, r[j]), i < j
               PROVE  r[i].k < r[j].k
    OBVIOUS
  <2>1. i + 1 \in 1 .. a /\ j + 1 \in 1 .. a /\ i + 1 < j + 1 /\ r[i] = q[i + 1] /\ r[j] = q[j + 1]
    BY <1>3
  <2> QED BY <1>2, <2>1
<1> QED BY <1>2, <1>5, <1>6, <1>7 DEF InOrder, b

(* A frame of the peer at the head is the next one it is to be heard of. *)
LEMMA OrderHeard ==
    ASSUME NEW p, NEW q, NEW r, Shorter(q, r), FrameOf(p, q[1]), NEW n \in Nat, NEW m \in Int, InOrder(p, q, n, m)
    PROVE  q[1].k = n + 1 /\ InOrder(p, r, n + 1, m)
<1> DEFINE a == Len(q)
           b == Len(r)
<1>1. a \in Nat /\ a # 0 /\ b = a - 1 /\ (\A i \in 1 .. b : r[i] = q[i + 1])
  BY DEF Shorter
<1>2. /\ n <= m
      /\ \A i \in 1 .. a : FrameOf(p, q[i]) => q[i].k \in n + 1 .. m
      /\ \A k \in n + 1 .. m : \E i \in 1 .. a : FrameOf(p, q[i]) /\ q[i].k = k
      /\ \A i, j \in 1 .. a : FrameOf(p, q[i]) /\ FrameOf(p, q[j]) /\ i < j => q[i].k < q[j].k
  BY DEF InOrder
<1> HIDE DEF a, b
<1>3. \A i \in 1 .. b : i + 1 \in 1 .. a /\ 1 < i + 1 /\ r[i] = q[i + 1]
  BY <1>1
<1>4. \A i \in 1 .. a : i # 1 => i - 1 \in 1 .. b /\ r[i - 1] = q[i] /\ 1 < i
  BY <1>1
<1>5. 1 \in 1 .. a /\ q[1].k \in n + 1 .. m
  BY <1>1, <1>2
<1>6. q[1].k = n + 1
  <2>1. PICK i \in 1 .. a : FrameOf(p, q[i]) /\ q[i].k = n + 1
    BY <1>2, <1>5
  <2>2. CASE i = 1
    BY <2>1, <2>2
  <2>3. CASE i # 1
    BY <1>2, <1>4, <1>5, <2>1, <2>3
  <2> QED BY <2>2, <2>3
<1>7. \A i \in 1 .. b : FrameOf(p, r[i]) => r[i].k \in n + 2 .. m
  BY <1>2, <1>3, <1>5, <1>6
<1>8. \A k \in n + 2 .. m : \E i \in 1 .. b : FrameOf(p, r[i]) /\ r[i].k = k
  <2> SUFFICES ASSUME NEW k \in n + 2 .. m PROVE \E i \in 1 .. b : FrameOf(p, r[i]) /\ r[i].k = k
    OBVIOUS
  <2>1. k \in n + 1 .. m /\ k # n + 1
    OBVIOUS
  <2>2. PICK i \in 1 .. a : FrameOf(p, q[i]) /\ q[i].k = k
    BY <1>2, <2>1
  <2> QED BY <1>4, <1>6, <2>1, <2>2
<1>9. \A i, j \in 1 .. b : FrameOf(p, r[i]) /\ FrameOf(p, r[j]) /\ i < j => r[i].k < r[j].k
  <2> SUFFICES ASSUME NEW i \in 1 .. b, NEW j \in 1 .. b, FrameOf(p, r[i]), FrameOf(p, r[j]), i < j
               PROVE  r[i].k < r[j].k
    OBVIOUS
  <2>1. i + 1 \in 1 .. a /\ j + 1 \in 1 .. a /\ i + 1 < j + 1 /\ r[i] = q[i + 1] /\ r[j] = q[j + 1]
    BY <1>3
  <2> QED BY <1>2, <2>1
<1>10. n + 1 <= m /\ (n + 1) + 1 = n + 2
  BY <1>5
<1> QED BY <1>6, <1>7, <1>8, <1>9, <1>10 DEF InOrder, b

(* No frame waits: all of them have been heard. *)
LEMMA OrderEmpty ==
    ASSUME NEW p, NEW q, \A i \in 1 .. Len(q) : ~FrameOf(p, q[i]), NEW n \in Nat, NEW m \in Int
    PROVE  InOrder(p, q, n, m) <=> n = m
<1>1. ASSUME InOrder(p, q, n, m), n # m PROVE FALSE
  <2>1. n + 1 \in n + 1 .. m
    BY <1>1 DEF InOrder
  <2> QED BY <1>1, <2>1 DEF InOrder
<1>2. ASSUME n = m PROVE InOrder(p, q, n, m)
  BY <1>2 DEF InOrder
<1> QED BY <1>1, <1>2

(* The departure of p waits on when another entry is done. *)
LEMMA LeftShorter ==
    ASSUME NEW p, NEW q, NEW r, Shorter(q, r), ~LeftOf(p, q[1])
    PROVE  (NoLeft(p, q) => NoLeft(p, r)) /\ (LastLeft(p, q) => LastLeft(p, r))
<1> DEFINE a == Len(q)
           b == Len(r)
<1>1. a \in Nat /\ a # 0 /\ b = a - 1 /\ (\A i \in 1 .. b : r[i] = q[i + 1])
  BY DEF Shorter
<1> HIDE DEF a, b
<1>2. \A i \in 1 .. b : i + 1 \in 1 .. a /\ r[i] = q[i + 1]
  BY <1>1
<1>3. \A i \in 1 .. a : i # 1 => i - 1 \in 1 .. b /\ r[i - 1] = q[i]
  BY <1>1
<1>4. NoLeft(p, q) => NoLeft(p, r)
  BY <1>2 DEF NoLeft, a, b
<1>5. ASSUME LastLeft(p, q) PROVE LastLeft(p, r)
  <2>1. PICK i \in 1 .. a : /\ LeftOf(p, q[i]) /\ \A j \in 1 .. a : LeftOf(p, q[j]) => i = j
                           /\ \A j \in 1 .. a : FrameOf(p, q[j]) => j < i
    BY <1>5 DEF LastLeft, a
  <2>2. i # 1
    BY <2>1
  <2>3. i - 1 \in 1 .. b /\ LeftOf(p, r[i - 1])
    BY <1>3, <2>1, <2>2
  <2>4. ASSUME NEW j \in 1 .. b, LeftOf(p, r[j]) PROVE i - 1 = j
    <3>1. j + 1 \in 1 .. a /\ LeftOf(p, q[j + 1])
      BY <1>2, <2>4
    <3>2. i = j + 1
      BY <2>1, <3>1
    <3> QED BY <3>2
  <2>5. ASSUME NEW j \in 1 .. b, FrameOf(p, r[j]) PROVE j < i - 1
    <3>1. j + 1 \in 1 .. a /\ FrameOf(p, q[j + 1])
      BY <1>2, <2>5
    <3>2. j + 1 < i
      BY <2>1, <3>1
    <3> QED BY <3>2
  <2> QED BY <2>3, <2>4, <2>5 DEF LastLeft, b
<1> QED BY <1>4, <1>5

(* A queue that gained or lost nothing of p. *)
Beside(p, q, r) ==
    \/ r = q
    \/ \E e : Longer(q, r, e) /\ ~FrameOf(p, e) /\ ~LeftOf(p, e)
    \/ Shorter(q, r) /\ ~FrameOf(p, q[1]) /\ ~LeftOf(p, q[1])

(* Then what is in it of p is as before. *)
LEMMA BesideOK ==
    ASSUME NEW p, NEW q, NEW r, Beside(p, q, r)
    PROVE  /\ NoLeft(p, q) => NoLeft(p, r)
           /\ LastLeft(p, q) => LastLeft(p, r)
           /\ \A n \in Nat, m \in Int : InOrder(p, q, n, m) => InOrder(p, r, n, m)
<1>1. CASE r = q
  BY <1>1
<1>2. ASSUME NEW e, Longer(q, r, e), ~FrameOf(p, e), ~LeftOf(p, e)
      PROVE  (NoLeft(p, q) => NoLeft(p, r)) /\ (LastLeft(p, q) => LastLeft(p, r))
  <2> DEFINE a == Len(q)
             b == Len(r)
  <2>1. a \in Nat /\ b = a + 1 /\ (\A i \in 1 .. a : r[i] = q[i]) /\ r[a + 1] = e
    BY <1>2 DEF Longer
  <2> HIDE DEF a, b
  <2>2. \A i \in 1 .. b : FrameOf(p, r[i]) \/ LeftOf(p, r[i]) => i \in 1 .. a /\ r[i] = q[i]
    BY <1>2, <2>1
  <2>3. \A i \in 1 .. a : i \in 1 .. b /\ r[i] = q[i]
    BY <2>1
  <2>4. NoLeft(p, q) => NoLeft(p, r)
    BY <2>2 DEF NoLeft, a, b
  <2>5. ASSUME LastLeft(p, q) PROVE LastLeft(p, r)
    <3>1. PICK i \in 1 .. a : /\ LeftOf(p, q[i]) /\ \A j \in 1 .. a : LeftOf(p, q[j]) => i = j
                             /\ \A j \in 1 .. a : FrameOf(p, q[j]) => j < i
      BY <2>5 DEF LastLeft, a
    <3>2. /\ i \in 1 .. b /\ LeftOf(p, r[i]) /\ \A j \in 1 .. b : LeftOf(p, r[j]) => i = j
          /\ \A j \in 1 .. b : FrameOf(p, r[j]) => j < i
      BY <2>2, <2>3, <3>1
    <3> QED BY <3>2 DEF LastLeft, b
  <2> QED BY <2>4, <2>5
<1>3. ASSUME Shorter(q, r), ~LeftOf(p, q[1])
      PROVE  (NoLeft(p, q) => NoLeft(p, r)) /\ (LastLeft(p, q) => LastLeft(p, r))
  BY <1>3, LeftShorter
<1>4. ASSUME NEW n \in Nat, NEW m \in Int, InOrder(p, q, n, m) PROVE InOrder(p, r, n, m)
  BY <1>4, OrderQueued, OrderPopped DEF Beside
<1> QED BY <1>1, <1>2, <1>3, <1>4 DEF Beside

(* What became of the frames of p does not depend on what others do. *)
LEMMA HeardBeside ==
    ASSUME NEW p, NEW s \in SocketTypes, NEW X \in Hosted, NEW Y, Heard(p, s, X), Beside(p, X.queue, Y.queue),
           Y.departures = X.departures, X.closed => Y.closed
    PROVE  Heard(p, s, Y)
<1>1. Len(s.got) \in Nat /\ s.sent \in Nat /\ Len(s.held) \in Nat
  <2>1. s.got \in Seq(Nat) /\ s.held \in Seq(Nat) /\ s.sent \in Nat
    BY DEF SocketTypes
  <2> QED BY <2>1
<1>2. \A j \in 1 .. Len(X.departures) : Len(X.departures[j].frames) \in Nat
  <2>1. X.departures \in Seq(Departures)
    BY DEF Hosted
  <2>2. ASSUME NEW j \in 1 .. Len(X.departures) PROVE X.departures[j].frames \in Seq(Nat)
    <3>1. X.departures[j] \in Departures
      BY <2>1
    <3> QED BY <3>1 DEF Departures
  <2> QED BY <2>2
<1>3. /\ NoLeft(p, X.queue) => NoLeft(p, Y.queue) 
      /\ LastLeft(p, X.queue) => LastLeft(p, Y.queue)
      /\ \A n \in Nat, m \in Int : InOrder(p, X.queue, n, m) => InOrder(p, Y.queue, n, m)
  BY BesideOK
<1>4. ASSUME Connected(p, s, X) PROVE Connected(p, s, Y)
  <2>1. s.sent - Len(s.held) \in Int
    BY <1>1
  <2> QED BY <1>1, <1>3, <1>4, <2>1 DEF Connected
<1>5. ASSUME LeftQueued(p, s, X) PROVE LeftQueued(p, s, Y)
  BY <1>1, <1>3, <1>5 DEF LeftQueued
<1>6. ASSUME LeftKept(p, s, X) PROVE LeftKept(p, s, Y)
  <2>1. PICK j \in 1 .. Len(X.departures) :
          LET d == X.departures[j]
          IN  /\ d.peer = p
              /\ \A i \in 1 .. Len(X.departures) : X.departures[i].peer = p => i = j
              /\ Following(s.sent - Len(d.frames), d.frames)
              /\ InOrder(p, X.queue, Len(s.got), s.sent - Len(d.frames))
    BY <1>6 DEF LeftKept
  <2>2. s.sent - Len(X.departures[j].frames) \in Int
    BY <1>1, <1>2
  <2>3. InOrder(p, Y.queue, Len(s.got), s.sent - Len(X.departures[j].frames))
    BY <1>1, <1>3, <2>1, <2>2
  <2> QED BY <1>3, <1>6, <2>1, <2>3 DEF LeftKept
<1> QED BY <1>4, <1>5, <1>6 DEF Heard

(* The entries of a queue that grows. *)
LEMMA OwnsQueued ==
    ASSUME NEW h, NEW X, NEW Y, NEW e, NEW sockets, NEW calls, Owns(h, X, sockets, calls),
           Longer(X.queue, Y.queue, e), Y.departures = X.departures,
           e.kind \in {"frame", "left"} => e.by \in Peers /\ sockets[e.by].on = h,
           e.kind = "fetch" /\ e.by \in Peers =>
             /\ sockets[e.by].on = NoHost /\ calls[e.by].at = "queued" /\ calls[e.by].to = h[1]
             /\ \A i \in 1 .. Len(X.queue) : ~(X.queue[i].kind = "fetch" /\ X.queue[i].by = e.by)
    PROVE  Owns(h, Y, sockets, calls)
<1> DEFINE q == X.queue
           r == Y.queue
           a == Len(q)
           b == Len(r)
<1>1. a \in Nat /\ b = a + 1 /\ (\A i \in 1 .. a : r[i] = q[i]) /\ r[a + 1] = e
  BY DEF Longer
<1> HIDE DEF a, b
<1>2. \A i \in 1 .. b : (i \in 1 .. a /\ r[i] = q[i]) \/ (i = a + 1 /\ r[i] = e)
  BY <1>1
<1>3. ASSUME NEW i \in 1 .. b
      PROVE  /\ r[i].kind \in {"frame", "left"} => r[i].by \in Peers /\ sockets[r[i].by].on = h
             /\ r[i].kind = "fetch" /\ r[i].by \in Peers =>
                  sockets[r[i].by].on = NoHost /\ calls[r[i].by].at = "queued" /\ calls[r[i].by].to = h[1]
  <2>1. CASE i \in 1 .. a /\ r[i] = q[i]
    BY <2>1 DEF Owns, a
  <2>2. CASE r[i] = e
    BY <2>2
  <2> QED BY <1>2, <2>1, <2>2
<1>4. ASSUME NEW i \in 1 .. b, NEW j \in 1 .. b, r[i].kind = "fetch", r[j].kind = "fetch", r[i].by \in Peers,
             r[i].by = r[j].by
      PROVE  i = j
  <2>1. CASE i \in 1 .. a /\ r[i] = q[i] /\ j \in 1 .. a /\ r[j] = q[j]
    BY <1>4, <2>1 DEF Owns, a
  <2>2. CASE i \in 1 .. a /\ r[i] = q[i] /\ r[j] = e
    BY <1>4, <2>2 DEF a
  <2>3. CASE r[i] = e /\ j \in 1 .. a /\ r[j] = q[j]
    BY <1>4, <2>3 DEF a
  <2> QED BY <1>2, <2>1, <2>2, <2>3
<1> QED BY <1>3, <1>4 DEF Owns, b

(* The entries of a queue that lost its head. *)
LEMMA OwnsPopped ==
    ASSUME NEW h, NEW X, NEW Y, NEW sockets, NEW calls, Owns(h, X, sockets, calls),
           Shorter(X.queue, Y.queue), Y.departures = X.departures
    PROVE  Owns(h, Y, sockets, calls)
<1> DEFINE q == X.queue
           r == Y.queue
           a == Len(q)
           b == Len(r)
<1>1. a \in Nat /\ b = a - 1 /\ (\A i \in 1 .. b : r[i] = q[i + 1])
  BY DEF Shorter
<1> HIDE DEF a, b
<1>2. \A i \in 1 .. b : i + 1 \in 1 .. a /\ r[i] = q[i + 1]
  BY <1>1
<1>3. \A i \in 1 .. b :
        /\ r[i].kind \in {"frame", "left"} => r[i].by \in Peers /\ sockets[r[i].by].on = h
        /\ r[i].kind = "fetch" /\ r[i].by \in Peers =>
             sockets[r[i].by].on = NoHost /\ calls[r[i].by].at = "queued" /\ calls[r[i].by].to = h[1]
  BY <1>2 DEF Owns, a
<1>4. ASSUME NEW i \in 1 .. b, NEW j \in 1 .. b, r[i].kind = "fetch", r[j].kind = "fetch", r[i].by \in Peers,
             r[i].by = r[j].by
      PROVE  i = j
  <2>1. i + 1 = j + 1
    BY <1>2, <1>4 DEF Owns, a
  <2> QED BY <2>1
<1> QED BY <1>3, <1>4 DEF Owns, b

(* Sockets and calls of others may change. *)
LEMMA OwnsAgain ==
    ASSUME NEW h, NEW X, NEW sockets, NEW calls, NEW sockets2, NEW calls2, Owns(h, X, sockets, calls),
           \A i \in 1 .. Len(X.queue) : X.queue[i].by \in Peers /\ X.queue[i].kind \in {"fetch", "frame", "left"} =>
             /\ sockets2[X.queue[i].by].on = sockets[X.queue[i].by].on
             /\ X.queue[i].kind = "fetch" => calls2[X.queue[i].by] = calls[X.queue[i].by],
           \A j \in 1 .. Len(X.departures) :
             sockets2[X.departures[j].peer].on = sockets[X.departures[j].peer].on
    PROVE  Owns(h, X, sockets2, calls2)
<1>1. \A i \in 1 .. Len(X.queue) :
        LET e == X.queue[i]
        IN  /\ e.kind \in {"frame", "left"} => e.by \in Peers /\ sockets2[e.by].on = h
            /\ e.kind = "fetch" /\ e.by \in Peers =>
                 sockets2[e.by].on = NoHost /\ calls2[e.by].at = "queued" /\ calls2[e.by].to = h[1]
  BY DEF Owns
<1> QED BY <1>1 DEF Owns

(* A host's record changes in nothing that concerns a peer. *)
Aside(X, Y) ==
    /\ X.done <=> Y.done
    /\ \A p \in Peers, s \in SocketTypes : Heard(p, s, X) => Heard(p, s, Y)
    /\ \A h, sockets, calls : Owns(h, X, sockets, calls) => Owns(h, Y, sockets, calls)

(* Two such changes, one after the other. *)
LEMMA AsideTrans ==
    ASSUME NEW X, NEW Y, NEW Z, Aside(X, Y), Aside(Y, Z)
    PROVE  Aside(X, Z)
BY DEF Aside

(* Timers and the like. *)
LEMMA AsideSame ==
    ASSUME NEW X \in Hosted, NEW Y, Y.queue = X.queue, Y.departures = X.departures, Y.done <=> X.done,
           X.closed => Y.closed
    PROVE  Aside(X, Y)
<1>1. \A p \in Peers, s \in SocketTypes : Heard(p, s, X) => Heard(p, s, Y)
  BY HeardBeside DEF Beside
<1>2. \A h, sockets, calls : Owns(h, X, sockets, calls) => Owns(h, Y, sockets, calls)
  BY DEF Owns
<1> QED BY <1>1, <1>2 DEF Aside

(* An alarm, a close, or somebody else's request waits for the lock. *)
LEMMA AsideQueued ==
    ASSUME NEW X \in Hosted, NEW e \in Entries,
           e.kind \in {"alarm", "close"} \/ (e.kind = "fetch" /\ e.by \notin Peers)
    PROVE  Aside(X, Queued(X, e))
<1> DEFINE Y == Queued(X, e)
<1>1. /\ Longer(X.queue, Y.queue, e) /\ Y.departures = X.departures /\ Y.done = X.done /\ Y.closed = X.closed
  <2>1. X.queue \in Seq(Entries)
    BY DEF Hosted
  <2>2. Len(X.queue) \in Nat
    BY <2>1
  <2> QED BY <2>2, QueuedIs DEF Longer
<1> HIDE DEF Y
<1>2. ASSUME NEW p \in Peers, NEW s \in SocketTypes, Heard(p, s, X) PROVE Heard(p, s, Y)
  <2>1. ~FrameOf(p, e) /\ ~LeftOf(p, e)
    BY DEF FrameOf, LeftOf
  <2> QED BY <1>1, <1>2, <2>1, HeardBeside DEF Beside
<1>3. ASSUME NEW h, NEW sockets, NEW calls, Owns(h, X, sockets, calls) PROVE Owns(h, Y, sockets, calls)
  BY <1>1, <1>3, OwnsQueued
<1> QED BY <1>1, <1>2, <1>3 DEF Aside, Y

(* An alarm or a request is done. *)
LEMMA AsidePopped ==
    ASSUME NEW X \in Hosted, X.queue # <<>>, Head(X.queue).kind \in {"alarm", "fetch"}
    PROVE  Aside(X, Popped(X))
<1> DEFINE Y == Popped(X)
<1>1. /\ Shorter(X.queue, Y.queue) /\ Y.departures = X.departures /\ Y.done = X.done /\ Y.closed = X.closed
      /\ Head(X.queue) = X.queue[1]
  BY PoppedIs DEF Shorter
<1> HIDE DEF Y
<1>2. ASSUME NEW p \in Peers, NEW s \in SocketTypes, Heard(p, s, X) PROVE Heard(p, s, Y)
  <2>1. ~FrameOf(p, X.queue[1]) /\ ~LeftOf(p, X.queue[1])
    BY <1>1 DEF FrameOf, LeftOf
  <2> QED BY <1>1, <1>2, <2>1, HeardBeside DEF Beside
<1>3. ASSUME NEW h, NEW sockets, NEW calls, Owns(h, X, sockets, calls) PROVE Owns(h, Y, sockets, calls)
  BY <1>1, <1>3, OwnsPopped
<1> QED BY <1>1, <1>2, <1>3 DEF Aside, Y

(* close() is called. *)
LEMMA AsideClosed ==
    ASSUME NEW X \in Hosted
    PROVE  Aside(X, CloseCalled(X))
<1> DEFINE Z == [X EXCEPT !.closed = TRUE, !.timer = "none"]
           e == Entry("close", NoHost, 0)
<1>1. /\ Z \in Hosted /\ Z.queue = X.queue /\ Z.departures = X.departures /\ Z.done = X.done /\ Z.closed
  BY DEF Hosted, Alarms
<1>2. e \in Entries /\ e.kind = "close"
  BY DEF Entry, Entries, EntryKinds
<1>3. CloseCalled(X) = Queued(Z, e)
  BY DEF CloseCalled
<1> HIDE DEF Z, e
<1>4. Aside(X, Z)
  BY <1>1, AsideSame
<1>5. Aside(Z, Queued(Z, e))
  BY <1>1, <1>2, AsideQueued
<1> QED BY <1>3, <1>4, <1>5, AsideTrans

(* A step that concerns no peer. *)
LEMMA AsideAll ==
    ASSUME ClientTypes, PInv, \A h \in Hosts : Aside(host[h], host'[h]), peer' = peer,
           \A p \in Peers : call'[p] = call[p]
    PROVE  PInv'
<1>1. ASSUME NEW p \in Peers PROVE PeerOK(p)'
  <2>1. PeerOK(p) /\ peer[p] \in SocketTypes
    BY DEF PInv, ClientTypes
  <2>2. peer[p].on \in Hosts => ~(host'[peer[p].on].done) /\ Heard(p, peer[p], host'[peer[p].on])
    BY <2>1 DEF PeerOK, Aside
  <2> QED BY <2>1, <2>2 DEF PeerOK
<1>2. ASSUME NEW h \in Hosts PROVE Owns(h, host'[h], peer', call')
  <2>1. Owns(h, host'[h], peer, call)
    BY DEF PInv, Aside
  <2> QED BY <2>1 DEF Owns
<1> QED BY <1>1, <1>2 DEF PInv

(* Such a step of one host. *)
LEMMA AsideStep ==
    ASSUME HInv, PInv, NEW h \in Hosts, NEW X, Aside(host[h], X), host' = [host EXCEPT ![h] = X], peer' = peer,
           \A p \in Peers : call'[p] = call[p]
    PROVE  PInv'
<1>1. host \in [Hosts -> Hosted] /\ ClientTypes
  BY DEF HInv, HostTypes
<1>2. ASSUME NEW g \in Hosts PROVE Aside(host[g], host'[g])
  <2>1. CASE g = h
    BY <1>1, <2>1
  <2>2. CASE g # h
    <3>1. host'[g] = host[g]
      BY <1>1, <2>2
    <3> QED BY <3>1 DEF Aside
  <2> QED BY <2>1, <2>2
<1> QED BY <1>1, <1>2, AsideAll

(* afterAlarm, of a host whose alarm is done. *)
LEMMA AsideAfter ==
    ASSUME HInv, PInv, NEW h \in Hosts, NEW X \in Hosted, Aside(host[h], X), AfterAlarm(h, X),
           UNCHANGED <<call, peer>>
    PROVE  PInv'
<1>1. CASE host' = [host EXCEPT ![h] = X]
  BY <1>1, AsideStep
<1>2. CASE host' = [host EXCEPT ![h] = CloseCalled(X)]
  <2>1. Aside(host[h], CloseCalled(X))
    BY AsideClosed, AsideTrans
  <2> QED BY <1>2, <2>1, AsideStep
<1> QED BY <1>1, <1>2 DEF AfterAlarm, Evicted

(* Timers, alarms and closes, as the peers see them. *)
LEMMA TimerFiresAside ==
    ASSUME HInv, PInv, NEW h \in Hosts, TimerFires(h)
    PROVE  PInv'
<1> DEFINE Z == [host[h] EXCEPT !.timer = "none"]
           e == Entry("alarm", NoHost, 0)
<1>1. host[h] \in Hosted /\ Z \in Hosted
  <2>1. host[h] \in Hosted
    BY DEF HInv, HostTypes
  <2> QED BY <2>1 DEF Hosted, Alarms
<1>2. /\ Z.queue = host[h].queue /\ Z.departures = host[h].departures /\ Z.done = host[h].done
      /\ Z.closed = host[h].closed
  BY <1>1 DEF Hosted
<1>3. e \in Entries /\ e.kind = "alarm"
  BY DEF Entry, Entries, EntryKinds
<1>4. host' = [host EXCEPT ![h] = Queued(Z, e)] /\ peer' = peer /\ call' = call
  BY DEF TimerFires
<1> HIDE DEF Z, e
<1>5. Aside(host[h], Z) /\ Aside(Z, Queued(Z, e))
  BY <1>1, <1>2, <1>3, AsideSame, AsideQueued
<1>6. Aside(host[h], Queued(Z, e))
  BY <1>5, AsideTrans
<1> QED BY <1>4, <1>6, AsideStep

(* An alarm's entry popped, its timer armed or not. *)
LEMMA AlarmPopped ==
    ASSUME HInv, NEW h \in Hosts, Running(h, "alarm"), NEW Y \in Hosted, Y.queue = Popped(host[h]).queue,
           Y.departures = Popped(host[h]).departures, Y.done = Popped(host[h]).done,
            Y.closed = Popped(host[h]).closed
    PROVE  Aside(host[h], Y)
<1>1. host[h] \in Hosted /\ host[h].queue # <<>> /\ Head(host[h].queue).kind = "alarm"
  BY RunningOK
<1>2. Popped(host[h]) \in Hosted /\ Aside(host[h], Popped(host[h]))
  BY <1>1, AsidePopped, PoppedIs
<1>3. Aside(Popped(host[h]), Y)
  BY <1>2, AsideSame
<1> QED BY <1>2, <1>3, AsideTrans

(* An alarm entry gets the lock: no peer notices. *)
LEMMA RunAlarmAside ==
    ASSUME HInv, PInv, NEW h \in Hosts, RunAlarm(h)
    PROVE  PInv'
<1>1. Running(h, "alarm") /\ UNCHANGED <<call, peer>> /\ host[h] \in Hosted
  BY DEF RunAlarm, HInv, HostTypes
<1>2. CASE host' = [host EXCEPT ![h].running = TRUE]
  <2> DEFINE X == [host[h] EXCEPT !.running = TRUE]
  <2>1. host' = [host EXCEPT ![h] = X]
    BY <1>2
  <2>2. /\ X.queue = host[h].queue /\ X.departures = host[h].departures /\ X.done = host[h].done
        /\ X.closed = host[h].closed
    BY <1>1 DEF Hosted
  <2> HIDE DEF X
  <2>3. Aside(host[h], X)
    BY <1>1, <2>2, AsideSame
  <2> QED BY <1>1, <2>1, <2>3, AsideStep
<1>3. CASE \E X : /\ X = Popped(host[h]) \/ X = [Popped(host[h]) EXCEPT !.timer = Armed(Popped(host[h]), "later")]
                  /\ AfterAlarm(h, X)
  <2>1. PICK X : /\ X = Popped(host[h]) \/ X = [Popped(host[h]) EXCEPT !.timer = Armed(Popped(host[h]), "later")]
                 /\ AfterAlarm(h, X)
    BY <1>3
  <2>2. Popped(host[h]) \in Hosted
    BY <1>1, RunningOK, PoppedIs
  <2>3. /\ X \in Hosted /\ X.queue = Popped(host[h]).queue /\ X.departures = Popped(host[h]).departures
        /\ X.done = Popped(host[h]).done /\ X.closed = Popped(host[h]).closed
    <3> DEFINE Y == Popped(host[h])
    <3>1. Armed(Y, "later") \in Alarms /\ Y \in Hosted
      BY <2>2 DEF Armed, Hosted, Alarms, Dues
    <3>2. X = Y \/ X = [Y EXCEPT !.timer = Armed(Y, "later")]
      BY <2>1
    <3> HIDE DEF Y
    <3>3. X \in Hosted /\ X.queue = Y.queue /\ X.departures = Y.departures /\ X.done = Y.done /\ X.closed = Y.closed
      BY <3>1, <3>2 DEF Hosted
    <3> QED BY <3>3 DEF Y
  <2>4. Aside(host[h], X)
    BY <1>1, <2>3, AlarmPopped
  <2> QED BY <1>1, <2>1, <2>3, <2>4, AsideAfter
<1> QED BY <1>2, <1>3 DEF RunAlarm

(* An alarm handler ends: no peer notices. *)
LEMMA AlarmEndsAside ==
    ASSUME HInv, PInv, NEW h \in Hosts, AlarmReturns(h) \/ AlarmThrows(h)
    PROVE  PInv'
<1>1. Running(h, "alarm") /\ UNCHANGED <<call, peer>> /\ Popped(host[h]) \in Hosted
  <2>1. Running(h, "alarm") /\ UNCHANGED <<call, peer>>
    BY DEF AlarmReturns, AlarmThrows
  <2> QED BY <2>1, RunningOK, PoppedIs
<1> DEFINE Y == Popped(host[h])
<1>2. PICK retries \in 0 .. ALARM_RETRY_LIMIT, row \in Alarms :
        AfterAlarm(h, [[Y EXCEPT !.retries = retries] EXCEPT !.timer = Armed([Y EXCEPT !.retries = retries], row)])
  <2>1. CASE AlarmReturns(h)
    <3>1. 0 \in 0 .. ALARM_RETRY_LIMIT
      BY LimitsAssumption
    <3> QED BY <2>1, <3>1 DEF AlarmReturns
  <2>2. CASE AlarmThrows(h)
    <3>1. PICK set \in Alarms :
            LET again == set = "none" /\ host[h].retries < ALARM_RETRY_LIMIT
                row == IF again THEN "later" ELSE set
                popped == [Y EXCEPT !.retries = IF again THEN @ + 1 ELSE @]
            IN  AfterAlarm(h, [popped EXCEPT !.timer = Armed(popped, row)])
      BY <2>2 DEF AlarmThrows
    <3> DEFINE again == set = "none" /\ host[h].retries < ALARM_RETRY_LIMIT
               row == IF again THEN "later" ELSE set
               retries == IF again THEN Y.retries + 1 ELSE Y.retries
    <3>2. row \in Alarms
      BY DEF Alarms, Dues
    <3>3. Y.retries = host[h].retries /\ host[h].retries \in 0 .. ALARM_RETRY_LIMIT
      <4>1. host[h] \in Hosted /\ host[h].queue # <<>>
        BY <1>1, RunningOK
      <4> QED BY <4>1, PoppedIs DEF Hosted
    <3>4. retries \in 0 .. ALARM_RETRY_LIMIT
      BY <3>3, LimitsAssumption
    <3>5. [Y EXCEPT !.retries = IF again THEN @ + 1 ELSE @] = [Y EXCEPT !.retries = retries]
      OBVIOUS
    <3>6. AfterAlarm(h, [[Y EXCEPT !.retries = retries] EXCEPT !.timer = Armed([Y EXCEPT !.retries = retries], row)])
      BY <3>1, <3>5
    <3> HIDE DEF again, row, retries, Y
    <3> QED BY <3>2, <3>4, <3>6
  <2> QED BY <2>1, <2>2
<1> DEFINE Z == [Y EXCEPT !.retries = retries]
           X == [Z EXCEPT !.timer = Armed(Z, row)]
<1>3. /\ X \in Hosted /\ X.queue = Y.queue /\ X.departures = Y.departures /\ X.done = Y.done /\ X.closed = Y.closed
  <2>1. Y \in Hosted
    BY <1>1
  <2> HIDE DEF Y
  <2>2. /\ Z \in Hosted /\ Z.queue = Y.queue /\ Z.departures = Y.departures /\ Z.done = Y.done
        /\ Z.closed = Y.closed
    BY <2>1 DEF Hosted
  <2>3. Armed(Z, row) \in Alarms
    BY <2>2 DEF Armed, Hosted, Alarms
  <2> HIDE DEF Z
  <2> QED BY <2>2, <2>3 DEF Hosted
<1>4. Aside(host[h], X)
  <2> HIDE DEF X
  <2> QED BY <1>1, <1>3, AlarmPopped
<1>5. AfterAlarm(h, X)
  BY <1>2
<1> HIDE DEF X
<1> QED BY <1>1, <1>3, <1>4, <1>5, AsideAfter

(* A host is asked to close: what is queued stays in front of the close. *)
LEMMA EvictAside ==
    ASSUME HInv, PInv, NEW n \in Names, EvictIdle(n) \/ Release(n)
    PROVE  PInv'
<1> DEFINE h == <<n, resident[n]>>
           X == [host[h] EXCEPT !.released = TRUE]
<1>1. h \in Hosts /\ host[h] \in Hosted
  <2>1. h \in Hosts
    BY HostPair DEF EvictIdle, Release, HInv, HostTypes
  <2> HIDE DEF h
  <2> QED BY <2>1 DEF HInv, HostTypes
<1>2. /\ host' = [host EXCEPT ![h] = CloseCalled(host[h])] \/ host' = [host EXCEPT ![h] = X]
      /\ peer' = peer /\ call' = call
  BY DEF EvictIdle, Release, Evicted
<1> HIDE DEF h
<1>3. Aside(host[h], CloseCalled(host[h]))
  BY <1>1, AsideClosed
<1>4. Aside(host[h], X)
  <2>1. /\ X.queue = host[h].queue /\ X.departures = host[h].departures /\ X.done = host[h].done
        /\ X.closed = host[h].closed
    BY <1>1 DEF Hosted
  <2> HIDE DEF X
  <2> QED BY <1>1, <2>1, AsideSame
<1> HIDE DEF X
<1> QED BY <1>1, <1>2, <1>3, <1>4, AsideStep

(* Time, pause and resume leave queues as they are, but for the close pause adds. *)
LEMMA TimeAside ==
    ASSUME HInv, PInv,
           (\E n \in Names : ComesDue(n)) \/ Pause \/ PauseEnds \/ Resume
    PROVE  PInv'
<1>1. host \in [Hosts -> Hosted] /\ ClientTypes
  BY DEF HInv, HostTypes
<1>2. peer' = peer /\ call' = call
  BY DEF ComesDue, Pause, PauseEnds, Resume
<1>3. ASSUME NEW h \in Hosts PROVE Aside(host[h], host'[h])
  <2>1. ASSUME NEW n \in Names, ComesDue(n) PROVE Aside(host[h], host'[h])
    <3> DEFINE Z == [host[h] EXCEPT !.timer = Sooner(@)]
    <3>1. host'[h] = Z \/ host'[h] = host[h]
      BY <1>1, <2>1 DEF ComesDue
    <3>2. Z.queue = host[h].queue /\ Z.departures = host[h].departures /\ Z.done = host[h].done
          /\ Z.closed = host[h].closed
      BY <1>1 DEF Hosted
    <3> HIDE DEF Z
    <3> QED BY <1>1, <3>1, <3>2, AsideSame
  <2>2. CASE Pause
    <3>1. host'[h] = CloseCalled(host[h]) \/ host'[h] = host[h]
      BY <1>1, <2>2 DEF Pause
    <3> QED BY <1>1, <3>1, AsideClosed, AsideSame
  <2>3. CASE PauseEnds \/ Resume
    <3>1. host'[h] = host[h]
      BY <2>3 DEF PauseEnds, Resume
    <3> QED BY <1>1, <3>1, AsideSame
  <2> QED BY <2>1, <2>2, <2>3
<1> QED BY <1>1, <1>2, <1>3, AsideAll

(* A call by c alone leaves the entries of the queues whose they are. *)
LEMMA CallsOwn ==
    ASSUME PInv, NEW c, \A p \in Peers : p # c => call'[p] = call[p], c \in Peers => call[c].at # "queued",
           NEW h \in Hosts
    PROVE  Owns(h, host[h], peer, call')
<1>1. Owns(h, host[h], peer, call)
  BY DEF PInv
<1>2. \A i \in 1 .. Len(host[h].queue) :
        host[h].queue[i].kind = "fetch" /\ host[h].queue[i].by \in Peers =>
          call'[host[h].queue[i].by] = call[host[h].queue[i].by]
  BY <1>1 DEF Owns
<1> HIDE DEF PInv
<1> QED BY <1>1, <1>2, OwnsAgain

(* fetch, as the peers see it. *)
LEMMA FetchAside ==
    ASSUME HInv, PInv, NEW c \in Callers, NEW n \in Names, Fetch(c, n), peer' = peer,
           c \in Peers => peer[c].on = NoHost /\ call[c].at # "queued"
    PROVE  PInv'
<1> DEFINE e == Entry("fetch", c, 0)
           X == HostFor(n)
           Y == [Queued(X, e) EXCEPT !.released = FALSE]
           g == <<n, SlotFor(n)>>
<1>1. \A p \in Peers : p # c => call'[p] = call[p]
  <2>1. call \in [Callers -> [to : Names \cup {""}, at : CallStates]]
    BY DEF HInv, ClientTypes
  <2>2. \A p \in Peers : p \in Callers
    BY NoHostIsNone
  <2>3. \E v : call' = [call EXCEPT ![c] = v]
    BY DEF Fetch, Told
  <2> QED BY <2>1, <2>2, <2>3
<1>2. \A h \in Hosts : Owns(h, host[h], peer, call')
  BY <1>1, CallsOwn
<1>3. \A p \in Peers : call'[p].at \in {"waiting", "woken"} => peer[p].on = NoHost
  BY <1>1 DEF PInv, PeerOK
<1>4. CASE UNCHANGED host
  <2>1. \A p \in Peers : PeerOK(p)'
    BY <1>3, <1>4 DEF PInv, PeerOK
  <2> QED BY <1>2, <1>4, <2>1 DEF PInv
<1>5. CASE /\ Closing(n) = {} /\ host' = [host EXCEPT ![g] = Y]
           /\ call' = [call EXCEPT ![c] = [to |-> n, at |-> "queued"]]
  <2>1. /\ SlotFor(n) \in Slots /\ (resident[n] = 0 => \A i \in Slots : host[<<n, i>>] = Vacant)
        /\ resident[n] # 0 => SlotFor(n) = resident[n]
    BY <1>5, SlotOK DEF SlotFor
  <2>2. g \in Hosts /\ g[1] = n /\ host \in [Hosts -> Hosted] /\ host[g] \in Hosted
    <3>1. g \in Hosts /\ g[1] = n
      BY <2>1, HostPair
    <3> HIDE DEF g
    <3> QED BY <3>1 DEF HInv, HostTypes
  <2>3. resident[n] # 0 => X = host[g]
    BY <2>1 DEF HostFor
  <2>4. resident[n] = 0 => X = NewHost(n) /\ host[g] = Vacant
    BY <2>1 DEF HostFor
  <2>5. resident[n] = 0 => X \in Hosted /\ X.queue = <<>> /\ X.departures = <<>> /\ ~X.done
    <3>1. Vacant \in Hosted /\ Vacant.queue = <<>> /\ Vacant.departures = <<>> /\ alarm[n] \in Alarms
      BY VacantOK DEF Vacant, HInv, HostTypes
    <3>2. NewHost(n) \in Hosted /\ NewHost(n).queue = <<>> /\ NewHost(n).departures = <<>> /\ ~NewHost(n).done
      BY <3>1 DEF NewHost, Hosted
    <3> QED BY <2>4, <3>2
  <2>6. X \in Hosted /\ ~X.done
    <3>1. resident[n] # 0 => ~host[g].done
      BY <1>5, <2>1, SlotOK
    <3> HIDE DEF X, g
    <3> QED BY <2>2, <2>3, <2>5, <3>1
  <2>7. e \in Entries /\ e.kind = "fetch" /\ e.by = c
    BY DEF Entry, Entries, EntryKinds
  <2> HIDE DEF X, e, g
  <2>8. /\ Longer(X.queue, Y.queue, e) /\ Y.departures = X.departures /\ Y.done = X.done /\ Y.closed = X.closed
    <3>1. X.queue \in Seq(Entries)
      BY <2>6 DEF Hosted
    <3>2. Len(X.queue) \in Nat
      BY <3>1
    <3> DEFINE Z == Queued(X, e)
    <3>3. Z \in Hosted /\ Longer(X.queue, Z.queue, e) /\ Z.departures = X.departures /\ Z.done = X.done
          /\ Z.closed = X.closed
      BY <2>6, <2>7, <3>2, QueuedIs DEF Longer
    <3> HIDE DEF Z
    <3>4. Y.queue = Z.queue /\ Y.departures = Z.departures /\ Y.done = Z.done /\ Y.closed = Z.closed
      BY <3>3 DEF Hosted, Z
    <3> QED BY <3>3, <3>4
  <2> HIDE DEF Y
  <2>9. ASSUME NEW p \in Peers PROVE PeerOK(p)'
    <3>1. PeerOK(p) /\ peer[p] \in SocketTypes
      BY DEF PInv, HInv, ClientTypes
    <3>2. CASE peer[p].on = g
      <4>1. host[g] = X
        BY <2>2, <2>3, <2>4, <3>1, <3>2, VacantOK DEF PeerOK
      <4>2. ~FrameOf(p, e) /\ ~LeftOf(p, e)
        BY <2>7 DEF FrameOf, LeftOf
      <4>3. Heard(p, peer[p], Y)
        BY <2>2, <2>6, <2>8, <3>1, <3>2, <4>1, <4>2, HeardBeside DEF PeerOK, Beside
      <4> QED BY <1>3, <1>5, <2>2, <2>6, <2>8, <3>1, <3>2, <4>3 DEF PeerOK
    <3>3. CASE peer[p].on # g
      <4>1. peer[p].on \in Hosts => host'[peer[p].on] = host[peer[p].on]
        BY <1>5, <2>2, <3>3
      <4> QED BY <1>3, <3>1, <4>1 DEF PeerOK
    <3> QED BY <3>2, <3>3
  <2>10. ASSUME NEW h \in Hosts PROVE Owns(h, host'[h], peer', call')
    <3>1. CASE h # g
      BY <1>2, <1>5, <2>2, <3>1
    <3>2. CASE h = g
      <4>1. Owns(g, X, peer, call') /\ Owns(g, X, peer, call)
        <5>1. CASE resident[n] # 0
          BY <1>2, <2>2, <2>3, <5>1 DEF PInv
        <5>2. CASE resident[n] = 0
          BY <2>5, <5>2, EmptySeq DEF Owns
        <5> QED BY <5>1, <5>2
      <4>2. c \in Peers => /\ call'[c].at = "queued" /\ call'[c].to = g[1]
                           /\ \A i \in 1 .. Len(X.queue) : ~(X.queue[i].kind = "fetch" /\ X.queue[i].by = c)
        <5>1. call \in [Callers -> [to : Names \cup {""}, at : CallStates]]
          BY DEF HInv, ClientTypes
        <5>2. call'[c] = [to |-> n, at |-> "queued"]
          BY <1>5, <5>1
        <5> QED BY <2>2, <4>1, <5>2 DEF Owns
      <4>3. Owns(g, Y, peer, call')
        BY <2>7, <2>8, <4>1, <4>2, OwnsQueued
      <4> QED BY <1>5, <2>2, <3>2, <4>3
    <3> QED BY <3>1, <3>2
  <2> QED BY <2>9, <2>10 DEF PInv
<1> QED BY <1>4, <1>5 DEF Fetch, Open

(* A client asks for its actor: its entry goes behind those of the peers. *)
LEMMA RequestAside ==
    ASSUME HInv, PInv, NEW c \in Peers \cup Requests, Request(c)
    PROVE  PInv'
<1>1. c \in Callers /\ Door[c] \in Names
  BY NamesAssumption DEF Callers
<1>2. call[c].at # "queued" /\ (c \in Peers => peer[c].on = NoHost) /\ Fetch(c, Door[c]) /\ peer' = peer
  <2>1. call[c] = NoCall /\ NoCall.at = "none"
    BY DEF Request, NoCall
  <2> QED BY <2>1 DEF Request
<1> QED BY <1>1, <1>2, FetchAside

(* So does the entry of a call that was woken. *)
LEMMA RetryAside ==
    ASSUME HInv, PInv, NEW c \in Callers, Retry(c)
    PROVE  PInv'
<1>1. call[c].to \in Names /\ call[c].at = "woken" /\ Fetch(c, call[c].to) /\ peer' = peer
  BY DEF HInv, ClientTypes, Retry
<1>2. c \in Peers => peer[c].on = NoHost
  BY <1>1 DEF PInv, PeerOK
<1> QED BY <1>1, <1>2, FetchAside

(* A host is not a peer. *)
LEMMA HostsAreNoPeers == \A h \in Hosts : h \notin Peers
BY CallersAssumption

(* So does the entry of a turn. *)
LEMMA TurnCallsAside ==
    ASSUME HInv, PInv, NEW h \in Hosts, NEW m \in Names, TurnCalls(h, m)
    PROVE  PInv'
<1>1. h \in Callers /\ h \notin Peers /\ Fetch(h, m) /\ peer' = peer
  BY NoHostIsNone, HostsAreNoPeers DEF TurnCalls
<1> QED BY <1>1, FetchAside

(* A cold timer opens an actor nobody has in memory. *)
LEMMA ColdFiresAside ==
    ASSUME HInv, PInv, NEW n \in Names, ColdFires(n)
    PROVE  PInv'
<1> DEFINE g == <<n, SlotFor(n)>>
           Y == [NewHost(n) EXCEPT !.released = TRUE]
<1>1. \A i \in Slots : host[<<n, i>>].done
  BY DEF HInv, NameOK, ColdFires
<1>2. Closing(n) = {}
  BY <1>1 DEF Closing
<1>3. resident[n] = 0 /\ SlotFor(n) \in Slots
  BY <1>1, <1>2, SlotOK DEF HInv, HostTypes
<1>4. host' = [host EXCEPT ![g] = Y] /\ peer' = peer /\ call' = call
  BY <1>3 DEF ColdFires, HostFor, Open
<1>5. g \in Hosts /\ host[g].done /\ host \in [Hosts -> Hosted]
  BY <1>1, <1>3, HostPair DEF HInv, HostTypes
<1>6. Y.queue = <<>> /\ Y.departures = <<>>
  <2>1. Vacant \in Hosted /\ Vacant.queue = <<>> /\ Vacant.departures = <<>> /\ alarm[n] \in Alarms
    BY VacantOK DEF Vacant, HInv, HostTypes
  <2>2. NewHost(n) \in Hosted /\ NewHost(n).queue = <<>> /\ NewHost(n).departures = <<>>
    BY <2>1 DEF NewHost, Hosted
  <2> QED BY <2>2 DEF Hosted
<1> HIDE DEF g, Y
<1>7. ASSUME NEW p \in Peers PROVE PeerOK(p)'
  <2>1. PeerOK(p)
    BY DEF PInv
  <2>2. peer[p].on \in Hosts => host'[peer[p].on] = host[peer[p].on]
    BY <1>4, <1>5, <2>1 DEF PeerOK
  <2> QED BY <1>4, <2>1, <2>2 DEF PeerOK
<1>8. ASSUME NEW h \in Hosts PROVE Owns(h, host'[h], peer', call')
  <2>1. CASE h = g
    BY <1>4, <1>5, <1>6, <2>1, EmptySeq DEF Owns
  <2>2. CASE h # g
    BY <1>4, <1>5, <2>2 DEF PInv
  <2> QED BY <2>1, <2>2
<1> QED BY <1>7, <1>8 DEF PInv

(* A host's handler has returned: an alarm it set only moves the timer. *)
LEMMA HandledIs ==
    ASSUME NEW h \in Hosts, NEW Y \in Hosted, Handled(h, Y)
    PROVE  \E X \in Hosted :
             /\ host' = [host EXCEPT ![h] = X]
             /\ X.queue = Y.queue /\ X.departures = Y.departures /\ X.done = Y.done /\ X.closed = Y.closed
<1>1. CASE host' = [host EXCEPT ![h] = Y]
  BY <1>1
<1>2. ASSUME NEW row \in Alarms, host' = [host EXCEPT ![h] = [Y EXCEPT !.timer = Armed(Y, row)]]
      PROVE  \E X \in Hosted :
               /\ host' = [host EXCEPT ![h] = X]
               /\ X.queue = Y.queue /\ X.departures = Y.departures /\ X.done = Y.done /\ X.closed = Y.closed
  <2> DEFINE X == [Y EXCEPT !.timer = Armed(Y, row)]
  <2>1. Armed(Y, row) \in Alarms
    BY DEF Armed, Hosted, Alarms
  <2>2. X \in Hosted /\ X.queue = Y.queue /\ X.departures = Y.departures /\ X.done = Y.done /\ X.closed = Y.closed
    BY <2>1 DEF Hosted
  <2>3. host' = [host EXCEPT ![h] = X]
    BY <1>2
  <2> HIDE DEF X
  <2> QED BY <2>2, <2>3
<1> QED BY <1>1, <1>2 DEF Handled

(* A step of host h, which becomes X, and of peer p: what others see of it. *)
OthersStay(p) == \A o \in Peers : o # p => peer'[o] = peer[o] /\ call'[o] = call[o]
OthersHeard(p, h, X) == \A o \in Peers : o # p /\ peer[o].on = h => Heard(o, peer[o], X)
OthersOwn(h) == \A g \in Hosts : g # h => Owns(g, host[g], peer', call')

(* Then every other peer is as it was. *)
LEMMA SocketStep ==
    ASSUME HInv, PInv, NEW h \in Hosts, ~host[h].done, NEW X, ~X.done, host' = [host EXCEPT ![h] = X],
           NEW p, OthersStay(p), PeerOK(p)', OthersHeard(p, h, X), Owns(h, X, peer', call'), OthersOwn(h)
    PROVE  PInv'
<1> USE DEF OthersStay, OthersHeard, OthersOwn
<1>1. \A g \in Hosts : host'[g] = IF g = h THEN X ELSE host[g]
  BY DEF HInv, HostTypes
<1>2. ASSUME NEW o \in Peers PROVE PeerOK(o)'
  <2>1. CASE o = p
    BY <2>1
  <2>2. CASE o # p
    <3>1. PeerOK(o) /\ peer'[o] = peer[o] /\ call'[o] = call[o]
      BY <2>2 DEF PInv
    <3>2. peer[o].on \in Hosts => ~(host'[peer[o].on].done) /\ Heard(o, peer[o], host'[peer[o].on])
      BY <1>1, <2>2, <3>1 DEF PeerOK
    <3> QED BY <3>1, <3>2 DEF PeerOK
  <2> QED BY <2>1, <2>2
<1>3. ASSUME NEW g \in Hosts PROVE Owns(g, host'[g], peer', call')
  BY <1>1
<1> QED BY <1>2, <1>3 DEF PInv

(* p has nothing in this host's queue. *)
Absent(p, X) ==
    /\ \A i \in 1 .. Len(X.queue) : ~(X.queue[i].kind \in {"fetch", "frame", "left"} /\ X.queue[i].by = p)
    /\ NoDeparture(p, X.departures)

(* Its socket and its call may change. *)
LEMMA OwnsAbsent ==
    ASSUME NEW h, NEW X \in Hosted, NEW p, NEW sockets, NEW calls, NEW sockets2, NEW calls2, Owns(h, X,
           sockets, calls),
           Absent(p, X), \A o \in Peers : o # p => sockets2[o].on = sockets[o].on /\ calls2[o] = calls[o]
    PROVE  Owns(h, X, sockets2, calls2)
<1>1. X.departures \in Seq(Departures)
  BY DEF Hosted
<1>2. ASSUME NEW j \in 1 .. Len(X.departures) PROVE X.departures[j].peer \in Peers /\ X.departures[j].peer # p
  <2>1. X.departures[j] \in Departures
    BY <1>1
  <2> QED BY <2>1 DEF Departures, Absent, NoDeparture
<1>3. \A j \in 1 .. Len(X.departures) : sockets2[X.departures[j].peer].on = sockets[X.departures[j].peer].on
  BY <1>2
<1>4. \A i \in 1 .. Len(X.queue) : X.queue[i].by \in Peers /\ X.queue[i].kind \in {"fetch", "frame", "left"} =>
        /\ sockets2[X.queue[i].by].on = sockets[X.queue[i].by].on
        /\ X.queue[i].kind = "fetch" => calls2[X.queue[i].by] = calls[X.queue[i].by]
  BY DEF Absent
<1> QED BY <1>3, <1>4, OwnsAgain

(* What a peer has is where its socket is. *)
LEMMA AbsentElsewhere ==
    ASSUME HInv, PInv, NEW p \in Peers, NEW h \in Hosts, peer[p].on = h, NEW g \in Hosts, g # h
    PROVE  Absent(p, host[g]) /\ host[g] \in Hosted
<1>1. Owns(g, host[g], peer, call) /\ host[g] \in Hosted /\ h # NoHost
  BY NoHostIsNone DEF PInv, HInv, HostTypes
<1> QED BY <1>1 DEF Owns, Absent, NoDeparture

(* A peer that asks has that one entry anywhere. *)
LEMMA AbsentBehind ==
    ASSUME HInv, PInv, NEW h \in Hosts, Running(h, "fetch"), Current(h).by \in Peers
    PROVE  LET p == Current(h).by
           IN  /\ Absent(p, Popped(host[h]))
               /\ \A g \in Hosts : g # h => Absent(p, host[g])
<1> DEFINE p == Current(h).by
<1>1. /\ ~host[h].done /\ host[h] \in Hosted /\ host[h].queue # <<>> /\ Head(host[h].queue).kind = "fetch"
  BY RunningOK
<1> DEFINE q == host[h].queue
           r == Popped(host[h]).queue
<1>2. /\ Head(q) = q[1] /\ 1 \in 1 .. Len(q) /\ Popped(host[h]).departures = host[h].departures
      /\ \A i \in 1 .. Len(r) : r[i] = q[i + 1] /\ i + 1 \in 1 .. Len(q) /\ i + 1 # 1
  <2>1. /\ Head(q) = q[1] /\ Len(q) \in Nat \ {0} /\ Popped(host[h]).departures = host[h].departures
        /\ Len(r) = Len(q) - 1 /\ \A i \in 1 .. Len(r) : r[i] = q[i + 1]
    BY <1>1, PoppedIs
  <2> DEFINE a == Len(q)
             b == Len(r)
  <2>2. a \in Nat /\ a # 0 /\ b = a - 1
    BY <2>1
  <2> HIDE DEF a, b
  <2>3. 1 \in 1 .. a /\ \A i \in 1 .. b : i + 1 \in 1 .. a /\ i + 1 # 1
    BY <2>2
  <2> QED BY <2>1, <2>3 DEF a, b
<1>3. q[1].kind = "fetch" /\ q[1].by = p /\ p \in Peers
  BY <1>1, <1>2 DEF Current
<1> HIDE DEF p, r
<1>4. Owns(h, host[h], peer, call)
  BY DEF PInv
<1>5. peer[p].on = NoHost /\ call[p].at = "queued" /\ call[p].to = h[1] /\ NoHost # h
  BY <1>2, <1>3, <1>4, NoHostIsNone DEF Owns
<1>6. Absent(p, Popped(host[h]))
  <2>1. ASSUME NEW i \in 1 .. Len(r) PROVE ~(r[i].kind \in {"fetch", "frame", "left"} /\ r[i].by = p)
    BY <1>2, <1>3, <1>4, <1>5, SMTT(30) DEF Owns
  <2>2. NoDeparture(p, host[h].departures)
    BY <1>4, <1>5 DEF Owns, NoDeparture
  <2> QED BY <1>2, <2>1, <2>2 DEF Absent, r
<1>7. ASSUME NEW g \in Hosts, g # h PROVE Absent(p, host[g])
  <2>1. Owns(g, host[g], peer, call) /\ g # NoHost
    BY NoHostIsNone DEF PInv
  <2>2. CASE g[1] = h[1]
    <3>1. host[g] = Vacant /\ Vacant.queue = <<>> /\ Vacant.departures = <<>>
      BY <1>1, <1>7, <2>2, KnownHost DEF Vacant
    <3> QED BY <3>1, EmptySeq DEF Absent, NoDeparture
  <2>3. CASE g[1] # h[1]
    BY <1>3, <1>5, <2>1, <2>3 DEF Owns, Absent, NoDeparture
  <2> QED BY <2>2, <2>3
<1> QED BY <1>6, <1>7 DEF p

(* A frame of p is handled: it is the next one. *)
LEMMA HeardFrame ==
    ASSUME NEW p, NEW s \in SocketTypes, NEW t \in SocketTypes, NEW X \in Hosted, NEW Y, Heard(p, s, X),
           Shorter(X.queue, Y.queue), FrameOf(p, X.queue[1]), Y.departures = X.departures, Y.closed <=> X.closed,
           s.at \in {"on", "leaving"}, t.at = s.at, t.sent = s.sent, t.held = s.held,
           t.got = Append(s.got, X.queue[1].k)
    PROVE  Heard(p, t, Y)
<1> DEFINE n == Len(s.got)
           q == X.queue
           r == Y.queue
<1>1. s.got \in Seq(Nat) /\ s.held \in Seq(Nat) /\ s.sent \in Nat
  BY DEF SocketTypes
<1>2. n \in Nat /\ Len(s.held) \in Nat
  BY <1>1
<1>3. \A j \in 1 .. Len(X.departures) : Len(X.departures[j].frames) \in Nat
  <2>1. X.departures \in Seq(Departures)
    BY DEF Hosted
  <2>2. ASSUME NEW j \in 1 .. Len(X.departures) PROVE X.departures[j].frames \in Seq(Nat)
    <3>1. X.departures[j] \in Departures
      BY <2>1
    <3> QED BY <3>1 DEF Departures
  <2> QED BY <2>2
<1>4. ~LeftOf(p, q[1])
  BY DEF FrameOf, LeftOf
<1>5. (NoLeft(p, q) => NoLeft(p, r)) /\ (LastLeft(p, q) => LastLeft(p, r))
  BY <1>4, LeftShorter
<1> HIDE DEF n, q, r
<1>6. \A m \in Int : InOrder(p, q, n, m) => q[1].k = n + 1 /\ InOrder(p, r, n + 1, m)
  BY <1>2, OrderHeard DEF q, r
<1>7. \E m \in Int : InOrder(p, q, n, m)
  <2>1. CASE s.at = "on"
    BY <1>1, <1>2, <2>1 DEF Heard, Connected, n, q
  <2>2. CASE s.at = "leaving"
    <3>1. CASE LeftQueued(p, s, X)
      BY <1>1, <3>1 DEF LeftQueued, n, q
    <3>2. CASE LeftKept(p, s, X)
      <4>1. PICK j \in 1 .. Len(X.departures) : InOrder(p, q, n, s.sent - Len(X.departures[j].frames))
        BY <3>2 DEF LeftKept, n, q
      <4>2. s.sent - Len(X.departures[j].frames) \in Int
        BY <1>1, <1>3
      <4> QED BY <4>1, <4>2
    <3> QED BY <2>2, <3>1, <3>2 DEF Heard
  <2> QED BY <2>1, <2>2
<1>8. q[1].k = n + 1
  BY <1>6, <1>7
<1>9. Len(t.got) = n + 1 /\ Following(0, t.got)
  <2>1. n + 1 \in Nat /\ t.got = Append(s.got, n + 1)
    BY <1>2, <1>8 DEF q
  <2>2. Len(t.got) = n + 1 /\ (\A i \in 1 .. n : t.got[i] = s.got[i]) /\ t.got[n + 1] = n + 1
    BY <1>1, <2>1, AppendProperties DEF n
  <2>3. \A i \in 1 .. n : s.got[i] = 0 + i
    BY DEF Heard, Following, n
  <2>4. \A i \in 1 .. n + 1 : t.got[i] = 0 + i
    BY <1>2, <2>2, <2>3
  <2> QED BY <2>2, <2>4 DEF Following
<1>10. ASSUME s.at = "on" PROVE Connected(p, t, Y)
  <2>1. s.sent - Len(s.held) \in Int
    BY <1>1, <1>2
  <2>2. Connected(p, s, X)
    BY <1>10 DEF Heard
  <2>3. InOrder(p, r, n + 1, s.sent - Len(s.held))
    BY <1>6, <2>1, <2>2 DEF Connected, n, q
  <2> QED BY <1>5, <1>9, <2>2, <2>3 DEF Connected, q, r
<1>11. ASSUME LeftQueued(p, s, X) PROVE LeftQueued(p, t, Y)
  <2>1. InOrder(p, r, n + 1, s.sent)
    BY <1>1, <1>6, <1>11 DEF LeftQueued, n, q
  <2> QED BY <1>5, <1>9, <1>11, <2>1 DEF LeftQueued, q, r
<1>12. ASSUME LeftKept(p, s, X) PROVE LeftKept(p, t, Y)
  <2>1. PICK j \in 1 .. Len(X.departures) :
          LET d == X.departures[j]
          IN  /\ d.peer = p
              /\ \A i \in 1 .. Len(X.departures) : X.departures[i].peer = p => i = j
              /\ Following(s.sent - Len(d.frames), d.frames)
              /\ InOrder(p, q, n, s.sent - Len(d.frames))
    BY <1>12 DEF LeftKept, n, q
  <2>2. s.sent - Len(X.departures[j].frames) \in Int
    BY <1>1, <1>3
  <2>3. InOrder(p, r, n + 1, s.sent - Len(X.departures[j].frames))
    BY <1>6, <2>1, <2>2
  <2> QED BY <1>5, <1>9, <1>12, <2>1, <2>3 DEF LeftKept, q, r
<1> QED BY <1>9, <1>10, <1>11, <1>12 DEF Heard

(* The departure of p is handled: all its frames have been. *)
LEMMA HeardLeft ==
    ASSUME NEW p, NEW s \in SocketTypes, NEW X \in Hosted, NEW r, Heard(p, s, X), Shorter(X.queue, r),
           LeftOf(p, X.queue[1]), s.at \in {"on", "leaving"}
    PROVE  /\ Len(s.got) = s.sent /\ Following(0, s.got) /\ NoDeparture(p, X.departures)
           /\ \A i \in 1 .. Len(r) : ~FrameOf(p, r[i]) /\ ~LeftOf(p, r[i])
<1> DEFINE q == X.queue
           a == Len(q)
           b == Len(r)
<1>1. s.got \in Seq(Nat) /\ s.sent \in Nat
  BY DEF SocketTypes
<1>2. Len(s.got) \in Nat
  BY <1>1
<1>3. a \in Nat /\ a # 0 /\ b = a - 1 /\ (\A i \in 1 .. b : r[i] = q[i + 1])
  BY DEF Shorter
<1> HIDE DEF a, b, q
<1>4. 1 \in 1 .. a /\ LeftOf(p, q[1]) /\ \A i \in 1 .. b : i + 1 \in 1 .. a /\ r[i] = q[i + 1]
  BY <1>3 DEF q
<1>5. LeftQueued(p, s, X)
  <2>1. ~NoLeft(p, X.queue)
    BY <1>4 DEF NoLeft, a, q
  <2> QED BY <2>1 DEF Heard, Connected, LeftKept
<1>6. (\A j \in 1 .. a : LeftOf(p, q[j]) => 1 = j) /\ (\A j \in 1 .. a : ~FrameOf(p, q[j]))
  <2>1. PICK i \in 1 .. a : /\ LeftOf(p, q[i]) /\ \A j \in 1 .. a : LeftOf(p, q[j]) => i = j
                           /\ \A j \in 1 .. a : FrameOf(p, q[j]) => j < i
    BY <1>5 DEF LeftQueued, LastLeft, a, q
  <2>2. i = 1
    BY <1>4, <2>1
  <2> QED BY <1>3, <2>1, <2>2
<1>7. Len(s.got) = s.sent
  <2>1. InOrder(p, X.queue, Len(s.got), s.sent)
    BY <1>5 DEF LeftQueued
  <2>2. \A j \in 1 .. Len(X.queue) : ~FrameOf(p, X.queue[j])
    BY <1>6 DEF a, q
  <2>3. s.sent \in Int
    BY <1>1
  <2> QED BY <1>2, <2>1, <2>2, <2>3, OrderEmpty
<1>8. ASSUME NEW i \in 1 .. b PROVE ~FrameOf(p, r[i]) /\ ~LeftOf(p, r[i])
  <2>1. i + 1 \in 1 .. a /\ r[i] = q[i + 1] /\ i + 1 # 1
    BY <1>3, <1>4
  <2> QED BY <1>6, <2>1
<1> QED BY <1>5, <1>7, <1>8 DEF Heard, LeftQueued, b

(* What a popped queue is, for the handlers below. *)
LEMMA RanIs ==
    ASSUME HInv, NEW h \in Hosts, NEW kind, Running(h, kind), Handled(h, Popped(host[h]))
    PROVE  \E X \in Hosted :
             /\ host' = [host EXCEPT ![h] = X] /\ Shorter(host[h].queue, X.queue)
             /\ X.queue = Popped(host[h]).queue
             /\ X.departures = host[h].departures /\ ~X.done /\ X.closed = host[h].closed
<1>1. ~host[h].done /\ host[h] \in Hosted /\ host[h].queue # <<>>
  BY RunningOK
<1> DEFINE Y == Popped(host[h])
<1>2. /\ Y \in Hosted /\ Shorter(host[h].queue, Y.queue) /\ Y.departures = host[h].departures
      /\ Y.done = host[h].done /\ Y.closed = host[h].closed
  BY <1>1, PoppedIs DEF Shorter
<1>3. Handled(h, Y)
  OBVIOUS
<1> HIDE DEF Y
<1>4. PICK X \in Hosted :
        /\ host' = [host EXCEPT ![h] = X]
        /\ X.queue = Y.queue /\ X.departures = Y.departures /\ X.done = Y.done /\ X.closed = Y.closed
  BY <1>2, <1>3, HandledIs
<1> QED BY <1>1, <1>2, <1>4 DEF Y

(* A peer that is connected, or whose departure is on its way. *)
LEMMA OnOK ==
    ASSUME NEW p \in Peers, NEW h \in Hosts, NEW X, NEW t, peer'[p] = t, t.on = h, t.at \in {"on", "leaving"},
           host'[h] = X, ~X.done, Heard(p, t, X), call'[p].at \notin {"waiting", "woken"}
    PROVE  PeerOK(p)'
BY DEF PeerOK

(* The handler of a request, and the socket it leaves. *)
LEMMA RunFetchPeers ==
    ASSUME HInv, PInv, NEW h \in Hosts, RunFetch(h)
    PROVE  PInv'
<1>1. PICK c : c = Current(h).by
  OBVIOUS
<1> DEFINE socket == [NoSocket EXCEPT !.on = h, !.at = "on"]
<1>2. /\ Running(h, "fetch") /\ Handled(h, Popped(host[h])) /\ Told(c, "answered")
      /\ peer' = IF c \in Peers THEN [peer EXCEPT ![c] = socket] ELSE peer
  BY <1>1 DEF RunFetch
<1>3. /\ ~host[h].done /\ host[h] \in Hosted /\ host[h].queue # <<>> /\ Head(host[h].queue).kind = "fetch"
  BY <1>2, RunningOK
<1>4. PICK X \in Hosted :
        /\ host' = [host EXCEPT ![h] = X] /\ Shorter(host[h].queue, X.queue)
        /\ X.queue = Popped(host[h]).queue
        /\ X.departures = host[h].departures /\ ~X.done /\ X.closed = host[h].closed
  BY <1>2, RanIs
<1>5. ClientTypes /\ \A p \in Peers : p \in Callers /\ p \notin Hosts
  BY NoHostIsNone, HostsAreNoPeers DEF HInv
<1>6. /\ \A p \in Peers : p # c => call'[p] = call[p]
      /\ c \in Peers => call'[c] = NoCall
  BY <1>2, <1>5 DEF Told, ClientTypes
<1>7. Aside(host[h], X)
  <2>1. Popped(host[h]) \in Hosted /\ Aside(host[h], Popped(host[h]))
    BY <1>3, AsidePopped, PoppedIs
  <2>2. Popped(host[h]).departures = host[h].departures /\ Popped(host[h]).done = host[h].done
        /\ Popped(host[h]).closed = host[h].closed
    BY <1>3, PoppedIs
  <2>3. Aside(Popped(host[h]), X)
    BY <1>3, <1>4, <2>1, <2>2, AsideSame
  <2> QED BY <2>1, <2>3, AsideTrans
<1>8. CASE c \notin Peers
  <2>1. peer' = peer /\ \A p \in Peers : call'[p] = call[p]
    BY <1>2, <1>6, <1>8
  <2> QED BY <1>4, <1>7, <2>1, AsideStep
<1>9. CASE c \in Peers
  <2>1. Absent(c, Popped(host[h])) /\ \A g \in Hosts : g # h => Absent(c, host[g])
    BY <1>1, <1>2, <1>9, AbsentBehind
  <2>2. Absent(c, X)
    <3>1. Popped(host[h]).departures = host[h].departures
      BY <1>3, PoppedIs
    <3> QED BY <1>4, <2>1, <3>1 DEF Absent
  <2>3. socket \in SocketTypes /\ socket.on = h /\ socket.at = "on" /\ socket.sent = 0 /\ socket.got = <<>>
        /\ socket.held = <<>>
    <3>1. h \in Hosts \cup {NoHost} /\ "on" \in PeerStates
      BY DEF PeerStates
    <3> QED BY ONLY <3>1, SocketIs, ZenonT(60)
  <2>4. peer'[c] = socket /\ \A o \in Peers : o # c => peer'[o] = peer[o]
    BY <1>2, <1>5, <1>9 DEF ClientTypes
  <2> HIDE DEF socket
  <2>5. PeerOK(c)'
    <3>1. Connected(c, socket, X)
      <4>1. \A i \in 1 .. Len(X.queue) : ~FrameOf(c, X.queue[i]) /\ ~LeftOf(c, X.queue[i])
        BY <2>2 DEF Absent, FrameOf, LeftOf
      <4>2. InOrder(c, X.queue, 0, 0)
        BY <4>1, OrderEmpty
      <4>3. Following(0, <<>>) /\ Len(<<>>) = 0 /\ 0 - 0 = 0
        BY EmptySeq DEF Following
      <4> QED BY <2>2, <2>3, <4>1, <4>2, <4>3 DEF Connected, NoLeft, Absent
    <3>2. Heard(c, socket, X)
      BY <2>3, <3>1, EmptySeq DEF Heard, Following
    <3>3. host'[h] = X
      BY <1>4 DEF HInv, HostTypes
    <3>4. call'[c].at \notin {"waiting", "woken"}
      <4>1. NoCall.at = "none"
        BY DEF NoCall
      <4> QED BY <1>6, <1>9, <4>1
    <3> QED BY <1>4, <1>9, <2>3, <2>4, <3>2, <3>3, <3>4, OnOK
  <2>6. ASSUME NEW o \in Peers, o # c, peer[o].on = h PROVE Heard(o, peer[o], X)
    BY <1>5, <1>7, <2>6 DEF PInv, PeerOK, Aside, ClientTypes
  <2>7. Owns(h, X, peer', call')
    <3>1. Owns(h, X, peer, call)
      BY <1>7 DEF PInv, Aside
    <3> QED BY <1>6, <2>2, <2>4, <3>1, OwnsAbsent
  <2>8. ASSUME NEW g \in Hosts, g # h PROVE Owns(g, host[g], peer', call')
    BY <1>6, <2>1, <2>4, <2>8, OwnsAbsent DEF PInv, HInv, HostTypes
  <2>9. OthersStay(c) /\ OthersHeard(c, h, X) /\ OthersOwn(h)
    BY <1>6, <2>4, <2>6, <2>8 DEF OthersStay, OthersHeard, OthersOwn
  <2>10. ~host[h].done /\ ~X.done /\ host' = [host EXCEPT ![h] = X]
    BY <1>3, <1>4
  <2> QED BY <2>5, <2>7, <2>9, <2>10, SocketStep
<1> QED BY <1>8, <1>9

(* The handler of a frame. *)
LEMMA RunFramePeers ==
    ASSUME HInv, PInv, NEW h \in Hosts, RunFrame(h)
    PROVE  PInv'
<1>1. PICK p : p = Current(h).by
  OBVIOUS
<1> DEFINE k == Current(h).k
           t == [peer[p] EXCEPT !.got = Append(@, k)]
<1>2. /\ Running(h, "frame") /\ Handled(h, Popped(host[h]))
      /\ peer' = [peer EXCEPT ![p] = t] /\ call' = [call EXCEPT ![h] = NoCall]
  BY <1>1 DEF RunFrame
<1>3. /\ ~host[h].done /\ host[h] \in Hosted /\ host[h].queue # <<>> /\ Head(host[h].queue).kind = "frame"
  BY <1>2, RunningOK
<1>4. PICK X \in Hosted :
        /\ host' = [host EXCEPT ![h] = X] /\ Shorter(host[h].queue, X.queue)
        /\ X.queue = Popped(host[h]).queue
        /\ X.departures = host[h].departures /\ ~X.done /\ X.closed = host[h].closed
  BY <1>2, RanIs
<1>5. ClientTypes /\ \A o \in Peers : o \in Callers /\ o \notin Hosts
  BY NoHostIsNone, HostsAreNoPeers DEF HInv
<1>6. /\ Head(host[h].queue) = host[h].queue[1] /\ 1 \in 1 .. Len(host[h].queue)
      /\ host[h].queue[1].kind = "frame" /\ host[h].queue[1].by = p /\ host[h].queue[1].k = k /\ k \in Nat
  <2>1. Head(host[h].queue) = host[h].queue[1] /\ Len(host[h].queue) \in Nat \ {0}
        /\ Head(host[h].queue) \in Entries
    BY <1>3, PoppedIs
  <2> QED BY <1>1, <1>3, <2>1 DEF Current, Entries
<1>7. Owns(h, host[h], peer, call)
  BY DEF PInv
<1>8. p \in Peers /\ peer[p].on = h
  BY <1>6, <1>7 DEF Owns
<1>9. FrameOf(p, host[h].queue[1])
  BY <1>6 DEF FrameOf
<1>10. PeerOK(p) /\ peer[p] \in SocketTypes /\ peer[p].at \in {"on", "leaving"} /\ Heard(p, peer[p], host[h])
  BY <1>5, <1>8 DEF PInv, PeerOK, ClientTypes
<1> HIDE DEF k
<1>11. /\ t \in SocketTypes /\ t.on = h /\ t.at = peer[p].at /\ t.sent = peer[p].sent /\ t.held = peer[p].held
       /\ t.got = Append(peer[p].got, host[h].queue[1].k)
  <2>1. peer[p].got \in Seq(Nat)
    BY <1>10 DEF SocketTypes
  <2>2. Append(peer[p].got, k) \in Seq(Nat)
    BY <1>6, <2>1, AppendProperties
  <2> QED BY <1>6, <1>8, <1>10, <2>2 DEF SocketTypes
<1> HIDE DEF t
<1>12. Heard(p, t, X)
  BY <1>3, <1>4, <1>9, <1>10, <1>11, HeardFrame
<1>13. /\ peer'[p] = t /\ (\A o \in Peers : o # p => peer'[o] = peer[o]) /\ \A o \in Peers : call'[o] = call[o]
  BY <1>2, <1>5, <1>8 DEF ClientTypes
<1>14. PeerOK(p)'
  <2>1. host'[h] = X
    BY <1>4 DEF HInv, HostTypes
  <2>2. call'[p].at \notin {"waiting", "woken"}
    BY <1>8, <1>10, <1>13, NoHostIsNone DEF PeerOK
  <2> QED BY <1>4, <1>8, <1>10, <1>11, <1>12, <1>13, <2>1, <2>2, OnOK
<1>15. ASSUME NEW o \in Peers, o # p, peer[o].on = h PROVE Heard(o, peer[o], X)
  <2>1. Heard(o, peer[o], host[h]) /\ peer[o] \in SocketTypes
    BY <1>5, <1>15 DEF PInv, PeerOK, ClientTypes
  <2>2. ~FrameOf(o, host[h].queue[1]) /\ ~LeftOf(o, host[h].queue[1])
    BY <1>6, <1>15 DEF FrameOf, LeftOf
  <2>3. Beside(o, host[h].queue, X.queue)
    BY <1>4, <2>2 DEF Beside
  <2> QED BY <1>3, <1>4, <2>1, <2>3, HeardBeside
<1>16. \A o \in Peers : peer'[o].on = peer[o].on
  BY <1>8, <1>11, <1>13
<1>17. ASSUME NEW g \in Hosts, NEW Y \in Hosted, Owns(g, Y, peer, call) PROVE Owns(g, Y, peer', call')
  <2>1. Y.departures \in Seq(Departures)
    BY DEF Hosted
  <2>2. ASSUME NEW j \in 1 .. Len(Y.departures) PROVE Y.departures[j].peer \in Peers
    <3>1. Y.departures[j] \in Departures
      BY <2>1
    <3> QED BY <3>1 DEF Departures
  <2> QED BY <1>13, <1>16, <1>17, <2>2, OwnsAgain
<1>18. Owns(h, X, peer', call')
  BY <1>4, <1>7, <1>17, OwnsPopped
<1>19. ASSUME NEW g \in Hosts, g # h PROVE Owns(g, host[g], peer', call')
  BY <1>17, <1>19 DEF PInv, HInv, HostTypes
<1>20. OthersStay(p) /\ OthersHeard(p, h, X) /\ OthersOwn(h)
  BY <1>13, <1>15, <1>19 DEF OthersStay, OthersHeard, OthersOwn
<1>21. ~host[h].done /\ ~X.done /\ host' = [host EXCEPT ![h] = X]
  BY <1>3, <1>4
<1> QED BY <1>14, <1>18, <1>20, <1>21, SocketStep

(* A peer whose departure has been handled. *)
LEMMA GoneOK ==
    ASSUME NEW p \in Peers, NEW t, peer'[p] = t, t.on = NoHost, t.at = "gone", Len(t.got) = t.sent,
           Following(0, t.got)
    PROVE  PeerOK(p)'
BY NoHostIsNone DEF PeerOK

(* What a departure leaves of the socket. *)
LEMMA GoneIs ==
    ASSUME ClientTypes, NEW p \in Peers, NEW frames \in Seq(Nat), peer' = Gone(p, frames)
    PROVE  /\ \A o \in Peers : o # p => peer'[o] = peer[o]
           /\ peer'[p].on = NoHost /\ peer'[p].at = "gone" /\ peer'[p].sent = peer[p].sent
           /\ peer'[p].got = peer[p].got \o frames
<1> DEFINE t == [peer[p] EXCEPT !.on = NoHost, !.at = "gone", !.got = peer[p].got \o frames]
<1>1. peer' = [peer EXCEPT ![p] = t]
  BY DEF Gone
<1>2. t.on = NoHost /\ t.at = "gone" /\ t.sent = peer[p].sent /\ t.got = peer[p].got \o frames
  BY DEF ClientTypes, SocketTypes
<1> HIDE DEF t
<1>3. peer'[p] = t /\ \A o \in Peers : o # p => peer'[o] = peer[o]
  BY <1>1 DEF ClientTypes
<1> QED BY <1>2, <1>3

(* The departure of a peer, handled in its turn. *)
LEMMA RunLeftPeers ==
    ASSUME HInv, PInv, NEW h \in Hosts, RunLeft(h)
    PROVE  PInv'
<1>1. PICK p : p = Current(h).by
  OBVIOUS
<1>2. Running(h, "left") /\ Handled(h, Popped(host[h])) /\ peer' = Gone(p, <<>>) /\ call' = call
  BY <1>1 DEF RunLeft
<1>3. /\ ~host[h].done /\ host[h] \in Hosted /\ host[h].queue # <<>> /\ Head(host[h].queue).kind = "left"
  BY <1>2, RunningOK
<1>4. PICK X \in Hosted :
        /\ host' = [host EXCEPT ![h] = X] /\ Shorter(host[h].queue, X.queue)
        /\ X.queue = Popped(host[h]).queue
        /\ X.departures = host[h].departures /\ ~X.done /\ X.closed = host[h].closed
  BY <1>2, RanIs
<1>5. ClientTypes /\ \A o \in Peers : o \in Callers /\ o \notin Hosts
  BY NoHostIsNone, HostsAreNoPeers DEF HInv
<1>6. /\ Head(host[h].queue) = host[h].queue[1] /\ 1 \in 1 .. Len(host[h].queue)
      /\ host[h].queue[1].kind = "left" /\ host[h].queue[1].by = p
  <2>1. Head(host[h].queue) = host[h].queue[1] /\ Len(host[h].queue) \in Nat \ {0}
    BY <1>3, PoppedIs
  <2> QED BY <1>1, <1>3, <2>1 DEF Current
<1>7. Owns(h, host[h], peer, call)
  BY DEF PInv
<1>8. p \in Peers /\ peer[p].on = h
  BY <1>6, <1>7 DEF Owns
<1>9. LeftOf(p, host[h].queue[1])
  BY <1>6 DEF LeftOf
<1>10. PeerOK(p) /\ peer[p] \in SocketTypes /\ peer[p].at \in {"on", "leaving"} /\ Heard(p, peer[p], host[h])
  BY <1>5, <1>8 DEF PInv, PeerOK, ClientTypes
<1>11. /\ Len(peer[p].got) = peer[p].sent /\ Following(0, peer[p].got) /\ NoDeparture(p, host[h].departures)
       /\ \A i \in 1 .. Len(X.queue) : ~FrameOf(p, X.queue[i]) /\ ~LeftOf(p, X.queue[i])
  BY <1>3, <1>4, <1>9, <1>10, HeardLeft
<1>12. /\ \A o \in Peers : o # p => peer'[o] = peer[o]
       /\ peer'[p].on = NoHost /\ peer'[p].at = "gone" /\ peer'[p].sent = peer[p].sent
       /\ peer'[p].got = peer[p].got
  <2>1. <<>> \in Seq(Nat) /\ peer[p].got \in Seq(Nat)
    BY <1>10 DEF SocketTypes
  <2>2. peer[p].got \o <<>> = peer[p].got
    BY <2>1, ConcatEmptySeq
  <2> QED BY <1>2, <1>5, <1>8, <2>1, <2>2, GoneIs
<1>13. PeerOK(p)'
  BY <1>8, <1>11, <1>12, GoneOK
<1>14. Owns(h, X, peer, call)
  BY <1>4, <1>7, OwnsPopped
<1>15. Absent(p, X)
  <2>1. NoHost # h
    BY NoHostIsNone
  <2>2. \A i \in 1 .. Len(X.queue) : ~(X.queue[i].kind = "fetch" /\ X.queue[i].by = p)
    BY <1>8, <1>14, <2>1 DEF Owns
  <2> QED BY <1>4, <1>11, <2>2 DEF Absent, FrameOf, LeftOf
<1>16. Owns(h, X, peer', call')
  BY <1>2, <1>12, <1>14, <1>15, OwnsAbsent
<1>17. OthersOwn(h)
  <2> SUFFICES ASSUME NEW g \in Hosts, g # h PROVE Owns(g, host[g], peer', call')
    BY DEF OthersOwn
  <2>1. Absent(p, host[g]) /\ host[g] \in Hosted /\ Owns(g, host[g], peer, call)
    BY <1>8, AbsentElsewhere DEF PInv
  <2> QED BY <1>2, <1>12, <2>1, OwnsAbsent
<1>18. OthersHeard(p, h, X)
  <2> SUFFICES ASSUME NEW o \in Peers, o # p, peer[o].on = h PROVE Heard(o, peer[o], X)
    BY DEF OthersHeard
  <2>1. Heard(o, peer[o], host[h]) /\ peer[o] \in SocketTypes
    BY <1>5 DEF PInv, PeerOK, ClientTypes
  <2>2. ~FrameOf(o, host[h].queue[1]) /\ ~LeftOf(o, host[h].queue[1])
    BY <1>6 DEF FrameOf, LeftOf
  <2>3. Beside(o, host[h].queue, X.queue)
    BY <1>4, <2>2 DEF Beside
  <2> QED BY <1>3, <1>4, <2>1, <2>3, HeardBeside
<1>19. OthersStay(p)
  BY <1>2, <1>12 DEF OthersStay
<1> QED BY <1>3, <1>4, <1>13, <1>16, <1>17, <1>18, <1>19, SocketStep

(* A departure that close() handles: first the frames held for it. *)
LEMMA HeardDeparture ==
    ASSUME NEW p, NEW s \in SocketTypes, NEW X \in Hosted, Heard(p, s, X), X.departures # <<>>,
           X.departures[1].peer = p, s.at \in {"on", "leaving"},
            \A i \in 1 .. Len(X.queue) : ~FrameOf(p, X.queue[i])
    PROVE  LET frames == X.departures[1].frames
           IN  /\ frames \in Seq(Nat) /\ Len(s.got \o frames) = s.sent /\ Following(0, s.got \o frames)
               /\ \A i \in 1 .. Len(X.departures) : X.departures[i].peer = p => i = 1
<1> DEFINE frames == X.departures[1].frames
           n == Len(s.got)
           m == Len(frames)
<1>1. /\ X.departures \in Seq(Departures) /\ s.got \in Seq(Nat) /\ s.sent \in Nat
  BY DEF Hosted, SocketTypes
<1>2. 1 \in 1 .. Len(X.departures)
  <2>1. Len(X.departures) \in Nat \ {0}
    BY <1>1, EmptySeq
  <2> QED BY <2>1
<1>3. frames \in Seq(Nat)
  <2>1. X.departures[1] \in Departures
    BY <1>1, <1>2
  <2> QED BY <2>1 DEF Departures
<1>4. n \in Nat /\ m \in Nat
  BY <1>1, <1>3
<1>5. LeftKept(p, s, X)
  <2>1. ~NoDeparture(p, X.departures)
    BY <1>2 DEF NoDeparture
  <2> QED BY <2>1 DEF Heard, Connected, LeftQueued
<1>6. /\ \A i \in 1 .. Len(X.departures) : X.departures[i].peer = p => i = 1
      /\ Following(s.sent - m, frames) /\ InOrder(p, X.queue, n, s.sent - m)
  <2>1. PICK j \in 1 .. Len(X.departures) :
          LET d == X.departures[j]
          IN  /\ d.peer = p
              /\ \A i \in 1 .. Len(X.departures) : X.departures[i].peer = p => i = j
              /\ Following(s.sent - Len(d.frames), d.frames)
              /\ InOrder(p, X.queue, Len(s.got), s.sent - Len(d.frames))
    BY <1>5 DEF LeftKept
  <2>2. j = 1
    BY <1>2, <2>1
  <2> QED BY <2>1, <2>2
<1>7. n = s.sent - m
  <2>1. s.sent - m \in Int
    BY <1>1, <1>4
  <2> HIDE DEF n, m
  <2> QED BY <1>4, <1>6, <2>1, OrderEmpty
<1>8. Len(s.got \o frames) = n + m
      /\ \A i \in 1 .. n + m : (s.got \o frames)[i] = IF i <= n THEN s.got[i] ELSE frames[i - n]
  BY <1>1, <1>3, ConcatProperties
<1>9. (\A i \in 1 .. n : s.got[i] = 0 + i) /\ \A i \in 1 .. m : frames[i] = n + i
  BY <1>6, <1>7 DEF Heard, Following
<1> DEFINE all == s.got \o frames
<1>10. Len(all) = s.sent /\ Following(0, all)
  <2>1. Len(all) = n + m /\ \A i \in 1 .. n + m : all[i] = IF i <= n THEN s.got[i] ELSE frames[i - n]
    BY <1>8
  <2> HIDE DEF all, n, m, frames
  <2>2. ASSUME NEW i \in 1 .. n + m PROVE all[i] = 0 + i
    <3>1. CASE i <= n
      <4>1. i \in 1 .. n
        BY <1>4, <3>1
      <4> QED BY <1>9, <2>1, <3>1, <4>1
    <3>2. CASE ~(i <= n)
      <4>1. i - n \in 1 .. m /\ n + (i - n) = 0 + i
        BY <1>4, <3>2
      <4> QED BY <1>9, <2>1, <3>2, <4>1
    <3> QED BY <3>1, <3>2
  <2>3. n + m = s.sent
    BY <1>1, <1>4, <1>7
  <2> QED BY <2>1, <2>2, <2>3 DEF Following
<1> QED BY <1>3, <1>6, <1>10

(* The other departures kept for close() wait on. *)
LEMMA HeardBehind ==
    ASSUME NEW p, NEW s, NEW X, NEW Y, Heard(p, s, X), Y.queue = X.queue, Y.closed <=> X.closed,
           Shorter(X.departures, Y.departures), X.departures[1].peer # p
    PROVE  Heard(p, s, Y)
<1> DEFINE d == X.departures
           f == Y.departures
           a == Len(d)
           b == Len(f)
<1>1. a \in Nat /\ a # 0 /\ b = a - 1 /\ (\A i \in 1 .. b : f[i] = d[i + 1])
  BY DEF Shorter
<1> HIDE DEF a, b, d, f
<1>2. \A i \in 1 .. b : i + 1 \in 1 .. a /\ f[i] = d[i + 1]
  BY <1>1
<1>3. \A i \in 1 .. a : i # 1 => i - 1 \in 1 .. b /\ f[i - 1] = d[i]
  BY <1>1
<1>4. NoDeparture(p, d) => NoDeparture(p, f)
  BY <1>2 DEF NoDeparture, a, b
<1>5. ASSUME LeftKept(p, s, X) PROVE LeftKept(p, s, Y)
  <2>1. PICK j \in 1 .. a :
          /\ d[j].peer = p /\ \A i \in 1 .. a : d[i].peer = p => i = j
          /\ Following(s.sent - Len(d[j].frames), d[j].frames)
          /\ InOrder(p, X.queue, Len(s.got), s.sent - Len(d[j].frames))
    BY <1>5 DEF LeftKept, a, d
  <2>2. j # 1
    BY <2>1 DEF d
  <2>3. j - 1 \in 1 .. b /\ f[j - 1] = d[j]
    BY <1>3, <2>1, <2>2
  <2>4. ASSUME NEW i \in 1 .. b, f[i].peer = p PROVE i = j - 1
    <3>1. i + 1 = j
      BY <1>2, <2>1, <2>4
    <3> QED BY <3>1
  <2> QED BY <1>5, <2>1, <2>3, <2>4 DEF LeftKept, b, f
<1> QED BY <1>4, <1>5 DEF Heard, Connected, LeftQueued, d, f

(* A departure that close() handles is the peer's last word. *)
LEMMA RunDeparturePeers ==
    ASSUME HInv, PInv, NEW h \in Hosts, RunDeparture(h)
    PROVE  PInv'
<1> DEFINE d == host[h].departures
           Y == [host[h] EXCEPT !.departures = Tail(d)]
<1>1. Running(h, "close") /\ d # <<>> /\ peer' = Gone(Head(d).peer, Head(d).frames) /\ call' = call /\ Handled(h, Y)
  BY DEF RunDeparture
<1>2. /\ ~host[h].done /\ host[h] \in Hosted /\ host[h].queue # <<>> /\ Head(host[h].queue).kind = "close"
      /\ d \in Seq(Departures) /\ Len(host[h].queue) = 1
  BY <1>1, RunningOK, EmptyTail DEF Hosted
<1>3. /\ Head(d) = d[1] /\ Head(d) \in Departures /\ Tail(d) \in Seq(Departures) /\ Shorter(d, Tail(d))
  BY <1>1, <1>2, HeadTailProperties, EmptySeq DEF Shorter
<1>4. /\ Y \in Hosted /\ Y.queue = host[h].queue /\ Y.departures = Tail(d) /\ Y.done = host[h].done
      /\ Y.closed = host[h].closed
  BY <1>2, <1>3 DEF Hosted
<1> HIDE DEF Y
<1>5. PICK X \in Hosted :
        /\ host' = [host EXCEPT ![h] = X]
        /\ X.queue = host[h].queue /\ X.departures = Tail(d) /\ X.done = host[h].done /\ X.closed = host[h].closed
  BY <1>1, <1>4, HandledIs
<1>6. PICK p : p = d[1].peer
  OBVIOUS
<1>7. p \in Peers /\ d[1].frames \in Seq(Nat) /\ 1 \in 1 .. Len(d) /\ peer' = Gone(p, d[1].frames)
  <2>1. Len(d) \in Nat \ {0}
    BY <1>1, <1>2, EmptySeq
  <2> QED BY <1>1, <1>3, <1>6, <2>1 DEF Departures
<1> HIDE DEF d
<1>8. ClientTypes /\ \A o \in Peers : o \in Callers /\ o \notin Hosts
  BY NoHostIsNone, HostsAreNoPeers DEF HInv
<1>9. Owns(h, host[h], peer, call) /\ peer[p].on = h
  BY <1>6, <1>7 DEF PInv, Owns, d
<1>10. PeerOK(p) /\ peer[p] \in SocketTypes /\ peer[p].at \in {"on", "leaving"} /\ Heard(p, peer[p], host[h])
  BY <1>7, <1>8, <1>9 DEF PInv, PeerOK, ClientTypes
<1>11. \A i \in 1 .. Len(host[h].queue) : host[h].queue[i].kind = "close"
  <2>1. Head(host[h].queue) = host[h].queue[1]
    BY <1>2, PoppedIs
  <2> QED BY <1>2, <2>1
<1>12. /\ Len(peer[p].got \o d[1].frames) = peer[p].sent /\ Following(0, peer[p].got \o d[1].frames)
       /\ \A i \in 1 .. Len(d) : d[i].peer = p => i = 1
  <2>1. \A i \in 1 .. Len(host[h].queue) : ~FrameOf(p, host[h].queue[i])
    BY <1>11 DEF FrameOf
  <2> QED BY <1>1, <1>2, <1>6, <1>10, <2>1, HeardDeparture DEF d
<1>13. /\ \A o \in Peers : o # p => peer'[o] = peer[o]
       /\ peer'[p].on = NoHost /\ peer'[p].at = "gone" /\ peer'[p].sent = peer[p].sent
       /\ peer'[p].got = peer[p].got \o d[1].frames
  BY <1>7, <1>8, GoneIs
<1>14. PeerOK(p)'
  BY <1>7, <1>12, <1>13, GoneOK
<1>15. Owns(h, X, peer, call) /\ Absent(p, X)
  <2>1. \A j \in 1 .. Len(X.departures) : X.departures[j] = d[j + 1] /\ j + 1 \in 1 .. Len(d) /\ j + 1 # 1
    <3>1. Len(d) \in Nat /\ Len(Tail(d)) = Len(d) - 1 /\ \A j \in 1 .. Len(Tail(d)) : Tail(d)[j] = d[j + 1]
      BY <1>3 DEF Shorter
    <3> QED BY <1>5, <3>1
  <2>2. \A j \in 1 .. Len(X.departures) : peer[X.departures[j].peer].on = h
    BY <1>9, <2>1 DEF Owns, d
  <2>3. NoDeparture(p, X.departures)
    BY <1>12, <2>1 DEF NoDeparture
  <2> QED BY <1>5, <1>9, <1>11, <2>2, <2>3 DEF Owns, Absent
<1>16. Owns(h, X, peer', call')
  BY <1>1, <1>13, <1>15, OwnsAbsent, SMTT(30)
<1>17. OthersOwn(h)
  <2> SUFFICES ASSUME NEW g \in Hosts, g # h PROVE Owns(g, host[g], peer', call')
    BY DEF OthersOwn
  <2>1. Absent(p, host[g]) /\ host[g] \in Hosted /\ Owns(g, host[g], peer, call)
    BY <1>7, <1>9, AbsentElsewhere DEF PInv
  <2> QED BY <1>1, <1>13, <2>1, OwnsAbsent, SMTT(30)
<1>18. OthersHeard(p, h, X)
  <2> SUFFICES ASSUME NEW o \in Peers, o # p, peer[o].on = h PROVE Heard(o, peer[o], X)
    BY DEF OthersHeard
  <2>1. Heard(o, peer[o], host[h])
    BY DEF PInv, PeerOK
  <2> QED BY <1>3, <1>5, <1>6, <2>1, HeardBehind DEF d
<1>19. OthersStay(p)
  BY <1>1, <1>13 DEF OthersStay
<1> QED BY <1>2, <1>5, <1>14, <1>16, <1>17, <1>18, <1>19, SocketStep

(* A socket that a close or a crash takes. *)
LEMMA DroppedOK ==
    ASSUME NEW p \in Peers, peer'[p].on = NoHost, peer'[p].at = "dropped"
    PROVE  PeerOK(p)'
BY NoHostIsNone DEF PeerOK

(* The store closes: only sockets that are still connected are dropped. *)
LEMMA NoneLeaving ==
    ASSUME HInv, PInv, NEW h \in Hosts, CloseStore(h), NEW p \in Peers, peer[p].on = h
    PROVE  peer[p].at = "on"
<1>1. Running(h, "close") /\ host[h].departures = <<>>
  BY DEF CloseStore
<1>2. /\ ~host[h].done /\ host[h] \in Hosted /\ host[h].queue # <<>> /\ Head(host[h].queue).kind = "close"
      /\ Len(host[h].queue) = 1
  BY <1>1, RunningOK, EmptyTail
<1>3. Head(host[h].queue) = host[h].queue[1]
  BY <1>2, PoppedIs
<1>4. peer[p].at \in {"on", "leaving"} /\ Heard(p, peer[p], host[h])
  BY DEF PInv, PeerOK
<1>5. ~LeftQueued(p, peer[p], host[h])
  BY <1>2, <1>3 DEF LeftQueued, LastLeft, LeftOf
<1>6. ~LeftKept(p, peer[p], host[h])
  BY <1>1, EmptySeq DEF LeftKept
<1> QED BY <1>4, <1>5, <1>6 DEF Heard

(* The store closes: the peers still connected lose their sockets. *)
LEMMA CloseStorePeers ==
    ASSUME HInv, PInv, NEW h \in Hosts, CloseStore(h)
    PROVE  PInv'
<1>1. /\ host' = [host EXCEPT ![h] = Vacant] /\ call' = Woken(h[1])
      /\ peer' = [p \in Peers |-> IF peer[p].on = h THEN [NoSocket EXCEPT !.at = "dropped"] ELSE peer[p]]
  BY EmptyTail DEF CloseStore
<1>2. \A g \in Hosts : host'[g] = IF g = h THEN Vacant ELSE host[g]
  BY <1>1 DEF HInv, HostTypes
<1>3. ClientTypes /\ \A p \in Peers : p \in Callers
  BY NoHostIsNone DEF HInv
<1>4. ASSUME NEW p \in Peers
      PROVE  /\ call[p].at = "queued" => call'[p] = call[p]
             /\ call'[p].at \in {"waiting", "woken"} => call[p].at \in {"waiting", "woken"}
  BY <1>1, <1>3 DEF Woken
<1>5. ASSUME NEW p \in Peers PROVE PeerOK(p)'
  <2>1. PeerOK(p)
    BY DEF PInv
  <2>2. CASE peer[p].on = h
    <3>1. peer'[p].on = NoHost /\ peer'[p].at = "dropped"
      BY <1>1, <2>2, DroppedIs
    <3> QED BY <3>1, DroppedOK
  <2>3. CASE peer[p].on # h
    <3>1. peer'[p] = peer[p]
      BY <1>1, <2>3
    <3>2. peer[p].on \in Hosts => host'[peer[p].on] = host[peer[p].on]
      BY <1>2, <2>3
    <3> QED BY <1>4, <2>1, <3>1, <3>2 DEF PeerOK
  <2> QED BY <2>2, <2>3
<1>6. ASSUME NEW g \in Hosts PROVE Owns(g, host'[g], peer', call')
  <2>1. CASE g = h
    <3>1. Vacant.queue = <<>> /\ Vacant.departures = <<>>
      BY DEF Vacant
    <3> QED BY <1>2, <2>1, <3>1, EmptySeq DEF Owns
  <2>2. CASE g # h
    <3>1. Owns(g, host[g], peer, call) /\ host[g] \in Hosted /\ h # NoHost
      BY NoHostIsNone DEF PInv, HInv, HostTypes
    <3>2. \A p \in Peers : peer[p].on # h => peer'[p] = peer[p]
      BY <1>1
    <3>3. \A i \in 1 .. Len(host[g].queue) :
            host[g].queue[i].by \in Peers /\ host[g].queue[i].kind \in {"fetch", "frame", "left"} =>
              /\ peer'[host[g].queue[i].by].on = peer[host[g].queue[i].by].on
              /\ host[g].queue[i].kind = "fetch" => call'[host[g].queue[i].by] = call[host[g].queue[i].by]
      BY <1>4, <2>2, <3>1, <3>2 DEF Owns
    <3>4. host[g].departures \in Seq(Departures)
      BY <3>1 DEF Hosted
    <3>5. ASSUME NEW j \in 1 .. Len(host[g].departures)
          PROVE  peer'[host[g].departures[j].peer].on = peer[host[g].departures[j].peer].on
      <4>1. host[g].departures[j] \in Departures
        BY <3>4
      <4>2. host[g].departures[j].peer \in Peers /\ peer[host[g].departures[j].peer].on = g
        BY <3>1, <4>1 DEF Departures, Owns
      <4> QED BY <2>2, <3>2, <4>2
    <3>6. Owns(g, host[g], peer', call')
      BY <3>1, <3>3, <3>5, OwnsAgain
    <3> QED BY <1>2, <2>2, <3>6
  <2> QED BY <2>1, <2>2
<1> QED BY <1>5, <1>6 DEF PInv

(* A connected peer sends on: its frame goes behind those that wait, or is   *)
(* held with the others.                                                    *)
LEMMA HeardQueued ==
    ASSUME NEW p, NEW s \in SocketTypes, NEW t, NEW X \in Hosted, NEW Y, NEW e, Heard(p, s, X), s.at = "on",
           ~X.closed,
           Longer(X.queue, Y.queue, e), FrameOf(p, e), e.k = s.sent + 1, Y.departures = X.departures, ~Y.closed,
           t.at = "on", t.sent = s.sent + 1, t.got = s.got, t.held = s.held
    PROVE  Heard(p, t, Y)
<1>1. Connected(p, s, X) /\ s.held = <<>> /\ s.got \in Seq(Nat) /\ s.sent \in Nat
  BY DEF Heard, Connected, SocketTypes
<1>2. Len(s.held) = 0 /\ Len(s.got) \in Nat
  BY <1>1, EmptySeq
<1>3. InOrder(p, X.queue, Len(s.got), s.sent)
  <2>1. s.sent - Len(s.held) = s.sent
    BY <1>1, <1>2
  <2> QED BY <1>1, <2>1 DEF Connected
<1>4. InOrder(p, Y.queue, Len(s.got), s.sent + 1)
  <2>1. s.sent \in Int
    BY <1>1
  <2> QED BY <1>2, <1>3, <2>1, OrderSent
<1>5. NoLeft(p, Y.queue)
  <2> DEFINE a == Len(X.queue)
             b == Len(Y.queue)
  <2>1. a \in Nat /\ b = a + 1 /\ (\A i \in 1 .. a : Y.queue[i] = X.queue[i]) /\ Y.queue[a + 1] = e
    BY DEF Longer
  <2>2. \A i \in 1 .. a : ~LeftOf(p, X.queue[i])
    BY <1>1 DEF Connected, NoLeft
  <2> HIDE DEF a, b
  <2>3. \A i \in 1 .. b : ~LeftOf(p, Y.queue[i])
    BY <2>1, <2>2 DEF FrameOf, LeftOf
  <2> QED BY <2>3 DEF NoLeft, b
<1>6. Following(t.sent - Len(t.held), t.held)
  BY <1>2 DEF Following
<1>7. t.sent - Len(t.held) = s.sent + 1
  BY <1>1, <1>2
<1> QED BY <1>1, <1>4, <1>5, <1>6, <1>7 DEF Heard, Connected

(* Its host is closing: the frame is held behind those held before. *)
LEMMA HeardHeld ==
    ASSUME NEW p, NEW s \in SocketTypes, NEW t, NEW X \in Hosted, NEW Y, Heard(p, s, X), s.at = "on", X.closed,
           Y.queue = X.queue, Y.departures = X.departures, Y.closed,
           t.at = "on", t.sent = s.sent + 1, t.got = s.got, t.held = Append(s.held, s.sent + 1)
    PROVE  Heard(p, t, Y)
<1> DEFINE n == Len(s.held)
<1>1. Connected(p, s, X) /\ s.held \in Seq(Nat) /\ s.sent \in Nat
  BY DEF Heard, SocketTypes
<1>2. n \in Nat
  BY <1>1
<1>3. Len(t.held) = n + 1 /\ (\A i \in 1 .. n : t.held[i] = s.held[i]) /\ t.held[n + 1] = s.sent + 1
  <2>1. s.sent + 1 \in Nat
    BY <1>1
  <2> QED BY <1>1, <2>1, AppendProperties
<1>4. \A i \in 1 .. n : s.held[i] = (s.sent - n) + i
  BY <1>1 DEF Connected, Following
<1> HIDE DEF n
<1>5. t.sent - Len(t.held) = s.sent - n
  BY <1>1, <1>2, <1>3
<1>6. \A i \in 1 .. n + 1 : t.held[i] = (s.sent - n) + i
  BY <1>1, <1>2, <1>3, <1>4
<1>7. Following(t.sent - Len(t.held), t.held)
  BY <1>3, <1>5, <1>6 DEF Following
<1> QED BY <1>1, <1>5, <1>7 DEF Heard, Connected, n

(* Something of a peer arrives: its socket stays with its host. *)
LEMMA ArrivalStep ==
    ASSUME HInv, PInv, NEW p \in Peers, NEW h \in Hosts, peer[p].on = h, ~host[h].done,
           NEW X \in Hosted, ~X.done, host' = [host EXCEPT ![h] = X], call' = call,
           peer'[p].on = h, peer'[p].at \in {"on", "leaving"}, \A o \in Peers : o # p => peer'[o] = peer[o],
           Heard(p, peer'[p], X), OthersHeard(p, h, X), Owns(h, X, peer, call)
    PROVE  PInv'
<1>1. \A o \in Peers : peer'[o].on = peer[o].on
  OBVIOUS
<1>2. ASSUME NEW g \in Hosts, NEW Y \in Hosted, Owns(g, Y, peer, call) PROVE Owns(g, Y, peer', call')
  <2>1. Y.departures \in Seq(Departures)
    BY DEF Hosted
  <2>2. ASSUME NEW j \in 1 .. Len(Y.departures) PROVE peer'[Y.departures[j].peer].on = peer[Y.departures[j].peer].on
    <3>1. Y.departures[j] \in Departures
      BY <2>1
    <3> QED BY <1>1, <3>1 DEF Departures
  <2> QED BY <1>1, <1>2, <2>2, OwnsAgain
<1>3. Owns(h, X, peer', call')
  BY <1>2
<1>4. OthersOwn(h)
  BY <1>2 DEF OthersOwn, PInv, HInv, HostTypes
<1>5. OthersStay(p)
  BY DEF OthersStay
<1>6. call'[p].at \notin {"waiting", "woken"} /\ host'[h] = X
  BY NoHostIsNone DEF PInv, PeerOK, HInv, HostTypes
<1>7. PeerOK(p)'
  BY <1>6, OnOK
<1> QED BY <1>3, <1>4, <1>5, <1>7, SocketStep

(* A frame arrives: the other peers wait as they did. *)
LEMMA SendPeers ==
    ASSUME HInv, PInv, NEW p \in Peers, Send(p)
    PROVE  PInv'
<1>1. PICK h : h = peer[p].on
  OBVIOUS
<1> DEFINE k == peer[p].sent + 1
           Z == [host[h] EXCEPT !.released = FALSE]
           e == Entry("frame", p, k)
           X == IF host[h].closed THEN Z ELSE Queued(Z, e)
<1>2. /\ peer[p].at = "on" /\ host' = [host EXCEPT ![h] = X] /\ call' = call
      /\ peer' = IF host[h].closed THEN [peer EXCEPT ![p].sent = k, ![p].held = Append(@, k)]
                 ELSE [peer EXCEPT ![p].sent = k]
  BY <1>1 DEF Send
<1>3. ClientTypes /\ PeerOK(p) /\ p \in Callers
  BY NoHostIsNone DEF HInv, PInv
<1>4. h \in Hosts /\ ~host[h].done /\ host[h] \in Hosted /\ Heard(p, peer[p], host[h])
  BY <1>1, <1>2, <1>3 DEF PeerOK, HInv, HostTypes
<1>5. peer \in [Peers -> SocketTypes] /\ peer[p] \in SocketTypes /\ k \in Nat
  <2>1. peer \in [Peers -> SocketTypes]
    BY <1>3 DEF ClientTypes
  <2>2. peer[p].sent \in Nat
    BY <2>1 DEF SocketTypes
  <2> QED BY <2>1, <2>2
<1>6. /\ peer'[p].at = "on" /\ peer'[p].on = h /\ peer'[p].sent = k /\ peer'[p].got = peer[p].got
      /\ peer'[p].held = IF host[h].closed THEN Append(peer[p].held, k) ELSE peer[p].held
      /\ \A o \in Peers : o # p => peer'[o] = peer[o]
  <2> HIDE DEF k
  <2> QED BY <1>1, <1>2, <1>5 DEF SocketTypes
<1>7. e \in Entries /\ e.kind = "frame" /\ e.by = p /\ e.k = k
  BY <1>3, <1>5 DEF Entry, Entries, EntryKinds
<1>8. /\ Z \in Hosted /\ Z.queue = host[h].queue /\ Z.departures = host[h].departures /\ Z.closed = host[h].closed
      /\ Z.done = host[h].done /\ Z.closed \in BOOLEAN
  BY <1>4 DEF Hosted
<1>9. Owns(h, host[h], peer, call)
  BY <1>4 DEF PInv
<1>10. ASSUME NEW o \in Peers, peer[o].on = h PROVE Heard(o, peer[o], host[h]) /\ peer[o] \in SocketTypes
  BY <1>4, <1>5, <1>10 DEF PInv, PeerOK
<1> HIDE DEF Z, e, k
<1>11. CASE host[h].closed
  <2>1. host' = [host EXCEPT ![h] = Z]
    BY <1>2, <1>11
  <2>2. Heard(p, peer'[p], Z)
    BY <1>2, <1>4, <1>5, <1>6, <1>8, <1>11, HeardHeld DEF k
  <2>3. Aside(host[h], Z)
    BY <1>4, <1>8, AsideSame
  <2>4. Owns(h, Z, peer, call) /\ OthersHeard(p, h, Z)
    BY <1>9, <1>10, <2>3 DEF Aside, OthersHeard
  <2> QED BY <1>1, <1>2, <1>4, <1>6, <1>8, <2>1, <2>2, <2>4, ArrivalStep
<1>12. CASE ~host[h].closed
  <2> DEFINE Y == Queued(Z, e)
  <2>1. host' = [host EXCEPT ![h] = Y]
    BY <1>2, <1>12
  <2>2. /\ Y \in Hosted /\ Longer(host[h].queue, Y.queue, e) /\ Y.departures = host[h].departures
        /\ Y.done = host[h].done
        /\ Y.closed = host[h].closed
    <3>1. Len(Z.queue) \in Nat
      BY <1>8 DEF Hosted
    <3> QED BY <1>7, <1>8, <3>1, QueuedIs DEF Longer
  <2> HIDE DEF Y
  <2>3. Heard(p, peer'[p], Y)
    <3>1. FrameOf(p, e)
      BY <1>7 DEF FrameOf
    <3>2. /\ ~Y.closed /\ e.k = peer[p].sent + 1 /\ peer'[p].at = "on" /\ peer'[p].sent = peer[p].sent + 1
          /\ peer'[p].got = peer[p].got /\ peer'[p].held = peer[p].held
      BY <1>6, <1>7, <1>12, <2>2 DEF k
    <3> QED BY <1>2, <1>4, <1>5, <1>12, <2>2, <3>1, <3>2, HeardQueued
  <2>4. Owns(h, Y, peer, call)
    BY <1>1, <1>7, <1>9, <2>2, OwnsQueued
  <2>5. OthersHeard(p, h, Y)
    <3> SUFFICES ASSUME NEW o \in Peers, o # p, peer[o].on = h PROVE Heard(o, peer[o], Y)
      BY DEF OthersHeard
    <3>1. Beside(o, host[h].queue, Y.queue)
      BY <1>7, <2>2 DEF Beside, FrameOf, LeftOf
    <3> QED BY <1>4, <1>10, <2>2, <3>1, HeardBeside
  <2> QED BY <1>1, <1>2, <1>4, <1>6, <2>1, <2>2, <2>3, <2>4, <2>5, ArrivalStep
<1> QED BY <1>11, <1>12

(* A peer leaves: its departure goes behind its frames. *)
LEMMA HeardLeaving ==
    ASSUME NEW p, NEW s \in SocketTypes, NEW t, NEW X \in Hosted, NEW Y, NEW e, Heard(p, s, X), s.at = "on",
           ~X.closed,
           Longer(X.queue, Y.queue, e), LeftOf(p, e), Y.departures = X.departures,
           t.at = "leaving", t.sent = s.sent, t.got = s.got
    PROVE  Heard(p, t, Y)
<1>1. Connected(p, s, X) /\ s.held = <<>> /\ s.got \in Seq(Nat) /\ s.sent \in Nat
  BY DEF Heard, Connected, SocketTypes
<1>2. Len(s.held) = 0 /\ Len(s.got) \in Nat
  BY <1>1, EmptySeq
<1>3. InOrder(p, Y.queue, Len(s.got), s.sent)
  <2>1. s.sent - Len(s.held) = s.sent /\ s.sent \in Int
    BY <1>1, <1>2
  <2>2. ~FrameOf(p, e)
    BY DEF FrameOf, LeftOf
  <2> QED BY <1>1, <1>2, <2>1, <2>2, OrderQueued DEF Connected
<1>4. LastLeft(p, Y.queue)
  <2> DEFINE a == Len(X.queue)
             b == Len(Y.queue)
  <2>1. a \in Nat /\ b = a + 1 /\ (\A i \in 1 .. a : Y.queue[i] = X.queue[i]) /\ Y.queue[a + 1] = e
    BY DEF Longer
  <2>2. \A i \in 1 .. a : ~LeftOf(p, X.queue[i])
    BY <1>1 DEF Connected, NoLeft
  <2> HIDE DEF a, b
  <2>3. /\ a + 1 \in 1 .. b /\ LeftOf(p, Y.queue[a + 1])
        /\ \A j \in 1 .. b : LeftOf(p, Y.queue[j]) => a + 1 = j
        /\ \A j \in 1 .. b : FrameOf(p, Y.queue[j]) => j < a + 1
    BY <2>1, <2>2 DEF FrameOf, LeftOf
  <2> QED BY <2>3 DEF LastLeft, b
<1>5. LeftQueued(p, t, Y)
  BY <1>1, <1>3, <1>4 DEF LeftQueued, Connected
<1> QED BY <1>5 DEF Heard

(* It leaves while its host closes: the departure is kept with the frames    *)
(* held for it.                                                             *)
LEMMA HeardKept ==
    ASSUME NEW p, NEW s \in SocketTypes, NEW t, NEW X \in Hosted, NEW Y, Heard(p, s, X), s.at = "on",
           Y.queue = X.queue, Longer(X.departures, Y.departures, [peer |-> p, frames |-> s.held]),
           t.at = "leaving", t.sent = s.sent, t.got = s.got
    PROVE  Heard(p, t, Y)
<1> DEFINE d == X.departures
           f == Y.departures
           a == Len(d)
           b == Len(f)
           left == [peer |-> p, frames |-> s.held]
<1>1. Connected(p, s, X)
  BY DEF Heard
<1>2. a \in Nat /\ b = a + 1 /\ (\A i \in 1 .. a : f[i] = d[i]) /\ f[a + 1] = left
  BY DEF Longer
<1>3. \A i \in 1 .. a : d[i].peer # p
  BY <1>1 DEF Connected, NoDeparture
<1>4. left.peer = p /\ left.frames = s.held
  OBVIOUS
<1> HIDE DEF a, b, d, f, left
<1>5. a + 1 \in 1 .. b /\ f[a + 1].peer = p /\ f[a + 1].frames = s.held
      /\ \A i \in 1 .. b : f[i].peer = p => i = a + 1
  BY <1>2, <1>3, <1>4
<1>6. LeftKept(p, t, Y)
  BY <1>1, <1>5 DEF LeftKept, Connected, b, f
<1> QED BY <1>6 DEF Heard

(* Another peer's departure is kept: this one waits as it did. *)
LEMMA HeardAhead ==
    ASSUME NEW p, NEW s, NEW X, NEW Y, NEW left, Heard(p, s, X), Y.queue = X.queue, Y.closed <=> X.closed,
           Longer(X.departures, Y.departures, left), left.peer # p
    PROVE  Heard(p, s, Y)
<1> DEFINE d == X.departures
           f == Y.departures
           a == Len(d)
           b == Len(f)
<1>1. a \in Nat /\ b = a + 1 /\ (\A i \in 1 .. a : f[i] = d[i]) /\ f[a + 1] = left
  BY DEF Longer
<1> HIDE DEF a, b, d, f
<1>2. \A i \in 1 .. b : f[i].peer = p => i \in 1 .. a /\ f[i] = d[i]
  BY <1>1
<1>3. \A i \in 1 .. a : i \in 1 .. b /\ f[i] = d[i]
  BY <1>1
<1>4. NoDeparture(p, d) => NoDeparture(p, f)
  BY <1>2 DEF NoDeparture, a, b
<1>5. ASSUME LeftKept(p, s, X) PROVE LeftKept(p, s, Y)
  <2>1. PICK j \in 1 .. a :
          /\ d[j].peer = p /\ \A i \in 1 .. a : d[i].peer = p => i = j
          /\ Following(s.sent - Len(d[j].frames), d[j].frames)
          /\ InOrder(p, X.queue, Len(s.got), s.sent - Len(d[j].frames))
    BY <1>5 DEF LeftKept, a, d
  <2>2. j \in 1 .. b /\ f[j] = d[j] /\ \A i \in 1 .. b : f[i].peer = p => i = j
    BY <1>2, <1>3, <2>1
  <2> QED BY <1>5, <2>1, <2>2 DEF LeftKept, b, f
<1> QED BY <1>4, <1>5 DEF Heard, Connected, LeftQueued, d, f

(* A departure arrives. *)
LEMMA DepartPeers ==
    ASSUME HInv, PInv, NEW p \in Peers, Depart(p)
    PROVE  PInv'
<1>1. PICK h : h = peer[p].on
  OBVIOUS
<1> DEFINE d == [peer |-> p, frames |-> peer[p].held]
           Z == [host[h] EXCEPT !.departures = Append(@, d)]
           e == Entry("left", p, 0)
           X == IF host[h].closed THEN Z ELSE Queued(host[h], e)
<1>2. /\ peer[p].at = "on" /\ host' = [host EXCEPT ![h] = X] /\ call' = call
      /\ peer' = [peer EXCEPT ![p] = [peer[p] EXCEPT !.at = "leaving", !.held = <<>>]]
  <2>1. host' = [host EXCEPT ![h] = X]
    BY <1>1, Zenon DEF Depart
  <2>2. peer' = [peer EXCEPT ![p] = [peer[p] EXCEPT !.at = "leaving", !.held = <<>>]]
    BY DEF Depart
  <2> QED BY <2>1, <2>2 DEF Depart
<1>3. ClientTypes /\ PeerOK(p) /\ p \in Callers
  BY NoHostIsNone DEF HInv, PInv
<1>4. h \in Hosts /\ ~host[h].done /\ host[h] \in Hosted /\ Heard(p, peer[p], host[h])
  BY <1>1, <1>2, <1>3 DEF PeerOK, HInv, HostTypes
<1>5. peer \in [Peers -> SocketTypes] /\ peer[p] \in SocketTypes /\ peer[p].held \in Seq(Nat)
  <2>1. peer \in [Peers -> SocketTypes]
    BY <1>3 DEF ClientTypes
  <2> QED BY <2>1 DEF SocketTypes
<1>6. /\ peer'[p].at = "leaving" /\ peer'[p].on = h /\ peer'[p].sent = peer[p].sent /\ peer'[p].got = peer[p].got
      /\ \A o \in Peers : o # p => peer'[o] = peer[o]
  BY <1>1, <1>2, <1>5 DEF SocketTypes
<1>7. e \in Entries /\ e.kind = "left" /\ e.by = p
  BY <1>3 DEF Entry, Entries, EntryKinds
<1>8. Owns(h, host[h], peer, call)
  BY <1>4 DEF PInv
<1>9. ASSUME NEW o \in Peers, peer[o].on = h PROVE Heard(o, peer[o], host[h]) /\ peer[o] \in SocketTypes
  BY <1>4, <1>5, <1>9 DEF PInv, PeerOK
<1>10. /\ Z \in Hosted /\ Z.queue = host[h].queue /\ Z.closed = host[h].closed /\ Z.done = host[h].done
       /\ Longer(host[h].departures, Z.departures, d) /\ d.peer = p
  <2>1. d \in Departures /\ host[h].departures \in Seq(Departures) /\ d.peer = p
    BY <1>4, <1>5 DEF Departures, Hosted
  <2> HIDE DEF d
  <2>2. Append(host[h].departures, d) \in Seq(Departures)
        /\ Longer(host[h].departures, Append(host[h].departures, d), d)
    BY <2>1, AppendProperties DEF Longer
  <2> QED BY <1>4, <2>1, <2>2 DEF Hosted
<1> HIDE DEF Z, e
<1>11. CASE host[h].closed
  <2>1. host' = [host EXCEPT ![h] = Z]
    BY <1>2, <1>11
  <2>2. Heard(p, peer'[p], Z)
    BY <1>2, <1>4, <1>5, <1>6, <1>10, HeardKept
  <2> HIDE DEF d
  <2>3. Owns(h, Z, peer, call)
    <3> DEFINE c == host[h].departures
               f == Z.departures
    <3>1. Len(f) = Len(c) + 1 /\ Len(c) \in Nat /\ (\A j \in 1 .. Len(c) : f[j] = c[j]) /\ f[Len(c) + 1] = d
      BY <1>10 DEF Longer
    <3>2. \A j \in 1 .. Len(c) : peer[c[j].peer].on = h
      BY <1>8 DEF Owns
    <3> HIDE DEF c, f
    <3>3. \A j \in 1 .. Len(f) : peer[f[j].peer].on = h
      BY <1>1, <1>10, <3>1, <3>2
    <3> QED BY <1>8, <1>10, <3>3 DEF Owns, f
  <2>4. OthersHeard(p, h, Z)
    <3> SUFFICES ASSUME NEW o \in Peers, o # p, peer[o].on = h PROVE Heard(o, peer[o], Z)
      BY DEF OthersHeard
    <3> QED BY <1>9, <1>10, HeardAhead
  <2> QED BY <1>1, <1>2, <1>4, <1>6, <1>10, <2>1, <2>2, <2>3, <2>4, ArrivalStep
<1>12. CASE ~host[h].closed
  <2> DEFINE Y == Queued(host[h], e)
  <2>1. host' = [host EXCEPT ![h] = Y]
    BY <1>2, <1>12
  <2>2. /\ Y \in Hosted /\ Longer(host[h].queue, Y.queue, e) /\ Y.departures = host[h].departures
        /\ Y.done = host[h].done
        /\ Y.closed = host[h].closed
    <3>1. Len(host[h].queue) \in Nat
      BY <1>4 DEF Hosted
    <3> QED BY <1>4, <1>7, <3>1, QueuedIs DEF Longer
  <2> HIDE DEF Y
  <2>3. Heard(p, peer'[p], Y)
    <3>1. LeftOf(p, e)
      BY <1>7 DEF LeftOf
    <3> QED BY <1>2, <1>4, <1>5, <1>6, <1>12, <2>2, <3>1, HeardLeaving
  <2>4. Owns(h, Y, peer, call)
    BY <1>1, <1>7, <1>8, <2>2, OwnsQueued
  <2>5. OthersHeard(p, h, Y)
    <3> SUFFICES ASSUME NEW o \in Peers, o # p, peer[o].on = h PROVE Heard(o, peer[o], Y)
      BY DEF OthersHeard
    <3>1. Beside(o, host[h].queue, Y.queue)
      BY <1>7, <2>2 DEF Beside, FrameOf, LeftOf
    <3> QED BY <1>4, <1>9, <2>2, <3>1, HeardBeside
  <2> QED BY <1>1, <1>2, <1>4, <1>6, <2>1, <2>2, <2>3, <2>4, <2>5, ArrivalStep
<1> QED BY <1>11, <1>12

-----------------------------------------------------------------------------
(* Every step *)

(* Nobody is connected, nothing is queued. *)
NobodyOn ==
    /\ host = [h \in Hosts |-> Vacant]
    /\ \A p \in Peers : peer[p].on = NoHost /\ peer[p].at \in {"away", "dropped"}

(* Then every socket is as it should be. *)
LEMMA NobodyOnOK == NobodyOn => PInv
<1> SUFFICES ASSUME NobodyOn PROVE PInv
  OBVIOUS
<1>1. ASSUME NEW p \in Peers PROVE PeerOK(p)
  BY NoHostIsNone DEF NobodyOn, PeerOK
<1>2. ASSUME NEW h \in Hosts PROVE Owns(h, host[h], peer, call)
  <2>1. host[h].queue = <<>> /\ host[h].departures = <<>>
    BY DEF NobodyOn, Vacant
  <2> QED BY <2>1, EmptySeq DEF Owns
<1> QED BY <1>1, <1>2 DEF PInv

(* The process dies: every socket is dropped with it. *)
LEMMA CrashPeers ==
    ASSUME Crash
    PROVE  PInv'
<1>1. host' = [h \in Hosts |-> Vacant] /\ peer' = [p \in Peers |-> [NoSocket EXCEPT !.at = "dropped"]]
  BY DEF Crash
<1>2. NobodyOn'
  BY <1>1, DroppedIs DEF NobodyOn
<1> QED BY <1>2, NobodyOnOK, PTL

(* A namespace nobody has used yet. *)
LEMMA Starts == Init => HInv /\ PInv
<1> SUFFICES ASSUME Init PROVE HInv /\ PInv
  OBVIOUS
<1>1. call \in [Callers -> [to : Names \cup {""}, at : CallStates]] /\ \A c \in Callers : call[c].at = "none"
  BY DEF Init, NoCall, CallStates
<1>2. NoSocket \in SocketTypes /\ NoSocket.on = NoHost /\ NoSocket.at = "away"
  <2>1. <<>> \in Seq(Nat) /\ 0 \in Nat
    OBVIOUS
  <2> QED BY <2>1 DEF NoSocket, SocketTypes, PeerStates
<1>3. peer \in [Peers -> SocketTypes] /\ \A p \in Peers : peer[p].on = NoHost /\ peer[p].at = "away"
  BY <1>2 DEF Init
<1>4. AllClosed
  BY <1>1, <1>3 DEF AllClosed, Init, Alarms, ClientTypes
<1>5. NobodyOn
  BY <1>3 DEF NobodyOn, Init
<1> QED BY <1>4, <1>5, AllClosedOK, NobodyOnOK

(* What a host does while it holds its lock. *)
LEMMA WorkStep ==
    ASSUME HInv, PInv, NEW h \in Hosts, Work(h)
    PROVE  HInv' /\ PInv'
<1>1. CASE RunFetch(h)
  BY <1>1, RunFetchOK, RunFetchPeers
<1>2. CASE RunFrame(h)
  BY <1>2, RunFrameOK, RunFramePeers
<1>3. CASE RunLeft(h)
  BY <1>3, RunLeftOK, RunLeftPeers
<1>4. CASE RunAlarm(h)
  BY <1>4, RunAlarmOK, RunAlarmAside
<1>5. CASE AlarmReturns(h)
  BY <1>5, AlarmReturnsOK, AlarmEndsAside
<1>6. CASE AlarmThrows(h)
  BY <1>6, AlarmThrowsOK, AlarmEndsAside
<1>7. CASE RunDeparture(h)
  BY <1>7, RunDepartureOK, RunDeparturePeers
<1>8. CASE CloseStore(h)
  BY <1>8, CloseStoreOK, CloseStorePeers
<1> QED BY <1>1, <1>2, <1>3, <1>4, <1>5, <1>6, <1>7, <1>8 DEF Work

(* The invariants are inductive: one case per action. *)
LEMMA EveryStep == HInv /\ PInv /\ [Next]_vars => HInv' /\ PInv'
<1> SUFFICES ASSUME HInv, PInv, [Next]_vars PROVE HInv' /\ PInv'
  OBVIOUS
<1>1. CASE \E c \in Peers \cup Requests : Request(c)
  BY <1>1, RequestOK, RequestAside
<1>2. CASE \E c \in Callers : Retry(c)
  BY <1>2, RetryOK, RetryAside
<1>3. CASE \E n \in Names : EvictIdle(n) \/ Release(n) \/ ComesDue(n) \/ ColdFires(n)
  <2> PICK n \in Names : EvictIdle(n) \/ Release(n) \/ ComesDue(n) \/ ColdFires(n)
    BY <1>3
  <2>1. CASE EvictIdle(n)
    BY <2>1, EvictIdleOK, EvictAside
  <2>2. CASE Release(n)
    BY <2>2, ReleaseOK, EvictAside
  <2>3. CASE ComesDue(n)
    BY <2>3, ComesDueOK, TimeAside
  <2>4. CASE ColdFires(n)
    BY <2>4, ColdFiresOK, ColdFiresAside
  <2> QED BY <2>1, <2>2, <2>3, <2>4
<1>4. ASSUME NEW h \in Hosts, Work(h) \/ TimerFires(h) \/ \E m \in Names : TurnCalls(h, m)
      PROVE  HInv' /\ PInv'
  <2>1. CASE Work(h)
    BY <2>1, WorkStep
  <2>2. CASE TimerFires(h)
    BY <2>2, TimerFiresOK, TimerFiresAside
  <2>3. CASE \E m \in Names : TurnCalls(h, m)
    BY <2>3, TurnCallsOK, TurnCallsAside
  <2> QED BY <1>4, <2>1, <2>2, <2>3
<1>5. CASE \E p \in Peers : Send(p) \/ Depart(p)
  <2> PICK p \in Peers : Send(p) \/ Depart(p)
    BY <1>5
  <2>1. PeerOK(p)
    BY DEF PInv
  <2>2. CASE Send(p)
    BY <2>1, <2>2, SendOK, SendPeers
  <2>3. CASE Depart(p)
    BY <2>1, <2>3, DepartOK, DepartPeers
  <2> QED BY <2>2, <2>3
<1>6. CASE Pause
  BY <1>6, PauseOK, TimeAside
<1>7. CASE PauseEnds
  BY <1>7, PauseEndsOK, TimeAside
<1>8. CASE Resume
  BY <1>8, ResumeOK, TimeAside
<1>9. CASE Crash
  BY <1>9, CrashOK, CrashPeers
<1>10. CASE UNCHANGED vars
  <2>1. UNCHANGED <<host, namespaceVars, alarm>> /\ host' = host /\ call' = call /\ peer' = peer
    BY <1>10 DEF vars
  <2>2. ClientTypes'
    BY <2>1 DEF HInv, ClientTypes, SocketTypes
  <2>3. HInv'
    BY <2>1, <2>2, HostsStay
  <2>4. PInv'
    BY <2>1 DEF PInv, PeerOK
  <2> QED BY <2>3, <2>4
<1> QED BY <1>1, <1>2, <1>3, <1>4, <1>5, <1>6, <1>7, <1>8, <1>9, <1>10 DEF Next, Work

(* What holds in every state that can be reached: the hosts and the timers   *)
(* of every actor, and the frames of every peer, are as described above.    *)
THEOREM Invariant == Spec => [](HInv /\ PInv)
<1>1. Init => HInv /\ PInv
  BY Starts
<1>2. (HInv /\ PInv) /\ [Next]_vars => (HInv /\ PInv)'
  BY EveryStep
<1> QED BY <1>1, <1>2, PTL DEF Spec

-----------------------------------------------------------------------------
(* What follows *)

(* Every variable keeps its shape (the records and maps of actor-host.ts).  *)
THEOREM TypeCorrect == Spec => []TypeOK
<1>1. HInv => TypeOK
  <2> SUFFICES ASSUME HInv PROVE TypeOK
    OBVIOUS
  <2>1. ASSUME NEW h \in Hosts
        PROVE  /\ host[h].closed \in BOOLEAN /\ host[h].done \in BOOLEAN /\ host[h].running \in BOOLEAN
               /\ host[h].released \in BOOLEAN /\ host[h].timer \in Alarms
               /\ host[h].retries \in 0 .. ALARM_RETRY_LIMIT
               /\ \A i \in DOMAIN host[h].queue : host[h].queue[i].kind \in EntryKinds
    <3>1. host[h] \in Hosted
      BY DEF HInv, HostTypes
    <3>2. host[h].queue \in Seq(Entries)
      BY <3>1 DEF Hosted
    <3>3. ASSUME NEW i \in DOMAIN host[h].queue PROVE host[h].queue[i].kind \in EntryKinds
      <4>1. host[h].queue[i] \in Entries
        BY <3>2
      <4> QED BY <4>1 DEF Entries
    <3> QED BY <3>1, <3>3 DEF Hosted
  <2>2. \A c \in Callers : call[c].at \in {"none", "waiting", "woken", "queued", "answered", "refused"}
    BY DEF HInv, ClientTypes, CallStates
  <2>3. \A p \in Peers : /\ peer[p].on \in Hosts \cup {NoHost}
                         /\ peer[p].at \in {"away", "on", "leaving", "gone", "dropped"}
    BY DEF HInv, ClientTypes, SocketTypes, PeerStates
  <2> QED BY <2>1, <2>2, <2>3 DEF TypeOK, HInv, HostTypes
<1> QED BY <1>1, Invariant, PTL

(* A store has one host at most, and none while a backup copies the files,   *)
(* whichever of open, evict, release, pause and alarm comes first.          *)
THEOREM StoresAreExclusive == Spec => []StoreIsExclusive
<1>1. HInv => StoreIsExclusive
  BY DEF HInv, StoreIsExclusive
<1> QED BY <1>1, Invariant, PTL

(* close() is the last entry the lock lets in (deliverMessage, deliverClose, *)
(* fireAlarm and fetch all look at closed first).                           *)
LEMMA LastInTheQueue == HInv => NothingBehindClose
<1> SUFFICES ASSUME HInv, NEW h \in Hosts, NEW i \in DOMAIN host[h].queue, host[h].queue[i].kind = "close"
             PROVE  i = Len(host[h].queue)
  BY DEF NothingBehindClose
<1>1. host[h] # Vacant
  BY VacantOK
<1>2. Working(host[h]) /\ host[h] \in Hosted
  BY <1>1 DEF HInv, HostOK, HostTypes
<1>3. i \in 1 .. Len(host[h].queue)
  <2>1. host[h].queue \in Seq(Entries)
    BY <1>2 DEF Hosted
  <2> QED BY <2>1
<1> QED BY <1>2, <1>3 DEF Working

(* A departure on its way finds its store open, and a peer that is gone has  *)
(* been heard to the last frame.                                            *)
LEMMA HeardOut == HInv /\ PInv => LeaversAreHeard
<1> SUFFICES ASSUME HInv, PInv, NEW p \in Peers
             PROVE  /\ peer[p].at = "leaving" => ~host[peer[p].on].done
                    /\ peer[p].at = "gone" => peer[p].got = [k \in 1 .. peer[p].sent |-> k]
  BY DEF LeaversAreHeard
<1>1. PeerOK(p)
  BY DEF PInv
<1>2. peer[p].at = "leaving" => ~host[peer[p].on].done
  BY <1>1 DEF PeerOK
<1>3. ASSUME peer[p].at = "gone" PROVE peer[p].got = [k \in 1 .. peer[p].sent |-> k]
  <2>1. Len(peer[p].got) = peer[p].sent /\ \A i \in 1 .. Len(peer[p].got) : peer[p].got[i] = 0 + i
    BY <1>1, <1>3 DEF PeerOK, Following
  <2>2. peer[p].got \in Seq(Nat)
    BY DEF HInv, ClientTypes, SocketTypes
  <2> DEFINE s == peer[p].got
             n == peer[p].sent
  <2>3. s \in Seq(Nat) /\ Len(s) = n /\ \A i \in 1 .. n : s[i] = i
    BY <2>1, <2>2
  <2> HIDE DEF s, n
  <2>4. s = [k \in 1 .. n |-> k]
    BY <2>3
  <2> QED BY <2>4 DEF s, n
<1> QED BY <1>2, <1>3

(* An alarm row always has its timer, its entry, or the close or the resume   *)
(* that will see to it.                                                     *)
LEMMA EveryAlarmHasItsTimer == HInv => AlarmHasTimer
<1> SUFFICES ASSUME HInv, NEW n \in Names, alarm[n] # "none"
             PROVE  LET h == <<n, resident[n]>>
                    IN  \/ Closing(n) # {}
                        \/ resident[n] # 0
                           /\ \/ host[h].timer # "none" /\ NoLater(host[h].timer, alarm[n])
                              \/ \E i \in DOMAIN host[h].queue : host[h].queue[i].kind = "alarm"
                        \/ resident[n] = 0 /\ cold[n] # "none" /\ NoLater(cold[n], alarm[n])
                        \/ paused /\ heldAlarms[n] # "none" /\ NoLater(heldAlarms[n], alarm[n])
  BY DEF AlarmHasTimer
<1>1. CASE \A i \in Slots : host[<<n, i>>].done
  <2>1. \A i \in Slots : resident[n] # i
    <3> SUFFICES ASSUME NEW i \in Slots PROVE resident[n] # i
      OBVIOUS
    <3>1. <<n, i>> \in Hosts /\ <<n, i>>[1] = n /\ <<n, i>>[2] = i /\ host[<<n, i>>].done
      BY <1>1, HostPair
    <3>2. host[<<n, i>>] = Vacant /\ (~host[<<n, i>>].closed <=> resident[n] = i)
      BY <3>1 DEF HInv, HostOK, Working
    <3> QED BY <3>2, VacantOK
  <2>2. resident[n] = 0
    BY <2>1 DEF HInv, HostTypes
  <2>3. NameOK(n)
    BY DEF HInv
  <2> QED BY <1>1, <2>2, <2>3 DEF NameOK
<1>2. ASSUME NEW i \in Slots, ~host[<<n, i>>].done
      PROVE  \/ Closing(n) # {}
             \/ resident[n] = i /\ resident[n] # 0
                /\ \/ host[<<n, i>>].timer # "none" /\ NoLater(host[<<n, i>>].timer, alarm[n])
                   \/ \E j \in DOMAIN host[<<n, i>>].queue : host[<<n, i>>].queue[j].kind = "alarm"
  <2>1. <<n, i>> \in Hosts /\ <<n, i>>[1] = n /\ <<n, i>>[2] = i
    BY HostPair
  <2>2. /\ host[<<n, i>>] \in Hosted /\ Wakes(host[<<n, i>>], alarm[n])
        /\ ~host[<<n, i>>].closed <=> resident[n] = i
    BY <1>2, <2>1, KnownHost
  <2>3. CASE host[<<n, i>>].closed
    BY <1>2, <2>3 DEF Closing
  <2>4. CASE ~host[<<n, i>>].closed
    <3>1. resident[n] = i /\ i # 0
      BY <2>2, <2>4 DEF Slots
    <3>2. host[<<n, i>>].queue \in Seq(Entries)
      BY <2>2 DEF Hosted
    <3>3. DOMAIN host[<<n, i>>].queue = 1 .. Len(host[<<n, i>>].queue)
      BY <3>2
    <3> QED BY <2>2, <2>4, <3>1, <3>3 DEF Wakes
  <2> QED BY <2>3, <2>4
<1> QED BY <1>1, <1>2

(* What an actor still has to do outlives its host's closing: frames and     *)
(* departures queued or held, and alarms.                                   *)
THEOREM NothingForgotten == Spec => []NothingIsForgotten
<1>1. HInv /\ PInv => NothingIsForgotten
  BY LastInTheQueue, HeardOut, EveryAlarmHasItsTimer DEF NothingIsForgotten
<1> QED BY <1>1, Invariant, PTL

(* A step that closes a store drops no socket whose departure is under way:  *)
(* those have all been handled before (close(), pendingCloses).             *)
DropsOnlyTheConnected ==
    \A h \in Hosts : CloseStore(h) => \A p \in Peers : peer[p].on = h => peer[p].at = "on"

(* So a close takes sockets away only from peers that will reconnect. *)
THEOREM OnlyTheConnectedAreDropped == Spec => [][DropsOnlyTheConnected]_vars
<1>1. HInv /\ PInv => DropsOnlyTheConnected
  BY NoneLeaving DEF DropsOnlyTheConnected
<1>2. HInv /\ PInv /\ [Next]_vars => [DropsOnlyTheConnected]_vars
  BY <1>1
<1> QED BY <1>2, Invariant, PTL DEF Spec
=============================================================================
