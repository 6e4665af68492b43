----------------------------- MODULE ActorHost -----------------------------
(***************************************************************************)
(* The in-process actor host (packages/runtime/src/actor-host.ts): one     *)
(* namespace of actors, each with one store, opened on demand, closed when *)
(* idle, reopened by its alarm, and closed all together while the node is  *)
(* backed up.                                                              *)
(*                                                                         *)
(* A HostedActor is a host: a FIFO lock whose queue holds the entries that *)
(* wait for it, the first of which is running.  An actor name has two      *)
(* places for hosts, so that a host that is still closing and the next one *)
(* can be seen side by side.                                               *)
(*                                                                         *)
(* Time is a row that is "later" and then "soon": a timer fires only for   *)
(* what is due.  What an actor's handlers do is left open: each may set,   *)
(* move or delete the alarm, and the handler of a frame may call another   *)
(* actor while it holds its lock, as a co-author turn does.                *)
(***************************************************************************)
EXTENDS Integers, Sequences, FiniteSets

CONSTANTS
    Names,              \* actors of the namespace
    Peers, Requests,    \* clients that upgrade to a socket, and those that only ask
    Door,               \* the actor each client asks for
    Calls,              \* <<n, m>>: a frame's handler of n may call m
    Alarmed,            \* bound: the actors whose handlers set alarms
    ALARM_RETRY_LIMIT,
    MaxFrames,          \* bound: frames a peer sends over one socket
    MaxSets, MaxPauses, MaxCrashes  \* bounds of a run

ASSUME NamesAssumption == Door \in [Peers \cup Requests -> Names] /\ Alarmed \subseteq Names
ASSUME CallsAssumption == Calls \subseteq {c \in Names \X Names : c[1] # c[2]}
ASSUME LimitsAssumption == ALARM_RETRY_LIMIT \in Nat /\ MaxFrames \in Nat

Slots == {1, 2}
Hosts == Names \X Slots
NoHost == <<>>
Callers == Peers \cup Requests \cup Hosts

ASSUME CallersAssumption == (Peers \cup Requests) \cap Hosts = {}

Dues == {"soon", "later"}
Alarms == Dues \cup {"none"}

VARIABLES
    host,       \* each host: its lock's queue, its timer, whether it is closing or done
    resident,   \* `actors`: the slot of a name's host, 0 when it has none
    cold,       \* `coldAlarms`: the timer of an actor that is not in memory
    heldAlarms, \* alarms set aside while paused
    paused, pausing,    \* pause() was called; it has not resolved yet
    alarm,      \* the alarm row of each store
    call,       \* what each caller has asked of a handle
    peer,       \* each peer's socket
    spent       \* alarms set by handlers, pauses and crashes so far

namespaceVars == <<resident, cold, heldAlarms, paused, pausing>>
vars == <<host, namespaceVars, alarm, call, peer, spent>>

-----------------------------------------------------------------------------
(* Hosts *)

Entry(kind, by, k) == [kind |-> kind, by |-> by, k |-> k]

(* A place with no host in it, or whose host closed its store. *)
Vacant ==
    [closed |-> TRUE, done |-> TRUE, timer |-> "none", released |-> FALSE, retries |-> 0,
     queue |-> <<>>, departures |-> <<>>, running |-> FALSE]

(* The constructor arms the timer from the row. *)
NewHost(n) == [Vacant EXCEPT !.closed = FALSE, !.done = FALSE, !.timer = alarm[n]]

NoCall == [to |-> "", at |-> "none"]
NoSocket == [on |-> NoHost, at |-> "away", sent |-> 0, got |-> <<>>, held |-> <<>>]

Closing(n) == {i \in Slots : host[<<n, i>>].closed /\ ~host[<<n, i>>].done}
Sockets(h) == {p \in Peers : peer[p].on = h}
Running(h, kind) == host[h].queue # <<>> /\ Head(host[h].queue).kind = kind
Current(h) == Head(host[h].queue)

(* isIdle, the quiet time apart. *)
Idle(h) == host[h].queue = <<>> /\ Sockets(h) = {}

(* A timer that fires no later than the row stays. *)
NoLater(timer, row) == timer = "soon" \/ timer = row
Armed(hosted, row) ==
    IF hosted.closed \/ row = "none" THEN "none"
    ELSE IF hosted.timer # "none" /\ NoLater(hosted.timer, row) THEN hosted.timer ELSE row

Queued(hosted, entry) == [hosted EXCEPT !.queue = Append(@, entry)]
Popped(hosted) == [hosted EXCEPT !.queue = Tail(@), !.running = FALSE]

MaySet(n) == n \in Alarmed /\ spent.sets < MaxSets
Sets == spent' = [spent EXCEPT !.sets = @ + 1]

(* A handler returns: it has left the row as it was, or set, moved or       *)
(* deleted it.                                                             *)
Handled(h, hosted) ==
    \/ host' = [host EXCEPT ![h] = hosted] /\ UNCHANGED <<alarm, spent>>
    \/ \E row \in Alarms \ {alarm[h[1]]} :
        /\ MaySet(h[1]) /\ Sets
        /\ alarm' = [alarm EXCEPT ![h[1]] = row]
        /\ host' = [host EXCEPT ![h] = [hosted EXCEPT !.timer = Armed(hosted, row)]]

-----------------------------------------------------------------------------
(* The namespace: get, evict, release *)

Init ==
    /\ host = [h \in Hosts |-> Vacant]
    /\ resident = [n \in Names |-> 0]
    /\ cold = [n \in Names |-> "none"] /\ heldAlarms = [n \in Names |-> "none"]
    /\ paused = FALSE /\ pausing = FALSE
    /\ alarm = [n \in Names |-> "none"]
    /\ call = [c \in Callers |-> NoCall]
    /\ peer = [p \in Peers |-> NoSocket]
    /\ spent = [sets |-> 0, pauses |-> 0, crashes |-> 0]

SlotFor(n) ==
    IF resident[n] # 0 THEN resident[n] ELSE CHOOSE i \in Slots : host[<<n, i>>].done
HostFor(n) == IF resident[n] # 0 THEN host[<<n, resident[n]>>] ELSE NewHost(n)

(* open(n), leaving its host as hosted. *)
Open(n, hosted) ==
    /\ resident' = [resident EXCEPT ![n] = SlotFor(n)]
    /\ host' = [host EXCEPT ![<<n, SlotFor(n)>>] = hosted]
    /\ cold' = [cold EXCEPT ![n] = "none"]
    /\ UNCHANGED <<heldAlarms, paused, pausing>>

(* A caller outside the namespace has its answer and may ask again; a turn  *)
(* holds on to it.                                                         *)
Told(c, answer) ==
    call' = [call EXCEPT ![c] = IF c \in Hosts THEN [@ EXCEPT !.at = answer] ELSE NoCall]

(* Mutant: an actor that is still closing is opened anew at once. *)
FetchAtOnce(c, n) ==
    IF paused THEN Told(c, "refused") /\ UNCHANGED <<host, namespaceVars>>
    ELSE /\ Open(n, [Queued(HostFor(n), Entry("fetch", c, 0)) EXCEPT !.released = FALSE])
         /\ call' = [call EXCEPT ![c] = [to |-> n, at |-> "queued"]]

(* fetch: refused while paused, made to wait while a close is under way.    *)
Fetch(c, n) ==
    IF paused THEN Told(c, "refused") /\ UNCHANGED <<host, namespaceVars>>
    ELSE IF Closing(n) # {}
    THEN call' = [call EXCEPT ![c] = [to |-> n, at |-> "waiting"]] /\ UNCHANGED <<host, namespaceVars>>
    ELSE /\ Open(n, [Queued(HostFor(n), Entry("fetch", c, 0)) EXCEPT !.released = FALSE])
         /\ call' = [call EXCEPT ![c] = [to |-> n, at |-> "queued"]]

Request(c) ==
    /\ call[c] = NoCall
    /\ c \in Peers => peer[c].on = NoHost
    /\ Fetch(c, Door[c])
    /\ UNCHANGED <<alarm, peer, spent>>

(* Mutant: the wait ends in an open, paused or not. *)
RetryAnyway(c) ==
    /\ call[c].at = "woken"
    /\ Open(call[c].to, Queued(HostFor(call[c].to), Entry("fetch", c, 0)))
    /\ call' = [call EXCEPT ![c].at = "queued"]
    /\ UNCHANGED <<alarm, peer, spent>>

(* The close it waited for is over; a pause meanwhile refuses it. *)
Retry(c) ==
    /\ call[c].at = "woken"
    /\ Fetch(c, call[c].to)
    /\ UNCHANGED <<alarm, peer, spent>>

(* close(), queued behind whatever runs. *)
CloseCalled(hosted) ==
    Queued([hosted EXCEPT !.closed = TRUE, !.timer = "none"], Entry("close", NoHost, 0))

Evicted(h, hosted) ==
    /\ host' = [host EXCEPT ![h] = CloseCalled(hosted)]
    /\ resident' = [resident EXCEPT ![h[1]] = 0]
    /\ UNCHANGED <<cold, heldAlarms, paused, pausing>>

(* A caller a close has woken asks again before any sweep or request runs. *)
AskedAgain(n) == \A c \in Callers : call[c] # [to |-> n, at |-> "woken"]

(* evictIdle, of an actor that has been idle for long enough. *)
EvictIdle(n) ==
    /\ resident[n] # 0 /\ AskedAgain(n)
    /\ LET h == <<n, resident[n]>> IN Idle(h) /\ Evicted(h, host[h])
    /\ UNCHANGED <<alarm, call, peer, spent>>

(* release: whoever opened it is done.  With an alarm pending it stays.     *)
Release(n) ==
    /\ resident[n] # 0 /\ AskedAgain(n)
    /\ LET h == <<n, resident[n]>>
       IN  /\ Idle(h)
           /\ IF alarm[n] = "none" THEN Evicted(h, host[h])
              ELSE /\ host' = [host EXCEPT ![h].released = TRUE]
                   /\ UNCHANGED namespaceVars
    /\ UNCHANGED <<alarm, call, peer, spent>>

-----------------------------------------------------------------------------
(* Entries that run under the lock *)

(* The handler of a request; an upgrade leaves its peer a socket. *)
RunFetch(h) ==
    /\ Running(h, "fetch")
    /\ LET c == Current(h).by
       IN  /\ Told(c, "answered")
           /\ peer' = IF c \in Peers THEN [peer EXCEPT ![c] = [NoSocket EXCEPT !.on = h, !.at = "on"]] ELSE peer
    /\ Handled(h, Popped(host[h]))
    /\ UNCHANGED namespaceVars

(* A turn asks for another document while it holds its own lock. *)
TurnCalls(h, m) ==
    /\ Running(h, "frame") /\ <<h[1], m>> \in Calls
    /\ call[h] = NoCall
    /\ Fetch(h, m)
    /\ UNCHANGED <<alarm, peer, spent>>

(* Mutant: a refusal leaves the turn waiting. *)
OverWhenAnswered(h) == call[h].at \in {"none", "answered"}

(* Its call is answered or refused, which only costs it the other document. *)
Over(h) == call[h].at \in {"none", "answered", "refused"}

RunFrame(h) ==
    /\ Running(h, "frame") /\ Over(h)
    /\ peer' = [peer EXCEPT ![Current(h).by].got = Append(@, Current(h).k)]
    /\ call' = [call EXCEPT ![h] = NoCall]
    /\ Handled(h, Popped(host[h]))
    /\ UNCHANGED namespaceVars

Gone(p, frames) == [peer EXCEPT ![p].on = NoHost, ![p].at = "gone", ![p].got = @ \o frames]

RunLeft(h) ==
    /\ Running(h, "left")
    /\ peer' = Gone(Current(h).by, <<>>)
    /\ Handled(h, Popped(host[h]))
    /\ UNCHANGED <<namespaceVars, call>>

(* afterAlarm: a host opened for its alarm alone closes once it has settled. *)
AfterAlarm(h, hosted) ==
    IF hosted.released /\ resident[h[1]] = h[2] /\ ~hosted.closed
       /\ hosted.queue = <<>> /\ Sockets(h) = {} /\ alarm'[h[1]] = "none"
    THEN Evicted(h, hosted)
    ELSE host' = [host EXCEPT ![h] = hosted] /\ UNCHANGED namespaceVars

(* Mutant: an alarm moved later keeps no timer. *)
RunAlarmUnarmed(h) ==
    /\ Running(h, "alarm") /\ ~host[h].running
    /\ IF ~host[h].closed /\ alarm[h[1]] = "soon"
       THEN /\ alarm' = [alarm EXCEPT ![h[1]] = "none"]
            /\ host' = [host EXCEPT ![h].running = TRUE]
            /\ UNCHANGED namespaceVars
       ELSE UNCHANGED alarm /\ AfterAlarm(h, Popped(host[h]))
    /\ UNCHANGED <<call, peer, spent>>

(* fireAlarm once it holds the lock: left to the next open while closing,   *)
(* dropped if deleted, re-armed if moved later, else consumed and run.      *)
RunAlarm(h) ==
    /\ Running(h, "alarm") /\ ~host[h].running
    /\ IF ~host[h].closed /\ alarm[h[1]] = "soon"
       THEN /\ alarm' = [alarm EXCEPT ![h[1]] = "none"]
            /\ host' = [host EXCEPT ![h].running = TRUE]
            /\ UNCHANGED namespaceVars
       ELSE LET popped == Popped(host[h])
            IN  /\ UNCHANGED alarm
                /\ AfterAlarm(h, IF alarm[h[1]] = "later"
                                 THEN [popped EXCEPT !.timer = Armed(popped, "later")] ELSE popped)
    /\ UNCHANGED <<call, peer, spent>>

(* The alarm's handler returns, perhaps having set a new alarm. *)
AlarmReturns(h) ==
    /\ Running(h, "alarm") /\ host[h].running
    /\ \E row \in Alarms :
        LET popped == [Popped(host[h]) EXCEPT !.retries = 0]
        IN  /\ IF row = "none" THEN UNCHANGED spent ELSE MaySet(h[1]) /\ Sets
            /\ alarm' = [alarm EXCEPT ![h[1]] = row]
            /\ AfterAlarm(h, [popped EXCEPT !.timer = Armed(popped, row)])
    /\ UNCHANGED <<call, peer>>

(* Mutant: it is tried again however often it has failed. *)
AlarmThrowsForever(h) ==
    /\ Running(h, "alarm") /\ host[h].running
    /\ \E set \in Alarms :
        LET again == set = "none"
            row == IF again THEN "later" ELSE set
            popped == [Popped(host[h]) EXCEPT !.retries = IF again THEN @ + 1 ELSE @]
        IN  /\ IF set = "none" THEN UNCHANGED spent ELSE MaySet(h[1]) /\ Sets
            /\ alarm' = [alarm EXCEPT ![h[1]] = row]
            /\ AfterAlarm(h, [popped EXCEPT !.timer = Armed(popped, row)])
    /\ UNCHANGED <<call, peer>>

(* It throws: tried again later, up to ALARM_RETRY_LIMIT times in a row,    *)
(* unless it had set an alarm itself.                                      *)
AlarmThrows(h) ==
    /\ Running(h, "alarm") /\ host[h].running
    /\ \E set \in Alarms :
        LET again == set = "none" /\ host[h].retries < ALARM_RETRY_LIMIT
            row == IF again THEN "later" ELSE set
            popped == [Popped(host[h]) EXCEPT !.retries = IF again THEN @ + 1 ELSE @]
        IN  /\ IF set = "none" THEN UNCHANGED spent ELSE MaySet(h[1]) /\ Sets
            /\ alarm' = [alarm EXCEPT ![h[1]] = row]
            /\ AfterAlarm(h, [popped EXCEPT !.timer = Armed(popped, row)])
    /\ UNCHANGED <<call, peer>>

(* close() holds the lock: first the peers that left meanwhile, each with   *)
(* the frames that were held for it.                                       *)
RunDeparture(h) ==
    /\ Running(h, "close") /\ host[h].departures # <<>>
    /\ LET left == Head(host[h].departures)
       IN  peer' = Gone(left.peer, left.frames)
    /\ Handled(h, [host[h] EXCEPT !.departures = Tail(@)])
    /\ UNCHANGED <<namespaceVars, call>>

Woken(n) == [c \in Callers |-> IF call[c] = [to |-> n, at |-> "waiting"] THEN [to |-> n, at |-> "woken"] ELSE call[c]]

(* Then the store closes and the sockets left are dropped; the alarm still  *)
(* pending goes to a cold timer, or waits for resume; who waited to open    *)
(* the actor is woken.                                                     *)
CloseStore(h) ==
    /\ Running(h, "close") /\ host[h].departures = <<>>
    /\ host' = [host EXCEPT ![h] = [Vacant EXCEPT !.queue = Tail(host[h].queue)]]
    /\ peer' = [p \in Peers |-> IF peer[p].on = h THEN [NoSocket EXCEPT !.at = "dropped"] ELSE peer[p]]
    /\ LET n == h[1]
       IN  /\ heldAlarms' = IF paused /\ alarm[n] # "none" THEN [heldAlarms EXCEPT ![n] = alarm[n]] ELSE heldAlarms
           /\ cold' = IF ~paused /\ alarm[n] # "none" /\ resident[n] = 0 THEN [cold EXCEPT ![n] = alarm[n]] ELSE cold
           /\ call' = Woken(n)
    /\ UNCHANGED <<resident, paused, pausing, alarm, spent>>

-----------------------------------------------------------------------------
(* What arrives from outside: frames and departures *)

(* Mutant: a frame is queued whether or not the host is closing. *)
SendAnyway(p) ==
    /\ peer[p].at = "on" /\ peer[p].sent < MaxFrames
    /\ LET h == peer[p].on
       IN  /\ host' = [host EXCEPT ![h] = Queued([@ EXCEPT !.released = FALSE], Entry("frame", p, peer[p].sent + 1))]
           /\ peer' = [peer EXCEPT ![p].sent = @ + 1]
    /\ UNCHANGED <<namespaceVars, alarm, call, spent>>

(* deliverMessage: queued, or held once close() was called. *)
Send(p) ==
    /\ peer[p].at = "on" /\ peer[p].sent < MaxFrames
    /\ LET h == peer[p].on
           k == peer[p].sent + 1
           hosted == [host[h] EXCEPT !.released = FALSE]
       IN  IF host[h].closed
           THEN /\ host' = [host EXCEPT ![h] = hosted]
                /\ peer' = [peer EXCEPT ![p].sent = k, ![p].held = Append(@, k)]
           ELSE /\ host' = [host EXCEPT ![h] = Queued(hosted, Entry("frame", p, k))]
                /\ peer' = [peer EXCEPT ![p].sent = k]
    /\ UNCHANGED <<namespaceVars, alarm, call, spent>>

(* Mutant: only the departure is kept, not the frames before it. *)
DepartBare(p) ==
    /\ peer[p].at = "on"
    /\ LET h == peer[p].on
           hosted == host[h]
       IN  host' = [host EXCEPT ![h] =
                      IF hosted.closed THEN [hosted EXCEPT !.departures = Append(@, [peer |-> p, frames |-> <<>>])]
                      ELSE Queued(hosted, Entry("left", p, 0))]
    /\ peer' = [peer EXCEPT ![p].at = "leaving", ![p].held = <<>>]
    /\ UNCHANGED <<namespaceVars, alarm, call, spent>>

(* deliverClose: queued, or kept for close() with the frames held so far. *)
Depart(p) ==
    /\ peer[p].at = "on"
    /\ LET h == peer[p].on
           hosted == host[h]
       IN  host' = [host EXCEPT ![h] =
                      IF hosted.closed THEN [hosted EXCEPT !.departures = Append(@, [peer |-> p, frames |-> peer[p].held])]
                      ELSE Queued(hosted, Entry("left", p, 0))]
    /\ peer' = [peer EXCEPT ![p].at = "leaving", ![p].held = <<>>]
    /\ UNCHANGED <<namespaceVars, alarm, call, spent>>

-----------------------------------------------------------------------------
(* Time *)

Sooner(due) == IF due = "later" THEN "soon" ELSE due

(* What an actor's row, and every timer set for it, waited for is due. *)
ComesDue(n) ==
    /\ alarm[n] = "later" \/ cold[n] = "later" \/ \E i \in Slots : host[<<n, i>>].timer = "later"
    /\ alarm' = [alarm EXCEPT ![n] = Sooner(@)]
    /\ cold' = [cold EXCEPT ![n] = Sooner(@)]
    /\ heldAlarms' = [heldAlarms EXCEPT ![n] = Sooner(@)]
    /\ host' = [h \in Hosts |-> IF h[1] = n THEN [host[h] EXCEPT !.timer = Sooner(@)] ELSE host[h]]
    /\ UNCHANGED <<resident, paused, pausing, call, peer, spent>>

TimerFires(h) ==
    /\ host[h].timer = "soon"
    /\ host' = [host EXCEPT ![h] = Queued([@ EXCEPT !.timer = "none"], Entry("alarm", NoHost, 0))]
    /\ UNCHANGED <<namespaceVars, alarm, call, peer, spent>>

(* A cold timer opens its actor for the alarm alone. *)
ColdFires(n) ==
    /\ cold[n] = "soon"
    /\ Open(n, [HostFor(n) EXCEPT !.released = TRUE])
    /\ UNCHANGED <<alarm, call, peer, spent>>

-----------------------------------------------------------------------------
(* The whole namespace: pause, resume, a crash *)

Pause ==
    /\ ~paused /\ spent.pauses < MaxPauses
    /\ paused' = TRUE /\ pausing' = TRUE
    /\ heldAlarms' = [n \in Names |-> IF cold[n] # "none" THEN cold[n] ELSE heldAlarms[n]]
    /\ cold' = [n \in Names |-> "none"]
    /\ host' = [h \in Hosts |-> IF resident[h[1]] = h[2] THEN CloseCalled(host[h]) ELSE host[h]]
    /\ resident' = [n \in Names |-> 0]
    /\ spent' = [spent EXCEPT !.pauses = @ + 1]
    /\ UNCHANGED <<alarm, call, peer>>

(* Every store is closed, evictions under way included. *)
PauseEnds ==
    /\ pausing /\ \A n \in Names : Closing(n) = {}
    /\ pausing' = FALSE
    /\ UNCHANGED <<host, resident, cold, heldAlarms, paused, alarm, call, peer, spent>>

(* Mutant: what was set aside stays set aside. *)
ResumeForgetting ==
    /\ paused /\ ~pausing
    /\ paused' = FALSE
    /\ heldAlarms' = [n \in Names |-> "none"]
    /\ UNCHANGED <<host, resident, cold, pausing, alarm, call, peer, spent>>

Resume ==
    /\ paused /\ ~pausing
    /\ paused' = FALSE
    /\ cold' = [n \in Names |-> IF heldAlarms[n] # "none" THEN heldAlarms[n] ELSE cold[n]]
    /\ heldAlarms' = [n \in Names |-> "none"]
    /\ UNCHANGED <<host, resident, pausing, alarm, call, peer, spent>>

(* The process dies; at boot every alarm row gets a cold timer. *)
Crash ==
    /\ spent.crashes < MaxCrashes
    /\ host' = [h \in Hosts |-> Vacant]
    /\ resident' = [n \in Names |-> 0]
    /\ cold' = alarm /\ heldAlarms' = [n \in Names |-> "none"]
    /\ paused' = FALSE /\ pausing' = FALSE
    /\ call' = [c \in Callers |-> NoCall]
    /\ peer' = [p \in Peers |-> [NoSocket EXCEPT !.at = "dropped"]]
    /\ spent' = [spent EXCEPT !.crashes = @ + 1]
    /\ UNCHANGED alarm

-----------------------------------------------------------------------------

(* What the holder of a host's lock does next. *)
Work(h) ==
    \/ RunFetch(h) \/ RunFrame(h) \/ RunLeft(h)
    \/ RunAlarm(h) \/ AlarmReturns(h) \/ AlarmThrows(h)
    \/ RunDeparture(h) \/ CloseStore(h)

Next ==
    \/ \E c \in Peers \cup Requests : Request(c)
    \/ \E c \in Callers : Retry(c)
    \/ \E n \in Names : EvictIdle(n) \/ Release(n) \/ ComesDue(n) \/ ColdFires(n)
    \/ \E h \in Hosts :
        \/ RunFetch(h) \/ RunFrame(h) \/ RunLeft(h)
        \/ RunAlarm(h) \/ AlarmReturns(h) \/ AlarmThrows(h)
        \/ RunDeparture(h) \/ CloseStore(h)
        \/ TimerFires(h)
        \/ \E m \in Names : TurnCalls(h, m)
    \/ \E p \in Peers : Send(p) \/ Depart(p)
    \/ Pause \/ PauseEnds \/ Resume \/ Crash

(* A handler returns, time passes, a due timer fires, a call that waited    *)
(* goes on, a backup ends.  A due timer fires before its actor has been     *)
(* idle long enough to be evicted over and over.                           *)
Fairness ==
    /\ \A h \in Hosts : WF_vars(Work(h)) /\ SF_vars(TimerFires(h))
    /\ \A n \in Names : WF_vars(ComesDue(n)) /\ WF_vars(ColdFires(n))
    /\ \A c \in Callers : WF_vars(Retry(c))
    /\ WF_vars(PauseEnds) /\ WF_vars(Resume)

Spec == Init /\ [][Next]_vars
FairSpec == Spec /\ Fairness

-----------------------------------------------------------------------------
(* Properties *)

EntryKinds == {"fetch", "frame", "left", "alarm", "close"}

(* The shape of every variable. *)
TypeOK ==
    /\ \A h \in Hosts :
        /\ host[h].closed \in BOOLEAN /\ host[h].done \in BOOLEAN /\ host[h].running \in BOOLEAN
        /\ host[h].released \in BOOLEAN /\ host[h].timer \in Alarms
        /\ host[h].retries \in 0 .. ALARM_RETRY_LIMIT
        /\ \A i \in DOMAIN host[h].queue : host[h].queue[i].kind \in EntryKinds
    /\ resident \in [Names -> Slots \cup {0}]
    /\ cold \in [Names -> Alarms] /\ heldAlarms \in [Names -> Alarms] /\ alarm \in [Names -> Alarms]
    /\ paused \in BOOLEAN /\ pausing \in BOOLEAN
    /\ \A c \in Callers : call[c].at \in {"none", "waiting", "woken", "queued", "answered", "refused"}
    /\ \A p \in Peers : peer[p].on \in Hosts \cup {NoHost}
                        /\ peer[p].at \in {"away", "on", "leaving", "gone", "dropped"}

(* One file never has two hosts: no host is opened on a store another host  *)
(* has yet to close, however evictions, alarms, requests and pauses fall.   *)
OneHostPerStore == \A n \in Names : \A i, j \in Slots : ~host[<<n, i>>].done /\ ~host[<<n, j>>].done => i = j

(* The instance is never entered after its store closed: nothing waits for  *)
(* the lock behind close().                                                *)
NothingBehindClose ==
    \A h \in Hosts : \A i \in DOMAIN host[h].queue :
        host[h].queue[i].kind = "close" => i = Len(host[h].queue)

(* A peer that leaves never reconnects, so its store must hold what it sent: *)
(* every frame is handled, in the order sent, before its departure is, and  *)
(* the store stays open until then, whenever close() was called.            *)
LeaversAreHeard ==
    \A p \in Peers :
        /\ peer[p].at = "leaving" => ~host[peer[p].on].done
        /\ peer[p].at = "gone" => peer[p].got = [k \in 1 .. peer[p].sent |-> k]

(* A pending alarm always has something that will wake it, no later than it *)
(* is due: the host's timer or its entry in the queue, the close that will   *)
(* hand it on, a cold timer, or the resume that arms one.                    *)
AlarmHasTimer ==
    \A n \in Names : alarm[n] # "none" =>
        LET h == <<n, resident[n]>>
        IN  \/ Closing(n) # {}
            \/ resident[n] # 0 /\ \/ host[h].timer # "none" /\ NoLater(host[h].timer, alarm[n])
                                  \/ \E i \in DOMAIN host[h].queue : host[h].queue[i].kind = "alarm"
            \/ resident[n] = 0 /\ cold[n] # "none" /\ NoLater(cold[n], alarm[n])
            \/ paused /\ heldAlarms[n] # "none" /\ NoLater(heldAlarms[n], alarm[n])

(* Once pause() has resolved no store is open until resume, so a backup      *)
(* reads files nothing writes to.                                          *)
PausedIsStill == paused /\ ~pausing => \A h \in Hosts : host[h].done

(* Together: a store is open to one writer at most, and to none while a     *)
(* backup copies it, whichever of eviction, alarm, request and pause won.   *)
StoreIsExclusive == OneHostPerStore /\ PausedIsStill

(* Together: what an actor still has to do outlives its host's closing,     *)
(* frames and departures in the queue as much as alarms in the store.       *)
NothingIsForgotten == NothingBehindClose /\ LeaversAreHeard /\ AlarmHasTimer

(* A due alarm runs, is moved or is deleted in the end, whether its actor   *)
(* stays in memory, is evicted, is closed for a backup or dies with the     *)
(* process.                                                                *)
AlarmRuns == \A n \in Names : alarm[n] = "soon" ~> alarm[n] # "soon"

(* pause() resolves: "each finishes what it is doing", and a handler that    *)
(* calls another actor meanwhile is answered or refused.                    *)
PauseResolves == pausing ~> ~pausing
=============================================================================
