---------------------------- MODULE DocSyncProofs ----------------------------
(* Proofs about the pages of a document and its actor, for any pages, edits, *)
(* sockets and bounds: what the state is made of, that a page with nothing   *)
(* on its way shows the whole document, what a restore took out, and what    *)
(* the rights of a page follow.                                              *)
EXTENDS DocSync, TLAPS, SequenceTheorems

\* What a page sends, and what the actor sends it.
UpFrames ==
  [op : {"ACK"}, epoch : Nat] \cup [op : {"STEP1"}, has : Content] \cup [op : {"STEP2", "UPDATE"}, edits : Content]
DownFrames ==
  [op : {"HELLO"}, epoch : Nat, has : Content] \cup [op : {"UPDATE"}, edits : Content] \cup [op : {"RESET"}]
  \cup [op : {"SYNC"}, edits : Content, readOnly : BOOLEAN, can : {"yes", "no"}]
  \cup [op : {"STATE"}, readOnly : BOOLEAN, can : {"yes", "no"}]
  \cup [op : {"REFUSED"}, kind : {"locked", "trashed", "epoch", "acl", "limit"}]

\* The node's rows, and its calls.
TierNames == {"none", "read", "write"}
Ops == {"lock", "trash", "tier"}
Row == [locked : BOOLEAN, trashed : BOOLEAN, tier : [Tabs -> TierNames]]
Call == [op : Ops, row : Row]
\* A socket as the server has it, and a page.
Socket ==
  [code : {"vacant", "open", "reset", "revoked"}, live : BOOLEAN, acked : BOOLEAN, canWrite : BOOLEAN,
   born : Nat, up : Seq(UpFrames), down : Seq(DownFrames)]
Page ==
  [state : {"down", "up", "over"}, slot : Slots \cup {NoSlot}, doc : Content, heard : Nat \cup {NoEpoch},
   accepted : BOOLEAN, readOnly : BOOLEAN, can : {"unknown", "yes", "no"}, ticket : TierNames]

\* Every variable has its shape.
Types ==
  /\ row \in Row /\ calls \in Seq(Call) /\ asked \in SUBSET Content
  /\ doc \in Content /\ saved \in Content /\ epoch \in Nat /\ locked \in BOOLEAN /\ trashed \in BOOLEAN
  /\ versions \in SUBSET Content
  /\ socks \in [Tabs -> [Slots -> Socket]] /\ tabs \in [Tabs -> Page]
  /\ typed \in Content /\ undone \in Content /\ early \in Content /\ lost \in BOOLEAN
  /\ refused \in [Tabs -> Content]

-----------------------------------------------------------------------------
(* Queues of frames *)

\* What a queue holds once something was added to it.
LEMMA Added ==
  ASSUME NEW S, NEW q \in Seq(S), NEW r \in Seq(S)
  PROVE  q \o r \in Seq(S) /\ Range(q \o r) = Range(q) \cup Range(r)
<1>1. /\ q \o r \in Seq(S) /\ Len(q \o r) = Len(q) + Len(r) /\ Len(q) \in Nat /\ Len(r) \in Nat
      /\ DOMAIN q = 1 .. Len(q) /\ DOMAIN r = 1 .. Len(r) /\ DOMAIN (q \o r) = 1 .. Len(q) + Len(r)
      /\ \A i \in 1 .. Len(q) + Len(r) : (q \o r)[i] = IF i <= Len(q) THEN q[i] ELSE r[i - Len(q)]
  BY ConcatProperties, LenProperties
<1>2. ASSUME NEW i \in DOMAIN (q \o r) PROVE (q \o r)[i] \in Range(q) \cup Range(r)
  <2>1. CASE i <= Len(q)
    BY <1>1, <2>1 DEF Range
  <2>2. CASE ~(i <= Len(q))
    <3>1. i - Len(q) \in DOMAIN r /\ (q \o r)[i] = r[i - Len(q)]
      BY <1>1, <2>2
    <3> QED BY <3>1 DEF Range
  <2> QED BY <2>1, <2>2
<1>3. ASSUME NEW i \in DOMAIN q PROVE q[i] \in Range(q \o r)
  <2>1. i \in DOMAIN (q \o r) /\ (q \o r)[i] = q[i]
    BY <1>1
  <2> QED BY <2>1 DEF Range
<1>4. ASSUME NEW i \in DOMAIN r PROVE r[i] \in Range(q \o r)
  <2>1. i + Len(q) \in DOMAIN (q \o r) /\ (q \o r)[i + Len(q)] = r[i]
    BY <1>1
  <2> QED BY <2>1 DEF Range
<1>5. Range(q \o r) \subseteq Range(q) \cup Range(r)
  BY <1>2 DEF Range
<1>6. Range(q) \subseteq Range(q \o r) /\ Range(r) \subseteq Range(q \o r)
  BY <1>3, <1>4 DEF Range
<1> QED BY <1>1, <1>5, <1>6

\* What a queue holds is its first frame and the rest.
LEMMA FirstAndRest ==
  ASSUME NEW S, NEW q \in Seq(S), q # <<>>
  PROVE  Head(q) \in S /\ Tail(q) \in Seq(S) /\ Range(q) = {Head(q)} \cup Range(Tail(q))
<1>1. /\ Head(q) \in S /\ Tail(q) \in Seq(S) /\ Len(Tail(q)) = Len(q) - 1 /\ Len(q) \in Nat \ {0}
      /\ DOMAIN q = 1 .. Len(q) /\ DOMAIN Tail(q) = 1 .. Len(q) - 1 /\ Head(q) = q[1]
      /\ \A i \in 1 .. Len(q) - 1 : Tail(q)[i] = q[i + 1]
  BY HeadTailProperties, LenProperties, EmptySeq
<1>2. ASSUME NEW i \in DOMAIN q PROVE q[i] \in {Head(q)} \cup Range(Tail(q))
  <2>1. CASE i = 1
    BY <1>1, <2>1
  <2>2. CASE i # 1
    <3>1. i - 1 \in DOMAIN Tail(q) /\ Tail(q)[i - 1] = q[i]
      BY <1>1, <2>2
    <3> QED BY <3>1 DEF Range
  <2> QED BY <2>1, <2>2
<1>3. ASSUME NEW i \in DOMAIN Tail(q) PROVE Tail(q)[i] \in Range(q)
  <2>1. i + 1 \in DOMAIN q /\ Tail(q)[i] = q[i + 1]
    BY <1>1
  <2> QED BY <2>1 DEF Range
<1>4. Head(q) \in Range(q)
  BY <1>1 DEF Range
<1>5. Range(q) \subseteq {Head(q)} \cup Range(Tail(q))
  BY <1>2 DEF Range
<1>6. Range(Tail(q)) \subseteq Range(q)
  BY <1>3 DEF Range
<1> QED BY <1>1, <1>4, <1>5, <1>6

\* The queues an action makes.
LEMMA Short ==
  ASSUME NEW S
  PROVE  /\ <<>> \in Seq(S) /\ Range(<<>>) = {}
         /\ \A f \in S : <<f>> \in Seq(S) /\ Range(<<f>>) = {f}
         /\ \A f, g \in S : <<f, g>> \in Seq(S) /\ Range(<<f, g>>) = {f, g}
         /\ \A f, g, h \in S : <<f, g, h>> \in Seq(S) /\ Range(<<f, g, h>>) = {f, g, h}
BY DEF Range

\* What a queue of S holds is in S.
LEMMA Holds ==
  ASSUME NEW S, NEW q \in Seq(S)
  PROVE  Range(q) \subseteq S /\ (q = <<>> <=> Range(q) = {})
<1>1. Range(q) \subseteq S
  BY DEF Range
<1>2. CASE q = <<>>
  BY <1>1, <1>2 DEF Range
<1>3. CASE q # <<>>
  BY <1>1, <1>3, FirstAndRest
<1> QED BY <1>1, <1>2, <1>3

-----------------------------------------------------------------------------
(* What is done to a socket *)

\* What sending on a socket, putting it out, leaving it and taking a frame of it give.
LEMMA PutIs ==
  ASSUME NEW k \in Socket, NEW fs \in Seq(DownFrames)
  PROVE  LET n == Put(k, fs) IN
         /\ n \in Socket
         /\ n.code = k.code /\ n.live = k.live /\ n.acked = k.acked /\ n.canWrite = k.canWrite
         /\ n.born = k.born /\ n.up = k.up
         /\ n.down = IF Open(k) /\ k.live THEN k.down \o fs ELSE k.down
<1>1. k.down \o fs \in Seq(DownFrames)
  BY Added DEF Socket
<1> QED BY <1>1 DEF Put, Socket

\* Putting a socket out keeps everything but its code, and tells what is to be told.
LEMMA ShutIs ==
  ASSUME NEW k \in Socket, NEW fs \in Seq(DownFrames), NEW code \in {"reset", "revoked"}
  PROVE  LET n == Shut(k, code, fs) IN
         /\ n \in Socket
         /\ n.code = (IF Open(k) THEN code ELSE k.code) /\ n.live = k.live /\ n.acked = k.acked
         /\ n.canWrite = k.canWrite /\ n.born = k.born /\ n.up = k.up
         /\ n.down = IF Open(k) /\ k.live THEN k.down \o fs ELSE k.down
<1> DEFINE m == Put(k, fs)
<1>1. /\ m \in Socket
      /\ m.code = k.code /\ m.live = k.live /\ m.acked = k.acked /\ m.canWrite = k.canWrite
      /\ m.born = k.born /\ m.up = k.up
      /\ m.down = IF Open(k) /\ k.live THEN k.down \o fs ELSE k.down
  BY PutIs
<1>2. Shut(k, code, fs) = IF Open(k) THEN [m EXCEPT !.code = code] ELSE k
  BY DEF Shut
<1> HIDE DEF m
<1> QED BY <1>1, <1>2, ZenonT(60) DEF Socket

\* A page's frames go to an open socket.
LEMMA SendsIs ==
  ASSUME NEW k \in Socket, NEW fs \in Seq(UpFrames)
  PROVE  LET n == Sends(k, fs) IN
         /\ n \in Socket
         /\ n.code = k.code /\ n.live = k.live /\ n.acked = k.acked /\ n.canWrite = k.canWrite
         /\ n.born = k.born /\ n.down = k.down
         /\ n.up = IF Open(k) THEN k.up \o fs ELSE k.up
<1>1. k.up \o fs \in Seq(UpFrames)
  BY Added DEF Socket
<1> QED BY <1>1 DEF Sends, Socket

\* A socket nobody listens to has nothing to deliver.
LEMMA DeafIs ==
  ASSUME NEW k \in Socket
  PROVE  LET n == Deaf(k) IN
         /\ n \in Socket
         /\ n.code = k.code /\ n.live = FALSE /\ n.acked = k.acked /\ n.canWrite = k.canWrite
         /\ n.born = k.born /\ n.down = <<>> /\ n.up = k.up
<1>1. <<>> \in Seq(DownFrames)
  BY Short
<1> QED BY <1>1 DEF Deaf, Socket

\* The first frame of a queue is taken.
LEMMA TakenIs ==
  ASSUME NEW k \in Socket, k.up # <<>>
  PROVE  LET n == [k EXCEPT !.up = Tail(@)] IN
         /\ n \in Socket
         /\ n.code = k.code /\ n.live = k.live /\ n.acked = k.acked /\ n.canWrite = k.canWrite
         /\ n.born = k.born /\ n.down = k.down /\ n.up = Tail(k.up)
<1>1. Tail(k.up) \in Seq(UpFrames)
  BY FirstAndRest DEF Socket
<1> QED BY <1>1 DEF Socket

\* The frame at the head was heard.
LEMMA RestIs ==
  ASSUME NEW k \in Socket, k.down # <<>>
  PROVE  LET n == [k EXCEPT !.down = Tail(@)] IN
         /\ n \in Socket
         /\ n.code = k.code /\ n.live = k.live /\ n.acked = k.acked /\ n.canWrite = k.canWrite
         /\ n.born = k.born /\ n.down = Tail(k.down) /\ n.up = k.up
<1>1. Tail(k.down) \in Seq(DownFrames)
  BY FirstAndRest DEF Socket
<1> QED BY <1>1 DEF Socket

\* A socket nobody uses.
LEMMA VacantIs == Vacant \in Socket /\ Range(Vacant.up) = {} /\ Range(Vacant.down) = {}
BY Short DEF Vacant, Socket

\* A frame, or a call, of that kind is in the queue.
Has(q, op) == \E f \in Range(q) : f.op = op

\* A socket of a page, at place s.
SocketOK(k, p, s) ==
  /\ k.born <= epoch
  /\ Open(k) => k.born = epoch
  /\ k.live => p.state = "up" /\ p.slot = s
  /\ ~k.live => k.down = <<>>
  /\ ~Used(k) => k.up = <<>> /\ ~k.live
  /\ \A f \in Range(k.down) : f.op = "HELLO" => f.epoch = k.born

\* A page that is up has not heard its socket's generation yet, which comes first and once, or
\* goes by it.
PageOK(p, k) ==
  /\ p.heard # NoEpoch => p.heard <= epoch
  /\ p.state # "up" => p.slot = NoSlot /\ ~p.accepted
  /\ p.state = "up" =>
       /\ p.slot \in Slots /\ k.live
       /\ p.heard # NoEpoch => p.heard <= k.born
       /\ p.accepted => p.heard = k.born /\ ~Has(k.down, "HELLO")
       /\ ~p.accepted => k.down # <<>> /\ Head(k.down).op = "HELLO" /\ ~Has(Tail(k.down), "HELLO")

\* Every page and its sockets go together.
Links ==
  \A t \in Tabs : (\A s \in Slots : SocketOK(socks[t][s], tabs[t], s)) /\ PageOK(tabs[t], Sock(t))

-----------------------------------------------------------------------------
(* What each action does to the sockets and the pages *)

\* One socket is replaced, and one page is.
Updates(t, s, n) == socks' = [socks EXCEPT ![t][s] = n]
Turns(t, p) == tabs' = [tabs EXCEPT ![t] = p]

\* Nothing of a socket but its queues.
Alike(k, n) ==
  n.code = k.code /\ n.live = k.live /\ n.acked = k.acked /\ n.canWrite = k.canWrite /\ n.born = k.born

\* One socket is replaced, the others stay.
LEMMA UpdatesAt ==
  ASSUME Types, NEW t \in Tabs, NEW s \in Slots, NEW n \in Socket, Updates(t, s, n)
  PROVE  /\ socks' \in [Tabs -> [Slots -> Socket]]
         /\ \A u \in Tabs, r \in Slots : socks'[u][r] = IF u = t /\ r = s THEN n ELSE socks[u][r]
BY DEF Types, Updates

\* One page is replaced, the others stay.
LEMMA TurnsAt ==
  ASSUME Types, NEW t \in Tabs, NEW p \in Page, Turns(t, p)
  PROVE  /\ tabs' \in [Tabs -> Page]
         /\ \A u \in Tabs : tabs'[u] = IF u = t THEN p ELSE tabs[u]
BY DEF Types, Turns

\* A page that is up and its socket.
LEMMA UpIs ==
  ASSUME Types, Links, NEW t \in Tabs
  PROVE  /\ tabs[t] \in Page
         /\ tabs[t].state = "up" => tabs[t].slot \in Slots /\ Sock(t) \in Socket /\ Sock(t).live
BY DEF Types, Links, PageOK, Sock

\* A keystroke: kept in the page, and sent, or kept for the handshake.
LEMMA TypeIs ==
  ASSUME Types, Links, NEW t \in Tabs, NEW e \in Edits, Type(t, e)
  PROVE  /\ Types'
         /\ \E p \in Page :
              /\ Turns(t, p) /\ p.doc = tabs[t].doc \cup {e}
              /\ p.state = tabs[t].state /\ p.slot = tabs[t].slot /\ p.heard = tabs[t].heard
              /\ p.accepted = tabs[t].accepted /\ p.readOnly = tabs[t].readOnly
         /\ \/ ~tabs[t].accepted /\ UNCHANGED socks
            \/ /\ tabs[t].state = "up"
               /\ \E n \in Socket :
                    /\ Updates(t, tabs[t].slot, n) /\ Alike(Sock(t), n) /\ n.down = Sock(t).down
                    /\ n.up = IF Open(Sock(t)) THEN Sock(t).up \o <<Write("UPDATE", {e})>> ELSE Sock(t).up
<1> DEFINE p == [tabs[t] EXCEPT !.doc = @ \cup {e}]
           n == Sends(Sock(t), <<Write("UPDATE", {e})>>)
<1>1. tabs[t] \in Page /\ (tabs[t].state = "up" => tabs[t].slot \in Slots /\ Sock(t) \in Socket)
  BY UpIs
<1>2. Turns(t, p)
  BY <1>1 DEF Type, Turns, Types
<1>3. /\ p \in Page /\ p.doc = tabs[t].doc \cup {e}
      /\ p.state = tabs[t].state /\ p.slot = tabs[t].slot /\ p.heard = tabs[t].heard
      /\ p.accepted = tabs[t].accepted /\ p.readOnly = tabs[t].readOnly
  BY <1>1 DEF Page, Content
<1> HIDE DEF p
<1>4. <<Write("UPDATE", {e})>> \in Seq(UpFrames)
  <2>1. Write("UPDATE", {e}) \in UpFrames
    BY DEF Write, UpFrames, Content
  <2> QED BY <2>1, Short
<1>5. tabs[t].state = "up" =>
        /\ n \in Socket /\ Alike(Sock(t), n) /\ n.down = Sock(t).down
        /\ n.up = IF Open(Sock(t)) THEN Sock(t).up \o <<Write("UPDATE", {e})>> ELSE Sock(t).up
  BY <1>1, <1>4, SendsIs DEF Alike
<1>6. \/ ~tabs[t].accepted /\ UNCHANGED socks
      \/ tabs[t].state = "up" /\ Updates(t, tabs[t].slot, n)
  BY DEF Type, After, Updates
<1> HIDE DEF n
<1>7. socks' \in [Tabs -> [Slots -> Socket]]
  BY <1>1, <1>5, <1>6, UpdatesAt DEF Types
<1>8. tabs' \in [Tabs -> Page]
  BY <1>2, <1>3, TurnsAt
<1>9. Types'
  BY <1>7, <1>8 DEF Types, Type, node, actor, Content
<1> QED BY <1>2, <1>3, <1>5, <1>6, <1>9

\* A ticket is got, or the page ends for good.
LEMMA MintIs ==
  ASSUME Types, Links, NEW t \in Tabs, Mint(t)
  PROVE  /\ Types'
         /\ \E p \in Page :
              /\ Turns(t, p) /\ p.doc = tabs[t].doc /\ tabs[t].state # "up" /\ p.state # "up"
              /\ p.slot = tabs[t].slot /\ p.heard = tabs[t].heard /\ p.accepted = tabs[t].accepted
<1> DEFINE p == IF row.tier[t] = "none" THEN [tabs[t] EXCEPT !.state = "over"]
                                        ELSE [tabs[t] EXCEPT !.ticket = row.tier[t]]
<1>1. tabs[t] \in Page /\ row.tier[t] \in TierNames /\ tabs[t].state = "down"
  BY DEF Types, Row, Mint
<1>2. Turns(t, p)
  BY <1>1 DEF Mint, Turns, Types
<1>3. /\ p \in Page /\ p.doc = tabs[t].doc /\ p.state # "up"
      /\ p.slot = tabs[t].slot /\ p.heard = tabs[t].heard /\ p.accepted = tabs[t].accepted
  BY <1>1 DEF Page
<1> HIDE DEF p
<1>4. Types'
  BY <1>2, <1>3, TurnsAt DEF Types, Mint, node, actor, seen
<1> QED BY <1>1, <1>2, <1>3, <1>4

\* A page connects at a place of its own that is free.
LEMMA ConnectIs ==
  ASSUME Types, Links, NEW t \in Tabs, Connect(t)
  PROVE  /\ Types' /\ trashed' = row.trashed /\ row.tier[t] # "none"
         /\ \E s \in Slots, n \in Socket, p \in Page :
              /\ Turns(t, p) /\ Updates(t, s, n) /\ ~Used(socks[t][s]) /\ tabs[t].state # "up"
              /\ p.doc = tabs[t].doc /\ p.state = "up" /\ p.slot = s /\ p.heard = tabs[t].heard
              /\ ~p.accepted
              /\ Open(n) /\ n.live /\ n.born = epoch /\ n.up = <<>>
              /\ n.canWrite => row.tier[t] = "write"
              /\ n.down = <<[op |-> "HELLO", epoch |-> epoch, has |-> doc]>>
<1> DEFINE s == CHOOSE r \in Slots : ~Used(socks[t][r])
           f == [op |-> "HELLO", epoch |-> epoch, has |-> doc]
           n == [code |-> "open", live |-> TRUE, acked |-> FALSE,
                 canWrite |-> row.tier[t] = "write" /\ tabs[t].ticket = "write",
                 born |-> epoch, up |-> <<>>, down |-> <<f>>]
           p == [tabs[t] EXCEPT !.state = "up", !.slot = s, !.accepted = FALSE]
<1>1. s \in Slots /\ ~Used(socks[t][s]) /\ tabs[t] \in Page /\ tabs[t].state = "down"
  BY DEF Connect, Types
<1>2. Updates(t, s, n)
  BY DEF Connect, Updates
<1>3. f \in DownFrames /\ <<f>> \in Seq(DownFrames) /\ <<>> \in Seq(UpFrames)
  <2>1. f \in DownFrames
    BY DEF DownFrames, Types
  <2> QED BY <2>1, Short
<1>4. n \in Socket /\ Open(n)
  BY <1>3 DEF Socket, Open, Types
<1>5. Turns(t, p)
  <2>1. tabs' = [tabs EXCEPT ![t].state = "up", ![t].slot = s, ![t].accepted = FALSE]
    BY DEF Connect
  <2> HIDE DEF s
  <2> QED BY <2>1, <1>1 DEF Turns, Types
<1> HIDE DEF s
<1>6. p \in Page /\ p.doc = tabs[t].doc /\ p.state = "up" /\ p.slot = s /\ p.heard = tabs[t].heard /\ ~p.accepted
  BY <1>1 DEF Page
<1>7. n.canWrite => row.tier[t] = "write"
  OBVIOUS
<1>8. n.live /\ n.born = epoch /\ n.up = <<>> /\ n.down = <<f>>
  OBVIOUS
<1> HIDE DEF n, p
<1>9. socks' \in [Tabs -> [Slots -> Socket]] /\ tabs' \in [Tabs -> Page]
  BY <1>1, <1>2, <1>4, <1>5, <1>6, UpdatesAt, TurnsAt
<1>10. Types' /\ trashed' = row.trashed /\ row.tier[t] # "none"
  BY <1>9 DEF Types, Connect, node, seen, Row
<1> QED BY <1>1, <1>2, <1>4, <1>5, <1>6, <1>7, <1>8, <1>10

-----------------------------------------------------------------------------
(* What a page does with a frame *)

\* A refusal that says the page may not write.
Denies(f) == f.op = "REFUSED" /\ f.kind \in {"locked", "trashed", "acl"}

\* A page goes by the generation it heard: it says what it holds, and asks for the rest.
Accepts(t, f, n, p) ==
  /\ f.op = "HELLO" /\ tabs[t].heard \in {NoEpoch, f.epoch}
  /\ p.heard = f.epoch /\ p.accepted /\ p.doc = tabs[t].doc
  /\ p.state = "up" /\ p.slot = tabs[t].slot /\ p.readOnly = tabs[t].readOnly
  /\ Alike(Sock(t), n) /\ n.down = Tail(Sock(t).down)
  /\ n.up = IF Open(Sock(t))
            THEN Sock(t).up \o <<[op |-> "ACK", epoch |-> f.epoch], [op |-> "STEP1", has |-> tabs[t].doc],
                                 Write("STEP2", tabs[t].doc \ f.has)>>
            ELSE Sock(t).up

\* A page loads again, and its socket is one nobody listens to.
Reloads(t, n, p) ==
  /\ p.state = "down" /\ p.slot = NoSlot /\ p.heard = NoEpoch /\ ~p.accepted /\ p.doc = {}
  /\ n.code = Sock(t).code /\ n.born = Sock(t).born /\ n.canWrite = Sock(t).canWrite
  /\ n.up = Sock(t).up /\ ~n.live /\ n.down = <<>>

\* A page merges what a frame carries, and minds the level it tells.
Merges(t, f, n, p) ==
  /\ f.op \in {"SYNC", "UPDATE", "STATE", "REFUSED"}
  /\ p.state = "up" /\ p.slot = tabs[t].slot /\ p.heard = tabs[t].heard /\ p.accepted = tabs[t].accepted
  /\ p.doc = tabs[t].doc \cup (IF f.op \in {"SYNC", "UPDATE"} THEN f.edits ELSE {})
  /\ p.readOnly <=> IF f.op \in {"SYNC", "STATE"} THEN f.readOnly ELSE tabs[t].readOnly \/ Denies(f)
  /\ Alike(Sock(t), n) /\ n.down = Tail(Sock(t).down) /\ n.up = Sock(t).up

\* What a frame carries is of the type its name says.
LEMMA DownIs ==
  ASSUME NEW f \in DownFrames
  PROVE  /\ f.op = "HELLO" => f.epoch \in Nat /\ f.has \in Content
         /\ f.op \in {"SYNC", "UPDATE"} => f.edits \in Content
         /\ f.op \in {"SYNC", "STATE"} => f.readOnly \in BOOLEAN /\ f.can \in {"yes", "no"}
BY DEF DownFrames

\* A page that was rolled back loads again (HearsEpoch).
LEMMA ReloadIs ==
  ASSUME Types, Links, NEW t \in Tabs, tabs[t].state = "up", Reloaded(t), After(t, Deaf(Sock(t)))
  PROVE  \E n \in Socket, p \in Page : Turns(t, p) /\ Updates(t, tabs[t].slot, n) /\ Reloads(t, n, p)
<1> DEFINE n == Deaf(Sock(t))
<1>1. tabs[t].slot \in Slots /\ Sock(t) \in Socket
  BY UpIs
<1>2. /\ n \in Socket /\ n.code = Sock(t).code /\ n.live = FALSE /\ n.canWrite = Sock(t).canWrite
      /\ n.born = Sock(t).born /\ n.down = <<>> /\ n.up = Sock(t).up
  BY <1>1, DeafIs
<1>3. Updates(t, tabs[t].slot, n)
  BY DEF After, Updates
<1> HIDE DEF n
<1>4. FreshTab \in Page /\ Turns(t, FreshTab)
  BY DEF FreshTab, Page, Content, Reloaded, Turns, TierNames
<1> QED BY <1>2, <1>3, <1>4 DEF Reloads, FreshTab

\* A page that goes by the generation it hears answers with three frames (HearsEpoch).
LEMMA AcceptIs ==
  ASSUME Types, Links, NEW t \in Tabs, Heard(t, "HELLO"), HearsEpoch(t, Head(Sock(t).down)),
         tabs[t].heard \in {NoEpoch, Head(Sock(t).down).epoch}
  PROVE  /\ \E n \in Socket, p \in Page :
              Turns(t, p) /\ Updates(t, tabs[t].slot, n) /\ Accepts(t, Head(Sock(t).down), n, p)
         /\ UNCHANGED refused
<1> DEFINE f == Head(Sock(t).down)
           fs == <<[op |-> "ACK", epoch |-> f.epoch], [op |-> "STEP1", has |-> tabs[t].doc],
                   Write("STEP2", tabs[t].doc \ f.has)>>
           m == Rest(t)
           n == Sends(m, fs)
           p == [tabs[t] EXCEPT !.heard = f.epoch, !.accepted = TRUE]
<1>1. /\ tabs[t].state = "up" /\ tabs[t].slot \in Slots /\ Sock(t) \in Socket /\ tabs[t] \in Page
      /\ Sock(t).down # <<>> /\ f.op = "HELLO"
  BY UpIs DEF Heard
<1>2. f \in DownFrames /\ f.epoch \in Nat /\ f.has \in Content
  <2>1. f \in DownFrames
    BY <1>1, FirstAndRest DEF Socket
  <2> QED BY <2>1, <1>1, DownIs
<1>3. Turns(t, p) /\ Updates(t, tabs[t].slot, n) /\ UNCHANGED refused
  <2>1. /\ tabs' = [tabs EXCEPT ![t].heard = f.epoch, ![t].accepted = TRUE]
        /\ After(t, Sends(Rest(t), fs)) /\ UNCHANGED refused
    BY DEF HearsEpoch
  <2> HIDE DEF f
  <2> QED BY <2>1, <1>1 DEF Turns, After, Updates, Types
<1>4. fs \in Seq(UpFrames)
  <2>1. /\ [op |-> "ACK", epoch |-> f.epoch] \in UpFrames /\ [op |-> "STEP1", has |-> tabs[t].doc] \in UpFrames
        /\ Write("STEP2", tabs[t].doc \ f.has) \in UpFrames
    BY <1>1, <1>2 DEF UpFrames, Write, Page, Content
  <2> QED BY <2>1, Short
<1>5. /\ m \in Socket /\ Alike(Sock(t), m) /\ m.down = Tail(Sock(t).down) /\ m.up = Sock(t).up
  BY <1>1, RestIs DEF Rest, Alike
<1> HIDE DEF m, fs
<1>6. /\ n \in Socket /\ Alike(m, n) /\ n.down = m.down
      /\ n.up = IF Open(m) THEN m.up \o fs ELSE m.up
  BY <1>4, <1>5, SendsIs DEF Alike
<1>7. Open(m) <=> Open(Sock(t))
  BY <1>5 DEF Alike, Open
<1> HIDE DEF n
<1>8. /\ p \in Page /\ p.heard = f.epoch /\ p.accepted /\ p.doc = tabs[t].doc
      /\ p.state = "up" /\ p.slot = tabs[t].slot /\ p.readOnly = tabs[t].readOnly
  BY <1>1, <1>2 DEF Page
<1> HIDE DEF p
<1>9. Alike(Sock(t), n) /\ n.down = Tail(Sock(t).down) /\ n.up = IF Open(Sock(t)) THEN Sock(t).up \o fs ELSE Sock(t).up
  BY <1>5, <1>6, <1>7 DEF Alike
<1>10. Accepts(t, f, n, p)
  BY <1>1, <1>8, <1>9 DEF Accepts, fs
<1> QED BY <1>3, <1>6, <1>8, <1>10

\* Any other frame: what it carries is merged, and the level it tells is minded (Hears).
LEMMA MergeIs ==
  ASSUME Types, Links, NEW t \in Tabs, tabs[t].state = "up", Sock(t).down # <<>>, Hears(t),
         Head(Sock(t).down).op \notin {"HELLO", "RESET"}
  PROVE  /\ \E n \in Socket, p \in Page :
              Turns(t, p) /\ Updates(t, tabs[t].slot, n) /\ Merges(t, Head(Sock(t).down), n, p)
         /\ UNCHANGED refused
<1> DEFINE f == Head(Sock(t).down)
           n == Rest(t)
<1>1. tabs[t].slot \in Slots /\ Sock(t) \in Socket /\ tabs[t] \in Page
  BY UpIs
<1>2. f \in DownFrames /\ (f.op \in {"SYNC", "UPDATE"} => f.edits \in Content)
      /\ (f.op \in {"SYNC", "STATE"} => f.readOnly \in BOOLEAN /\ f.can \in {"yes", "no"})
  <2>1. f \in DownFrames
    BY <1>1, FirstAndRest DEF Socket
  <2> QED BY <2>1, DownIs
<1>3. n \in Socket /\ Alike(Sock(t), n) /\ n.down = Tail(Sock(t).down) /\ n.up = Sock(t).up
  BY <1>1, RestIs DEF Rest, Alike
<1>4. UNCHANGED refused /\ Updates(t, tabs[t].slot, n)
  BY DEF Hears, Heard, After, Updates
<1>5. \/ /\ f.op = "SYNC"
         /\ tabs' = [tabs EXCEPT ![t] = WithState([tabs[t] EXCEPT !.doc = @ \cup f.edits], f)]
      \/ f.op = "UPDATE" /\ tabs' = [tabs EXCEPT ![t].doc = @ \cup f.edits]
      \/ f.op = "STATE" /\ tabs' = [tabs EXCEPT ![t] = WithState(@, f)]
      \/ /\ f.op = "REFUSED"
         /\ tabs' = [tabs EXCEPT ![t].readOnly = @ \/ f.kind \in {"locked", "trashed", "acl"}]
  BY DEF Hears, Heard
<1> HIDE DEF f, n
<1>6. ASSUME NEW p \in Page, Turns(t, p), Merges(t, f, n, p)
      PROVE  \E m \in Socket, q \in Page : Turns(t, q) /\ Updates(t, tabs[t].slot, m) /\ Merges(t, f, m, q)
  BY <1>3, <1>4, <1>6
<1>7. CASE f.op = "SYNC" /\ tabs' = [tabs EXCEPT ![t] = WithState([tabs[t] EXCEPT !.doc = @ \cup f.edits], f)]
  <2> DEFINE q == [tabs[t] EXCEPT !.doc = @ \cup f.edits]
             p == WithState(q, f)
  <2>1. Turns(t, p)
    BY <1>7 DEF Turns
  <2>2. q \in Page
    BY <1>1, <1>2, <1>7 DEF Page, Content
  <2>3. q.doc = tabs[t].doc \cup f.edits /\ q.state = tabs[t].state /\ q.slot = tabs[t].slot
        /\ q.heard = tabs[t].heard /\ q.accepted = tabs[t].accepted
    BY <1>1 DEF Page
  <2> HIDE DEF q
  <2>4. p \in Page /\ p.doc = q.doc /\ p.state = q.state /\ p.slot = q.slot
        /\ p.heard = q.heard /\ p.accepted = q.accepted /\ p.readOnly = f.readOnly
    BY <1>2, <1>7, <2>2 DEF WithState, Page, TierNames
  <2> HIDE DEF p
  <2>5. Merges(t, f, n, p)
    BY <1>3, <1>7, <2>3, <2>4 DEF Merges
  <2> QED BY <1>4, <1>6, <2>1, <2>4, <2>5 DEF f
<1>8. CASE f.op = "UPDATE" /\ tabs' = [tabs EXCEPT ![t].doc = @ \cup f.edits]
  <2> DEFINE p == [tabs[t] EXCEPT !.doc = tabs[t].doc \cup f.edits]
  <2>1. Turns(t, p)
    BY <1>1, <1>8 DEF Turns, Types
  <2>2. p \in Page /\ p.doc = tabs[t].doc \cup f.edits /\ p.state = tabs[t].state /\ p.slot = tabs[t].slot
        /\ p.heard = tabs[t].heard /\ p.accepted = tabs[t].accepted /\ p.readOnly = tabs[t].readOnly
    BY <1>1, <1>2, <1>8 DEF Page, Content
  <2> HIDE DEF p
  <2>3. Merges(t, f, n, p)
    BY <1>3, <1>8, <2>2 DEF Merges, Denies
  <2> QED BY <1>4, <1>6, <2>1, <2>2, <2>3 DEF f
<1>9. CASE f.op = "STATE" /\ tabs' = [tabs EXCEPT ![t] = WithState(@, f)]
  <2> DEFINE p == WithState(tabs[t], f)
  <2>1. Turns(t, p)
    BY <1>9 DEF Turns, Types
  <2>2. p \in Page /\ p.doc = tabs[t].doc /\ p.state = tabs[t].state /\ p.slot = tabs[t].slot
        /\ p.heard = tabs[t].heard /\ p.accepted = tabs[t].accepted /\ p.readOnly = f.readOnly
    BY <1>1, <1>2, <1>9 DEF WithState, Page, TierNames
  <2> HIDE DEF p
  <2>3. Merges(t, f, n, p)
    BY <1>3, <1>9, <2>2 DEF Merges
  <2> QED BY <1>4, <1>6, <2>1, <2>2, <2>3 DEF f
<1>10. CASE /\ f.op = "REFUSED"
            /\ tabs' = [tabs EXCEPT ![t].readOnly = @ \/ f.kind \in {"locked", "trashed", "acl"}]
  <2> DEFINE ro == tabs[t].readOnly \/ f.kind \in {"locked", "trashed", "acl"}
             p == [tabs[t] EXCEPT !.readOnly = ro]
  <2>1. Turns(t, p)
    BY <1>1, <1>10 DEF Turns, Types
  <2>2. ro \in BOOLEAN /\ (ro <=> tabs[t].readOnly \/ Denies(f))
    BY <1>10 DEF Denies
  <2> HIDE DEF ro
  <2>3. p \in Page /\ p.doc = tabs[t].doc /\ p.state = tabs[t].state /\ p.slot = tabs[t].slot
        /\ p.heard = tabs[t].heard /\ p.accepted = tabs[t].accepted /\ p.readOnly = ro
    BY <1>1, <2>2 DEF Page
  <2> HIDE DEF p
  <2>4. Merges(t, f, n, p)
    BY <1>3, <1>10, <2>2, <2>3 DEF Merges
  <2> QED BY <1>4, <1>6, <2>1, <2>3, <2>4 DEF f
<1> QED BY <1>5, <1>7, <1>8, <1>9, <1>10

\* A page hears a frame.
LEMMA HearsIs ==
  ASSUME Types, Links, NEW t \in Tabs, Hears(t)
  PROVE  /\ Types' /\ tabs[t].state = "up" /\ Sock(t).down # <<>>
         /\ \E n \in Socket, p \in Page :
              /\ Turns(t, p) /\ Updates(t, tabs[t].slot, n)
              /\ \/ Accepts(t, Head(Sock(t).down), n, p) /\ UNCHANGED refused
                 \/ Reloads(t, n, p) /\ refused' = [refused EXCEPT ![t] = {}]
                 \/ Merges(t, Head(Sock(t).down), n, p) /\ UNCHANGED refused
<1>1. tabs[t].state = "up" /\ Sock(t).down # <<>> /\ tabs[t].slot \in Slots
  BY UpIs DEF Hears, Heard
<1>2. \E n \in Socket, p \in Page :
        /\ Turns(t, p) /\ Updates(t, tabs[t].slot, n)
        /\ \/ Accepts(t, Head(Sock(t).down), n, p) /\ UNCHANGED refused
           \/ Reloads(t, n, p) /\ refused' = [refused EXCEPT ![t] = {}]
           \/ Merges(t, Head(Sock(t).down), n, p) /\ UNCHANGED refused
  <2>1. CASE Head(Sock(t).down).op = "HELLO" /\ tabs[t].heard \in {NoEpoch, Head(Sock(t).down).epoch}
    <3>1. Heard(t, "HELLO") /\ HearsEpoch(t, Head(Sock(t).down))
      BY <2>1 DEF Hears, Heard
    <3> QED BY <2>1, <3>1, AcceptIs
  <2>2. CASE Reloaded(t) /\ After(t, Deaf(Sock(t)))
    <3>1. refused' = [refused EXCEPT ![t] = {}]
      BY <2>2 DEF Reloaded
    <3> QED BY <1>1, <2>2, <3>1, ReloadIs
  <2>3. CASE Head(Sock(t).down).op \notin {"HELLO", "RESET"}
    BY <1>1, <2>3, MergeIs
  <2>4. Head(Sock(t).down).op = "HELLO" /\ tabs[t].heard \notin {NoEpoch, Head(Sock(t).down).epoch} =>
          Reloaded(t) /\ After(t, Deaf(Sock(t)))
    BY DEF Hears, Heard, HearsEpoch
  <2>5. Head(Sock(t).down).op = "RESET" => Reloaded(t) /\ After(t, Deaf(Sock(t)))
    BY DEF Hears, Heard
  <2> QED BY <2>1, <2>2, <2>3, <2>4, <2>5
<1>3. PICK n \in Socket : \E p \in Page :
        /\ Turns(t, p) /\ Updates(t, tabs[t].slot, n)
        /\ \/ Accepts(t, Head(Sock(t).down), n, p) /\ UNCHANGED refused
           \/ Reloads(t, n, p) /\ refused' = [refused EXCEPT ![t] = {}]
           \/ Merges(t, Head(Sock(t).down), n, p) /\ UNCHANGED refused
  BY <1>2
<1>4. socks' \in [Tabs -> [Slots -> Socket]] /\ tabs' \in [Tabs -> Page] /\ refused' \in [Tabs -> Content]
  BY <1>1, <1>3, UpdatesAt, TurnsAt DEF Types, Content
<1>5. Types'
  BY <1>4 DEF Types, Hears, node, actor
<1> QED BY <1>1, <1>2, <1>5

\* A page leaves its socket: the link died, or its access was revoked.
LEMMA LeavesIs ==
  ASSUME Types, Links, NEW t \in Tabs, HearsClose(t) \/ LinkDies(t)
  PROVE  /\ Types' /\ tabs[t].state = "up"
         /\ \E n \in Socket, p \in Page :
              /\ Turns(t, p) /\ Updates(t, tabs[t].slot, n)
              /\ p.doc = tabs[t].doc /\ p.state # "up" /\ p.slot = NoSlot /\ p.heard = tabs[t].heard /\ ~p.accepted
              /\ n.code = Sock(t).code /\ n.born = Sock(t).born /\ n.canWrite = Sock(t).canWrite
              /\ n.up = Sock(t).up /\ ~n.live /\ n.down = <<>>
<1> DEFINE n == Deaf(Sock(t))
           p(state) == [tabs[t] EXCEPT !.state = state, !.slot = NoSlot, !.accepted = FALSE]
<1>1. tabs[t].state = "up" /\ tabs[t].slot \in Slots /\ Sock(t) \in Socket /\ tabs[t] \in Page
  BY UpIs DEF HearsClose, LinkDies
<1>2. PICK state \in {"down", "over"} :
        tabs' = [tabs EXCEPT ![t].state = state, ![t].slot = NoSlot, ![t].accepted = FALSE]
  BY DEF HearsClose, LinkDies
<1>3. Turns(t, p(state))
  BY <1>1, <1>2 DEF Turns, Types
<1>4. /\ p(state) \in Page /\ p(state).doc = tabs[t].doc /\ p(state).state # "up" /\ p(state).slot = NoSlot
      /\ p(state).heard = tabs[t].heard /\ ~p(state).accepted
  BY <1>1 DEF Page
<1> HIDE DEF p
<1>5. /\ n \in Socket /\ n.code = Sock(t).code /\ ~n.live /\ n.canWrite = Sock(t).canWrite
      /\ n.born = Sock(t).born /\ n.down = <<>> /\ n.up = Sock(t).up
  BY <1>1, DeafIs
<1>6. Updates(t, tabs[t].slot, n)
  BY DEF HearsClose, LinkDies, After, Updates
<1> HIDE DEF n
<1>7. socks' \in [Tabs -> [Slots -> Socket]] /\ tabs' \in [Tabs -> Page]
  BY <1>1, <1>3, <1>4, <1>5, <1>6, UpdatesAt, TurnsAt
<1>8. Types'
  BY <1>7 DEF Types, HearsClose, LinkDies, node, actor, seen
<1> QED BY <1>1, <1>3, <1>4, <1>5, <1>6, <1>8

-----------------------------------------------------------------------------
(* What the actor does with a frame *)

\* A socket with frames sent to it, if anybody listens.
Told(k, n, fs) ==
  /\ n.live = k.live /\ n.born = k.born
  /\ n.down = IF Open(k) /\ k.live THEN k.down \o fs ELSE k.down

\* A socket that was put out: it was open, and is told so.
PutOut(k, n, fs) == Open(k) /\ n.code \in {"reset", "revoked"} /\ Told(k, n, fs)

\* What a page sends is of the type its name says.
LEMMA UpFrameIs ==
  ASSUME NEW f \in UpFrames
  PROVE  /\ f.op = "ACK" => f.epoch \in Nat
         /\ f.op = "STEP1" => f.has \in Content
         /\ f.op \in {"STEP2", "UPDATE"} => f.edits \in Content
BY DEF UpFrames

\* The frames the actor sends.
LEMMA SentAre ==
  ASSUME Types
  PROVE  /\ Reset \in DownFrames
         /\ \A kind \in {"locked", "trashed", "epoch", "acl", "limit"} : Refusal(kind) \in DownFrames
         /\ \A edits \in Content : Write("UPDATE", edits) \in DownFrames
         /\ \A k \in Socket, lk, tr \in BOOLEAN : StateFor(k, lk, tr) \in DownFrames
BY DEF Reset, Refusal, Write, StateFor, DownFrames, Socket, Types

\* A frame of a socket is taken.
LEMMA GivenIs ==
  ASSUME Types, NEW t \in Tabs, NEW s \in Slots, NEW op, Given(t, s, op)
  PROVE  /\ socks[t][s] \in Socket /\ socks[t][s].up # <<>> /\ Head(socks[t][s].up) \in UpFrames
         /\ Head(socks[t][s].up).op = op
         /\ Taken(t, s) \in Socket /\ Alike(socks[t][s], Taken(t, s))
         /\ Taken(t, s).down = socks[t][s].down /\ Taken(t, s).up = Tail(socks[t][s].up)
<1>1. socks[t][s] \in Socket /\ socks[t][s].up # <<>> /\ Head(socks[t][s].up).op = op
  BY DEF Types, Given
<1>2. Head(socks[t][s].up) \in UpFrames
  BY <1>1, FirstAndRest DEF Socket
<1> QED BY <1>1, <1>2, TakenIs DEF Taken, Alike

\* An acknowledgement: the fence opens for the socket, or the socket is put out.
LEMMA AckIs ==
  ASSUME Types, NEW t \in Tabs, NEW s \in Slots, HandleAck(t, s)
  PROVE  /\ Types' /\ Head(socks[t][s].up).op = "ACK" /\ socks[t][s].up # <<>>
         /\ \E n \in Socket :
              /\ Updates(t, s, n) /\ n.up = Tail(socks[t][s].up) /\ n.canWrite = socks[t][s].canWrite
              /\ \/ n.code = socks[t][s].code /\ Told(socks[t][s], n, <<>>)
                 \/ PutOut(socks[t][s], n, <<Refusal("epoch"), Reset>>)
<1> DEFINE k == socks[t][s]
           m == Taken(t, s)
           a == [m EXCEPT !.acked = TRUE]
           fs == <<Refusal("epoch"), Reset>>
           b == Shut(m, "reset", fs)
<1>1. /\ k \in Socket /\ k.up # <<>> /\ Head(k.up).op = "ACK"
      /\ m \in Socket /\ Alike(k, m) /\ m.down = k.down /\ m.up = Tail(k.up)
  BY GivenIs DEF HandleAck
<1>2. Updates(t, s, a) \/ Updates(t, s, b)
  BY <1>1 DEF HandleAck, Updates, Types
<1> HIDE DEF m
<1>3. a \in Socket /\ a.code = m.code /\ a.live = m.live /\ a.canWrite = m.canWrite /\ a.born = m.born
      /\ a.down = m.down /\ a.up = m.up
  BY <1>1 DEF Socket
<1>4. fs \in Seq(DownFrames)
  BY SentAre, Short
<1> HIDE DEF fs
<1>5. /\ b \in Socket /\ b.code = (IF Open(m) THEN "reset" ELSE m.code) /\ b.live = m.live
      /\ b.canWrite = m.canWrite /\ b.born = m.born /\ b.up = m.up
      /\ b.down = IF Open(m) /\ m.live THEN m.down \o fs ELSE m.down
  BY <1>1, <1>4, ShutIs
<1> HIDE DEF a, b
<1>6. k.down \o <<>> = k.down
  BY <1>1, ConcatEmptySeq DEF Socket
<1>7. a.up = Tail(k.up) /\ a.canWrite = k.canWrite /\ a.code = k.code /\ Told(k, a, <<>>)
  BY <1>1, <1>3, <1>6 DEF Alike, Told
<1>8. b.up = Tail(k.up) /\ b.canWrite = k.canWrite /\ ((b.code = k.code /\ Told(k, b, <<>>)) \/ PutOut(k, b, fs))
  BY <1>1, <1>5, <1>6 DEF Alike, Told, PutOut, Open
<1>9. \E n \in Socket :
        /\ Updates(t, s, n) /\ n.up = Tail(k.up) /\ n.canWrite = k.canWrite
        /\ (n.code = k.code /\ Told(k, n, <<>>)) \/ PutOut(k, n, fs)
  BY <1>2, <1>3, <1>5, <1>7, <1>8
<1>10. socks' \in [Tabs -> [Slots -> Socket]]
  BY <1>9, UpdatesAt
<1>11. Types'
  BY <1>10 DEF Types, HandleAck, node, actor, seen
<1> QED BY <1>1, <1>9, <1>11 DEF fs

\* A page's state vector is answered with what it lacks and the level it has.
LEMMA Step1Is ==
  ASSUME Types, NEW t \in Tabs, NEW s \in Slots, HandleStep1(t, s)
  PROVE  /\ Types' /\ Head(socks[t][s].up).op = "STEP1" /\ socks[t][s].up # <<>>
         /\ Head(socks[t][s].up).has \in Content
         /\ \E n \in Socket, f \in DownFrames :
              /\ Updates(t, s, n) /\ n.up = Tail(socks[t][s].up) /\ n.canWrite = socks[t][s].canWrite
              /\ n.code = socks[t][s].code /\ Told(socks[t][s], n, <<f>>)
              /\ f.op = "SYNC" /\ f.edits = doc \ Head(socks[t][s].up).has
              /\ f.readOnly <=> locked \/ trashed \/ ~socks[t][s].canWrite
<1> DEFINE k == socks[t][s]
           m == Taken(t, s)
           st == StateFor(k, locked, trashed)
           f == [op |-> "SYNC", edits |-> doc \ Head(k.up).has, readOnly |-> st.readOnly, can |-> st.can]
           n == Put(m, <<f>>)
<1>1. /\ k \in Socket /\ k.up # <<>> /\ Head(k.up).op = "STEP1" /\ Head(k.up) \in UpFrames
      /\ m \in Socket /\ Alike(k, m) /\ m.down = k.down /\ m.up = Tail(k.up)
  BY GivenIs DEF HandleStep1
<1>2. Updates(t, s, n)
  BY <1>1 DEF HandleStep1, Updates, Types
<1>3. st.readOnly \in BOOLEAN /\ (st.readOnly <=> locked \/ trashed \/ ~k.canWrite) /\ st.can \in {"yes", "no"}
  BY <1>1 DEF StateFor, Types, Socket
<1> HIDE DEF st, m
<1>4. f \in DownFrames
  BY <1>3 DEF DownFrames, Types, Content
<1>5. f.op = "SYNC" /\ f.edits = doc \ Head(k.up).has /\ (f.readOnly <=> locked \/ trashed \/ ~k.canWrite)
  BY <1>3
<1> HIDE DEF f
<1>6. <<f>> \in Seq(DownFrames)
  BY <1>4, Short
<1>7. /\ n \in Socket /\ Alike(m, n) /\ n.up = m.up
      /\ n.down = IF Open(m) /\ m.live THEN m.down \o <<f>> ELSE m.down
  BY <1>1, <1>6, PutIs DEF Alike
<1> HIDE DEF n
<1>8. n.up = Tail(k.up) /\ n.canWrite = k.canWrite /\ n.code = k.code /\ Told(k, n, <<f>>)
  BY <1>1, <1>7 DEF Alike, Told, Open
<1>9. socks' \in [Tabs -> [Slots -> Socket]]
  BY <1>2, <1>7, UpdatesAt
<1>10. Types'
  BY <1>9 DEF Types, HandleStep1, node, actor, seen
<1>11. Head(k.up).has \in Content
  BY <1>1, UpFrameIs
<1> QED BY <1>1, <1>2, <1>4, <1>5, <1>7, <1>8, <1>10, <1>11

\* A write is refused: the page is told, and put out when it is of an older generation.
LEMMA RefusedIs ==
  ASSUME Types, NEW t \in Tabs, NEW s \in Slots, Given(t, s, "STEP2") \/ Given(t, s, "UPDATE"),
         NEW kind \in {"locked", "trashed", "epoch", "acl", "limit"}, HandleRefused(t, s, kind)
  PROVE  /\ Types'
         /\ refused' = [refused EXCEPT ![t] = @ \cup (Head(socks[t][s].up).edits \ doc)]
         /\ \E n \in Socket :
              /\ Updates(t, s, n) /\ n.up = Tail(socks[t][s].up) /\ n.canWrite = socks[t][s].canWrite
              /\ \/ n.code = socks[t][s].code /\ Told(socks[t][s], n, <<>>)
                 \/ n.code = socks[t][s].code /\ kind # "epoch" /\ Told(socks[t][s], n, <<Refusal(kind)>>)
                 \/ PutOut(socks[t][s], n, <<Refusal(kind), Reset>>)
<1> DEFINE k == socks[t][s]
           m == Taken(t, s)
           fs == <<Refusal(kind), Reset>>
           gs == <<Refusal(kind)>>
           a == Shut(m, "reset", fs)
           b == Put(m, gs)
<1>1. /\ k \in Socket /\ k.up # <<>> /\ Head(k.up).edits \in Content
      /\ m \in Socket /\ Alike(k, m) /\ m.down = k.down /\ m.up = Tail(k.up)
  BY GivenIs, UpFrameIs
<1>2. (kind = "epoch" /\ Updates(t, s, a)) \/ (kind # "epoch" /\ Updates(t, s, b))
  BY <1>1 DEF HandleRefused, Updates, Types
<1> HIDE DEF m
<1>3. fs \in Seq(DownFrames) /\ gs \in Seq(DownFrames)
  BY SentAre, Short
<1> HIDE DEF fs, gs
<1>4. /\ a \in Socket /\ a.code = (IF Open(m) THEN "reset" ELSE m.code) /\ a.live = m.live
      /\ a.canWrite = m.canWrite /\ a.born = m.born /\ a.up = m.up
      /\ a.down = IF Open(m) /\ m.live THEN m.down \o fs ELSE m.down
  BY <1>1, <1>3, ShutIs
<1>5. /\ b \in Socket /\ Alike(m, b) /\ b.up = m.up
      /\ b.down = IF Open(m) /\ m.live THEN m.down \o gs ELSE m.down
  BY <1>1, <1>3, PutIs DEF Alike
<1> HIDE DEF a, b
<1>6. k.down \o <<>> = k.down
  BY <1>1, ConcatEmptySeq DEF Socket
<1>7. a.up = Tail(k.up) /\ a.canWrite = k.canWrite /\ ((a.code = k.code /\ Told(k, a, <<>>)) \/ PutOut(k, a, fs))
  BY <1>1, <1>4, <1>6 DEF Alike, Told, PutOut, Open
<1>8. b.up = Tail(k.up) /\ b.canWrite = k.canWrite /\ b.code = k.code /\ Told(k, b, gs)
  BY <1>1, <1>5 DEF Alike, Told, Open
<1>9. \E n \in Socket :
        /\ Updates(t, s, n) /\ n.up = Tail(k.up) /\ n.canWrite = k.canWrite
        /\ \/ n.code = k.code /\ Told(k, n, <<>>)
           \/ n.code = k.code /\ kind # "epoch" /\ Told(k, n, gs)
           \/ PutOut(k, n, fs)
  BY <1>2, <1>4, <1>5, <1>7, <1>8
<1>10. socks' \in [Tabs -> [Slots -> Socket]]
  BY <1>9, UpdatesAt
<1>11. refused' = [refused EXCEPT ![t] = @ \cup (Head(k.up).edits \ doc)]
  BY DEF HandleRefused
<1>12. refused' \in [Tabs -> Content]
  BY <1>1, <1>11 DEF Types, Content
<1>13. Types'
  BY <1>10, <1>12 DEF Types, HandleRefused, node, actor
<1> QED BY <1>9, <1>11, <1>13 DEF fs, gs

\* A write is applied, and told to every other socket.
LEMMA AppliedIs ==
  ASSUME Types, NEW t \in Tabs, NEW s \in Slots, Given(t, s, "STEP2") \/ Given(t, s, "UPDATE"), HandleApplied(t, s)
  PROVE  LET f == Head(socks[t][s].up)
         IN  /\ Types' /\ f.edits \in Content /\ doc' = doc \cup f.edits /\ undone' = undone \ f.edits
             /\ Write("UPDATE", f.edits) \in DownFrames
             /\ \A u \in Tabs, r \in Slots :
                  /\ Alike(socks[u][r], socks'[u][r])
                  /\ u = t /\ r = s => /\ socks'[u][r].up = Tail(socks[u][r].up)
                                       /\ socks'[u][r].down = socks[u][r].down
                  /\ ~(u = t /\ r = s) => /\ socks'[u][r].up = socks[u][r].up
                                          /\ Told(socks[u][r], socks'[u][r], <<Write("UPDATE", f.edits)>>)
<1> DEFINE k == socks[t][s]
           f == Head(k.up)
           fs == <<Write("UPDATE", f.edits)>>
<1>1. /\ k \in Socket /\ k.up # <<>> /\ f.edits \in Content
      /\ Taken(t, s) \in Socket /\ Alike(k, Taken(t, s)) /\ Taken(t, s).down = k.down /\ Taken(t, s).up = Tail(k.up)
  BY GivenIs, UpFrameIs
<1>2. Write("UPDATE", f.edits) \in DownFrames /\ fs \in Seq(DownFrames)
  BY <1>1, SentAre, Short
<1>3. /\ doc' = doc \cup f.edits /\ undone' = undone \ f.edits
      /\ socks' = [u \in Tabs |-> [r \in Slots |->
                     IF <<u, r>> = <<t, s>> THEN [socks[u][r] EXCEPT !.up = Tail(@)] ELSE Put(socks[u][r], fs)]]
      /\ UNCHANGED <<row, calls, asked, saved, epoch, locked, trashed, versions, tabs, typed, early, refused, lost>>
  BY DEF HandleApplied, Fanned, node
<1> HIDE DEF f, fs
<1>4. ASSUME NEW u \in Tabs, NEW r \in Slots
      PROVE  /\ socks'[u][r] \in Socket /\ Alike(socks[u][r], socks'[u][r])
             /\ u = t /\ r = s => socks'[u][r].up = Tail(socks[u][r].up) /\ socks'[u][r].down = socks[u][r].down
             /\ ~(u = t /\ r = s) => socks'[u][r].up = socks[u][r].up /\ Told(socks[u][r], socks'[u][r], fs)
  <2>1. CASE u = t /\ r = s
    <3>1. socks'[u][r] = Taken(t, s)
      BY <1>3, <2>1 DEF Taken
    <3> QED BY <1>1, <2>1, <3>1
  <2>2. CASE ~(u = t /\ r = s)
    <3>1. socks'[u][r] = Put(socks[u][r], fs) /\ socks[u][r] \in Socket
      BY <1>3, <2>2 DEF Types
    <3>2. LET n == Put(socks[u][r], fs) IN
          /\ n \in Socket /\ Alike(socks[u][r], n) /\ n.up = socks[u][r].up
          /\ n.down = IF Open(socks[u][r]) /\ socks[u][r].live THEN socks[u][r].down \o fs ELSE socks[u][r].down
      BY <1>2, <3>1, PutIs DEF Alike
    <3> QED BY <2>2, <3>1, <3>2 DEF Told, Alike
  <2> QED BY <2>1, <2>2
<1>5. socks' \in [Tabs -> [Slots -> Socket]]
  BY <1>3, <1>4
<1>6. Types'
  BY <1>1, <1>3, <1>5 DEF Types, Content
<1> QED BY <1>1, <1>2, <1>3, <1>4, <1>6 DEF f, fs

\* A write is refused, is nothing new, or is applied.
LEMMA WriteIs ==
  ASSUME Types, NEW t \in Tabs, NEW s \in Slots, HandleWrite(t, s)
  PROVE  LET k == socks[t][s]
             f == Head(k.up)
         IN  /\ Given(t, s, "STEP2") \/ Given(t, s, "UPDATE")
             /\ UNCHANGED <<row, calls, asked, saved, epoch, locked, trashed, versions, tabs, typed, early, lost>>
             /\ \/ \E kind \in {"locked", "trashed", "epoch", "acl", "limit"} :
                     /\ HandleRefused(t, s, kind)
                     /\ kind \in {"locked", "trashed", "acl"} => locked \/ trashed \/ ~k.canWrite
                \/ f.edits \subseteq doc /\ Updates(t, s, Taken(t, s)) /\ UNCHANGED <<doc, undone, refused>>
                \/ HandleApplied(t, s) /\ Verdict(k, f) = "apply"
<1> DEFINE k == socks[t][s]
           f == Head(k.up)
           v == Verdict(k, f)
<1>1. Given(t, s, "STEP2") \/ Given(t, s, "UPDATE")
  BY DEF HandleWrite
<1>2. /\ v = "locked" => locked
      /\ v = "trashed" => trashed
      /\ v = "acl" => ~k.canWrite
      /\ v = "ack" => f.edits \subseteq doc
  BY DEF Verdict, Opening
<1>3. \/ v \in {"locked", "trashed", "epoch", "acl"} /\ HandleRefused(t, s, v)
      \/ /\ v = "ack" /\ socks' = [socks EXCEPT ![t][s] = Taken(t, s)]
         /\ UNCHANGED <<node, actor, tabs, seen, left>>
      \/ v = "apply" /\ HandleApplied(t, s)
      \/ v = "apply" /\ HandleRefused(t, s, "limit")
  BY DEF HandleWrite
<1> HIDE DEF v
<1>4. CASE v \in {"locked", "trashed", "epoch", "acl"} /\ HandleRefused(t, s, v)
  BY <1>1, <1>2, <1>4 DEF HandleRefused, node, actor
<1>5. CASE /\ v = "ack" /\ socks' = [socks EXCEPT ![t][s] = Taken(t, s)]
           /\ UNCHANGED <<node, actor, tabs, seen, left>>
  BY <1>1, <1>2, <1>5 DEF Updates, node, actor, seen
<1>6. CASE v = "apply" /\ HandleApplied(t, s)
  BY <1>1, <1>6 DEF HandleApplied, node, v
<1>7. CASE v = "apply" /\ HandleRefused(t, s, "limit")
  BY <1>1, <1>7 DEF HandleRefused, node, actor
<1> QED BY <1>3, <1>4, <1>5, <1>6, <1>7

\* A write that brings nothing new is only taken.
LEMMA TakenOnly ==
  ASSUME Types, NEW t \in Tabs, NEW s \in Slots, Given(t, s, "STEP2") \/ Given(t, s, "UPDATE"),
         Updates(t, s, Taken(t, s)),
         UNCHANGED <<row, calls, asked, saved, epoch, locked, trashed, versions, tabs, typed, early, lost, doc, undone, refused>>
  PROVE  Types'
<1>1. Taken(t, s) \in Socket
  BY GivenIs
<1>2. socks' \in [Tabs -> [Slots -> Socket]]
  BY <1>1, UpdatesAt
<1> QED BY <1>2 DEF Types

\* A socket whose page is gone is forgotten; its leaving may save the document.
LEMMA DepartsIs ==
  ASSUME Types, NEW t \in Tabs, NEW s \in Slots, Departs(t, s)
  PROVE  /\ Types' /\ ~socks[t][s].live /\ Updates(t, s, Vacant)
         /\ UNCHANGED <<row, calls, asked, doc, epoch, locked, trashed, tabs, typed, undone, early, refused, lost>>
         /\ \/ UNCHANGED <<saved, versions>>
            \/ saved' = doc /\ versions' = versions \cup {doc}
<1>1. /\ ~socks[t][s].live /\ Updates(t, s, Vacant)
      /\ UNCHANGED <<row, calls, asked, doc, epoch, locked, trashed, tabs, typed, undone, early, refused, lost>>
      /\ \/ UNCHANGED <<saved, versions>>
         \/ saved' = doc /\ versions' = versions \cup {doc}
  BY DEF Departs, Updates, Saves, node, seen
<1>2. socks' \in [Tabs -> [Slots -> Socket]]
  BY <1>1, VacantIs, UpdatesAt
<1> QED BY <1>1, <1>2 DEF Types

\* The steps of the node and of the store.
LEMMA SaveIs ==
  ASSUME Types, Save
  PROVE  /\ Types' /\ saved' = doc /\ versions' = versions \cup {doc}
         /\ UNCHANGED <<row, calls, asked, doc, epoch, locked, trashed, socks, tabs, typed, undone, early, refused, lost>>
BY DEF Save, Saves, Types, node, seen

\* A restore is let through.
LEMMA AskRestoreIs ==
  ASSUME Types, NEW v, AskRestore(v)
  PROVE  /\ Types' /\ v \in versions /\ asked' = asked \cup {v}
         /\ UNCHANGED <<row, calls, doc, saved, versions, epoch, locked, trashed, socks, tabs, typed, undone, early,
                        refused, lost>>
BY DEF AskRestore, Types, actor, seen

\* A person changes the row, and a call says how it is now.
LEMMA FlipIs ==
  ASSUME Types, NEW what \in Flips, NEW t \in Tabs, NEW tier \in Tiers, Flip(what, t, tier)
  PROVE  /\ Types' /\ what \in Ops /\ calls' = Append(calls, [op |-> what, row |-> row'])
         /\ [op |-> what, row |-> row'] \in Call
         /\ what # "lock" => row'.locked = row.locked
         /\ what # "trash" => row'.trashed = row.trashed
         /\ what # "tier" => row'.tier = row.tier
         /\ UNCHANGED <<asked, doc, saved, versions, epoch, locked, trashed, socks, tabs, typed, undone, early, refused, lost>>
<1>1. what \in Ops /\ tier \in TierNames /\ row \in Row
  BY FlipsAssumption, TiersAssumption DEF Ops, TierNames, Types
<1>2. /\ calls' = Append(calls, [op |-> what, row |-> row'])
      /\ UNCHANGED <<asked, doc, saved, versions, epoch, locked, trashed, socks, tabs, typed, undone, early, refused, lost>>
  BY DEF Flip, actor, seen
<1>3. \/ what = "lock" /\ row' = [row EXCEPT !.locked = ~@]
      \/ what = "trash" /\ row' = [row EXCEPT !.trashed = ~@]
      \/ what = "tier" /\ row' = [row EXCEPT !.tier[t] = tier]
  BY <1>1 DEF Flip, Ops
<1>4. /\ row' \in Row
      /\ what # "lock" => row'.locked = row.locked
      /\ what # "trash" => row'.trashed = row.trashed
      /\ what # "tier" => row'.tier = row.tier
  BY <1>1, <1>3 DEF Row
<1>5. [op |-> what, row |-> row'] \in Call
  BY <1>1, <1>4 DEF Call
<1>6. calls' \in Seq(Call)
  BY <1>2, <1>5 DEF Types
<1>7. Types'
  BY <1>2, <1>4, <1>6 DEF Types
<1> QED BY <1>1, <1>2, <1>4, <1>5, <1>7

\* A restore puts every socket out.
LEMMA RestoreIs ==
  ASSUME Types, NEW v, Restore(v)
  PROVE  /\ Types' /\ v \in asked /\ asked' = asked \ {v} /\ versions' = versions \cup {doc}
         /\ doc' = v /\ saved' = v /\ epoch' = epoch + 1 /\ undone' = Superseded(v)
         /\ UNCHANGED <<row, calls, locked, trashed, tabs, typed, early, refused, lost>>
         /\ \A t \in Tabs, s \in Slots :
              LET k == socks[t][s]
                  n == socks'[t][s]
              IN  /\ n.up = k.up /\ n.canWrite = k.canWrite
                  /\ ~Open(k) => n = k
                  /\ Open(k) => PutOut(k, n, <<Reset>>)
<1>1. /\ v \in asked /\ asked' = asked \ {v} /\ versions' = versions \cup {doc}
      /\ doc' = v /\ saved' = v /\ epoch' = epoch + 1 /\ undone' = Superseded(v)
      /\ UNCHANGED <<row, calls, locked, trashed, tabs, typed, early, refused, lost>>
      /\ socks' = [t \in Tabs |-> [s \in Slots |-> Shut(socks[t][s], "reset", <<Reset>>)]]
  BY DEF Restore
<1>2. <<Reset>> \in Seq(DownFrames)
  BY SentAre, Short
<1>3. ASSUME NEW t \in Tabs, NEW s \in Slots
      PROVE  /\ socks'[t][s] \in Socket
             /\ socks'[t][s].up = socks[t][s].up /\ socks'[t][s].canWrite = socks[t][s].canWrite
             /\ ~Open(socks[t][s]) => socks'[t][s] = socks[t][s]
             /\ Open(socks[t][s]) => PutOut(socks[t][s], socks'[t][s], <<Reset>>)
  <2> DEFINE k == socks[t][s]
             n == Shut(k, "reset", <<Reset>>)
  <2>1. k \in Socket /\ socks'[t][s] = n /\ (~Open(k) => n = k)
    BY <1>1 DEF Types, Shut
  <2>2. /\ n \in Socket
        /\ n.code = (IF Open(k) THEN "reset" ELSE k.code) /\ n.live = k.live
        /\ n.canWrite = k.canWrite /\ n.born = k.born /\ n.up = k.up
        /\ n.down = IF Open(k) /\ k.live THEN k.down \o <<Reset>> ELSE k.down
    BY <1>2, <2>1, ShutIs
  <2> HIDE DEF n
  <2> QED BY <2>1, <2>2 DEF PutOut, Told
<1>4. socks' \in [Tabs -> [Slots -> Socket]]
  BY <1>1, <1>3
<1>5. Superseded(v) \in Content
  BY DEF Superseded, Types, Content, Page
<1>6. Types'
  BY <1>1, <1>4, <1>5 DEF Types
<1> QED BY <1>1, <1>3, <1>6

\* The node's call arrives: every socket it is about is told its level, or put out.
LEMMA DeliverIs ==
  ASSUME Types, Deliver
  PROVE  LET c == Head(calls)
         IN  /\ Types' /\ calls # <<>> /\ c \in Call /\ calls' = Tail(calls)
             /\ UNCHANGED <<row, asked, doc, saved, epoch, versions, tabs, typed, undone, early, refused, lost>>
             /\ locked' = (IF c.op = "lock" THEN c.row.locked ELSE locked)
             /\ trashed' = (IF c.op = "trash" THEN c.row.trashed ELSE trashed)
             /\ \A t \in Tabs, s \in Slots :
                  LET k == socks[t][s]
                      n == socks'[t][s]
                  IN  /\ n.up = k.up
                      /\ \/ /\ n.code = k.code /\ n.canWrite = k.canWrite /\ Told(k, n, <<>>)
                            /\ c.op = "tier"
                            /\ Open(k) => c.row.tier[t] # "none" /\ (k.canWrite => c.row.tier[t] = "write")
                         \/ n.code = "revoked" /\ PutOut(k, n, <<>>)
                         \/ \E f \in DownFrames :
                              /\ n.code = k.code /\ Told(k, n, <<f>>)
                              /\ f.op = "STATE" /\ (f.readOnly <=> locked' \/ trashed' \/ ~n.canWrite)
                              /\ c.op # "tier" => n.canWrite = k.canWrite
                              /\ c.op = "tier" => c.row.tier[t] # "none" /\ (n.canWrite => c.row.tier[t] = "write")
<1> DEFINE c == Head(calls)
<1>1. /\ calls # <<>> /\ c \in Call /\ calls' = Tail(calls) /\ Tail(calls) \in Seq(Call)
      /\ UNCHANGED <<row, asked, doc, saved, epoch, versions, tabs, typed, undone, early, refused, lost>>
  BY FirstAndRest DEF Deliver, Types, seen
<1>2. /\ locked' = (IF c.op = "lock" THEN c.row.locked ELSE locked)
      /\ trashed' = (IF c.op = "trash" THEN c.row.trashed ELSE trashed)
      /\ IF c.op = "tier"
         THEN socks' = [t \in Tabs |-> [s \in Slots |-> Retiered(socks[t][s], c.row.tier[t])]]
         ELSE socks' = Leveled(locked', trashed')
  BY <1>1 DEF Deliver, Call, Ops
<1>3. locked' \in BOOLEAN /\ trashed' \in BOOLEAN /\ \A t \in Tabs : c.row.tier[t] \in TierNames
  BY <1>1, <1>2 DEF Call, Row, Types
<1> HIDE DEF c
<1> DEFINE Changed(t, s, n) ==
             LET k == socks[t][s]
             IN  /\ n.up = k.up
                 /\ \/ /\ n.code = k.code /\ n.canWrite = k.canWrite /\ Told(k, n, <<>>)
                       /\ c.op = "tier"
                       /\ Open(k) => c.row.tier[t] # "none" /\ (k.canWrite => c.row.tier[t] = "write")
                    \/ n.code = "revoked" /\ PutOut(k, n, <<>>)
                    \/ \E f \in DownFrames :
                         /\ n.code = k.code /\ Told(k, n, <<f>>)
                         /\ f.op = "STATE" /\ (f.readOnly <=> locked' \/ trashed' \/ ~n.canWrite)
                         /\ c.op # "tier" => n.canWrite = k.canWrite
                         /\ c.op = "tier" => c.row.tier[t] # "none" /\ (n.canWrite => c.row.tier[t] = "write")
<1>4. ASSUME NEW t \in Tabs, NEW s \in Slots, NEW k \in Socket
      PROVE  LET f == StateFor(k, locked', trashed')
                 n == Put(k, <<f>>)
             IN  /\ n \in Socket /\ f \in DownFrames /\ n.up = k.up /\ n.code = k.code /\ n.canWrite = k.canWrite
                 /\ Told(k, n, <<f>>)
                 /\ f.op = "STATE" /\ (f.readOnly <=> locked' \/ trashed' \/ ~k.canWrite)
  <2> DEFINE f == StateFor(k, locked', trashed')
             n == Put(k, <<f>>)
  <2>1. f \in DownFrames /\ f.op = "STATE" /\ (f.readOnly <=> locked' \/ trashed' \/ ~k.canWrite)
    BY <1>3, SentAre DEF StateFor, Socket
  <2> HIDE DEF f
  <2>2. <<f>> \in Seq(DownFrames)
    BY <2>1, Short
  <2>3. /\ n \in Socket /\ Alike(k, n) /\ n.up = k.up
        /\ n.down = IF Open(k) /\ k.live THEN k.down \o <<f>> ELSE k.down
    BY <2>2, PutIs DEF Alike
  <2> HIDE DEF n
  <2>4. Told(k, n, <<f>>)
    BY <2>3 DEF Told, Alike
  <2> QED BY <2>1, <2>3, <2>4 DEF Alike, f, n
<1>5. ASSUME NEW t \in Tabs, NEW s \in Slots
      PROVE  socks'[t][s] \in Socket /\ Changed(t, s, socks'[t][s])
  <2> DEFINE k == socks[t][s]
             n == socks'[t][s]
  <2>1. k \in Socket /\ k.down \o <<>> = k.down
    BY ConcatEmptySeq DEF Types, Socket
  <2>2. CASE c.op # "tier"
    <3> DEFINE f == StateFor(k, locked', trashed')
    <3>1. n = Put(k, <<f>>)
      BY <1>2, <2>2 DEF Leveled
    <3>2. /\ n \in Socket /\ f \in DownFrames /\ n.up = k.up /\ n.code = k.code /\ n.canWrite = k.canWrite
          /\ Told(k, n, <<f>>)
          /\ f.op = "STATE" /\ (f.readOnly <=> locked' \/ trashed' \/ ~k.canWrite)
      BY <1>4, <2>1, <3>1
    <3> HIDE DEF f, n
    <3> QED BY <2>2, <3>2 DEF n
  <2>3. CASE c.op = "tier"
    <3> DEFINE tier == c.row.tier[t]
               m == [k EXCEPT !.canWrite = (tier = "write")]
    <3>1. n = Retiered(k, tier) /\ tier \in TierNames /\ UNCHANGED <<locked, trashed>>
      BY <1>2, <1>3, <2>3
    <3>2. CASE ~Open(k)
      <4>1. n = k
        BY <3>1, <3>2 DEF Retiered, Shut
      <4> QED BY <2>1, <2>3, <3>2, <4>1 DEF Told
    <3>3. CASE Open(k) /\ tier = "none"
      <4>1. n = Shut(k, "revoked", <<>>)
        BY <3>1, <3>3 DEF Retiered
      <4>2. <<>> \in Seq(DownFrames)
        BY Short
      <4>4. "revoked" \in {"reset", "revoked"}
        OBVIOUS
      <4> DEFINE z == Shut(k, "revoked", <<>>)
      <4>5. k \in Socket
        BY <2>1
      <4> HIDE DEF k
      <4>3. /\ z \in Socket
            /\ z.code = (IF Open(k) THEN "revoked" ELSE k.code) /\ z.live = k.live
            /\ z.canWrite = k.canWrite /\ z.born = k.born /\ z.up = k.up
            /\ z.down = IF Open(k) /\ k.live THEN k.down \o <<>> ELSE k.down
        BY ONLY <4>2, <4>4, <4>5, ShutIs
      <4> HIDE DEF z
      <4>6. n = z
        BY <4>1 DEF z
      <4> HIDE DEF n
      <4>7. n \in Socket /\ n.up = k.up /\ n.code = "revoked" /\ PutOut(k, n, <<>>)
        BY <3>3, <4>3, <4>6 DEF PutOut, Told
      <4> QED BY <4>7 DEF n, k
    <3>4. CASE Open(k) /\ tier # "none" /\ k.canWrite = (tier = "write")
      <4>1. n = k
        BY <3>1, <3>4 DEF Retiered
      <4> QED BY <2>1, <2>3, <3>4, <4>1 DEF Told
    <3>5. CASE Open(k) /\ tier # "none" /\ k.canWrite # (tier = "write")
      <4>1. m \in Socket /\ m.up = k.up /\ m.code = k.code /\ m.live = k.live /\ m.born = k.born /\ m.down = k.down
            /\ (m.canWrite <=> tier = "write")
        BY <2>1 DEF Socket
      <4> DEFINE f == StateFor(m, locked', trashed')
      <4>2. n = Put(m, <<f>>)
        BY <3>1, <3>5 DEF Retiered
      <4> HIDE DEF m
      <4>3. /\ n \in Socket /\ f \in DownFrames /\ n.up = m.up /\ n.code = m.code /\ n.canWrite = m.canWrite
            /\ Told(m, n, <<f>>)
            /\ f.op = "STATE" /\ (f.readOnly <=> locked' \/ trashed' \/ ~m.canWrite)
        BY <1>4, <4>1, <4>2
      <4> HIDE DEF f, n
      <4>4. Told(k, n, <<f>>)
        BY <4>1, <4>3 DEF Told, Open
      <4>5. n.canWrite <=> tier = "write"
        BY <4>1, <4>3
      <4> QED BY <2>3, <3>5, <4>1, <4>3, <4>4, <4>5 DEF n
    <3> QED BY <3>2, <3>3, <3>4, <3>5
  <2> QED BY <2>2, <2>3
<1>6. socks' \in [Tabs -> [Slots -> Socket]]
  BY <1>2, <1>5 DEF Leveled
<1>7. Types'
  BY <1>1, <1>3, <1>6 DEF Types
<1> QED BY <1>1, <1>2, <1>5, <1>7 DEF c

\* The process ends: no socket is left, and the pages are down.
LEMMA CrashIs ==
  ASSUME Types, Crash
  PROVE  /\ Types' /\ calls' = <<>> /\ asked' = {} /\ doc' = saved /\ trashed' = FALSE
         /\ (lost' <=> lost \/ calls # <<>>)
         /\ UNCHANGED <<row, saved, epoch, locked, versions, typed, undone, early, refused>>
         /\ \A t \in Tabs, s \in Slots : socks'[t][s] = Vacant
         /\ \A t \in Tabs :
              /\ tabs'[t].doc = tabs[t].doc /\ tabs'[t].heard = tabs[t].heard
              /\ tabs[t].state # "up" => tabs'[t] = tabs[t]
              /\ tabs[t].state = "up" => tabs'[t].state # "up" /\ tabs'[t].slot = NoSlot /\ ~tabs'[t].accepted
<1>1. /\ calls' = <<>> /\ asked' = {} /\ doc' = saved /\ trashed' = FALSE
      /\ lost' = (lost \/ calls # <<>>)
      /\ UNCHANGED <<row, saved, epoch, locked, versions, typed, undone, early, refused>>
      /\ socks' = [t \in Tabs |-> [s \in Slots |-> Vacant]]
      /\ tabs' = [t \in Tabs |-> IF tabs[t].state = "up"
                    THEN [tabs[t] EXCEPT !.state = "down", !.slot = NoSlot, !.accepted = FALSE]
                    ELSE tabs[t]]
  BY DEF Crash
<1>2. ASSUME NEW t \in Tabs
      PROVE  /\ tabs'[t] \in Page
             /\ tabs'[t].doc = tabs[t].doc /\ tabs'[t].heard = tabs[t].heard
             /\ tabs[t].state # "up" => tabs'[t] = tabs[t]
             /\ tabs[t].state = "up" => tabs'[t].state # "up" /\ tabs'[t].slot = NoSlot /\ ~tabs'[t].accepted
  <2> DEFINE p == [tabs[t] EXCEPT !.state = "down", !.slot = NoSlot, !.accepted = FALSE]
  <2>1. tabs[t] \in Page /\ tabs'[t] = IF tabs[t].state = "up" THEN p ELSE tabs[t]
    BY <1>1 DEF Types
  <2>2. p \in Page /\ p.doc = tabs[t].doc /\ p.heard = tabs[t].heard /\ p.state = "down" /\ p.slot = NoSlot /\ ~p.accepted
    BY <2>1 DEF Page
  <2> HIDE DEF p
  <2> QED BY <2>1, <2>2
<1>3. tabs' \in [Tabs -> Page]
  BY <1>1, <1>2
<1>4. socks' \in [Tabs -> [Slots -> Socket]] /\ <<>> \in Seq(Call)
  BY <1>1, VacantIs, Short
<1>5. Types'
  BY <1>1, <1>3, <1>4 DEF Types
<1> QED BY <1>1, <1>2, <1>5

\* The links between pages and sockets: inductive by themselves.
LInv == Types /\ Links

-----------------------------------------------------------------------------
(* Sockets and pages go together *)

\* What is added to a queue leaves its first frame where it is.
LEMMA SameFirst ==
  ASSUME NEW S, NEW q \in Seq(S), NEW r \in Seq(S), q # <<>>
  PROVE  q \o r # <<>> /\ Head(q \o r) = Head(q) /\ Tail(q \o r) = Tail(q) \o r
<1>1. /\ Len(q) \in Nat \ {0} /\ Len(r) \in Nat /\ q \o r \in Seq(S) /\ Len(q \o r) = Len(q) + Len(r)
      /\ \A i \in 1 .. Len(q) + Len(r) : (q \o r)[i] = IF i <= Len(q) THEN q[i] ELSE r[i - Len(q)]
  BY ConcatProperties, LenProperties, EmptySeq
<1>2. q \o r # <<>>
  BY <1>1, EmptySeq
<1>3. /\ Tail(q) \in Seq(S) /\ Len(Tail(q)) = Len(q) - 1 /\ Head(q) = q[1]
      /\ \A i \in 1 .. Len(q) - 1 : Tail(q)[i] = q[i + 1]
  BY HeadTailProperties
<1>4. /\ Tail(q \o r) \in Seq(S) /\ Len(Tail(q \o r)) = Len(q) + Len(r) - 1 /\ Head(q \o r) = (q \o r)[1]
      /\ \A i \in 1 .. Len(q) + Len(r) - 1 : Tail(q \o r)[i] = (q \o r)[i + 1]
  BY <1>1, <1>2, HeadTailProperties
<1>5. /\ Tail(q) \o r \in Seq(S) /\ Len(Tail(q) \o r) = Len(q) - 1 + Len(r)
      /\ \A i \in 1 .. Len(q) - 1 + Len(r) : (Tail(q) \o r)[i] = IF i <= Len(q) - 1 THEN Tail(q)[i] ELSE r[i - (Len(q) - 1)]
  BY <1>3, ConcatProperties
<1>6. Head(q \o r) = Head(q)
  BY <1>1, <1>3, <1>4
<1>7. ASSUME NEW i \in 1 .. Len(q) + Len(r) - 1
      PROVE  Tail(q \o r)[i] = (Tail(q) \o r)[i]
  <2>1. CASE i <= Len(q) - 1
    BY <1>1, <1>3, <1>4, <1>5, <1>7, <2>1
  <2>2. CASE ~(i <= Len(q) - 1)
    <3>1. Tail(q \o r)[i] = (q \o r)[i + 1] /\ i + 1 \in 1 .. Len(q) + Len(r) /\ ~(i + 1 <= Len(q))
      BY <1>1, <1>4, <2>2
    <3>2. (q \o r)[i + 1] = r[i + 1 - Len(q)] /\ (Tail(q) \o r)[i] = r[i - (Len(q) - 1)]
      BY <1>1, <1>5, <2>2, <3>1
    <3>3. i + 1 - Len(q) = i - (Len(q) - 1)
      BY <1>1
    <3> QED BY <3>1, <3>2, <3>3
  <2> QED BY <2>1, <2>2
<1>8. Tail(q \o r) = Tail(q) \o r
  BY <1>1, <1>4, <1>5, <1>7, SeqEqual
<1> QED BY <1>2, <1>6, <1>8

\* A page and its socket change, and no other.
LEMMA OnePage ==
  ASSUME LInv, Types', epoch' = epoch, NEW t \in Tabs, NEW s \in Slots, NEW n \in Socket, NEW p \in Page,
         Turns(t, p), Updates(t, s, n), tabs[t].state = "up" => tabs[t].slot = s, p.state = "up" => p.slot = s,
         SocketOK(n, p, s), PageOK(p, n)
  PROVE  Links'
<1>1. /\ \A u \in Tabs : tabs'[u] = IF u = t THEN p ELSE tabs[u]
      /\ \A u \in Tabs, r \in Slots : socks'[u][r] = IF u = t /\ r = s THEN n ELSE socks[u][r]
  BY UpdatesAt, TurnsAt DEF LInv
<1>2. ASSUME NEW u \in Tabs, u # t
      PROVE  (\A r \in Slots : SocketOK(socks[u][r], tabs[u], r))' /\ PageOK(tabs[u], Sock(u))'
  <2>1. tabs'[u] = tabs[u] /\ \A r \in Slots : socks'[u][r] = socks[u][r]
    BY <1>1, <1>2
  <2>2. (\A r \in Slots : SocketOK(socks[u][r], tabs[u], r)) /\ PageOK(tabs[u], Sock(u))
    BY DEF LInv, Links
  <2>3. tabs[u].state = "up" => Sock(u)' = Sock(u)
    BY <2>1, <2>2 DEF Sock, PageOK
  <2> QED BY <2>1, <2>2, <2>3 DEF SocketOK, PageOK
<1>3. ASSUME NEW r \in Slots
      PROVE  SocketOK(socks[t][r], tabs[t], r)'
  <2>1. CASE r = s
    <3>1. socks'[t][r] = n /\ tabs'[t] = p
      BY <1>1, <2>1
    <3> QED BY <2>1, <3>1 DEF SocketOK
  <2>2. CASE r # s
    <3>1. socks'[t][r] = socks[t][r] /\ SocketOK(socks[t][r], tabs[t], r) /\ ~socks[t][r].live
      BY <1>1, <2>2 DEF LInv, Links, SocketOK
    <3> QED BY <3>1 DEF SocketOK
  <2> QED BY <2>1, <2>2
<1>4. PageOK(tabs[t], Sock(t))'
  <2>1. tabs'[t] = p /\ (p.state = "up" => Sock(t)' = n)
    BY <1>1 DEF Sock
  <2> QED BY <2>1 DEF PageOK
<1> QED BY <1>2, <1>3, <1>4 DEF Links

\* A page changes and no socket does.
LEMMA OnlyPage ==
  ASSUME LInv, Types', epoch' = epoch, NEW t \in Tabs, NEW p \in Page, Turns(t, p), UNCHANGED socks,
         p.state = "up" <=> tabs[t].state = "up", p.slot = tabs[t].slot, p.heard = tabs[t].heard,
         p.accepted = tabs[t].accepted
  PROVE  Links'
<1>1. \A u \in Tabs : /\ tabs'[u].state = "up" <=> tabs[u].state = "up"
                      /\ tabs'[u].slot = tabs[u].slot /\ tabs'[u].heard = tabs[u].heard
                      /\ tabs'[u].accepted = tabs[u].accepted
  BY TurnsAt DEF LInv
<1>2. ASSUME NEW u \in Tabs
      PROVE  (\A r \in Slots : SocketOK(socks[u][r], tabs[u], r))' /\ PageOK(tabs[u], Sock(u))'
  <2>1. (\A r \in Slots : SocketOK(socks[u][r], tabs[u], r)) /\ PageOK(tabs[u], Sock(u))
    BY DEF LInv, Links
  <2>2. Sock(u)' = Sock(u)
    BY <1>1 DEF Sock
  <2> QED BY <1>1, <2>1, <2>2 DEF SocketOK, PageOK
<1> QED BY <1>2 DEF Links

\* What the actor does to a socket: it takes a frame of it or none, sends it frames or none, and
\* may put it out.
Goes(k, n) ==
  /\ n.live = k.live /\ n.born = k.born
  /\ n.code = k.code \/ (Open(k) /\ n.code \in {"reset", "revoked"})
  /\ n.up = k.up \/ (k.up # <<>> /\ n.up = Tail(k.up))
  /\ \E fs \in Seq(DownFrames) :
       ~Has(fs, "HELLO") /\ n.down = IF Open(k) /\ k.live THEN k.down \o fs ELSE k.down

\* What the actor does to a socket keeps it linked to its page.
LEMMA GoesSocket ==
  ASSUME Types, epoch' \in Nat, epoch <= epoch', NEW k \in Socket, NEW n \in Socket, NEW p \in Page, NEW s \in Slots,
         Goes(k, n), SocketOK(k, p, s), Open(n) => epoch' = epoch
  PROVE  SocketOK(n, p, s)' /\ (PageOK(p, k) => PageOK(p, n)')
<1>1. PICK fs \in Seq(DownFrames) :
        ~Has(fs, "HELLO") /\ n.down = IF Open(k) /\ k.live THEN k.down \o fs ELSE k.down
  BY DEF Goes
<1>2. k.down \in Seq(DownFrames) /\ epoch \in Nat /\ k.born \in Nat
  BY DEF Socket, Types
<1>3. Range(k.down \o fs) = Range(k.down) \cup Range(fs)
  BY <1>1, <1>2, Added
<1>4. \A f \in Range(n.down) : f.op = "HELLO" => f \in Range(k.down)
  BY <1>1, <1>3 DEF Has
<1>5. k.down # <<>> => n.down # <<>> /\ Head(n.down) = Head(k.down)
                       /\ (Has(Tail(n.down), "HELLO") => Has(Tail(k.down), "HELLO"))
  <2>1. CASE Open(k) /\ k.live /\ k.down # <<>>
    <3> DEFINE q == k.down
    <3>4. q \in Seq(DownFrames) /\ q # <<>> /\ fs \in Seq(DownFrames) /\ n.down = q \o fs
      BY <1>1, <1>2, <2>1
    <3> HIDE DEF q
    <3>5. q \o fs # <<>> /\ Head(q \o fs) = Head(q) /\ Tail(q \o fs) = Tail(q) \o fs
      BY ONLY <3>4, SameFirst
    <3>6. Tail(q) \in Seq(DownFrames)
      BY ONLY <3>4, FirstAndRest
    <3>7. Range(Tail(q) \o fs) = Range(Tail(q)) \cup Range(fs)
      BY ONLY <3>4, <3>6, Added, ZenonT(60)
    <3>1. n.down # <<>> /\ Head(n.down) = Head(k.down) /\ Tail(n.down) = Tail(k.down) \o fs
      BY <3>4, <3>5 DEF q
    <3>3. Range(Tail(n.down)) = Range(Tail(k.down)) \cup Range(fs)
      BY <3>1, <3>7 DEF q
    <3> QED BY <1>1, <3>1, <3>3 DEF Has
  <2> QED BY <1>1, <2>1
<1>6. Open(n) => Open(k) /\ epoch' = epoch
  BY DEF Goes, Open
<1>7. ~Used(n) => ~Used(k)
  BY DEF Goes, Used, Open
<1>8. n.live = k.live /\ n.born = k.born /\ (~Used(k) => n.up = <<>>) /\ (~k.live => n.down = <<>>)
  BY <1>1 DEF Goes, SocketOK
<1>9. SocketOK(n, p, s)'
  BY <1>2, <1>4, <1>6, <1>7, <1>8 DEF SocketOK
<1>10. PageOK(p, k) => PageOK(p, n)'
  BY <1>2, <1>4, <1>5, <1>8 DEF PageOK, Page, Has
<1> QED BY <1>9, <1>10

\* A step of the actor that treats every socket so keeps all linked.
LEMMA GoesOn ==
  ASSUME LInv, Types', UNCHANGED tabs, epoch <= epoch',
         \A t \in Tabs, s \in Slots :
           Goes(socks[t][s], socks'[t][s]) /\ (Open(socks'[t][s]) => epoch' = epoch)
  PROVE  Links'
<1>1. \A t \in Tabs : tabs[t] \in Page /\ tabs'[t] = tabs[t]
  BY DEF LInv, Types
<1>2. \A t \in Tabs, s \in Slots : socks[t][s] \in Socket /\ socks'[t][s] \in Socket
  BY DEF LInv, Types
<1>3. epoch' \in Nat /\ Types
  BY DEF Types, LInv
<1>4. ASSUME NEW t \in Tabs, NEW s \in Slots
      PROVE  SocketOK(socks[t][s], tabs[t], s)' /\ (PageOK(tabs[t], socks[t][s]) => PageOK(tabs[t], socks[t][s])')
  <2>1. SocketOK(socks[t][s], tabs[t], s)
    BY DEF LInv, Links
  <2> QED BY <1>1, <1>2, <1>3, <2>1, GoesSocket
<1>5. ASSUME NEW t \in Tabs
      PROVE  PageOK(tabs[t], Sock(t))'
  <2>1. PageOK(tabs[t], Sock(t))
    BY DEF LInv, Links
  <2>2. CASE tabs[t].state = "up"
    <3>1. tabs[t].slot \in Slots
      BY <2>1, <2>2 DEF PageOK
    <3> QED BY <1>1, <1>4, <2>1, <3>1 DEF Sock
  <2>3. CASE tabs[t].state # "up"
    BY <1>1, <1>3, <2>1, <2>3 DEF PageOK, LInv, Types, Page
  <2> QED BY <2>2, <2>3
<1> QED BY <1>4, <1>5 DEF Links

\* A page that is up has a socket, and both are as Links says.
LEMMA PageAndSocket ==
  ASSUME LInv, NEW t \in Tabs
  PROVE  /\ tabs[t] \in Page /\ PageOK(tabs[t], Sock(t)) /\ epoch \in Nat
         /\ tabs[t].state = "up" =>
              /\ tabs[t].slot \in Slots /\ Sock(t) = socks[t][tabs[t].slot] /\ Sock(t) \in Socket
              /\ SocketOK(Sock(t), tabs[t], tabs[t].slot)
<1>1. tabs[t] \in Page /\ PageOK(tabs[t], Sock(t)) /\ epoch \in Nat /\ \A s \in Slots : SocketOK(socks[t][s], tabs[t], s)
  BY DEF LInv, Links, Types
<1> QED BY <1>1 DEF PageOK, LInv, Types, Sock

-----------------------------------------------------------------------------
(* The links, action by action *)

\* A keystroke keeps the links.
LEMMA TypeLinks ==
  ASSUME LInv, NEW t \in Tabs, NEW e \in Edits, Type(t, e)
  PROVE  LInv'
<1>1. Types' /\ epoch' = epoch
  BY TypeIs DEF LInv, Type, actor
<1>2. PICK p \in Page :
        /\ Turns(t, p) /\ p.doc = tabs[t].doc \cup {e}
        /\ p.state = tabs[t].state /\ p.slot = tabs[t].slot /\ p.heard = tabs[t].heard
        /\ p.accepted = tabs[t].accepted /\ p.readOnly = tabs[t].readOnly
  BY TypeIs DEF LInv
<1>3. CASE UNCHANGED socks
  BY <1>1, <1>2, <1>3, OnlyPage DEF LInv
<1>4. CASE /\ tabs[t].state = "up"
           /\ \E n \in Socket :
                /\ Updates(t, tabs[t].slot, n) /\ Alike(Sock(t), n) /\ n.down = Sock(t).down
                /\ n.up = IF Open(Sock(t)) THEN Sock(t).up \o <<Write("UPDATE", {e})>> ELSE Sock(t).up
  <2>1. PICK n \in Socket :
          /\ Updates(t, tabs[t].slot, n) /\ Alike(Sock(t), n) /\ n.down = Sock(t).down
          /\ n.up = IF Open(Sock(t)) THEN Sock(t).up \o <<Write("UPDATE", {e})>> ELSE Sock(t).up
    BY <1>4
  <2>2. /\ tabs[t] \in Page /\ PageOK(tabs[t], Sock(t)) /\ tabs[t].slot \in Slots
        /\ SocketOK(Sock(t), tabs[t], tabs[t].slot)
    BY <1>4, PageAndSocket
  <2>3. SocketOK(n, p, tabs[t].slot)
    BY <1>2, <2>1, <2>2 DEF SocketOK, Alike, Open, Used
  <2>4. PageOK(p, n)
    BY <1>2, <2>1, <2>2 DEF PageOK, Alike
  <2>5. p.state = "up" => p.slot = tabs[t].slot
    BY <1>2
  <2>6. Links'
    BY <1>1, <1>2, <2>1, <2>2, <2>3, <2>4, <2>5, OnePage
  <2> QED BY <1>1, <2>6 DEF LInv
<1> QED BY <1>3, <1>4, TypeIs DEF LInv

\* So does a ticket.
LEMMA MintLinks ==
  ASSUME LInv, NEW t \in Tabs, Mint(t)
  PROVE  LInv'
<1>1. Types' /\ epoch' = epoch /\ UNCHANGED socks
  BY MintIs DEF LInv, Mint, actor
<1>2. PICK p \in Page :
        /\ Turns(t, p) /\ p.doc = tabs[t].doc /\ tabs[t].state # "up" /\ p.state # "up"
        /\ p.slot = tabs[t].slot /\ p.heard = tabs[t].heard /\ p.accepted = tabs[t].accepted
  BY MintIs DEF LInv
<1>3. Links'
  BY <1>1, <1>2, OnlyPage
<1> QED BY <1>1, <1>3 DEF LInv

\* A page that connects has a socket with the greeting first on it.
LEMMA ConnectLinks ==
  ASSUME LInv, NEW t \in Tabs, Connect(t)
  PROVE  LInv'
<1> DEFINE f == [op |-> "HELLO", epoch |-> epoch, has |-> doc]
<1>1. Types' /\ epoch' = epoch
  BY ConnectIs DEF LInv, Connect
<1>2. PICK s \in Slots : \E n \in Socket, p \in Page :
        /\ Turns(t, p) /\ Updates(t, s, n) /\ ~Used(socks[t][s]) /\ tabs[t].state # "up"
        /\ p.doc = tabs[t].doc /\ p.state = "up" /\ p.slot = s /\ p.heard = tabs[t].heard
        /\ ~p.accepted
        /\ Open(n) /\ n.live /\ n.born = epoch /\ n.up = <<>>
        /\ n.canWrite => row.tier[t] = "write"
        /\ n.down = <<f>>
  BY ConnectIs DEF LInv
<1>3. PICK n \in Socket : \E p \in Page :
        /\ Turns(t, p) /\ Updates(t, s, n) /\ tabs[t].state # "up"
        /\ p.state = "up" /\ p.slot = s /\ p.heard = tabs[t].heard /\ ~p.accepted
        /\ Open(n) /\ n.live /\ n.born = epoch /\ n.up = <<>> /\ n.down = <<f>>
  BY <1>2
<1>4. PICK p \in Page :
        /\ Turns(t, p) /\ Updates(t, s, n) /\ tabs[t].state # "up"
        /\ p.state = "up" /\ p.slot = s /\ p.heard = tabs[t].heard /\ ~p.accepted
        /\ Open(n) /\ n.live /\ n.born = epoch /\ n.up = <<>> /\ n.down = <<f>>
  BY <1>3
<1>5. Range(<<f>>) = {f} /\ Head(<<f>>) = f /\ Tail(<<f>>) = <<>> /\ Range(<<>>) = {} /\ <<f>> # <<>>
  BY DEF Range
<1>6. tabs[t].heard # NoEpoch => tabs[t].heard <= epoch
  BY PageAndSocket DEF PageOK
<1>7. epoch \in Nat /\ f.op = "HELLO" /\ f.epoch = epoch
  BY DEF LInv, Types
<1> HIDE DEF f
<1>8. SocketOK(n, p, s)
  BY <1>4, <1>5, <1>7 DEF SocketOK, Used, Open
<1>9. PageOK(p, n)
  BY <1>4, <1>5, <1>6, <1>7 DEF PageOK, Has
<1>10. Links'
  BY <1>1, <1>4, <1>8, <1>9, OnePage
<1> QED BY <1>1, <1>10 DEF LInv

\* A page that hears a frame goes by it, loads again or stays.
LEMMA HearsLinks ==
  ASSUME LInv, NEW t \in Tabs, Hears(t)
  PROVE  LInv'
<1> DEFINE k == Sock(t)
           f == Head(k.down)
           s == tabs[t].slot
<1>1. Types' /\ epoch' = epoch /\ tabs[t].state = "up" /\ k.down # <<>>
  BY HearsIs DEF LInv, Hears, actor
<1>2. PICK n \in Socket : \E p \in Page :
        Turns(t, p) /\ Updates(t, s, n) /\ (Accepts(t, f, n, p) \/ Reloads(t, n, p) \/ Merges(t, f, n, p))
  BY HearsIs DEF LInv
<1>3. PICK p \in Page :
        Turns(t, p) /\ Updates(t, s, n) /\ (Accepts(t, f, n, p) \/ Reloads(t, n, p) \/ Merges(t, f, n, p))
  BY <1>2
<1>4. /\ tabs[t] \in Page /\ PageOK(tabs[t], k) /\ s \in Slots /\ k \in Socket /\ SocketOK(k, tabs[t], s)
  BY <1>1, PageAndSocket
<1>5. f \in Range(k.down) /\ Range(Tail(k.down)) \subseteq Range(k.down) /\ k.down \in Seq(DownFrames)
      /\ (Tail(k.down) # <<>> => Range(Tail(k.down)) # {})
  <2>1. k.down \in Seq(DownFrames)
    BY <1>4 DEF Socket
  <2>2. f \in DownFrames /\ Tail(k.down) \in Seq(DownFrames) /\ Range(k.down) = {f} \cup Range(Tail(k.down))
    BY <1>1, <2>1, FirstAndRest
  <2> QED BY <2>1, <2>2, Holds
<1>6. Range(<<>>) = {} /\ epoch \in Nat /\ k.born \in Nat
  BY <1>4, Short DEF Range, LInv, Types, Socket
<1> HIDE DEF k, f, s
<1>7. CASE Accepts(t, f, n, p)
  <2>1. f.op = "HELLO" /\ f.epoch = k.born /\ ~Has(n.down, "HELLO")
    BY <1>1, <1>4, <1>5, <1>7 DEF Accepts, SocketOK, PageOK, Has, k, f
  <2>2. Alike(k, n) /\ n.down = Tail(k.down) /\ p.state = "up" /\ p.slot = s /\ p.heard = k.born /\ p.accepted
    BY <1>7, <2>1 DEF Accepts, k, s
  <2>3. (~Open(k) => n.up = k.up) /\ (Used(n) <=> Used(k)) /\ (Open(n) <=> Open(k)) /\ (Open(k) => Used(k)) /\ k.live
    BY <1>1, <1>4, <1>7, <2>2 DEF Accepts, k, Alike, Used, Open, PageOK
  <2>4. SocketOK(n, p, s)
    BY <1>1, <1>4, <1>5, <2>2, <2>3 DEF SocketOK, Alike
  <2>5. PageOK(p, n)
    BY <1>1, <1>4, <1>6, <2>1, <2>2, <2>3 DEF PageOK, Alike, SocketOK
  <2>6. Links'
    BY <1>1, <1>3, <1>4, <2>2, <2>4, <2>5, OnePage DEF s
  <2> QED BY <1>1, <2>6 DEF LInv
<1>8. CASE Reloads(t, n, p)
  <2>1. SocketOK(n, p, s)
    BY <1>4, <1>6, <1>8 DEF SocketOK, Reloads, k, Used, Open
  <2>2. PageOK(p, n) /\ p.state # "up"
    BY <1>8 DEF PageOK, Reloads
  <2>3. Links'
    BY <1>1, <1>3, <1>4, <2>1, <2>2, OnePage DEF s
  <2> QED BY <1>1, <2>3 DEF LInv
<1>9. CASE Merges(t, f, n, p)
  <2>1. Alike(k, n) /\ n.down = Tail(k.down) /\ n.up = k.up /\ p.state = "up" /\ p.slot = s
        /\ p.heard = tabs[t].heard /\ p.accepted = tabs[t].accepted /\ f.op # "HELLO"
    BY <1>9 DEF Merges, k, s
  <2>2. p.accepted /\ k.live
    BY <1>1, <1>4, <2>1 DEF PageOK, f
  <2>3. SocketOK(n, p, s)
    BY <1>1, <1>4, <1>5, <2>1, <2>2 DEF SocketOK, Alike, Used, Open
  <2>4. PageOK(p, n)
    BY <1>1, <1>4, <1>5, <2>1, <2>2 DEF PageOK, Alike, Has
  <2>5. Links'
    BY <1>1, <1>3, <1>4, <2>1, <2>3, <2>4, OnePage DEF s
  <2> QED BY <1>1, <2>5 DEF LInv
<1> QED BY <1>3, <1>7, <1>8, <1>9

\* A page that leaves is down, and its socket deaf.
LEMMA LeavesLinks ==
  ASSUME LInv, NEW t \in Tabs, HearsClose(t) \/ LinkDies(t)
  PROVE  LInv'
<1> DEFINE k == Sock(t)
           s == tabs[t].slot
<1>1. Types' /\ epoch' = epoch /\ tabs[t].state = "up"
  BY LeavesIs DEF LInv, HearsClose, LinkDies, actor
<1>2. PICK n \in Socket : \E p \in Page :
        /\ Turns(t, p) /\ Updates(t, s, n)
        /\ p.state # "up" /\ p.slot = NoSlot /\ p.heard = tabs[t].heard /\ ~p.accepted
        /\ n.code = k.code /\ n.born = k.born /\ n.up = k.up /\ ~n.live /\ n.down = <<>>
  BY LeavesIs DEF LInv
<1>3. PICK p \in Page :
        /\ Turns(t, p) /\ Updates(t, s, n)
        /\ p.state # "up" /\ p.slot = NoSlot /\ p.heard = tabs[t].heard /\ ~p.accepted
        /\ n.code = k.code /\ n.born = k.born /\ n.up = k.up /\ ~n.live /\ n.down = <<>>
  BY <1>2
<1>4. /\ PageOK(tabs[t], k) /\ s \in Slots /\ SocketOK(k, tabs[t], s)
  BY <1>1, PageAndSocket
<1>5. Range(<<>>) = {}
  BY Short DEF Range
<1> HIDE DEF k, s
<1>6. SocketOK(n, p, s)
  BY <1>3, <1>4, <1>5 DEF SocketOK, Used, Open
<1>7. PageOK(p, n)
  BY <1>3, <1>4 DEF PageOK
<1>8. Links'
  BY <1>1, <1>3, <1>4, <1>6, <1>7, OnePage DEF s
<1> QED BY <1>1, <1>8 DEF LInv

\* A socket that does not change goes on.
LEMMA Stays ==
  ASSUME NEW k \in Socket
  PROVE  Goes(k, k) /\ k.down \o <<>> = k.down /\ <<>> \in Seq(DownFrames)
<1>1. k.down \o <<>> = k.down
  BY ConcatEmptySeq DEF Socket
<1>2. <<>> \in Seq(DownFrames) /\ ~Has(<<>>, "HELLO")
  BY Short DEF Has, Range
<1> QED BY <1>1, <1>2 DEF Goes

\* What the actor sends says no generation but to whom connects.
LEMMA NoGreeting ==
  ASSUME Types
  PROVE  /\ <<>> \in Seq(DownFrames) /\ ~Has(<<>>, "HELLO")
         /\ \A f \in DownFrames : f.op # "HELLO" => <<f>> \in Seq(DownFrames) /\ ~Has(<<f>>, "HELLO")
         /\ \A kind \in {"locked", "trashed", "epoch", "acl", "limit"} :
              /\ <<Refusal(kind)>> \in Seq(DownFrames) /\ ~Has(<<Refusal(kind)>>, "HELLO")
              /\ <<Refusal(kind), Reset>> \in Seq(DownFrames) /\ ~Has(<<Refusal(kind), Reset>>, "HELLO")
<1>1. <<>> \in Seq(DownFrames) /\ Range(<<>>) = {}
  BY Short
<1>2. \A f \in DownFrames : <<f>> \in Seq(DownFrames) /\ Range(<<f>>) = {f}
  BY Short
<1>3. \A f, g \in DownFrames : <<f, g>> \in Seq(DownFrames) /\ Range(<<f, g>>) = {f, g}
  BY Short
<1>4. Reset \in DownFrames /\ Reset.op = "RESET"
  BY SentAre DEF Reset
<1>5. \A kind \in {"locked", "trashed", "epoch", "acl", "limit"} : Refusal(kind) \in DownFrames /\ Refusal(kind).op = "REFUSED"
  BY SentAre DEF Refusal
<1> QED BY <1>1, <1>2, <1>3, <1>4, <1>5 DEF Has

\* A socket with frames added that say no generation goes on.
LEMMA ToldGoes ==
  ASSUME NEW k \in Socket, NEW n \in Socket, NEW fs \in Seq(DownFrames), ~Has(fs, "HELLO"),
         n.up = k.up \/ (k.up # <<>> /\ n.up = Tail(k.up)),
         (n.code = k.code /\ Told(k, n, fs)) \/ PutOut(k, n, fs)
  PROVE  Goes(k, n)
BY DEF Goes, Told, PutOut

\* One socket goes on.
LEMMA OneGoes ==
  ASSUME LInv, Types', UNCHANGED <<tabs, epoch>>, NEW t \in Tabs, NEW s \in Slots, NEW n \in Socket,
         Updates(t, s, n), Goes(socks[t][s], n)
  PROVE  LInv'
<1>1. \A u \in Tabs, r \in Slots : socks'[u][r] = IF u = t /\ r = s THEN n ELSE socks[u][r]
  BY UpdatesAt DEF LInv
<1>2. \A u \in Tabs, r \in Slots : Goes(socks[u][r], socks'[u][r]) /\ (Open(socks'[u][r]) => epoch' = epoch)
  BY <1>1, Stays DEF LInv, Types
<1>3. epoch <= epoch' /\ UNCHANGED tabs
  BY DEF LInv, Types
<1>4. Links'
  BY <1>2, <1>3, GoesOn
<1> QED BY <1>4 DEF LInv

\* An acknowledgement keeps the links.
LEMMA AckLinks ==
  ASSUME LInv, NEW t \in Tabs, NEW s \in Slots, HandleAck(t, s)
  PROVE  LInv'
<1> DEFINE k == socks[t][s]
<1>1. /\ Types' /\ UNCHANGED <<tabs, epoch>> /\ k \in Socket /\ k.up # <<>> /\ Types
      /\ \E n \in Socket :
           /\ Updates(t, s, n) /\ n.up = Tail(k.up) /\ n.canWrite = k.canWrite
           /\ \/ n.code = k.code /\ Told(k, n, <<>>)
              \/ PutOut(k, n, <<Refusal("epoch"), Reset>>)
  <2>1. Types /\ k \in Socket
    BY DEF LInv, Types
  <2>2. UNCHANGED <<tabs, epoch>>
    BY DEF HandleAck, actor
  <2> QED BY <2>1, <2>2, AckIs
<1>2. PICK n \in Socket :
        /\ Updates(t, s, n) /\ n.up = Tail(k.up)
        /\ \/ n.code = k.code /\ Told(k, n, <<>>)
           \/ PutOut(k, n, <<Refusal("epoch"), Reset>>)
  BY <1>1
<1> HIDE DEF k
<1>3. Goes(k, n)
  BY <1>1, <1>2, NoGreeting, ToldGoes
<1> QED BY <1>1, <1>2, <1>3, OneGoes DEF k

\* So does the answer to a state vector.
LEMMA Step1Links ==
  ASSUME LInv, NEW t \in Tabs, NEW s \in Slots, HandleStep1(t, s)
  PROVE  LInv'
<1> DEFINE k == socks[t][s]
<1>1. /\ Types' /\ UNCHANGED <<tabs, epoch>> /\ k \in Socket /\ k.up # <<>> /\ Types
  <2>1. Types /\ k \in Socket
    BY DEF LInv, Types
  <2>2. UNCHANGED <<tabs, epoch>>
    BY DEF HandleStep1, actor
  <2>3. Types' /\ k.up # <<>>
    BY <2>1, Step1Is
  <2> QED BY <2>1, <2>2, <2>3
<1>2. PICK n \in Socket : \E f \in DownFrames :
        Updates(t, s, n) /\ n.up = Tail(k.up) /\ n.code = k.code /\ Told(k, n, <<f>>) /\ f.op = "SYNC"
  BY Step1Is DEF LInv
<1>3. PICK f \in DownFrames :
        Updates(t, s, n) /\ n.up = Tail(k.up) /\ n.code = k.code /\ Told(k, n, <<f>>) /\ f.op = "SYNC"
  BY <1>2
<1> HIDE DEF k
<1>4. Goes(k, n)
  BY <1>1, <1>3, NoGreeting, ToldGoes
<1> QED BY <1>1, <1>3, <1>4, OneGoes DEF k

\* A refusal puts out a socket that is open, or leaves it as it is.
LEMMA RefusedLinks ==
  ASSUME LInv, NEW t \in Tabs, NEW s \in Slots, Given(t, s, "STEP2") \/ Given(t, s, "UPDATE"),
         NEW kind \in {"locked", "trashed", "epoch", "acl", "limit"}, HandleRefused(t, s, kind)
  PROVE  LInv'
<1> DEFINE k == socks[t][s]
<1>1. /\ Types' /\ UNCHANGED <<tabs, epoch>> /\ k \in Socket /\ k.up # <<>> /\ Types
  <2>1. Types
    BY DEF LInv
  <2>2. UNCHANGED <<tabs, epoch>>
    BY DEF HandleRefused, actor
  <2>3. Types' /\ k \in Socket /\ k.up # <<>>
    BY <2>1, RefusedIs, GivenIs, SMTT(30)
  <2> QED BY <2>1, <2>2, <2>3
<1>2. PICK n \in Socket :
        /\ Updates(t, s, n) /\ n.up = Tail(k.up)
        /\ \/ n.code = k.code /\ Told(k, n, <<>>)
           \/ n.code = k.code /\ Told(k, n, <<Refusal(kind)>>)
           \/ PutOut(k, n, <<Refusal(kind), Reset>>)
  BY RefusedIs DEF LInv
<1> HIDE DEF k
<1>3. Goes(k, n)
  BY <1>1, <1>2, NoGreeting, ToldGoes
<1> QED BY <1>1, <1>2, <1>3, OneGoes DEF k

\* The fan-out of a write keeps the links.
LEMMA AppliedLinks ==
  ASSUME LInv, NEW t \in Tabs, NEW s \in Slots, Given(t, s, "STEP2") \/ Given(t, s, "UPDATE"), HandleApplied(t, s)
  PROVE  LInv'
<1> DEFINE f == Head(socks[t][s].up)
           g == Write("UPDATE", f.edits)
<1>1. /\ Types' /\ UNCHANGED <<tabs, epoch>> /\ Types /\ g \in DownFrames /\ socks[t][s].up # <<>>
  BY AppliedIs, GivenIs DEF LInv, HandleApplied
<1>2. g.op # "HELLO"
  BY DEF Write
<1>3. \A u \in Tabs, r \in Slots :
        /\ Alike(socks[u][r], socks'[u][r])
        /\ u = t /\ r = s => /\ socks'[u][r].up = Tail(socks[u][r].up)
                             /\ socks'[u][r].down = socks[u][r].down
        /\ ~(u = t /\ r = s) => /\ socks'[u][r].up = socks[u][r].up
                                /\ Told(socks[u][r], socks'[u][r], <<g>>)
  BY <1>1, AppliedIs
<1> HIDE DEF g
<1>4. ASSUME NEW u \in Tabs, NEW r \in Slots
      PROVE  Goes(socks[u][r], socks'[u][r])
  <2> DEFINE k == socks[u][r]
             n == socks'[u][r]
  <2>1. k \in Socket /\ n \in Socket
    BY <1>1 DEF Types
  <2>2. n.code = k.code
    BY <1>3 DEF Alike
  <2>3. CASE u = t /\ r = s
    <3>1. n.up = Tail(k.up) /\ k.up # <<>> /\ Told(k, n, <<>>)
      BY <1>1, <1>3, <2>1, <2>3, Stays DEF Told, Alike
    <3> HIDE DEF k, n
    <3> QED BY <1>1, <2>1, <2>2, <3>1, NoGreeting, ToldGoes DEF k, n
  <2>4. CASE ~(u = t /\ r = s)
    <3>1. n.up = k.up /\ Told(k, n, <<g>>)
      BY <1>3, <2>4
    <3> HIDE DEF k, n
    <3> QED BY <1>1, <1>2, <2>1, <2>2, <3>1, NoGreeting, ToldGoes DEF k, n
  <2> QED BY <2>3, <2>4
<1>5. epoch <= epoch' /\ UNCHANGED tabs /\ epoch' = epoch
  BY <1>1 DEF Types
<1>6. Links'
  BY <1>1, <1>4, <1>5, GoesOn
<1> QED BY <1>1, <1>6 DEF LInv

\* So does a write, whatever becomes of it.
LEMMA WriteLinks ==
  ASSUME LInv, NEW t \in Tabs, NEW s \in Slots, HandleWrite(t, s)
  PROVE  LInv'
<1> DEFINE k == socks[t][s]
           f == Head(k.up)
<1>1. /\ Given(t, s, "STEP2") \/ Given(t, s, "UPDATE")
      /\ UNCHANGED <<row, calls, asked, saved, epoch, locked, trashed, versions, tabs, typed, early, lost>>
      /\ \/ \E kind \in {"locked", "trashed", "epoch", "acl", "limit"} : HandleRefused(t, s, kind)
         \/ f.edits \subseteq doc /\ Updates(t, s, Taken(t, s)) /\ UNCHANGED <<doc, undone, refused>>
         \/ HandleApplied(t, s)
  BY WriteIs DEF LInv
<1>2. CASE \E kind \in {"locked", "trashed", "epoch", "acl", "limit"} : HandleRefused(t, s, kind)
  BY <1>1, <1>2, RefusedLinks
<1>3. CASE Updates(t, s, Taken(t, s)) /\ UNCHANGED <<doc, undone, refused>>
  <2>1. Types'
    BY <1>1, <1>3, TakenOnly DEF LInv
  <2>2. /\ k \in Socket /\ k.up # <<>>
        /\ Taken(t, s) \in Socket /\ Alike(k, Taken(t, s)) /\ Taken(t, s).down = k.down /\ Taken(t, s).up = Tail(k.up)
    BY <1>1, GivenIs DEF LInv
  <2> HIDE DEF k
  <2>3. Goes(k, Taken(t, s))
    <3>1. Told(k, Taken(t, s), <<>>) /\ Taken(t, s).code = k.code
      BY <2>2, Stays DEF Told, Alike
    <3> QED BY <2>2, <3>1, NoGreeting, ToldGoes DEF LInv
  <2> QED BY <1>1, <1>3, <2>1, <2>2, <2>3, OneGoes DEF k
<1>4. CASE HandleApplied(t, s)
  BY <1>1, <1>4, AppliedLinks
<1> QED BY <1>1, <1>2, <1>3, <1>4

\* A forgotten socket is nobody's.
LEMMA DepartsLinks ==
  ASSUME LInv, NEW t \in Tabs, NEW s \in Slots, Departs(t, s)
  PROVE  LInv'
<1>1. Types' /\ ~socks[t][s].live /\ Updates(t, s, Vacant) /\ UNCHANGED <<epoch, tabs>>
  BY DepartsIs DEF LInv
<1>2. \A u \in Tabs, r \in Slots : socks'[u][r] = IF u = t /\ r = s THEN Vacant ELSE socks[u][r]
  BY <1>1, UpdatesAt, VacantIs DEF LInv
<1>3. ASSUME NEW u \in Tabs, NEW r \in Slots
      PROVE  SocketOK(socks[u][r], tabs[u], r)'
  <2>1. SocketOK(socks[u][r], tabs[u], r) /\ epoch \in Nat
    BY DEF LInv, Links, Types
  <2>2. CASE u = t /\ r = s
    BY <1>1, <1>2, <2>1, <2>2, VacantIs DEF SocketOK, Vacant, Open, Used
  <2>3. CASE ~(u = t /\ r = s)
    BY <1>1, <1>2, <2>1, <2>3 DEF SocketOK
  <2> QED BY <2>2, <2>3
<1>4. ASSUME NEW u \in Tabs
      PROVE  PageOK(tabs[u], Sock(u))'
  <2>1. PageOK(tabs[u], Sock(u)) /\ (tabs[u].state = "up" => tabs[u].slot \in Slots /\ Sock(u).live)
    BY DEF LInv, Links, PageOK
  <2>2. tabs[u].state = "up" => Sock(u)' = Sock(u)
    BY <1>1, <1>2, <2>1 DEF Sock
  <2> QED BY <1>1, <2>1, <2>2 DEF PageOK
<1> QED BY <1>1, <1>3, <1>4 DEF LInv, Links

\* A restore leaves no socket open, so none of an older generation is.
LEMMA RestoreLinks ==
  ASSUME LInv, NEW v, Restore(v)
  PROVE  LInv'
<1>1. Types' /\ Types /\ UNCHANGED tabs /\ epoch' = epoch + 1
  BY RestoreIs DEF LInv
<1>2. ASSUME NEW t \in Tabs, NEW s \in Slots
      PROVE  Goes(socks[t][s], socks'[t][s]) /\ ~Open(socks'[t][s])
  <2> DEFINE k == socks[t][s]
             n == socks'[t][s]
  <2>1. k \in Socket /\ n \in Socket
    BY <1>1 DEF Types
  <2>2. n.up = k.up /\ (~Open(k) => n = k) /\ (Open(k) => PutOut(k, n, <<Reset>>))
    BY RestoreIs DEF LInv
  <2>3. Reset \in DownFrames /\ Reset.op # "HELLO"
    BY <1>1, SentAre DEF Reset
  <2>4. <<Reset>> \in Seq(DownFrames) /\ ~Has(<<Reset>>, "HELLO")
    BY <1>1, <2>3, NoGreeting
  <2> HIDE DEF k, n
  <2>5. Goes(k, n)
    BY <2>1, <2>2, <2>4, Stays, ToldGoes
  <2>6. ~Open(n)
    BY <2>2 DEF PutOut, Open
  <2> QED BY <2>5, <2>6 DEF k, n
<1>3. epoch <= epoch'
  BY <1>1 DEF Types
<1>4. Links'
  BY <1>1, <1>2, <1>3, GoesOn
<1> QED BY <1>1, <1>4 DEF LInv

\* The node's call keeps the links.
LEMMA DeliverLinks ==
  ASSUME LInv, Deliver
  PROVE  LInv'
<1>1. Types' /\ Types /\ UNCHANGED <<tabs, epoch>>
  BY DeliverIs DEF LInv
<1>2. ASSUME NEW t \in Tabs, NEW s \in Slots
      PROVE  Goes(socks[t][s], socks'[t][s])
  <2> DEFINE k == socks[t][s]
             n == socks'[t][s]
  <2>1. k \in Socket /\ n \in Socket
    BY <1>1 DEF Types
  <2>2. /\ n.up = k.up
        /\ \/ n.code = k.code /\ Told(k, n, <<>>)
           \/ n.code = "revoked" /\ PutOut(k, n, <<>>)
           \/ \E f \in DownFrames : n.code = k.code /\ Told(k, n, <<f>>) /\ f.op = "STATE"
    BY DeliverIs, ZenonT(60) DEF LInv
  <2> HIDE DEF k, n
  <2>3. Goes(k, n)
    <3>1. CASE (n.code = k.code /\ Told(k, n, <<>>)) \/ PutOut(k, n, <<>>)
      BY <1>1, <2>1, <2>2, <3>1, NoGreeting, ToldGoes
    <3>2. CASE \E f \in DownFrames : n.code = k.code /\ Told(k, n, <<f>>) /\ f.op = "STATE"
      <4>1. PICK f \in DownFrames : n.code = k.code /\ Told(k, n, <<f>>) /\ f.op = "STATE"
        BY <3>2
      <4>2. <<f>> \in Seq(DownFrames) /\ ~Has(<<f>>, "HELLO")
        BY <1>1, <4>1, NoGreeting
      <4> QED BY <2>1, <2>2, <4>1, <4>2, ToldGoes
    <3> QED BY <2>2, <3>1, <3>2
  <2> QED BY <2>3 DEF k, n
<1>3. epoch <= epoch' /\ UNCHANGED tabs /\ epoch' = epoch
  BY <1>1 DEF Types
<1>4. Links'
  BY <1>1, <1>2, <1>3, GoesOn
<1> QED BY <1>1, <1>4 DEF LInv

\* After a crash there are no sockets, and no page is up.
LEMMA CrashLinks ==
  ASSUME LInv, Crash
  PROVE  LInv'
<1>1. /\ Types' /\ epoch' = epoch /\ epoch \in Nat
      /\ \A t \in Tabs, s \in Slots : socks'[t][s] = Vacant
      /\ \A t \in Tabs :
           /\ tabs'[t].heard = tabs[t].heard
           /\ tabs[t].state # "up" => tabs'[t] = tabs[t]
           /\ tabs[t].state = "up" => tabs'[t].state # "up" /\ tabs'[t].slot = NoSlot /\ ~tabs'[t].accepted
  BY CrashIs DEF LInv, Types
<1>2. ASSUME NEW t \in Tabs, NEW s \in Slots
      PROVE  SocketOK(socks[t][s], tabs[t], s)'
  BY <1>1, VacantIs DEF SocketOK, Vacant, Open, Used
<1>3. ASSUME NEW t \in Tabs
      PROVE  PageOK(tabs[t], Sock(t))'
  <2>1. PageOK(tabs[t], Sock(t))
    BY DEF LInv, Links
  <2>2. tabs'[t].state # "up" /\ tabs'[t].slot = NoSlot /\ ~tabs'[t].accepted /\ tabs'[t].heard = tabs[t].heard
    BY <1>1, <2>1 DEF PageOK
  <2> QED BY <1>1, <2>1, <2>2 DEF PageOK
<1> QED BY <1>1, <1>2, <1>3 DEF LInv, Links

\* At first there are no sockets.
LEMMA InitLinks == Init => LInv
<1> SUFFICES ASSUME Init PROVE LInv
  OBVIOUS
<1>1. Vacant \in Socket /\ Range(Vacant.up) = {} /\ Range(Vacant.down) = {}
  BY VacantIs
<1>2. FreshTab \in Page
  BY DEF FreshTab, Page, Content, TierNames
<1>3. calls \in Seq(Call)
  BY Short DEF Init
<1>4. row \in Row
  BY DEF Init, Row, TierNames
<1>5. Types
  BY <1>1, <1>2, <1>3, <1>4 DEF Init, Types, Content
<1>6. Links
  BY <1>1, <1>5 DEF Init, Links, SocketOK, PageOK, Vacant, FreshTab, Open, Used
<1> QED BY <1>5, <1>6 DEF LInv

\* What every step keeps of the sockets and the pages.
LEMMA LinksHold == LInv /\ [Next]_vars => LInv'
<1> SUFFICES ASSUME LInv, [Next]_vars PROVE LInv'
  OBVIOUS
<1>1. ASSUME NEW t \in Tabs, NEW e \in Edits, Type(t, e) PROVE LInv'
  BY <1>1, TypeLinks
<1>2. ASSUME NEW t \in Tabs, Mint(t) \/ Connect(t) \/ Hears(t) \/ HearsClose(t) \/ LinkDies(t) PROVE LInv'
  BY <1>2, MintLinks, ConnectLinks, HearsLinks, LeavesLinks
<1>3. ASSUME NEW t \in Tabs, NEW s \in Slots, Handle(t, s) \/ Departs(t, s) PROVE LInv'
  BY <1>3, AckLinks, Step1Links, WriteLinks, DepartsLinks DEF Handle
<1>4. ASSUME NEW t \in Tabs, NEW what \in Flips, NEW tier \in Tiers, Flip(what, t, tier) PROVE LInv'
  <2>1. Types' /\ UNCHANGED <<epoch, socks, tabs>>
    BY <1>4, FlipIs DEF LInv
  <2> QED BY <2>1, SMTT(30) DEF LInv, Links, SocketOK, PageOK, Sock
<1>5. ASSUME NEW v \in Content, AskRestore(v) \/ Restore(v) PROVE LInv'
  <2>1. CASE AskRestore(v)
    <3>1. Types' /\ UNCHANGED <<epoch, socks, tabs>>
      BY <2>1, AskRestoreIs DEF LInv
    <3> QED BY <3>1, SMTT(30) DEF LInv, Links, SocketOK, PageOK, Sock
  <2> QED BY <1>5, <2>1, RestoreLinks
<1>6. CASE Save
  <2>1. Types' /\ UNCHANGED <<epoch, socks, tabs>>
    BY <1>6, SaveIs DEF LInv
  <2> QED BY <2>1, SMTT(30) DEF LInv, Links, SocketOK, PageOK, Sock
<1>7. CASE Deliver \/ Crash
  BY <1>7, DeliverLinks, CrashLinks
<1>8. CASE UNCHANGED vars
  <2>1. UNCHANGED <<epoch, socks, tabs>>
    BY <1>8 DEF vars, node, actor
  <2>2. Types'
    BY <1>8 DEF LInv, Types, vars, node, actor, seen
  <2> QED BY <2>1, <2>2, SMTT(30) DEF LInv, Links, SocketOK, PageOK, Sock
<1> QED BY <1>1, <1>2, <1>3, <1>4, <1>5, <1>6, <1>7, <1>8 DEF Next

-----------------------------------------------------------------------------
(* What pages and sockets hold *)

\* The edits a frame carries, and those a queue does.
Carries(f) == IF f.op \in {"STEP2", "UPDATE", "SYNC"} THEN f.edits ELSE {}
\* What a queue carries in all.
Carried(q) == UNION {Carries(f) : f \in Range(q)}

\* What a restore took out is in no document that is kept.
Documents ==
  /\ doc \cap undone = {} /\ saved \cap undone = {}
  /\ asked \subseteq versions /\ \A v \in versions : v \subseteq typed
  /\ doc \subseteq typed /\ saved \subseteq typed /\ undone \subseteq typed /\ early \subseteq typed

\* A socket of the present generation carries nothing of what a restore took out, but what its page
\* may send of any generation; and what an open one brings is in the document.
SocketContent(k) ==
  /\ Carried(k.up) \subseteq typed /\ Carried(k.down) \subseteq typed
  /\ k.born = epoch => Carried(k.up) \cap undone \subseteq early /\ Carried(k.down) \cap undone = {}
  /\ Open(k) => /\ Carried(k.down) \subseteq doc
                /\ \A f \in Range(k.down) : f.op = "HELLO" => f.has \subseteq doc

\* Nor does a page of the present generation.  Between a page that goes by its socket's generation
\* and the document there is what was refused, what is on its way, and what is yet to be asked for.
PageContent(p, k, gone) ==
  /\ p.doc \subseteq typed /\ gone \subseteq typed
  /\ p.heard = NoEpoch => p.doc \subseteq early
  /\ p.heard = epoch => p.doc \cap undone \subseteq early
  /\ p.state = "up" /\ Open(k) =>
       /\ Carried(k.up) \subseteq p.doc
       /\ \A f \in Range(k.up) : f.op = "STEP1" => f.has \subseteq p.doc
       /\ p.accepted => p.doc \subseteq doc \cup gone \cup Carried(k.up)
       /\ p.accepted /\ ~Has(k.up, "STEP1") => doc \subseteq p.doc \cup Carried(k.down)

\* Every document, every socket and every page.
Contents ==
  /\ Documents
  /\ \A t \in Tabs : /\ \A s \in Slots : SocketContent(socks[t][s])
                     /\ PageContent(tabs[t], Sock(t), refused[t])

\* The invariant about contents: with the links, inductive.
CInv == LInv /\ Contents

\* What queues carry.
LEMMA CarriedIs ==
  ASSUME NEW S
  PROVE  /\ Carried(<<>>) = {}
         /\ \A f \in S : Carried(<<f>>) = Carries(f)
         /\ \A f, g \in S : Carried(<<f, g>>) = Carries(f) \cup Carries(g)
         /\ \A f, g, h \in S : Carried(<<f, g, h>>) = Carries(f) \cup Carries(g) \cup Carries(h)
<1>1. Carried(<<>>) = {}
  BY Short DEF Carried
<1>2. ASSUME NEW f \in S PROVE Carried(<<f>>) = Carries(f)
  <2>1. Range(<<f>>) = {f}
    BY Short
  <2> QED BY <2>1 DEF Carried
<1>3. ASSUME NEW f \in S, NEW g \in S PROVE Carried(<<f, g>>) = Carries(f) \cup Carries(g)
  <2>1. Range(<<f, g>>) = {f, g}
    BY Short
  <2> QED BY <2>1 DEF Carried
<1>4. ASSUME NEW f \in S, NEW g \in S, NEW h \in S
      PROVE  Carried(<<f, g, h>>) = Carries(f) \cup Carries(g) \cup Carries(h)
  <2>1. Range(<<f, g, h>>) = {f, g, h}
    BY Short
  <2> QED BY <2>1 DEF Carried
<1> QED BY <1>1, <1>2, <1>3, <1>4

\* What two queues carry.
LEMMA CarriedBoth ==
  ASSUME NEW S, NEW q \in Seq(S), NEW r \in Seq(S)
  PROVE  Carried(q \o r) = Carried(q) \cup Carried(r)
<1>1. Range(q \o r) = Range(q) \cup Range(r)
  BY Added
<1> QED BY <1>1 DEF Carried

\* What a queue carries is in its first frame or in the rest.
LEMMA CarriedFirst ==
  ASSUME NEW S, NEW q \in Seq(S), q # <<>>
  PROVE  Carried(q) = Carries(Head(q)) \cup Carried(Tail(q))
<1>1. Range(q) = {Head(q)} \cup Range(Tail(q))
  BY FirstAndRest
<1> QED BY <1>1 DEF Carried

\* The contents of a page and of its socket.
LEMMA ContentIs ==
  ASSUME CInv, NEW t \in Tabs
  PROVE  /\ PageContent(tabs[t], Sock(t), refused[t]) /\ refused[t] \in Content
         /\ \A s \in Slots : socks[t][s] \in Socket /\ SocketContent(socks[t][s])
         /\ tabs[t].state = "up" => SocketContent(Sock(t))
<1>1. /\ PageContent(tabs[t], Sock(t), refused[t])
      /\ \A s \in Slots : SocketContent(socks[t][s])
  BY DEF CInv, Contents
<1>2. LInv
  BY DEF CInv
<1>3. refused[t] \in Content /\ \A s \in Slots : socks[t][s] \in Socket
  BY <1>2 DEF LInv, Types
<1>4. tabs[t].state = "up" => tabs[t].slot \in Slots /\ Sock(t) = socks[t][tabs[t].slot]
  BY <1>2, PageAndSocket
<1> QED BY <1>1, <1>3, <1>4

\* Documents that do not change stay right.
LEMMA SameDocuments ==
  ASSUME Documents, UNCHANGED <<doc, saved, versions, undone, asked>>, typed \subseteq typed', early' \subseteq typed'
  PROVE  Documents'
BY DEF Documents

\* A page and its socket change, and no other.
LEMMA OnePageContents ==
  ASSUME CInv, LInv', UNCHANGED <<doc, saved, epoch, versions, undone, asked>>,
         typed \subseteq typed', early \subseteq early', early' \subseteq typed',
         NEW t \in Tabs, NEW s \in Slots, NEW n \in Socket, NEW p \in Page, NEW gone \in Content,
         Turns(t, p), Updates(t, s, n), tabs[t].state = "up" => tabs[t].slot = s, p.state = "up" => p.slot = s,
         refused' = [refused EXCEPT ![t] = gone],
         SocketContent(n)', PageContent(p, n, gone)'
  PROVE  CInv'
<1>1. /\ \A u \in Tabs : tabs'[u] = IF u = t THEN p ELSE tabs[u]
      /\ \A u \in Tabs, r \in Slots : socks'[u][r] = IF u = t /\ r = s THEN n ELSE socks[u][r]
      /\ \A u \in Tabs : refused'[u] = IF u = t THEN gone ELSE refused[u]
  BY UpdatesAt, TurnsAt DEF CInv, LInv, Types
<1>2. ASSUME NEW u \in Tabs, NEW r \in Slots
      PROVE  SocketContent(socks[u][r])'
  <2>1. socks[u][r] \in Socket /\ SocketContent(socks[u][r])
    BY ContentIs
  <2>2. CASE u = t /\ r = s
    <3>1. socks'[u][r] = n
      BY <1>1, <2>2
    <3> QED BY <3>1 DEF SocketContent
  <2>3. CASE ~(u = t /\ r = s)
    <3>1. socks'[u][r] = socks[u][r]
      BY <1>1, <2>3
    <3> DEFINE k == socks[u][r]
    <3>2. k \in Socket /\ SocketContent(k) /\ socks'[u][r] = k
      BY <2>1, <3>1
    <3> QED BY <3>2 DEF SocketContent
  <2> QED BY <2>2, <2>3
<1>3. ASSUME NEW u \in Tabs
      PROVE  PageContent(tabs[u], Sock(u), refused[u])'
  <2>1. CASE u = t
    <3>1. tabs'[u] = p /\ refused'[u] = gone /\ (p.state = "up" => Sock(u)' = n)
      BY <1>1, <2>1 DEF Sock
    <3> QED BY <3>1 DEF PageContent
  <2>2. CASE u # t
    <3>1. tabs'[u] = tabs[u] /\ refused'[u] = refused[u] /\ PageContent(tabs[u], Sock(u), refused[u])
      BY <1>1, <2>2, ContentIs
    <3>2. tabs[u].state = "up" => Sock(u)' = Sock(u)
      <4>1. tabs[u].state = "up" => tabs[u].slot \in Slots
        BY PageAndSocket DEF CInv
      <4> QED BY <1>1, <2>2, <3>1, <4>1 DEF Sock
    <3> QED BY <3>1, <3>2 DEF PageContent
  <2> QED BY <2>1, <2>2
<1>4. Documents'
  BY SameDocuments DEF CInv, Contents
<1> QED BY <1>2, <1>3, <1>4 DEF CInv, Contents

\* A page changes and no socket does.
LEMMA OnlyPageContents ==
  ASSUME CInv, LInv', UNCHANGED <<doc, saved, epoch, versions, undone, asked, socks, refused>>,
         typed \subseteq typed', early \subseteq early', early' \subseteq typed',
         NEW t \in Tabs, NEW p \in Page, Turns(t, p), p.slot = tabs[t].slot,
         NEW k, k = Sock(t), NEW gone, gone = refused[t], PageContent(p, k, gone)'
  PROVE  CInv'
<1>1. \A u \in Tabs : tabs'[u] = IF u = t THEN p ELSE tabs[u]
  BY TurnsAt DEF CInv, LInv
<1>2. ASSUME NEW u \in Tabs, NEW r \in Slots
      PROVE  SocketContent(socks[u][r])'
  <2>1. SocketContent(socks[u][r]) /\ UNCHANGED socks
    BY ContentIs
  <2> QED BY <2>1 DEF SocketContent
<1>3. ASSUME NEW u \in Tabs
      PROVE  PageContent(tabs[u], Sock(u), refused[u])'
  <2>1. CASE u = t
    <3>1. tabs'[u] = p /\ refused'[u] = gone /\ Sock(u)' = k
      BY <1>1, <2>1 DEF Sock
    <3> QED BY <3>1 DEF PageContent
  <2>2. CASE u # t
    <3>1. tabs'[u] = tabs[u] /\ refused'[u] = refused[u] /\ PageContent(tabs[u], Sock(u), refused[u])
      BY <1>1, <2>2, ContentIs
    <3>2. Sock(u)' = Sock(u)
      BY <3>1 DEF Sock
    <3> QED BY <3>1, <3>2 DEF PageContent
  <2> QED BY <2>1, <2>2
<1>4. Documents'
  BY SameDocuments DEF CInv, Contents
<1> QED BY <1>2, <1>3, <1>4 DEF CInv, Contents

-----------------------------------------------------------------------------
(* The contents: the page *)

\* A keystroke is in the page and on its way, or in the page alone before the handshake.
LEMMA TypeContents ==
  ASSUME CInv, NEW t \in Tabs, NEW e \in Edits, Type(t, e)
  PROVE  CInv'
<1> DEFINE k == Sock(t)
           w == Write("UPDATE", {e})
<1>1. LInv' /\ LInv /\ Types
  BY TypeLinks DEF CInv, LInv
<1>2. /\ UNCHANGED <<doc, saved, epoch, versions, undone, asked, refused>>
      /\ e \notin typed /\ typed' = typed \cup {e}
      /\ early' = IF tabs[t].heard = NoEpoch THEN early \cup {e} ELSE early
  BY DEF Type, node, actor
<1>3. typed \subseteq typed' /\ early \subseteq early' /\ early' \subseteq typed' /\ undone \subseteq typed
  BY <1>2 DEF CInv, Contents, Documents
<1>4. PICK p \in Page :
        /\ Turns(t, p) /\ p.doc = tabs[t].doc \cup {e}
        /\ p.state = tabs[t].state /\ p.slot = tabs[t].slot /\ p.heard = tabs[t].heard
        /\ p.accepted = tabs[t].accepted /\ p.readOnly = tabs[t].readOnly
  BY <1>1, TypeIs DEF LInv
<1>5. /\ PageContent(tabs[t], k, refused[t]) /\ refused[t] \in Content /\ PageOK(tabs[t], k)
      /\ tabs[t].state = "up" => /\ SocketContent(k) /\ tabs[t].slot \in Slots /\ k \in Socket
                                 /\ SocketOK(k, tabs[t], tabs[t].slot)
  BY <1>1, ContentIs, PageAndSocket
<1>6. PICK gone \in Content : gone = refused[t]
  BY <1>5
<1>7. CASE ~tabs[t].accepted /\ UNCHANGED socks
  <2>1. PICK z : z = k
    OBVIOUS
  <2> HIDE DEF k
  <2>2. PageContent(p, z, gone)'
    BY <1>2, <1>3, <1>4, <1>5, <1>6, <1>7, <2>1 DEF PageContent
  <2> QED BY <1>1, <1>2, <1>3, <1>4, <1>6, <1>7, <2>1, <2>2, OnlyPageContents DEF k
<1>8. CASE /\ tabs[t].state = "up"
           /\ \E n \in Socket :
                /\ Updates(t, tabs[t].slot, n) /\ Alike(k, n) /\ n.down = k.down
                /\ n.up = IF Open(k) THEN k.up \o <<w>> ELSE k.up
  <2>1. PICK n \in Socket :
          /\ Updates(t, tabs[t].slot, n) /\ Alike(k, n) /\ n.down = k.down
          /\ n.up = IF Open(k) THEN k.up \o <<w>> ELSE k.up
    BY <1>8
  <2>2. w \in UpFrames /\ w.op = "UPDATE" /\ Carries(w) = {e}
    BY DEF Write, UpFrames, Content, Carries
  <2>3. <<w>> \in Seq(UpFrames) /\ k.up \in Seq(UpFrames) /\ Range(<<w>>) = {w} /\ Carried(<<w>>) = {e}
    <3>1. \A f \in UpFrames : <<f>> \in Seq(UpFrames) /\ Range(<<f>>) = {f} /\ Carried(<<f>>) = Carries(f)
      BY Short, CarriedIs
    <3>2. k.up \in Seq(UpFrames)
      BY <1>5, <1>8 DEF Socket
    <3> HIDE DEF w
    <3> QED BY <2>2, <3>1, <3>2
  <2> HIDE DEF w, k
  <2>4. Range(k.up \o <<w>>) = Range(k.up) \cup {w} /\ Carried(k.up \o <<w>>) = Carried(k.up) \cup {e}
    <3> DEFINE q == k.up
               r == <<w>>
    <3>1. q \in Seq(UpFrames) /\ r \in Seq(UpFrames)
      BY <2>3
    <3> HIDE DEF q, r
    <3>2. Range(q \o r) = Range(q) \cup Range(r)
      BY <3>1, Added
    <3>3. Carried(q \o r) = Carried(q) \cup Carried(r)
      BY <3>1, CarriedBoth
    <3> QED BY <2>3, <3>2, <3>3 DEF q, r
  <2>5. Open(n) <=> Open(k)
    BY <2>1 DEF Alike, Open
  <2>6. Carried(n.up) \subseteq Carried(k.up) \cup {e} /\ (Open(k) => Carried(n.up) = Carried(k.up) \cup {e})
        /\ n.born = k.born
    BY <2>1, <2>4 DEF Alike
  <2>7. SocketContent(n)'
    BY <1>2, <1>3, <1>5, <1>8, <2>1, <2>5, <2>6 DEF SocketContent
  <2>8. PageContent(p, n, gone)'
    <3>1. /\ p.doc \subseteq typed' /\ gone \subseteq typed'
          /\ p.heard = NoEpoch => p.doc \subseteq early'
          /\ p.heard = epoch => p.doc \cap undone \subseteq early'
      BY <1>2, <1>3, <1>4, <1>5, <1>6 DEF PageContent
    <3>2. Open(k) => /\ Range(n.up) = Range(k.up) \cup {w} /\ w.op # "STEP1"
                     /\ Has(n.up, "STEP1") <=> Has(k.up, "STEP1")
      BY <2>1, <2>2, <2>4 DEF Has
    <3>3. Open(k) =>
            /\ Carried(n.up) \subseteq p.doc
            /\ \A f \in Range(n.up) : f.op = "STEP1" => f.has \subseteq p.doc
            /\ p.accepted => p.doc \subseteq doc \cup gone \cup Carried(n.up)
            /\ p.accepted /\ ~Has(n.up, "STEP1") => doc \subseteq p.doc \cup Carried(n.down)
      BY <1>4, <1>5, <1>6, <1>8, <2>1, <2>6, <3>2 DEF PageContent
    <3> QED BY <1>2, <2>5, <3>1, <3>3 DEF PageContent
  <2>9. refused' = [refused EXCEPT ![t] = gone]
    BY <1>1, <1>2, <1>6 DEF Types
  <2>10. PICK s \in Slots : s = tabs[t].slot
    BY <1>5, <1>8
  <2>11. Turns(t, p) /\ Updates(t, s, n) /\ (tabs[t].state = "up" => tabs[t].slot = s) /\ (p.state = "up" => p.slot = s)
    BY <1>4, <2>1, <2>10
  <2> QED BY <1>1, <1>2, <1>3, <2>7, <2>8, <2>9, <2>11, OnePageContents
<1> QED BY <1>1, <1>7, <1>8, TypeIs DEF LInv

\* A ticket moves no content.
LEMMA MintContents ==
  ASSUME CInv, NEW t \in Tabs, Mint(t)
  PROVE  CInv'
<1>1. LInv' /\ LInv
  BY MintLinks DEF CInv
<1>2. UNCHANGED <<doc, saved, epoch, versions, undone, asked, socks, refused, typed, early>>
  BY DEF Mint, node, actor, seen
<1>3. PICK p \in Page :
        /\ Turns(t, p) /\ p.doc = tabs[t].doc /\ tabs[t].state # "up" /\ p.state # "up"
        /\ p.slot = tabs[t].slot /\ p.heard = tabs[t].heard /\ p.accepted = tabs[t].accepted
  BY <1>1, MintIs DEF LInv
<1>4. PICK k : k = Sock(t)
  OBVIOUS
<1>5. PICK gone : gone = refused[t]
  OBVIOUS
<1>6. PageContent(tabs[t], k, gone)
  BY <1>4, <1>5, ContentIs
<1>7. PageContent(p, k, gone)'
  BY <1>2, <1>3, <1>6 DEF PageContent
<1>8. typed \subseteq typed' /\ early \subseteq early' /\ early' \subseteq typed'
  BY <1>2 DEF CInv, Contents, Documents
<1> QED BY <1>1, <1>2, <1>3, <1>4, <1>5, <1>7, <1>8, OnlyPageContents

\* A greeting says what the document has.
LEMMA ConnectContents ==
  ASSUME CInv, NEW t \in Tabs, Connect(t)
  PROVE  CInv'
<1> DEFINE f == [op |-> "HELLO", epoch |-> epoch, has |-> doc]
<1>1. LInv' /\ LInv
  BY ConnectLinks DEF CInv
<1>2. UNCHANGED <<doc, saved, epoch, versions, undone, asked, refused, typed, early>>
  BY DEF Connect, node, seen
<1>3. PICK s \in Slots : \E n \in Socket, p \in Page :
        /\ Turns(t, p) /\ Updates(t, s, n) /\ tabs[t].state # "up"
        /\ p.doc = tabs[t].doc /\ p.state = "up" /\ p.slot = s /\ p.heard = tabs[t].heard /\ ~p.accepted
        /\ n.born = epoch /\ n.up = <<>> /\ n.down = <<f>>
  BY <1>1, ConnectIs DEF LInv
<1>4. PICK n \in Socket : \E p \in Page :
        /\ Turns(t, p) /\ Updates(t, s, n) /\ tabs[t].state # "up"
        /\ p.doc = tabs[t].doc /\ p.state = "up" /\ p.slot = s /\ p.heard = tabs[t].heard /\ ~p.accepted
        /\ n.born = epoch /\ n.up = <<>> /\ n.down = <<f>>
  BY <1>3
<1>5. PICK p \in Page :
        /\ Turns(t, p) /\ Updates(t, s, n) /\ tabs[t].state # "up"
        /\ p.doc = tabs[t].doc /\ p.state = "up" /\ p.slot = s /\ p.heard = tabs[t].heard /\ ~p.accepted
        /\ n.born = epoch /\ n.up = <<>> /\ n.down = <<f>>
  BY <1>4
<1>6. PICK gone \in Content : gone = refused[t]
  BY ContentIs
<1>7. f.op = "HELLO" /\ f.has = doc /\ Carries(f) = {}
  BY DEF Carries
<1> HIDE DEF f
<1>8. Range(n.down) = {f} /\ Carried(n.down) = {} /\ Range(n.up) = {} /\ Carried(n.up) = {}
  <2>1. Range(<<f>>) = {f} /\ Carried(<<f>>) = Carries(f)
    BY Short, CarriedIs
  <2> QED BY <1>5, <1>7, <2>1, CarriedIs, Short
<1>9. SocketContent(n)'
  BY <1>2, <1>7, <1>8 DEF SocketContent
<1>10. PageContent(tabs[t], Sock(t), gone)
  BY <1>6, ContentIs
<1>11. PageContent(p, n, gone)'
  BY <1>2, <1>5, <1>8, <1>10 DEF PageContent
<1>12. typed \subseteq typed' /\ early \subseteq early' /\ early' \subseteq typed' /\ refused' = [refused EXCEPT ![t] = gone]
  BY <1>1, <1>2, <1>6 DEF CInv, Contents, Documents, LInv, Types
<1> QED BY <1>1, <1>2, <1>5, <1>9, <1>11, <1>12, OnePageContents

\* A page that leaves keeps its document; what was on its way to it is lost.
LEMMA LeavesContents ==
  ASSUME CInv, NEW t \in Tabs, HearsClose(t) \/ LinkDies(t)
  PROVE  CInv'
<1> DEFINE k == Sock(t)
           s == tabs[t].slot
<1>1. LInv' /\ LInv
  BY LeavesLinks DEF CInv
<1>2. UNCHANGED <<doc, saved, epoch, versions, undone, asked, refused, typed, early>> /\ tabs[t].state = "up"
  BY DEF HearsClose, LinkDies, node, actor, seen
<1>3. PICK n \in Socket : \E p \in Page :
        /\ Turns(t, p) /\ Updates(t, s, n)
        /\ p.doc = tabs[t].doc /\ p.state # "up" /\ p.slot = NoSlot /\ p.heard = tabs[t].heard /\ ~p.accepted
        /\ n.code = k.code /\ n.born = k.born /\ n.up = k.up /\ n.down = <<>>
  BY <1>1, LeavesIs DEF LInv
<1>4. PICK p \in Page :
        /\ Turns(t, p) /\ Updates(t, s, n)
        /\ p.doc = tabs[t].doc /\ p.state # "up" /\ p.slot = NoSlot /\ p.heard = tabs[t].heard /\ ~p.accepted
        /\ n.code = k.code /\ n.born = k.born /\ n.up = k.up /\ n.down = <<>>
  BY <1>3
<1>5. PICK gone \in Content : gone = refused[t]
  BY ContentIs
<1>6. PageContent(tabs[t], k, gone) /\ SocketContent(k) /\ s \in Slots
  BY <1>1, <1>2, <1>5, ContentIs, PageAndSocket
<1>7. Range(<<>>) = {} /\ Carried(<<>>) = {}
  BY Short, CarriedIs
<1> HIDE DEF k, s
<1>8. SocketContent(n)'
  BY <1>2, <1>4, <1>6, <1>7 DEF SocketContent, Open
<1>9. PageContent(p, n, gone)'
  BY <1>2, <1>4, <1>6 DEF PageContent
<1>10. typed \subseteq typed' /\ early \subseteq early' /\ early' \subseteq typed' /\ refused' = [refused EXCEPT ![t] = gone]
  BY <1>1, <1>2, <1>5 DEF CInv, Contents, Documents, LInv, Types
<1>11. tabs[t].state = "up" => tabs[t].slot = s
  BY DEF s
<1> QED BY <1>1, <1>2, <1>4, <1>6, <1>8, <1>9, <1>10, <1>11, OnePageContents

\* A page that goes by what it heard offers what the document lacks.
LEMMA AcceptContent ==
  ASSUME CInv, UNCHANGED <<doc, epoch, undone, typed, early>>, NEW t \in Tabs, tabs[t].state = "up", Sock(t).down # <<>>,
         NEW n \in Socket, NEW p \in Page, Accepts(t, Head(Sock(t).down), n, p), NEW gone \in Content, gone = refused[t]
  PROVE  SocketContent(n)' /\ PageContent(p, n, gone)'
<1> DEFINE k == Sock(t)
           f == Head(k.down)
           a == [op |-> "ACK", epoch |-> f.epoch]
           b == [op |-> "STEP1", has |-> tabs[t].doc]
           c == Write("STEP2", tabs[t].doc \ f.has)
           r == <<a, b, c>>
           q == k.up
<1>1. /\ PageContent(tabs[t], k, gone) /\ SocketContent(k) /\ tabs[t] \in Page /\ k \in Socket
      /\ PageOK(tabs[t], k) /\ SocketOK(k, tabs[t], tabs[t].slot)
  BY ContentIs, PageAndSocket DEF CInv
<1>2. /\ f.op = "HELLO" /\ tabs[t].heard \in {NoEpoch, f.epoch}
      /\ p.heard = f.epoch /\ p.accepted /\ p.doc = tabs[t].doc
      /\ Alike(k, n) /\ n.down = Tail(k.down)
      /\ n.up = IF Open(k) THEN q \o r ELSE q
  BY DEF Accepts
<1>3. k.down \in Seq(DownFrames) /\ q \in Seq(UpFrames)
  BY <1>1 DEF Socket
<1>4. f \in DownFrames /\ Range(k.down) = {f} \cup Range(Tail(k.down)) /\ Carried(k.down) = Carries(f) \cup Carried(Tail(k.down))
  <2>1. k.down # <<>>
    OBVIOUS
  <2> HIDE DEF k
  <2> QED BY <1>3, <2>1, FirstAndRest, CarriedFirst
<1>5. f.epoch = k.born /\ f.has \in Content
  BY <1>1, <1>2, <1>4, DownIs DEF SocketOK
<1>6. a \in UpFrames /\ b \in UpFrames /\ c \in UpFrames
  BY <1>1, <1>2, <1>4, <1>5, DownIs DEF UpFrames, Write, Page, Content
<1>7. Carries(a) = {} /\ Carries(b) = {} /\ Carries(c) = tabs[t].doc \ f.has /\ b.op = "STEP1" /\ b.has = tabs[t].doc
      /\ a.op # "STEP1" /\ c.op # "STEP1"
  BY DEF Carries, Write
<1> HIDE DEF a, b, c
<1>8. r \in Seq(UpFrames) /\ Range(r) = {a, b, c} /\ Carried(r) = tabs[t].doc \ f.has
  <2>1. r \in Seq(UpFrames) /\ Range(r) = {a, b, c}
    BY <1>6, Short
  <2>2. Carried(r) = Carries(a) \cup Carries(b) \cup Carries(c)
    BY <1>6, CarriedIs
  <2> QED BY <1>7, <2>1, <2>2
<1> HIDE DEF r, q
<1>9. Range(q \o r) = Range(q) \cup Range(r) /\ Carried(q \o r) = Carried(q) \cup Carried(r)
  BY <1>3, <1>8, Added, CarriedBoth
<1> HIDE DEF f
<1>10. /\ Carried(n.up) \subseteq Carried(q) \cup (tabs[t].doc \ f.has)
       /\ Open(k) => Carried(n.up) = Carried(q) \cup (tabs[t].doc \ f.has) /\ Range(n.up) = Range(q) \cup {a, b, c}
       /\ Carried(n.down) \subseteq Carried(k.down) /\ Range(n.down) \subseteq Range(k.down)
  BY <1>2, <1>4, <1>8, <1>9
<1>11. (Open(n) <=> Open(k)) /\ n.born = k.born
  BY <1>2 DEF Alike, Open
<1>12. Documents
  BY DEF CInv, Contents
<1>13. k.born = epoch => tabs[t].doc \cap undone \subseteq early
  BY <1>1, <1>2, <1>5, <1>12 DEF PageContent
<1> HIDE DEF k
<1>14. SocketContent(n)'
  <2>1. /\ Carried(n.up) \subseteq typed /\ Carried(n.down) \subseteq typed
        /\ n.born = epoch => Carried(n.up) \cap undone \subseteq early /\ Carried(n.down) \cap undone = {}
    BY <1>1, <1>10, <1>11, <1>13 DEF SocketContent, PageContent, q
  <2>2. Open(n) => Carried(n.down) \subseteq doc /\ \A g \in Range(n.down) : g.op = "HELLO" => g.has \subseteq doc
    BY <1>1, <1>10, <1>11 DEF SocketContent
  <2> QED BY <2>1, <2>2 DEF SocketContent
<1>15. PageContent(p, n, gone)'
  <2>1. k.born \in Nat /\ p.heard = k.born /\ p.heard # NoEpoch
    BY <1>1, <1>2, <1>5, MarksAssumption DEF Socket
  <2>2. p.doc \subseteq typed /\ gone \subseteq typed /\ (p.heard = epoch => p.doc \cap undone \subseteq early)
    BY <1>1, <1>2, <1>13, <2>1 DEF PageContent
  <2>3. Open(k) =>
          /\ f.has \subseteq doc
          /\ Carried(n.up) \subseteq p.doc
          /\ \A g \in Range(n.up) : g.op = "STEP1" => g.has \subseteq p.doc
          /\ p.doc \subseteq doc \cup gone \cup Carried(n.up)
          /\ Has(n.up, "STEP1")
    <3> SUFFICES ASSUME Open(k)
                 PROVE  /\ f.has \subseteq doc
                        /\ Carried(n.up) \subseteq p.doc
                        /\ \A g \in Range(n.up) : g.op = "STEP1" => g.has \subseteq p.doc
                        /\ p.doc \subseteq doc \cup gone \cup Carried(n.up)
                        /\ Has(n.up, "STEP1")
      OBVIOUS
    <3>1. f.has \subseteq doc
      BY <1>1, <1>2, <1>4 DEF SocketContent
    <3>2. Carried(q) \subseteq tabs[t].doc /\ \A g \in Range(q) : g.op = "STEP1" => g.has \subseteq tabs[t].doc
      BY <1>1 DEF PageContent, q
    <3>3. \A g \in Range(n.up) : g.op = "STEP1" => g.has \subseteq p.doc
      BY <1>2, <1>7, <1>10, <3>2
    <3>4. Has(n.up, "STEP1")
      BY <1>7, <1>10 DEF Has
    <3> QED BY <1>2, <1>10, <3>1, <3>2, <3>3, <3>4
  <2> QED BY <1>11, <2>1, <2>2, <2>3 DEF PageContent
<1> QED BY <1>14, <1>15

\* A page merges a frame: what it brings is no longer on its way.
LEMMA MergeContent ==
  ASSUME CInv, UNCHANGED <<doc, epoch, undone, typed, early>>, NEW t \in Tabs, tabs[t].state = "up", Sock(t).down # <<>>,
         NEW n \in Socket, NEW p \in Page, Merges(t, Head(Sock(t).down), n, p), NEW gone \in Content, gone = refused[t]
  PROVE  SocketContent(n)' /\ PageContent(p, n, gone)'
<1> DEFINE k == Sock(t)
           f == Head(k.down)
<1>1. /\ PageContent(tabs[t], k, gone) /\ SocketContent(k) /\ tabs[t] \in Page /\ k \in Socket
      /\ PageOK(tabs[t], k) /\ SocketOK(k, tabs[t], tabs[t].slot)
  BY ContentIs, PageAndSocket DEF CInv
<1>2. /\ f.op \in {"SYNC", "UPDATE", "STATE", "REFUSED"}
      /\ p.state = "up" /\ p.slot = tabs[t].slot /\ p.heard = tabs[t].heard /\ p.accepted = tabs[t].accepted
      /\ p.doc = tabs[t].doc \cup (IF f.op \in {"SYNC", "UPDATE"} THEN f.edits ELSE {})
      /\ Alike(k, n) /\ n.down = Tail(k.down) /\ n.up = k.up
  BY DEF Merges
<1>3. k.down \in Seq(DownFrames) /\ k.born \in Nat
  BY <1>1 DEF Socket
<1>4. f \in DownFrames /\ Range(k.down) = {f} \cup Range(Tail(k.down)) /\ Carried(k.down) = Carries(f) \cup Carried(Tail(k.down))
  <2>1. k.down # <<>>
    OBVIOUS
  <2> HIDE DEF k
  <2> QED BY <1>3, <2>1, FirstAndRest, CarriedFirst
<1>5. p.doc = tabs[t].doc \cup Carries(f)
  BY <1>2 DEF Carries
<1>6. tabs[t].accepted /\ tabs[t].heard = k.born /\ k.born # NoEpoch
  BY <1>1, <1>2, <1>3, MarksAssumption DEF PageOK
<1>7. (Open(n) <=> Open(k)) /\ n.born = k.born
  BY <1>2 DEF Alike, Open
<1> HIDE DEF k, f
<1>8. Carried(n.down) \cup Carries(f) = Carried(k.down) /\ Range(n.down) \subseteq Range(k.down)
  BY <1>2, <1>4
<1>9. SocketContent(n)'
  <2>1. Open(n) => \A g \in Range(n.down) : g.op = "HELLO" => g.has \subseteq doc
    BY <1>1, <1>7, <1>8 DEF SocketContent
  <2>2. Carried(n.up) = Carried(k.up)
    BY <1>2
  <2> QED BY <1>1, <1>7, <1>8, <2>1, <2>2 DEF SocketContent
<1>10. PageContent(p, n, gone)'
  <2>1. Carries(f) \subseteq typed /\ (k.born = epoch => Carries(f) \cap undone = {}) /\ (Open(k) => Carries(f) \subseteq doc)
    BY <1>1, <1>8 DEF SocketContent
  <2>2. /\ p.doc \subseteq typed /\ gone \subseteq typed /\ p.heard # NoEpoch
        /\ p.heard = epoch => p.doc \cap undone \subseteq early
    BY <1>1, <1>2, <1>5, <1>6, <2>1 DEF PageContent
  <2>3. Open(k) =>
          /\ Carried(n.up) \subseteq p.doc
          /\ \A g \in Range(n.up) : g.op = "STEP1" => g.has \subseteq p.doc
          /\ p.doc \subseteq doc \cup gone \cup Carried(n.up)
          /\ ~Has(n.up, "STEP1") => doc \subseteq p.doc \cup Carried(n.down)
    <3> SUFFICES ASSUME Open(k)
                 PROVE  /\ Carried(n.up) \subseteq p.doc
                        /\ \A g \in Range(n.up) : g.op = "STEP1" => g.has \subseteq p.doc
                        /\ p.doc \subseteq doc \cup gone \cup Carried(n.up)
                        /\ ~Has(n.up, "STEP1") => doc \subseteq p.doc \cup Carried(n.down)
      OBVIOUS
    <3>1. /\ Carried(k.up) \subseteq tabs[t].doc
          /\ \A g \in Range(k.up) : g.op = "STEP1" => g.has \subseteq tabs[t].doc
          /\ tabs[t].doc \subseteq doc \cup gone \cup Carried(k.up)
          /\ ~Has(k.up, "STEP1") => doc \subseteq tabs[t].doc \cup Carried(k.down)
      BY <1>1, <1>6 DEF PageContent
    <3>2. tabs[t].doc \subseteq p.doc
      BY <1>5
    <3>3. \A g \in Range(n.up) : g.op = "STEP1" => g.has \subseteq p.doc
      BY <1>2, <3>1, <3>2
    <3>4. ~Has(n.up, "STEP1") => doc \subseteq p.doc \cup Carried(n.down)
      BY <1>2, <1>5, <1>8, <3>1
    <3>5. Carried(n.up) \subseteq p.doc /\ p.doc \subseteq doc \cup gone \cup Carried(n.up)
      BY <1>2, <1>5, <2>1, <3>1, <3>2
    <3> QED BY <3>3, <3>4, <3>5
  <2> QED BY <1>2, <1>7, <2>2, <2>3 DEF PageContent
<1> QED BY <1>9, <1>10

\* What a page hears keeps the contents.
LEMMA HearsContents ==
  ASSUME CInv, NEW t \in Tabs, Hears(t)
  PROVE  CInv'
<1> DEFINE k == Sock(t)
<1>1. LInv' /\ LInv
  BY HearsLinks DEF CInv
<1>2. UNCHANGED <<doc, saved, epoch, versions, undone, asked, typed, early>>
  BY DEF Hears, node, actor
<1>3. tabs[t].state = "up" /\ k.down # <<>>
  BY <1>1, HearsIs DEF LInv
<1>4. PICK s \in Slots : s = tabs[t].slot
  BY <1>1, <1>3, PageAndSocket
<1>5. PICK n \in Socket : \E p \in Page :
        /\ Turns(t, p) /\ Updates(t, s, n)
        /\ \/ Accepts(t, Head(k.down), n, p) /\ UNCHANGED refused
           \/ Reloads(t, n, p) /\ refused' = [refused EXCEPT ![t] = {}]
           \/ Merges(t, Head(k.down), n, p) /\ UNCHANGED refused
  BY <1>1, <1>4, HearsIs DEF LInv
<1>6. PICK p \in Page :
        /\ Turns(t, p) /\ Updates(t, s, n)
        /\ \/ Accepts(t, Head(k.down), n, p) /\ UNCHANGED refused
           \/ Reloads(t, n, p) /\ refused' = [refused EXCEPT ![t] = {}]
           \/ Merges(t, Head(k.down), n, p) /\ UNCHANGED refused
  BY <1>5
<1>7. typed \subseteq typed' /\ early \subseteq early' /\ early' \subseteq typed'
  BY <1>2 DEF CInv, Contents, Documents
<1>8. tabs[t].state = "up" => tabs[t].slot = s
  BY <1>4
<1>9. ASSUME NEW gone \in Content, refused' = [refused EXCEPT ![t] = gone], p.state = "up" => p.slot = s,
             SocketContent(n)', PageContent(p, n, gone)'
      PROVE  CInv'
  BY <1>1, <1>2, <1>6, <1>7, <1>8, <1>9, OnePageContents
<1>10. PICK gone \in Content : gone = refused[t]
  BY ContentIs
<1>11. UNCHANGED refused => refused' = [refused EXCEPT ![t] = gone]
  BY <1>1, <1>10 DEF LInv, Types
<1>12. CASE Accepts(t, Head(k.down), n, p) /\ UNCHANGED refused
  <2>1. SocketContent(n)' /\ PageContent(p, n, gone)'
    BY <1>2, <1>3, <1>10, <1>12, AcceptContent
  <2>2. p.state = "up" => p.slot = s
    BY <1>4, <1>12 DEF Accepts
  <2> QED BY <1>9, <1>11, <1>12, <2>1, <2>2
<1>13. CASE Merges(t, Head(k.down), n, p) /\ UNCHANGED refused
  <2>1. SocketContent(n)' /\ PageContent(p, n, gone)'
    BY <1>2, <1>3, <1>10, <1>13, MergeContent
  <2>2. p.state = "up" => p.slot = s
    BY <1>4, <1>13 DEF Merges
  <2> QED BY <1>9, <1>11, <1>13, <2>1, <2>2
<1>14. CASE Reloads(t, n, p) /\ refused' = [refused EXCEPT ![t] = {}]
  <2>1. p.state = "down" /\ p.heard = NoEpoch /\ p.doc = {} /\ n.code = k.code /\ n.born = k.born /\ n.up = k.up /\ n.down = <<>>
    BY <1>14 DEF Reloads
  <2>2. SocketContent(k)
    BY <1>3, ContentIs
  <2>3. Range(<<>>) = {} /\ Carried(<<>>) = {}
    BY Short, CarriedIs
  <2> HIDE DEF k
  <2>4. SocketContent(n)'
    BY <1>2, <2>1, <2>2, <2>3 DEF SocketContent, Open
  <2>5. PICK none \in Content : none = {}
    BY DEF Content
  <2>6. epoch \in Nat
    BY <1>1 DEF LInv, Types
  <2>7. PageContent(p, n, none)'
    BY <1>2, <2>1, <2>5, <2>6, MarksAssumption DEF PageContent
  <2>8. refused' = [refused EXCEPT ![t] = none] /\ (p.state = "up" => p.slot = s)
    BY <1>14, <2>1, <2>5
  <2> QED BY <1>9, <2>4, <2>7, <2>8
<1> QED BY <1>6, <1>12, <1>13, <1>14

-----------------------------------------------------------------------------
(* The contents: the actor *)

\* What the actor does with what a socket of page p carries: what it takes of it is in the document
\* or refused, what it sends is of the document, and what is new in the document goes to all.
Passes(k, n, p, gone, d) ==
  /\ n.born = k.born /\ (Open(n) => Open(k))
  /\ Carried(n.up) \subseteq Carried(k.up) /\ Range(n.up) \subseteq Range(k.up)
  /\ Carried(n.down) \subseteq Carried(k.down) \cup d
  /\ \A f \in Range(n.down) : f.op = "HELLO" => f \in Range(k.down)
  /\ Open(n) /\ k.live =>
       /\ Carried(k.up) \subseteq Carried(n.up) \cup d \cup gone
       /\ Carried(k.down) \subseteq Carried(n.down)
       /\ Carried(k.up) \subseteq p.doc => d \subseteq doc \cup p.doc \cup Carried(n.down)
       /\ /\ Has(k.up, "STEP1") /\ ~Has(n.up, "STEP1")
          /\ \A f \in Range(k.up) : f.op = "STEP1" => f.has \subseteq p.doc
          => doc \subseteq p.doc \cup Carried(n.down)

\* What may pass on a socket keeps its content.
LEMMA PassedSocket ==
  ASSUME Types, Types', epoch' = epoch, typed' = typed, early' = early, Documents', doc \subseteq doc', undone' \subseteq undone,
         NEW k \in Socket, NEW n \in Socket, NEW p \in Page, NEW gone \in Content, NEW d, d = doc',
         Passes(k, n, p, gone, d), SocketContent(k)
  PROVE  SocketContent(n)'
<1>1. d \subseteq typed /\ d \cap undone' = {}
  BY DEF Documents
<1>2. /\ Carried(n.up) \subseteq typed /\ Carried(n.down) \subseteq typed
      /\ n.born = epoch => Carried(n.up) \cap undone' \subseteq early /\ Carried(n.down) \cap undone' = {}
  BY <1>1 DEF Passes, SocketContent
<1>3. Open(n) => Carried(n.down) \subseteq d /\ \A f \in Range(n.down) : f.op = "HELLO" => f.has \subseteq d
  BY DEF Passes, SocketContent
<1> QED BY <1>2, <1>3 DEF SocketContent

\* What may pass on a page's socket keeps the page's content.
LEMMA PassedPage ==
  ASSUME Types, Types', epoch' = epoch, typed' = typed, early' = early, Documents', doc \subseteq doc', undone' \subseteq undone,
         NEW k \in Socket, NEW n \in Socket, NEW p \in Page, NEW old \in Content, NEW gone \in Content, NEW d, d = doc',
         Passes(k, n, p, gone, d), old \subseteq gone, gone \subseteq typed, PageContent(p, k, old), p.state = "up" => k.live
  PROVE  PageContent(p, n, gone)'
<1>1. /\ p.doc \subseteq typed
      /\ p.heard = NoEpoch => p.doc \subseteq early
      /\ p.heard = epoch => p.doc \cap undone' \subseteq early
  BY DEF PageContent
<1>2. ASSUME p.state = "up", Open(n)
      PROVE  /\ Carried(n.up) \subseteq p.doc
             /\ \A f \in Range(n.up) : f.op = "STEP1" => f.has \subseteq p.doc
             /\ p.accepted => p.doc \subseteq d \cup gone \cup Carried(n.up)
             /\ p.accepted /\ ~Has(n.up, "STEP1") => d \subseteq p.doc \cup Carried(n.down)
  <2>1. /\ Open(k) /\ k.live
        /\ Carried(n.up) \subseteq Carried(k.up) /\ Range(n.up) \subseteq Range(k.up)
        /\ Carried(k.up) \subseteq Carried(n.up) \cup d \cup gone
        /\ Carried(k.down) \subseteq Carried(n.down)
        /\ Carried(k.up) \subseteq p.doc => d \subseteq doc \cup p.doc \cup Carried(n.down)
        /\ /\ Has(k.up, "STEP1") /\ ~Has(n.up, "STEP1")
           /\ \A f \in Range(k.up) : f.op = "STEP1" => f.has \subseteq p.doc
           => doc \subseteq p.doc \cup Carried(n.down)
    BY <1>2 DEF Passes
  <2>2. /\ Carried(k.up) \subseteq p.doc
        /\ \A f \in Range(k.up) : f.op = "STEP1" => f.has \subseteq p.doc
        /\ p.accepted => p.doc \subseteq doc \cup old \cup Carried(k.up)
        /\ p.accepted /\ ~Has(k.up, "STEP1") => doc \subseteq p.doc \cup Carried(k.down)
    BY <1>2, <2>1 DEF PageContent
  <2>3. Carried(n.up) \subseteq p.doc /\ \A f \in Range(n.up) : f.op = "STEP1" => f.has \subseteq p.doc
    BY <2>1, <2>2
  <2>4. p.accepted => p.doc \subseteq d \cup gone \cup Carried(n.up)
    BY <2>1, <2>2
  <2>5. p.accepted /\ ~Has(n.up, "STEP1") => doc \subseteq p.doc \cup Carried(n.down)
    BY <2>1, <2>2
  <2>6. p.accepted /\ ~Has(n.up, "STEP1") => d \subseteq p.doc \cup Carried(n.down)
    BY <2>1, <2>2, <2>5
  <2> QED BY <2>3, <2>4, <2>6
<1> QED BY <1>1, <1>2 DEF PageContent

\* The actor passes on what its sockets carry.
LEMMA PassedOn ==
  ASSUME CInv, LInv', UNCHANGED <<tabs, epoch, typed, early>>, Documents', doc \subseteq doc', undone' \subseteq undone,
         \A t \in Tabs : refused[t] \subseteq refused'[t] /\ refused'[t] \subseteq typed,
         \A t \in Tabs, s \in Slots : Passes(socks[t][s], socks'[t][s], tabs[t], refused'[t], doc')
  PROVE  CInv'
<1>1. Types /\ Types' /\ LInv /\ tabs' = tabs /\ epoch' = epoch /\ typed' = typed /\ early' = early
  BY DEF CInv, LInv
<1>2. \A t \in Tabs, s \in Slots : socks[t][s] \in Socket /\ socks'[t][s] \in Socket /\ tabs[t] \in Page /\ refused'[t] \in Content
                                   /\ refused[t] \in Content
  BY <1>1 DEF Types
<1>3. ASSUME NEW t \in Tabs, NEW s \in Slots
      PROVE  SocketContent(socks[t][s])'
  <2>1. SocketContent(socks[t][s])
    BY ContentIs
  <2>2. PICK d : d = doc'
    OBVIOUS
  <2> QED BY <1>1, <1>2, <2>1, <2>2, PassedSocket
<1>4. ASSUME NEW t \in Tabs
      PROVE  PageContent(tabs[t], Sock(t), refused[t])'
  <2>1. PageContent(tabs[t], Sock(t), refused[t])
    BY ContentIs
  <2>2. CASE tabs[t].state = "up"
    <3>1. tabs[t].slot \in Slots /\ Sock(t) = socks[t][tabs[t].slot] /\ Sock(t).live /\ Sock(t)' = socks'[t][tabs[t].slot]
      BY <1>1, <2>2, PageAndSocket DEF Sock, PageOK
    <3>2. PICK d : d = doc'
      OBVIOUS
    <3>3. Passes(Sock(t), Sock(t)', tabs[t], refused'[t], d)
      BY <3>1, <3>2
    <3> QED BY <1>1, <1>2, <2>1, <3>1, <3>2, <3>3, PassedPage
  <2>3. CASE tabs[t].state # "up"
    BY <1>1, <2>1, <2>3 DEF PageContent
  <2> QED BY <2>2, <2>3
<1> QED BY <1>3, <1>4 DEF CInv, Contents

\* What a socket brings once frames were sent to it.
LEMMA SentDown ==
  ASSUME NEW k \in Socket, NEW n \in Socket, NEW fs \in Seq(DownFrames), ~Has(fs, "HELLO"),
         (n.code = k.code /\ Told(k, n, fs)) \/ PutOut(k, n, fs)
  PROVE  /\ n.born = k.born /\ n.live = k.live /\ (Open(n) => Open(k) /\ n.code = k.code)
         /\ Carried(n.down) \subseteq Carried(k.down) \cup Carried(fs)
         /\ \A f \in Range(n.down) : f.op = "HELLO" => f \in Range(k.down)
         /\ Open(n) /\ k.live => Carried(n.down) = Carried(k.down) \cup Carried(fs)
<1>1. n.born = k.born /\ n.live = k.live /\ (Open(n) => Open(k) /\ n.code = k.code)
      /\ n.down = IF Open(k) /\ k.live THEN k.down \o fs ELSE k.down
  BY DEF Told, PutOut, Open
<1> DEFINE q == k.down
<1>2. q \in Seq(DownFrames)
  BY DEF Socket
<1> HIDE DEF q
<1>3. Range(q \o fs) = Range(q) \cup Range(fs) /\ Carried(q \o fs) = Carried(q) \cup Carried(fs)
  BY <1>2, Added, CarriedBoth
<1>4. \A f \in Range(n.down) : f.op = "HELLO" => f \in Range(k.down)
  BY <1>1, <1>3 DEF Has, q
<1> QED BY <1>1, <1>3, <1>4 DEF q

\* Frames are sent to a socket.
LEMMA SentPasses ==
  ASSUME NEW k \in Socket, NEW n \in Socket, NEW p \in Page, NEW gone, NEW d, NEW fs \in Seq(DownFrames), ~Has(fs, "HELLO"),
         (n.code = k.code /\ Told(k, n, fs)) \/ PutOut(k, n, fs), n.up = k.up, Carried(fs) \subseteq d,
         Carried(k.up) \subseteq p.doc => d \subseteq doc \cup p.doc \cup Carried(fs)
  PROVE  Passes(k, n, p, gone, d)
<1>1. /\ n.born = k.born /\ (Open(n) => Open(k))
      /\ Carried(n.down) \subseteq Carried(k.down) \cup Carried(fs)
      /\ \A f \in Range(n.down) : f.op = "HELLO" => f \in Range(k.down)
      /\ Open(n) /\ k.live => Carried(n.down) = Carried(k.down) \cup Carried(fs)
  BY SentDown
<1> QED BY <1>1 DEF Passes

\* A frame of a socket is taken, and others are sent to it.
LEMMA TakenPasses ==
  ASSUME NEW k \in Socket, NEW n \in Socket, NEW p \in Page, NEW gone, NEW d, NEW fs \in Seq(DownFrames), ~Has(fs, "HELLO"),
         (n.code = k.code /\ Told(k, n, fs)) \/ PutOut(k, n, fs), k.up # <<>>, n.up = Tail(k.up), Carried(fs) \subseteq d,
         Open(n) => Carries(Head(k.up)) \subseteq d \cup gone,
         Carries(Head(k.up)) \subseteq p.doc => d \subseteq doc \cup p.doc,
         Open(n) /\ Head(k.up).op = "STEP1" /\ Head(k.up).has \subseteq p.doc => doc \subseteq p.doc \cup Carried(fs)
  PROVE  Passes(k, n, p, gone, d)
<1>1. /\ n.born = k.born /\ (Open(n) => Open(k))
      /\ Carried(n.down) \subseteq Carried(k.down) \cup Carried(fs)
      /\ \A f \in Range(n.down) : f.op = "HELLO" => f \in Range(k.down)
      /\ Open(n) /\ k.live => Carried(n.down) = Carried(k.down) \cup Carried(fs)
  BY SentDown
<1>2. k.up \in Seq(UpFrames)
  BY DEF Socket
<1>3. /\ Range(k.up) = {Head(k.up)} \cup Range(n.up) /\ Carried(k.up) = Carries(Head(k.up)) \cup Carried(n.up)
  BY <1>2, FirstAndRest, CarriedFirst
<1>4. Has(k.up, "STEP1") /\ ~Has(n.up, "STEP1") => Head(k.up).op = "STEP1" /\ Head(k.up) \in Range(k.up)
  BY <1>3 DEF Has
<1>5. /\ Carried(n.up) \subseteq Carried(k.up) /\ Range(n.up) \subseteq Range(k.up)
      /\ Carried(n.down) \subseteq Carried(k.down) \cup d
  BY <1>1, <1>3
<1>6. Open(n) /\ k.live =>
       /\ Carried(k.up) \subseteq Carried(n.up) \cup d \cup gone
       /\ Carried(k.down) \subseteq Carried(n.down)
       /\ Carried(k.up) \subseteq p.doc => d \subseteq doc \cup p.doc \cup Carried(n.down)
       /\ /\ Has(k.up, "STEP1") /\ ~Has(n.up, "STEP1")
          /\ \A f \in Range(k.up) : f.op = "STEP1" => f.has \subseteq p.doc
          => doc \subseteq p.doc \cup Carried(n.down)
  BY <1>1, <1>3, <1>4
<1> QED BY <1>1, <1>5, <1>6 DEF Passes

\* A socket that is left alone.
LEMMA UnmovedPasses ==
  ASSUME NEW k \in Socket, NEW p \in Page, NEW gone, NEW d, d = doc
  PROVE  Passes(k, k, p, gone, d)
BY DEF Passes

\* What the actor sends carries nothing, but for updates and the answer to a state vector.
LEMMA NothingCarried ==
  ASSUME Types
  PROVE  /\ Carried(<<>>) = {}
         /\ \A f \in DownFrames : Carried(<<f>>) = Carries(f)
         /\ \A kind \in {"locked", "trashed", "epoch", "acl", "limit"} :
              Carried(<<Refusal(kind)>>) = {} /\ Carried(<<Refusal(kind), Reset>>) = {}
<1>1. Reset \in DownFrames /\ Carries(Reset) = {}
  BY SentAre DEF Reset, Carries
<1>2. \A kind \in {"locked", "trashed", "epoch", "acl", "limit"} : Refusal(kind) \in DownFrames /\ Carries(Refusal(kind)) = {}
  BY SentAre DEF Refusal, Carries
<1>3. \A f, g \in DownFrames : Carried(<<f, g>>) = Carries(f) \cup Carries(g)
  BY CarriedIs
<1>4. \A f \in DownFrames : Carried(<<f>>) = Carries(f)
  BY CarriedIs
<1>5. ASSUME NEW kind \in {"locked", "trashed", "epoch", "acl", "limit"}
      PROVE  Carried(<<Refusal(kind)>>) = {} /\ Carried(<<Refusal(kind), Reset>>) = {}
  <2>1. Carried(<<Refusal(kind)>>) = Carries(Refusal(kind))
    BY <1>2, <1>4
  <2>2. Carried(<<Refusal(kind), Reset>>) = Carries(Refusal(kind)) \cup Carries(Reset)
    BY <1>1, <1>2, <1>3
  <2> QED BY <1>1, <1>2, <2>1, <2>2
<1>6. Carried(<<>>) = {}
  BY CarriedIs
<1> QED BY <1>4, <1>5, <1>6

\* One socket is passed on; the document is as it was.
LEMMA OnePasses ==
  ASSUME CInv, LInv', UNCHANGED <<tabs, epoch, typed, early, doc, saved, versions, asked, undone>>,
         NEW t \in Tabs, NEW s \in Slots, NEW n \in Socket, Updates(t, s, n),
         NEW gone \in Content, refused' = [refused EXCEPT ![t] = gone], refused[t] \subseteq gone, gone \subseteq typed,
         NEW d, d = doc, Passes(socks[t][s], n, tabs[t], gone, d)
  PROVE  CInv'
<1>1. Types /\ LInv /\ Documents
  BY DEF CInv, LInv, Contents
<1>2. \A u \in Tabs, r \in Slots : socks'[u][r] = IF u = t /\ r = s THEN n ELSE socks[u][r]
  BY <1>1, UpdatesAt
<1>3. \A u \in Tabs : refused'[u] = IF u = t THEN gone ELSE refused[u]
  BY <1>1 DEF Types
<1>4. \A u \in Tabs : refused[u] \subseteq refused'[u] /\ refused'[u] \subseteq typed
  <2>1. \A u \in Tabs : refused[u] \subseteq typed
    BY ContentIs DEF PageContent
  <2> QED BY <1>3, <2>1
<1>5. ASSUME NEW u \in Tabs, NEW r \in Slots
      PROVE  Passes(socks[u][r], socks'[u][r], tabs[u], refused'[u], doc')
  <2>1. doc' = d
    OBVIOUS
  <2>2. CASE u = t /\ r = s
    BY <1>2, <1>3, <2>1, <2>2
  <2>3. CASE ~(u = t /\ r = s)
    <3>1. socks[u][r] \in Socket /\ tabs[u] \in Page /\ socks'[u][r] = socks[u][r]
      BY <1>1, <1>2, <2>3 DEF Types
    <3> QED BY <2>1, <3>1, UnmovedPasses
  <2> QED BY <2>2, <2>3
<1>6. Documents'
  BY <1>1 DEF Documents
<1>7. doc \subseteq doc' /\ undone' \subseteq undone
  OBVIOUS
<1> QED BY <1>4, <1>5, <1>6, <1>7, PassedOn

\* An acknowledgement carries nothing.
LEMMA AckContents ==
  ASSUME CInv, NEW t \in Tabs, NEW s \in Slots, HandleAck(t, s)
  PROVE  CInv'
<1> DEFINE k == socks[t][s]
<1>1. LInv' /\ LInv /\ Types
  BY AckLinks DEF CInv, LInv
<1>2. UNCHANGED <<tabs, epoch, typed, early, doc, saved, versions, asked, undone, refused>>
  BY DEF HandleAck, node, actor, seen
<1>3. Head(k.up).op = "ACK" /\ k.up # <<>> /\ k \in Socket /\ tabs[t] \in Page
  BY <1>1, AckIs DEF Types
<1>4. PICK n \in Socket :
        /\ Updates(t, s, n) /\ n.up = Tail(k.up)
        /\ (n.code = k.code /\ Told(k, n, <<>>)) \/ PutOut(k, n, <<Refusal("epoch"), Reset>>)
  BY <1>1, AckIs
<1>5. PICK gone \in Content : gone = refused[t] /\ refused' = [refused EXCEPT ![t] = gone] /\ gone \subseteq typed
  BY <1>1, <1>2, ContentIs DEF Types, PageContent
<1>6. PICK d : d = doc
  OBVIOUS
<1>7. Carries(Head(k.up)) = {}
  BY <1>3 DEF Carries
<1> HIDE DEF k
<1>8. PICK fs \in Seq(DownFrames) :
        ~Has(fs, "HELLO") /\ Carried(fs) = {} /\ ((n.code = k.code /\ Told(k, n, fs)) \/ PutOut(k, n, fs))
  BY <1>1, <1>4, NoGreeting, NothingCarried
<1>9. Passes(k, n, tabs[t], gone, d)
  BY <1>3, <1>4, <1>6, <1>7, <1>8, TakenPasses
<1> QED BY <1>1, <1>2, <1>4, <1>5, <1>6, <1>9, OnePasses DEF k

\* The answer to a state vector carries all that the page lacks.
LEMMA Step1Contents ==
  ASSUME CInv, NEW t \in Tabs, NEW s \in Slots, HandleStep1(t, s)
  PROVE  CInv'
<1> DEFINE k == socks[t][s]
<1>1. LInv' /\ LInv /\ Types
  BY Step1Links DEF CInv, LInv
<1>2. UNCHANGED <<tabs, epoch, typed, early, doc, saved, versions, asked, undone, refused>>
  BY DEF HandleStep1, node, actor, seen
<1>3. Head(k.up).op = "STEP1" /\ k.up # <<>> /\ k \in Socket /\ tabs[t] \in Page
  BY <1>1, Step1Is DEF Types
<1>4. PICK n \in Socket : \E f \in DownFrames :
        /\ Updates(t, s, n) /\ n.up = Tail(k.up) /\ n.code = k.code /\ Told(k, n, <<f>>)
        /\ f.op = "SYNC" /\ f.edits = doc \ Head(k.up).has
  BY <1>1, Step1Is
<1>5. PICK f \in DownFrames :
        /\ Updates(t, s, n) /\ n.up = Tail(k.up) /\ n.code = k.code /\ Told(k, n, <<f>>)
        /\ f.op = "SYNC" /\ f.edits = doc \ Head(k.up).has
  BY <1>4
<1>6. PICK gone \in Content : gone = refused[t] /\ refused' = [refused EXCEPT ![t] = gone] /\ gone \subseteq typed
  BY <1>1, <1>2, ContentIs DEF Types, PageContent
<1>7. PICK d : d = doc
  OBVIOUS
<1>8. Carries(Head(k.up)) = {}
  BY <1>3 DEF Carries
<1> HIDE DEF k
<1>9. Carries(f) = doc \ Head(k.up).has
  BY <1>5 DEF Carries
<1>10. <<f>> \in Seq(DownFrames) /\ ~Has(<<f>>, "HELLO") /\ Carried(<<f>>) = doc \ Head(k.up).has
  BY <1>1, <1>5, <1>9, NoGreeting, NothingCarried
<1>11. PICK fs \in Seq(DownFrames) :
         ~Has(fs, "HELLO") /\ Carried(fs) = doc \ Head(k.up).has /\ n.code = k.code /\ Told(k, n, fs)
  BY <1>5, <1>10
<1>12. Passes(k, n, tabs[t], gone, d)
  BY <1>3, <1>5, <1>7, <1>8, <1>11, TakenPasses
<1> QED BY <1>1, <1>2, <1>5, <1>6, <1>7, <1>12, OnePasses DEF k

\* What is refused is remembered as refused.
LEMMA RefusedContents ==
  ASSUME CInv, NEW t \in Tabs, NEW s \in Slots, Given(t, s, "STEP2") \/ Given(t, s, "UPDATE"),
         NEW kind \in {"locked", "trashed", "epoch", "acl", "limit"}, HandleRefused(t, s, kind),
         UNCHANGED <<saved, asked>>
  PROVE  CInv'
<1> DEFINE k == socks[t][s]
           f == Head(k.up)
<1>1. LInv' /\ LInv /\ Types
  BY RefusedLinks DEF CInv, LInv
<1>2. UNCHANGED <<tabs, epoch, typed, early, doc, versions, undone>>
  BY DEF HandleRefused, actor
<1>3. k.up # <<>> /\ k \in Socket /\ f.op \in {"STEP2", "UPDATE"} /\ f.edits \in Content /\ tabs[t] \in Page
      /\ refused[t] \in Content
  BY <1>1, GivenIs, UpFrameIs DEF Types
<1>4. PICK n \in Socket :
        /\ Updates(t, s, n) /\ n.up = Tail(k.up)
        /\ \/ n.code = k.code /\ Told(k, n, <<>>)
           \/ n.code = k.code /\ kind # "epoch" /\ Told(k, n, <<Refusal(kind)>>)
           \/ PutOut(k, n, <<Refusal(kind), Reset>>)
  BY <1>1, RefusedIs
<1>5. refused' = [refused EXCEPT ![t] = refused[t] \cup (f.edits \ doc)]
  BY <1>1, RefusedIs DEF Types
<1>6. Carries(f) = f.edits
  BY <1>3 DEF Carries
<1>7. SocketContent(k) /\ refused[t] \subseteq typed
  BY ContentIs DEF PageContent
<1> HIDE DEF k
<1>8. Carries(f) \subseteq Carried(k.up)
  BY <1>3, CarriedFirst DEF Socket
<1> HIDE DEF f
<1>9. PICK gone \in Content : gone = refused[t] \cup (f.edits \ doc)
  BY <1>3 DEF Content
<1>10. refused[t] \subseteq gone /\ gone \subseteq typed /\ refused' = [refused EXCEPT ![t] = gone]
  BY <1>5, <1>6, <1>7, <1>8, <1>9 DEF SocketContent
<1>11. PICK d : d = doc
  OBVIOUS
<1>12. PICK fs \in Seq(DownFrames) :
         ~Has(fs, "HELLO") /\ Carried(fs) = {} /\ ((n.code = k.code /\ Told(k, n, fs)) \/ PutOut(k, n, fs))
  BY <1>1, <1>4, NoGreeting, NothingCarried
<1>13. Carries(f) \subseteq d \cup gone /\ f.op # "STEP1"
  BY <1>3, <1>6, <1>9, <1>11
<1>14. Passes(k, n, tabs[t], gone, d)
  BY <1>3, <1>4, <1>11, <1>12, <1>13, TakenPasses DEF f
<1> QED BY <1>1, <1>2, <1>4, <1>10, <1>11, <1>14, OnePasses DEF k

\* A write with nothing new is in the document already.
LEMMA TakenContents ==
  ASSUME CInv, LInv', NEW t \in Tabs, NEW s \in Slots, Given(t, s, "STEP2") \/ Given(t, s, "UPDATE"),
         Head(socks[t][s].up).edits \subseteq doc, Updates(t, s, Taken(t, s)),
         UNCHANGED <<row, calls, asked, saved, epoch, locked, trashed, versions, tabs, typed, early, lost, doc, undone, refused>>
  PROVE  CInv'
<1> DEFINE k == socks[t][s]
<1>1. LInv /\ Types
  BY DEF CInv, LInv
<1>2. /\ k.up # <<>> /\ k \in Socket /\ Head(k.up).op \in {"STEP2", "UPDATE"} /\ tabs[t] \in Page
      /\ Taken(t, s) \in Socket /\ Alike(k, Taken(t, s)) /\ Taken(t, s).down = k.down /\ Taken(t, s).up = Tail(k.up)
  BY <1>1, GivenIs DEF Types
<1>3. PICK n \in Socket : n = Taken(t, s)
  BY <1>2
<1>4. PICK gone \in Content : gone = refused[t] /\ refused' = [refused EXCEPT ![t] = gone] /\ gone \subseteq typed
  BY <1>1, ContentIs DEF Types, PageContent
<1>5. PICK d : d = doc
  OBVIOUS
<1>6. Carries(Head(k.up)) \subseteq d
  BY <1>2, <1>5 DEF Carries
<1> HIDE DEF k
<1>7. <<>> \in Seq(DownFrames) /\ ~Has(<<>>, "HELLO") /\ Carried(<<>>) = {} /\ n.code = k.code /\ Told(k, n, <<>>)
  BY <1>1, <1>2, <1>3, NoGreeting, NothingCarried, Stays DEF Told, Alike
<1>8. PICK fs \in Seq(DownFrames) : ~Has(fs, "HELLO") /\ Carried(fs) = {} /\ n.code = k.code /\ Told(k, n, fs)
  BY <1>7
<1>9. Passes(k, n, tabs[t], gone, d)
  BY <1>2, <1>3, <1>5, <1>6, <1>8, TakenPasses
<1> QED BY <1>1, <1>3, <1>4, <1>5, <1>9, OnePasses DEF k

\* What is applied is in the document, and on its way to every page.
LEMMA AppliedContents ==
  ASSUME CInv, NEW t \in Tabs, NEW s \in Slots, Given(t, s, "STEP2") \/ Given(t, s, "UPDATE"), HandleApplied(t, s)
  PROVE  CInv'
<1> DEFINE f == Head(socks[t][s].up)
           g == Write("UPDATE", f.edits)
<1>1. LInv' /\ LInv /\ Types /\ Types'
  BY AppliedLinks DEF CInv, LInv
<1>2. UNCHANGED <<tabs, epoch, typed, early, saved, versions, asked, refused>>
  BY DEF HandleApplied, node
<1>3. /\ f.edits \in Content /\ doc' = doc \cup f.edits /\ undone' = undone \ f.edits /\ g \in DownFrames
      /\ \A u \in Tabs, r \in Slots :
           /\ Alike(socks[u][r], socks'[u][r])
           /\ u = t /\ r = s => /\ socks'[u][r].up = Tail(socks[u][r].up)
                                /\ socks'[u][r].down = socks[u][r].down
           /\ ~(u = t /\ r = s) => /\ socks'[u][r].up = socks[u][r].up
                                   /\ Told(socks[u][r], socks'[u][r], <<g>>)
  BY <1>1, AppliedIs
<1>4. socks[t][s].up # <<>> /\ f.op \in {"STEP2", "UPDATE"}
  BY <1>1, GivenIs
<1>5. Carries(f) = f.edits /\ Carries(g) = f.edits /\ g.op # "HELLO"
  BY <1>4 DEF Carries, Write
<1> HIDE DEF g
<1>6. <<g>> \in Seq(DownFrames) /\ ~Has(<<g>>, "HELLO") /\ Carried(<<g>>) = f.edits
  BY <1>1, <1>3, <1>5, NoGreeting, NothingCarried
<1>7. <<>> \in Seq(DownFrames) /\ ~Has(<<>>, "HELLO") /\ Carried(<<>>) = {}
  BY <1>1, NoGreeting, NothingCarried
<1>8. f.edits \subseteq typed
  <2>1. SocketContent(socks[t][s]) /\ socks[t][s] \in Socket
    BY <1>1, ContentIs DEF Types
  <2> DEFINE k == socks[t][s]
  <2>2. k.up \in Seq(UpFrames) /\ k.up # <<>> /\ Carried(k.up) \subseteq typed
    BY <1>4, <2>1 DEF Socket, SocketContent
  <2> HIDE DEF k
  <2>3. Carries(Head(k.up)) \subseteq Carried(k.up)
    BY <2>2, CarriedFirst
  <2> QED BY <1>5, <2>2, <2>3 DEF k
<1>9. Documents'
  <2>1. Documents
    BY DEF CInv, Contents
  <2>2. saved \cap (undone \ f.edits) = {}
    BY <2>1 DEF Documents
  <2> QED BY <1>2, <1>3, <1>8, <2>1, <2>2 DEF Documents
<1>10. PICK d : d = doc'
  OBVIOUS
<1>11. d = doc \cup f.edits
  BY <1>3, <1>10
<1>12. ASSUME NEW u \in Tabs, NEW r \in Slots
       PROVE  Passes(socks[u][r], socks'[u][r], tabs[u], refused'[u], doc')
  <2> DEFINE k == socks[u][r]
             n == socks'[u][r]
  <2>1. k \in Socket /\ n \in Socket /\ n.code = k.code /\ tabs[u] \in Page
    BY <1>1, <1>3 DEF Types, Alike
  <2>2. PICK gone : gone = refused'[u]
    OBVIOUS
  <2>3. CASE u = t /\ r = s
    <3>1. n.up = Tail(k.up) /\ k.up # <<>> /\ Told(k, n, <<>>) /\ Head(k.up).op # "STEP1" /\ Carries(Head(k.up)) = f.edits
      BY <1>3, <1>4, <1>5, <2>1, <2>3, Stays, SMTT(30) DEF Told, Alike
    <3> HIDE DEF k, n, f
    <3>2. PICK fs \in Seq(DownFrames) : ~Has(fs, "HELLO") /\ Carried(fs) = {} /\ n.code = k.code /\ Told(k, n, fs)
      BY <1>7, <2>1, <3>1
    <3>3. Passes(k, n, tabs[u], gone, d)
      BY <1>11, <2>1, <3>1, <3>2, TakenPasses
    <3> QED BY <1>10, <2>2, <3>3 DEF k, n
  <2>4. CASE ~(u = t /\ r = s)
    <3>1. n.up = k.up /\ Told(k, n, <<g>>)
      BY <1>3, <2>4
    <3> HIDE DEF k, n, f
    <3>2. PICK fs \in Seq(DownFrames) : ~Has(fs, "HELLO") /\ Carried(fs) = f.edits /\ n.code = k.code /\ Told(k, n, fs)
      BY <1>6, <2>1, <3>1
    <3>3. Passes(k, n, tabs[u], gone, d)
      BY <1>11, <2>1, <3>1, <3>2, SentPasses
    <3> QED BY <1>10, <2>2, <3>3 DEF k, n
  <2> QED BY <2>3, <2>4
<1>13. \A u \in Tabs : refused[u] \subseteq refused'[u] /\ refused'[u] \subseteq typed
  BY <1>2, ContentIs DEF PageContent
<1>14. doc \subseteq doc' /\ undone' \subseteq undone
  BY <1>3
<1> QED BY <1>1, <1>2, <1>9, <1>12, <1>13, <1>14, PassedOn

\* A write is one of these.
LEMMA WriteContents ==
  ASSUME CInv, NEW t \in Tabs, NEW s \in Slots, HandleWrite(t, s)
  PROVE  CInv'
<1> DEFINE f == Head(socks[t][s].up)
<1>1. /\ Given(t, s, "STEP2") \/ Given(t, s, "UPDATE")
      /\ UNCHANGED <<row, calls, asked, saved, epoch, locked, trashed, versions, tabs, typed, early, lost>>
      /\ \/ \E kind \in {"locked", "trashed", "epoch", "acl", "limit"} : HandleRefused(t, s, kind)
         \/ f.edits \subseteq doc /\ Updates(t, s, Taken(t, s)) /\ UNCHANGED <<doc, undone, refused>>
         \/ HandleApplied(t, s)
  BY WriteIs DEF CInv, LInv
<1>2. LInv'
  BY WriteLinks DEF CInv
<1>3. UNCHANGED <<saved, asked>>
  BY <1>1
<1>4. CASE \E kind \in {"locked", "trashed", "epoch", "acl", "limit"} : HandleRefused(t, s, kind)
  BY <1>1, <1>3, <1>4, RefusedContents
<1>5. CASE f.edits \subseteq doc /\ Updates(t, s, Taken(t, s)) /\ UNCHANGED <<doc, undone, refused>>
  <2>1. UNCHANGED <<row, calls, asked, saved, epoch, locked, trashed, versions, tabs, typed, early, lost, doc, undone, refused>>
    BY <1>1, <1>5
  <2> QED BY <1>1, <1>2, <1>5, <2>1, TakenContents
<1>6. CASE HandleApplied(t, s)
  BY <1>1, <1>6, AppliedContents
<1> QED BY <1>1, <1>4, <1>5, <1>6

\* A socket is forgotten, and the document may be saved.
LEMMA DepartsContents ==
  ASSUME CInv, NEW t \in Tabs, NEW s \in Slots, Departs(t, s)
  PROVE  CInv'
<1>1. LInv' /\ LInv /\ Types
  BY DepartsLinks DEF CInv, LInv
<1>2. /\ ~socks[t][s].live /\ Updates(t, s, Vacant)
      /\ UNCHANGED <<asked, doc, epoch, tabs, typed, undone, early, refused>>
      /\ \/ UNCHANGED <<saved, versions>>
         \/ saved' = doc /\ versions' = versions \cup {doc}
  BY <1>1, DepartsIs
<1>3. \A u \in Tabs, r \in Slots : socks'[u][r] = IF u = t /\ r = s THEN Vacant ELSE socks[u][r]
  BY <1>1, <1>2, UpdatesAt, VacantIs
<1>4. Documents'
  BY <1>2 DEF CInv, Contents, Documents
<1>5. ASSUME NEW u \in Tabs, NEW r \in Slots
      PROVE  SocketContent(socks[u][r])'
  <2>1. SocketContent(socks[u][r])
    BY ContentIs
  <2>2. CASE u = t /\ r = s
    <3>1. socks'[u][r] = Vacant /\ Range(Vacant.down) = {} /\ Carried(Vacant.down) = {} /\ Carried(Vacant.up) = {}
      BY <1>3, <2>2, VacantIs, CarriedIs DEF Vacant
    <3> QED BY <3>1 DEF SocketContent
  <2>3. CASE ~(u = t /\ r = s)
    BY <1>2, <1>3, <2>1, <2>3 DEF SocketContent
  <2> QED BY <2>2, <2>3
<1>6. ASSUME NEW u \in Tabs
      PROVE  PageContent(tabs[u], Sock(u), refused[u])'
  <2>1. PageContent(tabs[u], Sock(u), refused[u])
    BY ContentIs
  <2>2. tabs[u].state = "up" => Sock(u)' = Sock(u)
    <3>1. tabs[u].state = "up" => tabs[u].slot \in Slots /\ Sock(u).live /\ Sock(u) = socks[u][tabs[u].slot]
      BY <1>1, PageAndSocket DEF PageOK
    <3> QED BY <1>2, <1>3, <3>1 DEF Sock
  <2> QED BY <1>2, <2>1, <2>2 DEF PageContent
<1> QED BY <1>1, <1>4, <1>5, <1>6 DEF CInv, Contents

\* A restore leaves every page on an older generation.
LEMMA RestoreContents ==
  ASSUME CInv, NEW v, Restore(v)
  PROVE  CInv'
<1>1. LInv' /\ LInv /\ Types /\ epoch \in Nat
  BY RestoreLinks DEF CInv, LInv, Types
<1>2. /\ v \in asked /\ asked' = asked \ {v} /\ versions' = versions \cup {doc}
      /\ doc' = v /\ saved' = v /\ epoch' = epoch + 1 /\ undone' = Superseded(v)
      /\ UNCHANGED <<tabs, typed, early, refused>>
  BY <1>1, RestoreIs
<1>3. Documents'
  <2>1. Documents
    BY DEF CInv, Contents
  <2>2. \A u \in Tabs : tabs[u].doc \subseteq typed
    BY ContentIs DEF PageContent
  <2>3. Superseded(v) \subseteq typed /\ v \cap Superseded(v) = {} /\ v \subseteq typed /\ v \in versions
    BY <1>2, <2>1, <2>2 DEF Superseded, Documents
  <2> QED BY <1>2, <2>1, <2>3 DEF Documents
<1>4. ASSUME NEW u \in Tabs, NEW r \in Slots
      PROVE  SocketContent(socks[u][r])' /\ ~Open(socks'[u][r])
  <2> DEFINE k == socks[u][r]
             n == socks'[u][r]
  <2>1. SocketContent(k) /\ k \in Socket /\ n \in Socket /\ SocketOK(k, tabs[u], r)
    BY <1>1, ContentIs DEF LInv, Links, Types
  <2>2. n.up = k.up /\ (~Open(k) => n = k) /\ (Open(k) => PutOut(k, n, <<Reset>>))
    BY <1>1, RestoreIs
  <2>3. Reset \in DownFrames /\ Carries(Reset) = {} /\ Reset.op # "HELLO"
    BY <1>1, SentAre DEF Reset, Carries
  <2>4. <<Reset>> \in Seq(DownFrames) /\ ~Has(<<Reset>>, "HELLO") /\ Carried(<<Reset>>) = {}
    BY <1>1, <2>3, NoGreeting, NothingCarried
  <2> HIDE DEF k, n
  <2>5. Open(k) => n.born = k.born /\ Carried(n.down) \subseteq Carried(k.down)
    BY <2>1, <2>2, <2>4, SentDown
  <2>6. ~Open(n)
    BY <2>2 DEF PutOut, Open
  <2>7. n.born = k.born /\ Carried(n.down) \subseteq Carried(k.down) /\ Carried(n.up) = Carried(k.up)
    BY <2>2, <2>5
  <2>8. n.born <= epoch /\ n.born \in Nat
    BY <2>1, <2>7 DEF SocketOK, Socket
  <2>9. n.born # epoch + 1
    BY <1>1, <2>8
  <2>10. Carried(n.up) \subseteq typed /\ Carried(n.down) \subseteq typed
    BY <2>1, <2>7 DEF SocketContent
  <2> QED BY <1>2, <2>6, <2>9, <2>10 DEF SocketContent, n
<1>5. ASSUME NEW u \in Tabs
      PROVE  PageContent(tabs[u], Sock(u), refused[u])'
  <2>1. PageContent(tabs[u], Sock(u), refused[u]) /\ PageOK(tabs[u], Sock(u)) /\ tabs[u] \in Page
        /\ (tabs[u].state = "up" => tabs[u].slot \in Slots)
    BY <1>1, ContentIs, PageAndSocket
  <2>2. tabs[u].state = "up" => ~Open(Sock(u)')
    BY <1>2, <1>4, <2>1 DEF Sock
  <2>3. tabs[u].heard # epoch + 1
    <3>1. epoch + 1 \in Nat /\ epoch + 1 # NoEpoch
      BY <1>1, MarksAssumption
    <3> QED BY <1>1, <2>1, <3>1 DEF PageOK, Page
  <2> QED BY <1>2, <2>1, <2>2, <2>3 DEF PageContent
<1> QED BY <1>1, <1>3, <1>4, <1>5 DEF CInv, Contents

\* The node's calls carry no content.
LEMMA DeliverContents ==
  ASSUME CInv, Deliver
  PROVE  CInv'
<1>1. LInv' /\ LInv /\ Types /\ Types'
  BY DeliverLinks DEF CInv, LInv
<1>2. UNCHANGED <<asked, doc, saved, epoch, versions, tabs, typed, undone, early, refused>>
  BY <1>1, DeliverIs
<1>3. PICK d : d = doc'
  OBVIOUS
<1>4. ASSUME NEW u \in Tabs, NEW r \in Slots
      PROVE  Passes(socks[u][r], socks'[u][r], tabs[u], refused'[u], doc')
  <2> DEFINE k == socks[u][r]
             n == socks'[u][r]
  <2>1. k \in Socket /\ n \in Socket /\ tabs[u] \in Page
    BY <1>1 DEF Types
  <2>2. PICK gone : gone = refused'[u]
    OBVIOUS
  <2>3. /\ n.up = k.up
        /\ \/ n.code = k.code /\ Told(k, n, <<>>)
           \/ n.code = "revoked" /\ PutOut(k, n, <<>>)
           \/ \E f \in DownFrames : n.code = k.code /\ Told(k, n, <<f>>) /\ f.op = "STATE"
    BY <1>1, DeliverIs, ZenonT(60)
  <2> HIDE DEF k, n
  <2>4. PICK fs \in Seq(DownFrames) :
          ~Has(fs, "HELLO") /\ Carried(fs) = {} /\ ((n.code = k.code /\ Told(k, n, fs)) \/ PutOut(k, n, fs))
    <3>1. CASE (n.code = k.code /\ Told(k, n, <<>>)) \/ PutOut(k, n, <<>>)
      BY <1>1, <3>1, NoGreeting, NothingCarried
    <3>2. CASE \E f \in DownFrames : n.code = k.code /\ Told(k, n, <<f>>) /\ f.op = "STATE"
      <4>1. PICK f \in DownFrames : n.code = k.code /\ Told(k, n, <<f>>) /\ f.op = "STATE"
        BY <3>2
      <4>2. <<f>> \in Seq(DownFrames) /\ ~Has(<<f>>, "HELLO") /\ Carried(<<f>>) = {}
        BY <1>1, <4>1, NoGreeting, NothingCarried DEF Carries
      <4> QED BY <4>1, <4>2
    <3> QED BY <2>3, <3>1, <3>2
  <2>5. Passes(k, n, tabs[u], gone, d)
    BY <1>2, <1>3, <2>1, <2>3, <2>4, SentPasses
  <2> QED BY <1>3, <2>2, <2>5 DEF k, n
<1>5. \A u \in Tabs : refused[u] \subseteq refused'[u] /\ refused'[u] \subseteq typed
  BY <1>2, ContentIs DEF PageContent
<1>6. Documents' /\ doc \subseteq doc' /\ undone' \subseteq undone
  BY <1>2 DEF CInv, Contents, Documents
<1> QED BY <1>1, <1>2, <1>4, <1>5, <1>6, PassedOn

\* After a crash the document is the saved one, and nothing is on its way.
LEMMA CrashContents ==
  ASSUME CInv, Crash
  PROVE  CInv'
<1>1. LInv' /\ LInv
  BY CrashLinks DEF CInv
<1>2. /\ asked' = {} /\ doc' = saved
      /\ UNCHANGED <<saved, epoch, versions, typed, undone, early, refused>>
      /\ \A t \in Tabs, s \in Slots : socks'[t][s] = Vacant
      /\ \A t \in Tabs :
           /\ tabs'[t].doc = tabs[t].doc /\ tabs'[t].heard = tabs[t].heard
           /\ tabs[t].state # "up" => tabs'[t] = tabs[t]
           /\ tabs[t].state = "up" => tabs'[t].state # "up"
  BY <1>1, CrashIs DEF LInv
<1>3. Documents'
  BY <1>2 DEF CInv, Contents, Documents
<1>4. Range(Vacant.down) = {} /\ Carried(Vacant.down) = {} /\ Carried(Vacant.up) = {}
  BY VacantIs, CarriedIs DEF Vacant
<1>5. \A t \in Tabs, s \in Slots : SocketContent(socks[t][s])'
  BY <1>2, <1>4 DEF SocketContent
<1>6. ASSUME NEW t \in Tabs
      PROVE  PageContent(tabs[t], Sock(t), refused[t])'
  BY <1>2, ContentIs DEF PageContent
<1> QED BY <1>1, <1>3, <1>5, <1>6 DEF CInv, Contents

\* At first nothing was typed.
LEMMA InitContents == Init => CInv
<1> SUFFICES ASSUME Init PROVE CInv
  OBVIOUS
<1>1. Range(Vacant.down) = {} /\ Carried(Vacant.down) = {} /\ Carried(Vacant.up) = {}
  BY VacantIs, CarriedIs DEF Vacant
<1>2. \A t \in Tabs, s \in Slots : SocketContent(socks[t][s])
  BY <1>1 DEF Init, SocketContent
<1>3. \A t \in Tabs : PageContent(tabs[t], Sock(t), refused[t])
  BY DEF Init, PageContent, FreshTab
<1>4. Documents
  BY DEF Init, Documents
<1> QED BY <1>2, <1>3, <1>4, InitLinks DEF CInv, Contents

\* Every step keeps the contents.
LEMMA ContentsHold == CInv /\ [Next]_vars => CInv'
<1> SUFFICES ASSUME CInv, [Next]_vars PROVE CInv'
  OBVIOUS
<1>1. LInv' /\ LInv /\ Types
  BY LinksHold DEF CInv, LInv
<1>2. ASSUME UNCHANGED <<doc, epoch, socks, tabs, typed, undone, early, refused>>, Documents'
      PROVE  CInv'
  <2>1. \A u \in Tabs, r \in Slots : SocketContent(socks[u][r])'
    BY <1>2, ContentIs DEF SocketContent
  <2>2. \A u \in Tabs : PageContent(tabs[u], Sock(u), refused[u])'
    BY <1>2, ContentIs DEF PageContent, Sock
  <2> QED BY <1>1, <1>2, <2>1, <2>2 DEF CInv, Contents
<1>3. ASSUME NEW t \in Tabs, NEW e \in Edits, Type(t, e) PROVE CInv'
  BY <1>3, TypeContents
<1>4. ASSUME NEW t \in Tabs, Mint(t) \/ Connect(t) \/ Hears(t) \/ HearsClose(t) \/ LinkDies(t) PROVE CInv'
  BY <1>4, MintContents, ConnectContents, HearsContents, LeavesContents
<1>5. ASSUME NEW t \in Tabs, NEW s \in Slots, Handle(t, s) \/ Departs(t, s) PROVE CInv'
  BY <1>5, AckContents, Step1Contents, WriteContents, DepartsContents DEF Handle
<1>6. ASSUME NEW t \in Tabs, NEW what \in Flips, NEW tier \in Tiers, Flip(what, t, tier) PROVE CInv'
  <2>1. UNCHANGED <<asked, doc, saved, versions, epoch, socks, tabs, typed, undone, early, refused>>
    BY <1>1, <1>6, FlipIs
  <2> QED BY <1>2, <2>1 DEF CInv, Contents, Documents
<1>7. ASSUME NEW v \in Content, AskRestore(v) \/ Restore(v) PROVE CInv'
  <2>1. CASE AskRestore(v)
    <3>1. v \in versions /\ asked' = asked \cup {v}
          /\ UNCHANGED <<doc, saved, versions, epoch, socks, tabs, typed, undone, early, refused>>
      BY <1>1, <2>1, AskRestoreIs
    <3> QED BY <1>2, <3>1 DEF CInv, Contents, Documents
  <2> QED BY <1>7, <2>1, RestoreContents
<1>8. CASE Save
  <2>1. saved' = doc /\ versions' = versions \cup {doc}
        /\ UNCHANGED <<asked, doc, epoch, socks, tabs, typed, undone, early, refused>>
    BY <1>1, <1>8, SaveIs
  <2> QED BY <1>2, <2>1 DEF CInv, Contents, Documents
<1>9. CASE Deliver \/ Crash
  BY <1>9, DeliverContents, CrashContents
<1>10. CASE UNCHANGED vars
  BY <1>2, <1>10 DEF CInv, Contents, Documents, vars, node, actor, seen
<1> QED BY <1>3, <1>4, <1>5, <1>6, <1>7, <1>8, <1>9, <1>10 DEF Next

\* The inductive invariant of a document's content: in every reachable state each page that goes by a
\* generation has, or has on its way, all the document has, and nothing else but what is on its way to
\* the actor, was refused, or was typed before (doc-actor.ts, onMessage; stuga-provider.ts).
THEOREM ContentsInvariant == Spec => []CInv
BY InitContents, ContentsHold, PTL DEF Spec

-----------------------------------------------------------------------------
(* What follows from the contents *)

\* The invariant has every shape TypeOK names.
LEMMA ShapesImplied == CInv => TypeOK
<1> SUFFICES ASSUME CInv PROVE TypeOK
  OBVIOUS
<1>1. Types /\ Documents /\ LInv
  BY DEF CInv, LInv, Contents
<1>2. /\ row \in [locked : BOOLEAN, trashed : BOOLEAN, tier : [Tabs -> {"none", "read", "write"}]]
      /\ asked \subseteq versions /\ versions \subseteq Content
      /\ typed \in Content /\ doc \subseteq typed /\ saved \subseteq typed
      /\ undone \subseteq typed /\ early \subseteq typed
      /\ epoch \in Nat /\ locked \in BOOLEAN /\ trashed \in BOOLEAN /\ lost \in BOOLEAN
  BY <1>1 DEF Types, Documents, Row, TierNames
<1>3. UpFrames \subseteq Frames /\ DownFrames \subseteq Frames
  BY DEF UpFrames, DownFrames, Frames
<1>4. ASSUME NEW t \in Tabs, NEW s \in Slots
      PROVE  /\ socks[t][s].code \in {"vacant", "open", "reset", "revoked"}
             /\ socks[t][s].born \in 0 .. epoch
             /\ \A i \in DOMAIN socks[t][s].up : socks[t][s].up[i] \in Frames
             /\ \A i \in DOMAIN socks[t][s].down : socks[t][s].down[i] \in Frames
  <2> DEFINE k == socks[t][s]
  <2>1. k \in Socket /\ k.born <= epoch
    BY <1>1 DEF Types, LInv, Links, SocketOK
  <2> HIDE DEF k
  <2>2. Range(k.up) \subseteq UpFrames /\ Range(k.down) \subseteq DownFrames
    BY <2>1, Holds DEF Socket
  <2>3. k.code \in {"vacant", "open", "reset", "revoked"} /\ k.born \in 0 .. epoch
    BY <1>2, <2>1 DEF Socket
  <2>4. (\A i \in DOMAIN k.up : k.up[i] \in Frames) /\ \A i \in DOMAIN k.down : k.down[i] \in Frames
    BY <1>3, <2>2 DEF Range
  <2> QED BY <2>3, <2>4 DEF k
<1>5. ASSUME NEW t \in Tabs
      PROVE  /\ tabs[t].doc \subseteq typed /\ refused[t] \subseteq typed
             /\ tabs[t].heard \in Nat \cup {NoEpoch}
             /\ tabs[t].ticket \in {"none", "read", "write"}
             /\ tabs[t].slot \in Slots <=> tabs[t].state = "up"
  <2>1. PageContent(tabs[t], Sock(t), refused[t]) /\ tabs[t] \in Page /\ PageOK(tabs[t], Sock(t))
    BY <1>1, ContentIs, PageAndSocket
  <2>2. tabs[t].slot \in Slots <=> tabs[t].state = "up"
    BY <2>1, MarksAssumption DEF PageOK
  <2> QED BY <2>1, <2>2 DEF PageContent, Page, TierNames
<1> QED BY <1>2, <1>4, <1>5 DEF TypeOK

\* Every part of the state keeps its shape, every socket belongs to a generation that was, and no
\* document, page or queue has an edit nobody typed (doc-actor.ts, stuga-provider.ts).
THEOREM TypeCorrect == Spec => []TypeOK
BY ContentsInvariant, ShapesImplied, PTL

\* With empty queues, what the contents say is that page and document are the same.
LEMMA SameImplied == CInv => QuietMeansSame
<1> SUFFICES ASSUME CInv, NEW t \in Tabs, Connected(t), Quiet(t)
             PROVE  doc \subseteq tabs[t].doc /\ tabs[t].doc \ doc \subseteq refused[t]
  BY DEF QuietMeansSame
<1>1. Range(<<>>) = {} /\ Carried(<<>>) = {} /\ ~Has(<<>>, "STEP1")
  BY Short, CarriedIs DEF Has, Range
<1> QED BY <1>1, ContentIs DEF PageContent, Connected, Quiet

\* Once nothing is on its way between a page and the actor, the page shows the whole document and
\* nothing more than it was told was refused: handshake and fan-out miss nothing (doc-actor.ts, connect
\* and onMessage; stuga-provider.ts, acceptEpoch and onMessage).
THEOREM QuietPagesAreWhole == Spec => []QuietMeansSame
BY ContentsInvariant, SameImplied, PTL

\* An edit that was undone comes back in a frame that is early, or on a socket of a generation before.
LEMMA OnlyFencedReturn ==
  ASSUME CInv, [Next]_vars, epoch' = epoch, NEW e \in undone \cap (doc' \ doc)
  PROVE  \/ e \in early
         \/ \E t \in Tabs, s \in Slots :
              /\ ~Open(socks[t][s]) /\ socks[t][s].born < epoch
              /\ Given(t, s, "STEP2") \/ Given(t, s, "UPDATE")
              /\ e \in Head(socks[t][s].up).edits
<1>1. LInv /\ Types /\ epoch \in Nat /\ Documents
  BY DEF CInv, LInv, Types, Contents
<1>2. ~Crash
  BY <1>1, CrashIs DEF Documents
<1>3. ASSUME NEW v, Restore(v) PROVE FALSE
  BY <1>1, <1>3 DEF Restore
<1>4. PICK t \in Tabs, s \in Slots : HandleWrite(t, s)
  <2>1. \A t \in Tabs : Type(t, e) \/ Mint(t) \/ Connect(t) \/ Hears(t) \/ HearsClose(t) \/ LinkDies(t) => doc' = doc
    BY DEF Type, Mint, Connect, Hears, HearsClose, LinkDies, actor
  <2>2. \A t \in Tabs, x \in Edits : Type(t, x) => doc' = doc
    BY DEF Type, actor
  <2>3. \A t \in Tabs, s \in Slots : HandleAck(t, s) \/ HandleStep1(t, s) \/ Departs(t, s) => doc' = doc
    BY DEF HandleAck, HandleStep1, Departs, actor
  <2>4. \A t \in Tabs, what \in Flips, tier \in Tiers : Flip(what, t, tier) => doc' = doc
    BY DEF Flip, actor
  <2>5. (\A v \in Content : AskRestore(v) => doc' = doc) /\ (Save \/ Deliver => doc' = doc) /\ (UNCHANGED vars => doc' = doc)
    BY DEF AskRestore, Save, Deliver, vars, actor
  <2> QED BY <1>2, <1>3, <2>1, <2>2, <2>3, <2>4, <2>5 DEF Next, Handle
<1> DEFINE k == socks[t][s]
           f == Head(k.up)
<1>5. (Given(t, s, "STEP2") \/ Given(t, s, "UPDATE")) /\ HandleApplied(t, s)
  BY <1>1, <1>4, WriteIs DEF HandleRefused, actor
<1>6. /\ doc' = doc \cup f.edits /\ f.op \in {"STEP2", "UPDATE"} /\ k.up # <<>> /\ k \in Socket
      /\ SocketContent(k) /\ SocketOK(k, tabs[t], s)
  <2>1. doc' = doc \cup f.edits
    BY <1>1, <1>5, AppliedIs
  <2>2. f.op \in {"STEP2", "UPDATE"} /\ k.up # <<>> /\ k \in Socket
    BY <1>1, <1>5, GivenIs
  <2>3. SocketContent(k) /\ SocketOK(k, tabs[t], s)
    BY <1>1, ContentIs DEF LInv, Links
  <2> QED BY <2>1, <2>2, <2>3
<1>7. e \in Carries(f) /\ e \in f.edits
  BY <1>6 DEF Carries
<1> HIDE DEF k, f
<1>8. Carries(f) \subseteq Carried(k.up)
  BY <1>6, CarriedFirst DEF Socket, f
<1>9. e \in early \/ k.born # epoch
  BY <1>6, <1>7, <1>8 DEF SocketContent
<1>10. k.born # epoch => k.born < epoch /\ ~Open(k)
  BY <1>1, <1>6 DEF SocketOK, Socket
<1> QED BY <1>5, <1>7, <1>9, <1>10 DEF k, f

\* Only an applied write brings an undone edit back.
LEMMA ReturnsFenced ==
  CInv /\ [Next]_vars =>
    [epoch' = epoch =>
      \A e \in undone \cap (doc' \ doc) :
        \/ e \in early
        \/ \E t \in Tabs, s \in Slots :
             /\ ~Open(socks[t][s]) /\ socks[t][s].born < epoch
             /\ Given(t, s, "STEP2") \/ Given(t, s, "UPDATE")
             /\ e \in Head(socks[t][s].up).edits]_vars
BY OnlyFencedReturn

\* What a restore took out comes back only in frames that were queued already on a socket closed by
\* then, never from a page that was away and returned (gates.ts, the rollback fence).
THEOREM RolledBackOnlyInOldQueues == Spec => ReturningTabsAreFenced
BY ContentsInvariant, ReturnsFenced, PTL DEF Spec, ReturningTabsAreFenced

-----------------------------------------------------------------------------
(* The rights of the pages: what the actor acts on follows the row of the    *)
(* node, and what a page goes by follows the actor.                          *)

\* A call says how the row is now, where it is the last of its kind.
Agrees(c) ==
  /\ c.op = "lock" => c.row.locked = row.locked
  /\ c.op = "trash" => c.row.trashed = row.trashed
  /\ c.op = "tier" => c.row.tier = row.tier

\* An open socket has no more rights than the row gives its page, unless a call is on its way.
Reached(t, k) ==
  /\ Has(calls, "trash") \/ trashed = row.trashed
  /\ Has(calls, "tier") \/ (row.tier[t] # "none" /\ (k.canWrite => row.tier[t] = "write"))

\* The last call of each kind says what the row has; what the actor has differs from the row only while
\* a call is on its way.
Mirrors ==
  /\ \A i \in DOMAIN calls : (\A j \in DOMAIN calls : j > i => calls[j].op # calls[i].op) => Agrees(calls[i])
  /\ lost \/ Has(calls, "lock") \/ locked = row.locked
  /\ \A t \in Tabs, s \in Slots : Open(socks[t][s]) => Reached(t, socks[t][s])

\* The invariant about the mirrors: with the links, inductive.
MInv == LInv /\ Mirrors

\* A socket stays open with the rights it has, or is opened for the tier the row gives.
LEMMA MirrorsStay ==
  ASSUME Mirrors, UNCHANGED <<row, calls, locked, lost>>, trashed' = trashed \/ trashed' = row.trashed,
         \A t \in Tabs, s \in Slots : Open(socks'[t][s]) =>
           \/ Open(socks[t][s]) /\ (socks'[t][s].canWrite <=> socks[t][s].canWrite)
           \/ /\ row.tier[t] # "none" /\ (socks'[t][s].canWrite => row.tier[t] = "write")
              /\ trashed' = row.trashed
  PROVE  Mirrors'
<1>1. ASSUME NEW t \in Tabs, NEW s \in Slots, Open(socks'[t][s])
      PROVE  Reached(t, socks[t][s])'
  <2>1. CASE Open(socks[t][s]) /\ (socks'[t][s].canWrite <=> socks[t][s].canWrite)
    <3>1. Reached(t, socks[t][s])
      BY <2>1 DEF Mirrors
    <3> QED BY <2>1, <3>1 DEF Reached
  <2>2. CASE /\ row.tier[t] # "none" /\ (socks'[t][s].canWrite => row.tier[t] = "write")
             /\ trashed' = row.trashed
    BY <2>2 DEF Reached
  <2> QED BY <1>1, <2>1, <2>2
<1> QED BY <1>1 DEF Mirrors, Agrees, Open

\* One socket changes, and has no more rights than it had.
LEMMA OneMirrors ==
  ASSUME MInv, LInv', UNCHANGED <<row, calls, locked, lost, trashed>>, NEW t \in Tabs, NEW s \in Slots, NEW n \in Socket,
         Updates(t, s, n), Open(n) => Open(socks[t][s]) /\ (n.canWrite <=> socks[t][s].canWrite)
  PROVE  MInv'
<1>1. \A u \in Tabs, r \in Slots : socks'[u][r] = IF u = t /\ r = s THEN n ELSE socks[u][r]
  BY UpdatesAt DEF MInv, LInv
<1>2. \A u \in Tabs, r \in Slots : Open(socks'[u][r]) => Open(socks[u][r]) /\ (socks'[u][r].canWrite <=> socks[u][r].canWrite)
  BY <1>1
<1>3. Mirrors'
  BY <1>2, MirrorsStay DEF MInv
<1> QED BY <1>3 DEF MInv

-----------------------------------------------------------------------------
(* The mirrors, action by action *)

\* A keystroke opens no socket.
LEMMA TypeMirrors ==
  ASSUME MInv, NEW t \in Tabs, NEW e \in Edits, Type(t, e)
  PROVE  MInv'
<1>1. LInv' /\ LInv
  BY TypeLinks DEF MInv
<1>2. UNCHANGED <<row, calls, locked, lost, trashed>>
  BY DEF Type, node, actor
<1>3. CASE UNCHANGED socks
  <2>1. Mirrors'
    BY <1>2, <1>3, MirrorsStay DEF MInv
  <2> QED BY <1>1, <2>1 DEF MInv
<1>4. CASE tabs[t].state = "up" /\ \E n \in Socket : Updates(t, tabs[t].slot, n) /\ Alike(Sock(t), n)
  <2>1. PICK n \in Socket : Updates(t, tabs[t].slot, n) /\ Alike(Sock(t), n)
    BY <1>4
  <2>2. PICK s \in Slots : s = tabs[t].slot /\ Sock(t) = socks[t][s]
    BY <1>1, <1>4, PageAndSocket
  <2> QED BY <1>1, <1>2, <2>1, <2>2, OneMirrors DEF Alike, Open
<1> QED BY <1>1, <1>3, <1>4, TypeIs DEF LInv

\* A socket is opened with the row's tier and the row's trash flag.
LEMMA ConnectMirrors ==
  ASSUME MInv, NEW t \in Tabs, Connect(t)
  PROVE  MInv'
<1>1. LInv' /\ LInv
  BY ConnectLinks DEF MInv
<1>2. UNCHANGED <<row, calls, locked, lost>>
  BY DEF Connect, node, seen
<1>3. trashed' = row.trashed /\ row.tier[t] # "none"
  BY <1>1, ConnectIs DEF LInv
<1>4. PICK s \in Slots : \E n \in Socket : Updates(t, s, n) /\ (n.canWrite => row.tier[t] = "write")
  BY <1>1, ConnectIs DEF LInv
<1>5. PICK n \in Socket : Updates(t, s, n) /\ (n.canWrite => row.tier[t] = "write")
  BY <1>4
<1>6. \A u \in Tabs, r \in Slots : socks'[u][r] = IF u = t /\ r = s THEN n ELSE socks[u][r]
  BY <1>1, <1>5, UpdatesAt DEF LInv
<1>7. \A u \in Tabs, r \in Slots : Open(socks'[u][r]) =>
           \/ Open(socks[u][r]) /\ (socks'[u][r].canWrite <=> socks[u][r].canWrite)
           \/ /\ row.tier[u] # "none" /\ (socks'[u][r].canWrite => row.tier[u] = "write")
              /\ trashed' = row.trashed
  BY <1>3, <1>5, <1>6
<1>8. Mirrors'
  BY <1>2, <1>3, <1>7, MirrorsStay DEF MInv
<1> QED BY <1>1, <1>8 DEF MInv

\* What a page hears, or its leaving, opens no socket.
LEMMA HearsMirrors ==
  ASSUME MInv, NEW t \in Tabs, Hears(t) \/ HearsClose(t) \/ LinkDies(t)
  PROVE  MInv'
<1>1. LInv' /\ LInv
  BY HearsLinks, LeavesLinks DEF MInv
<1>2. UNCHANGED <<row, calls, locked, lost, trashed>>
  BY DEF Hears, HearsClose, LinkDies, node, actor, seen
<1>3. tabs[t].state = "up" /\ \E n \in Socket : Updates(t, tabs[t].slot, n) /\ n.code = Sock(t).code /\ n.canWrite = Sock(t).canWrite
  <2>1. CASE Hears(t)
    <3>1. PICK n \in Socket : \E p \in Page :
            /\ Turns(t, p) /\ Updates(t, tabs[t].slot, n)
            /\ Accepts(t, Head(Sock(t).down), n, p) \/ Reloads(t, n, p) \/ Merges(t, Head(Sock(t).down), n, p)
      BY <1>1, <2>1, HearsIs DEF LInv
    <3>2. n.code = Sock(t).code /\ n.canWrite = Sock(t).canWrite
      BY <3>1 DEF Accepts, Reloads, Merges, Alike
    <3> QED BY <1>1, <2>1, <3>1, <3>2, HearsIs DEF LInv
  <2>2. CASE HearsClose(t) \/ LinkDies(t)
    BY <1>1, <2>2, LeavesIs DEF LInv
  <2> QED BY <2>1, <2>2
<1>4. PICK n \in Socket : Updates(t, tabs[t].slot, n) /\ n.code = Sock(t).code /\ n.canWrite = Sock(t).canWrite
  BY <1>3
<1>5. PICK s \in Slots : s = tabs[t].slot /\ Sock(t) = socks[t][s]
  BY <1>1, <1>3, PageAndSocket
<1> QED BY <1>1, <1>2, <1>4, <1>5, OneMirrors DEF Open

\* No frame of a page opens a socket or gives it rights.
LEMMA HandleMirrors ==
  ASSUME MInv, NEW t \in Tabs, NEW s \in Slots, Handle(t, s) \/ Departs(t, s)
  PROVE  MInv'
<1>1. LInv' /\ LInv /\ Types
  BY AckLinks, Step1Links, WriteLinks, DepartsLinks DEF Handle, MInv, LInv
<1> DEFINE Less(n) == Open(n) => Open(socks[t][s]) /\ (n.canWrite <=> socks[t][s].canWrite)
<1>2. ASSUME UNCHANGED <<row, calls, locked, lost, trashed>>, NEW n \in Socket, Updates(t, s, n), Less(n)
      PROVE  MInv'
  BY <1>1, <1>2, OneMirrors
<1>3. CASE HandleAck(t, s)
  <2>3. PICK n \in Socket :
           /\ Updates(t, s, n) /\ n.canWrite = socks[t][s].canWrite
           /\ n.code = socks[t][s].code \/ n.code \in {"reset", "revoked"}
    <3>1. PICK n \in Socket :
           /\ Updates(t, s, n) /\ n.up = Tail(socks[t][s].up) /\ n.canWrite = socks[t][s].canWrite
           /\ \/ n.code = socks[t][s].code /\ Told(socks[t][s], n, <<>>)
              \/ PutOut(socks[t][s], n, <<Refusal("epoch"), Reset>>)
      BY <1>1, <1>3, AckIs
    <3> QED BY <3>1 DEF PutOut
  <2>1. Updates(t, s, n) /\ Less(n)
    BY <2>3 DEF Open
  <2>2. UNCHANGED <<row, calls, locked, lost, trashed>>
    BY <1>3 DEF HandleAck, node, actor, seen
  <2> QED BY <1>2, <2>1, <2>2, <2>3
<1>4. CASE HandleStep1(t, s)
  <2>3. PICK n \in Socket :
           Updates(t, s, n) /\ n.canWrite = socks[t][s].canWrite /\ n.code = socks[t][s].code
    BY <1>1, <1>4, Step1Is
  <2>1. Updates(t, s, n) /\ Less(n)
    BY <2>3 DEF Open
  <2>2. UNCHANGED <<row, calls, locked, lost, trashed>>
    BY <1>4 DEF HandleStep1, node, actor, seen
  <2> QED BY <1>2, <2>1, <2>2, <2>3
<1>5. CASE HandleWrite(t, s)
  <2>1. (Given(t, s, "STEP2") \/ Given(t, s, "UPDATE")) /\ UNCHANGED <<row, calls, locked, lost, trashed>>
    BY <1>1, <1>5, WriteIs
  <2>2. CASE \E kind \in {"locked", "trashed", "epoch", "acl", "limit"} : HandleRefused(t, s, kind)
    <3>1. \E n \in Socket : Updates(t, s, n) /\ Less(n)
      BY <1>1, <2>1, <2>2, RefusedIs DEF PutOut, Open
    <3> QED BY <1>2, <2>1, <3>1
  <2>3. CASE Updates(t, s, Taken(t, s))
    <3>1. Taken(t, s) \in Socket /\ Less(Taken(t, s))
      BY <1>1, <2>1, GivenIs DEF Alike, Open
    <3> QED BY <1>2, <2>1, <2>3, <3>1
  <2>4. CASE HandleApplied(t, s)
    <3>1. \A u \in Tabs, r \in Slots : Alike(socks[u][r], socks'[u][r])
      BY <1>1, <2>1, <2>4, AppliedIs
    <3>2. \A u \in Tabs, r \in Slots : Open(socks'[u][r]) => Open(socks[u][r]) /\ (socks'[u][r].canWrite <=> socks[u][r].canWrite)
      BY <3>1 DEF Alike, Open
    <3>3. Mirrors'
      BY <2>1, <3>2, MirrorsStay DEF MInv
    <3> QED BY <1>1, <3>3 DEF MInv
  <2> QED BY <1>1, <1>5, <2>2, <2>3, <2>4, WriteIs
<1>6. CASE Departs(t, s)
  <2>1. Updates(t, s, Vacant) /\ UNCHANGED <<row, calls, locked, lost, trashed>>
    BY <1>1, <1>6, DepartsIs
  <2>2. Vacant \in Socket /\ ~Open(Vacant)
    BY VacantIs DEF Vacant, Open
  <2> QED BY <1>2, <2>1, <2>2
<1> QED BY <1>3, <1>4, <1>5, <1>6 DEF Handle

\* A restore leaves none open.
LEMMA RestoreMirrors ==
  ASSUME MInv, NEW v, Restore(v)
  PROVE  MInv'
<1>1. LInv' /\ LInv
  BY RestoreLinks DEF MInv
<1>2. UNCHANGED <<row, calls, locked, lost, trashed>>
  BY <1>1, RestoreIs DEF LInv
<1>3. \A u \in Tabs, r \in Slots : ~Open(socks'[u][r])
  BY <1>1, RestoreIs DEF LInv, PutOut, Open
<1>4. Mirrors'
  BY <1>2, <1>3, MirrorsStay DEF MInv
<1> QED BY <1>1, <1>4 DEF MInv

\* A crash leaves none open, and a lock that was not delivered is lost.
LEMMA CrashMirrors ==
  ASSUME MInv, Crash
  PROVE  MInv'
<1>1. LInv' /\ LInv
  BY CrashLinks DEF MInv
<1>2. calls' = <<>> /\ (lost' <=> lost \/ calls # <<>>) /\ UNCHANGED <<row, locked>> /\ \A t \in Tabs, s \in Slots : socks'[t][s] = Vacant
  BY <1>1, CrashIs DEF LInv
<1>3. ~Open(Vacant) /\ DOMAIN <<>> = {}
  BY DEF Vacant, Open
<1>4. calls = <<>> => ~Has(calls, "lock")
  BY Short DEF Has
<1>5. lost' \/ locked = row.locked
  BY <1>2, <1>4 DEF MInv, Mirrors
<1>6. Mirrors'
  BY <1>2, <1>3, <1>5 DEF Mirrors
<1> QED BY <1>1, <1>6 DEF MInv

\* A change of the row puts a call on its way.
LEMMA FlipMirrors ==
  ASSUME MInv, NEW t \in Tabs, NEW what \in Flips, NEW tier \in Tiers, Flip(what, t, tier)
  PROVE  MInv'
<1> DEFINE c == [op |-> what, row |-> row']
<1>1. /\ Types' /\ Types /\ what \in Ops /\ calls' = Append(calls, c) /\ c \in Call
      /\ what # "lock" => row'.locked = row.locked
      /\ what # "trash" => row'.trashed = row.trashed
      /\ what # "tier" => row'.tier = row.tier
      /\ UNCHANGED <<epoch, locked, trashed, socks, tabs, lost>>
  BY FlipIs DEF MInv, LInv
<1>2. LInv'
  BY <1>1, ZenonT(60) DEF MInv, LInv, Links, SocketOK, PageOK, Sock
<1>3. c.op = what /\ c.row = row'
  OBVIOUS
<1> HIDE DEF c
<1>4. /\ Len(calls) \in Nat /\ DOMAIN calls = 1 .. Len(calls) /\ DOMAIN calls' = 1 .. Len(calls) + 1
      /\ \A i \in 1 .. Len(calls) : calls'[i] = calls[i]
      /\ calls'[Len(calls) + 1] = c
  <2>1. calls \in Seq(Call) /\ calls' \in Seq(Call)
    BY <1>1 DEF Types
  <2> QED BY <1>1, <2>1, AppendProperties, LenProperties
<1>5. ASSUME NEW i \in DOMAIN calls', \A j \in DOMAIN calls' : j > i => calls'[j].op # calls'[i].op
      PROVE  Agrees(calls[i])'
  <2>1. CASE i = Len(calls) + 1
    BY <1>3, <1>4, <2>1 DEF Agrees
  <2>2. CASE i # Len(calls) + 1
    <3>1. i \in DOMAIN calls /\ calls'[i] = calls[i] /\ calls[i].op # what
      BY <1>3, <1>4, <1>5, <2>2
    <3>2. \A j \in DOMAIN calls : j > i => calls[j].op # calls[i].op
      BY <1>4, <1>5, <3>1
    <3>3. Agrees(calls[i])
      BY <3>1, <3>2 DEF MInv, Mirrors
    <3>4. calls[i].op = "lock" => calls[i].row.locked = row'.locked
      BY <1>1, <3>1, <3>3 DEF Agrees
    <3>5. calls[i].op = "trash" => calls[i].row.trashed = row'.trashed
      BY <1>1, <3>1, <3>3 DEF Agrees
    <3>6. calls[i].op = "tier" => calls[i].row.tier = row'.tier
      BY <1>1, <3>1, <3>3 DEF Agrees
    <3> QED BY <3>1, <3>4, <3>5, <3>6 DEF Agrees
  <2> QED BY <2>1, <2>2
<1>6. \A op : Has(calls', op) <=> Has(calls, op) \/ op = what
  <2>1. calls' = calls \o <<c>>
    BY <1>1, AppendIsConcat DEF Types
  <2>2. <<c>> \in Seq(Call) /\ Range(<<c>>) = {c} /\ calls \in Seq(Call)
    BY <1>1, Short DEF Types
  <2>3. Range(calls') = Range(calls) \cup {c}
    <3> DEFINE q == calls
               r == <<c>>
    <3>1. q \in Seq(Call) /\ r \in Seq(Call) /\ calls' = q \o r /\ Range(r) = {c}
      BY <2>1, <2>2
    <3> HIDE DEF q, r
    <3>2. Range(q \o r) = Range(q) \cup Range(r)
      BY <3>1, Added
    <3>3. Range(calls') = Range(q) \cup Range(r)
      BY <3>1, <3>2
    <3> QED BY <3>1, <3>3 DEF q
  <2> QED BY <1>3, <2>3 DEF Has
<1>7. lost' \/ Has(calls', "lock") \/ locked' = row'.locked
  BY <1>1, <1>6 DEF MInv, Mirrors
<1>8. ASSUME NEW u \in Tabs, NEW r \in Slots, Open(socks'[u][r])
      PROVE  Reached(u, socks[u][r])'
  <2>1. Reached(u, socks[u][r]) /\ socks'[u][r] = socks[u][r]
    BY <1>1, <1>8 DEF MInv, Mirrors
  <2>2. Has(calls', "trash") \/ trashed' = row'.trashed
    BY <1>1, <1>6, <2>1 DEF Reached
  <2>3. Has(calls', "tier") \/ (row'.tier[u] # "none" /\ (socks[u][r].canWrite => row'.tier[u] = "write"))
    BY <1>1, <1>6, <2>1 DEF Reached
  <2> QED BY <2>1, <2>2, <2>3 DEF Reached
<1>9. Mirrors'
  BY <1>5, <1>7, <1>8 DEF Mirrors, Open
<1> QED BY <1>2, <1>9 DEF MInv

\* A call that is the last of its kind brings what the row has.
LEMMA DeliverMirrors ==
  ASSUME MInv, Deliver
  PROVE  MInv'
<1> DEFINE c == Head(calls)
<1>1. LInv' /\ LInv /\ Types /\ Types'
  BY DeliverLinks DEF MInv, LInv
<1>2. /\ calls # <<>> /\ c \in Call /\ calls' = Tail(calls) /\ UNCHANGED <<row, lost>>
      /\ locked' = (IF c.op = "lock" THEN c.row.locked ELSE locked)
      /\ trashed' = (IF c.op = "trash" THEN c.row.trashed ELSE trashed)
  BY <1>1, DeliverIs
<1>3. /\ Len(calls) \in Nat \ {0} /\ DOMAIN calls = 1 .. Len(calls) /\ DOMAIN calls' = 1 .. Len(calls) - 1
      /\ \A i \in 1 .. Len(calls) - 1 : calls'[i] = calls[i + 1]
      /\ c = calls[1] /\ Range(calls) = {c} \cup Range(calls')
  <2>1. calls \in Seq(Call) /\ calls' \in Seq(Call)
    BY <1>1 DEF Types
  <2> QED BY <1>2, <2>1, HeadTailProperties, LenProperties, EmptySeq, FirstAndRest
<1>4. \A op : Has(calls, op) <=> Has(calls', op) \/ op = c.op
  BY <1>3 DEF Has
<1>5. ~Has(calls', c.op) => Agrees(c)
  <2>1. ASSUME ~Has(calls', c.op), NEW j \in DOMAIN calls, j > 1
        PROVE  calls[j].op # calls[1].op
    <3>1. j - 1 \in DOMAIN calls' /\ calls'[j - 1] = calls[j]
      BY <1>3, <2>1
    <3>2. calls[j] \in Range(calls')
      BY <3>1 DEF Range
    <3> QED BY <1>3, <2>1, <3>2 DEF Has
  <2>2. 1 \in DOMAIN calls
    BY <1>3
  <2> QED BY <1>3, <2>1, <2>2 DEF MInv, Mirrors
<1>6. ASSUME NEW i \in DOMAIN calls', \A j \in DOMAIN calls' : j > i => calls'[j].op # calls'[i].op
      PROVE  Agrees(calls[i])'
  <2>1. i + 1 \in DOMAIN calls /\ calls'[i] = calls[i + 1]
    BY <1>3
  <2>2. ASSUME NEW j \in DOMAIN calls, j > i + 1
        PROVE  calls[j].op # calls[i + 1].op
    <3>1. j - 1 \in DOMAIN calls' /\ calls'[j - 1] = calls[j] /\ j - 1 > i
      BY <1>3, <2>2
    <3> QED BY <1>6, <2>1, <3>1
  <2>3. Agrees(calls[i + 1])
    BY <2>1, <2>2 DEF MInv, Mirrors
  <2> QED BY <1>2, <2>1, <2>3 DEF Agrees
<1> HIDE DEF c
<1>7. lost' \/ Has(calls', "lock") \/ locked' = row'.locked
  BY <1>2, <1>4, <1>5 DEF MInv, Mirrors, Agrees
<1>8. ASSUME NEW t \in Tabs, NEW s \in Slots, Open(socks'[t][s])
      PROVE  Reached(t, socks[t][s])'
  <2> DEFINE k == socks[t][s]
             n == socks'[t][s]
  <2>1. \/ /\ n.code = k.code /\ n.canWrite = k.canWrite /\ c.op = "tier"
           /\ Open(k) => c.row.tier[t] # "none" /\ (k.canWrite => c.row.tier[t] = "write")
        \/ n.code = "revoked"
        \/ /\ n.code = k.code
           /\ c.op # "tier" => n.canWrite = k.canWrite
           /\ c.op = "tier" => c.row.tier[t] # "none" /\ (n.canWrite => c.row.tier[t] = "write")
    BY <1>1, DeliverIs DEF c
  <2>2. Open(k)
    BY <1>8, <2>1 DEF Open
  <2>3. Reached(t, k)
    BY <2>2 DEF MInv, Mirrors
  <2>4. c.op = "tier" => c.row.tier[t] # "none" /\ (n.canWrite => c.row.tier[t] = "write")
    BY <1>8, <2>1, <2>2 DEF Open
  <2>5. c.op # "tier" => n.canWrite = k.canWrite
    BY <1>8, <2>1 DEF Open
  <2>6. Has(calls', "trash") \/ trashed' = row'.trashed
    BY <1>2, <1>4, <1>5, <2>3 DEF Reached, Agrees
  <2>7. Has(calls', "tier") \/ (row'.tier[t] # "none" /\ (n.canWrite => row'.tier[t] = "write"))
    <3>1. CASE c.op = "tier"
      BY <1>2, <1>5, <2>4, <3>1 DEF Agrees
    <3>2. CASE c.op # "tier"
      BY <1>2, <1>4, <2>3, <2>5, <3>2 DEF Reached
    <3> QED BY <3>1, <3>2
  <2> QED BY <2>6, <2>7 DEF Reached
<1>9. Mirrors'
  BY <1>6, <1>7, <1>8 DEF Mirrors, Open
<1> QED BY <1>1, <1>9 DEF MInv

\* At first nothing differs.
LEMMA InitMirrors == Init => MInv
<1> SUFFICES ASSUME Init PROVE MInv
  OBVIOUS
<1>1. ~Open(Vacant) /\ DOMAIN <<>> = {}
  BY DEF Vacant, Open
<1>2. Mirrors
  BY <1>1 DEF Init, Mirrors
<1> QED BY <1>2, InitLinks DEF MInv

\* Every step keeps the mirrors.
LEMMA MirrorsHold == MInv /\ [Next]_vars => MInv'
<1> SUFFICES ASSUME MInv, [Next]_vars PROVE MInv'
  OBVIOUS
<1>1. LInv' /\ LInv /\ Types
  BY LinksHold DEF MInv, LInv
<1>2. ASSUME UNCHANGED <<row, calls, locked, lost, trashed, socks>>
      PROVE  MInv'
  <2>1. Mirrors'
    BY <1>2, MirrorsStay DEF MInv
  <2> QED BY <1>1, <2>1 DEF MInv
<1>3. ASSUME NEW t \in Tabs, NEW e \in Edits, Type(t, e) PROVE MInv'
  BY <1>3, TypeMirrors
<1>4. ASSUME NEW t \in Tabs, Mint(t) \/ Connect(t) \/ Hears(t) \/ HearsClose(t) \/ LinkDies(t) PROVE MInv'
  <2>1. CASE Mint(t)
    BY <1>2, <2>1 DEF Mint, node, actor, seen
  <2> QED BY <1>4, <2>1, ConnectMirrors, HearsMirrors
<1>5. ASSUME NEW t \in Tabs, NEW s \in Slots, Handle(t, s) \/ Departs(t, s) PROVE MInv'
  BY <1>5, HandleMirrors
<1>6. ASSUME NEW t \in Tabs, NEW what \in Flips, NEW tier \in Tiers, Flip(what, t, tier) PROVE MInv'
  BY <1>6, FlipMirrors
<1>7. ASSUME NEW v \in Content, AskRestore(v) \/ Restore(v) PROVE MInv'
  <2>1. CASE AskRestore(v)
    BY <1>1, <1>2, <2>1, AskRestoreIs
  <2> QED BY <1>7, <2>1, RestoreMirrors
<1>8. CASE Save
  BY <1>1, <1>2, <1>8, SaveIs
<1>9. CASE Deliver \/ Crash
  BY <1>9, DeliverMirrors, CrashMirrors
<1>10. CASE UNCHANGED vars
  BY <1>2, <1>10 DEF vars, node, actor, seen
<1> QED BY <1>3, <1>4, <1>5, <1>6, <1>7, <1>8, <1>9, <1>10 DEF Next

\* The inductive invariant of rights: what the actor has differs from the row only while a call that
\* will bring it is on its way (access.ts; doc-actor.ts, revoke).
THEOREM MirrorsInvariant == Spec => []MInv
BY InitMirrors, MirrorsHold, PTL DEF Spec

\* With no call on its way nothing differs.
LEMMA AgreementImplied == MInv => MirrorsAgree
<1> SUFFICES ASSUME MInv, calls = <<>> PROVE
      /\ \A t \in Tabs, s \in Slots : Open(socks[t][s]) =>
           /\ row.tier[t] # "none" /\ trashed = row.trashed
           /\ socks[t][s].canWrite => row.tier[t] = "write"
      /\ lost \/ locked = row.locked
  BY DEF MirrorsAgree
<1>1. \A op : ~Has(calls, op)
  BY Short DEF Has
<1> QED BY <1>1 DEF MInv, Mirrors, Reached

\* With no call on its way, no socket of a page without access is open, none writes above its tier, and
\* the trash flag and the lock are the row's, but for a lock lost with the process (access.ts,
\* revokeDocAccess, pushLockState and pushTrashState; doc-actor.ts, connect and revoke).
THEOREM TheActorFollowsTheRow == Spec => []MirrorsAgree
BY MirrorsInvariant, AgreementImplied, PTL

-----------------------------------------------------------------------------
(* The level a page is told *)

\* A frame that says outright what the page may do.
IsLevel(f) == f.op \in {"SYNC", "STATE"}

\* Whoever hears the queue out from ro ends at level lv: the last level in it is lv, and what
\* denies after that agrees.
Tells(q, ro, lv) ==
  /\ (\A i \in DOMAIN q : ~IsLevel(q[i])) => (ro <=> lv)
  /\ \A i \in DOMAIN q : (\A j \in DOMAIN q : j > i => ~IsLevel(q[j])) =>
        /\ IsLevel(q[i]) => (q[i].readOnly <=> lv)
        /\ Denies(q[i]) => lv

\* A page on an open socket, whose question was answered, will know the level lv.
Knows(p, k, lv) ==
  p.state = "up" /\ p.accepted /\ Open(k) /\ ~Has(k.up, "STEP1") => Tells(k.down, p.readOnly, lv)

\* The actor refuses what comes on the socket.
Bound(lk, tr, k) == lk \/ tr \/ ~k.canWrite

\* While no trash call is on its way; until it arrives, a page that connects may bring the flag to the actor
\* ahead of the others.
Levels == ~Has(calls, "trash") => \A t \in Tabs : Knows(tabs[t], Sock(t), Bound(locked, trashed, Sock(t)))

\* The invariant about levels: with the mirrors, inductive.
KInv == MInv /\ Levels

\* A frame is heard.
LEMMA HeardTells ==
  ASSUME NEW q \in Seq(DownFrames), q # <<>>, NEW ro, NEW no, NEW lv, Tells(q, ro, lv),
         no <=> IF IsLevel(Head(q)) THEN Head(q).readOnly ELSE ro \/ Denies(Head(q))
  PROVE  Tells(Tail(q), no, lv)
<1> DEFINE r == Tail(q)
           f == Head(q)
<1>1. /\ Len(q) \in Nat \ {0} /\ DOMAIN q = 1 .. Len(q) /\ f = q[1]
      /\ DOMAIN r = 1 .. Len(q) - 1 /\ \A i \in 1 .. Len(q) - 1 : r[i] = q[i + 1]
  BY HeadTailProperties, LenProperties, EmptySeq
<1>2. no <=> IF IsLevel(f) THEN f.readOnly ELSE ro \/ Denies(f)
  OBVIOUS
<1> HIDE DEF r, f
<1>3. ASSUME \A i \in DOMAIN r : ~IsLevel(r[i])
      PROVE  no <=> lv
  <2>1. ASSUME NEW j \in DOMAIN q, j > 1
        PROVE  ~IsLevel(q[j])
    <3>1. j - 1 \in DOMAIN r /\ r[j - 1] = q[j]
      BY <1>1, <2>1
    <3> QED BY <1>3, <3>1
  <2>2. 1 \in DOMAIN q
    BY <1>1
  <2>3. (IsLevel(f) => (f.readOnly <=> lv)) /\ (Denies(f) => lv)
    BY <1>1, <2>1, <2>2 DEF Tells
  <2>4. ~IsLevel(f) => (ro <=> lv)
    <3>1. ASSUME ~IsLevel(f), NEW j \in DOMAIN q
          PROVE  ~IsLevel(q[j])
      BY <1>1, <2>1, <3>1
    <3> QED BY <3>1 DEF Tells
  <2> QED BY <1>2, <2>3, <2>4
<1>4. ASSUME NEW i \in DOMAIN r, \A j \in DOMAIN r : j > i => ~IsLevel(r[j])
      PROVE  (IsLevel(r[i]) => (r[i].readOnly <=> lv)) /\ (Denies(r[i]) => lv)
  <2>1. i + 1 \in DOMAIN q /\ r[i] = q[i + 1]
    BY <1>1
  <2>2. ASSUME NEW j \in DOMAIN q, j > i + 1
        PROVE  ~IsLevel(q[j])
    <3>1. j - 1 \in DOMAIN r /\ j - 1 > i /\ r[j - 1] = q[j]
      BY <1>1, <2>2
    <3> QED BY <1>4, <3>1
  <2> QED BY <2>1, <2>2 DEF Tells
<1> QED BY <1>3, <1>4 DEF Tells, r

\* A frame is sent: one that says the level, or one that says nothing against it.
LEMMA SentTells ==
  ASSUME NEW q \in Seq(DownFrames), NEW f \in DownFrames, NEW ro, NEW lv,
         \/ IsLevel(f) /\ (f.readOnly <=> lv)
         \/ ~IsLevel(f) /\ (Denies(f) => lv) /\ Tells(q, ro, lv)
  PROVE  Tells(q \o <<f>>, ro, lv)
<1> DEFINE r == q \o <<f>>
<1>1. /\ Len(q) \in Nat /\ DOMAIN q = 1 .. Len(q) /\ DOMAIN r = 1 .. Len(q) + 1
      /\ \A i \in 1 .. Len(q) : r[i] = q[i]
      /\ r[Len(q) + 1] = f
  <2>1. r = Append(q, f) /\ Append(q, f) \in Seq(DownFrames)
    BY AppendIsConcat, AppendProperties
  <2> HIDE DEF r
  <2> QED BY <2>1, AppendProperties, LenProperties
<1> HIDE DEF r
<1>2. Denies(f) => ~IsLevel(f)
  BY DEF Denies, IsLevel
<1>3. ASSUME \A i \in DOMAIN r : ~IsLevel(r[i])
      PROVE  ro <=> lv
  <2>1. ~IsLevel(f) /\ \A i \in DOMAIN q : ~IsLevel(q[i])
    BY <1>1, <1>3
  <2> QED BY <2>1 DEF Tells
<1>4. ASSUME NEW i \in DOMAIN r, \A j \in DOMAIN r : j > i => ~IsLevel(r[j])
      PROVE  (IsLevel(r[i]) => (r[i].readOnly <=> lv)) /\ (Denies(r[i]) => lv)
  <2>1. CASE i = Len(q) + 1
    BY <1>1, <1>2, <2>1
  <2>2. CASE i # Len(q) + 1
    <3>1. i \in DOMAIN q /\ r[i] = q[i] /\ ~IsLevel(f)
      BY <1>1, <1>4, <2>2
    <3>2. \A j \in DOMAIN q : j > i => ~IsLevel(q[j])
      BY <1>1, <1>4
    <3> QED BY <3>1, <3>2 DEF Tells
  <2> QED BY <2>1, <2>2
<1> QED BY <1>3, <1>4 DEF Tells, r

\* One page changes, and its sockets.
LEMMA OneLevel ==
  ASSUME KInv, MInv', UNCHANGED <<row, calls, locked>>, trashed' = trashed \/ trashed' = row.trashed, NEW t \in Tabs,
         \A u \in Tabs : u # t => tabs'[u] = tabs[u] /\ \A r \in Slots : socks'[u][r] = socks[u][r],
         ~Has(calls, "trash") => Knows(tabs[t], Sock(t), Bound(locked, trashed, Sock(t)))'
  PROVE  KInv'
<1>1. ASSUME ~Has(calls, "trash"), NEW u \in Tabs, u # t
      PROVE  Knows(tabs[u], Sock(u), Bound(locked, trashed, Sock(u)))'
  <2>1. tabs'[u] = tabs[u] /\ \A r \in Slots : socks'[u][r] = socks[u][r]
    BY <1>1
  <2>2. CASE tabs[u].state # "up"
    BY <2>1, <2>2 DEF Knows
  <2>3. CASE tabs[u].state = "up"
    <3>1. PICK s \in Slots : s = tabs[u].slot /\ Sock(u) = socks[u][s]
      BY <2>3, PageAndSocket DEF KInv, MInv
    <3>2. Sock(u)' = Sock(u)
      BY <2>1, <3>1 DEF Sock
    <3>3. Knows(tabs[u], Sock(u), Bound(locked, trashed, Sock(u)))
      BY <1>1 DEF KInv, Levels
    <3>4. Open(Sock(u)) => trashed' = trashed
      BY <1>1, <3>1 DEF KInv, MInv, Mirrors, Reached
    <3> QED BY <2>1, <3>2, <3>3, <3>4 DEF Knows, Bound
  <2> QED BY <2>2, <2>3
<1>2. Levels'
  BY <1>1 DEF Levels
<1> QED BY <1>2 DEF KInv

-----------------------------------------------------------------------------
(* The levels: the page *)

\* A keystroke tells no level.
LEMMA TypeLevels ==
  ASSUME KInv, NEW t \in Tabs, NEW e \in Edits, Type(t, e)
  PROVE  KInv'
<1>1. MInv' /\ LInv /\ LInv' /\ Types /\ Links
  BY TypeMirrors DEF KInv, MInv, LInv
<1>2. UNCHANGED <<row, calls, locked, trashed>>
  BY DEF Type, node, actor
<1>3. PICK p \in Page :
        /\ Turns(t, p) /\ p.state = tabs[t].state /\ p.slot = tabs[t].slot
        /\ p.accepted = tabs[t].accepted /\ p.readOnly = tabs[t].readOnly
  BY <1>1, TypeIs
<1>4. \A u \in Tabs : tabs'[u] = IF u = t THEN p ELSE tabs[u]
  BY <1>1, <1>3, TurnsAt
<1>5. CASE ~tabs[t].accepted /\ UNCHANGED socks
  <2>1. Knows(tabs[t], Sock(t), Bound(locked, trashed, Sock(t)))'
    BY <1>3, <1>4, <1>5 DEF Knows
  <2> QED BY <1>1, <1>2, <1>4, <1>5, <2>1, OneLevel
<1>6. CASE /\ tabs[t].state = "up"
           /\ \E n \in Socket :
                /\ Updates(t, tabs[t].slot, n) /\ Alike(Sock(t), n) /\ n.down = Sock(t).down
                /\ n.up = IF Open(Sock(t)) THEN Sock(t).up \o <<Write("UPDATE", {e})>> ELSE Sock(t).up
  <2>1. PICK n \in Socket :
          /\ Updates(t, tabs[t].slot, n) /\ Alike(Sock(t), n) /\ n.down = Sock(t).down
          /\ n.up = IF Open(Sock(t)) THEN Sock(t).up \o <<Write("UPDATE", {e})>> ELSE Sock(t).up
    BY <1>6
  <2>2. PICK s \in Slots : s = tabs[t].slot /\ Sock(t) = socks[t][s] /\ Sock(t) \in Socket
    BY <1>1, <1>6, PageAndSocket DEF Types
  <2>3. \A u \in Tabs, r \in Slots : socks'[u][r] = IF u = t /\ r = s THEN n ELSE socks[u][r]
    BY <1>1, <2>1, <2>2, UpdatesAt
  <2>4. Sock(t)' = n
    BY <1>3, <1>4, <2>2, <2>3 DEF Sock
  <2>5. Has(Sock(t).up, "STEP1") => Has(n.up, "STEP1")
    <3> DEFINE q == Sock(t).up
               r == <<Write("UPDATE", {e})>>
    <3>1. Write("UPDATE", {e}) \in UpFrames
      BY DEF Write, UpFrames, Content
    <3>2. q \in Seq(UpFrames) /\ r \in Seq(UpFrames) /\ (n.up = q \o r \/ n.up = q)
      BY <2>1, <2>2, <3>1, Short DEF Socket
    <3> HIDE DEF q, r
    <3>3. Range(q \o r) = Range(q) \cup Range(r)
      BY <3>2, Added
    <3> QED BY <3>2, <3>3 DEF Has, q
  <2>6. Knows(tabs[t], Sock(t), Bound(locked, trashed, Sock(t))) => Knows(tabs[t], Sock(t), Bound(locked, trashed, Sock(t)))'
    <3>1. tabs'[t] = p /\ (Open(n) <=> Open(Sock(t))) /\ (n.canWrite <=> Sock(t).canWrite)
      BY <1>4, <2>1 DEF Alike, Open
    <3> QED BY <1>2, <1>3, <2>1, <2>4, <2>5, <3>1 DEF Knows, Bound
  <2>7. \A u \in Tabs : u # t => tabs'[u] = tabs[u] /\ \A r \in Slots : socks'[u][r] = socks[u][r]
    BY <1>4, <2>3
  <2>8. ~Has(calls, "trash") => Knows(tabs[t], Sock(t), Bound(locked, trashed, Sock(t)))'
    BY <2>6 DEF KInv, Levels
  <2> QED BY <1>1, <1>2, <2>7, <2>8, OneLevel
<1> QED BY <1>1, <1>5, <1>6, TypeIs

\* A page that has not heard its generation yet is told nothing of its level.
LEMMA QuietLevels ==
  ASSUME KInv, MInv', UNCHANGED <<row, calls, locked>>, trashed' = trashed \/ trashed' = row.trashed,
         NEW t \in Tabs, NEW s \in Slots, NEW n \in Socket, NEW p \in Page, Turns(t, p), Updates(t, s, n),
         p.state = "up" => ~p.accepted
  PROVE  KInv'
<1>1. Types
  BY DEF KInv, MInv, LInv
<1>2. /\ \A u \in Tabs : tabs'[u] = IF u = t THEN p ELSE tabs[u]
      /\ \A u \in Tabs, r \in Slots : socks'[u][r] = IF u = t /\ r = s THEN n ELSE socks[u][r]
  BY <1>1, UpdatesAt, TurnsAt
<1>3. Knows(tabs[t], Sock(t), Bound(locked, trashed, Sock(t)))'
  BY <1>2 DEF Knows
<1>4. \A u \in Tabs : u # t => tabs'[u] = tabs[u] /\ \A r \in Slots : socks'[u][r] = socks[u][r]
  BY <1>2
<1> QED BY <1>3, <1>4, OneLevel

\* A page that is down knows none.
LEMMA MintLevels ==
  ASSUME KInv, MInv', NEW t \in Tabs, Mint(t)
  PROVE  KInv'
<1>1. Types /\ Links
  BY DEF KInv, MInv, LInv
<1>2. UNCHANGED <<row, calls, locked, trashed, socks>>
  BY DEF Mint, node, actor
<1>3. PICK p \in Page : Turns(t, p) /\ p.state # "up"
  BY <1>1, MintIs
<1>4. \A u \in Tabs : tabs'[u] = IF u = t THEN p ELSE tabs[u]
  BY <1>1, <1>3, TurnsAt
<1>5. Knows(tabs[t], Sock(t), Bound(locked, trashed, Sock(t)))'
  BY <1>3, <1>4 DEF Knows
<1>6. \A u \in Tabs : u # t => tabs'[u] = tabs[u] /\ \A r \in Slots : socks'[u][r] = socks[u][r]
  BY <1>2, <1>4
<1> QED BY <1>2, <1>5, <1>6, OneLevel

\* The trash flag a connection brings is the one every open socket has been told.
LEMMA ConnectLevels ==
  ASSUME KInv, NEW t \in Tabs, Connect(t)
  PROVE  KInv'
<1>1. Types /\ Links /\ MInv'
  BY ConnectMirrors DEF KInv, MInv, LInv
<1>2. UNCHANGED <<row, calls, locked>> /\ trashed' = row.trashed
  BY DEF Connect, node
<1>3. PICK s \in Slots, n \in Socket, p \in Page : Turns(t, p) /\ Updates(t, s, n) /\ ~p.accepted
  BY <1>1, ConnectIs
<1> QED BY <1>1, <1>2, <1>3, QuietLevels

\* A page that leaves knows none.
LEMMA LeavesLevels ==
  ASSUME KInv, NEW t \in Tabs, HearsClose(t) \/ LinkDies(t)
  PROVE  KInv'
<1>1. Types /\ Links /\ MInv'
  BY HearsMirrors DEF KInv, MInv, LInv
<1>2. UNCHANGED <<row, calls, locked, trashed>>
  BY DEF HearsClose, LinkDies, node, actor
<1>3. PICK n \in Socket, p \in Page : Turns(t, p) /\ Updates(t, tabs[t].slot, n) /\ ~p.accepted
  BY <1>1, LeavesIs
<1>4. PICK s \in Slots : s = tabs[t].slot
  BY <1>1, LeavesIs, PageAndSocket DEF LInv
<1> QED BY <1>1, <1>2, <1>3, <1>4, QuietLevels

\* A page that hears a frame knows what the rest of the queue will tell it, or asks.
LEMMA HearsLevels ==
  ASSUME KInv, NEW t \in Tabs, Hears(t)
  PROVE  KInv'
<1> DEFINE f == Head(Sock(t).down)
           k == Sock(t)
<1>1. Types /\ Links /\ LInv /\ MInv'
  BY HearsMirrors DEF KInv, MInv, LInv
<1>2. UNCHANGED <<row, calls, locked, trashed>>
  BY DEF Hears, node, actor
<1>3. tabs[t].state = "up" /\ Sock(t).down # <<>>
  BY <1>1, HearsIs
<1>4. PICK s \in Slots : s = tabs[t].slot /\ Sock(t) = socks[t][s] /\ Sock(t) \in Socket
  BY <1>1, <1>3, PageAndSocket DEF Types
<1>5. PICK n \in Socket : \E p \in Page :
        /\ Turns(t, p) /\ Updates(t, tabs[t].slot, n)
        /\ Accepts(t, f, n, p) \/ Reloads(t, n, p) \/ Merges(t, f, n, p)
  BY <1>1, HearsIs
<1>6. PICK p \in Page :
        /\ Turns(t, p) /\ Updates(t, tabs[t].slot, n)
        /\ Accepts(t, f, n, p) \/ Reloads(t, n, p) \/ Merges(t, f, n, p)
  BY <1>5
<1>7. /\ \A u \in Tabs : tabs'[u] = IF u = t THEN p ELSE tabs[u]
      /\ \A u \in Tabs, r \in Slots : socks'[u][r] = IF u = t /\ r = s THEN n ELSE socks[u][r]
  BY <1>1, <1>4, <1>6, UpdatesAt, TurnsAt
<1>8. \A u \in Tabs : u # t => tabs'[u] = tabs[u] /\ \A r \in Slots : socks'[u][r] = socks[u][r]
  BY <1>7
<1>9. CASE Reloads(t, n, p)
  <2>1. p.state = "up" => ~p.accepted
    BY <1>9 DEF Reloads
  <2> QED BY <1>1, <1>2, <1>4, <1>6, <2>1, QuietLevels
<1>10. CASE Accepts(t, f, n, p)
  <2>1. tabs'[t] = p /\ Sock(t)' = n
    <3>1. tabs'[t] = p /\ socks'[t][s] = n
      BY ONLY <1>7, t \in Tabs, s \in Slots
    <3>2. p.slot = s
      BY <1>4, <1>10 DEF Accepts
    <3> QED BY ONLY <3>1, <3>2 DEF Sock
  <2>2. Open(n) => Has(n.up, "STEP1")
    <3> SUFFICES ASSUME Open(n) PROVE Has(n.up, "STEP1")
      OBVIOUS
    <3> DEFINE a == [op |-> "ACK", epoch |-> f.epoch]
               b == [op |-> "STEP1", has |-> tabs[t].doc]
               c == Write("STEP2", tabs[t].doc \ f.has)
               q == k.up
               r == <<a, b, c>>
    <3>1. n.up = q \o r
      BY <1>10 DEF Accepts, Alike, Open
    <3>2. f \in DownFrames /\ tabs[t].doc \in Content /\ q \in Seq(UpFrames)
      BY <1>1, <1>3, <1>4, FirstAndRest DEF Socket, Types, Page
    <3>3. f.epoch \in Nat
      BY <1>10, <3>2, DownIs DEF Accepts
    <3>4. a \in UpFrames /\ b \in UpFrames /\ c \in UpFrames
      BY <3>2, <3>3 DEF UpFrames, Write, Content
    <3>5. b.op = "STEP1"
      OBVIOUS
    <3> HIDE DEF a, b, c, q
    <3>6. r \in Seq(UpFrames) /\ b \in Range(r)
      <4>1. r \in Seq(UpFrames) /\ r[2] = b /\ 2 \in DOMAIN r
        BY <3>4
      <4> QED BY <4>1 DEF Range
    <3> HIDE DEF r
    <3>7. q \in Seq(UpFrames)
      BY <3>2 DEF q
    <3>8. Range(q \o r) = Range(q) \cup Range(r)
      BY <3>6, <3>7, Added
    <3> QED BY <3>1, <3>5, <3>6, <3>8 DEF Has
  <2>3. Knows(tabs[t], Sock(t), Bound(locked, trashed, Sock(t)))'
    BY <2>1, <2>2 DEF Knows
  <2> QED BY <1>1, <1>2, <1>8, <2>3, OneLevel
<1>11. CASE Merges(t, f, n, p)
  <2>1. tabs'[t] = p /\ Sock(t)' = n
    <3>1. tabs'[t] = p /\ socks'[t][s] = n
      BY ONLY <1>7, t \in Tabs, s \in Slots
    <3>2. p.slot = s
      BY <1>4, <1>11 DEF Merges
    <3> QED BY ONLY <3>1, <3>2 DEF Sock
  <2>2. /\ p.state = "up" /\ p.accepted = tabs[t].accepted /\ n.down = Tail(k.down) /\ n.up = k.up
        /\ Open(n) <=> Open(k)
        /\ n.canWrite <=> k.canWrite
        /\ p.readOnly <=> IF IsLevel(f) THEN f.readOnly ELSE tabs[t].readOnly \/ Denies(f)
    BY <1>11 DEF Merges, Alike, Open, IsLevel
  <2>3. ASSUME NEW lv, Tells(k.down, tabs[t].readOnly, lv)
        PROVE  Tells(n.down, p.readOnly, lv)
    <3> DEFINE q == k.down
               ro == tabs[t].readOnly
               no == p.readOnly
    <3>1. q \in Seq(DownFrames) /\ q # <<>> /\ Tells(q, ro, lv)
      BY <1>3, <1>4, <2>3 DEF Socket
    <3>2. no <=> IF IsLevel(Head(q)) THEN Head(q).readOnly ELSE ro \/ Denies(Head(q))
      BY <2>2
    <3> HIDE DEF q, ro, no
    <3>3. Tells(Tail(q), no, lv)
      BY ONLY <3>1, <3>2, HeardTells
    <3> QED BY <2>2, <3>3 DEF q, no
  <2>4. Knows(tabs[t], k, Bound(locked, trashed, k)) => Knows(p, n, Bound(locked, trashed, k))
    BY <1>3, <2>2, <2>3 DEF Knows
  <2>5. Knows(p, n, Bound(locked, trashed, k)) => Knows(tabs[t], Sock(t), Bound(locked, trashed, Sock(t)))'
    BY <1>2, <2>1, <2>2 DEF Knows, Bound
  <2>6. ~Has(calls, "trash") => Knows(tabs[t], Sock(t), Bound(locked, trashed, Sock(t)))'
    BY <2>4, <2>5 DEF KInv, Levels
  <2> QED BY <1>1, <1>2, <1>8, <2>6, OneLevel
<1> QED BY <1>6, <1>9, <1>10, <1>11

-----------------------------------------------------------------------------
(* The levels: the actor *)

\* What the actor does to a socket: a level said goes, a denial is a true one, and no question is
\* taken but to be answered with the level.
Hints(k, n, was, is) ==
  Open(n) =>
    /\ Open(k)
    /\ \/ /\ Told(k, n, <<>>) /\ (was <=> is)
          /\ Has(k.up, "STEP1") => Has(n.up, "STEP1")
       \/ \E f \in DownFrames :
            /\ Told(k, n, <<f>>) /\ ~IsLevel(f) /\ (Denies(f) => is) /\ (was <=> is)
            /\ Has(k.up, "STEP1") => Has(n.up, "STEP1")
       \/ \E f \in DownFrames : Told(k, n, <<f>>) /\ IsLevel(f) /\ (f.readOnly <=> is)

\* Says a socket its level.
Says(k, n, is) == Open(n) => Open(k) /\ \E f \in DownFrames : Told(k, n, <<f>>) /\ IsLevel(f) /\ (f.readOnly <=> is)

\* What the actor does to a socket leaves its page to know the level.
LEMMA HintsKnown ==
  ASSUME NEW k \in Socket, NEW n \in Socket, NEW p, k.live, NEW was, NEW is, Hints(k, n, was, is),
         Knows(p, k, was) \/ Says(k, n, is)
  PROVE  Knows(p, n, is)
<1> SUFFICES ASSUME p.state = "up", p.accepted, Open(n), ~Has(n.up, "STEP1")
             PROVE  Tells(n.down, p.readOnly, is)
  BY DEF Knows
<1> DEFINE q == k.down
           ro == p.readOnly
<1>1. q \in Seq(DownFrames) /\ Open(k)
  BY DEF Socket, Hints
<1> HIDE DEF q, ro
<1>2. CASE \E f \in DownFrames : Told(k, n, <<f>>) /\ IsLevel(f) /\ (f.readOnly <=> is)
  <2>1. PICK f \in DownFrames : Told(k, n, <<f>>) /\ IsLevel(f) /\ (f.readOnly <=> is)
    BY <1>2
  <2>2. n.down = q \o <<f>>
    BY <1>1, <2>1 DEF Told, q
  <2>3. Tells(q \o <<f>>, ro, is)
    BY <1>1, <2>1, SentTells
  <2> QED BY <2>2, <2>3 DEF ro
<1>3. CASE /\ Told(k, n, <<>>) /\ (was <=> is) /\ Knows(p, k, was)
           /\ Has(k.up, "STEP1") => Has(n.up, "STEP1")
  <2>1. n.down = q
    <3>1. n.down = q \o <<>>
      BY <1>1, <1>3 DEF Told, q
    <3> QED BY <1>1, <3>1, ConcatEmptySeq
  <2>2. Tells(q, ro, was)
    BY <1>1, <1>3 DEF Knows, q, ro
  <2> QED BY <1>3, <2>1, <2>2 DEF ro, Tells
<1>4. CASE Knows(p, k, was) /\ \E f \in DownFrames :
            /\ Told(k, n, <<f>>) /\ ~IsLevel(f) /\ (Denies(f) => is) /\ (was <=> is)
            /\ Has(k.up, "STEP1") => Has(n.up, "STEP1")
  <2>1. PICK f \in DownFrames :
            /\ Told(k, n, <<f>>) /\ ~IsLevel(f) /\ (Denies(f) => is) /\ (was <=> is)
            /\ Has(k.up, "STEP1") => Has(n.up, "STEP1")
    BY <1>4
  <2>2. n.down = q \o <<f>>
    BY <1>1, <2>1 DEF Told, q
  <2>3. Tells(q, ro, was)
    BY <1>1, <1>4, <2>1 DEF Knows, q, ro
  <2>4. Tells(q, ro, is)
    BY <2>1, <2>3 DEF Tells
  <2>5. Tells(q \o <<f>>, ro, is)
    BY <1>1, <2>1, <2>4, SentTells
  <2> QED BY <2>2, <2>5 DEF ro
<1> QED BY <1>2, <1>3, <1>4 DEF Hints, Says

\* The actor's steps: no page changes.
LEMMA HintedLevels ==
  ASSUME KInv, MInv', UNCHANGED tabs,
         \A t \in Tabs, s \in Slots :
           LET k == socks[t][s]
               n == socks'[t][s]
               is == Bound(locked', trashed', n)
           IN  /\ Hints(k, n, Bound(locked, trashed, k), is)
               /\ (Has(calls, "trash") /\ ~Has(calls', "trash")) => Says(k, n, is)
  PROVE  KInv'
<1>1. LInv /\ LInv' /\ Types /\ Types'
  BY DEF KInv, MInv, LInv
<1>2. ASSUME ~Has(calls', "trash"), NEW t \in Tabs
      PROVE  Knows(tabs[t], Sock(t), Bound(locked, trashed, Sock(t)))'
  <2>1. CASE tabs[t].state # "up"
    BY <2>1 DEF Knows
  <2>2. CASE tabs[t].state = "up"
    <3>1. PICK s \in Slots : s = tabs[t].slot /\ Sock(t) = socks[t][s] /\ Sock(t).live
      BY <1>1, <2>2, PageAndSocket, UpIs DEF LInv
    <3> DEFINE k == socks[t][s]
               n == socks'[t][s]
               p == tabs[t]
               was == Bound(locked, trashed, k)
               is == Bound(locked', trashed', n)
    <3>2. Sock(t)' = n
      BY <3>1 DEF Sock
    <3>3. k \in Socket /\ n \in Socket /\ k.live
      BY <1>1, <3>1 DEF Types
    <3>4. Hints(k, n, was, is) /\ (Has(calls, "trash") => Says(k, n, is))
      BY <1>2
    <3>5. ~Has(calls, "trash") => Knows(p, k, was)
      BY <3>1 DEF KInv, Levels
    <3> HIDE DEF k, n, was, is, p
    <3>6. Knows(p, n, is)
      BY <3>3, <3>4, <3>5, HintsKnown
    <3> QED BY <3>2, <3>6 DEF n, p, is
  <2> QED BY <2>1, <2>2
<1>3. Levels'
  BY <1>2 DEF Levels
<1> QED BY <1>3 DEF KInv

\* One socket changes by the actor.
LEMMA OneHinted ==
  ASSUME KInv, MInv', UNCHANGED <<tabs, calls, locked, trashed>>, NEW t \in Tabs, NEW s \in Slots, NEW n \in Socket,
         Updates(t, s, n), Hints(socks[t][s], n, Bound(locked, trashed, socks[t][s]), Bound(locked, trashed, n))
  PROVE  KInv'
<1>1. Types
  BY DEF KInv, MInv, LInv
<1>2. \A u \in Tabs, r \in Slots : socks'[u][r] = IF u = t /\ r = s THEN n ELSE socks[u][r]
  BY <1>1, UpdatesAt
<1>3. ASSUME NEW u \in Tabs, NEW r \in Slots
      PROVE  Hints(socks[u][r], socks'[u][r], Bound(locked, trashed, socks[u][r]), Bound(locked', trashed', socks'[u][r]))
  <2>1. CASE u = t /\ r = s
    BY <1>2, <2>1
  <2>2. CASE ~(u = t /\ r = s)
    <3>1. socks'[u][r] = socks[u][r] /\ socks[u][r] \in Socket
      BY <1>1, <1>2, <2>2 DEF Types
    <3>2. Told(socks[u][r], socks[u][r], <<>>)
      BY <3>1, Stays DEF Told
    <3> QED BY <3>1, <3>2 DEF Hints
  <2> QED BY <2>1, <2>2
<1> QED BY <1>3, HintedLevels

\* A frame is taken that asked nothing.
LEMMA StillAsked ==
  ASSUME NEW q \in Seq(UpFrames), q # <<>>, Head(q).op # "STEP1"
  PROVE  Has(q, "STEP1") => Has(Tail(q), "STEP1")
<1>1. Range(q) = {Head(q)} \cup Range(Tail(q))
  BY FirstAndRest
<1> QED BY <1>1 DEF Has

\* An acknowledgement tells no level, or puts the socket out.
LEMMA AckLevels ==
  ASSUME KInv, MInv', NEW t \in Tabs, NEW s \in Slots, HandleAck(t, s)
  PROVE  KInv'
<1> DEFINE k == socks[t][s]
<1>1. Types
  BY DEF KInv, MInv, LInv
<1>2. UNCHANGED <<tabs, calls, locked, trashed>>
  BY DEF HandleAck, node, actor
<1>3. k \in Socket /\ k.up \in Seq(UpFrames) /\ k.up # <<>> /\ Head(k.up).op = "ACK"
  BY <1>1, AckIs DEF Types, Socket
<1>4. PICK n \in Socket :
        /\ Updates(t, s, n) /\ n.up = Tail(k.up) /\ n.canWrite = k.canWrite
        /\ \/ n.code = k.code /\ Told(k, n, <<>>)
           \/ PutOut(k, n, <<Refusal("epoch"), Reset>>)
  BY <1>1, AckIs
<1>5. Has(k.up, "STEP1") => Has(n.up, "STEP1")
  <2> DEFINE q == k.up
  <2>1. q \in Seq(UpFrames) /\ q # <<>> /\ Head(q).op # "STEP1"
    BY <1>3
  <2> HIDE DEF q
  <2>2. Has(q, "STEP1") => Has(Tail(q), "STEP1")
    BY <2>1, StillAsked
  <2> QED BY <1>4, <2>2 DEF q
<1>6. Hints(k, n, Bound(locked, trashed, k), Bound(locked, trashed, n))
  BY <1>4, <1>5 DEF Hints, Bound, Open, PutOut
<1> QED BY <1>2, <1>4, <1>6, OneHinted

\* The answer to a state vector tells the level.
LEMMA Step1Levels ==
  ASSUME KInv, MInv', NEW t \in Tabs, NEW s \in Slots, HandleStep1(t, s)
  PROVE  KInv'
<1> DEFINE k == socks[t][s]
<1>1. Types
  BY DEF KInv, MInv, LInv
<1>2. UNCHANGED <<tabs, calls, locked, trashed>>
  BY DEF HandleStep1, node, actor
<1>3. PICK n \in Socket : \E f \in DownFrames :
        /\ Updates(t, s, n) /\ n.canWrite = k.canWrite /\ n.code = k.code /\ Told(k, n, <<f>>)
        /\ f.op = "SYNC" /\ (f.readOnly <=> locked \/ trashed \/ ~k.canWrite)
  BY <1>1, Step1Is
<1>4. Hints(k, n, Bound(locked, trashed, k), Bound(locked, trashed, n))
  BY <1>3 DEF Hints, Bound, Open, IsLevel
<1> QED BY <1>2, <1>3, <1>4, OneHinted

\* A refusal denies what is denied, and the fan-out tells no level.
LEMMA WriteLevels ==
  ASSUME KInv, MInv', NEW t \in Tabs, NEW s \in Slots, HandleWrite(t, s)
  PROVE  KInv'
<1> DEFINE k == socks[t][s]
           f == Head(k.up)
<1>1. Types
  BY DEF KInv, MInv, LInv
<1>2. (Given(t, s, "STEP2") \/ Given(t, s, "UPDATE")) /\ UNCHANGED <<tabs, calls, locked, trashed>>
  BY <1>1, WriteIs
<1>3. k \in Socket /\ k.up \in Seq(UpFrames) /\ k.up # <<>> /\ f.op # "STEP1"
  BY <1>1, <1>2, GivenIs DEF Socket
<1>4. Has(k.up, "STEP1") => Has(Tail(k.up), "STEP1")
  <2> DEFINE q == k.up
  <2>1. q \in Seq(UpFrames) /\ q # <<>> /\ Head(q).op # "STEP1"
    BY <1>3
  <2> HIDE DEF q
  <2>2. Has(q, "STEP1") => Has(Tail(q), "STEP1")
    BY <2>1, StillAsked
  <2> QED BY <2>2 DEF q
<1>5. ASSUME NEW kind \in {"locked", "trashed", "epoch", "acl", "limit"}, HandleRefused(t, s, kind),
             kind \in {"locked", "trashed", "acl"} => locked \/ trashed \/ ~k.canWrite
      PROVE  KInv'
  <2>1. PICK n \in Socket :
          /\ Updates(t, s, n) /\ n.up = Tail(k.up) /\ n.canWrite = k.canWrite
          /\ \/ n.code = k.code /\ Told(k, n, <<>>)
             \/ n.code = k.code /\ kind # "epoch" /\ Told(k, n, <<Refusal(kind)>>)
             \/ PutOut(k, n, <<Refusal(kind), Reset>>)
    BY <1>1, <1>2, <1>5, RefusedIs
  <2>2. /\ Refusal(kind) \in DownFrames /\ ~IsLevel(Refusal(kind))
        /\ Denies(Refusal(kind)) => Bound(locked, trashed, n)
    <3>1. Refusal(kind) \in DownFrames
      BY <1>1, SentAre
    <3>2. Refusal(kind).op = "REFUSED" /\ Refusal(kind).kind = kind
      BY DEF Refusal
    <3> QED BY <1>5, <2>1, <3>1, <3>2 DEF IsLevel, Denies, Bound
  <2>3. Hints(k, n, Bound(locked, trashed, k), Bound(locked, trashed, n))
    <3> DEFINE g == Refusal(kind)
    <3>1. g \in DownFrames /\ ~IsLevel(g) /\ (Denies(g) => Bound(locked, trashed, n))
      BY <2>2
    <3>2. /\ n.canWrite = k.canWrite
          /\ \/ n.code = k.code /\ Told(k, n, <<>>)
             \/ n.code = k.code /\ Told(k, n, <<g>>)
             \/ Open(k) /\ n.code \in {"reset", "revoked"}
      BY <2>1 DEF PutOut
    <3>3. Has(k.up, "STEP1") => Has(n.up, "STEP1")
      BY <1>4, <2>1
    <3> HIDE DEF g, k
    <3>4. Bound(locked, trashed, k) <=> Bound(locked, trashed, n)
      BY <3>2 DEF Bound
    <3> QED BY <3>1, <3>2, <3>3, <3>4 DEF Hints, Open
  <2> QED BY <1>2, <2>1, <2>3, OneHinted
<1>6. CASE Updates(t, s, Taken(t, s))
  <2>1. /\ Taken(t, s) \in Socket /\ Alike(k, Taken(t, s))
        /\ Taken(t, s).down = k.down /\ Taken(t, s).up = Tail(k.up)
    BY <1>1, <1>2, GivenIs
  <2>2. Told(k, Taken(t, s), <<>>)
    BY <1>3, <2>1, Stays DEF Told, Alike
  <2>3. Hints(k, Taken(t, s), Bound(locked, trashed, k), Bound(locked, trashed, Taken(t, s)))
    BY <1>4, <2>1, <2>2 DEF Hints, Bound, Alike, Open
  <2> QED BY <1>2, <1>6, <2>1, <2>3, OneHinted
<1>7. CASE HandleApplied(t, s)
  <2> DEFINE w == Write("UPDATE", f.edits)
  <2>1. /\ w \in DownFrames
        /\ \A u \in Tabs, r \in Slots :
             /\ Alike(socks[u][r], socks'[u][r])
             /\ u = t /\ r = s => /\ socks'[u][r].up = Tail(socks[u][r].up)
                                  /\ socks'[u][r].down = socks[u][r].down
             /\ ~(u = t /\ r = s) => /\ socks'[u][r].up = socks[u][r].up
                                     /\ Told(socks[u][r], socks'[u][r], <<w>>)
    BY <1>1, <1>2, <1>7, AppliedIs
  <2>2. ~IsLevel(w) /\ ~Denies(w)
    BY DEF Write, IsLevel, Denies
  <2> HIDE DEF w
  <2>3. ASSUME NEW u \in Tabs, NEW r \in Slots
        PROVE  Hints(socks[u][r], socks'[u][r], Bound(locked, trashed, socks[u][r]), Bound(locked', trashed', socks'[u][r]))
    <3> DEFINE a == socks[u][r]
               n == socks'[u][r]
    <3>1. Alike(a, n) /\ a \in Socket
      BY <1>1, <2>1 DEF Types
    <3>2. CASE u = t /\ r = s
      <4>1. n.up = Tail(a.up) /\ n.down = a.down
        BY <2>1, <3>2
      <4>2. Told(a, n, <<>>)
        BY <3>1, <4>1, Stays DEF Told, Alike
      <4>3. Has(a.up, "STEP1") => Has(n.up, "STEP1")
        BY <1>4, <3>2, <4>1
      <4> QED BY <1>2, <3>1, <4>2, <4>3 DEF Hints, Bound, Alike, Open
    <3>3. CASE ~(u = t /\ r = s)
      <4>1. n.up = a.up /\ Told(a, n, <<w>>)
        BY <2>1, <3>3
      <4> QED BY <1>2, <2>1, <2>2, <3>1, <4>1 DEF Hints, Bound, Alike, Open
    <3> QED BY <3>2, <3>3
  <2> QED BY <1>2, <2>3, HintedLevels
<1> QED BY <1>1, <1>5, <1>6, <1>7, WriteIs

\* Every frame, and a socket that is forgotten.
LEMMA HandleLevels ==
  ASSUME KInv, NEW t \in Tabs, NEW s \in Slots, Handle(t, s) \/ Departs(t, s)
  PROVE  KInv'
<1>1. Types /\ MInv'
  BY HandleMirrors DEF KInv, MInv, LInv
<1>2. CASE Departs(t, s)
  <2>1. Updates(t, s, Vacant) /\ UNCHANGED <<tabs, calls, locked, trashed>>
    BY <1>1, <1>2, DepartsIs
  <2>2. Vacant \in Socket /\ ~Open(Vacant)
    BY VacantIs DEF Vacant, Open
  <2>3. Hints(socks[t][s], Vacant, Bound(locked, trashed, socks[t][s]), Bound(locked, trashed, Vacant))
    BY <2>2 DEF Hints
  <2> QED BY <1>1, <2>1, <2>2, <2>3, OneHinted
<1> QED BY <1>1, <1>2, AckLevels, Step1Levels, WriteLevels DEF Handle

\* A restore leaves no socket open.
LEMMA RestoreLevels ==
  ASSUME KInv, NEW v, Restore(v)
  PROVE  KInv'
<1>1. Types /\ MInv'
  BY RestoreMirrors DEF KInv, MInv, LInv
<1>2. UNCHANGED <<tabs, calls>> /\ \A u \in Tabs, r \in Slots : ~Open(socks'[u][r])
  BY <1>1, RestoreIs DEF PutOut, Open
<1> QED BY <1>1, <1>2, HintedLevels DEF Hints

\* A crash leaves no page up.
LEMMA CrashLevels ==
  ASSUME KInv, Crash
  PROVE  KInv'
<1>1. Types /\ MInv'
  BY CrashMirrors DEF KInv, MInv, LInv
<1>2. \A t \in Tabs : tabs'[t].state # "up"
  BY <1>1, CrashIs
<1>3. Levels'
  BY <1>2 DEF Levels, Knows
<1> QED BY <1>1, <1>3 DEF KInv

\* A change of the row changes no level yet.
LEMMA FlipLevels ==
  ASSUME KInv, NEW t \in Tabs, NEW what \in Flips, NEW tier \in Tiers, Flip(what, t, tier)
  PROVE  KInv'
<1>1. Types /\ MInv'
  BY FlipMirrors DEF KInv, MInv, LInv
<1>2. calls' = Append(calls, [op |-> what, row |-> row']) /\ UNCHANGED <<locked, trashed, socks, tabs>>
      /\ [op |-> what, row |-> row'] \in Call
  BY <1>1, FlipIs
<1>3. Has(calls, "trash") => Has(calls', "trash")
  <2> DEFINE q == calls
             r == <<[op |-> what, row |-> row']>>
  <2>1. q \in Seq(Call) /\ r \in Seq(Call) /\ calls' = q \o r
    BY <1>1, <1>2, AppendIsConcat, Short DEF Types
  <2> HIDE DEF q, r
  <2>2. Range(q \o r) = Range(q) \cup Range(r)
    BY <2>1, Added
  <2> QED BY <2>1, <2>2 DEF Has, q
<1>4. Levels'
  BY <1>2, <1>3 DEF KInv, Levels, Sock
<1> QED BY <1>1, <1>4 DEF KInv

\* A lock and a trash flag are told to every socket, a tier to those it changes.
LEMMA DeliverLevels ==
  ASSUME KInv, Deliver
  PROVE  KInv'
<1> DEFINE c == Head(calls)
<1>1. Types /\ MInv'
  BY DeliverMirrors DEF KInv, MInv, LInv
<1>2. /\ calls # <<>> /\ c \in Call /\ calls' = Tail(calls) /\ UNCHANGED tabs
      /\ locked' = (IF c.op = "lock" THEN c.row.locked ELSE locked)
      /\ trashed' = (IF c.op = "trash" THEN c.row.trashed ELSE trashed)
  BY <1>1, DeliverIs
<1>3. Has(calls, "trash") /\ ~Has(calls', "trash") => c.op = "trash"
  <2>1. Range(calls) = {c} \cup Range(calls')
    BY <1>1, <1>2, FirstAndRest DEF Types
  <2> QED BY <2>1 DEF Has
<1>4. ASSUME NEW t \in Tabs, NEW s \in Slots
      PROVE  LET k == socks[t][s]
                 n == socks'[t][s]
                 is == Bound(locked', trashed', n)
             IN  Hints(k, n, Bound(locked, trashed, k), is) /\ (c.op = "trash" => Says(k, n, is))
  <2> DEFINE k == socks[t][s]
             n == socks'[t][s]
             is == Bound(locked', trashed', n)
  <2>1. /\ n.up = k.up
        /\ \/ n.code = k.code /\ n.canWrite = k.canWrite /\ Told(k, n, <<>>) /\ c.op = "tier"
           \/ n.code = "revoked"
           \/ \E f \in DownFrames :
                /\ n.code = k.code /\ Told(k, n, <<f>>)
                /\ f.op = "STATE" /\ (f.readOnly <=> locked' \/ trashed' \/ ~n.canWrite)
    BY <1>1, DeliverIs
  <2> HIDE DEF c, k, n
  <2>2. CASE n.code = k.code /\ n.canWrite = k.canWrite /\ Told(k, n, <<>>) /\ c.op = "tier"
    <3>1. locked' = locked /\ trashed' = trashed
      BY <1>2, <2>2
    <3> QED BY <2>1, <2>2, <3>1 DEF Hints, Says, Bound, Open, k, n
  <2>3. CASE n.code = "revoked"
    <3>1. ~Open(n)
      BY <2>3 DEF Open
    <3> QED BY <3>1 DEF Hints, Says, n, k
  <2>4. CASE \E f \in DownFrames :
                /\ n.code = k.code /\ Told(k, n, <<f>>)
                /\ f.op = "STATE" /\ (f.readOnly <=> locked' \/ trashed' \/ ~n.canWrite)
    <3>1. PICK f \in DownFrames :
                /\ n.code = k.code /\ Told(k, n, <<f>>)
                /\ f.op = "STATE" /\ (f.readOnly <=> locked' \/ trashed' \/ ~n.canWrite)
      BY <2>4
    <3>2. IsLevel(f) /\ (f.readOnly <=> is) /\ (Open(n) => Open(k))
      BY <3>1 DEF IsLevel, Bound, Open
    <3> HIDE DEF is
    <3>3. Hints(k, n, Bound(locked, trashed, k), is) /\ Says(k, n, is)
      BY <3>1, <3>2 DEF Hints, Says
    <3> QED BY <3>3 DEF is, k, n
  <2> QED BY <2>1, <2>2, <2>3, <2>4
<1> QED BY <1>1, <1>2, <1>3, <1>4, HintedLevels

\* At first no page is up.
LEMMA InitLevels == Init => KInv
<1> SUFFICES ASSUME Init PROVE KInv
  OBVIOUS
<1>1. \A t \in Tabs : tabs[t].state # "up"
  BY DEF Init, FreshTab
<1> QED BY <1>1, InitMirrors DEF KInv, Levels, Knows

\* Every step keeps the levels.
LEMMA LevelsHold == KInv /\ [Next]_vars => KInv'
<1> SUFFICES ASSUME KInv, [Next]_vars PROVE KInv'
  OBVIOUS
<1>1. MInv' /\ Types
  BY MirrorsHold DEF KInv, MInv, LInv
<1>2. ASSUME UNCHANGED <<calls, locked, trashed, socks, tabs>>
      PROVE  KInv'
  <2>1. Levels'
    BY <1>2 DEF KInv, Levels, Sock
  <2> QED BY <1>1, <2>1 DEF KInv
<1>3. ASSUME NEW t \in Tabs, NEW e \in Edits, Type(t, e) PROVE KInv'
  BY <1>3, TypeLevels
<1>4. ASSUME NEW t \in Tabs, Mint(t) \/ Connect(t) \/ Hears(t) \/ HearsClose(t) \/ LinkDies(t) PROVE KInv'
  BY <1>1, <1>4, MintLevels, ConnectLevels, HearsLevels, LeavesLevels
<1>5. ASSUME NEW t \in Tabs, NEW s \in Slots, Handle(t, s) \/ Departs(t, s) PROVE KInv'
  BY <1>5, HandleLevels
<1>6. ASSUME NEW t \in Tabs, NEW what \in Flips, NEW tier \in Tiers, Flip(what, t, tier) PROVE KInv'
  BY <1>6, FlipLevels
<1>7. ASSUME NEW v \in Content, AskRestore(v) \/ Restore(v) PROVE KInv'
  <2>1. CASE AskRestore(v)
    BY <1>1, <1>2, <2>1, AskRestoreIs
  <2> QED BY <1>7, <2>1, RestoreLevels
<1>8. CASE Save
  BY <1>1, <1>2, <1>8, SaveIs
<1>9. CASE Deliver \/ Crash
  BY <1>9, DeliverLevels, CrashLevels
<1>10. CASE UNCHANGED vars
  BY <1>2, <1>10 DEF vars, node, actor
<1> QED BY <1>3, <1>4, <1>5, <1>6, <1>7, <1>8, <1>9, <1>10 DEF Next

\* The inductive invariant of levels: the last level on its way to a page is the one the actor acts on,
\* and no refusal after it says otherwise (DocPage.tsx, onDocState; doc-actor.ts, SYNC_STEP_1).
THEOREM LevelsInvariant == Spec => []KInv
BY InitLevels, LevelsHold, PTL DEF Spec

\* With empty queues, a page knows its level.
LEMMA LevelImplied == KInv => PageKnowsItsLevel
<1> SUFFICES ASSUME KInv, calls = <<>>, NEW t \in Tabs, Connected(t), Quiet(t)
             PROVE  tabs[t].readOnly <=> locked \/ trashed \/ ~Sock(t).canWrite
  BY DEF PageKnowsItsLevel
<1>1. \A op : ~Has(calls, op) /\ ~Has(Sock(t).up, op)
  BY Short DEF Has, Quiet
<1>2. Tells(Sock(t).down, tabs[t].readOnly, Bound(locked, trashed, Sock(t)))
  BY <1>1 DEF KInv, Levels, Knows, Connected
<1>3. DOMAIN Sock(t).down = {}
  BY DEF Quiet
<1> QED BY <1>2, <1>3 DEF Tells, Bound

\* With nothing on its way to it or to the actor, a page is read-only exactly when the actor would
\* refuse its writes: no older refusal outlasts the level (DocPage.tsx, onDocState).
THEOREM PagesKnowTheirLevel == Spec => []PageKnowsItsLevel
BY LevelsInvariant, LevelImplied, PTL
=============================================================================
