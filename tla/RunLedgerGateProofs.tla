------------------------- MODULE RunLedgerGateProofs -------------------------
(* Proofs that the ledger implements the review gate, and that a document   *)
(* shows an agent's text only while it stands accepted, for any agents,     *)
(* passages, hunks and bounds.                                              *)
EXTENDS RunLedgerProofs

\* The document doc, given where every hunk stands (f), the passage it is for and the text it
\* expects there.  Text of an agent that is shown, or that lies under text that landed, landed there
\* itself and was not taken out; and it lies in one place: shown, or under one hunk.  Without the
\* last part, taking a hunk out could bring text back that another one covers.
Sound(doc, f, slot, old) ==
  /\ \A s \in Slots :
       doc[s] \in HunkNames => f[doc[s]] = "forgotten" \/ (f[doc[s]] = "in" /\ slot[doc[s]] = s)
  /\ \A h \in HunkNames :
       f[h] = "in" /\ old[h] \in HunkNames =>
         \/ f[old[h]] = "forgotten"
         \/ f[old[h]] = "in" /\ slot[old[h]] = slot[h]
  /\ \A h \in HunkNames :
       f[h] = "in" /\ old[h] \in HunkNames /\ f[old[h]] = "in" =>
         /\ \A s \in Slots : doc[s] # old[h]
         /\ \A k \in HunkNames : f[k] = "in" /\ old[k] = old[h] => k = h

-----------------------------------------------------------------------------
(* Text that hunks put in the document, or take out again, keeps it sound *)

\* v is what passage s shows with the hunks A of hs applied to doc: the text of the newest there.
Newest(hs, A, s, doc, v) ==
  \/ v = doc[s] /\ \A j \in A : hs[j].slot # s
  \/ \E p \in A : hs[p].slot = s /\ v = hs[p].new /\ \A j \in A : hs[j].slot = s => j <= p

\* What a passage shows with hunks applied is found by looking for the newest of them there.
LEMMA FoundText ==
  ASSUME NEW hs \in Seq(Hunk), NEW A \in SUBSET DOMAIN hs, NEW doc, NEW s \in Slots
  PROVE  Newest(hs, A, s, doc, TextAfter(hs, A, doc)[s])
<1> DEFINE I == At(hs, A, s)
<1>1. Len(hs) \in Nat /\ I \in SUBSET (0 .. Len(hs))
  BY DEF At
<1>2. TextAfter(hs, A, doc)[s] = IF I = {} THEN doc[s] ELSE hs[Highest(I)].new
  BY DEF TextAfter
<1>3. \A j : j \in I <=> j \in A /\ hs[j].slot = s
  BY DEF At
<1> HIDE DEF I
<1>4. CASE I = {}
  BY <1>2, <1>3, <1>4 DEF Newest
<1>5. CASE I # {}
  <2>1. Highest(I) \in I /\ \A j \in I : j <= Highest(I)
    BY <1>1, <1>5, HighestExists
  <2> QED BY <1>2, <1>3, <1>5, <2>1 DEF Newest
<1> QED BY <1>4, <1>5

\* v is what is left at passage s once the hunks B of hs are taken out: what the oldest found.
Oldest(hs, B, s, doc, v) ==
  \/ v = doc[s] /\ \A j \in B : hs[j].slot # s
  \/ \E p \in B : hs[p].slot = s /\ v = hs[p].old /\ \A j \in B : hs[j].slot = s => p <= j

\* What a passage shows with hunks taken out is found by looking for the oldest of them there.
LEMMA LeftText ==
  ASSUME NEW hs \in Seq(Hunk), NEW B \in SUBSET DOMAIN hs, NEW doc, NEW s \in Slots
  PROVE  Oldest(hs, B, s, doc, TextBefore(hs, B, doc)[s])
<1> DEFINE I == At(hs, B, s)
<1>1. I \in SUBSET Nat
  BY DEF At
<1>2. TextBefore(hs, B, doc)[s] = IF I = {} THEN doc[s] ELSE hs[Lowest(I)].old
  BY DEF TextBefore
<1>3. \A j : j \in I <=> j \in B /\ hs[j].slot = s
  BY DEF At
<1> HIDE DEF I
<1>4. CASE I = {}
  BY <1>2, <1>3, <1>4 DEF Oldest
<1>5. CASE I # {}
  <2>1. Lowest(I) \in I /\ \A j \in I : Lowest(I) <= j
    BY <1>1, <1>5, LowestExists
  <2> QED BY <1>2, <1>3, <1>5, <2>1 DEF Oldest
<1> QED BY <1>4, <1>5

\* Each hunk taken out is shown, or lies right under the next one taken out.
OnTop(hs, B, i, doc) ==
  \/ hs[i].new = doc[hs[i].slot] /\ \A j \in B : hs[j].slot = hs[i].slot => j <= i
  \/ \E k \in B : k > i /\ hs[k].slot = hs[i].slot /\ hs[i].new = hs[k].old

\* Where the inverse edits of B fit, each hunk of B is on top, or under the next one of B.
LEMMA UnwoundText ==
  ASSUME NEW hs \in Seq(Hunk), NEW B \in SUBSET DOMAIN hs, NEW doc, Unwinds(hs, B, doc), NEW i \in B
  PROVE  OnTop(hs, B, i, doc)
<1> DEFINE later == {j \in At(hs, B, hs[i].slot) : j > i}
<1>1. hs[i].new = IF later = {} THEN doc[hs[i].slot] ELSE hs[Lowest(later)].old
  BY DEF Unwinds
<1>2. later \in SUBSET Nat /\ i \in Nat
  BY DEF At
<1>3. \A j : j \in later <=> j \in B /\ hs[j].slot = hs[i].slot /\ j > i
  BY DEF At
<1>4. \A j \in B : j \in Nat
  OBVIOUS
<1> HIDE DEF later
<1>5. CASE later = {}
  BY <1>1, <1>2, <1>3, <1>4, <1>5 DEF OnTop
<1>6. CASE later # {}
  <2>1. Lowest(later) \in later
    BY <1>2, <1>6, LowestExists
  <2> QED BY <1>1, <1>3, <1>6, <2>1 DEF OnTop
<1> QED BY <1>5, <1>6

\* What people write, or a deletion leaves, is never the text of a hunk.
LEMMA TextIsNoName == ASSUME NEW v \in Plain \cup {Gone} PROVE v \notin HunkNames
BY TextAssumption DEF HunkNames

\* Steps that only let hunks stand where they stood, or be forgotten.
LEMMA SoundStill ==
  ASSUME NEW doc, NEW f, NEW slot, NEW old, Sound(doc, f, slot, old), NEW g, NEW slot2, NEW old2,
         \A h \in HunkNames : /\ f[h] = "forgotten" => g[h] = "forgotten"
                              /\ f[h] = "in" => g[h] \in {"in", "forgotten"}
                              /\ g[h] = "in" => f[h] = "in" /\ slot2[h] = slot[h] /\ old2[h] = old[h]
  PROVE  Sound(doc, g, slot2, old2)
<1>1. \A s \in Slots :
        doc[s] \in HunkNames => g[doc[s]] = "forgotten" \/ (g[doc[s]] = "in" /\ slot2[doc[s]] = s)
  BY DEF Sound
<1>2. \A h \in HunkNames :
        g[h] = "in" /\ old2[h] \in HunkNames =>
          \/ g[old2[h]] = "forgotten"
          \/ g[old2[h]] = "in" /\ slot2[old2[h]] = slot2[h]
  BY DEF Sound
<1>3. \A h \in HunkNames :
        g[h] = "in" /\ old2[h] \in HunkNames /\ g[old2[h]] = "in" =>
          /\ \A s \in Slots : doc[s] # old2[h]
          /\ \A k \in HunkNames : g[k] = "in" /\ old2[k] = old2[h] => k = h
  BY DEF Sound
<1> QED BY <1>1, <1>2, <1>3 DEF Sound

\* The hunks A of run r, which are hs, land: no other hunk comes or goes.
Named(r, A) == {<<r, i>> : i \in A}
LetsIn(r, hs, A, f, slot, old, g, slot2, old2) ==
  /\ \A i \in A : /\ <<r, i>> \in HunkNames /\ hs[i].slot \in Slots /\ hs[i].new \in {Gone, <<r, i>>}
                  /\ f[<<r, i>>] \notin {"in", "forgotten"} /\ g[<<r, i>>] = "in"
                  /\ slot2[<<r, i>>] = hs[i].slot /\ old2[<<r, i>>] = hs[i].old
  /\ \A h \in HunkNames \ Named(r, A) :
       /\ f[h] = "forgotten" => g[h] = "forgotten"
       /\ f[h] = "in" <=> g[h] = "in"
       /\ f[h] = "in" => slot2[h] = slot[h] /\ old2[h] = old[h]

\* Hunks that each found their text landed one over the other.
LEMMA SoundLanded ==
  ASSUME NEW doc, NEW f, NEW slot, NEW old, Sound(doc, f, slot, old), NEW g, NEW slot2, NEW old2,
         NEW r \in RunIds, NEW hs \in Seq(Hunk), NEW A \in SUBSET DOMAIN hs,
         LetsIn(r, hs, A, f, slot, old, g, slot2, old2),
         \A i \in A : TextAfter(hs, {j \in A : j < i}, doc)[hs[i].slot] = hs[i].old
  PROVE  Sound(TextAfter(hs, A, doc), g, slot2, old2)
<1> DEFINE after == TextAfter(hs, A, doc)
           here == Named(r, A)
<1>1. Gone \notin HunkNames
  BY TextIsNoName
<1>2. \A h \in here : h \in HunkNames /\ f[h] \notin {"in", "forgotten"} /\ g[h] = "in"
  BY DEF LetsIn, Named
<1>3. A \subseteq Nat
  OBVIOUS
<1>4. /\ \A s \in Slots :
           doc[s] \in HunkNames => f[doc[s]] = "forgotten" \/ (f[doc[s]] = "in" /\ slot[doc[s]] = s)
      /\ \A h \in HunkNames :
           f[h] = "in" /\ old[h] \in HunkNames =>
             \/ f[old[h]] = "forgotten"
             \/ f[old[h]] = "in" /\ slot[old[h]] = slot[h]
      /\ \A h \in HunkNames :
           f[h] = "in" /\ old[h] \in HunkNames /\ f[old[h]] = "in" =>
             /\ \A s \in Slots : doc[s] # old[h]
             /\ \A k \in HunkNames : f[k] = "in" /\ old[k] = old[h] => k = h
  BY DEF Sound
\* What each hunk found: what was shown, or the hunk of A before it.
<1>5. ASSUME NEW i \in A
      PROVE  \/ hs[i].old = doc[hs[i].slot] /\ \A j \in A : hs[j].slot = hs[i].slot => i <= j
             \/ \E p \in A : /\ p < i /\ hs[p].slot = hs[i].slot /\ hs[i].old = hs[p].new
                             /\ \A j \in A : hs[j].slot = hs[i].slot /\ j < i => j <= p
  <2> DEFINE P == {j \in A : j < i}
  <2>1. P \in SUBSET DOMAIN hs /\ hs[i].slot \in Slots
    BY DEF LetsIn
  <2>2. Newest(hs, P, hs[i].slot, doc, hs[i].old)
    <3> HIDE DEF P
    <3>1. TextAfter(hs, P, doc)[hs[i].slot] = hs[i].old
      BY DEF P
    <3> QED BY <2>1, <3>1, FoundText
  <2> QED BY <1>3, <2>2 DEF Newest
\* What is shown: what was, or the newest hunk of A there.
<1>6. ASSUME NEW s \in Slots
      PROVE  \/ after[s] = doc[s] /\ \A j \in A : hs[j].slot # s
             \/ \E p \in A : /\ hs[p].slot = s /\ after[s] = hs[p].new
                             /\ \A j \in A : hs[j].slot = s => j <= p
  BY FoundText DEF Newest
<1> HIDE DEF after, here
<1>7. \A h \in HunkNames :
        /\ f[h] = "forgotten" => g[h] = "forgotten"
        /\ f[h] = "in" => g[h] = "in" /\ slot2[h] = slot[h] /\ old2[h] = old[h]
        /\ g[h] = "in" /\ h \notin here => f[h] = "in"
  BY <1>2 DEF LetsIn, here
<1>8. \A h \in here : \E i \in A : h = <<r, i>> /\ slot2[h] = hs[i].slot /\ old2[h] = hs[i].old
  BY DEF LetsIn, here, Named
<1>9. \A i \in A : /\ <<r, i>> \in here /\ hs[i].slot \in Slots /\ hs[i].new \in {Gone, <<r, i>>}
                   /\ slot2[<<r, i>>] = hs[i].slot /\ old2[<<r, i>>] = hs[i].old
  BY DEF LetsIn, here, Named
<1>10. \A i \in A : hs[i].new \in HunkNames => hs[i].new = <<r, i>> /\ hs[i].new \in here
  BY <1>1, <1>9
<1>11. \A s \in Slots : after[s] \in HunkNames =>
         \/ after[s] = doc[s]
         \/ after[s] \in here /\ \E p \in A : /\ hs[p].slot = s /\ after[s] = <<r, p>>
                                              /\ \A j \in A : hs[j].slot = s => j <= p
  <2> TAKE s \in Slots
  <2> HAVE after[s] \in HunkNames
  <2>1. CASE after[s] # doc[s]
    <3>1. PICK p \in A : /\ hs[p].slot = s /\ after[s] = hs[p].new
                         /\ \A j \in A : hs[j].slot = s => j <= p
      BY <1>6, <2>1
    <3> QED BY <1>10, <3>1
  <2> QED BY <2>1
<1>12. ASSUME NEW i \in A, hs[i].old \in HunkNames, hs[i].old = doc[hs[i].slot]
       PROVE  \/ f[hs[i].old] = "forgotten"
              \/ f[hs[i].old] = "in" /\ slot[hs[i].old] = hs[i].slot
  <2>1. hs[i].slot \in Slots
    BY <1>9
  <2>2. \A v \in HunkNames : \A s \in Slots : v = doc[s] => f[v] = "forgotten" \/ (f[v] = "in" /\ slot[v] = s)
    BY <1>4
  <2> QED BY <1>12, <2>1, <2>2
\* What a hunk of A found is shown, or is the text of a hunk of A.
<1>13. \A i \in A : hs[i].old \in HunkNames =>
         \/ hs[i].old = doc[hs[i].slot] /\ hs[i].old \notin here
         \/ \E p \in A : /\ p < i /\ hs[p].slot = hs[i].slot /\ hs[i].old = <<r, p>>
                         /\ \A j \in A : hs[j].slot = hs[i].slot /\ j < i => j <= p
  <2> TAKE i \in A
  <2> HAVE hs[i].old \in HunkNames
  <2>1. CASE hs[i].old = doc[hs[i].slot]
    <3>1. f[hs[i].old] \in {"in", "forgotten"}
      BY <1>12, <2>1
    <3> QED BY <1>2, <2>1, <3>1
  <2>2. CASE \E p \in A : /\ p < i /\ hs[p].slot = hs[i].slot /\ hs[i].old = hs[p].new
                          /\ \A j \in A : hs[j].slot = hs[i].slot /\ j < i => j <= p
    BY <1>1, <1>9, <2>2
  <2> QED BY <1>5, <2>1, <2>2
<1>14. \A s \in Slots :
         after[s] \in HunkNames => g[after[s]] = "forgotten" \/ (g[after[s]] = "in" /\ slot2[after[s]] = s)
  <2> TAKE s \in Slots
  <2> HAVE after[s] \in HunkNames
  <2>1. CASE after[s] = doc[s]
    BY <1>4, <1>7, <2>1
  <2>2. CASE \E p \in A : hs[p].slot = s /\ after[s] = hs[p].new
    BY <1>1, <1>2, <1>9, <2>2
  <2> QED BY <1>6, <2>1, <2>2
<1>15. ASSUME NEW h \in HunkNames, g[h] = "in", old2[h] \in HunkNames
       PROVE  \/ g[old2[h]] = "forgotten"
              \/ g[old2[h]] = "in" /\ slot2[old2[h]] = slot2[h]
  <2>1. CASE h \notin here
    BY <1>4, <1>7, <1>15, <2>1
  <2>2. CASE h \in here
    <3>1. PICK i \in A : h = <<r, i>> /\ slot2[h] = hs[i].slot /\ old2[h] = hs[i].old
      BY <1>8, <2>2
    <3>2. CASE hs[i].old = doc[hs[i].slot]
      BY <1>4, <1>7, <1>9, <1>15, <3>1, <3>2
    <3>3. CASE \E p \in A : hs[p].slot = hs[i].slot /\ hs[i].old = <<r, p>>
      BY <1>2, <1>9, <3>1, <3>3
    <3> QED BY <1>13, <1>15, <3>1, <3>2, <3>3
  <2> QED BY <2>1, <2>2
<1>16. ASSUME NEW h \in HunkNames, g[h] = "in", old2[h] \in HunkNames, g[old2[h]] = "in",
              NEW s \in Slots, after[s] = old2[h]
       PROVE  FALSE
  <2>1. CASE h \notin here /\ after[s] = doc[s]
    <3>1. f[h] = "in" /\ old2[h] = old[h]
      BY <1>7, <1>16, <2>1
    <3>2. f[old[h]] = "in" \/ f[old[h]] = "forgotten"
      BY <1>4, <1>16, <3>1
    <3>3. f[old[h]] = "in"
      BY <1>7, <1>16, <3>1, <3>2
    <3> QED BY <1>4, <1>16, <2>1, <3>1, <3>3, ZenonT(60)
  <2>2. CASE h \notin here /\ after[s] \in here
    <3>1. f[h] = "in" /\ old2[h] = old[h]
      BY <1>7, <1>16, <2>2
    <3>2. f[old[h]] \in {"in", "forgotten"}
      BY <1>4, <1>16, <3>1
    <3> QED BY <1>2, <1>16, <2>2, <3>1, <3>2
  <2>3. ASSUME NEW i \in A, h = <<r, i>>
        PROVE  FALSE
    <3>1. old2[h] = hs[i].old
      BY <1>9, <2>3
    <3>2. CASE hs[i].old = doc[hs[i].slot] /\ hs[i].old \notin here
      <4>1. g[hs[i].old] = "in" /\ f[hs[i].old] = "in" /\ slot[hs[i].old] = hs[i].slot
        <5>1. f[hs[i].old] = "forgotten" \/ (f[hs[i].old] = "in" /\ slot[hs[i].old] = hs[i].slot)
          BY <1>12, <1>16, <3>1, <3>2
        <5> QED BY <1>7, <1>16, <3>1, <5>1
      <4>2. after[s] = doc[s] /\ hs[i].slot # s
        <5>1. \A p \in A : after[s] # hs[p].new
          BY <1>10, <1>16, <3>1, <3>2
        <5> QED BY <1>6, <5>1
      <4>3. slot[hs[i].old] = s
        BY <1>4, <1>16, <3>1, <4>1, <4>2
      <4> QED BY <4>1, <4>2, <4>3
    <3>3. ASSUME NEW p \in A, p < i, hs[p].slot = hs[i].slot, hs[i].old = <<r, p>>
          PROVE  FALSE
      <4>1. after[s] = <<r, p>> /\ <<r, p>> \in here
        BY <1>9, <1>16, <3>1, <3>3
      <4>2. after[s] # doc[s]
        BY <1>4, <1>2, <1>16, <3>1, <4>1
      <4>3. PICK q \in A : hs[q].slot = s /\ after[s] = <<r, q>> /\ \A j \in A : hs[j].slot = s => j <= q
        BY <1>11, <1>16, <4>2
      <4>4. q = p
        BY <4>1, <4>3
      <4>5. i <= p
        BY <3>3, <4>3, <4>4
      <4> QED BY <1>3, <3>3, <4>5
    <3> QED BY <1>13, <1>16, <3>1, <3>2, <3>3
  <2>4. after[s] = doc[s] \/ after[s] \in here
    BY <1>11, <1>16
  <2> QED BY <1>8, <2>1, <2>2, <2>3, <2>4
<1>17. ASSUME NEW h \in HunkNames, g[h] = "in", old2[h] \in HunkNames, g[old2[h]] = "in",
              NEW k \in HunkNames, g[k] = "in", old2[k] = old2[h]
       PROVE  k = h
  <2>1. ASSUME NEW x \in HunkNames, NEW y \in HunkNames, f[x] = "in", old[x] \in HunkNames,
               g[old[x]] = "in", NEW i \in A, y = <<r, i>>, hs[i].old = old[x]
        PROVE  FALSE
    <3>1. f[old[x]] = "in" /\ old[x] \notin here
      <4>1. f[old[x]] = "forgotten" \/ f[old[x]] = "in"
        BY <1>4, <2>1
      <4> QED BY <1>2, <1>7, <2>1, <4>1
    <3>2. hs[i].old = doc[hs[i].slot]
      BY <1>9, <1>13, <2>1, <3>1
    <3>3. \A s \in Slots : doc[s] # old[x]
      BY <1>4, <2>1, <3>1
    <3>4. hs[i].slot \in Slots
      BY <1>9
    <3> QED BY <2>1, <3>2, <3>3, <3>4
  <2>2. CASE h \notin here /\ k \notin here
    <3>1. f[h] = "in" /\ f[k] = "in" /\ old[h] = old2[h] /\ old[k] = old2[k]
      BY <1>7, <1>17, <2>2
    <3>2. f[old[h]] = "forgotten" \/ f[old[h]] = "in"
      BY <1>4, <1>17, <3>1
    <3>3. f[old[h]] = "in"
      BY <1>7, <1>17, <3>1, <3>2
    <3> QED BY <1>4, <1>17, <3>1, <3>3
  <2>3. CASE h \notin here /\ k \in here
    <3>1. f[h] = "in" /\ old[h] = old2[h]
      BY <1>7, <1>17, <2>3
    <3> QED BY <1>8, <1>17, <2>1, <2>3, <3>1
  <2>4. CASE h \in here /\ k \notin here
    <3>1. f[k] = "in" /\ old[k] = old2[k]
      BY <1>7, <1>17, <2>4
    <3> QED BY <1>8, <1>17, <2>1, <2>4, <3>1
  <2>5. CASE h \in here /\ k \in here
    <3>1. PICK i \in A : h = <<r, i>> /\ old2[h] = hs[i].old
      BY <1>8, <2>5
    <3>2. PICK j \in A : k = <<r, j>> /\ old2[k] = hs[j].old
      BY <1>8, <2>5
    <3>3. CASE hs[i].old \notin here
      <4>1. hs[i].old = doc[hs[i].slot] /\ hs[j].old = doc[hs[j].slot]
        BY <1>9, <1>13, <1>17, <3>1, <3>2, <3>3
      <4>2. f[hs[i].old] = "in"
        BY <1>4, <1>7, <1>9, <1>17, <3>1, <3>3, <4>1
      <4>3. hs[i].slot = hs[j].slot
        BY <1>4, <1>9, <1>17, <3>1, <3>2, <4>1, <4>2
      <4>4. \A p \in A : hs[i].old # <<r, p>> /\ hs[j].old # <<r, p>>
        BY <1>9, <1>17, <3>1, <3>2, <3>3
      <4>5. i <= j /\ j <= i
        BY <1>1, <1>5, <1>9, <1>17, <3>1, <3>2, <4>3, <4>4, ZenonT(60)
      <4> QED BY <1>3, <3>1, <3>2, <4>5
    <3>4. CASE hs[i].old \in here
      <4>1. PICK p \in A : /\ p < i /\ hs[p].slot = hs[i].slot /\ hs[i].old = <<r, p>>
                           /\ \A l \in A : hs[l].slot = hs[i].slot /\ l < i => l <= p
        BY <1>13, <1>17, <3>1, <3>4
      <4>2. PICK q \in A : /\ q < j /\ hs[q].slot = hs[j].slot /\ hs[j].old = <<r, q>>
                           /\ \A l \in A : hs[l].slot = hs[j].slot /\ l < j => l <= q
        BY <1>13, <1>17, <3>1, <3>2, <3>4
      <4>3. p = q
        BY <1>17, <3>1, <3>2, <4>1, <4>2
      <4>4. ~(i < j) /\ ~(j < i)
        BY <1>3, <4>1, <4>2, <4>3
      <4> QED BY <1>3, <3>1, <3>2, <4>4
    <3> QED BY <3>3, <3>4
  <2> QED BY <2>2, <2>3, <2>4, <2>5
<1> QED BY <1>14, <1>15, <1>16, <1>17 DEF Sound, after

\* The hunks B of run r, which are hs, go out again: no other hunk comes or goes.
TakesOut(r, hs, B, f, slot, old, g, slot2, old2) ==
  /\ \A i \in B : /\ <<r, i>> \in HunkNames /\ hs[i].slot \in Slots /\ hs[i].new = <<r, i>>
                  /\ f[<<r, i>>] = "in" /\ g[<<r, i>>] \notin {"in", "forgotten"}
                  /\ slot[<<r, i>>] = hs[i].slot /\ old[<<r, i>>] = hs[i].old
  /\ \A h \in HunkNames \ Named(r, B) :
       /\ f[h] = "forgotten" => g[h] = "forgotten"
       /\ f[h] = "in" <=> g[h] = "in"
       /\ f[h] = "in" => slot2[h] = slot[h] /\ old2[h] = old[h]

\* Hunks that each found their own text again were taken out, the newest first.
LEMMA SoundTakenOut ==
  ASSUME NEW doc, NEW f, NEW slot, NEW old, Sound(doc, f, slot, old), NEW g, NEW slot2, NEW old2,
         NEW r \in RunIds, NEW hs \in Seq(Hunk), NEW B \in SUBSET DOMAIN hs,
         TakesOut(r, hs, B, f, slot, old, g, slot2, old2), Unwinds(hs, B, doc)
  PROVE  Sound(TextBefore(hs, B, doc), g, slot2, old2)
<1> DEFINE after == TextBefore(hs, B, doc)
           here == Named(r, B)
<1>1. /\ \A s \in Slots :
           doc[s] \in HunkNames => f[doc[s]] = "forgotten" \/ (f[doc[s]] = "in" /\ slot[doc[s]] = s)
      /\ \A h \in HunkNames :
           f[h] = "in" /\ old[h] \in HunkNames =>
             \/ f[old[h]] = "forgotten"
             \/ f[old[h]] = "in" /\ slot[old[h]] = slot[h]
      /\ \A h \in HunkNames :
           f[h] = "in" /\ old[h] \in HunkNames /\ f[old[h]] = "in" =>
             /\ \A s \in Slots : doc[s] # old[h]
             /\ \A k \in HunkNames : f[k] = "in" /\ old[k] = old[h] => k = h
  BY DEF Sound
<1>2. B \subseteq Nat
  OBVIOUS
<1>3. \A s \in Slots : \/ after[s] = doc[s] /\ \A j \in B : hs[j].slot # s
                       \/ \E p \in B : /\ hs[p].slot = s /\ after[s] = hs[p].old
                                       /\ \A j \in B : hs[j].slot = s => p <= j
  BY LeftText DEF Oldest
<1>4. \A i \in B : \/ hs[i].new = doc[hs[i].slot] /\ \A j \in B : hs[j].slot = hs[i].slot => j <= i
                   \/ \E k \in B : k > i /\ hs[k].slot = hs[i].slot /\ hs[i].new = hs[k].old
  BY UnwoundText DEF OnTop
<1>5. /\ \A i \in B : /\ <<r, i>> \in HunkNames /\ <<r, i>> \in here
                      /\ hs[i].slot \in Slots /\ hs[i].new = <<r, i>>
                      /\ f[<<r, i>>] = "in" /\ slot[<<r, i>>] = hs[i].slot /\ old[<<r, i>>] = hs[i].old
      /\ \A h \in here : f[h] = "in" /\ \E i \in B : h = <<r, i>>
  BY DEF TakesOut, Named
<1>6. \A h \in HunkNames : /\ f[h] = "forgotten" => g[h] = "forgotten"
                           /\ f[h] = "in" /\ h \notin here => g[h] = "in"
                           /\ g[h] = "in" => /\ f[h] = "in" /\ h \notin here
                                             /\ slot2[h] = slot[h] /\ old2[h] = old[h]
  <2>1. \A h \in here : f[h] = "in" /\ g[h] \notin {"in", "forgotten"}
    BY DEF TakesOut, Named
  <2> QED BY <2>1 DEF TakesOut, here
<1> HIDE DEF after, here
\* What lies over a hunk taken out is itself taken out.
<1>7. ASSUME NEW i \in B, NEW k \in HunkNames, f[k] = "in", old[k] = <<r, i>>
      PROVE  \E j \in B : j > i /\ k = <<r, j>>
  <2> DEFINE x == <<r, i>>
  <2>0. x \in HunkNames /\ f[x] = "in" /\ hs[i].new = x /\ hs[i].slot \in Slots /\ old[k] = x
    BY <1>5, <1>7
  <2> HIDE DEF x
  <2>1. \A s \in Slots : doc[s] # x
    BY <1>1, <1>7, <2>0
  <2>5. hs[i].new # doc[hs[i].slot]
    BY <2>0, <2>1
  <2>2. PICK j \in B : j > i /\ hs[j].old = <<r, i>>
    BY <1>4, <2>0, <2>5 DEF x
  <2>3. /\ f[<<r, j>>] = "in" /\ old[<<r, j>>] = <<r, i>> /\ f[<<r, i>>] = "in"
        /\ <<r, j>> \in HunkNames /\ <<r, i>> \in HunkNames
    BY <1>5, <2>2
  <2>4. k = <<r, j>>
    BY <1>1, <1>7, <2>3
  <2> QED BY <2>2, <2>4
<1>8. \A h \in HunkNames : g[h] = "in" => old[h] \notin here
  BY <1>5, <1>6, <1>7
<1>9. ASSUME NEW s \in Slots, after[s] \in HunkNames
      PROVE  g[after[s]] = "forgotten" \/ (g[after[s]] = "in" /\ slot2[after[s]] = s)
  <2>1. CASE after[s] = doc[s] /\ \A j \in B : hs[j].slot # s
    <3>1. f[doc[s]] = "forgotten" \/ (f[doc[s]] = "in" /\ slot[doc[s]] = s)
      BY <1>1, <1>9, <2>1
    <3>2. f[doc[s]] = "in" /\ slot[doc[s]] = s => doc[s] \notin here
      BY <1>5, <2>1
    <3> QED BY <1>6, <1>9, <2>1, <3>1, <3>2
  <2>2. ASSUME NEW p \in B, hs[p].slot = s, after[s] = hs[p].old, \A j \in B : hs[j].slot = s => p <= j
        PROVE  g[after[s]] = "forgotten" \/ (g[after[s]] = "in" /\ slot2[after[s]] = s)
    <3>1. <<r, p>> \in HunkNames /\ f[<<r, p>>] = "in" /\ old[<<r, p>>] = after[s] /\ slot[<<r, p>>] = s
      BY <1>5, <2>2
    <3>2. f[after[s]] = "forgotten" \/ (f[after[s]] = "in" /\ slot[after[s]] = s)
      BY <1>1, <1>9, <3>1
    <3>3. ASSUME NEW i \in B, after[s] = <<r, i>>
          PROVE  FALSE
      <4>1. \E j \in B : j > i /\ <<r, p>> = <<r, j>>
        BY <1>7, <3>1, <3>3
      <4>2. p > i
        BY <4>1
      <4>3. f[<<r, i>>] = "in" /\ slot[<<r, i>>] = hs[i].slot
        BY <1>5
      <4>4. hs[i].slot = s
        BY <3>2, <3>3, <4>3
      <4> QED BY <1>2, <2>2, <4>2, <4>4
    <3>4. after[s] \notin here
      BY <1>5, <3>3
    <3> QED BY <1>6, <1>9, <3>2, <3>4
  <2> QED BY <1>3, <2>1, <2>2
<1>10. ASSUME NEW h \in HunkNames, g[h] = "in", old2[h] \in HunkNames
       PROVE  \/ g[old2[h]] = "forgotten"
              \/ g[old2[h]] = "in" /\ slot2[old2[h]] = slot2[h]
  <2>1. f[h] = "in" /\ old2[h] = old[h] /\ slot2[h] = slot[h] /\ old[h] \notin here
    BY <1>6, <1>8, <1>10
  <2>2. f[old[h]] = "forgotten" \/ (f[old[h]] = "in" /\ slot[old[h]] = slot[h])
    BY <1>1, <1>10, <2>1
  <2> QED BY <1>6, <1>10, <2>1, <2>2
<1>11. ASSUME NEW h \in HunkNames, g[h] = "in", old2[h] \in HunkNames, g[old2[h]] = "in"
       PROVE  /\ \A s \in Slots : after[s] # old2[h]
              /\ \A k \in HunkNames : g[k] = "in" /\ old2[k] = old2[h] => k = h
  <2>1. f[h] = "in" /\ old2[h] = old[h] /\ h \notin here /\ f[old[h]] = "in"
    BY <1>6, <1>11
  <2>2. /\ \A s \in Slots : doc[s] # old[h]
        /\ \A k \in HunkNames : f[k] = "in" /\ old[k] = old[h] => k = h
    BY <1>1, <1>11, <2>1
  <2>3. \A k \in HunkNames : g[k] = "in" /\ old2[k] = old2[h] => k = h
    BY <1>6, <2>1, <2>2
  <2>4. ASSUME NEW s \in Slots, NEW p \in B, after[s] = hs[p].old, after[s] = old[h]
        PROVE  FALSE
    <3>1. <<r, p>> \in HunkNames /\ f[<<r, p>>] = "in" /\ old[<<r, p>>] = old[h] /\ <<r, p>> \in here
      BY <1>5, <2>4
    <3> QED BY <2>1, <2>2, <3>1
  <2>5. \A s \in Slots : after[s] # old2[h]
    BY <1>3, <2>1, <2>2, <2>4
  <2> QED BY <2>3, <2>5
<1> QED BY <1>9, <1>10, <1>11 DEF Sound, after

-----------------------------------------------------------------------------
(* What the gate sees of a ledger *)

\* FateOf, of the runs rs when n run ids were handed out.
FateIn(rs, n, h) ==
  LET run == rs[h[1]]
      known == h[2] \in DOMAIN run.hunks
  IN  CASE ~known -> IF h[1] <= n /\ run.status = "none" THEN "forgotten" ELSE "new"
        [] known /\ run.hunks[h[2]].status = "pending" -> "waiting"
        [] known /\ Landed(run.hunks[h[2]]) /\ ~run.reverted -> "in"
        [] OTHER -> "out"
FatesIn(rs, n) == [h \in HunkNames |-> FateIn(rs, n, h)]
SlotsIn(rs) == [h \in HunkNames |-> rs[h[1]].hunks[h[2]].slot]
OldsIn(rs) == [h \in HunkNames |-> rs[h[1]].hunks[h[2]].old]

\* A hunk writes its own name or nothing, and of a run that is not kept nothing is left.
Tidy(rs, n) ==
  \A r \in RunIds :
    /\ \A i \in DOMAIN rs[r].hunks : rs[r].hunks[i].new \in {Gone, <<r, i>>}
    /\ rs[r].status # "none" => r <= n
    /\ rs[r].status = "none" =>
         DOMAIN rs[r].hunks = {} /\ ~rs[r].reverted /\ \A i \in HunkIx : rs[r].approvals[i] = None

Clear(doc, rs, n) == Tidy(rs, n) /\ Sound(doc, FatesIn(rs, n), SlotsIn(rs), OldsIn(rs))
GInv == IInv /\ Clear(text, runs, minted)

\* One run and its successor where the gate sees no difference.
SameHunk(x, y) == y.slot = x.slot /\ y.old = x.old /\ y.new = x.new /\ y.review = x.review
SameFate(x, y) ==
  /\ y.agent = x.agent /\ y.approvals = x.approvals
  /\ y.reverted <=> x.reverted
  /\ y.status = "none" <=> x.status = "none"
  /\ DOMAIN y.hunks = DOMAIN x.hunks
  /\ \A i \in DOMAIN x.hunks : SameHunk(x.hunks[i], y.hunks[i]) /\ y.hunks[i].status = x.hunks[i].status
AllSame(rs, ss) == \A q \in RunIds : SameFate(rs[q], ss[q])

\* The fates, told apart.
LEMMA FateCases ==
  ASSUME NEW rs, NEW n, NEW r \in RunIds, NEW i \in HunkIx
  PROVE  LET f == FateIn(rs, n, <<r, i>>)
             known == i \in DOMAIN rs[r].hunks
             kept == rs[r].status # "none"
             in == Landed(rs[r].hunks[i]) /\ ~rs[r].reverted
             waits == rs[r].hunks[i].status = "pending"
         IN  /\ f = "new" <=> ~known /\ ~(r <= n /\ ~kept)
             /\ f = "forgotten" <=> ~known /\ r <= n /\ ~kept
             /\ f = "waiting" <=> known /\ waits
             /\ f = "in" <=> known /\ in
             /\ f = "out" <=> known /\ ~waits /\ ~in
             /\ f \in {"new", "forgotten", "waiting", "in", "out"}
BY DEF FateIn, Landed

\* A hunk is named by its run and its place in it.
LEMMA Pairs ==
  /\ \A h \in HunkNames : h = <<h[1], h[2]>> /\ h[1] \in RunIds /\ h[2] \in HunkIx
  /\ \A r \in RunIds, i \in HunkIx : <<r, i>> \in HunkNames
BY DEF HunkNames

\* Where runs look the same, so do the fates, and the hunks that stand.
LEMMA SameFates ==
  ASSUME NEW rs, NEW ss, AllSame(rs, ss), NEW n
  PROVE  /\ FatesIn(rs, n) = FatesIn(ss, n)
         /\ \A h \in HunkNames : FatesIn(rs, n)[h] = "in" =>
              SlotsIn(rs)[h] = SlotsIn(ss)[h] /\ OldsIn(rs)[h] = OldsIn(ss)[h]
<1>1. ASSUME NEW r \in RunIds, NEW i \in HunkIx
      PROVE  /\ FateIn(rs, n, <<r, i>>) = FateIn(ss, n, <<r, i>>)
             /\ FateIn(rs, n, <<r, i>>) = "in" =>
                  /\ rs[r].hunks[i].slot = ss[r].hunks[i].slot
                  /\ rs[r].hunks[i].old = ss[r].hunks[i].old
  <2>1. /\ i \in DOMAIN rs[r].hunks <=> i \in DOMAIN ss[r].hunks
        /\ rs[r].status = "none" <=> ss[r].status = "none"
        /\ rs[r].reverted <=> ss[r].reverted
        /\ i \in DOMAIN rs[r].hunks => /\ ss[r].hunks[i].status = rs[r].hunks[i].status
                                       /\ rs[r].hunks[i].slot = ss[r].hunks[i].slot
                                       /\ rs[r].hunks[i].old = ss[r].hunks[i].old
    BY DEF AllSame, SameFate, SameHunk
  <2>2. /\ i \in DOMAIN rs[r].hunks =>
             (Landed(rs[r].hunks[i]) /\ ~rs[r].reverted <=> Landed(ss[r].hunks[i]) /\ ~ss[r].reverted)
        /\ FateIn(rs, n, <<r, i>>) = "in" => i \in DOMAIN rs[r].hunks
    BY <2>1, FateCases DEF Landed
  <2>3. FateIn(rs, n, <<r, i>>) = FateIn(ss, n, <<r, i>>)
    BY <2>1, <2>2, FateCases
  <2> QED BY <2>1, <2>2, <2>3
<1>2. ASSUME NEW h \in HunkNames
      PROVE  /\ FateIn(rs, n, h) = FateIn(ss, n, h)
             /\ FateIn(rs, n, h) = "in" =>
                  /\ rs[h[1]].hunks[h[2]].slot = ss[h[1]].hunks[h[2]].slot
                  /\ rs[h[1]].hunks[h[2]].old = ss[h[1]].hunks[h[2]].old
  BY <1>1, Pairs
<1> QED BY <1>2 DEF FatesIn, SlotsIn, OldsIn

\* Where the gate sees no difference the document is as sound as it was.
LEMMA ClearStill ==
  ASSUME NEW doc, NEW rs, NEW ss, NEW n, Clear(doc, rs, n), AllSame(rs, ss)
  PROVE  Clear(doc, ss, n)
<1>1. Tidy(ss, n)
  <2> SUFFICES ASSUME NEW r \in RunIds
               PROVE  /\ \A i \in DOMAIN ss[r].hunks : ss[r].hunks[i].new \in {Gone, <<r, i>>}
                      /\ ss[r].status # "none" => r <= n
                      /\ ss[r].status = "none" =>
                           /\ DOMAIN ss[r].hunks = {} /\ ~ss[r].reverted
                           /\ \A i \in HunkIx : ss[r].approvals[i] = None
    BY DEF Tidy
  <2>1. SameFate(rs[r], ss[r])
    BY DEF AllSame
  <2>2. /\ \A i \in DOMAIN rs[r].hunks : rs[r].hunks[i].new \in {Gone, <<r, i>>}
        /\ rs[r].status # "none" => r <= n
        /\ rs[r].status = "none" =>
             /\ DOMAIN rs[r].hunks = {} /\ ~rs[r].reverted
             /\ \A i \in HunkIx : rs[r].approvals[i] = None
    BY DEF Clear, Tidy
  <2> QED BY <2>1, <2>2 DEF SameFate, SameHunk
<1>2. Sound(doc, FatesIn(ss, n), SlotsIn(ss), OldsIn(ss))
  <2>1. \A h \in HunkNames :
          /\ FatesIn(rs, n)[h] = "forgotten" => FatesIn(ss, n)[h] = "forgotten"
          /\ FatesIn(rs, n)[h] = "in" => FatesIn(ss, n)[h] \in {"in", "forgotten"}
          /\ FatesIn(ss, n)[h] = "in" => /\ FatesIn(rs, n)[h] = "in"
                                        /\ SlotsIn(ss)[h] = SlotsIn(rs)[h] /\ OldsIn(ss)[h] = OldsIn(rs)[h]
    BY SameFates
  <2>2. Sound(doc, FatesIn(rs, n), SlotsIn(rs), OldsIn(rs))
    BY DEF Clear
  <2> QED BY <2>1, <2>2, SoundStill
<1> QED BY <1>1, <1>2 DEF Clear


-----------------------------------------------------------------------------
(* What the gate's other variables are *)

LevelsIn(rs) ==
  [h \in HunkNames |-> IF h[2] \in DOMAIN rs[h[1]].hunks THEN rs[h[1]].hunks[h[2]].review ELSE "auto"]
AskersIn(rs) == [h \in HunkNames |-> Reviewer[rs[h[1]].agent]]
SignedIn(rs) ==
  [h \in HunkNames |-> IF rs[h[1]].approvals[h[2]] = None THEN {} ELSE {rs[h[1]].approvals[h[2]]}]

\* The gate's view of a state and of the next one.
SeesSame ==
  /\ FatesIn(runs', minted') = FatesIn(runs, minted)
  /\ LevelsIn(runs') = LevelsIn(runs) /\ AskersIn(runs') = AskersIn(runs)
  /\ SignedIn(runs') = SignedIn(runs)

\* The gate's variables, in this state and in the next.
LEMMA GateSees ==
  /\ [h \in HunkNames |-> FateOf(h)] = FatesIn(runs, minted)
  /\ [h \in HunkNames |-> FateOf(h)]' = FatesIn(runs', minted')
  /\ [h \in HunkNames |-> IF Known(h) THEN HunkOf(h).review ELSE "auto"] = LevelsIn(runs)
  /\ [h \in HunkNames |-> IF Known(h) THEN HunkOf(h).review ELSE "auto"]' = LevelsIn(runs')
  /\ [h \in HunkNames |-> Reviewer[runs[h[1]].agent]] = AskersIn(runs)
  /\ [h \in HunkNames |-> Reviewer[runs[h[1]].agent]]' = AskersIn(runs')
  /\ [h \in HunkNames |-> IF runs[h[1]].approvals[h[2]] = None THEN {}
                          ELSE {runs[h[1]].approvals[h[2]]}] = SignedIn(runs)
  /\ [h \in HunkNames |-> IF runs[h[1]].approvals[h[2]] = None THEN {}
                          ELSE {runs[h[1]].approvals[h[2]]}]' = SignedIn(runs')
BY DEF FateOf, FatesIn, FateIn, Known, HunkOf, LevelsIn, AskersIn, SignedIn

\* What the gate's actions are made of, in those terms.
MovedIn(From, to) == {h \in HunkNames : /\ FatesIn(runs, minted)[h] \in From
                                        /\ FatesIn(runs', minted')[h] = to
                                        /\ FatesIn(runs', minted')[h] # FatesIn(runs, minted)[h]}

\* The helpers of the gate, in those terms.
LEMMA GateMoves ==
  /\ \A From, to : Gate!Moved(From, to) = MovedIn(From, to)
  /\ \A H : Gate!Only(H) <=> \A h \in HunkNames \ H : FatesIn(runs', minted')[h] = FatesIn(runs, minted)[h]
  /\ Gate!In([h \in HunkNames |-> FateOf(h)]') = {h \in HunkNames : FatesIn(runs', minted')[h] = "in"}
<1>1. ASSUME NEW From, NEW to PROVE Gate!Moved(From, to) = MovedIn(From, to)
  BY GateSees DEF Gate!Moved, MovedIn
<1>2. ASSUME NEW H
      PROVE  Gate!Only(H) <=> \A h \in HunkNames \ H : FatesIn(runs', minted')[h] = FatesIn(runs, minted)[h]
  BY GateSees DEF Gate!Only
<1>3. Gate!In([h \in HunkNames |-> FateOf(h)]') = {h \in HunkNames : FatesIn(runs', minted')[h] = "in"}
  BY GateSees DEF Gate!In
<1> QED BY <1>1, <1>2, <1>3

\* Where runs look the same to the gate, so does all it sees of them.
LEMMA SameView ==
  ASSUME NEW rs, NEW ss, AllSame(rs, ss), NEW n
  PROVE  /\ FatesIn(ss, n) = FatesIn(rs, n) /\ LevelsIn(ss) = LevelsIn(rs)
         /\ AskersIn(ss) = AskersIn(rs) /\ SignedIn(ss) = SignedIn(rs)
<1>1. \A h \in HunkNames : SameFate(rs[h[1]], ss[h[1]])
  BY Pairs DEF AllSame
<1>2. LevelsIn(ss) = LevelsIn(rs)
  BY <1>1 DEF LevelsIn, SameFate, SameHunk
<1>3. AskersIn(ss) = AskersIn(rs) /\ SignedIn(ss) = SignedIn(rs)
  BY <1>1 DEF AskersIn, SignedIn, SameFate
<1> QED BY <1>2, <1>3, SameFates

\* Two steps that the gate sees nothing of.
LEMMA SameTwice ==
  ASSUME NEW rs, NEW ss, NEW ts, AllSame(rs, ss), AllSame(ss, ts)
  PROVE  AllSame(rs, ts)
<1> SUFFICES ASSUME NEW q \in RunIds PROVE SameFate(rs[q], ts[q])
  BY DEF AllSame
<1>1. SameFate(rs[q], ss[q]) /\ SameFate(ss[q], ts[q])
  BY DEF AllSame
<1> QED BY <1>1 DEF SameFate, SameHunk

\* A step the gate sees nothing of.
LEMMA StutterSeen ==
  ASSUME GInv, AllSame(runs, runs'), UNCHANGED <<text, minted>>
  PROVE  Clear(text', runs', minted') /\ UNCHANGED Gate!vars
<1>1. SeesSame
  BY SameView DEF SeesSame
<1>2. UNCHANGED Gate!vars
  BY <1>1, GateSees DEF Gate!vars, SeesSame, AskersIn, SignedIn
<1> QED BY <1>2, ClearStill DEF GInv

\* Waiting hunks were turned down.
LEMMA TurnDownSeen ==
  ASSUME text' = text, LevelsIn(runs') = LevelsIn(runs), AskersIn(runs') = AskersIn(runs),
         SignedIn(runs') = SignedIn(runs), NEW H \in SUBSET HunkNames, H # {},
         \A h \in H : FatesIn(runs, minted)[h] = "waiting" /\ FatesIn(runs', minted')[h] = "out",
         \A h \in HunkNames \ H : FatesIn(runs', minted')[h] = FatesIn(runs, minted)[h]
  PROVE  Gate!Next
<1>1. [h \in HunkNames |-> FateOf(h)]' # [h \in HunkNames |-> FateOf(h)]
  <2>1. PICK h \in H : TRUE
    OBVIOUS
  <2>2. FatesIn(runs', minted')[h] # FatesIn(runs, minted)[h]
    BY <2>1
  <2> QED BY <2>2, GateSees
<1>2. Gate!Moved({"waiting"}, "out") = H
  <2>1. MovedIn({"waiting"}, "out") = H
    BY DEF MovedIn
  <2> QED BY <2>1, GateMoves
<1>3. Gate!Only(H)
  BY GateMoves
<1>4. Gate!TurnDown
  BY <1>2, <1>3, GateSees DEF Gate!TurnDown
<1> QED BY <1>1, <1>4 DEF Gate!Next

\* A passage shows what it did, or text of these hunks, or nobody's.
Shows(doc, doc2, H) == \A s \in Slots : doc2[s] \in {doc[s]} \cup (Plain \cup {Gone}) \cup H

\* Waiting hunks H were let in, and M found not to fit any more.
LEMMA LetInSeen ==
  ASSUME NEW by \in People, NEW H \in SUBSET HunkNames, NEW M \in SUBSET HunkNames, H \cup M # {},
         LevelsIn(runs') = LevelsIn(runs), AskersIn(runs') = AskersIn(runs),
         \A h \in H : FatesIn(runs, minted)[h] = "waiting" /\ FatesIn(runs', minted')[h] = "in",
         \A h \in M : FatesIn(runs, minted)[h] = "waiting" /\ FatesIn(runs', minted')[h] = "out",
         \A h \in HunkNames \ (H \cup M) : /\ FatesIn(runs', minted')[h] = FatesIn(runs, minted)[h]
                                           /\ SignedIn(runs')[h] = SignedIn(runs)[h],
         \A h \in H : LevelsIn(runs)[h] = "colleague" =>
                        by # AskersIn(runs)[h] /\ SignedIn(runs')[h] = {by},
         Shows(text, text', H)
  PROVE  Gate!Next
<1>1. [h \in HunkNames |-> FateOf(h)]' # [h \in HunkNames |-> FateOf(h)]
  <2>1. PICK h \in H \cup M : TRUE
    OBVIOUS
  <2>2. FatesIn(runs', minted')[h] # FatesIn(runs, minted)[h]
    BY <2>1
  <2> QED BY <2>2, GateSees
<1>2. Gate!Moved({"waiting"}, "in") = H /\ Gate!Moved({"waiting"}, "out") = M
  <2>1. MovedIn({"waiting"}, "in") = H /\ MovedIn({"waiting"}, "out") = M
    BY DEF MovedIn
  <2> QED BY <2>1, GateMoves
<1>3. Gate!Only(H \cup M)
  BY GateMoves
<1>4. Gate!ShowsOnly(H)
  BY DEF Gate!ShowsOnly, Shows
<1> DEFINE fate == [h \in HunkNames |-> FateOf(h)]
           level == [h \in HunkNames |-> IF Known(h) THEN HunkOf(h).review ELSE "auto"]
           asker == [h \in HunkNames |-> Reviewer[runs[h[1]].agent]]
           signed == [h \in HunkNames |-> IF runs[h[1]].approvals[h[2]] = None THEN {}
                                          ELSE {runs[h[1]].approvals[h[2]]}]
<1>5. level' = level /\ asker' = asker
  BY GateSees
<1>6. \A h \in H : level[h] = "colleague" => by # asker[h] /\ signed'[h] = {by}
  <2>1. level = LevelsIn(runs) /\ asker = AskersIn(runs) /\ signed' = SignedIn(runs')
    BY GateSees
  <2> HIDE DEF level, asker, signed
  <2> QED BY <2>1
<1>7. \A g \in HunkNames \ (H \cup M) : signed'[g] = signed[g]
  <2>1. signed = SignedIn(runs) /\ signed' = SignedIn(runs')
    BY GateSees
  <2> HIDE DEF signed
  <2> QED BY <2>1
<1>8. Gate!LetIn(by)
  BY <1>2, <1>3, <1>4, <1>5, <1>6, <1>7 DEF Gate!LetIn
<1> QED BY <1>1, <1>8 DEF Gate!Next

\* Decisions were taken back: the hunks H wait again, or the hunks M are out.
TakesBack(H, M) ==
  /\ H \cup M # {} /\ (H = {} \/ M = {})
  /\ LevelsIn(runs') = LevelsIn(runs) /\ AskersIn(runs') = AskersIn(runs)
  /\ \A h \in H : /\ FatesIn(runs, minted)[h] \in {"in", "out"}
                  /\ FatesIn(runs', minted')[h] = "waiting" /\ SignedIn(runs')[h] = {}
  /\ \A h \in M : FatesIn(runs, minted)[h] \in {"in", "waiting"} /\ FatesIn(runs', minted')[h] = "out"
  /\ \A h \in HunkNames \ (H \cup M) : FatesIn(runs', minted')[h] = FatesIn(runs, minted)[h]
  /\ \A h \in HunkNames \ H : SignedIn(runs')[h] = SignedIn(runs)[h]
  /\ \A s \in Slots : text'[s] # text[s] => text[s] \in H \cup M
  /\ \A s \in Slots : text'[s] \in HunkNames =>
       FatesIn(runs', minted')[text'[s]] = "in" \/ FatesIn(runs', minted')[text'[s]] = "forgotten"

\* Hunks that stood, or waited, were taken back.
LEMMA TakeBackSeen ==
  ASSUME NEW H \in SUBSET HunkNames, NEW M \in SUBSET HunkNames, TakesBack(H, M),
         text' \in [Slots -> Values]
  PROVE  Gate!Next
<1> USE DEF TakesBack
<1>1. [h \in HunkNames |-> FateOf(h)]' # [h \in HunkNames |-> FateOf(h)]
  <2>1. PICK h \in H \cup M : TRUE
    OBVIOUS
  <2>2. FatesIn(runs', minted')[h] # FatesIn(runs, minted)[h]
    BY <2>1
  <2> QED BY <2>2, GateSees
<1>2. Gate!Moved({"in", "out"}, "waiting") = H /\ Gate!Moved({"in", "waiting"}, "out") = M
  <2>1. MovedIn({"in", "out"}, "waiting") = H /\ MovedIn({"in", "waiting"}, "out") = M
    BY DEF MovedIn
  <2> QED BY <2>1, GateMoves
<1>3. Gate!Only(H \cup M)
  BY GateMoves
<1> DEFINE stays == {h \in HunkNames : FatesIn(runs', minted')[h] = "in"}
           gone == {h \in HunkNames : FatesIn(runs, minted)[h] = "forgotten"}
<1>4. Gate!ShowsOnly(stays \cup gone) /\ \A s \in Slots : text'[s] \notin H \cup M
  <2> SUFFICES ASSUME NEW s \in Slots
               PROVE  /\ text'[s] \in Plain \cup {Gone} \cup stays \cup gone
                      /\ text'[s] \notin H \cup M
    BY DEF Gate!ShowsOnly
  <2>1. text'[s] \in Plain \cup {Gone} \/ text'[s] \in HunkNames
    BY DEF Values, HunkNames
  <2>2. CASE text'[s] \in HunkNames
    BY <2>2
  <2>3. CASE text'[s] \in Plain \cup {Gone}
    BY <2>3, TextIsNoName
  <2> QED BY <2>1, <2>2, <2>3
<1>5. Gate!In([h \in HunkNames |-> FateOf(h)]') = stays
  BY GateMoves
<1>6. {h \in HunkNames : [k \in HunkNames |-> FateOf(k)][h] = "forgotten"} = gone
  BY GateSees
<1> HIDE DEF stays, gone
<1>7. Gate!TakeBack
  <2>1. Gate!ShowsOnly(Gate!In([h \in HunkNames |-> FateOf(h)]')
                       \cup {h \in HunkNames : [k \in HunkNames |-> FateOf(k)][h] = "forgotten"})
    BY <1>4, <1>5, <1>6
  <2> QED BY <1>2, <1>3, <1>4, <2>1, GateSees, ZenonT(60) DEF Gate!TakeBack
<1> QED BY <1>1, <1>7 DEF Gate!Next

\* The hunk h was proposed, and the hunks M of the runs that made room for it were forgotten.
LEMMA OfferSeen ==
  ASSUME NEW h \in HunkNames, NEW M \in SUBSET HunkNames, h \notin M,
         FatesIn(runs, minted)[h] = "new", FatesIn(runs', minted')[h] \in {"waiting", "in"},
         \A g \in M : /\ FatesIn(runs, minted)[g] \in {"new", "in", "out"}
                      /\ FatesIn(runs', minted')[g] = "forgotten",
         \A g \in HunkNames \ M : SignedIn(runs')[g] = SignedIn(runs)[g],
         \A g \in HunkNames \ (M \cup {h}) :
           /\ FatesIn(runs', minted')[g] = FatesIn(runs, minted)[g]
           /\ FatesIn(runs, minted)[g] # "new" => /\ LevelsIn(runs')[g] = LevelsIn(runs)[g]
                                                  /\ AskersIn(runs')[g] = AskersIn(runs)[g],
         FatesIn(runs', minted')[h] = "in" => LevelsIn(runs')[h] = "auto" /\ Shows(text, text', {h}),
         FatesIn(runs', minted')[h] = "waiting" => text' = text
  PROVE  Gate!Next
<1>1. [k \in HunkNames |-> FateOf(k)]' # [k \in HunkNames |-> FateOf(k)]
  <2>1. FatesIn(runs', minted')[h] # FatesIn(runs, minted)[h]
    OBVIOUS
  <2> QED BY <2>1, GateSees
<1>2. Gate!Moved({"new", "in", "out"}, "forgotten") = M
  <2>1. MovedIn({"new", "in", "out"}, "forgotten") = M
    BY DEF MovedIn
  <2> QED BY <2>1, GateMoves
<1>3. Gate!Only(M \cup {h})
  BY GateMoves
<1>4. Shows(text, text', {h}) => Gate!ShowsOnly({h})
  BY DEF Gate!ShowsOnly, Shows
<1> DEFINE fate == [g \in HunkNames |-> FateOf(g)]
           level == [g \in HunkNames |-> IF Known(g) THEN HunkOf(g).review ELSE "auto"]
           asker == [g \in HunkNames |-> Reviewer[runs[g[1]].agent]]
           signed == [g \in HunkNames |-> IF runs[g[1]].approvals[g[2]] = None THEN {}
                                          ELSE {runs[g[1]].approvals[g[2]]}]
<1>5. fate = FatesIn(runs, minted) /\ fate' = FatesIn(runs', minted')
  BY GateSees
<1>6. level = LevelsIn(runs) /\ level' = LevelsIn(runs')
  BY GateSees
<1>7. asker = AskersIn(runs) /\ asker' = AskersIn(runs')
  BY GateSees
<1>8. signed = SignedIn(runs) /\ signed' = SignedIn(runs')
  BY GateSees
<1>9. /\ fate[h] = "new" /\ fate'[h] \in {"waiting", "in"}
      /\ fate'[h] = "in" => level'[h] = "auto"
      /\ IF fate'[h] = "in" THEN Gate!ShowsOnly({h}) ELSE text' = text
      /\ \A g \in HunkNames \ M : fate[g] # "new" => level'[g] = level[g] /\ asker'[g] = asker[g]
      /\ \A g \in HunkNames \ M : signed'[g] = signed[g]
  <2> HIDE DEF fate, level, asker, signed
  <2> QED BY <1>4, <1>5, <1>6, <1>7, <1>8
<1>10. Gate!Offer(h)
  BY <1>2, <1>3, <1>9 DEF Gate!Offer
<1> QED BY <1>1, <1>10 DEF Gate!Next

-----------------------------------------------------------------------------
(* One run decided on *)

\* The hunks M of a run that is kept were decided anew; where the others stand is as it was.
Touched(run, new, M) ==
  /\ run.status # "none" /\ new.status # "none"
  /\ new.agent = run.agent
  /\ DOMAIN new.hunks = DOMAIN run.hunks
  /\ \A i \in DOMAIN run.hunks : SameHunk(run.hunks[i], new.hunks[i])
  /\ \A i \in DOMAIN run.hunks \ M : /\ new.hunks[i].status = run.hunks[i].status
                                     /\ Landed(run.hunks[i]) => (new.reverted <=> run.reverted)

\* Run r was written, and no other.
Rewrites(rs, ss, r, new) == ss[r] = new /\ \A q \in RunIds : q # r => ss[q] = rs[q]

\* Between the runs rs and ss the gate sees only the hunks H move.
Apart(rs, ss, n, H) ==
  /\ LevelsIn(ss) = LevelsIn(rs) /\ AskersIn(ss) = AskersIn(rs)
  /\ \A h \in HunkNames \ H : FatesIn(ss, n)[h] = FatesIn(rs, n)[h]
  /\ \A h \in HunkNames : h[2] \in DOMAIN rs[h[1]].hunks =>
       SlotsIn(ss)[h] = SlotsIn(rs)[h] /\ OldsIn(ss)[h] = OldsIn(rs)[h]

\* A run written so moves no hunk but M.
LEMMA TouchedSeen ==
  ASSUME NEW rs, NEW ss, NEW r \in RunIds, NEW new, Rewrites(rs, ss, r, new),
         NEW M \in SUBSET DOMAIN rs[r].hunks, Touched(rs[r], new, M), NEW n
  PROVE  Apart(rs, ss, n, Named(r, M)) /\ (Tidy(rs, n) => Tidy(ss, n))
<1>1. ss[r] = new /\ \A q \in RunIds : q # r => ss[q] = rs[q]
  BY DEF Rewrites
<1>2. ASSUME NEW q \in RunIds
      PROVE  /\ ss[q].agent = rs[q].agent /\ DOMAIN ss[q].hunks = DOMAIN rs[q].hunks
             /\ \A i \in DOMAIN rs[q].hunks : SameHunk(rs[q].hunks[i], ss[q].hunks[i])
             /\ ss[q].status = "none" <=> rs[q].status = "none"
  BY <1>1 DEF Touched, SameHunk
<1>3. LevelsIn(ss) = LevelsIn(rs) /\ AskersIn(ss) = AskersIn(rs)
  <2>1. \A h \in HunkNames : h[1] \in RunIds
    BY Pairs
  <2>2. \A h \in HunkNames :
          /\ (IF h[2] \in DOMAIN ss[h[1]].hunks THEN ss[h[1]].hunks[h[2]].review ELSE "auto")
               = (IF h[2] \in DOMAIN rs[h[1]].hunks THEN rs[h[1]].hunks[h[2]].review ELSE "auto")
          /\ Reviewer[ss[h[1]].agent] = Reviewer[rs[h[1]].agent]
    BY <1>2, <2>1 DEF SameHunk
  <2> QED BY <2>2 DEF LevelsIn, AskersIn
<1>4. ASSUME NEW h \in HunkNames \ Named(r, M)
      PROVE  FateIn(ss, n, h) = FateIn(rs, n, h)
  <2>1. h[1] # r => ss[h[1]] = rs[h[1]]
    BY <1>1, Pairs
  <2>2. CASE h[1] # r
    BY <2>1, <2>2 DEF FateIn
  <2>3. CASE h[1] = r
    <3>1. h = <<r, h[2]>> /\ h[2] \in HunkIx /\ h[2] \notin M
      BY <2>3, Pairs DEF Named
    <3>2. ASSUME NEW i \in HunkIx \ M
          PROVE  FateIn(ss, n, <<r, i>>) = FateIn(rs, n, <<r, i>>)
      <4>1. i \in DOMAIN rs[r].hunks =>
              /\ ss[r].hunks[i].status = rs[r].hunks[i].status
              /\ Landed(ss[r].hunks[i]) <=> Landed(rs[r].hunks[i])
              /\ Landed(ss[r].hunks[i]) /\ ~ss[r].reverted <=> Landed(rs[r].hunks[i]) /\ ~rs[r].reverted
        BY <1>1 DEF Touched, Landed
      <4>2. /\ i \in DOMAIN rs[r].hunks <=> i \in DOMAIN ss[r].hunks
            /\ rs[r].status = "none" <=> ss[r].status = "none"
        BY <1>2
      <4> QED BY <4>1, <4>2, FateCases
    <3>3. FateIn(ss, n, <<r, h[2]>>) = FateIn(rs, n, <<r, h[2]>>)
      BY <3>1, <3>2
    <3> QED BY <3>1, <3>3
  <2> QED BY <2>2, <2>3
<1>5. \A h \in HunkNames \ Named(r, M) : FatesIn(ss, n)[h] = FatesIn(rs, n)[h]
  BY <1>4 DEF FatesIn
<1>6. \A h \in HunkNames : h[2] \in DOMAIN rs[h[1]].hunks =>
        SlotsIn(ss)[h] = SlotsIn(rs)[h] /\ OldsIn(ss)[h] = OldsIn(rs)[h]
  BY <1>2, Pairs DEF SlotsIn, OldsIn, SameHunk
<1>7. ASSUME Tidy(rs, n) PROVE Tidy(ss, n)
  <2> SUFFICES ASSUME NEW q \in RunIds
               PROVE  /\ \A i \in DOMAIN ss[q].hunks : ss[q].hunks[i].new \in {Gone, <<q, i>>}
                      /\ ss[q].status # "none" => q <= n
                      /\ ss[q].status = "none" =>
                           /\ DOMAIN ss[q].hunks = {} /\ ~ss[q].reverted
                           /\ \A i \in HunkIx : ss[q].approvals[i] = None
    BY DEF Tidy
  <2>1. /\ \A i \in DOMAIN rs[q].hunks : rs[q].hunks[i].new \in {Gone, <<q, i>>}
        /\ rs[q].status # "none" => q <= n
        /\ rs[q].status = "none" =>
             /\ DOMAIN rs[q].hunks = {} /\ ~rs[q].reverted
             /\ \A i \in HunkIx : rs[q].approvals[i] = None
    BY <1>7 DEF Tidy
  <2>2. q = r => rs[q].status # "none"
    BY DEF Touched
  <2> QED BY <1>1, <1>2, <2>1, <2>2 DEF SameHunk
<1> QED BY <1>3, <1>5, <1>6, <1>7 DEF Apart

\* What the ledger does once a run is decided changes nothing the gate sees.
LEMMA UnlinkedSame ==
  ASSUME NEW L, LedgerOK(L), NEW r \in RunIds
  PROVE  AllSame(L.runs, Unlinked(L, r).runs)
<1> SUFFICES ASSUME NEW q \in RunIds PROVE SameFate(L.runs[q], Unlinked(L, r).runs[q])
  BY DEF AllSame
<1>1. Unlinked(L, r).runs[q] = IF L.runs[q].queued_behind = r
                              THEN [L.runs[q] EXCEPT !.queued_behind = AheadOf(L, r), !.age = "new"]
                              ELSE L.runs[q]
  BY DEF Unlinked
<1>2. L.runs[q] \in Run
  BY LedgerParts
<1> QED BY <1>1, <1>2 DEF SameFate, SameHunk, Run

\* Closing a run, and letting the queue behind it close up.
LEMMA ClosedSame ==
  ASSUME NEW L, LedgerOK(L), NEW r \in RunIds, L.runs[r].status = "open", Pending(L.runs[r]) = {}
  PROVE  AllSame(L.runs, Closed(L, r).runs)
<1> DEFINE run == [L.runs[r] EXCEPT !.status = ClosedStatus(L.runs[r]), !.age = "new"]
           K == [L EXCEPT !.runs[r] = run]
<1>1. L.runs[r] \in Run /\ L.runs \in [RunIds -> Run]
  BY LedgerParts
<1>2. SameFate(L.runs[r], run)
  BY <1>1 DEF SameFate, SameHunk, Run, ClosedStatus
<1>3. K.runs = [L.runs EXCEPT ![r] = run]
  BY DEF LedgerOK, Ledgers
<1>4. \A q \in RunIds : SameFate(L.runs[q], L.runs[q])
  BY DEF SameFate, SameHunk
<1>5. AllSame(L.runs, K.runs)
  <2> HIDE DEF run, K
  <2> QED BY <1>1, <1>2, <1>3, <1>4 DEF AllSame
<1>6. Closed(L, r) = Unlinked(K, r)
  BY DEF Closed
<1>7. AllSame(K.runs, Unlinked(K, r).runs)
  <2> SUFFICES ASSUME NEW q \in RunIds PROVE SameFate(K.runs[q], Unlinked(K, r).runs[q])
    BY DEF AllSame
  <2>1. K.runs[q] \in Run
    <3>1. run \in Run
      BY <1>1 DEF Run, ClosedStatus
    <3> HIDE DEF run, K
    <3> QED BY <1>1, <1>3, <3>1
  <2>2. Unlinked(K, r).runs[q] = IF K.runs[q].queued_behind = r
                                THEN [K.runs[q] EXCEPT !.queued_behind = AheadOf(K, r), !.age = "new"]
                                ELSE K.runs[q]
    BY DEF Unlinked
  <2> HIDE DEF K
  <2> QED BY <2>1, <2>2 DEF SameFate, SameHunk, Run
<1> QED BY <1>5, <1>6, <1>7, SameTwice

\* Closing a run that has nothing left to decide, and no other.
LEMMA SettleSame ==
  ASSUME NEW L, LedgerOK(L), NEW r \in RunIds
  PROVE  AllSame(L.runs, Settle(L, r).runs)
<1>1. AllSame(L.runs, L.runs)
  BY DEF AllSame, SameFate, SameHunk
<1> QED BY <1>1, ClosedSame DEF Settle

\* What a proposal or a read does to the run it finds, before anything is written.
LEMMA PreparedSame ==
  ASSUME NEW L, LedgerOK(L), NEW a \in Agents, NEW c
  PROVE  AllSame(L.runs, Prepared(L, a, c).runs)
<1>1. AllSame(L.runs, L.runs)
  BY DEF AllSame, SameFate, SameHunk
<1>2. L.active[a] \in RunIds \cup {NoRun}
  BY LedgerParts
<1>3. [L EXCEPT !.active[a] = NoRun].runs = L.runs
  BY DEF LedgerOK, Ledgers
<1>4. ASSUME L.active[a] # NoRun, IsOpen(L, L.active[a]), Pending(L.runs[L.active[a]]) = {}
      PROVE  AllSame(L.runs, Closed(L, L.active[a]).runs)
  BY <1>2, <1>4, ClosedSame DEF IsOpen
<1>5. Prepared(L, a, c).runs \in {L.runs, [L EXCEPT !.active[a] = NoRun].runs}
      \/ /\ L.active[a] # NoRun /\ IsOpen(L, L.active[a]) /\ Pending(L.runs[L.active[a]]) = {}
         /\ Prepared(L, a, c) = Closed(L, L.active[a])
  BY DEF Prepared, GoesOn
<1> QED BY <1>1, <1>3, <1>4, <1>5

\* Answering notes moves no hunk.
LEMMA ScannedSame ==
  ASSUME NEW L, LedgerOK(L), NEW a \in Agents, NEW answers
  PROVE  AllSame(L.runs, Scanned(L, a, answers).runs)
<1> SUFFICES ASSUME NEW q \in RunIds PROVE SameFate(L.runs[q], Scanned(L, a, answers).runs[q])
  BY DEF AllSame
<1> DEFINE run == L.runs[q]
           hs == [i \in DOMAIN run.hunks |->
                   IF run.hunks[i].feedback.state = "open" /\ <<q, run.hunks[i].feedback.of>> \in answers
                   THEN [run.hunks[i] EXCEPT !.feedback.state = "answered"] ELSE run.hunks[i]]
<1>1. run \in Run /\ run.hunks \in Seq(Hunk)
  BY LedgerParts DEF Run
<1>2. \A i \in DOMAIN run.hunks : SameHunk(run.hunks[i], hs[i]) /\ hs[i].status = run.hunks[i].status
  <2> TAKE i \in DOMAIN run.hunks
  <2>1. run.hunks[i] \in Hunk
    BY <1>1
  <2> QED BY <2>1 DEF Hunk, SameHunk
<1>3. DOMAIN hs = DOMAIN run.hunks
  OBVIOUS
<1>4. Scanned(L, a, answers).runs[q] = IF q \in L.listed[a] /\ run.agent = a
                                      THEN [run EXCEPT !.hunks = hs] ELSE run
  BY DEF Scanned, Answered, LedgerOK, Ledgers
<1> HIDE DEF hs
<1>5. SameFate(run, run) /\ SameFate(run, [run EXCEPT !.hunks = hs])
  BY <1>1, <1>2, <1>3 DEF SameFate, SameHunk, Run
<1> QED BY <1>4, <1>5

\* The hunks turned down, as the gate sees them: no one's approval moved.
LEMMA RejectedTouched ==
  ASSUME IInv, NEW r \in RunIds, NEW T \in SUBSET Pending(runs[r]), Reject(r, T)
  PROVE  LET new == RejectedRun(r, T) IN
         /\ Touched(runs[r], new, T)
         /\ new.approvals = runs[r].approvals /\ new.reverted = runs[r].reverted
         /\ \A i \in T : new.hunks[i].status = "rejected"
<1> DEFINE run == runs[r]
           note == [of |-> T, state |-> "open"]
           hs == [i \in DOMAIN run.hunks |->
                    IF i \in T THEN [run.hunks[i] EXCEPT !.status = "rejected", !.feedback = note]
                    ELSE run.hunks[i]]
           new == RejectedRun(r, T)
<1>1. run \in Run /\ run.hunks \in Seq(Hunk)
  BY TheRun
<1>2. \A i \in DOMAIN run.hunks :
        /\ SameHunk(run.hunks[i], hs[i])
        /\ hs[i].status = IF i \in T THEN "rejected" ELSE run.hunks[i].status
  <2> HIDE DEF note
  <2> TAKE i \in DOMAIN run.hunks
  <2>1. run.hunks[i] \in Hunk
    BY <1>1
  <2> QED BY <2>1 DEF Hunk, SameHunk
<1>3. DOMAIN hs = DOMAIN run.hunks /\ T \subseteq DOMAIN run.hunks
  BY DEF Pending
<1>4. new = [run EXCEPT !.hunks = hs, !.age = "new"]
  BY DEF RejectedRun
<1> HIDE DEF hs, new
<1>5. /\ new.hunks = hs /\ new.agent = run.agent /\ new.status = run.status
      /\ new.approvals = run.approvals /\ new.reverted = run.reverted
  BY <1>1, <1>4 DEF Run
<1>6. run.status # "none"
  BY DEF Reject, Someone, Deciders, May
<1> QED BY <1>2, <1>3, <1>5, <1>6 DEF Touched, new

\* The hunks let in or found not to fit, with who let them in.
Misfits(r, T, A) == {i \in T \ A : ~Blocked(runs[r], T, i)}
LetIn(run, new, A, M, by) ==
  /\ Touched(run, new, A \cup M) /\ new.reverted = run.reverted
  /\ \A i \in A : /\ new.hunks[i].status = "accepted"
                  /\ run.hunks[i].review = "colleague" =>
                       by # Reviewer[run.agent] /\ new.approvals[i] = by
  /\ \A i \in M : new.hunks[i].status = "conflict"
  /\ \A i \in HunkIx \ (A \cup M) : new.approvals[i] = run.approvals[i]

\* What accepting does to a run.
LEMMA AcceptedTouched ==
  ASSUME IInv, NEW r \in RunIds, NEW T \in SUBSET Pending(runs[r]), NEW A \in SUBSET T,
         NEW by \in People, NEW itemLevel \in LevelsInUse, Accept(r, T, A, by, itemLevel)
  PROVE  LetIn(runs[r], AcceptedRun(r, T, A, by, itemLevel), A, Misfits(r, T, A), by)
<1> DEFINE run == runs[r]
           level == Stricter(run.review_mode, itemLevel)
           M == Misfits(r, T, A)
           hs == [i \in DOMAIN run.hunks |-> AcceptedHunk(run, T, A, i)]
           approvals == [i \in HunkIx |-> ApprovalOf(run, T, A, i, level, by)]
           new == AcceptedRun(r, T, A, by, itemLevel)
<1>1. /\ RunOK(run) /\ run \in Run /\ run.hunks \in Seq(Hunk) /\ run.review_mode \in Levels
      /\ Len(run.hunks) <= MaxHunks /\ Signed(run)
  BY TheRun DEF Run, RunOK
<1>2. \A i \in DOMAIN run.hunks :
        /\ SameHunk(run.hunks[i], hs[i])
        /\ hs[i].status = IF i \in A THEN "accepted" ELSE IF i \in M THEN "conflict" ELSE run.hunks[i].status
  <2> TAKE i \in DOMAIN run.hunks
  <2>1. run.hunks[i] \in Hunk
    BY <1>1
  <2>2. hs[i] = AcceptedHunk(run, T, A, i)
    OBVIOUS
  <2>3. AcceptedHunk(run, T, A, i) = IF i \in A THEN [run.hunks[i] EXCEPT !.status = "accepted"]
                                    ELSE IF i \in M THEN [run.hunks[i] EXCEPT !.status = "conflict"]
                                    ELSE run.hunks[i]
    BY DEF AcceptedHunk, Misfits
  <2> HIDE DEF hs, M
  <2> QED BY <2>1, <2>2, <2>3 DEF Hunk, SameHunk
<1>3. DOMAIN hs = DOMAIN run.hunks /\ T \subseteq DOMAIN run.hunks /\ A \subseteq T /\ M \subseteq T
  BY DEF Pending, Misfits
<1>4. DOMAIN run.hunks \subseteq HunkIx
  BY <1>1, BoundsAssumption DEF HunkIx
<1>5. run.review_mode = "colleague" => level = "colleague" /\ by # Reviewer[run.agent]
  <2>1. itemLevel \in Levels /\ May("accept", r, by, itemLevel)
    BY InputAssumption DEF Accept
  <2>2. run.review_mode = "colleague" => level = "colleague"
    BY <1>1, <2>1, StricterOK
  <2> QED BY <2>1, <2>2 DEF May, Vouched, MayActOnRun, ActLevel
<1>6. /\ \A i \in A : level = "colleague" => approvals[i] = by
      /\ \A i \in HunkIx \ (A \cup M) : approvals[i] = run.approvals[i]
  BY <1>3, <1>4 DEF ApprovalOf, Misfits
<1>7. new = [run EXCEPT !.hunks = hs, !.approvals = approvals, !.age = "new"]
  BY DEF AcceptedRun
<1> HIDE DEF hs, approvals, new, M
<1>8. /\ new.hunks = hs /\ new.agent = run.agent /\ new.status = run.status
      /\ new.approvals = approvals /\ new.reverted = run.reverted
  BY <1>1, <1>7 DEF Run
<1>9. run.status # "none"
  BY DEF Accept, May
<1>10. \A i \in A : run.hunks[i].review = "colleague" => run.review_mode = "colleague"
  BY <1>1, <1>3 DEF Signed
<1>11. Touched(run, new, A \cup M)
  BY <1>2, <1>3, <1>8, <1>9 DEF Touched
<1>12. \A i \in A : /\ new.hunks[i].status = "accepted"
                    /\ run.hunks[i].review = "colleague" => by # Reviewer[run.agent] /\ new.approvals[i] = by
  BY <1>2, <1>3, <1>5, <1>6, <1>8, <1>10
<1>13. \A i \in M : new.hunks[i].status = "conflict"
  <2>1. A \cap M = {}
    BY DEF M, Misfits
  <2> QED BY <1>2, <1>3, <1>8, <2>1
<1>14. LetIn(run, new, A, M, by)
  <2> HIDE DEF run
  <2> QED BY <1>6, <1>8, <1>11, <1>12, <1>13 DEF LetIn
<1> QED BY <1>14 DEF new, M

\* All that landed or waited is out; what conflicted or was turned down already was.
LEMMA RevertedTouched ==
  ASSUME IInv, NEW r \in RunIds, NEW note \in BOOLEAN, Revert(r, note)
  PROVE  LET run == runs[r]
             new == RevertedRun(r, note)
         IN  /\ Touched(run, new, LandedIn(run) \cup Pending(run))
             /\ new.approvals = run.approvals /\ new.reverted
             /\ \A i \in LandedIn(run) \cup Pending(run) : new.hunks[i].status # "pending"
<1> DEFINE run == runs[r]
           told == LandedIn(run) \cup Pending(run)
           mark == [of |-> told, state |-> "open"]
           status(i) == IF i \in Pending(run) THEN "rejected" ELSE run.hunks[i].status
           feedback(i) == IF note /\ i \in told THEN mark ELSE run.hunks[i].feedback
           hs == [i \in DOMAIN run.hunks |->
                    [run.hunks[i] EXCEPT !.status = status(i), !.feedback = feedback(i)]]
           new == RevertedRun(r, note)
<1>1. run \in Run /\ run.hunks \in Seq(Hunk)
  BY TheRun
<1>2. new = [run EXCEPT !.hunks = hs, !.status = "expired", !.reverted = TRUE,
                        !.acknowledged = TRUE, !.age = "new"]
  BY DEF RevertedRun
<1>3. \A i \in DOMAIN run.hunks :
        /\ SameHunk(run.hunks[i], hs[i])
        /\ hs[i].status = status(i)
  <2> TAKE i \in DOMAIN run.hunks
  <2>1. run.hunks[i] \in Hunk
    BY <1>1
  <2>2. hs[i] = [run.hunks[i] EXCEPT !.status = status(i), !.feedback = feedback(i)]
    OBVIOUS
  <2> HIDE DEF hs, status, feedback
  <2> QED BY <2>1, <2>2 DEF Hunk, SameHunk
<1>4. DOMAIN hs = DOMAIN run.hunks /\ told \subseteq DOMAIN run.hunks
  BY DEF Pending, LandedIn
<1> HIDE DEF hs, new
<1>5. /\ new.hunks = hs /\ new.agent = run.agent /\ new.status = "expired"
      /\ new.approvals = run.approvals /\ new.reverted
  BY <1>1, <1>2 DEF Run
<1>6. run.status # "none"
  BY DEF Revert, Someone, Deciders, May
<1>7. \A i \in DOMAIN run.hunks \ told : status(i) = run.hunks[i].status /\ ~Landed(run.hunks[i])
  BY DEF LandedIn
<1>8. \A i \in told : status(i) # "pending"
  BY <1>4 DEF Pending
<1> HIDE DEF status
<1>9. Touched(run, new, told)
  <2> HIDE DEF told
  <2> QED BY <1>3, <1>4, <1>5, <1>6, <1>7 DEF Touched
<1>10. \A i \in told : new.hunks[i].status # "pending"
  BY <1>3, <1>4, <1>5, <1>8
<1> QED BY <1>5, <1>9, <1>10 DEF new

\* The decisions taken back, with the approvals they carried.
LEMMA UndoneTouched ==
  ASSUME IInv, NEW r \in RunIds, NEW T \in SUBSET DOMAIN runs[r].hunks, Undo(r, T)
  PROVE  LET new == UndoneRun(r, T) IN
         /\ Touched(runs[r], new, T)
         /\ \A i \in T : new.hunks[i].status = "pending"
         /\ \A i \in HunkIx : new.approvals[i] = IF i \in T THEN None ELSE runs[r].approvals[i]
<1> DEFINE run == runs[r]
           hs == [i \in DOMAIN run.hunks |->
                    IF i \in T THEN [run.hunks[i] EXCEPT !.status = "pending", !.feedback = NoFeedback]
                    ELSE run.hunks[i]]
           approvals == [i \in HunkIx |-> IF i \in T THEN None ELSE run.approvals[i]]
           queued == IF run.status # "open" /\ AheadOf(Ledger, r) = NoRun THEN NoRun ELSE run.queued_behind
           new == UndoneRun(r, T)
<1>1. run \in Run /\ run.hunks \in Seq(Hunk)
  BY TheRun
<1>2. new = [run EXCEPT !.hunks = hs, !.age = "new", !.approvals = approvals, !.status = "open",
                        !.queued_behind = queued]
  BY DEF UndoneRun
<1>3. \A i \in DOMAIN run.hunks :
        /\ SameHunk(run.hunks[i], hs[i])
        /\ hs[i].status = IF i \in T THEN "pending" ELSE run.hunks[i].status
  <2> TAKE i \in DOMAIN run.hunks
  <2>1. run.hunks[i] \in Hunk
    BY <1>1
  <2> QED BY <2>1 DEF Hunk, SameHunk
<1>4. DOMAIN hs = DOMAIN run.hunks
  OBVIOUS
<1>5. \A i \in HunkIx : approvals[i] = IF i \in T THEN None ELSE run.approvals[i]
  OBVIOUS
<1> HIDE DEF hs, new, approvals, queued
<1>6. /\ new.hunks = hs /\ new.agent = run.agent /\ new.status = "open"
      /\ new.approvals = approvals /\ new.reverted = run.reverted
  BY <1>1, <1>2 DEF Run
<1>7. run.status # "none"
  BY DEF Undo, Someone, Deciders, May
<1>8. Touched(run, new, T)
  BY <1>3, <1>4, <1>6, <1>7 DEF Touched
<1> QED BY <1>3, <1>5, <1>6, <1>8 DEF new

-----------------------------------------------------------------------------
(* Every handler is a step of the gate, and keeps the document clear *)

GStep == Clear(text', runs', minted') /\ [Gate!Next]_(Gate!vars)

\* A document that does not move while no hunk comes to stand in it.
LEMMA ClearWhenNoneLands ==
  ASSUME NEW rs, NEW ss, NEW r \in RunIds, NEW new, Rewrites(rs, ss, r, new),
         NEW M \in SUBSET DOMAIN rs[r].hunks, Touched(rs[r], new, M),
         NEW n, NEW doc, Clear(doc, rs, n),
         \A h \in Named(r, M) : /\ FatesIn(rs, n)[h] \notin {"in", "forgotten"}
                                /\ FatesIn(ss, n)[h] # "in"
  PROVE  Clear(doc, ss, n)
<1> DEFINE f == FatesIn(rs, n)
           g == FatesIn(ss, n)
<1>1. /\ \A h \in HunkNames \ Named(r, M) : g[h] = f[h]
      /\ \A h \in HunkNames : h[2] \in DOMAIN rs[h[1]].hunks =>
           SlotsIn(ss)[h] = SlotsIn(rs)[h] /\ OldsIn(ss)[h] = OldsIn(rs)[h]
      /\ Tidy(ss, n) /\ Sound(doc, f, SlotsIn(rs), OldsIn(rs))
  <2>1. Apart(rs, ss, n, Named(r, M)) /\ Tidy(ss, n)
    BY TouchedSeen DEF Clear
  <2> QED BY <2>1 DEF Clear, Apart
<1>2. \A h \in HunkNames : f[h] = "in" => h[2] \in DOMAIN rs[h[1]].hunks
  BY DEF FatesIn, FateIn
<1>3. \A h \in Named(r, M) : f[h] \notin {"in", "forgotten"} /\ g[h] # "in"
  OBVIOUS
<1> HIDE DEF f, g
<1>4. Sound(doc, g, SlotsIn(ss), OldsIn(ss))
  <2>1. \A h \in HunkNames : /\ f[h] = "forgotten" => g[h] = "forgotten"
                             /\ f[h] = "in" => g[h] \in {"in", "forgotten"}
                             /\ g[h] = "in" => /\ f[h] = "in" /\ SlotsIn(ss)[h] = SlotsIn(rs)[h]
                                               /\ OldsIn(ss)[h] = OldsIn(rs)[h]
    BY <1>1, <1>2, <1>3
  <2> QED BY <1>1, <2>1, SoundStill
<1> QED BY <1>1, <1>4 DEF Clear, g

\* The step of a handler that wrote runs ss and let the queue close up behind them.
LEMMA StepClear ==
  ASSUME NEW ss, AllSame(ss, runs'), Clear(text', ss, minted')
  PROVE  Clear(text', runs', minted')
BY ClearStill

\* A run written with nothing of it decided.
LEMMA TouchesNothing ==
  ASSUME NEW rs, NEW ss, NEW r \in RunIds, NEW new, Rewrites(rs, ss, r, new), Touched(rs[r], new, {}),
         new.approvals = rs[r].approvals, new.reverted = rs[r].reverted
  PROVE  AllSame(rs, ss)
<1> SUFFICES ASSUME NEW q \in RunIds PROVE SameFate(rs[q], ss[q])
  BY DEF AllSame
<1>1. CASE q = r
  BY <1>1 DEF SameFate, Touched, Rewrites
<1>2. CASE q # r
  BY <1>2 DEF SameFate, SameHunk, Rewrites
<1> QED BY <1>1, <1>2

\* One run written into the ledger.
LEMMA WrittenRuns ==
  ASSUME IInv, NEW r \in RunIds, NEW new, RunOK(new)
  PROVE  /\ LedgerOK([Ledger EXCEPT !.runs[r] = new])
         /\ Rewrites(runs, [Ledger EXCEPT !.runs[r] = new].runs, r, new)
<1>1. LedgerOK(Ledger) /\ Ledger.runs = runs
  BY TheRun
<1>2. LedgerOK([Ledger EXCEPT !.runs[r] = new])
  BY <1>1, WrittenOK
<1>3. [Ledger EXCEPT !.runs[r] = new].runs = [runs EXCEPT ![r] = new] /\ runs \in [RunIds -> Run]
  BY <1>1, LedgerParts DEF Ledger
<1> QED BY <1>2, <1>3 DEF Rewrites

\* Reject is the gate's TurnDown, or changes nothing it speaks of.
LEMMA RejectG ==
  ASSUME GInv, NEW r \in RunIds, NEW T \in SUBSET Pending(runs[r]), Reject(r, T)
  PROVE  GStep
<1> DEFINE new == RejectedRun(r, T)
           L == [Ledger EXCEPT !.runs[r] = new]
           ss == L.runs
           K == IF T = {} THEN L ELSE Noted(L, r)
<1>1. IInv /\ Clear(text, runs, minted)
  BY DEF GInv
<1>2. /\ RunOK(new) /\ Touched(runs[r], new, T)
      /\ new.approvals = runs[r].approvals /\ new.reverted = runs[r].reverted
      /\ \A i \in T : new.hunks[i].status = "rejected"
  BY <1>1, RejectedRunOK, RejectedTouched
<1>3. SetLedger(Settle(K, r)) /\ UNCHANGED <<text, minted>>
  BY DEF Reject, RejectedRun
<1> HIDE DEF new
<1>4. LedgerOK(L) /\ L.runs = ss /\ Rewrites(runs, ss, r, new)
  BY <1>1, <1>2, WrittenRuns
<1> HIDE DEF L, ss
<1>5. LedgerOK(K) /\ K.runs = ss
  BY <1>4, NotedOK
<1> HIDE DEF K
<1>6. AllSame(ss, runs')
  BY <1>3, <1>5, SettleSame DEF SetLedger
<1>7. CASE T = {}
  <2>1. AllSame(runs, ss)
    BY <1>2, <1>4, <1>7, TouchesNothing
  <2>2. AllSame(runs, runs')
    BY <1>6, <2>1, SameTwice
  <2> QED BY <1>3, <2>2, StutterSeen DEF GStep
<1>8. CASE T # {}
  <2> DEFINE H == Named(r, T)
  <2>1. T \in SUBSET DOMAIN runs[r].hunks /\ T \subseteq HunkIx
    BY <1>1, TheRun, BoundsAssumption DEF Pending, RunOK, HunkIx
  <2>2. \A i \in T : /\ FateIn(runs, minted, <<r, i>>) = "waiting"
                     /\ FateIn(ss, minted, <<r, i>>) = "out"
    <3> TAKE i \in T
    <3>1. i \in HunkIx /\ i \in DOMAIN runs[r].hunks /\ runs[r].hunks[i].status = "pending"
      BY <2>1 DEF Pending
    <3>2. ss[r] = new /\ i \in DOMAIN new.hunks /\ new.hunks[i].status = "rejected"
      BY <1>2, <1>4, <3>1 DEF Touched, Rewrites
    <3> QED BY <3>1, <3>2, FateCases DEF Landed
  <2>3. H \in SUBSET HunkNames /\ H # {}
    BY <1>8, <2>1, Pairs DEF Named
  <2>4. \A h \in H : FatesIn(runs, minted)[h] = "waiting" /\ FatesIn(ss, minted)[h] = "out"
    BY <2>2, <2>3 DEF FatesIn, Named
  <2>5. /\ LevelsIn(ss) = LevelsIn(runs) /\ AskersIn(ss) = AskersIn(runs)
        /\ \A h \in HunkNames \ H : FatesIn(ss, minted)[h] = FatesIn(runs, minted)[h]
    <3>1. Apart(runs, ss, minted, H)
      BY <1>2, <1>4, <2>1, TouchedSeen
    <3> QED BY <3>1 DEF Apart
  <2>6. SignedIn(ss) = SignedIn(runs)
    <3>1. \A h \in HunkNames : ss[h[1]].approvals = runs[h[1]].approvals
      BY <1>2, <1>4, Pairs DEF Rewrites
    <3> QED BY <3>1 DEF SignedIn
  <2>7. /\ FatesIn(runs', minted') = FatesIn(ss, minted) /\ LevelsIn(runs') = LevelsIn(ss)
        /\ AskersIn(runs') = AskersIn(ss) /\ SignedIn(runs') = SignedIn(ss)
    BY <1>3, <1>6, SameView
  <2>8. Clear(text, ss, minted)
    BY <1>1, <1>2, <1>4, <2>1, <2>4, ClearWhenNoneLands
  <2> HIDE DEF H
  <2>9. Gate!Next
    BY <1>3, <2>3, <2>4, <2>5, <2>6, <2>7, TurnDownSeen
  <2> QED BY <1>3, <1>6, <2>8, <2>9, StepClear DEF GStep
<1> QED BY <1>7, <1>8

\* What the gate sees of a run that is named: its hunks by their index.
LEMMA NamedHunks ==
  ASSUME IInv, NEW r \in RunIds, NEW I \in SUBSET DOMAIN runs[r].hunks
  PROVE  /\ I \subseteq HunkIx /\ Named(r, I) \in SUBSET HunkNames
         /\ I # {} => Named(r, I) # {}
         /\ \A i \in I : <<r, i>> \in Named(r, I) /\ <<r, i>> \in HunkNames /\ runs[r].hunks[i] \in Hunk
<1>1. RunOK(runs[r]) /\ runs[r].hunks \in Seq(Hunk)
  BY TheRun
<1>2. I \subseteq HunkIx
  BY <1>1, BoundsAssumption DEF RunOK, HunkIx
<1>3. \A i \in I : <<r, i>> \in HunkNames /\ runs[r].hunks[i] \in Hunk
  BY <1>1, <1>2, Pairs
<1>4. /\ Named(r, I) \in SUBSET HunkNames /\ (I # {} => Named(r, I) # {})
      /\ \A i \in I : <<r, i>> \in Named(r, I)
  BY <1>3 DEF Named
<1> QED BY <1>2, <1>3, <1>4

\* Accept is the gate's LetIn, or changes nothing it speaks of.
LEMMA AcceptG ==
  ASSUME GInv, NEW r \in RunIds, NEW T \in SUBSET Pending(runs[r]), NEW A \in SUBSET T,
         NEW by \in People, NEW itemLevel \in LevelsInUse, Accept(r, T, A, by, itemLevel)
  PROVE  GStep
<1> DEFINE run == runs[r]
           new == AcceptedRun(r, T, A, by, itemLevel)
           L == [Ledger EXCEPT !.runs[r] = new]
           ss == L.runs
           M == Misfits(r, T, A)
           f == FatesIn(runs, minted)
           g == FatesIn(ss, minted)
<1>1. IInv /\ Tidy(runs, minted) /\ Sound(text, f, SlotsIn(runs), OldsIn(runs))
  BY DEF GInv, Clear
<1>2. /\ RunOK(new) /\ Touched(run, new, A \cup M) /\ new.reverted = run.reverted
      /\ \A i \in A : /\ new.hunks[i].status = "accepted"
                      /\ run.hunks[i].review = "colleague" =>
                           by # Reviewer[run.agent] /\ new.approvals[i] = by
      /\ \A i \in M : new.hunks[i].status = "conflict"
      /\ \A i \in HunkIx \ (A \cup M) : new.approvals[i] = run.approvals[i]
  <2>1. RunOK(new)
    BY <1>1, AcceptedRunOK
  <2>2. LetIn(run, new, A, M, by)
    BY <1>1, AcceptedTouched
  <2> QED BY <2>1, <2>2 DEF LetIn
<1>3. /\ SetLedger(Settle(L, r)) /\ minted' = minted
      /\ text' = TextAfter(run.hunks, A, text) /\ Lands(run.hunks, T, A, text)
  BY DEF Accept, AcceptedRun
<1> HIDE DEF new
<1>4. LedgerOK(L) /\ Rewrites(runs, ss, r, new)
  BY <1>1, <1>2, WrittenRuns
<1>5. AllSame(ss, runs')
  BY <1>3, <1>4, SettleSame DEF SetLedger
<1> HIDE DEF L, ss
<1>6. /\ A \in SUBSET DOMAIN run.hunks /\ M \in SUBSET DOMAIN run.hunks /\ A \cap M = {}
      /\ \A i \in A \cup M : run.hunks[i].status = "pending"
      /\ A \cup M # {} => Pending(run) # {}
  BY DEF Pending, Misfits
<1>7. Apart(runs, ss, minted, Named(r, A \cup M)) /\ Tidy(ss, minted)
  BY <1>1, <1>2, <1>4, <1>6, TouchedSeen
<1>8. /\ FatesIn(runs', minted') = g /\ LevelsIn(runs') = LevelsIn(ss)
      /\ AskersIn(runs') = AskersIn(ss) /\ SignedIn(runs') = SignedIn(ss)
  BY <1>3, <1>5, SameView
<1>9. run.hunks \in Seq(Hunk) /\ RunOK(run)
  BY <1>1, TheRun
<1>10. A \cup M # {} => ~run.reverted
  BY <1>6, <1>9 DEF RunOK, Settled
<1> HIDE DEF M
<1>11. /\ \A i \in A : FateIn(runs, minted, <<r, i>>) = "waiting" /\ FateIn(ss, minted, <<r, i>>) = "in"
       /\ \A i \in M : FateIn(runs, minted, <<r, i>>) = "waiting" /\ FateIn(ss, minted, <<r, i>>) = "out"
  <2> SUFFICES ASSUME NEW i \in A \cup M
               PROVE  /\ FateIn(runs, minted, <<r, i>>) = "waiting"
                      /\ i \in A => FateIn(ss, minted, <<r, i>>) = "in"
                      /\ i \in M => FateIn(ss, minted, <<r, i>>) = "out"
    OBVIOUS
  <2>1. i \in HunkIx /\ i \in DOMAIN run.hunks /\ run.hunks[i].status = "pending"
    BY <1>1, <1>6, NamedHunks
  <2>2. ss[r] = new /\ i \in DOMAIN new.hunks /\ ~new.reverted
    BY <1>2, <1>4, <1>10, <2>1 DEF Touched, Rewrites
  <2>3. /\ i \in A => new.hunks[i].status = "accepted"
        /\ i \in M => new.hunks[i].status = "conflict"
    BY <1>2
  <2> QED BY <2>1, <2>2, <2>3, FateCases DEF Landed
<1> DEFINE H == Named(r, A)
           X == Named(r, M)
<1>12. /\ H \in SUBSET HunkNames /\ X \in SUBSET HunkNames /\ Named(r, A \cup M) = H \cup X
       /\ \A i \in A : <<r, i>> \in HunkNames /\ run.hunks[i] \in Hunk
  BY <1>1, <1>6, NamedHunks DEF Named
<1>13. /\ \A h \in H : f[h] = "waiting" /\ g[h] = "in"
       /\ \A h \in X : f[h] = "waiting" /\ g[h] = "out"
       /\ \A h \in HunkNames \ (H \cup X) : g[h] = f[h]
  <2>1. \A h \in H \cup X : h \in HunkNames
    BY <1>12
  <2>2. \A h \in HunkNames \ (H \cup X) : g[h] = f[h]
    BY <1>7, <1>12 DEF Apart
  <2> QED BY <1>11, <2>1, <2>2 DEF FatesIn, Named
<1>14. \A i \in A : run.hunks[i].slot \in Slots /\ run.hunks[i].new \in {Gone, <<r, i>>}
  BY <1>1, <1>6, <1>12 DEF Hunk, Tidy
<1>15. Shows(text, text', H)
  <2> SUFFICES ASSUME NEW s \in Slots PROVE text'[s] \in {text[s]} \cup (Plain \cup {Gone}) \cup H
    BY DEF Shows
  <2>1. Newest(run.hunks, A, s, text, text'[s])
    BY <1>3, <1>6, <1>9, FoundText
  <2> QED BY <1>14, <2>1 DEF Newest, Named
<1>16. Clear(text', ss, minted)
  <2>1. LetsIn(r, run.hunks, A, f, SlotsIn(runs), OldsIn(runs), g, SlotsIn(ss), OldsIn(ss))
    <3>1. \A i \in A : /\ SlotsIn(ss)[<<r, i>>] = run.hunks[i].slot
                       /\ OldsIn(ss)[<<r, i>>] = run.hunks[i].old
      <4>1. \A i \in A : SameHunk(run.hunks[i], ss[r].hunks[i])
        BY <1>2, <1>4, <1>6 DEF Touched, Rewrites
      <4> QED BY <1>12, <4>1 DEF SlotsIn, OldsIn, SameHunk
    <3>2. \A i \in A : f[<<r, i>>] = "waiting" /\ g[<<r, i>>] = "in"
      BY <1>13 DEF Named
    <3>3. \A h \in HunkNames : f[h] = "in" =>
            SlotsIn(ss)[h] = SlotsIn(runs)[h] /\ OldsIn(ss)[h] = OldsIn(runs)[h]
      <4>1. \A h \in HunkNames : f[h] = "in" => h[2] \in DOMAIN runs[h[1]].hunks
        BY DEF FatesIn, FateIn
      <4> QED BY <1>7, <4>1 DEF Apart
    <3>4. \A h \in HunkNames \ H : /\ f[h] = "forgotten" => g[h] = "forgotten"
                                   /\ f[h] = "in" <=> g[h] = "in"
      BY <1>13
    <3> HIDE DEF f, g
    <3> QED BY <1>12, <1>14, <3>1, <3>2, <3>3, <3>4 DEF LetsIn
  <2>2. \A i \in A : TextAfter(run.hunks, {j \in A : j < i}, text)[run.hunks[i].slot] = run.hunks[i].old
    BY <1>3 DEF Lands
  <2> HIDE DEF f, g, H, X, run
  <2>3. Sound(TextAfter(run.hunks, A, text), g, SlotsIn(ss), OldsIn(ss))
    BY <1>1, <1>6, <1>9, <2>1, <2>2, SoundLanded
  <2> QED BY <1>3, <1>7, <2>3 DEF Clear, g
<1>17. CASE A \cup M = {}
  <2>1. Touched(runs[r], new, {}) /\ new.approvals = run.approvals
    <3>1. new.approvals \in [HunkIx -> People \cup {None}] /\ run.approvals \in [HunkIx -> People \cup {None}]
      BY <1>2, <1>9 DEF RunOK, Run
    <3>2. \A i \in HunkIx : new.approvals[i] = run.approvals[i]
      BY <1>2, <1>17
    <3>3. new.approvals = run.approvals
      BY <3>1, <3>2
    <3>4. Touched(runs[r], new, {})
      BY <1>2, <1>17
    <3> QED BY <3>3, <3>4
  <2>2. AllSame(runs, ss)
    BY <1>2, <1>4, <2>1, TouchesNothing
  <2>3. text' = text
    <3>1. \A s \in Slots : text'[s] = text[s]
      <4>1. \A s \in Slots : Newest(run.hunks, A, s, text, text'[s])
        BY <1>3, <1>6, <1>9, FoundText
      <4> QED BY <1>17, <4>1 DEF Newest
    <3>2. text \in [Slots -> Values] /\ text' \in [Slots -> Values]
      BY <1>1, AcceptOK DEF IInv
    <3> QED BY <3>1, <3>2
  <2>4. AllSame(runs, runs')
    BY <1>5, <2>2, SameTwice
  <2> QED BY <1>3, <2>3, <2>4, StutterSeen DEF GStep
<1>18. CASE A \cup M # {}
  <2>1. LevelsIn(ss) = LevelsIn(runs) /\ AskersIn(ss) = AskersIn(runs)
    BY <1>7 DEF Apart
  <2>2. \A h \in HunkNames \ (H \cup X) : SignedIn(ss)[h] = SignedIn(runs)[h]
    <3>1. ASSUME NEW h \in HunkNames \ (H \cup X)
          PROVE  ss[h[1]].approvals[h[2]] = runs[h[1]].approvals[h[2]]
      <4>1. h[1] = r => h[2] \in HunkIx \ (A \cup M)
        BY Pairs DEF Named
      <4>2. h[1] # r => ss[h[1]] = runs[h[1]]
        BY <1>4, Pairs DEF Rewrites
      <4>3. ss[r] = new
        BY <1>4 DEF Rewrites
      <4> QED BY <1>2, <4>1, <4>2, <4>3
    <3> QED BY <3>1 DEF SignedIn
  <2>3. \A h \in H : LevelsIn(runs)[h] = "colleague" => by # AskersIn(runs)[h] /\ SignedIn(ss)[h] = {by}
    <3> SUFFICES ASSUME NEW i \in A, LevelsIn(runs)[<<r, i>>] = "colleague"
                 PROVE  by # AskersIn(runs)[<<r, i>>] /\ SignedIn(ss)[<<r, i>>] = {by}
      BY DEF Named
    <3>1. run.hunks[i].review = "colleague" /\ <<r, i>> \in HunkNames
      BY <1>6, <1>12 DEF LevelsIn
    <3>2. by # Reviewer[run.agent] /\ ss[r].approvals[i] = by
      BY <1>2, <1>4, <3>1 DEF Rewrites
    <3>3. by # None
      BY ReviewerAssumption
    <3> QED BY <3>1, <3>2, <3>3 DEF AskersIn, SignedIn
  <2>4. H \cup X # {}
    BY <1>18 DEF Named
  <2> HIDE DEF H, X
  <2>5. Gate!Next
    BY <1>8, <1>12, <1>13, <1>15, <2>1, <2>2, <2>3, <2>4, LetInSeen
  <2> QED BY <1>3, <1>5, <1>16, <2>5, StepClear DEF GStep
<1> QED BY <1>17, <1>18

\* Where hunks were taken out, one of them was shown.
LEMMA TopText ==
  ASSUME NEW hs \in Seq(Hunk), NEW B \in SUBSET DOMAIN hs, NEW doc, Unwinds(hs, B, doc), NEW s \in Slots,
         TextBefore(hs, B, doc)[s] # doc[s]
  PROVE  \E i \in B : hs[i].slot = s /\ hs[i].new = doc[s]
<1> DEFINE I == At(hs, B, s)
<1>1. Len(hs) \in Nat /\ I \in SUBSET (0 .. Len(hs)) /\ I # {}
  BY DEF At, TextBefore
<1>2. \A j : j \in I <=> j \in B /\ hs[j].slot = s
  BY DEF At
<1> HIDE DEF I
<1>3. Highest(I) \in I /\ \A j \in I : j <= Highest(I)
  BY <1>1, HighestExists
<1> DEFINE i == Highest(I)
<1>4. i \in B /\ hs[i].slot = s /\ \A j \in B : hs[j].slot = s => j <= i
  BY <1>2, <1>3
<1> HIDE DEF i
<1>5. OnTop(hs, B, i, doc)
  BY <1>4, UnwoundText
<1>6. \A k \in B : k \in Nat
  OBVIOUS
<1> QED BY <1>4, <1>5, <1>6 DEF OnTop

\* The hunks B of run r, which stood in the document, were taken out, and with the others of M they
\* now stand elsewhere.
TakenOut(r, new, M, B) ==
  /\ Touched(runs[r], new, M)
  /\ \A i \in B : runs[r].hunks[i].new # Gone
  /\ Unwinds(runs[r].hunks, B, text)
  /\ text' = TextBefore(runs[r].hunks, B, text)

\* A document without the hunks B of a run is as clear as it was.
LEMMA TakenOutClear ==
  ASSUME GInv, NEW r \in RunIds, NEW new, NEW ss, Rewrites(runs, ss, r, new),
         NEW M \in SUBSET DOMAIN runs[r].hunks, NEW B \in SUBSET M, TakenOut(r, new, M, B),
         \A i \in B : FateIn(runs, minted, <<r, i>>) = "in",
         \A i \in M \ B : FateIn(runs, minted, <<r, i>>) \notin {"in", "forgotten"},
         \A i \in M : FateIn(ss, minted, <<r, i>>) \notin {"in", "forgotten"}
  PROVE  /\ Clear(text', ss, minted)
         /\ \A s \in Slots : text'[s] # text[s] => text[s] \in Named(r, M)
<1> DEFINE run == runs[r]
           f == FatesIn(runs, minted)
           g == FatesIn(ss, minted)
<1>1. IInv /\ Tidy(runs, minted) /\ Sound(text, f, SlotsIn(runs), OldsIn(runs))
  BY DEF GInv, Clear
<1>2. /\ run.hunks \in Seq(Hunk) /\ B \in SUBSET DOMAIN run.hunks
      /\ Touched(run, new, M) /\ Unwinds(run.hunks, B, text) /\ text' = TextBefore(run.hunks, B, text)
  BY <1>1, TheRun DEF TakenOut
<1>3. Apart(runs, ss, minted, Named(r, M)) /\ Tidy(ss, minted)
  BY <1>1, <1>2, TouchedSeen
<1>4. \A i \in M : <<r, i>> \in HunkNames /\ run.hunks[i] \in Hunk
  BY <1>1, NamedHunks
<1>5. \A i \in B : run.hunks[i].slot \in Slots /\ run.hunks[i].new = <<r, i>>
  <2>1. \A i \in B : run.hunks[i].new \in {Gone, <<r, i>>}
    BY <1>1, <1>2 DEF Tidy
  <2> QED BY <1>4, <2>1 DEF Hunk, TakenOut
<1>6. \A i \in B : /\ SlotsIn(runs)[<<r, i>>] = run.hunks[i].slot
                   /\ OldsIn(runs)[<<r, i>>] = run.hunks[i].old
  BY <1>4 DEF SlotsIn, OldsIn
<1>7. /\ \A i \in B : f[<<r, i>>] = "in" /\ g[<<r, i>>] \notin {"in", "forgotten"}
      /\ \A i \in M \ B : f[<<r, i>>] \notin {"in", "forgotten"} /\ g[<<r, i>>] \notin {"in", "forgotten"}
  BY <1>4 DEF FatesIn
<1>8. \A h \in HunkNames : f[h] = "in" =>
        SlotsIn(ss)[h] = SlotsIn(runs)[h] /\ OldsIn(ss)[h] = OldsIn(runs)[h]
  <2>1. \A h \in HunkNames : f[h] = "in" => h[2] \in DOMAIN runs[h[1]].hunks
    BY DEF FatesIn, FateIn
  <2> QED BY <1>3, <2>1 DEF Apart
<1>9. \A h \in HunkNames \ Named(r, B) : /\ f[h] = "forgotten" => g[h] = "forgotten"
                                         /\ f[h] = "in" <=> g[h] = "in"
  <2> TAKE h \in HunkNames \ Named(r, B)
  <2>1. CASE h \in Named(r, M)
    <3>1. PICK i \in M \ B : h = <<r, i>>
      BY <2>1 DEF Named
    <3> QED BY <1>7, <3>1
  <2>2. CASE h \notin Named(r, M)
    BY <1>3, <2>2 DEF Apart
  <2> QED BY <2>1, <2>2
<1> HIDE DEF f, g, run
<1>10. TakesOut(r, run.hunks, B, f, SlotsIn(runs), OldsIn(runs), g, SlotsIn(ss), OldsIn(ss))
  BY <1>4, <1>5, <1>6, <1>7, <1>8, <1>9 DEF TakesOut
<1>11. Sound(text', g, SlotsIn(ss), OldsIn(ss))
  <2>1. Sound(TextBefore(run.hunks, B, text), g, SlotsIn(ss), OldsIn(ss))
    BY <1>1, <1>2, <1>10, SoundTakenOut
  <2> QED BY <1>2, <2>1
<1>12. Clear(text', ss, minted)
  BY <1>3, <1>11 DEF Clear, g
<1>13. \A s \in Slots : text'[s] # text[s] => text[s] \in Named(r, M)
  <2> TAKE s \in Slots
  <2> HAVE text'[s] # text[s]
  <2>1. PICK i \in B : run.hunks[i].slot = s /\ run.hunks[i].new = text[s]
    BY <1>2, TopText
  <2> QED BY <1>5, <2>1 DEF Named
<1> QED BY <1>12, <1>13

\* Revert is the gate's TakeBack, its hunks out for good.
LEMMA RevertG ==
  ASSUME GInv, NEW r \in RunIds, NEW note \in BOOLEAN, Revert(r, note)
  PROVE  GStep
<1> DEFINE run == runs[r]
           new == RevertedRun(r, note)
           L == [Ledger EXCEPT !.runs[r] = new]
           K == IF note THEN Noted(L, r) ELSE L
           ss == L.runs
           B == LandedIn(run)
           M == LandedIn(run) \cup Pending(run)
<1>1. IInv /\ IInv' /\ text' \in [Slots -> Values]
  BY RevertOK DEF GInv, IInv
<1>2. /\ Touched(run, new, M) /\ new.approvals = run.approvals /\ new.reverted
      /\ \A i \in M : new.hunks[i].status # "pending"
  BY <1>1, RevertedTouched
<1>3. RunOK(new)
  BY <1>1, RevertedRunOK
<1>4. /\ SetLedger(Unlinked(K, r)) /\ minted' = minted
      /\ ~run.reverted /\ B # {} /\ \A i \in B : run.hunks[i].new # Gone
      /\ Unwinds(run.hunks, B, text) /\ text' = TextBefore(run.hunks, B, text)
  BY DEF Revert, RevertedRun
<1> HIDE DEF new
<1>5. LedgerOK(L) /\ Rewrites(runs, ss, r, new)
  BY <1>1, <1>3, WrittenRuns
<1> HIDE DEF L
<1>6. LedgerOK(K) /\ K.runs = ss
  BY <1>5, NotedOK
<1> HIDE DEF K, ss
<1>7. AllSame(ss, runs')
  BY <1>4, <1>6, UnlinkedSame DEF SetLedger
<1>8. M \in SUBSET DOMAIN run.hunks /\ B \in SUBSET M
  BY DEF LandedIn, Pending
<1>9. \A i \in M : /\ i \in HunkIx /\ i \in DOMAIN run.hunks /\ <<r, i>> \in HunkNames
                   /\ i \in B <=> Landed(run.hunks[i])
                   /\ i \notin B => run.hunks[i].status = "pending"
  <2>1. \A i \in M : i \in HunkIx /\ <<r, i>> \in HunkNames
    BY <1>1, <1>8, NamedHunks
  <2> QED BY <2>1 DEF LandedIn, Pending
<1> HIDE DEF M, B
<1>10. \A i \in M : /\ i \in B => FateIn(runs, minted, <<r, i>>) = "in"
                    /\ i \notin B => FateIn(runs, minted, <<r, i>>) = "waiting"
                    /\ FateIn(ss, minted, <<r, i>>) = "out"
  <2> TAKE i \in M
  <2>1. ss[r] = new /\ i \in DOMAIN new.hunks /\ new.hunks[i].status # "pending" /\ new.reverted
    BY <1>2, <1>5, <1>9 DEF Touched, Rewrites
  <2>2. FateIn(ss, minted, <<r, i>>) = "out"
    BY <1>9, <2>1, FateCases
  <2> QED BY <1>4, <1>9, <2>2, FateCases
<1>11. TakenOut(r, new, M, B)
  BY <1>2, <1>4 DEF TakenOut
<1>12. /\ Clear(text', ss, minted)
       /\ \A s \in Slots : text'[s] # text[s] => text[s] \in Named(r, M)
  BY <1>5, <1>8, <1>10, <1>11, TakenOutClear
<1>13. Clear(text', runs', minted')
  BY <1>4, <1>7, <1>12, StepClear
<1> DEFINE X == Named(r, M)
<1>14. X \in SUBSET HunkNames /\ X # {}
  BY <1>1, <1>4, <1>8, NamedHunks
<1>15. \A h \in X : FatesIn(runs, minted)[h] \in {"in", "waiting"} /\ FatesIn(ss, minted)[h] = "out"
  BY <1>9, <1>10 DEF FatesIn, Named
<1>16. Apart(runs, ss, minted, X)
  BY <1>2, <1>5, <1>8, TouchedSeen
<1>17. SignedIn(ss) = SignedIn(runs)
  <2>1. \A h \in HunkNames : ss[h[1]].approvals = runs[h[1]].approvals
    BY <1>2, <1>5, Pairs DEF Rewrites
  <2> QED BY <2>1 DEF SignedIn
<1>18. /\ FatesIn(runs', minted') = FatesIn(ss, minted) /\ LevelsIn(runs') = LevelsIn(ss)
       /\ AskersIn(runs') = AskersIn(ss) /\ SignedIn(runs') = SignedIn(ss)
  BY <1>4, <1>7, SameView
<1>19. \A s \in Slots : text'[s] \in HunkNames =>
         FatesIn(runs', minted')[text'[s]] = "in" \/ FatesIn(runs', minted')[text'[s]] = "forgotten"
  BY <1>13 DEF Clear, Sound
<1> HIDE DEF X
<1>20. Gate!Next
  <2>1. /\ LevelsIn(runs') = LevelsIn(runs) /\ AskersIn(runs') = AskersIn(runs)
        /\ SignedIn(runs') = SignedIn(runs)
        /\ \A h \in HunkNames \ X : FatesIn(runs', minted')[h] = FatesIn(runs, minted)[h]
        /\ \A h \in X : FatesIn(runs, minted)[h] \in {"in", "waiting"} /\ FatesIn(runs', minted')[h] = "out"
    BY <1>15, <1>16, <1>17, <1>18 DEF Apart
  <2>2. \A s \in Slots : text'[s] # text[s] => text[s] \in X
    BY <1>12 DEF X
  <2>3. TakesBack({}, X)
    BY <1>14, <1>19, <2>1, <2>2 DEF TakesBack
  <2> QED BY <1>1, <1>14, <2>3, TakeBackSeen
<1> QED BY <1>13, <1>20 DEF GStep

\* Undo is the gate's TakeBack: its hunks wait again.
LEMMA UndoG ==
  ASSUME GInv, NEW r \in RunIds, NEW T \in SUBSET DOMAIN runs[r].hunks, Undo(r, T)
  PROVE  GStep
<1> DEFINE run == runs[r]
           new == UndoneRun(r, T)
           L == UndoneLedger(r, T)
           ss == L.runs
           B == {i \in T : run.hunks[i].status = "accepted"}
<1>1. IInv /\ IInv' /\ text' \in [Slots -> Values]
  BY UndoOK DEF GInv, IInv
<1>2. /\ Touched(run, new, T)
      /\ \A i \in T : new.hunks[i].status = "pending"
      /\ \A i \in HunkIx : new.approvals[i] = IF i \in T THEN None ELSE run.approvals[i]
  BY <1>1, UndoneTouched
<1>3. /\ SetLedger(L) \/ SetLedger(Unlisted(L, r))
      /\ minted' = minted /\ ~run.reverted /\ T # {}
      /\ \A i \in T : run.hunks[i].status \in {"accepted", "rejected"}
      /\ \A i \in B : run.hunks[i].new # Gone
      /\ Unwinds(run.hunks, B, text) /\ text' = TextBefore(run.hunks, B, text)
  BY DEF Undo, UndoneLedger, UndoneRun
<1>4. LedgerOK(L) /\ ss = [runs EXCEPT ![r] = new]
  BY <1>1, UndoneLedgerOK
<1>5. Rewrites(runs, ss, r, new)
  <2>1. runs \in [RunIds -> Run]
    BY <1>1, TheRun, LedgerParts
  <2> QED BY <1>4, <2>1 DEF Rewrites
<1> HIDE DEF new
<1>6. Unlisted(L, r).runs = ss
  BY <1>4, NotedOK
<1> HIDE DEF L
<1>7. AllSame(ss, runs')
  <2>1. runs' = ss
    BY <1>3, <1>6 DEF SetLedger
  <2> QED BY <2>1 DEF AllSame, SameFate, SameHunk
<1> HIDE DEF ss
<1>8. B \in SUBSET T
  OBVIOUS
<1>9. \A i \in T : i \in HunkIx /\ i \in DOMAIN run.hunks /\ <<r, i>> \in HunkNames
  BY <1>1, NamedHunks
<1>10. \A i \in T : /\ i \in B => FateIn(runs, minted, <<r, i>>) = "in"
                    /\ i \notin B => FateIn(runs, minted, <<r, i>>) = "out"
                    /\ FateIn(ss, minted, <<r, i>>) = "waiting"
  <2> TAKE i \in T
  <2>1. ss[r] = new /\ i \in DOMAIN new.hunks /\ new.hunks[i].status = "pending"
    BY <1>2, <1>5, <1>9 DEF Touched, Rewrites
  <2>2. FateIn(ss, minted, <<r, i>>) = "waiting"
    BY <1>9, <2>1, FateCases
  <2>3. /\ i \in B => run.hunks[i].status = "accepted"
        /\ i \notin B => run.hunks[i].status = "rejected"
    BY <1>3
  <2> QED BY <1>3, <1>9, <2>2, <2>3, FateCases DEF Landed
<1> HIDE DEF B
<1>11. TakenOut(r, new, T, B)
  BY <1>2, <1>3 DEF TakenOut
<1>12. /\ Clear(text', ss, minted)
       /\ \A s \in Slots : text'[s] # text[s] => text[s] \in Named(r, T)
  BY <1>5, <1>8, <1>10, <1>11, TakenOutClear
<1>13. Clear(text', runs', minted')
  BY <1>3, <1>7, <1>12, StepClear
<1> DEFINE H == Named(r, T)
<1>14. H \in SUBSET HunkNames /\ H # {}
  BY <1>1, <1>3, NamedHunks
<1>15. \A h \in H : FatesIn(runs, minted)[h] \in {"in", "out"} /\ FatesIn(ss, minted)[h] = "waiting"
  BY <1>9, <1>10 DEF FatesIn, Named
<1>16. Apart(runs, ss, minted, H)
  BY <1>2, <1>5, TouchedSeen
<1>17. /\ \A h \in H : SignedIn(ss)[h] = {}
       /\ \A h \in HunkNames \ H : SignedIn(ss)[h] = SignedIn(runs)[h]
  <2>1. ASSUME NEW h \in HunkNames
        PROVE  ss[h[1]].approvals[h[2]] = IF h \in H THEN None ELSE runs[h[1]].approvals[h[2]]
    <3>1. h[1] # r => ss[h[1]] = runs[h[1]] /\ h \notin H
      BY <1>5, Pairs DEF Rewrites, Named
    <3>2. h[1] = r => h[2] \in HunkIx /\ (h \in H <=> h[2] \in T)
      BY Pairs DEF Named
    <3>3. ss[r] = new
      BY <1>5 DEF Rewrites
    <3> HIDE DEF H
    <3> QED BY <1>2, <3>1, <3>2, <3>3
  <2> QED BY <1>14, <2>1 DEF SignedIn
<1>18. /\ FatesIn(runs', minted') = FatesIn(ss, minted) /\ LevelsIn(runs') = LevelsIn(ss)
       /\ AskersIn(runs') = AskersIn(ss) /\ SignedIn(runs') = SignedIn(ss)
  BY <1>3, <1>7, SameView
<1>19. \A s \in Slots : text'[s] \in HunkNames =>
         FatesIn(runs', minted')[text'[s]] = "in" \/ FatesIn(runs', minted')[text'[s]] = "forgotten"
  BY <1>13 DEF Clear, Sound
<1> HIDE DEF H
<1>20. Gate!Next
  <2>1. /\ LevelsIn(runs') = LevelsIn(runs) /\ AskersIn(runs') = AskersIn(runs)
        /\ \A h \in HunkNames \ H : /\ FatesIn(runs', minted')[h] = FatesIn(runs, minted)[h]
                                    /\ SignedIn(runs')[h] = SignedIn(runs)[h]
        /\ \A h \in H : /\ FatesIn(runs, minted)[h] \in {"in", "out"}
                        /\ FatesIn(runs', minted')[h] = "waiting" /\ SignedIn(runs')[h] = {}
    BY <1>15, <1>16, <1>17, <1>18 DEF Apart
  <2>2. \A s \in Slots : text'[s] # text[s] => text[s] \in H
    BY <1>12 DEF H
  <2>3. TakesBack(H, {})
    BY <1>14, <1>19, <2>1, <2>2 DEF TakesBack
  <2> QED BY <1>1, <1>14, <2>3, TakeBackSeen
<1> QED BY <1>13, <1>20 DEF GStep

\* Reading, marking as read, rolling over and the clock decide no hunk.
LEMMA AckG ==
  ASSUME GInv, NEW r \in RunIds, Ack(r)
  PROVE  GStep
<1> DEFINE run == runs[r]
           read == [i \in DOMAIN run.hunks |->
                      [run.hunks[i] EXCEPT
                         !.feedback.state = IF @ \in {"open", "stale"} THEN "answered" ELSE @]]
           new == AckedRun(r)
           L == [Ledger EXCEPT !.runs[r] = new]
<1>1. IInv /\ run \in Run /\ run.hunks \in Seq(Hunk)
  BY TheRun DEF GInv
<1>2. SetLedger(L) \/ SetLedger(Unlisted(L, r))
  BY DEF Ack, AckedRun
<1>3. UNCHANGED <<text, minted>>
  BY DEF Ack
<1>4. RunOK(new)
  BY <1>1, AckedRunOK
<1>5. SameFate(run, new)
  <2>1. \A i \in DOMAIN run.hunks : SameHunk(run.hunks[i], read[i]) /\ read[i].status = run.hunks[i].status
    <3> TAKE i \in DOMAIN run.hunks
    <3>1. run.hunks[i] \in Hunk
      BY <1>1
    <3> QED BY <3>1 DEF Hunk, SameHunk
  <2>2. DOMAIN read = DOMAIN run.hunks
    OBVIOUS
  <2>3. new = [run EXCEPT !.acknowledged = TRUE, !.hunks = read, !.age = "new"]
    BY DEF AckedRun
  <2> HIDE DEF read, new
  <2>4. /\ new.hunks = read /\ new.agent = run.agent /\ new.status = run.status
        /\ new.approvals = run.approvals /\ new.reverted = run.reverted
    BY <1>1, <2>3 DEF Run
  <2> QED BY <2>1, <2>2, <2>4 DEF SameFate
<1> HIDE DEF new
<1>6. LedgerOK(L) /\ Rewrites(runs, L.runs, r, new)
  BY <1>1, <1>4, WrittenRuns
<1> HIDE DEF L
<1>7. runs' = L.runs
  BY <1>2, <1>6, NotedOK DEF SetLedger
<1>8. AllSame(runs, runs')
  <2>1. \A q \in RunIds : SameFate(runs[q], runs[q])
    BY DEF SameFate, SameHunk
  <2> QED BY <1>5, <1>6, <1>7, <2>1 DEF AllSame, Rewrites
<1> QED BY <1>3, <1>8, StutterSeen DEF GStep

\* The clock moves no hunk.
LEMMA ClockG ==
  ASSUME GInv, NEW r \in RunIds,
         GoesIdle(r) \/ GoesOld(r) \/ \E i \in DOMAIN runs[r].hunks : FeedbackAges(r, i)
  PROVE  GStep
<1>1. runs \in [RunIds -> Run] /\ runs[r] \in Run /\ runs[r].hunks \in Seq(Hunk)
  BY TheRun, LedgerParts DEF GInv
<1>2. UNCHANGED <<text, minted>>
  BY DEF GoesIdle, GoesOld, FeedbackAges
<1>3. \A q \in RunIds : SameFate(runs[q], runs[q])
  BY DEF SameFate, SameHunk
<1>4. ASSUME NEW age, runs' = [runs EXCEPT ![r].age = age]
      PROVE  AllSame(runs, runs')
  <2>1. SameFate(runs[r], [runs[r] EXCEPT !.age = age])
    BY <1>1 DEF SameFate, SameHunk, Run
  <2>2. runs'[r] = [runs[r] EXCEPT !.age = age] /\ \A q \in RunIds : q # r => runs'[q] = runs[q]
    BY <1>1, <1>4
  <2> QED BY <1>3, <2>1, <2>2 DEF AllSame
<1>5. ASSUME NEW i \in DOMAIN runs[r].hunks, FeedbackAges(r, i)
      PROVE  AllSame(runs, runs')
  <2> DEFINE hs == [j \in DOMAIN runs[r].hunks |->
                      IF runs[r].hunks[j].feedback = runs[r].hunks[i].feedback
                      THEN [runs[r].hunks[j] EXCEPT !.feedback.state = "stale"] ELSE runs[r].hunks[j]]
             new == [runs[r] EXCEPT !.hunks = hs]
  <2>1. \A j \in DOMAIN runs[r].hunks :
          SameHunk(runs[r].hunks[j], hs[j]) /\ hs[j].status = runs[r].hunks[j].status
    <3> TAKE j \in DOMAIN runs[r].hunks
    <3>1. runs[r].hunks[j] \in Hunk
      BY <1>1
    <3> QED BY <3>1 DEF Hunk, SameHunk
  <2>2. DOMAIN hs = DOMAIN runs[r].hunks
    OBVIOUS
  <2>3. runs' = [runs EXCEPT ![r].hunks = hs]
    BY <1>5 DEF FeedbackAges
  <2> HIDE DEF hs
  <2>4. runs'[r] = new /\ \A q \in RunIds : q # r => runs'[q] = runs[q]
    BY <1>1, <2>3
  <2>5. SameFate(runs[r], new)
    BY <1>1, <2>1, <2>2 DEF SameFate, Run
  <2> HIDE DEF new
  <2> QED BY <1>3, <2>4, <2>5 DEF AllSame
<1>6. AllSame(runs, runs')
  BY <1>4, <1>5 DEF GoesIdle, GoesOld
<1> QED BY <1>2, <1>6, StutterSeen DEF GStep

\* A read by the agent moves no hunk.
LEMMA ReadBackG ==
  ASSUME GInv, NEW a \in Agents, ReadBack(a)
  PROVE  GStep
<1> DEFINE L == IF active[a] # NoRun /\ ~IsOpen(Ledger, active[a])
                THEN [Ledger EXCEPT !.active[a] = NoRun] ELSE Ledger
<1>1. LedgerOK(L) /\ L.runs = runs
  <2>1. LedgerOK(Ledger) /\ Ledger.runs = runs
    BY DEF GInv, IInv, Ledger
  <2>2. [Ledger EXCEPT !.active[a] = NoRun] \in Ledgers /\ [Ledger EXCEPT !.active[a] = NoRun].runs = Ledger.runs
    BY <2>1 DEF LedgerOK, Ledgers, Ledger
  <2> QED BY <2>1, <2>2 DEF LedgerOK
<1>2. SetLedger(Scanned(L, a, {})) /\ UNCHANGED <<text, minted>>
  BY DEF ReadBack
<1> HIDE DEF L
<1>3. AllSame(runs, runs')
  BY <1>1, <1>2, ScannedSame DEF SetLedger
<1> QED BY <1>2, <1>3, StutterSeen DEF GStep

\* Rolling a run over moves no hunk.
LEMMA ProposeNothingG ==
  ASSUME GInv, NEW a \in Agents, NEW c \in Changes, ProposeNothing(a, c)
  PROVE  GStep
<1>1. LedgerOK(Ledger) /\ Ledger.runs = runs
  BY DEF GInv, IInv, Ledger
<1>2. SetLedger(Prepared(Ledger, a, c)) /\ UNCHANGED <<text, minted>>
  BY DEF ProposeNothing
<1>3. AllSame(runs, runs')
  BY <1>1, <1>2, PreparedSame DEF SetLedger
<1> QED BY <1>2, <1>3, StutterSeen DEF GStep

\* What a person writes names no hunk; what they overwrite is shown no more.
LEMMA PersonEditsG ==
  ASSUME GInv, NEW s \in Slots, NEW v \in Typed, PersonEdits(s, v)
  PROVE  GStep
<1> DEFINE f == FatesIn(runs, minted)
           slot == SlotsIn(runs)
           old == OldsIn(runs)
<1>1. /\ Tidy(runs, minted) /\ Sound(text, f, slot, old) /\ text \in [Slots -> Values]
      /\ text' = [text EXCEPT ![s] = v] /\ runs' = runs /\ minted' = minted
  BY DEF GInv, Clear, IInv, PersonEdits
<1>2. v \in Plain \cup {Gone} /\ v \notin HunkNames
  BY InputAssumption, TextIsNoName
<1>3. \A t \in Slots : text'[t] = IF t = s THEN v ELSE text[t]
  BY <1>1
<1> HIDE DEF f, slot, old
<1>4. Sound(text', f, slot, old)
  <2>1. \A t \in Slots :
          text'[t] \in HunkNames => f[text'[t]] = "forgotten" \/ (f[text'[t]] = "in" /\ slot[text'[t]] = t)
    BY <1>1, <1>2, <1>3 DEF Sound
  <2>2. \A h \in HunkNames :
          f[h] = "in" /\ old[h] \in HunkNames =>
            \/ f[old[h]] = "forgotten"
            \/ f[old[h]] = "in" /\ slot[old[h]] = slot[h]
    BY <1>1 DEF Sound
  <2>3. \A h \in HunkNames :
          f[h] = "in" /\ old[h] \in HunkNames /\ f[old[h]] = "in" =>
            /\ \A t \in Slots : text'[t] # old[h]
            /\ \A k \in HunkNames : f[k] = "in" /\ old[k] = old[h] => k = h
    BY <1>1, <1>2, <1>3 DEF Sound
  <2> QED BY <2>1, <2>2, <2>3 DEF Sound
<1>5. Clear(text', runs', minted')
  BY <1>1, <1>4 DEF Clear, f, slot, old
<1>6. Gate!Write
  BY <1>1, <1>2, GateSees DEF Gate!Write
<1> QED BY <1>5, <1>6 DEF GStep, Gate!Next

-----------------------------------------------------------------------------
(* A proposal *)

\* Hunk h was added to run id, which was open or is opened now, and the runs gone, with nothing left
\* to decide, made room for it; n run ids were handed out before, m are now.
Offers(rs, n, ss, m, id, h, gone) ==
  /\ \A q \in RunIds : q # id => IF q \in gone THEN /\ ss[q] = Blank /\ rs[q].status # "none"
                                                    /\ Pending(rs[q]) = {}
                                 ELSE ss[q] = rs[q]
  /\ \A q \in RunIds : q # id => (q <= m <=> q <= n)
  /\ id <= m /\ id \notin gone /\ ss[id].status = "open" /\ ~ss[id].reverted
  /\ \/ /\ rs[id].status = "open" /\ ~rs[id].reverted /\ ss[id].hunks = Append(rs[id].hunks, h)
        /\ ss[id].approvals = rs[id].approvals /\ ss[id].agent = rs[id].agent
     \/ /\ ~(id <= n) /\ ss[id].hunks = <<h>> /\ \A i \in HunkIx : ss[id].approvals[i] = None

\* Where the proposal goes, as the gate sees it.
OpenedBy(a, c) == IF OpenRunFor(Ledger, a, c) = NoRun THEN minted + 1 ELSE minted

\* What Propose writes is such an offer: into the open run, or into a new one.
LEMMA ProposedOffers ==
  ASSUME IInv, Tidy(runs, minted), NEW a \in Agents, NEW c \in Changes, NEW level \in LevelsInUse,
         NEW s \in Slots, NEW answers, NEW h \in Hunk, NEW N, Writes(a, c, level, s, answers, h, N),
         NEW id, id = ProposalRun(a, c), id \in RunIds,
         LedgerOK(ProposeInto(Prepared(Ledger, a, c), a, c, level)),
         ProposeInto(Prepared(Ledger, a, c), a, c, level).runs[id].status = "open"
  PROVE  \E gone \in SUBSET RunIds :
           Offers(Prepared(Ledger, a, c).runs, minted, N.runs, OpenedBy(a, c), id, h, gone)
<1> DEFINE P == Prepared(Ledger, a, c)
           M == ProposeInto(P, a, c, level)
           rs == P.runs
           ss == N.runs
           open == OpenRunFor(Ledger, a, c)
<1>1. LedgerOK(Ledger) /\ LedgerOK(P) /\ LedgerOK(M) /\ M.runs[id].status = "open"
  BY PreparedOK DEF IInv
<1>2. PICK new : /\ ss = [M.runs EXCEPT ![id] = new] /\ new.hunks = Append(M.runs[id].hunks, h)
                 /\ new.agent = M.runs[id].agent /\ new.status = "open"
                 /\ new.reverted = M.runs[id].reverted /\ new.approvals = M.runs[id].approvals
  BY ZenonT(60) DEF Writes
<1>3. M.runs \in [RunIds -> Run] /\ ~M.runs[id].reverted
  BY <1>1, LedgerParts DEF LedgerOK, RunOK, Settled
<1>4. ss[id] = new /\ \A q \in RunIds : q # id => ss[q] = M.runs[q]
  BY <1>2, <1>3
<1>5. minted \in Nat /\ id \in Nat
  BY BoundsAssumption DEF IInv, RunIds
<1>6. CASE open # NoRun
  <2>1. OpenedBy(a, c) = minted /\ M = P
    BY <1>6 DEF OpenedBy, ProposeInto
  <2>2. id <= minted
    <3>1. id = open /\ IsOpen(Ledger, id)
      BY <1>6 DEF ProposalRun, OpenRunFor, GoesOn
    <3>2. runs[id].status # "none"
      BY <3>1 DEF IsOpen, Ledger
    <3> QED BY <3>2 DEF Tidy
  <2>3. Offers(rs, minted, ss, minted, id, h, {})
    <3> HIDE DEF P, M
    <3> QED BY <1>1, <1>2, <1>3, <1>4, <2>1, <2>2 DEF Offers
  <2> QED BY <2>1, <2>3
<1>7. CASE open = NoRun
  <2> DEFINE waiting == Waiting(P, a)
             ahead == IF waiting = {} THEN NoRun ELSE Highest(waiting)
             run == NewRun(a, level, c, ahead, waiting)
             E == Evicted(P)
  <2>1. OpenedBy(a, c) = minted + 1 /\ id = minted + 1 /\ M = Tracked(P, id, run)
    BY <1>7 DEF OpenedBy, ProposeInto, ProposalRun
  <2>2. /\ run.hunks = <<>> /\ run.reverted = FALSE /\ run.agent = a
        /\ \A i \in HunkIx : run.approvals[i] = None
    BY DEF NewRun
  <2> HIDE DEF run
  <2>3. \A q \in E : q \in RunIds /\ rs[q].status # "none" /\ Pending(rs[q]) = {}
    BY DEF Evicted, Kept, Evictable
  <2>4. M.runs = [q \in RunIds |-> CASE q = id -> run [] q # id /\ q \in E -> Blank [] OTHER -> rs[q]]
    BY <2>1 DEF Tracked
  <2> HIDE DEF E, P, M
  <2>5. M.runs[id] = run /\ \A q \in RunIds : q # id => M.runs[q] = IF q \in E THEN Blank ELSE rs[q]
    BY <2>4
  <2>6. ss[id].hunks = <<h>>
    BY <1>2, <1>4, <2>2, <2>5
  <2>7. Offers(rs, minted, ss, minted + 1, id, h, E \ {id})
    <3>1. /\ id <= minted + 1 /\ ~(id <= minted)
          /\ \A q \in RunIds : q # id => (q <= minted + 1 <=> q <= minted)
      BY <1>5, <2>1 DEF RunIds
    <3>2. \A q \in RunIds : q # id =>
            IF q \in E \ {id} THEN ss[q] = Blank /\ rs[q].status # "none" /\ Pending(rs[q]) = {}
            ELSE ss[q] = rs[q]
      BY <1>4, <2>3, <2>5
    <3>3. ss[id].status = "open" /\ ~ss[id].reverted /\ \A i \in HunkIx : ss[id].approvals[i] = None
      BY <1>2, <1>3, <1>4, <2>2, <2>5
    <3> QED BY <2>6, <3>1, <3>2, <3>3 DEF Offers
  <2>8. E \ {id} \in SUBSET RunIds
    BY <2>3
  <2>9. Offers(rs, minted, ss, OpenedBy(a, c), id, h, E \ {id})
    BY <2>1, <2>7
  <2> HIDE DEF rs, ss
  <2>10. \E gone \in SUBSET RunIds : Offers(rs, minted, ss, OpenedBy(a, c), id, h, gone)
    BY <2>8, <2>9
  <2> QED BY <2>10 DEF rs, ss, P
<1> QED BY <1>6, <1>7


\* The run the hunk was added to, however it came to be: I is the place of the hunk.
Added(rs, n, ss, m, id, h, I) ==
  /\ I \in HunkIx /\ I \notin DOMAIN rs[id].hunks
  /\ DOMAIN ss[id].hunks = DOMAIN rs[id].hunks \cup {I}
  /\ ss[id].hunks[I] = h
  /\ \A i \in DOMAIN rs[id].hunks : ss[id].hunks[i] = rs[id].hunks[i]
  /\ ~ss[id].reverted /\ ~rs[id].reverted
  /\ ss[id].status = "open" /\ id <= m
  /\ \A i \in HunkIx : ss[id].approvals[i] = rs[id].approvals[i]
  /\ \/ rs[id].status = "open" /\ ss[id].agent = rs[id].agent
     \/ ~(id <= n) /\ DOMAIN rs[id].hunks = {}

\* An offer adds its hunk at the end of the run.
LEMMA AddedHunk ==
  ASSUME NEW rs, NEW ss, NEW n, NEW m, Tidy(rs, n), NEW id \in RunIds, NEW h \in Hunk, NEW gone,
         Offers(rs, n, ss, m, id, h, gone), rs[id].hunks \in Seq(Hunk), Len(ss[id].hunks) \in HunkIx
  PROVE  Added(rs, n, ss, m, id, h, Len(ss[id].hunks))
<1>1. /\ id <= m /\ ss[id].status = "open" /\ ~ss[id].reverted
      /\ \/ /\ rs[id].status = "open" /\ ~rs[id].reverted /\ ss[id].hunks = Append(rs[id].hunks, h)
            /\ ss[id].approvals = rs[id].approvals /\ ss[id].agent = rs[id].agent
         \/ /\ ~(id <= n) /\ ss[id].hunks = <<h>> /\ \A i \in HunkIx : ss[id].approvals[i] = None
  BY DEF Offers
<1>2. CASE /\ rs[id].status = "open" /\ ~rs[id].reverted /\ ss[id].hunks = Append(rs[id].hunks, h)
           /\ ss[id].approvals = rs[id].approvals /\ ss[id].agent = rs[id].agent
  <2>1. /\ Len(ss[id].hunks) = Len(rs[id].hunks) + 1 /\ ss[id].hunks[Len(rs[id].hunks) + 1] = h
        /\ \A i \in 1 .. Len(rs[id].hunks) : ss[id].hunks[i] = rs[id].hunks[i]
        /\ DOMAIN ss[id].hunks = 1 .. (Len(rs[id].hunks) + 1)
        /\ DOMAIN rs[id].hunks = 1 .. Len(rs[id].hunks) /\ Len(rs[id].hunks) \in Nat
    BY <1>2
  <2> QED BY <1>1, <1>2, <2>1 DEF Added
<1>3. CASE ~(id <= n) /\ ss[id].hunks = <<h>> /\ \A i \in HunkIx : ss[id].approvals[i] = None
  <2>1. /\ DOMAIN rs[id].hunks = {} /\ ~rs[id].reverted
        /\ \A i \in HunkIx : rs[id].approvals[i] = None
    BY <1>3 DEF Tidy
  <2>2. Len(ss[id].hunks) = 1 /\ DOMAIN ss[id].hunks = {1} /\ ss[id].hunks[1] = h
    BY <1>3
  <2> QED BY <1>1, <1>3, <2>1, <2>2 DEF Added
<1> QED BY <1>1, <1>2, <1>3

\* What the gate sees of a proposal between the runs rs and ss: x comes, M is forgotten.
Offered(rs, n, ss, m, x, h, M) ==
  /\ FatesIn(rs, n)[x] = "new"
  /\ FatesIn(ss, m)[x] = (IF h.status = "pending" THEN "waiting" ELSE IF Landed(h) THEN "in" ELSE "out")
  /\ LevelsIn(ss)[x] = h.review /\ SlotsIn(ss)[x] = h.slot /\ OldsIn(ss)[x] = h.old
  /\ x \notin M
  /\ \A g \in M : FatesIn(rs, n)[g] \in {"new", "in", "out"} /\ FatesIn(ss, m)[g] = "forgotten"
  /\ \A g \in HunkNames \ M : SignedIn(ss)[g] = SignedIn(rs)[g]
  /\ \A g \in HunkNames \ (M \cup {x}) :
       /\ FatesIn(ss, m)[g] = FatesIn(rs, n)[g]
       /\ FatesIn(rs, n)[g] # "new" => /\ LevelsIn(ss)[g] = LevelsIn(rs)[g]
                                       /\ AskersIn(ss)[g] = AskersIn(rs)[g]
       /\ FatesIn(rs, n)[g] = "in" => /\ SlotsIn(ss)[g] = SlotsIn(rs)[g]
                                      /\ OldsIn(ss)[g] = OldsIn(rs)[g]

OfRuns(gone) == {g \in HunkNames : g[1] \in gone}

\* A run that is not kept holds nothing.
LEMMA BlankRun ==
  /\ Blank.hunks = <<>> /\ Blank.status = "none" /\ Blank.reverted = FALSE
  /\ \A i \in HunkIx : Blank.approvals[i] = None
BY DEF Blank, NewRun

\* An offer leaves the runs tidy.
LEMMA OffersTidy ==
  ASSUME NEW rs, NEW ss, NEW n, NEW m, Tidy(rs, n), NEW id \in RunIds, NEW h \in Hunk, NEW gone,
         Offers(rs, n, ss, m, id, h, gone), NEW I, Added(rs, n, ss, m, id, h, I), h.new \in {Gone, <<id, I>>}
  PROVE  Tidy(ss, m)
<1> SUFFICES ASSUME NEW q \in RunIds
             PROVE  /\ \A i \in DOMAIN ss[q].hunks : ss[q].hunks[i].new \in {Gone, <<q, i>>}
                    /\ ss[q].status # "none" => q <= m
                    /\ ss[q].status = "none" =>
                         /\ DOMAIN ss[q].hunks = {} /\ ~ss[q].reverted
                         /\ \A i \in HunkIx : ss[q].approvals[i] = None
  BY DEF Tidy
<1>1. /\ \A i \in DOMAIN rs[q].hunks : rs[q].hunks[i].new \in {Gone, <<q, i>>}
      /\ rs[q].status # "none" => q <= n
      /\ rs[q].status = "none" =>
           /\ DOMAIN rs[q].hunks = {} /\ ~rs[q].reverted
           /\ \A i \in HunkIx : rs[q].approvals[i] = None
  BY DEF Tidy
<1>2. CASE q = id
  BY <1>1, <1>2 DEF Added
<1>3. CASE q # id /\ q \in gone
  <2>1. ss[q] = Blank
    BY <1>3 DEF Offers
  <2> QED BY <2>1, BlankRun
<1>4. CASE q # id /\ q \notin gone
  <2>1. ss[q] = rs[q] /\ (q <= m <=> q <= n)
    BY <1>4 DEF Offers
  <2> QED BY <1>1, <2>1
<1> QED BY <1>2, <1>3, <1>4

\* What the gate sees of an offer.
LEMMA OffersSeen ==
  ASSUME NEW rs, NEW ss, NEW n, NEW m, Tidy(rs, n), NEW id \in RunIds, NEW h \in Hunk,
         NEW gone \in SUBSET RunIds, Offers(rs, n, ss, m, id, h, gone),
         NEW I, Added(rs, n, ss, m, id, h, I)
  PROVE  Offered(rs, n, ss, m, <<id, I>>, h, OfRuns(gone))
<1> DEFINE x == <<id, I>>
           M == OfRuns(gone)
<1>1. I \in HunkIx /\ x \in HunkNames /\ id \notin gone
  BY Pairs DEF Added, Offers
<1>2. FateIn(rs, n, x) = "new"
  <2>1. I \notin DOMAIN rs[id].hunks /\ ~(id <= n /\ rs[id].status = "none")
    BY DEF Added
  <2> QED BY <1>1, <2>1, FateCases
<1>3. /\ FateIn(ss, m, x) = (IF h.status = "pending" THEN "waiting" ELSE IF Landed(h) THEN "in" ELSE "out")
      /\ I \in DOMAIN ss[id].hunks /\ ss[id].hunks[I] = h
  <2>1. I \in DOMAIN ss[id].hunks /\ ss[id].hunks[I] = h /\ ~ss[id].reverted
    BY DEF Added
  <2> QED BY <1>1, <2>1, FateCases
<1>4. FatesIn(rs, n)[x] = FateIn(rs, n, x) /\ FatesIn(ss, m)[x] = FateIn(ss, m, x)
  BY <1>1 DEF FatesIn
<1>5. LevelsIn(ss)[x] = h.review /\ SlotsIn(ss)[x] = h.slot /\ OldsIn(ss)[x] = h.old
  BY <1>1, <1>3 DEF LevelsIn, SlotsIn, OldsIn
<1>6. ASSUME NEW q \in gone, NEW i \in HunkIx
      PROVE  FateIn(rs, n, <<q, i>>) \in {"new", "in", "out"} /\ FateIn(ss, m, <<q, i>>) = "forgotten"
  <2>1. q # id /\ ss[q] = Blank /\ rs[q].status # "none" /\ Pending(rs[q]) = {} /\ (q <= m <=> q <= n)
    BY <1>1 DEF Offers
  <2>2. q <= n
    BY <2>1 DEF Tidy
  <2>3. ~(i \in DOMAIN rs[q].hunks /\ rs[q].hunks[i].status = "pending")
    BY <2>1 DEF Pending
  <2>4. i \notin DOMAIN ss[q].hunks /\ ss[q].status = "none"
    BY <2>1, BlankRun
  <2>5. FateIn(rs, n, <<q, i>>) \in {"new", "in", "out"}
    BY <2>1, <2>3, FateCases
  <2> QED BY <2>1, <2>2, <2>4, <2>5, FateCases
<1>7. ASSUME NEW q \in RunIds \ gone, NEW i \in HunkIx, <<q, i>> # x
      PROVE  /\ FateIn(ss, m, <<q, i>>) = FateIn(rs, n, <<q, i>>)
             /\ i \in DOMAIN ss[q].hunks <=> i \in DOMAIN rs[q].hunks
             /\ i \in DOMAIN rs[q].hunks => ss[q].hunks[i] = rs[q].hunks[i]
             /\ FateIn(rs, n, <<q, i>>) # "new" => ss[q].agent = rs[q].agent
  <2>1. CASE q # id
    <3>1. ss[q] = rs[q] /\ (q <= m <=> q <= n)
      BY <1>7, <2>1 DEF Offers
    <3>2. FateIn(ss, m, <<q, i>>) = FateIn(rs, n, <<q, i>>)
      BY <3>1 DEF FateIn
    <3> QED BY <3>1, <3>2
  <2>2. CASE q = id
    <3>1. i # I
      BY <1>7, <2>2
    <3>2. /\ i \in DOMAIN ss[q].hunks <=> i \in DOMAIN rs[q].hunks
          /\ i \in DOMAIN rs[q].hunks => ss[q].hunks[i] = rs[q].hunks[i]
          /\ ~ss[q].reverted /\ ~rs[q].reverted
          /\ ss[q].status # "none" /\ ~(q <= n /\ rs[q].status = "none")
      BY <2>2, <3>1 DEF Added
    <3>3. i \in DOMAIN rs[q].hunks =>
            (Landed(rs[q].hunks[i]) /\ ~rs[q].reverted <=> Landed(ss[q].hunks[i]) /\ ~ss[q].reverted)
      BY <3>2
    <3>4. FateIn(ss, m, <<q, i>>) = FateIn(rs, n, <<q, i>>)
      BY <3>2, <3>3, FateCases
    <3>5. FateIn(rs, n, <<q, i>>) # "new" => i \in DOMAIN rs[q].hunks
      BY <3>2, FateCases
    <3>6. i \in DOMAIN rs[q].hunks => ss[q].agent = rs[q].agent
      BY <2>2 DEF Added
    <3> QED BY <3>2, <3>4, <3>5, <3>6
  <2> QED BY <2>1, <2>2
<1>8. ASSUME NEW q \in RunIds \ gone, NEW i \in HunkIx
      PROVE  ss[q].approvals[i] = rs[q].approvals[i]
  <2>1. CASE q # id
    BY <1>8, <2>1 DEF Offers
  <2>2. CASE q = id
    BY <2>2 DEF Added
  <2> QED BY <2>1, <2>2
<1>9. \A g \in M : FateIn(rs, n, g) \in {"new", "in", "out"} /\ FateIn(ss, m, g) = "forgotten"
  <2> SUFFICES ASSUME NEW g \in M
               PROVE  FateIn(rs, n, g) \in {"new", "in", "out"} /\ FateIn(ss, m, g) = "forgotten"
    OBVIOUS
  <2>1. g = <<g[1], g[2]>> /\ g[1] \in gone /\ g[2] \in HunkIx
    BY Pairs DEF OfRuns
  <2> QED BY <1>6, <2>1
<1>10. \A g \in HunkNames \ M : g = <<g[1], g[2]>> /\ g[1] \in RunIds \ gone /\ g[2] \in HunkIx
  BY Pairs DEF OfRuns
<1>11. \A g \in HunkNames \ M : SignedIn(ss)[g] = SignedIn(rs)[g]
  BY <1>8, <1>10 DEF SignedIn
<1>12. ASSUME NEW g \in HunkNames \ (M \cup {x})
       PROVE  /\ FatesIn(ss, m)[g] = FatesIn(rs, n)[g]
              /\ FatesIn(rs, n)[g] # "new" => /\ LevelsIn(ss)[g] = LevelsIn(rs)[g]
                                              /\ AskersIn(ss)[g] = AskersIn(rs)[g]
              /\ FatesIn(rs, n)[g] = "in" => /\ SlotsIn(ss)[g] = SlotsIn(rs)[g]
                                             /\ OldsIn(ss)[g] = OldsIn(rs)[g]
  <2> DEFINE q == g[1]
             i == g[2]
  <2>1. g = <<q, i>> /\ q \in RunIds \ gone /\ i \in HunkIx /\ g \in HunkNames /\ g # x
    BY <1>10, <1>12
  <2>2. /\ FateIn(ss, m, g) = FateIn(rs, n, g)
        /\ i \in DOMAIN ss[q].hunks <=> i \in DOMAIN rs[q].hunks
        /\ i \in DOMAIN rs[q].hunks => ss[q].hunks[i] = rs[q].hunks[i]
        /\ FateIn(rs, n, g) # "new" => ss[q].agent = rs[q].agent
    <3> HIDE DEF q, i, x
    <3>1. /\ FateIn(ss, m, <<q, i>>) = FateIn(rs, n, <<q, i>>)
          /\ i \in DOMAIN ss[q].hunks <=> i \in DOMAIN rs[q].hunks
          /\ i \in DOMAIN rs[q].hunks => ss[q].hunks[i] = rs[q].hunks[i]
          /\ FateIn(rs, n, <<q, i>>) # "new" => ss[q].agent = rs[q].agent
      BY <1>7, <2>1 DEF x
    <3> QED BY <2>1, <3>1
  <2>3. FatesIn(ss, m)[g] = FateIn(ss, m, g) /\ FatesIn(rs, n)[g] = FateIn(rs, n, g)
    BY DEF FatesIn
  <2>4. FateIn(rs, n, g) = "in" => i \in DOMAIN rs[q].hunks
    BY DEF FateIn
  <2>5. LevelsIn(ss)[g] = LevelsIn(rs)[g]
    BY <2>1, <2>2 DEF LevelsIn
  <2>6. FateIn(rs, n, g) # "new" => AskersIn(ss)[g] = AskersIn(rs)[g]
    BY <2>1, <2>2 DEF AskersIn
  <2>7. FateIn(rs, n, g) = "in" => SlotsIn(ss)[g] = SlotsIn(rs)[g] /\ OldsIn(ss)[g] = OldsIn(rs)[g]
    BY <2>1, <2>2, <2>4 DEF SlotsIn, OldsIn
  <2> QED BY <2>2, <2>3, <2>5, <2>6, <2>7
<1>13. x \notin M
  BY <1>1 DEF OfRuns
<1>14. \A g \in M : FatesIn(rs, n)[g] \in {"new", "in", "out"} /\ FatesIn(ss, m)[g] = "forgotten"
  BY <1>9 DEF FatesIn, OfRuns
<1> HIDE DEF x, M
<1>15. Offered(rs, n, ss, m, x, h, M)
  BY <1>2, <1>3, <1>4, <1>5, <1>11, <1>12, <1>13, <1>14 DEF Offered
<1> QED BY <1>15 DEF x, M

\* Forgetting decided hunks leaves the document as sound as it was.
LEMMA ForgottenSound ==
  ASSUME NEW rs, NEW n, NEW ss, NEW m, NEW x, NEW h, NEW M, Offered(rs, n, ss, m, x, h, M), NEW doc,
         Sound(doc, FatesIn(rs, n), SlotsIn(rs), OldsIn(rs))
  PROVE  Sound(doc, [k \in HunkNames |-> IF k \in M THEN "forgotten" ELSE FatesIn(rs, n)[k]],
               SlotsIn(rs), OldsIn(rs))
<1> DEFINE f == FatesIn(rs, n)
           f2 == [k \in HunkNames |-> IF k \in M THEN "forgotten" ELSE f[k]]
<1>1. \A k \in HunkNames : f2[k] = IF k \in M THEN "forgotten" ELSE f[k]
  OBVIOUS
<1> HIDE DEF f2
<1>2. \A k \in HunkNames : /\ f[k] = "forgotten" => f2[k] = "forgotten"
                           /\ f[k] = "in" => f2[k] \in {"in", "forgotten"}
                           /\ f2[k] = "in" => f[k] = "in"
  BY <1>1
<1>3. Sound(doc, f2, SlotsIn(rs), OldsIn(rs))
  BY <1>2, SoundStill
<1> QED BY <1>3 DEF f2

\* A hunk that waits shows nothing yet.
LEMMA WaitingSound ==
  ASSUME NEW rs, NEW n, NEW ss, NEW m, NEW x, NEW h, NEW M, Offered(rs, n, ss, m, x, h, M), NEW doc,
         Sound(doc, FatesIn(rs, n), SlotsIn(rs), OldsIn(rs)), h.status = "pending"
  PROVE  Sound(doc, FatesIn(ss, m), SlotsIn(ss), OldsIn(ss))
<1> DEFINE f == FatesIn(rs, n)
           g == FatesIn(ss, m)
<1>1. /\ f[x] = "new" /\ g[x] = "waiting"
      /\ \A k \in M : f[k] \in {"new", "in", "out"} /\ g[k] = "forgotten"
      /\ \A k \in HunkNames \ (M \cup {x}) :
           /\ g[k] = f[k]
           /\ f[k] = "in" => SlotsIn(ss)[k] = SlotsIn(rs)[k] /\ OldsIn(ss)[k] = OldsIn(rs)[k]
  BY DEF Offered
<1> HIDE DEF f, g
<1>2. ASSUME NEW k \in HunkNames
      PROVE  /\ f[k] = "forgotten" => g[k] = "forgotten"
             /\ f[k] = "in" => g[k] \in {"in", "forgotten"}
             /\ g[k] = "in" => /\ f[k] = "in" /\ SlotsIn(ss)[k] = SlotsIn(rs)[k]
                               /\ OldsIn(ss)[k] = OldsIn(rs)[k]
  <2>1. CASE k = x
    BY <1>1, <2>1
  <2>2. CASE k \in M
    BY <1>1, <2>2
  <2>3. CASE k \notin M /\ k # x
    BY <1>1, <2>3
  <2> QED BY <2>1, <2>2, <2>3
<1>3. Sound(doc, f, SlotsIn(rs), OldsIn(rs))
  BY DEF f
<1>4. Sound(doc, g, SlotsIn(ss), OldsIn(ss))
  BY <1>2, <1>3, SoundStill
<1> QED BY <1>4 DEF g

\* A hunk that lands at once replaces the text it was proposed over.
LEMMA LandingSound ==
  ASSUME NEW rs, NEW n, NEW ss, NEW m, NEW id \in RunIds, NEW I \in HunkIx, NEW h \in Hunk,
         NEW M, Offered(rs, n, ss, m, <<id, I>>, h, M), NEW doc, doc \in [Slots -> Values],
         Sound(doc, FatesIn(rs, n), SlotsIn(rs), OldsIn(rs)), Landed(h),
         h.old = doc[h.slot], h.new \in {Gone, <<id, I>>},
         ss[id].hunks \in Seq(Hunk), I \in DOMAIN ss[id].hunks, ss[id].hunks[I] = h
  PROVE  Sound([doc EXCEPT ![h.slot] = h.new], FatesIn(ss, m), SlotsIn(ss), OldsIn(ss))
<1> DEFINE hs == ss[id].hunks
           x == <<id, I>>
           f == [k \in HunkNames |-> IF k \in M THEN "forgotten" ELSE FatesIn(rs, n)[k]]
           g == FatesIn(ss, m)
           A == {I}
<1>1. x \in HunkNames /\ Named(id, A) = {x} /\ h.slot \in Slots /\ h.status # "pending"
  BY Pairs DEF Named, Hunk, Landed
<1>2. /\ FatesIn(rs, n)[x] = "new" /\ x \notin M /\ g[x] = "in"
      /\ SlotsIn(ss)[x] = h.slot /\ OldsIn(ss)[x] = h.old
      /\ \A k \in M : g[k] = "forgotten"
      /\ \A k \in HunkNames \ (M \cup {x}) :
           /\ g[k] = FatesIn(rs, n)[k]
           /\ FatesIn(rs, n)[k] = "in" => SlotsIn(ss)[k] = SlotsIn(rs)[k] /\ OldsIn(ss)[k] = OldsIn(rs)[k]
  BY <1>1 DEF Offered
<1>3. Sound(doc, f, SlotsIn(rs), OldsIn(rs))
  BY ForgottenSound
<1>4. \A k \in HunkNames : f[k] = IF k \in M THEN "forgotten" ELSE FatesIn(rs, n)[k]
  OBVIOUS
<1> HIDE DEF f, g, x
<1>5. ASSUME NEW k \in HunkNames \ Named(id, A)
      PROVE  /\ f[k] = "forgotten" => g[k] = "forgotten"
             /\ f[k] = "in" <=> g[k] = "in"
             /\ f[k] = "in" => SlotsIn(ss)[k] = SlotsIn(rs)[k] /\ OldsIn(ss)[k] = OldsIn(rs)[k]
  <2>1. CASE k \in M
    BY <1>2, <1>4, <2>1
  <2>2. CASE k \notin M
    BY <1>1, <1>2, <1>4, <2>2
  <2> QED BY <2>1, <2>2
<1>6. LetsIn(id, hs, A, f, SlotsIn(rs), OldsIn(rs), g, SlotsIn(ss), OldsIn(ss))
  <2>1. f[x] = "new"
    BY <1>1, <1>2, <1>4
  <2>2. \A i \in A : /\ <<id, i>> \in HunkNames /\ hs[i].slot \in Slots /\ hs[i].new \in {Gone, <<id, i>>}
                     /\ f[<<id, i>>] \notin {"in", "forgotten"} /\ g[<<id, i>>] = "in"
                     /\ SlotsIn(ss)[<<id, i>>] = hs[i].slot /\ OldsIn(ss)[<<id, i>>] = hs[i].old
    BY <1>1, <1>2, <2>1 DEF x
  <2> QED BY <1>5, <2>2 DEF LetsIn
<1>7. I \in Nat /\ A \in SUBSET DOMAIN hs
  BY DEF HunkIx
<1>8. \A i \in A : TextAfter(hs, {j \in A : j < i}, doc)[hs[i].slot] = hs[i].old
  <2>1. {j \in A : j < I} = {}
    BY <1>7
  <2>2. TextAfter(hs, {}, doc)[h.slot] = doc[h.slot]
    BY <1>1 DEF TextAfter, At
  <2> QED BY <2>1, <2>2
<1>9. TextAfter(hs, A, doc) = [doc EXCEPT ![h.slot] = h.new]
  <2>1. ASSUME NEW s \in Slots
        PROVE  TextAfter(hs, A, doc)[s] = IF s = h.slot THEN h.new ELSE doc[s]
    <3> DEFINE v == TextAfter(hs, A, doc)[s]
    <3>1. Newest(hs, A, s, doc, v)
      <4> HIDE DEF A
      <4> QED BY <1>7, FoundText
    <3> HIDE DEF v
    <3>2. v = IF s = h.slot THEN h.new ELSE doc[s]
      BY <3>1 DEF Newest
    <3> QED BY <3>2 DEF v
  <2>2. TextAfter(hs, A, doc) = [s \in Slots |-> TextAfter(hs, A, doc)[s]]
    BY DEF TextAfter
  <2> QED BY <2>1, <2>2
<1>10. Sound(TextAfter(hs, A, doc), g, SlotsIn(ss), OldsIn(ss))
  BY <1>3, <1>6, <1>7, <1>8, SoundLanded
<1> QED BY <1>9, <1>10 DEF g

\* Propose is the gate's Offer, of the hunk it writes; what it evicts is forgotten.
LEMMA ProposeG ==
  ASSUME GInv, NEW a \in Agents, NEW c \in Changes, NEW level \in LevelsInUse, NEW s \in Slots,
         NEW delete \in Deletes, NEW answers, Propose(a, c, level, s, delete, answers)
  PROVE  GStep
<1> DEFINE P == Prepared(Ledger, a, c)
           M == ProposeInto(P, a, c, level)
           id == ProposalRun(a, c)
           commit == LandsAtOnce(a, c, level)
<1>1. IInv /\ Clear(text, runs, minted) /\ Tidy(runs, minted) /\ text \in [Slots -> Values]
  BY DEF GInv, IInv, Clear
<1>2. /\ id \in RunIds /\ LedgerOK(M) /\ M.runs[id].status = "open"
      /\ minted' = OpenedBy(a, c)
      /\ \E h \in Hunk : \E N : Writes(a, c, level, s, answers, h, N)
  BY <1>1, ProposedOK DEF OpenedBy
<1>3. PICK h \in Hunk : \E N : Writes(a, c, level, s, answers, h, N)
  BY <1>2
<1>4. PICK N : Writes(a, c, level, s, answers, h, N)
  BY <1>3
<1>5. PICK gone \in SUBSET RunIds : Offers(P.runs, minted, N.runs, OpenedBy(a, c), id, h, gone)
  <2> HIDE DEF id
  <2> QED BY <1>1, <1>2, <1>4, ProposedOffers DEF id
<1> DEFINE rs == P.runs
           ss == N.runs
           I == Len(ss[id].hunks)
           x == <<id, I>>
           gs == OfRuns(gone)
<1>6. LedgerOK(P) /\ LedgerOK(N) /\ Ledger.runs = runs
  BY <1>1, <1>4, PreparedOK DEF IInv, Writes, Ledger
<1>7. AllSame(runs, rs)
  BY <1>1, <1>6, PreparedSame DEF IInv
<1>8. AllSame(ss, runs')
  BY <1>4, <1>6, ScannedSame DEF Writes, SetLedger
<1>9. Clear(text, rs, minted) /\ Tidy(rs, minted) /\ Sound(text, FatesIn(rs, minted), SlotsIn(rs), OldsIn(rs))
  BY <1>1, <1>7, ClearStill DEF Clear
<1>10. /\ ss[id].hunks \in Seq(Hunk) /\ rs[id].hunks \in Seq(Hunk)
       /\ I \in HunkIx /\ h.new \in {Gone, x}
  <2>1. PICK new : /\ RunOK(new) /\ new.hunks = Append(M.runs[id].hunks, h)
                   /\ h.new \in {Gone, <<id, Len(M.runs[id].hunks) + 1>>}
                   /\ N.runs = [M.runs EXCEPT ![id] = new]
    BY <1>4 DEF Writes
  <2>2. M.runs \in [RunIds -> Run] /\ P.runs \in [RunIds -> Run]
    BY <1>2, <1>6, LedgerParts
  <2>3. N.runs[id] = new
    BY <1>2, <2>1, <2>2
  <2>4. M.runs[id].hunks \in Seq(Hunk) /\ P.runs[id].hunks \in Seq(Hunk)
    BY <1>2, <2>2 DEF Run
  <2> HIDE DEF P, M, id
  <2>5. I = Len(M.runs[id].hunks) + 1 /\ Len(M.runs[id].hunks) \in Nat /\ ss[id].hunks \in Seq(Hunk)
    <3> DEFINE hs == M.runs[id].hunks
    <3>1. hs \in Seq(Hunk) /\ ss[id].hunks = Append(hs, h)
      BY <2>1, <2>3, <2>4
    <3> HIDE DEF hs, ss
    <3>2. Append(hs, h) \in Seq(Hunk) /\ Len(Append(hs, h)) = Len(hs) + 1 /\ Len(hs) \in Nat
      BY <3>1
    <3> QED BY <3>1, <3>2 DEF hs
  <2>6. I \in HunkIx
    BY <2>1, <2>3, <2>5, BoundsAssumption DEF RunOK, HunkIx
  <2> QED BY <2>1, <2>4, <2>5, <2>6
<1>11. /\ h.slot = s /\ h.review = level
       /\ h.status = IF commit THEN "auto_applied" ELSE "pending"
       /\ commit => level = "auto" /\ h.old = text[s]
       /\ text' = IF commit THEN [text EXCEPT ![s] = h.new] ELSE text
  BY <1>4 DEF Writes, LandsAtOnce
<1>12. minted' = OpenedBy(a, c) /\ id \in RunIds /\ gone \in SUBSET RunIds
  BY <1>2
<1> HIDE DEF P, M, id, commit, rs, ss, I, x, gs
<1>13. Added(rs, minted, ss, minted', id, h, I)
  BY <1>5, <1>9, <1>10, <1>12, AddedHunk DEF rs, ss, I
<1>14. Offered(rs, minted, ss, minted', x, h, gs)
  BY <1>5, <1>9, <1>12, <1>13, OffersSeen DEF rs, ss, x, gs
<1>15. Tidy(ss, minted')
  BY <1>5, <1>9, <1>10, <1>12, <1>13, OffersTidy DEF rs, ss, x
<1>16. Sound(text', FatesIn(ss, minted'), SlotsIn(ss), OldsIn(ss))
  <2>1. CASE commit
    <3>1. Landed(h) /\ h.old = text[h.slot] /\ text' = [text EXCEPT ![h.slot] = h.new]
      BY <1>11, <2>1 DEF Landed
    <3>2. I \in DOMAIN ss[id].hunks /\ ss[id].hunks[I] = h
      BY <1>13 DEF Added
    <3> QED BY <1>1, <1>9, <1>10, <1>12, <1>14, <3>1, <3>2, LandingSound DEF x
  <2>2. CASE ~commit
    BY <1>9, <1>11, <1>14, <2>2, WaitingSound
  <2> QED BY <2>1, <2>2
<1>17. Clear(text', runs', minted')
  BY <1>8, <1>15, <1>16, StepClear DEF Clear
<1>18. /\ FatesIn(runs, minted) = FatesIn(rs, minted) /\ LevelsIn(runs) = LevelsIn(rs)
       /\ AskersIn(runs) = AskersIn(rs) /\ SignedIn(runs) = SignedIn(rs)
  BY <1>7, SameView
<1>19. /\ FatesIn(runs', minted') = FatesIn(ss, minted') /\ LevelsIn(runs') = LevelsIn(ss)
       /\ AskersIn(runs') = AskersIn(ss) /\ SignedIn(runs') = SignedIn(ss)
  BY <1>8, SameView
<1>20. x \in HunkNames /\ gs \in SUBSET HunkNames
  BY <1>10, <1>12, Pairs DEF x, gs, OfRuns
<1>21. /\ FatesIn(runs', minted')[x] = IF commit THEN "in" ELSE "waiting"
       /\ LevelsIn(runs')[x] = level
  BY <1>11, <1>14, <1>19 DEF Offered, Landed
<1>22. commit => Shows(text, text', {x})
  <2> SUFFICES ASSUME commit, NEW t \in Slots
               PROVE  text'[t] \in {text[t]} \cup (Plain \cup {Gone}) \cup {x}
    BY DEF Shows
  <2>1. text'[t] = IF t = s THEN h.new ELSE text[t]
    BY <1>1, <1>11
  <2> QED BY <1>10, <2>1
<1>23. /\ FatesIn(runs, minted)[x] = "new" /\ x \notin gs
       /\ \A g \in gs : /\ FatesIn(runs, minted)[g] \in {"new", "in", "out"}
                        /\ FatesIn(runs', minted')[g] = "forgotten"
       /\ \A g \in HunkNames \ gs : SignedIn(runs')[g] = SignedIn(runs)[g]
       /\ \A g \in HunkNames \ (gs \cup {x}) :
            /\ FatesIn(runs', minted')[g] = FatesIn(runs, minted)[g]
            /\ FatesIn(runs, minted)[g] # "new" => /\ LevelsIn(runs')[g] = LevelsIn(runs)[g]
                                                   /\ AskersIn(runs')[g] = AskersIn(runs)[g]
  BY <1>14, <1>18, <1>19 DEF Offered
<1>24. Gate!Next
  BY <1>11, <1>20, <1>21, <1>22, <1>23, OfferSeen
<1> QED BY <1>17, <1>24 DEF GStep

-----------------------------------------------------------------------------
(* The specification *)

\* A ledger that was never written shows the gate nothing.
LEMMA InitG == Init => GInv /\ Gate!Init
<1> SUFFICES ASSUME Init PROVE GInv /\ Gate!Init
  OBVIOUS
<1>1. IInv /\ runs = [r \in RunIds |-> Blank] /\ minted = 0 /\ text \in [Slots -> Plain]
  BY InitOK DEF Init
<1>2. \A r \in RunIds : /\ runs[r].hunks = <<>> /\ runs[r].status = "none" /\ runs[r].reverted = FALSE
                        /\ \A i \in HunkIx : runs[r].approvals[i] = None
                        /\ runs[r].agent \in Agents
  <2>1. Anyone \in Agents /\ Blank.agent = Anyone
    BY ReviewerAssumption DEF Anyone, Blank, NewRun
  <2> QED BY <1>1, <2>1, BlankRun
<1>3. \A r \in RunIds : r \in Nat /\ ~(r <= 0)
  BY BoundsAssumption DEF RunIds
<1>4. Tidy(runs, minted)
  BY <1>2 DEF Tidy
<1>5. \A h \in HunkNames : FateIn(runs, minted, h) = "new"
  <2>1. ASSUME NEW r \in RunIds, NEW i \in HunkIx PROVE FateIn(runs, minted, <<r, i>>) = "new"
    <3>1. i \notin DOMAIN runs[r].hunks /\ ~(r <= minted /\ ~(runs[r].status # "none"))
      BY <1>1, <1>2, <1>3
    <3> QED BY <3>1, FateCases
  <2> QED BY <2>1, Pairs
<1>6. FatesIn(runs, minted) = [h \in HunkNames |-> "new"]
  BY <1>5 DEF FatesIn
<1>7. \A s \in Slots : text[s] \notin HunkNames /\ text[s] \in Plain \cup {Gone}
  BY <1>1, TextIsNoName
<1>8. Sound(text, FatesIn(runs, minted), SlotsIn(runs), OldsIn(runs))
  BY <1>6, <1>7 DEF Sound
<1>9. GInv
  BY <1>1, <1>4, <1>8 DEF GInv, Clear
<1>10. LevelsIn(runs) \in [HunkNames -> {"auto", "review", "colleague"}]
  BY <1>2, Pairs DEF LevelsIn
<1>11. AskersIn(runs) \in [HunkNames -> People]
  BY <1>2, Pairs, ReviewerAssumption DEF AskersIn
<1>12. SignedIn(runs) \in [HunkNames -> {{}}]
  BY <1>2, Pairs DEF SignedIn
<1>13. Gate!Init
  BY <1>1, <1>6, <1>10, <1>11, <1>12, GateSees DEF Gate!Init
<1> QED BY <1>9, <1>13

\* Every step, handler or not, is a step of the gate or one it sees nothing of.
LEMMA GStepOK == GInv /\ [Next]_vars => GInv' /\ [Gate!Next]_(Gate!vars)
<1> SUFFICES ASSUME GInv, [Next]_vars PROVE GInv' /\ [Gate!Next]_(Gate!vars)
  OBVIOUS
<1>1. IInv'
  BY StepOK DEF GInv
<1>2. GStep
  <2>1. ASSUME NEW a \in Agents, NEW c \in Changes, NEW level \in LevelsInUse, NEW s \in Slots,
               NEW delete \in Deletes, NEW answers \in SUBSET NotesFor(a),
               Propose(a, c, level, s, delete, answers)
        PROVE  GStep
    BY <2>1, ProposeG
  <2>2. ASSUME NEW a \in Agents, NEW c \in Changes, ProposeNothing(a, c) PROVE GStep
    BY <2>2, ProposeNothingG
  <2>3. ASSUME NEW a \in Agents, ReadBack(a) PROVE GStep
    BY <2>3, ReadBackG
  <2>4. ASSUME NEW r \in RunIds, NEW T \in SUBSET Pending(runs[r]), Reject(r, T) PROVE GStep
    BY <2>4, RejectG
  <2>5. ASSUME NEW r \in RunIds, NEW T \in SUBSET Pending(runs[r]), NEW A \in SUBSET T,
               NEW by \in People, NEW itemLevel \in LevelsInUse, Accept(r, T, A, by, itemLevel)
        PROVE  GStep
    BY <2>5, AcceptG
  <2>6. ASSUME NEW r \in RunIds, NEW note \in BOOLEAN, Revert(r, note) PROVE GStep
    BY <2>6, RevertG
  <2>7. ASSUME NEW r \in RunIds, NEW T \in SUBSET DOMAIN runs[r].hunks, Undo(r, T) PROVE GStep
    BY <2>7, UndoG
  <2>8. ASSUME NEW r \in RunIds, Ack(r) PROVE GStep
    BY <2>8, AckG
  <2>9. ASSUME NEW r \in RunIds,
               GoesIdle(r) \/ (\E i \in DOMAIN runs[r].hunks : FeedbackAges(r, i)) \/ GoesOld(r)
        PROVE  GStep
    BY <2>9, ClockG
  <2>10. ASSUME NEW s \in Slots, NEW v \in Typed, PersonEdits(s, v) PROVE GStep
    BY <2>10, PersonEditsG
  <2>11. ASSUME UNCHANGED vars PROVE GStep
    <3>1. AllSame(runs, runs') /\ UNCHANGED <<text, minted>>
      BY <2>11 DEF vars, AllSame, SameFate, SameHunk
    <3> QED BY <3>1, StutterSeen DEF GStep
  <2> QED BY <2>1, <2>2, <2>3, <2>4, <2>5, <2>6, <2>7, <2>8, <2>9, <2>10, <2>11 DEF Next
<1> QED BY <1>1, <1>2 DEF GStep, GInv

\* Text of an agent that is shown, or lies under text that landed, landed there itself and was not
\* taken out, and lies in one place (the conjuncts of Sound): so the inverse edits of an undo or a
\* revert, which put back what a hunk once found, never bring back what was turned down.
THEOREM GateInvariant == Spec => []GInv
BY InitG, GStepOK, PTL DEF Spec

\* An agent's text stands in the document only while the ledger says it landed, whatever order hunks
\* were accepted, undone and reverted in (handleRunDecide, handleRunRevert, handleRunUndo).
THEOREM OnlyLandedTextStands == Spec => []OnlyLandedText
<1>1. ASSUME GInv PROVE OnlyLandedText
  <2> SUFFICES ASSUME NEW s \in Slots, NEW r \in RunIds, NEW i \in DOMAIN runs[r].hunks, text[s] = <<r, i>>
               PROVE  Landed(runs[r].hunks[i]) /\ ~runs[r].reverted
    BY DEF OnlyLandedText
  <2>1. i \in HunkIx /\ <<r, i>> \in HunkNames
    <3>1. DOMAIN runs[r].hunks \in SUBSET DOMAIN runs[r].hunks
      OBVIOUS
    <3> QED BY <1>1, <3>1, NamedHunks DEF GInv
  <2>2. FatesIn(runs, minted)[<<r, i>>] \in {"in", "forgotten"}
    BY <1>1, <2>1 DEF GInv, Clear, Sound
  <2>3. FateIn(runs, minted, <<r, i>>) \in {"in", "forgotten"}
    BY <2>1, <2>2 DEF FatesIn
  <2> QED BY <2>1, <2>3, FateCases
<1>2. GInv => OnlyLandedText
  BY <1>1
<1> QED BY <1>2, GateInvariant, PTL

\* Every handler of the ledger is one step of the review gate the docs describe, or changes nothing
\* it speaks of: a hunk's text enters the document with a person's decision or under `auto`, leaves
\* it whole, and no decision touches text that is not in it.
THEOREM LedgerImplementsGate == Spec => ImplementsReviewGate
<1>1. Init => Gate!Init
  BY InitG
<1>2. GInv /\ [Next]_vars => [Gate!Next]_(Gate!vars)
  BY GStepOK
<1> QED BY <1>1, <1>2, GateInvariant, PTL DEF Spec, ImplementsReviewGate, Gate!Spec
=============================================================================
