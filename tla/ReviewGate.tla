----------------------------- MODULE ReviewGate -----------------------------
(* What review promises for one document, with no runs, queues or lists:    *)
(* every hunk an agent proposes has one fate, and the document shows its    *)
(* text only while that fate is "in".  docs/architecture.md, "Agent edits": *)
(* nothing lands a waiting hunk except a person's decision, and at          *)
(* `colleague` never the person the agent works for.                        *)
EXTENDS FiniteSets

CONSTANTS
  Slots,   \* passages of the document
  Typed,   \* what a person may make of a passage, the deleted one included
  Hunks,   \* every hunk that may ever be proposed; also the text it writes
  People

VARIABLES
  text,    \* what each passage shows
  fate,    \* where each hunk stands
  level,   \* the level each hunk was proposed at
  asker,   \* the person whose agent proposed it
  signed   \* who let it in at `colleague`

vars == <<text, fate, level, asker, signed>>

Fates == {"new", "waiting", "in", "out", "forgotten"}
In(f) == {h \in Hunks : f[h] = "in"}
\* The hunks that go from one of the fates From to another.
Moved(From, to) == {h \in Hunks : fate[h] \in From /\ fate'[h] = to /\ fate'[h] # fate[h]}
Only(H) == \A h \in Hunks \ H : fate'[h] = fate[h]
\* A passage changes only to the text of one of the hunks H, or to nobody's.
ShowsOnly(H) == \A s \in Slots : text'[s] \in {text[s]} \cup Typed \cup H

Init ==
  /\ text \in [Slots -> Typed]
  /\ fate = [h \in Hunks |-> "new"]
  /\ level \in [Hunks -> {"auto", "review", "colleague"}]
  /\ asker \in [Hunks -> People]
  /\ signed \in [Hunks -> {{}}]

\* A hunk is proposed: it waits, or at `auto` lands at once.  Decided hunks may be forgotten to
\* make room for it (and the names beside them never used); a waiting one never.
Offer(h) ==
  LET gone == Moved({"new", "in", "out"}, "forgotten") IN
  /\ fate[h] = "new" /\ fate'[h] \in {"waiting", "in"}
  /\ Only(gone \cup {h})
  /\ fate'[h] = "in" => level'[h] = "auto"
  /\ IF fate'[h] = "in" THEN ShowsOnly({h}) ELSE text' = text
  /\ \A g \in Hunks \ gone : fate[g] # "new" => level'[g] = level[g] /\ asker'[g] = asker[g]
  /\ \A g \in Hunks \ gone : signed'[g] = signed[g]

\* A person lets waiting hunks in; those that no longer fit go out.
LetIn(by) ==
  LET H == Moved({"waiting"}, "in")
      misfits == Moved({"waiting"}, "out")
  IN
  /\ H \cup misfits # {} /\ Only(H \cup misfits)
  /\ \A h \in H : level[h] = "colleague" => by # asker[h] /\ signed'[h] = {by}
  /\ ShowsOnly(H)
  /\ UNCHANGED <<level, asker>>
  /\ \A g \in Hunks \ (H \cup misfits) : signed'[g] = signed[g]

\* A person turns waiting hunks down: the document is not touched.
TurnDown ==
  LET H == Moved({"waiting"}, "out") IN
  /\ H # {} /\ Only(H) /\ UNCHANGED <<text, level, asker, signed>>

\* A decision is taken back: hunks wait again, or are out for good; none of their text stays, and
\* what stood there before may be the text of a hunk whose run was forgotten since.
TakeBack ==
  LET again == Moved({"in", "out"}, "waiting")
      out == Moved({"in", "waiting"}, "out")
      H == again \cup out
  IN
  /\ H # {} /\ Only(H)
  /\ again = {} \/ out = {}
  /\ \A s \in Slots : text'[s] # text[s] => text[s] \in H \cup Typed
  /\ ShowsOnly(In(fate') \cup {h \in Hunks : fate[h] = "forgotten"})
  /\ \A s \in Slots : text'[s] \notin H
  /\ UNCHANGED <<level, asker>>
  /\ \A h \in again : signed'[h] = {}
  /\ \A g \in Hunks \ again : signed'[g] = signed[g]

\* A person writes in the editor.
Write ==
  /\ \E s \in Slots, v \in Typed : text' = [text EXCEPT ![s] = v]
  /\ UNCHANGED <<fate, level, asker, signed>>

\* Every step but a person's writing moves a hunk.
Next ==
  \/ /\ fate' # fate
     /\ \/ \E h \in Hunks : Offer(h)
        \/ \E by \in People : LetIn(by)
        \/ TurnDown
        \/ TakeBack
  \/ Write

Spec == Init /\ [][Next]_vars
=============================================================================
