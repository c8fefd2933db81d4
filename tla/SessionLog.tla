----------------------------- MODULE SessionLog -----------------------------
(***************************************************************************)
(* What a session log promises, whatever file and index lie behind it: a    *)
(* tree of entries that only grows, whose lines refer to earlier lines; an  *)
(* open session shows only entries that are in the log; closing loses       *)
(* nothing; and a log that a torn write damaged is never opened again as    *)
(* if it were whole.  SessionStorage implements it.                         *)
(***************************************************************************)
EXTENDS Naturals, Sequences

CONSTANT Root   \* the parent of a first entry, the target of an entry without one

VARIABLES
  log,      \* the durable entries, in the order they were written
  shown,    \* the entries an open session shows, in the order it learnt them
  open,     \* somebody has the log open
  damaged   \* a write was torn

logVars == <<log, shown, open, damaged>>

References(e) == {e.parent, e.target} \ {Root}
Logged(s)     == {s[i].id : i \in 1..Len(s)}

Init == log = <<>> /\ shown = <<>> /\ open = TRUE /\ damaged = FALSE

(* One entry becomes durable; it refers to entries that already are.         *)
Write ==
  /\ open
  /\ Len(log') = Len(log) + 1
  /\ log' = Append(log, log'[Len(log) + 1])
  /\ ~damaged => References(log'[Len(log) + 1]) \subseteq Logged(log)
  /\ UNCHANGED <<shown, open, damaged>>

(* The session shows one more entry, which is durable.                       *)
Show ==
  /\ open
  /\ Len(shown') = Len(shown) + 1
  /\ shown' = Append(shown, shown'[Len(shown) + 1])
  /\ ~damaged => \E i \in 1..Len(log) : log[i] = shown'[Len(shown) + 1]
  /\ UNCHANGED <<log, open, damaged>>

Tear == open /\ damaged' = TRUE /\ UNCHANGED <<log, shown, open>>

Close ==
  /\ open /\ open' = FALSE /\ shown' = <<>>
  /\ damaged' \in {damaged, TRUE}
  /\ UNCHANGED log

Reopen ==
  /\ ~open /\ ~damaged /\ open' = TRUE /\ shown' = log
  /\ UNCHANGED <<log, damaged>>

Next == Write \/ Show \/ Tear \/ Close \/ Reopen

Spec == Init /\ [][Next]_logVars
=============================================================================
