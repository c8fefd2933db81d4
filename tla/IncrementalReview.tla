-------------------------- MODULE IncrementalReview --------------------------
(***************************************************************************)
(* The incremental rule review of packages/resoft-agent-core:               *)
(* rules/diff-tracker.ts keeps, per file, the text and the issues of the    *)
(* last review; rules/incremental-engine.ts checks the lines that changed   *)
(* since then and carries the other issues over.                            *)
(*                                                                         *)
(* A file is a sequence of lines; the text that is "" is one empty line.    *)
(* A rule with a pattern is the set of the texts its expression finds a     *)
(* match in: reviewFile looks for it in the joined lines of a block, where  *)
(* "^" and "$" stand for the ends of the block and a match may go over      *)
(* several lines.  A rule without a pattern flags every changed block.      *)
(* Only the 32-bit hash of a text decides whether it changed: two lines of  *)
(* one length in Twins have the same hash, as "Aa" and "BB" have, and so    *)
(* have the texts around them.                                              *)
(***************************************************************************)
EXTENDS Integers, Sequences, FiniteSets

CONSTANTS ReviewedFiles,
          Lines,         \* lines a file may have, besides the empty one
          Twins,         \* lines the hash cannot tell apart
          Matches,       \* per rule with a pattern: the texts it matches
          PlainRules,    \* warnings without a pattern
          MaxLines       \* bound: lines of a file

EmptyLine == "empty"
Texts == UNION {[1..n -> Lines \cup {EmptyLine}] : n \in 1..MaxLines}

(* The empty line is no line of Lines, nor is the name that Hash gives to    *)
(* Twins.                                                                    *)
ASSUME ReviewAssumption ==
  /\ MaxLines \in Nat
  /\ EmptyLine \notin Lines /\ "twin" \notin Lines /\ Twins \subseteq Lines
  /\ \A r \in DOMAIN Matches : Matches[r] \subseteq Texts

VARIABLES
  snapshot,  \* per file: the text and the issues of its last review
  review,    \* the last IncrementalReviewResult, and what it was given
  together   \* history: per file the pairs of lines last changed in one review

reviewVars == <<snapshot, review, together>>

Rules == DOMAIN Matches \cup PlainRules
NoText == <<>>
Untracked == [text |-> NoText, issues |-> {}]
NoReview == [file |-> "none", before |-> Untracked, emitted |-> {}, issues |-> {}]

ReviewInit ==
  /\ snapshot = [f \in ReviewedFiles |-> Untracked]
  /\ review = NoReview
  /\ together = [f \in ReviewedFiles |-> {}]

Hash(text) == [i \in DOMAIN text |-> IF text[i] \in Twins THEN "twin" ELSE text[i]]

-----------------------------------------------------------------------------
(* DiffTracker.                                                              *)

(* getCachedLines: the empty string counts as no text at all.                *)
CachedLines(text) == IF text = <<EmptyLine>> THEN <<>> ELSE text

(* The positions at which two texts differ.                                  *)
ChangedLines(old, new) ==
  LET longer == IF Len(old) > Len(new) THEN Len(old) ELSE Len(new)
  IN  {i \in 1..longer : i > Len(old) \/ i > Len(new) \/ old[i] # new[i]}

(* Mutant: the block that reaches the end of the file is dropped.            *)
LineDiffWithoutTail(old, new) ==
  LET changed == ChangedLines(old, new)
  IN  {b \in changed \X changed :
         /\ b[1]..b[2] \subseteq changed /\ {b[1] - 1, b[2] + 1} \cap changed = {}
         /\ b[2] < Len(new)}

(* lineDiff: the maximal runs of such positions.                             *)
LineDiff(old, new) ==
  LET changed == ChangedLines(old, new)
  IN  {b \in changed \X changed :
         b[1]..b[2] \subseteq changed /\ {b[1] - 1, b[2] + 1} \cap changed = {}}

(* getChangedBlocks.                                                         *)
ChangedBlocks(was, text) ==
  IF was = NoText THEN {<<1, Len(text)>>}
  ELSE IF Hash(was) = Hash(text) THEN {}
  ELSE LineDiff(CachedLines(was), text)

-----------------------------------------------------------------------------
(* IncrementalRuleEngine.                                                    *)

BlockText(block, text) ==
  SubSeq(text, block[1], IF block[2] < Len(text) THEN block[2] ELSE Len(text))

(* A block whose content has no character is skipped.                        *)
Flags(rule, block, text) ==
  LET content == BlockText(block, text)
  IN  /\ content \notin {<<>>, <<EmptyLine>>}
      /\ rule \in PlainRules \/ content \in Matches[rule]

(* The issues of the changed blocks: one per rule, at the block's first line.*)
Emitted(was, text) ==
  LET flagged == {p \in Rules \X ChangedBlocks(was, text) : Flags(p[1], p[2], text)}
  IN  {[rule |-> p[1], line |-> p[2][1]] : p \in flagged}

(* Every earlier issue that was not found again.                             *)
CarriedOver(old, emitted) == old.issues \ emitted

(* The pairs of lines of the text that one review was the last to change.    *)
Together(was, text, before) ==
  LET changed == UNION {b[1]..b[2] : b \in ChangedBlocks(was, text)}
  IN  {p \in (1..Len(text)) \X (1..Len(text)) :
         {p[1], p[2]} \subseteq changed \/ ({p[1], p[2]} \cap changed = {} /\ p \in before)}

ReviewFrom(f, old, text) ==
  LET emitted == Emitted(old.text, text)
      issues  == emitted \cup CarriedOver(old, emitted)
  IN  /\ snapshot' = [snapshot EXCEPT ![f] = [text |-> text, issues |-> issues]]
      /\ review' = [file |-> f, before |-> old, emitted |-> emitted, issues |-> issues]
      /\ together' = [together EXCEPT ![f] = Together(old.text, text, @)]

ReviewFile(f, text) == ReviewFrom(f, snapshot[f], text)
ReviewFileFull(f, text) == ReviewFrom(f, Untracked, text)

ResetFile(f) ==
  /\ snapshot' = [snapshot EXCEPT ![f] = Untracked]
  /\ UNCHANGED <<review, together>>

Reset ==
  /\ snapshot' = [f \in ReviewedFiles |-> Untracked]
  /\ UNCHANGED <<review, together>>

ReviewNext ==
  \/ \E f \in ReviewedFiles, text \in Texts : ReviewFile(f, text) \/ ReviewFileFull(f, text)
  \/ \E f \in ReviewedFiles : ResetFile(f)
  \/ Reset

ReviewSpec == ReviewInit /\ [][ReviewNext]_reviewVars

-----------------------------------------------------------------------------
HasPart(text, part) == \E a, b \in 1..Len(text) : SubSeq(text, a, b) = part

(* The parts of a file that a rule matches wherever they stand: none for an  *)
(* anchored expression, which depends on what is around them.                *)
SureParts == [r \in DOMAIN Matches |->
  {part \in Texts \ {<<EmptyLine>>} :
     \A text \in Texts : HasPart(text, part) => text \in Matches[r]}]

(* Whatever was reviewed before, and in however many steps a file came to    *)
(* its text: lines that a rule matches wherever they stand, and that the     *)
(* same review was the last to change, have an issue of that rule at or      *)
(* above the first of them.  That only changed lines are checked hides       *)
(* matches of other kinds only: those that depend on the ends of the block,  *)
(* and those that join a changed line to one that was there before.          *)
NoMissedViolation ==
  \A f \in ReviewedFiles, r \in DOMAIN Matches :
    \A a, b \in 1..Len(snapshot[f].text) :
      ({a} \X (a..b) \subseteq together[f] /\ SubSeq(snapshot[f].text, a, b) \in SureParts[r])
        => \E issue \in snapshot[f].issues : issue.rule = r /\ issue.line <= a

(* An issue is carried over only when its line did not change: one whose     *)
(* line was rewritten, and which was not found again, is resolved.           *)
CarriedIssuesUnchanged ==
  \A issue \in review.issues \ review.emitted :
    issue.line \notin ChangedLines(review.before.text, snapshot[review.file].text)
=============================================================================
