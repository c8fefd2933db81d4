--------------------------- MODULE SessionManager ---------------------------
(***************************************************************************)
(* The session files of the coding agent: core/session-manager.ts.          *)
(*                                                                         *)
(* Every operation is synchronous, so that one call is one action.  Memory  *)
(* comes first: _appendEntry puts the entry into the index and then writes. *)
(* Nothing is written before the first assistant message; that message      *)
(* creates the file (flag "wx") with everything that came before it.        *)
(*                                                                         *)
(* A write may fail, and may leave a part behind: some of the lines of a    *)
(* whole file, or a piece of one line.  The loader skips what it cannot     *)
(* parse.  An entry is reduced to its place in the tree, its kind, and the  *)
(* target and text of a label; ids are numbers, and the next unused one     *)
(* stands for a random one.  In-memory sessions and the migration of old    *)
(* versions are left out.                                                   *)
(***************************************************************************)
EXTENDS Integers, Sequences, FiniteSets, Filter

CONSTANTS LabelTexts,      \* non-empty label texts
          MaxSessions,     \* bound: session files
          MaxFileEntries,  \* bound: entries made, in all sessions
          WritesFail       \* whether a write may fail

ASSUME ManagerAssumption == MaxSessions \in Nat \ {0}

VARIABLES
  files,        \* per session file: does it exist, its lines, does it end in a piece
  opened,       \* a SessionManager is open
  session,      \* sessionFile, as a number
  named,        \* session files named so far
  made,         \* ids given so far
  fileEntries,  \* without the header, which is always there
  leafId, labelsById, flushed,
  damaged,      \* history: a write of the current session failed or left junk
  headless      \* history: createBranchedSession failed while it wrote its file

managerVars == <<files, opened, session, named, made, fileEntries, leafId, labelsById,
                 flushed, damaged, headless>>

Root       == 0
Unlabelled == "no label"
Mark(kind) == [id |-> Root, parent |-> Root, kind |-> kind, target |-> Root,
               text |-> Unlabelled]
Header     == Mark("header")
Junk       == Mark("junk")
Sessions   == 1..MaxSessions
NoFile     == [exists |-> FALSE, lines |-> <<>>, piece |-> FALSE]

Elements(s)   == {s[i] : i \in 1..Len(s)}
KnownIds      == {e.id : e \in Elements(fileEntries)}
Assistant(s)  == \E e \in Elements(s) : e.kind = "assistant"

(* loadEntriesFromFile: lines that do not parse are skipped; without a       *)
(* header in front there are no entries.                                     *)
Parsed(file)     == Only(file.lines, Elements(file.lines) \ {Junk})
HasHeader(file)  == Parsed(file) # <<>> /\ Parsed(file)[1] = Header
LoadedFrom(file) == Only(file.lines, Elements(file.lines) \ {Header, Junk})

(* Mutant: the cache keeps the last text although the label was cleared.     *)
LabelsOfKept(s) ==
  LET targets == {e.target : e \in {x \in Elements(s) :
                                      x.kind = "label" /\ x.text # Unlabelled}}
      last(t) == CHOOSE k \in 1..Len(s) :
                   /\ s[k].kind = "label" /\ s[k].target = t /\ s[k].text # Unlabelled
                   /\ \A m \in (k+1)..Len(s) :
                        ~(s[m].kind = "label" /\ s[m].target = t /\ s[m].text # Unlabelled)
  IN  [t \in targets |-> s[last(t)].text]

(* _buildIndex: the last label entry of each target that has a text.         *)
LabelsOf(s) ==
  LET sets(t, k) == s[k].kind = "label" /\ s[k].target = t
      last(t) == CHOOSE k \in 1..Len(s) : sets(t, k) /\ \A m \in (k+1)..Len(s) : ~sets(t, m)
      targets == {e.target : e \in {x \in Elements(s) : x.kind = "label"}}
  IN  [t \in {u \in targets : s[last(u)].text # Unlabelled} |-> s[last(t)].text]
LeafOf(s)   == IF s = <<>> THEN Root ELSE s[Len(s)].id

(* getBranch: up the parents until one is missing.                           *)
EntryOf(s, i) == LET k == CHOOSE k \in 1..Len(s) : s[k].id = i IN s[k]
GetBranch(s, from) ==
  LET ids == {e.id : e \in Elements(s)}
      walk[n \in 0..Len(s)] ==
        IF n = 0 THEN IF from \in ids THEN <<EntryOf(s, from)>> ELSE <<>>
        ELSE LET rest == walk[n-1]
             IN  IF rest # <<>> /\ rest[1].parent \in ids
                 THEN <<EntryOf(s, rest[1].parent)>> \o rest ELSE rest
  IN  walk[Len(s)]

(* The messages of buildSessionContext.                                      *)
Context(branch) == Only(branch, {e \in Elements(branch) : e.kind \in {"user", "assistant"}})

-----------------------------------------------------------------------------
(* Writing.  A write is done, or fails without a trace, or leaves a piece.   *)
Outcomes == {"done"} \cup IF WritesFail THEN {"failed", "torn"} ELSE {}

(* appendFileSync: the line joins a piece that an earlier write left.        *)
AppendLine(file, line, outcome) ==
  CASE outcome = "done" /\ file.piece -> [file EXCEPT !.lines = Append(@, Junk), !.piece = FALSE]
    [] outcome = "done" /\ ~file.piece -> [file EXCEPT !.lines = Append(@, line), !.exists = TRUE]
    [] outcome = "torn" -> [file EXCEPT !.piece = TRUE, !.exists = TRUE]
    [] OTHER -> file

(* openSync, then one write per line: what a failure leaves.                 *)
Contents(s) == <<Header>> \o s
WholeFile(s, written) ==
  [exists |-> TRUE, lines |-> SubSeq(Contents(s), 1, written), piece |-> FALSE]
TornFile(s, written) == [WholeFile(s, written) EXCEPT !.piece = TRUE]
Rewrites(s) ==
  {WholeFile(s, Len(s) + 1)}
    \cup IF WritesFail THEN {TornFile(s, n) : n \in 0..Len(s)} ELSE {}

(* Mutant: the first write adds to a file that is already there.             *)
FirstWriteAppends(file, s) ==
  {[f EXCEPT !.lines = file.lines \o @] : f \in Rewrites(s)}

(* The first write of _persist: "wx" throws when the file exists.            *)
FirstWrite(file, s) ==
  IF file.exists THEN {file}
  ELSE Rewrites(s) \cup IF WritesFail THEN {file} ELSE {}

(* Mutant: a first write that is not exclusive.                              *)
PersistRewrites(s, e) ==
  \E f \in Rewrites(s) : /\ files' = [files EXCEPT ![session] = f]
                         /\ flushed' = (f = WholeFile(s, Len(s) + 1))
                         /\ damaged' = (damaged \/ f # WholeFile(s, Len(s) + 1))

(* _persist, for the entries s that end in e.  It leaves flushed as it is    *)
(* when it throws.                                                           *)
Persist(s, e) ==
  LET file == files[session] IN
  \/ /\ flushed
     /\ \E o \in Outcomes :
          /\ files' = [files EXCEPT ![session] = AppendLine(file, e, o)]
          /\ damaged' = (damaged \/ o # "done")
     /\ UNCHANGED flushed
  \/ /\ ~flushed /\ ~Assistant(s)
     /\ UNCHANGED <<files, flushed, damaged>>
  \/ /\ ~flushed /\ Assistant(s)
     /\ \E f \in FirstWrite(file, s) :
          /\ files' = [files EXCEPT ![session] = f]
          /\ flushed' = (f # file /\ ~f.piece)
          /\ damaged' = (damaged \/ f = file \/ f.piece)

(* generateId: one that byId does not hold; none is given twice.             *)
GenerateIds(n) == made + n <= MaxFileEntries /\ made' = made + n

(* _appendEntry                                                              *)
AppendEntry(parent, kind, target, text) ==
  LET e == [id |-> made + 1, parent |-> parent, kind |-> kind,
            target |-> target, text |-> text]
  IN  /\ opened /\ GenerateIds(1)
      /\ fileEntries' = Append(fileEntries, e)
      /\ leafId' = e.id
      /\ Persist(Append(fileEntries, e), e)
      /\ UNCHANGED <<opened, session, named, headless>>

(* appendMessage, and the entries that only carry a payload.                 *)
AppendEntryOf(kind) ==
  /\ AppendEntry(leafId, kind, Root, Unlabelled)
  /\ UNCHANGED labelsById

(* appendLabelChange: the cache changes after _appendEntry, unless it threw. *)
LabelsAfter(target, text) ==
  [t \in (DOMAIN labelsById \cup {target})
           \ (IF text = Unlabelled THEN {target} ELSE {}) |->
     IF t = target THEN text ELSE labelsById[t]]
AppendLabelChange(target, text) ==
  /\ target \in KnownIds
  /\ AppendEntry(leafId, "label", target, text)
  /\ labelsById' = IF ~damaged /\ damaged' THEN labelsById ELSE LabelsAfter(target, text)

(* branch, resetLeaf: the file does not learn of it.                         *)
Branch(target) ==
  /\ opened /\ target \in KnownIds \cup {Root} /\ target # leafId
  /\ leafId' = target
  /\ UNCHANGED <<files, opened, session, named, made, fileEntries, labelsById, flushed,
                 damaged, headless>>

BranchWithSummary(target) ==
  /\ target \in KnownIds \cup {Root}
  /\ AppendEntry(target, "other", Root, Unlabelled)
  /\ UNCHANGED labelsById

-----------------------------------------------------------------------------
(* Sessions.                                                                 *)

(* What newSession and setSessionFile leave in memory.                       *)
Index(s) == /\ fileEntries' = s /\ leafId' = LeafOf(s) /\ labelsById' = LabelsOf(s)

NewSession ==
  /\ named < MaxSessions
  /\ opened' = TRUE /\ session' = named + 1 /\ named' = named + 1
  /\ Index(<<>>) /\ flushed' = FALSE /\ damaged' = FALSE
  /\ UNCHANGED <<files, made, headless>>

(* setSessionFile on a file that exists; one without a header is replaced by *)
(* a new session under the same name, which a manager that was open keeps    *)
(* when it cannot be written.                                                *)
SetSessionFile(s) ==
  /\ files[s].exists
  /\ session' = s /\ UNCHANGED <<named, made, headless>>
  /\ IF HasHeader(files[s])
     THEN /\ opened' = TRUE /\ Index(LoadedFrom(files[s])) /\ flushed' = TRUE
          /\ damaged' = (files[s].piece \/ Junk \in Elements(files[s].lines))
          /\ UNCHANGED files
     ELSE \E f \in Rewrites(<<>>) \cup IF WritesFail THEN {files[s]} ELSE {} :
            LET written == f = WholeFile(<<>>, 1) IN
              /\ files' = [files EXCEPT ![s] = f]
              /\ opened' = (opened \/ written)
              /\ Index(<<>>) /\ flushed' = written /\ damaged' = ~written

Exit ==
  /\ opened /\ opened' = FALSE
  /\ Index(<<>>) /\ flushed' = FALSE /\ damaged' = FALSE
  /\ UNCHANGED <<files, session, named, made, headless>>

(* createBranchedSession: the branch without its labels, then one new label  *)
(* entry for each labelled entry of it.                                      *)
LabelEntries(path) ==
  LET targets == {i \in DOMAIN labelsById : \E e \in Elements(path) : e.id = i}
      nth[n \in 0..Cardinality(targets)] ==
        IF n = 0 THEN <<>>
        ELSE LET done == nth[n-1]
                 t == CHOOSE t \in targets \ {e.target : e \in Elements(done)} :
                        \A u \in targets \ {e.target : e \in Elements(done)} : t <= u
             IN  Append(done,
                   [id |-> made + n,
                    parent |-> LeafOf(path \o done),
                    kind |-> "label", target |-> t, text |-> labelsById[t]])
  IN  nth[Cardinality(targets)]

WithoutLabels(path) == Only(path, {e \in Elements(path) : e.kind # "label"})

(* Mutant: the labels of the whole session go with the branch.               *)
ForkedWithAllLabels(target) ==
  LET path == WithoutLabels(GetBranch(fileEntries, target))
  IN  path \o LabelEntries(fileEntries)

Forked(target) == LET path == WithoutLabels(GetBranch(fileEntries, target))
                  IN  path \o LabelEntries(path)

(* Mutant: the file is written at once, also without an assistant message.   *)
WriteForkAtOnce(s) ==
  \E f \in Rewrites(s) :
     /\ files' = [files EXCEPT ![named + 1] = f]
     /\ flushed' = (~f.piece /\ Assistant(s))
     /\ damaged' = f.piece
     /\ headless' = (headless \/ f.piece)

(* The file is written now only when it holds an assistant message.  A       *)
(* failure leaves flushed as it was for the session that was left.           *)
WriteFork(s) ==
  IF Assistant(s)
  THEN \E f \in Rewrites(s) \cup IF WritesFail THEN {files[named + 1]} ELSE {} :
         /\ files' = [files EXCEPT ![named + 1] = f]
         /\ flushed' = (flushed \/ (f.exists /\ ~f.piece))
         /\ damaged' = (f.piece \/ ~f.exists)
         /\ headless' = (headless \/ f.piece \/ ~f.exists)
  ELSE /\ flushed' = FALSE /\ damaged' = FALSE
       /\ UNCHANGED <<files, headless>>

CreateBranchedSession(target) ==
  /\ opened /\ named < MaxSessions /\ target \in KnownIds
  /\ session' = named + 1 /\ named' = named + 1
  /\ GenerateIds(Len(Forked(target)) - Len(WithoutLabels(GetBranch(fileEntries, target))))
  /\ Index(Forked(target))
  /\ WriteFork(Forked(target))
  /\ UNCHANGED opened

(* forkFrom: a copy of a file with a header of its own, then opened.  A       *)
(* failure leaves what was copied so far.                                    *)
ForkFrom(s) ==
  /\ ~opened /\ named < MaxSessions /\ HasHeader(files[s])
  /\ session' = named + 1 /\ named' = named + 1
  /\ \E f \in Rewrites(LoadedFrom(files[s])) :
       /\ files' = [files EXCEPT ![named + 1] = f]
       /\ IF f.piece THEN UNCHANGED <<opened, fileEntries, leafId, labelsById, flushed, damaged>>
          ELSE opened' = TRUE /\ Index(LoadedFrom(f)) /\ flushed' = TRUE /\ damaged' = FALSE
  /\ UNCHANGED <<made, headless>>

ManagerInit ==
  /\ files = [s \in Sessions |-> NoFile]
  /\ opened = TRUE /\ session = 1 /\ named = 1 /\ made = 0
  /\ fileEntries = <<>> /\ leafId = Root /\ labelsById = LabelsOf(<<>>)
  /\ flushed = FALSE /\ damaged = FALSE /\ headless = FALSE

ManagerNext ==
  \/ \E kind \in {"user", "assistant"} : AppendEntryOf(kind)
  \/ \E target \in KnownIds, text \in LabelTexts \cup {Unlabelled} :
       AppendLabelChange(target, text)
  \/ \E target \in KnownIds \cup {Root} : Branch(target) \/ BranchWithSummary(target)
  \/ NewSession
  \/ \E s \in Sessions : SetSessionFile(s) \/ ForkFrom(s)
  \/ \E target \in KnownIds : CreateBranchedSession(target)
  \/ Exit

ManagerSpec == ManagerInit /\ [][ManagerNext]_managerVars

-----------------------------------------------------------------------------
(* As long as its writes succeed, a session is either wholly in its file or  *)
(* not at all, and it is in its file as soon as an assistant has answered;   *)
(* the label cache, kept step by step, is what a restart would rebuild from  *)
(* that file: whatever branches, forks, restarts and moves came before.      *)
FileMirrorsMemory ==
  (opened /\ ~damaged) =>
    /\ IF flushed THEN files[session] = WholeFile(fileEntries, Len(fileEntries) + 1)
       ELSE ~files[session].exists /\ ~Assistant(fileEntries)
    /\ labelsById = LabelsOf(fileEntries)

(* However writes fail, a file has one header, in front of its entries (a    *)
(* file that createBranchedSession failed to write excepted).                *)
OneHeader ==
  ~headless =>
    \A s \in Sessions : \A i \in 1..Len(files[s].lines) :
      (files[s].lines[i] = Header) <=> (i = 1)

(* However writes fail, a file with a header never loses a line: its lines   *)
(* only grow at the end.                                                     *)
LinesSurvive ==
  [][\A s \in Sessions :
       (files'[s] # files[s] /\ HasHeader(files[s])) =>
         /\ Len(files'[s].lines) >= Len(files[s].lines)
         /\ SubSeq(files'[s].lines, 1, Len(files[s].lines)) = files[s].lines]_managerVars

(* A fork has the labels of the entries it took along and no others.         *)
ForkKeepsLabels ==
  [][\A target \in KnownIds :
       CreateBranchedSession(target) =>
         labelsById' =
           [t \in {i \in DOMAIN labelsById :
                    \E e \in Elements(WithoutLabels(GetBranch(fileEntries, target))) : e.id = i}
              |-> labelsById[t]]]_managerVars

(* A fork gives the model the messages of the path it was taken from.  The   *)
(* code cuts the path at a label entry that lies on it.                      *)
ForkKeepsContext ==
  [][\A target \in KnownIds :
       CreateBranchedSession(target) =>
         Context(GetBranch(fileEntries', leafId'))
           = Context(GetBranch(fileEntries, target))]_managerVars
=============================================================================
