--------------------------- MODULE SessionStorage ---------------------------
(***************************************************************************)
(* The session log of packages/agent: harness/session/jsonl-storage.ts      *)
(* (the file, the in-memory index, the current leaf) under the appends of   *)
(* harness/session/session.ts.                                              *)
(*                                                                         *)
(* An append is not one step.  Session.append* awaits createEntryId(), then *)
(* awaits getLeafId(), then awaits fs.appendFile(), and only then updates   *)
(* the in-memory index; nothing serialises two appends.  Each of these      *)
(* stages is an action here, so that everything another caller, a failed    *)
(* write or a crash can do between them is explored.                        *)
(*                                                                         *)
(* Abstractions.  What an entry carries is reduced to its place in the tree *)
(* (id, parentId), its kind, and the target and text of a label or leaf     *)
(* entry.  "entry" stands for the eight kinds that only carry a payload.    *)
(* The header line is left out: it is written once, before any append.      *)
(***************************************************************************)
EXTENDS Integers, Sequences, FiniteSets, FiniteSetsExt

CONSTANTS Writers,      \* concurrent callers of Session's append methods
          Labels,       \* non-empty label texts
          MaxEntries,   \* bound: lines appended or being appended
          MaxWindow     \* bound: how often the id prefix changes

ASSUME StorageBounds == MaxEntries \in Nat /\ MaxWindow \in Nat

NoLabel == "no label"
ASSUME LabelsAreTexts == NoLabel \notin Labels

VARIABLES
  disk,     \* the entry lines of the file, in file order
  tail,     \* "torn" when the file ends in a partial line, "unended" when its last
            \* line lacks only the newline
  garbled,  \* a whole line has been joined with something else: it cannot be parsed
  up,       \* a JsonlSessionStorage is open on the file
  entries,  \* JsonlSessionStorage.entries, in commit order
  leaf,     \* JsonlSessionStorage.currentLeafId
  labels,   \* JsonlSessionStorage.labelsById
  window,   \* the first 32 bits of a uuidv7: they change every 65.5 seconds
  pc,       \* where each caller is in its append
  draft,    \* the entry each caller is building or writing
  summarise,\* whether the caller's moveTo was given a summary
  overlapped \* history: two appends have been under way at the same time

vars == <<disk, tail, garbled, up, entries, leaf, labels, window,
          pc, draft, summarise, overlapped>>

-----------------------------------------------------------------------------
(* Ids.  generateEntryId takes the first eight characters of a uuidv7, which *)
(* are the upper bits of the clock, and falls back to a whole uuid when that *)
(* prefix is already in byId.  The set has one member: whole uuids never     *)
(* repeat, so the lowest number that is not in use stands for the next one.  *)

ShortId(n) == <<"short", n>>
LongId(n)  == <<"long", n>>
NullId     == <<"null", 0>>
Ids        == {"short", "long"} \X Nat

EntryKinds == {"entry", "label", "leaf", "branch_summary"}

Entry == [id     : Ids,
          parent : Ids \cup {NullId},
          kind   : EntryKinds,
          target : Ids \cup {NullId},
          text   : Labels \cup {NoLabel}]

EntriesOf(s) == {s[i] : i \in 1..Len(s)}
IdsOf(s)     == {s[i].id : i \in 1..Len(s)}

(* The key set of byId.                                                      *)
ById == IdsOf(entries)

(* Mutant: generateEntryId without the look into byId.                       *)
GenerateEntryIdUnchecked == {ShortId(window)}

GenerateEntryId ==
  IF ShortId(window) \notin ById THEN {ShortId(window)}
  ELSE LET used == IdsOf(disk) \cup ById \cup {draft[w].id : w \in Writers}
           numbers == 0..(2 * MaxEntries + Cardinality(Writers))
           free == {n \in numbers : LongId(n) \notin used}
       IN  {LongId(n) : n \in {k \in free : \A m \in free : k <= m}}

LeafIdAfterEntry(e) == IF e.kind = "leaf" THEN e.target ELSE e.id

(* Mutant: loadJsonlStorage takes every entry for the leaf itself.           *)
LeafIdAfterIgnoringMoves(s) == IF s = <<>> THEN NullId ELSE s[Len(s)].id

LeafIdAfter(s) == IF s = <<>> THEN NullId ELSE LeafIdAfterEntry(s[Len(s)])

(* Mutant: updateLabelCache does not look at the type of the entry.          *)
UpdateLabelCacheOfAny(cache, e) ==
  [i \in DOMAIN cache \cup {e.target} |-> IF i = e.target THEN e.text ELSE cache[i]]

(* updateLabelCache: a label entry with a text sets the target's label, one  *)
(* without removes it.                                                       *)
UpdateLabelCache(cache, e) ==
  IF e.kind # "label" THEN cache
  ELSE [i \in (DOMAIN cache \cup {e.target}) \ (IF e.text = NoLabel THEN {e.target} ELSE {})
          |-> IF i = e.target THEN e.text ELSE cache[i]]

(* The label entries of a target.                                            *)
LabelLines(s, i) == {k \in 1..Len(s) : s[k].kind = "label" /\ s[k].target = i}

(* buildLabelsById: the cache after all entries have gone through it, which  *)
(* is the text of the last label entry of each target, if it has one.        *)
BuildLabelsById(s) ==
  LET last(i)  == Max(LabelLines(s, i))
      labelled == {s[k].target : k \in {m \in 1..Len(s) : s[m].kind = "label"}}
  IN  [i \in {j \in labelled : s[last(j)].text # NoLabel} |-> s[last(i)].text]

-----------------------------------------------------------------------------
Idle == {w \in Writers : pc[w] = "idle"}

RoomFor(n) == /\ Len(disk) + Cardinality(Writers \ Idle) + n <= MaxEntries
              /\ Len(entries) + Cardinality(Writers \ Idle) + n <= MaxEntries

EmptyDraft == [id |-> ShortId(0), parent |-> NullId, kind |-> "entry",
               target |-> NullId, text |-> NoLabel]

Init ==
  /\ disk = <<>> /\ tail = "clean" /\ garbled = FALSE /\ up = TRUE
  /\ entries = <<>> /\ leaf = NullId /\ labels = [i \in {} |-> NoLabel]
  /\ window = 0
  /\ pc = [w \in Writers |-> "idle"]
  /\ draft = [w \in Writers |-> EmptyDraft]
  /\ summarise = [w \in Writers |-> FALSE]
  /\ overlapped = FALSE

(* The caller's promise settles.                                             *)
Return(w) ==
  /\ pc' = [pc EXCEPT ![w] = "idle"]
  /\ draft' = [draft EXCEPT ![w] = EmptyDraft]
  /\ summarise' = [summarise EXCEPT ![w] = FALSE]

(* Session.append* : the first await, createEntryId.                         *)
BeginAppend(w, e) ==
  /\ up /\ pc[w] = "idle" /\ RoomFor(1)
  /\ \E i \in GenerateEntryId : draft' = [draft EXCEPT ![w] = [e EXCEPT !.id = i]]
  /\ pc' = [pc EXCEPT ![w] = "leaf"]
  /\ overlapped' = (overlapped \/ Idle # Writers)
  /\ UNCHANGED <<disk, tail, garbled, up, entries, leaf, labels, window, summarise>>

AppendMessage(w) == BeginAppend(w, EmptyDraft)

(* appendLabel checks its target first, and throws when it is unknown.       *)
AppendLabel(w, target, text) ==
  /\ target \in ById
  /\ BeginAppend(w, [EmptyDraft EXCEPT !.kind = "label", !.target = target, !.text = text])

(* Mutants: the parent is the last entry, and the leaf is moved before the   *)
(* line is in the file.                                                      *)
GetLastEntryId(w) ==
  /\ up /\ pc[w] = "leaf"
  /\ draft' = [draft EXCEPT ![w].parent =
                 IF entries = <<>> THEN NullId ELSE entries[Len(entries)].id]
  /\ pc' = [pc EXCEPT ![w] = "file"]
  /\ UNCHANGED <<disk, tail, garbled, up, entries, leaf, labels, window, summarise, overlapped>>

GetLeafIdAndMove(w) ==
  /\ up /\ pc[w] = "leaf"
  /\ draft' = [draft EXCEPT ![w].parent = leaf]
  /\ leaf' = draft[w].id
  /\ pc' = [pc EXCEPT ![w] = "file"]
  /\ UNCHANGED <<disk, tail, garbled, up, entries, labels, window, summarise, overlapped>>

(* The second await: the parent is the leaf at this moment.  getLeafId       *)
(* throws when the leaf is unknown; LeafKnown says that it never is.         *)
GetLeafId(w) ==
  /\ up /\ pc[w] = "leaf"
  /\ leaf \in ById \cup {NullId}
  /\ draft' = [draft EXCEPT ![w].parent = leaf]
  /\ pc' = [pc EXCEPT ![w] = "file"]
  /\ UNCHANGED <<disk, tail, garbled, up, entries, leaf, labels, window, summarise, overlapped>>

(* moveTo and setLeafId up to its appendFile: one step, nothing is awaited   *)
(* between the check of the target and the leaf entry's parent.              *)
MoveTo(w, target, withSummary) ==
  /\ up /\ pc[w] = "idle" /\ RoomFor(IF withSummary THEN 2 ELSE 1)
  /\ target \in ById \cup {NullId}
  /\ \E i \in GenerateEntryId :
        draft' = [draft EXCEPT ![w] = [id |-> i, parent |-> leaf, kind |-> "leaf",
                                       target |-> target, text |-> NoLabel]]
  /\ summarise' = [summarise EXCEPT ![w] = withSummary]
  /\ pc' = [pc EXCEPT ![w] = "file"]
  /\ overlapped' = (overlapped \/ Idle # Writers)
  /\ UNCHANGED <<disk, tail, garbled, up, entries, leaf, labels, window>>

(* appendFile succeeds.  After a write that left no newline the line joins   *)
(* what is there, and neither can be parsed any more.                        *)
AppendFile(w) ==
  /\ up /\ pc[w] = "file"
  /\ IF tail = "clean" THEN disk' = Append(disk, draft[w]) /\ UNCHANGED <<tail, garbled>>
                       ELSE garbled' = TRUE /\ tail' = "clean" /\ UNCHANGED disk
  /\ pc' = [pc EXCEPT ![w] = "commit"]
  /\ UNCHANGED <<up, entries, leaf, labels, window, draft, summarise, overlapped>>

(* What a write that is cut off leaves: nothing, a piece of the line, or all *)
(* of it but the newline (a piece, when it goes behind another one).         *)
CutOffs == {"nothing", "piece", "line"}
CutOff(left, line) ==
  \/ left = "nothing" /\ UNCHANGED <<disk, tail, garbled>>
  \/ /\ left = "piece"
     /\ tail' = "torn" /\ garbled' = (garbled \/ tail = "unended") /\ UNCHANGED disk
  \/ /\ left = "line" /\ tail = "clean"
     /\ disk' = Append(disk, line) /\ tail' = "unended" /\ UNCHANGED garbled

(* Mutant: a failed write is taken for a successful one.                     *)
AppendFileFailsUnnoticed(w, left) ==
  /\ up /\ pc[w] = "file"
  /\ CutOff(left, draft[w])
  /\ pc' = [pc EXCEPT ![w] = "commit"]
  /\ UNCHANGED <<up, entries, leaf, labels, window, draft, summarise, overlapped>>

(* appendFile fails and the caller gets a SessionError.                      *)
AppendFileFails(w, left) ==
  /\ up /\ pc[w] = "file"
  /\ CutOff(left, draft[w])
  /\ Return(w)
  /\ UNCHANGED <<up, entries, leaf, labels, window, overlapped>>

(* The continuation of appendFile in appendEntry and setLeafId, and for a    *)
(* moveTo with a summary the createEntryId that follows.                     *)
Commit(w) ==
  /\ up /\ pc[w] = "commit"
  /\ entries' = Append(entries, draft[w])
  /\ labels' = UpdateLabelCache(labels, draft[w])
  /\ leaf' = LeafIdAfterEntry(draft[w])
  /\ IF summarise[w] THEN /\ pc' = [pc EXCEPT ![w] = "summary"]
                          /\ UNCHANGED <<draft, summarise>>
                     ELSE Return(w)
  /\ UNCHANGED <<disk, tail, garbled, up, window, overlapped>>

(* The summary entry of moveTo hangs below the entry moved to, whatever the  *)
(* leaf is by now.                                                           *)
BranchSummary(w) ==
  /\ up /\ pc[w] = "summary"
  /\ \E i \in GenerateEntryId :
        draft' = [draft EXCEPT ![w] = [id |-> i, parent |-> draft[w].target,
                                       kind |-> "branch_summary", target |-> NullId,
                                       text |-> NoLabel]]
  /\ pc' = [pc EXCEPT ![w] = "file"]
  /\ summarise' = [summarise EXCEPT ![w] = FALSE]
  /\ UNCHANGED <<disk, tail, garbled, up, entries, leaf, labels, window, overlapped>>

(* The process dies; a write that was under way is cut off.  (What dies with *)
(* a line in the file has written it before: AppendFile, AppendFileFails.)   *)
Crash ==
  /\ up
  /\ up' = FALSE
  /\ \/ UNCHANGED <<disk, tail, garbled>>
     \/ \E w \in Writers : pc[w] = "file" /\ CutOff("piece", draft[w])
  /\ entries' = <<>> /\ leaf' = NullId /\ labels' = [i \in {} |-> NoLabel]
  /\ pc' = [w \in Writers |-> "idle"]
  /\ draft' = [w \in Writers |-> EmptyDraft]
  /\ summarise' = [w \in Writers |-> FALSE]
  /\ UNCHANGED <<window, overlapped>>

(* Mutant: lines that cannot be parsed are skipped on open.                  *)
OpenSkipsBadLines ==
  /\ ~up
  /\ up' = TRUE
  /\ entries' = disk
  /\ leaf' = LeafIdAfter(disk)
  /\ labels' = BuildLabelsById(disk)
  /\ UNCHANGED <<disk, tail, garbled, window, pc, draft, summarise, overlapped>>

(* JsonlSessionStorage.open: loadJsonlStorage throws on the first line it    *)
(* cannot parse, so that a torn or garbled file stays closed; it does not    *)
(* miss a newline at the end.                                                *)
Open ==
  /\ ~up /\ ~garbled /\ tail # "torn"
  /\ up' = TRUE
  /\ entries' = disk
  /\ leaf' = LeafIdAfter(disk)
  /\ labels' = BuildLabelsById(disk)
  /\ UNCHANGED <<disk, tail, garbled, window, pc, draft, summarise, overlapped>>

(* The clock moves on to the next id prefix.                                 *)
NextWindow ==
  /\ window < MaxWindow
  /\ window' = window + 1
  /\ UNCHANGED <<disk, tail, garbled, up, entries, leaf, labels, pc, draft, summarise, overlapped>>

Step(w) ==
  \/ AppendMessage(w)
  \/ \E target \in ById, text \in Labels \cup {NoLabel} : AppendLabel(w, target, text)
  \/ \E target \in ById \cup {NullId}, s \in BOOLEAN : MoveTo(w, target, s)
  \/ GetLeafId(w)
  \/ AppendFile(w)
  \/ \E left \in CutOffs : AppendFileFails(w, left)
  \/ Commit(w)
  \/ BranchSummary(w)

Next == (\E w \in Writers : Step(w)) \/ Crash \/ Open \/ NextWindow

Spec == Init /\ [][Next]_vars

-----------------------------------------------------------------------------
(* Type invariant.                                                           *)
TypeOK ==
  /\ disk \in Seq(Entry) /\ entries \in Seq(Entry)
  /\ tail \in {"clean", "torn", "unended"} /\ garbled \in BOOLEAN /\ up \in BOOLEAN
  /\ leaf \in Ids \cup {NullId}
  /\ DOMAIN labels \subseteq Ids
  /\ window \in Nat
  /\ pc \in [Writers -> {"idle", "leaf", "file", "commit", "summary"}]
  /\ draft \in [Writers -> Entry]
  /\ summarise \in [Writers -> BOOLEAN]
  /\ overlapped \in BOOLEAN

(* Whatever the interleaving of appends and wherever the process dies, every *)
(* entry of the file names a parent (and a label or leaf entry a target)     *)
(* that is on an earlier line: a file that can be read holds no dangling     *)
(* reference, at any moment (getPathToRoot's invalid_session cannot happen). *)
RefersBack(s, i) ==
  \A r \in {s[i].parent, s[i].target} \ {NullId} : \E j \in 1..(i-1) : s[j].id = r
DiskRefersBack == ~garbled => \A i \in 1..Len(disk) : RefersBack(disk, i)

(* An entry is in memory only after its line is in the file: what a caller   *)
(* was told is appended survives a crash, unless a line was joined to it.    *)
CommittedIsPersisted == ~garbled => EntriesOf(entries) \subseteq EntriesOf(disk)

(* The current leaf is always an entry of the index, so that getLeafId never *)
(* throws and a new entry never hangs in the air.                            *)
LeafKnown == leaf \in ById \cup {NullId}

(* What makes the three invariants above inductive: drafts refer to entries  *)
(* of the index, a line waiting for its commit is in the file, labels have   *)
(* targets, and a closed storage has no append under way.                    *)
Strengthening ==
  /\ \A w \in Writers :
       /\ draft[w].target \in ById \cup {NullId}
       /\ pc[w] \in {"file", "commit"} => draft[w].parent \in ById \cup {NullId}
       /\ pc[w] = "commit" /\ ~garbled => draft[w] \in EntriesOf(disk)
       /\ draft[w].kind = "label" => draft[w].target # NullId
       /\ ~up => pc[w] = "idle"
       /\ pc[w] = "idle" => draft[w] = EmptyDraft
  /\ \A i \in 1..Len(disk) : disk[i].kind = "label" => disk[i].target # NullId
IndInv == /\ TypeOK /\ DiskRefersBack /\ CommittedIsPersisted /\ LeafKnown
          /\ Strengthening

(* With no append under way and an intact file, closing and opening the file *)
(* gives back the same entries, leaf and labels, as long as the appends came *)
(* one at a time.                                                            *)
ReopenRestores ==
  (up /\ Idle = Writers /\ ~garbled /\ tail = "clean" /\ ~overlapped)
    => /\ entries = disk
       /\ leaf = LeafIdAfter(disk)
       /\ labels = BuildLabelsById(disk)

(* Appends that come one at a time: a message or label continues the branch  *)
(* that is current when it is committed; nothing appended before drops off   *)
(* the path to the root, in spite of failures, moves and reopening.          *)
AppendContinuesBranch ==
  [][\A w \in Writers :
       (/\ ~overlapped /\ pc[w] = "commit" /\ pc'[w] = "idle"
        /\ draft[w].kind \in {"entry", "label"})
         => draft[w].parent = leaf]_vars

(* No two entries of the index share an id and no entry is its own ancestor: *)
(* getPathToRoot ends for every entry, as long as the appends came one at a  *)
(* time (two at a time may draw the same short id).  There are cycles where  *)
(* some ids have all their parents among themselves.                         *)
ParentsOf(s, i) == {s[k].parent : k \in {m \in 1..Len(s) : s[m].id = i}}
DistinctIds(s)  == \A i, j \in 1..Len(s) : s[i].id = s[j].id => i = j
NoCycle(s) ==
  \A ids \in SUBSET IdsOf(s) : ids # {} => \E i \in ids : ParentsOf(s, i) \cap ids = {}
PathsEnd == ~overlapped => DistinctIds(entries) /\ NoCycle(entries)

-----------------------------------------------------------------------------
(* The file and the index implement the abstract session log: what is shown  *)
(* is durable, what is durable refers back, and a file with a torn or a      *)
(* garbled line is never opened.                                             *)
Log == INSTANCE SessionLog
         WITH Root <- NullId, log <- disk, shown <- entries, open <- up,
              damaged <- garbled \/ tail = "torn"
ImplementsSessionLog == Log!Spec
=============================================================================
