------------------------ MODULE SessionStorageProofs ------------------------
(***************************************************************************)
(* For any number of concurrent writers, any labels and any bounds: the     *)
(* type invariant of SessionStorage, and that the session file never holds  *)
(* a dangling reference, that memory never runs ahead of the file, and that *)
(* the current leaf is always known (IndInv is the inductive invariant);    *)
(* that the storage implements the abstract log; and, for appends that come *)
(* one at a time, that reopening restores the index, that paths to the root *)
(* end and that a branch is continued (SerialInv).                          *)
(***************************************************************************)
EXTENDS SessionStorage, WellFoundedInduction, TLAPS

-----------------------------------------------------------------------------
(* Facts about the helpers.                                                  *)

(* NullId is the id of no entry.                                             *)
LEMMA NullIdIsNoId == NullId \notin Ids
BY DEF NullId, Ids

(* generateEntryId gives an id.                                              *)
LEMMA GeneratedIds == ASSUME window \in Nat PROVE GenerateEntryId \subseteq Ids
<1>1. ShortId(window) \in Ids
  BY DEF ShortId, Ids
<1>2. \A n \in Nat : LongId(n) \in Ids
  BY DEF LongId, Ids
<1> QED
  BY <1>1, <1>2 DEF GenerateEntryId

(* The entries and the ids of a sequence with one more entry.                *)
LEMMA Appended ==
  ASSUME NEW s \in Seq(Entry), NEW e \in Entry
  PROVE  /\ Append(s, e) \in Seq(Entry)
         /\ EntriesOf(Append(s, e)) = EntriesOf(s) \cup {e}
         /\ IdsOf(Append(s, e)) = IdsOf(s) \cup {e.id}
<1>1. /\ Append(s, e) \in Seq(Entry)
      /\ Len(Append(s, e)) = Len(s) + 1
      /\ \A i \in 1..Len(s) : Append(s, e)[i] = s[i]
      /\ Append(s, e)[Len(s) + 1] = e
      /\ Len(s) \in Nat
  OBVIOUS
<1>2. 1..(Len(s) + 1) = 1..Len(s) \cup {Len(s) + 1}
  BY <1>1
<1> QED
  BY <1>1, <1>2 DEF EntriesOf, IdsOf

(* More entries have more ids.                                               *)
LEMMA IdsMonotone ==
  ASSUME NEW s, NEW t, EntriesOf(s) \subseteq EntriesOf(t)
  PROVE  IdsOf(s) \subseteq IdsOf(t)
BY DEF EntriesOf, IdsOf

(* The ids of entries are ids.                                               *)
LEMMA IdsAreIds == ASSUME NEW s \in Seq(Entry) PROVE IdsOf(s) \subseteq Ids
<1>1. \A i \in 1..Len(s) : s[i] \in Entry
  OBVIOUS
<1> QED
  BY <1>1 DEF IdsOf, Entry

(* A label entry keeps the keys of the label cache ids.                      *)
LEMMA UpdatedKeys ==
  ASSUME NEW cache, DOMAIN cache \subseteq Ids, NEW e \in Entry,
         e.kind = "label" => e.target # NullId
  PROVE  DOMAIN UpdateLabelCache(cache, e) \subseteq Ids
BY DEF UpdateLabelCache, Entry

(* Rebuilding the label cache from a file gives ids as keys.                 *)
LEMMA RebuiltKeys ==
  ASSUME NEW s \in Seq(Entry),
         \A i \in 1..Len(s) : s[i].kind = "label" => s[i].target # NullId
  PROVE  DOMAIN BuildLabelsById(s) \subseteq Ids
<1> DEFINE labelled == {s[k].target : k \in {m \in 1..Len(s) : s[m].kind = "label"}}
<1>1. \A i \in 1..Len(s) : s[i] \in Entry
  OBVIOUS
<1>2. labelled \subseteq Ids
  BY <1>1 DEF Entry
<1>3. DOMAIN BuildLabelsById(s) \subseteq labelled
  BY DEF BuildLabelsById
<1> QED
  BY <1>2, <1>3

(* The draft of a caller that has none is an entry.                          *)
LEMMA EmptyDraftType ==
  /\ EmptyDraft \in Entry
  /\ EmptyDraft.kind = "entry" /\ EmptyDraft.target = NullId
BY DEF EmptyDraft, Entry, ShortId, NullId, Ids, EntryKinds

-----------------------------------------------------------------------------
(* The inductive invariant.                                                  *)

(* Every first state satisfies IndInv.                                       *)
LEMMA InitInd == Init => IndInv
<1> SUFFICES ASSUME Init PROVE IndInv
  OBVIOUS
<1>1. /\ disk = <<>> /\ entries = <<>> /\ leaf = NullId
      /\ disk \in Seq(Entry) /\ entries \in Seq(Entry)
      /\ Len(disk) = 0 /\ Len(entries) = 0
  BY DEF Init
<1>2. TypeOK
  BY <1>1, EmptyDraftType DEF Init, TypeOK
<1>3. DiskRefersBack /\ LeafKnown
  BY <1>1 DEF DiskRefersBack, LeafKnown
<1>4. CommittedIsPersisted
  BY <1>1 DEF CommittedIsPersisted, EntriesOf
<1>5. Strengthening
  BY <1>1, EmptyDraftType DEF Init, Strengthening
<1> QED
  BY <1>2, <1>3, <1>4, <1>5 DEF IndInv

(* What every write does to the file, whether it is cut off or not: no line  *)
(* of it is lost, and it stays closed as long as it is not garbled.          *)
FileGrows ==
  /\ disk' \in Seq(Entry) /\ tail' \in {"clean", "torn", "unended"} /\ garbled' \in BOOLEAN
  /\ garbled => garbled'
  /\ EntriesOf(disk) \subseteq EntriesOf(disk')
  /\ ~garbled' => \A i \in 1..Len(disk') : RefersBack(disk', i)
  /\ \A i \in 1..Len(disk') : disk'[i].kind = "label" => disk'[i].target # NullId

LEMMA FileStays ==
  ASSUME IndInv, disk' = disk, tail' \in {"clean", "torn", "unended"}, garbled' \in BOOLEAN,
         garbled => garbled'
  PROVE  FileGrows
BY DEF FileGrows, IndInv, TypeOK, DiskRefersBack, Strengthening

(* Whether a line refers back is a matter of the lines before it.            *)
LEMMA SameLinesReferBack ==
  ASSUME NEW s, NEW t, NEW i, RefersBack(s, i),
         t[i] = s[i], \A j \in 1..(i-1) : t[j] = s[j]
  PROVE  RefersBack(t, i)
BY DEF RefersBack

(* The line of a caller goes behind the lines of the file.                   *)
LEMMA LineGoesIn ==
  ASSUME IndInv, NEW w \in Writers, pc[w] = "file", disk' = Append(disk, draft[w]),
         tail' \in {"clean", "torn", "unended"}, garbled' = garbled
  PROVE  FileGrows /\ EntriesOf(disk') = EntriesOf(disk) \cup {draft[w]}
<1> DEFINE d == draft[w]
<1>1. /\ d \in Entry /\ d.target \in ById \cup {NullId} /\ d.parent \in ById \cup {NullId}
      /\ d.kind = "label" => d.target # NullId
  BY DEF IndInv, TypeOK, Strengthening
<1>2. disk \in Seq(Entry) /\ Len(disk) \in Nat /\ garbled \in BOOLEAN
  BY DEF IndInv, TypeOK
<1>3. /\ disk' \in Seq(Entry) /\ EntriesOf(disk') = EntriesOf(disk) \cup {d}
      /\ Len(disk') = Len(disk) + 1 /\ disk'[Len(disk) + 1] = d
      /\ \A i \in 1..Len(disk) : disk'[i] = disk[i]
  BY <1>1, <1>2, Appended
<1>4. ASSUME ~garbled, NEW i \in 1..Len(disk') PROVE RefersBack(disk', i)
  <2>1. CASE i \in 1..Len(disk)
    <3>1. RefersBack(disk, i)
      BY <1>4, <2>1 DEF IndInv, DiskRefersBack
    <3>2. disk'[i] = disk[i] /\ \A j \in 1..(i-1) : disk'[j] = disk[j]
      BY <1>2, <1>3, <2>1
    <3> QED
      BY <3>1, <3>2, SameLinesReferBack
  <2>2. CASE i = Len(disk) + 1
    <3>1. IdsOf(entries) \subseteq IdsOf(disk)
      BY <1>4, IdsMonotone DEF IndInv, CommittedIsPersisted
    <3>2. \A r \in {d.parent, d.target} \ {NullId} : r \in IdsOf(disk)
      BY <1>1, <3>1 DEF ById
    <3>3. \A r \in {d.parent, d.target} \ {NullId} : \E j \in 1..Len(disk) : disk'[j].id = r
      BY <1>3, <3>2 DEF IdsOf
    <3>4. i - 1 = Len(disk) /\ disk'[i] = d
      BY <1>2, <1>3, <2>2
    <3> QED
      BY <3>3, <3>4 DEF RefersBack
  <2> QED
    BY <1>2, <1>3, <2>1, <2>2
<1>5. ASSUME NEW i \in 1..Len(disk'), disk'[i].kind = "label"
      PROVE  disk'[i].target # NullId
  <2>1. CASE i \in 1..Len(disk)
    BY <1>3, <1>5, <2>1 DEF IndInv, Strengthening
  <2>2. CASE i = Len(disk) + 1
    BY <1>1, <1>3, <1>5, <2>2
  <2> QED
    BY <1>2, <1>3, <2>1, <2>2
<1> QED
  BY <1>2, <1>3, <1>4, <1>5 DEF FileGrows

LEMMA CutOffGrows ==
  ASSUME IndInv, NEW w \in Writers, pc[w] = "file", NEW left \in CutOffs,
         CutOff(left, draft[w])
  PROVE  FileGrows
<1>1. tail \in {"clean", "torn", "unended"} /\ garbled \in BOOLEAN
  BY DEF IndInv, TypeOK
<1>2. CASE left = "nothing"
  BY <1>1, <1>2, FileStays DEF CutOff
<1>3. CASE left = "piece"
  <2>1. disk' = disk /\ tail' = "torn" /\ garbled' = (garbled \/ tail = "unended")
    BY <1>3 DEF CutOff
  <2> QED BY <1>1, <2>1, FileStays
<1>4. CASE left = "line"
  <2>1. disk' = Append(disk, draft[w]) /\ tail' = "unended" /\ garbled' = garbled
    BY <1>4 DEF CutOff
  <2> QED BY <2>1, LineGoesIn
<1> QED BY <1>2, <1>3, <1>4 DEF CutOffs

(* An action that leaves index and leaf alone, and changes one draft to one  *)
(* that is sound, keeps IndInv.                                              *)
LEMMA DraftStep ==
  ASSUME IndInv, NEW w \in Writers, NEW d \in Entry,
         NEW p \in {"idle", "leaf", "file", "commit", "summary"},
         FileGrows, UNCHANGED <<up, entries, leaf, labels, window>>,
         draft' = [draft EXCEPT ![w] = d], pc' = [pc EXCEPT ![w] = p],
         summarise' \in [Writers -> BOOLEAN], overlapped' \in BOOLEAN,
         up \/ p = "idle",
         d.target \in ById \cup {NullId},
         d.kind = "label" => d.target # NullId,
         p \in {"file", "commit"} => d.parent \in ById \cup {NullId},
         p = "commit" /\ ~garbled' => d \in EntriesOf(disk'),
         p = "idle" => d = EmptyDraft
  PROVE  IndInv'
<1>1. TypeOK'
  BY DEF IndInv, TypeOK, FileGrows
<1>2. DiskRefersBack' /\ CommittedIsPersisted' /\ LeafKnown'
  <2>1. /\ entries' = entries /\ leaf' = leaf /\ ById' = ById
        /\ EntriesOf(entries') = EntriesOf(entries)
    BY DEF ById
  <2>2. DiskRefersBack'
    BY DEF FileGrows, DiskRefersBack
  <2>3. CommittedIsPersisted'
    BY <2>1 DEF FileGrows, IndInv, CommittedIsPersisted
  <2>4. LeafKnown'
    BY <2>1 DEF IndInv, LeafKnown
  <2> QED
    BY <2>2, <2>3, <2>4
<1>3. Strengthening'
  <2>1. /\ ById' = ById /\ EntriesOf(disk) \subseteq EntriesOf(disk')
        /\ (~garbled' => ~garbled) /\ up' = up
    BY DEF ById, FileGrows
  <2>2. ASSUME NEW v \in Writers
        PROVE  draft'[v] = (IF v = w THEN d ELSE draft[v]) /\ pc'[v] = (IF v = w THEN p ELSE pc[v])
    BY DEF IndInv, TypeOK
  <2> DEFINE Sound(x, q) ==
        /\ x.target \in ById \cup {NullId}
        /\ q \in {"file", "commit"} => x.parent \in ById \cup {NullId}
        /\ q = "commit" /\ ~garbled' => x \in EntriesOf(disk')
        /\ x.kind = "label" => x.target # NullId
        /\ ~up => q = "idle"
        /\ q = "idle" => x = EmptyDraft
  <2>3. \A v \in Writers : Sound(draft[v], pc[v])
    BY <2>1 DEF IndInv, Strengthening
  <2>4. Sound(d, p)
    OBVIOUS
  <2>5. \A v \in Writers : Sound(draft'[v], pc'[v])
    BY <2>2, <2>3, <2>4
  <2>6. \A i \in 1..Len(disk') : disk'[i].kind = "label" => disk'[i].target # NullId
    BY DEF FileGrows
  <2> QED
    BY <2>1, <2>5, <2>6 DEF Strengthening
<1> QED
  BY <1>1, <1>2, <1>3 DEF IndInv

(* A caller whose promise settles.                                           *)
LEMMA ReturnStep ==
  ASSUME IndInv, NEW w \in Writers, Return(w), FileGrows,
         UNCHANGED <<up, entries, leaf, labels, window>>, overlapped' \in BOOLEAN
  PROVE  IndInv'
<1>1. summarise' \in [Writers -> BOOLEAN]
  BY DEF Return, IndInv, TypeOK
<1> QED
  BY <1>1, EmptyDraftType, DraftStep DEF Return

(* What the types of drafts and states of a caller are, spelled out.         *)
LEMMA CallerTypes ==
  ASSUME IndInv, NEW w \in Writers
  PROVE  /\ draft[w] \in Entry
         /\ draft[w].id \in Ids /\ draft[w].target \in Ids \cup {NullId}
         /\ draft[w].target \in ById \cup {NullId}
         /\ pc[w] \in {"idle", "leaf", "file", "commit", "summary"}
         /\ ById \subseteq Ids
<1>1. draft[w] \in Entry /\ pc[w] \in {"idle", "leaf", "file", "commit", "summary"}
  BY DEF IndInv, TypeOK
<1>2. draft[w].target \in ById \cup {NullId}
  BY DEF IndInv, Strengthening
<1>3. ById \subseteq Ids
  BY IdsAreIds DEF IndInv, TypeOK, ById
<1> QED
  BY <1>1, <1>2, <1>3 DEF Entry

LEMMA BeginAppendInd ==
  ASSUME IndInv, NEW w \in Writers, NEW e \in Entry, BeginAppend(w, e),
         e.target \in ById \cup {NullId}, e.kind = "label" => e.target # NullId
  PROVE  IndInv'
<1>1. PICK i \in GenerateEntryId : draft' = [draft EXCEPT ![w] = [e EXCEPT !.id = i]]
  BY DEF BeginAppend
<1>2. i \in Ids
  BY GeneratedIds DEF IndInv, TypeOK
<1> DEFINE d == [e EXCEPT !.id = i]
<1>3. d \in Entry /\ d.target = e.target /\ d.kind = e.kind
  BY <1>2 DEF Entry
<1>4. /\ pc' = [pc EXCEPT ![w] = "leaf"] /\ up
      /\ summarise' \in [Writers -> BOOLEAN] /\ overlapped' \in BOOLEAN
      /\ FileGrows /\ UNCHANGED <<up, entries, leaf, labels, window>>
  BY FileStays DEF BeginAppend, IndInv, TypeOK
<1> HIDE DEF d
<1> QED
  BY <1>1, <1>3, <1>4, DraftStep DEF d

LEMMA GetLeafIdInd ==
  ASSUME IndInv, NEW w \in Writers, GetLeafId(w) PROVE IndInv'
<1> DEFINE d == [draft[w] EXCEPT !.parent = leaf]
<1>1. /\ draft[w] \in Entry /\ draft[w].target \in ById \cup {NullId}
      /\ leaf \in Ids \cup {NullId}
  BY CallerTypes DEF IndInv, TypeOK
<1>2. /\ d \in Entry /\ d.target = draft[w].target /\ d.kind = draft[w].kind
      /\ d.parent = leaf
  BY <1>1 DEF Entry
<1>3. draft' = [draft EXCEPT ![w] = d]
  BY DEF GetLeafId
<1>4. /\ pc' = [pc EXCEPT ![w] = "file"] /\ up /\ leaf \in ById \cup {NullId}
      /\ summarise' \in [Writers -> BOOLEAN] /\ overlapped' \in BOOLEAN
      /\ FileGrows /\ UNCHANGED <<up, entries, leaf, labels, window>>
  BY FileStays DEF GetLeafId, IndInv, TypeOK
<1>5. draft[w].kind = "label" => draft[w].target # NullId
  BY DEF IndInv, Strengthening
<1> HIDE DEF d
<1> QED
  BY <1>1, <1>2, <1>3, <1>4, <1>5, DraftStep

LEMMA MoveToInd ==
  ASSUME IndInv, NEW w \in Writers, NEW target \in ById \cup {NullId}, NEW s \in BOOLEAN,
         MoveTo(w, target, s)
  PROVE  IndInv'
<1>1. PICK i \in GenerateEntryId :
        draft' = [draft EXCEPT ![w] = [id |-> i, parent |-> leaf, kind |-> "leaf",
                                       target |-> target, text |-> NoLabel]]
  BY DEF MoveTo
<1> DEFINE d == [id |-> i, parent |-> leaf, kind |-> "leaf",
                 target |-> target, text |-> NoLabel]
<1>2. i \in Ids /\ ById \subseteq Ids /\ leaf \in Ids \cup {NullId}
  BY GeneratedIds, CallerTypes DEF IndInv, TypeOK
<1>3. d \in Entry /\ d.target = target /\ d.kind = "leaf" /\ d.parent = leaf
  BY <1>2 DEF Entry, EntryKinds
<1>4. /\ pc' = [pc EXCEPT ![w] = "file"] /\ up
      /\ summarise' \in [Writers -> BOOLEAN] /\ overlapped' \in BOOLEAN
      /\ FileGrows /\ UNCHANGED <<up, entries, leaf, labels, window>>
  BY FileStays DEF MoveTo, IndInv, TypeOK
<1>5. leaf \in ById \cup {NullId}
  BY DEF IndInv, LeafKnown
<1> HIDE DEF d
<1> QED
  BY <1>1, <1>3, <1>4, <1>5, DraftStep DEF d

LEMMA BranchSummaryInd ==
  ASSUME IndInv, NEW w \in Writers, BranchSummary(w) PROVE IndInv'
<1>1. PICK i \in GenerateEntryId :
        draft' = [draft EXCEPT ![w] = [id |-> i, parent |-> draft[w].target,
                                       kind |-> "branch_summary", target |-> NullId,
                                       text |-> NoLabel]]
  BY DEF BranchSummary
<1> DEFINE d == [id |-> i, parent |-> draft[w].target, kind |-> "branch_summary",
                 target |-> NullId, text |-> NoLabel]
<1>2. /\ i \in Ids /\ draft[w].target \in Ids \cup {NullId}
      /\ draft[w].target \in ById \cup {NullId}
  BY GeneratedIds, CallerTypes DEF IndInv, TypeOK
<1>3. /\ d \in Entry /\ d.target = NullId /\ d.kind = "branch_summary"
      /\ d.parent = draft[w].target
  BY <1>2 DEF Entry, EntryKinds
<1>4. /\ pc' = [pc EXCEPT ![w] = "file"] /\ up
      /\ summarise' \in [Writers -> BOOLEAN] /\ overlapped' \in BOOLEAN
      /\ FileGrows /\ UNCHANGED <<up, entries, leaf, labels, window>>
  BY FileStays DEF BranchSummary, IndInv, TypeOK
<1> HIDE DEF d
<1> QED
  BY <1>1, <1>2, <1>3, <1>4, DraftStep DEF d

(* The line of the draft gets into the file: what it refers to is already    *)
(* there, because the index never runs ahead of the file.                    *)
LEMMA AppendFileInd ==
  ASSUME IndInv, NEW w \in Writers, AppendFile(w) PROVE IndInv'
<1> DEFINE d == draft[w]
<1>1. /\ d \in Entry /\ d.target \in ById \cup {NullId} /\ d.parent \in ById \cup {NullId}
      /\ d.kind = "label" => d.target # NullId
  BY CallerTypes DEF IndInv, Strengthening, AppendFile
<1>2. /\ UNCHANGED <<up, entries, leaf, labels, window, draft, summarise, overlapped>> /\ up
      /\ pc[w] = "file" /\ pc' = [pc EXCEPT ![w] = "commit"]
      /\ summarise' \in [Writers -> BOOLEAN] /\ overlapped' \in BOOLEAN
      /\ draft' = [draft EXCEPT ![w] = d]
  BY DEF AppendFile, IndInv, TypeOK
<1>3. FileGrows /\ (~garbled' => d \in EntriesOf(disk'))
  <2>1. CASE tail = "clean"
    <3>1. disk' = Append(disk, d) /\ tail' = tail /\ garbled' = garbled
      BY <2>1 DEF AppendFile
    <3> QED BY <1>2, <2>1, <3>1, LineGoesIn
  <2>2. CASE tail # "clean"
    <3>1. disk' = disk /\ tail' = "clean" /\ garbled' = TRUE
      BY <2>2 DEF AppendFile
    <3> QED BY <3>1, FileStays
  <2> QED BY <2>1, <2>2
<1> HIDE DEF d
<1> QED
  BY <1>1, <1>2, <1>3, DraftStep

(* The index takes the draft in, whose line is in the file by now.           *)
LEMMA CommitInd ==
  ASSUME IndInv, NEW w \in Writers, Commit(w) PROVE IndInv'
<1> DEFINE d == draft[w]
<1>1. /\ d \in Entry /\ d.target \in ById \cup {NullId} /\ d.id \in Ids
      /\ ~garbled => d \in EntriesOf(disk)
      /\ d.kind = "label" => d.target # NullId
  BY CallerTypes DEF IndInv, Strengthening, Commit
<1>2. /\ UNCHANGED <<disk, tail, garbled, up, window, overlapped>> /\ up /\ pc[w] = "commit"
      /\ entries' = Append(entries, d) /\ labels' = UpdateLabelCache(labels, d)
      /\ leaf' = LeafIdAfterEntry(d)
  BY DEF Commit
<1>3. /\ entries' \in Seq(Entry) /\ EntriesOf(entries') = EntriesOf(entries) \cup {d}
      /\ ById' = ById \cup {d.id} /\ ById \subseteq Ids
  BY <1>1, <1>2, Appended, CallerTypes DEF IndInv, TypeOK, ById
<1>4. LeafKnown' /\ leaf' \in Ids \cup {NullId}
  BY <1>1, <1>2, <1>3 DEF LeafKnown, LeafIdAfterEntry
<1>5. DOMAIN labels' \subseteq Ids
  BY <1>1, <1>2, UpdatedKeys DEF IndInv, TypeOK
<1>6. DiskRefersBack' = DiskRefersBack /\ CommittedIsPersisted'
  BY <1>1, <1>2, <1>3 DEF IndInv, DiskRefersBack, CommittedIsPersisted
<1>7. \A i \in 1..Len(disk) : disk[i].kind = "label" => disk[i].target # NullId
  BY DEF IndInv, Strengthening
<1>8. CASE summarise[w]
  <2>1. pc' = [pc EXCEPT ![w] = "summary"] /\ UNCHANGED <<draft, summarise>>
    BY <1>8 DEF Commit
  <2>2. TypeOK'
    BY <1>2, <1>3, <1>4, <1>5, <2>1 DEF IndInv, TypeOK
  <2>3. \A v \in Writers : pc'[v] = (IF v = w THEN "summary" ELSE pc[v])
    BY <2>1 DEF IndInv, TypeOK
  <2>4. Strengthening'
    BY <1>1, <1>2, <1>3, <1>7, <1>8, <2>1, <2>3 DEF IndInv, Strengthening
  <2> QED
    BY <1>4, <1>6, <2>2, <2>4 DEF IndInv
<1>9. CASE ~summarise[w]
  <2>0. Return(w)
    BY <1>9 DEF Commit
  <2>1. TypeOK'
    BY <1>2, <1>3, <1>4, <1>5, <2>0, EmptyDraftType DEF IndInv, TypeOK, Return
  <2>2. \A v \in Writers : /\ pc'[v] = (IF v = w THEN "idle" ELSE pc[v])
                           /\ draft'[v] = (IF v = w THEN EmptyDraft ELSE draft[v])
    BY <2>0 DEF IndInv, TypeOK, Return
  <2>3. Strengthening'
    BY <1>2, <1>3, <1>7, <2>2, EmptyDraftType DEF IndInv, Strengthening
  <2> QED
    BY <1>4, <1>6, <2>1, <2>3 DEF IndInv
<1> QED
  BY <1>8, <1>9

(* The file is all there is while the process is down.                       *)
LEMMA CrashInd == ASSUME IndInv, Crash PROVE IndInv'
<1>0. FileGrows
  <2>1. CASE UNCHANGED <<disk, tail, garbled>>
    BY <2>1, FileStays DEF IndInv, TypeOK
  <2>2. ASSUME NEW w \in Writers, pc[w] = "file", CutOff("piece", draft[w]) PROVE FileGrows
    BY <2>2, CutOffGrows DEF CutOffs
  <2> QED BY <2>1, <2>2 DEF Crash
<1>1. /\ UNCHANGED <<window, overlapped>> /\ ~up'
      /\ entries' = <<>> /\ leaf' = NullId /\ labels' = [i \in {} |-> NoLabel]
      /\ pc' = [v \in Writers |-> "idle"] /\ draft' = [v \in Writers |-> EmptyDraft]
      /\ summarise' = [v \in Writers |-> FALSE] /\ up' \in BOOLEAN
  BY DEF Crash, IndInv, TypeOK
<1>2. TypeOK'
  BY <1>0, <1>1, EmptyDraftType DEF IndInv, TypeOK, FileGrows
<1>3. DiskRefersBack' /\ LeafKnown'
  BY <1>0, <1>1 DEF FileGrows, DiskRefersBack, LeafKnown
<1>4. CommittedIsPersisted'
  BY <1>1 DEF CommittedIsPersisted, EntriesOf
<1>5. Strengthening'
  BY <1>0, <1>1, EmptyDraftType DEF FileGrows, Strengthening
<1> QED
  BY <1>2, <1>3, <1>4, <1>5 DEF IndInv

(* The index is rebuilt from a file whose last line refers back.             *)
LEMMA OpenInd == ASSUME IndInv, Open PROVE IndInv'
<1>1. /\ UNCHANGED <<disk, tail, garbled, window, pc, draft, summarise, overlapped>>
      /\ ~up /\ up' /\ up' \in BOOLEAN /\ ~garbled
      /\ entries' = disk /\ leaf' = LeafIdAfter(disk) /\ labels' = BuildLabelsById(disk)
      /\ ById' = IdsOf(disk)
  BY DEF Open, ById
<1>2. /\ disk \in Seq(Entry) /\ Len(disk) \in Nat
      /\ disk # <<>> => /\ Len(disk) \in 1..Len(disk)
                        /\ disk[Len(disk)] \in Entry
  BY DEF IndInv, TypeOK
<1>3. LeafIdAfter(disk) \in IdsOf(disk) \cup {NullId}
  <2>1. CASE disk = <<>>
    BY <2>1 DEF LeafIdAfter
  <2>2. CASE disk # <<>>
    <3> DEFINE n == Len(disk)
    <3>1. n \in 1..n /\ disk[n].id \in IdsOf(disk)
      BY <1>2, <2>2 DEF IdsOf
    <3>2. disk[n].target \in IdsOf(disk) \cup {NullId}
      <4>1. RefersBack(disk, n)
        BY <1>1, <3>1 DEF IndInv, DiskRefersBack
      <4>2. disk[n].target = NullId \/ \E j \in 1..(n-1) : disk[j].id = disk[n].target
        BY <4>1 DEF RefersBack
      <4>3. 1..(n-1) \subseteq 1..n
        BY <1>2
      <4> QED
        BY <4>2, <4>3 DEF IdsOf
    <3> QED
      BY <2>2, <3>1, <3>2 DEF LeafIdAfter, LeafIdAfterEntry
  <2> QED
    BY <2>1, <2>2
<1>4. IdsOf(disk) \subseteq Ids
  BY <1>2, IdsAreIds
<1>5. DOMAIN labels' \subseteq Ids
  BY <1>1, <1>2, RebuiltKeys DEF IndInv, Strengthening
<1>6. TypeOK'
  BY <1>1, <1>2, <1>3, <1>4, <1>5 DEF IndInv, TypeOK
<1>7. DiskRefersBack' /\ CommittedIsPersisted' /\ LeafKnown'
  BY <1>1, <1>3 DEF IndInv, DiskRefersBack, CommittedIsPersisted, LeafKnown
<1>8. Strengthening'
  <2>1. \A v \in Writers : pc[v] = "idle" /\ draft[v] = EmptyDraft
    BY <1>1 DEF IndInv, Strengthening
  <2> QED
    BY <1>1, <2>1, EmptyDraftType DEF IndInv, Strengthening
<1> QED
  BY <1>6, <1>7, <1>8 DEF IndInv

(* Nothing changes but the clock, or nothing at all.                         *)
LEMMA ClockInd ==
  ASSUME IndInv, NextWindow \/ UNCHANGED vars PROVE IndInv'
<1>1. /\ UNCHANGED <<disk, tail, garbled, up, entries, leaf, labels, pc, draft, summarise,
                   overlapped>>
      /\ window' \in Nat /\ ById' = ById
  BY DEF NextWindow, vars, IndInv, TypeOK, ById
<1>2. TypeOK'
  BY <1>1 DEF IndInv, TypeOK
<1>3. DiskRefersBack' /\ CommittedIsPersisted' /\ LeafKnown'
  BY <1>1 DEF IndInv, DiskRefersBack, CommittedIsPersisted, LeafKnown
<1>4. Strengthening'
  BY <1>1 DEF IndInv, Strengthening
<1> QED
  BY <1>2, <1>3, <1>4 DEF IndInv

(* Every step of the specification keeps IndInv.                             *)
LEMMA NextInd == IndInv /\ [Next]_vars => IndInv'
<1> SUFFICES ASSUME IndInv, [Next]_vars PROVE IndInv'
  OBVIOUS
<1>1. ASSUME NEW w \in Writers, Step(w) PROVE IndInv'
  <2>1. CASE AppendMessage(w)
    BY <2>1, EmptyDraftType, BeginAppendInd DEF AppendMessage
  <2>2. ASSUME NEW target \in ById, NEW text \in Labels \cup {NoLabel},
               AppendLabel(w, target, text)
        PROVE  IndInv'
    <3> DEFINE e == [EmptyDraft EXCEPT !.kind = "label", !.target = target, !.text = text]
    <3>1. target \in Ids /\ target # NullId
      BY <1>1, CallerTypes, NullIdIsNoId
    <3>2. e \in Entry /\ e.target = target
      BY <3>1, EmptyDraftType DEF Entry, EntryKinds
    <3>3. BeginAppend(w, e)
      BY <2>2 DEF AppendLabel
    <3> HIDE DEF e
    <3> QED
      BY <3>1, <3>2, <3>3, BeginAppendInd
  <2>3. ASSUME NEW target \in ById \cup {NullId}, NEW s \in BOOLEAN, MoveTo(w, target, s)
        PROVE  IndInv'
    BY <2>3, MoveToInd
  <2>4. CASE GetLeafId(w)
    BY <2>4, GetLeafIdInd
  <2>5. CASE AppendFile(w)
    BY <2>5, AppendFileInd
  <2>6. ASSUME NEW left \in CutOffs, AppendFileFails(w, left) PROVE IndInv'
    <3>1. /\ pc[w] = "file" /\ CutOff(left, draft[w]) /\ Return(w) /\ overlapped' \in BOOLEAN
          /\ UNCHANGED <<up, entries, leaf, labels, window>>
      BY <2>6 DEF AppendFileFails, IndInv, TypeOK
    <3>2. FileGrows
      BY <3>1, CutOffGrows
    <3> QED
      BY <3>1, <3>2, ReturnStep
  <2>7. CASE Commit(w)
    BY <2>7, CommitInd
  <2>8. CASE BranchSummary(w)
    BY <2>8, BranchSummaryInd
  <2> QED
    BY <1>1, <2>1, <2>2, <2>3, <2>4, <2>5, <2>6, <2>7, <2>8 DEF Step
<1> QED
  BY <1>1, CrashInd, OpenInd, ClockInd DEF Next

-----------------------------------------------------------------------------
(* The results.                                                              *)

(* IndInv holds in every reachable state.                                    *)
THEOREM Inductive == Spec => []IndInv
<1> QED
  BY InitInd, NextInd, PTL DEF Spec

(* Type correctness: whatever the callers of Session's append methods do,    *)
(* every entry built, kept and written is one of the shapes of               *)
(* parseEntryLine, and label keys are ids of entries.                        *)
THEOREM TypeCorrect == Spec => []TypeOK
<1>1. IndInv => TypeOK
  BY DEF IndInv
<1> QED
  BY <1>1, Inductive, PTL

(* The session file never names a parent or target that is not on an earlier *)
(* line, for any number of interleaved appends and moves, failed or torn     *)
(* writes, crashes and reopens.                                              *)
THEOREM FileIsClosed == Spec => []DiskRefersBack
<1>1. IndInv => DiskRefersBack
  BY DEF IndInv
<1> QED
  BY <1>1, Inductive, PTL

(* The in-memory index never runs ahead of the file.                         *)
THEOREM MemoryIsDurable == Spec => []CommittedIsPersisted
<1>1. IndInv => CommittedIsPersisted
  BY DEF IndInv
<1> QED
  BY <1>1, Inductive, PTL

(* getLeafId never meets a leaf that is not in the index.                    *)
THEOREM LeafIsKnown == Spec => []LeafKnown
<1>1. IndInv => LeafKnown
  BY DEF IndInv
<1> QED
  BY <1>1, Inductive, PTL

-----------------------------------------------------------------------------
(* The refinement: the abstract session log of SessionLog.                   *)

LEMMA InitRefines == Init => Log!Init
BY DEF Init, Log!Init

(* A line that is written goes onto the end of the log.                      *)
LEMMA LineRefines ==
  ASSUME IndInv, NEW w \in Writers, pc[w] = "file", up, UNCHANGED <<up, entries>>,
         disk' = Append(disk, draft[w]), garbled' = garbled, tail # "torn", tail' # "torn"
  PROVE  Log!Write
<1> DEFINE e == draft[w]
<1>1. disk \in Seq(Entry) /\ e \in Entry
  BY DEF IndInv, TypeOK
<1>2. Len(disk') = Len(disk) + 1 /\ disk'[Len(disk) + 1] = e
  BY <1>1
<1>3. ~garbled => Log!References(e) \subseteq Log!Logged(disk)
  <2>1. ById \subseteq IdsOf(disk) \/ garbled
    BY IdsMonotone DEF IndInv, CommittedIsPersisted, ById
  <2>2. e.parent \in ById \cup {NullId} /\ e.target \in ById \cup {NullId}
    BY DEF IndInv, Strengthening
  <2> QED
    BY <2>1, <2>2 DEF Log!References, Log!Logged, IdsOf
<1> HIDE DEF e
<1>4. disk' = Append(disk, e)
  BY DEF e
<1> QED
  BY <1>1, <1>2, <1>3, <1>4 DEF Log!Write

(* Behind something without a newline it damages the log.                    *)
LEMMA AppendFileRefines ==
  ASSUME IndInv, NEW w \in Writers, AppendFile(w)
  PROVE  Log!Write \/ Log!Tear
<1>1. up /\ pc[w] = "file" /\ UNCHANGED <<up, entries>>
  BY DEF AppendFile
<1>2. CASE tail = "clean"
  <2>1. disk' = Append(disk, draft[w]) /\ tail' = tail /\ garbled' = garbled
    BY <1>2 DEF AppendFile
  <2> QED BY <1>1, <1>2, <2>1, LineRefines
<1>3. CASE tail # "clean"
  <2>1. disk' = disk /\ garbled' = TRUE /\ tail' = "clean"
    BY <1>3 DEF AppendFile
  <2> QED BY <1>1, <2>1 DEF Log!Tear
<1> QED
  BY <1>2, <1>3

LEMMA AppendFileFailsRefines ==
  ASSUME IndInv, NEW w \in Writers, NEW left \in CutOffs, AppendFileFails(w, left)
  PROVE  Log!Write \/ Log!Tear \/ UNCHANGED Log!logVars
<1>1. up /\ pc[w] = "file" /\ UNCHANGED <<up, entries>> /\ CutOff(left, draft[w])
  BY DEF AppendFileFails
<1>2. CASE left = "nothing"
  BY <1>1, <1>2 DEF CutOff, Log!logVars
<1>3. CASE left = "piece"
  <2>1. disk' = disk /\ tail' = "torn"
    BY <1>1, <1>3 DEF CutOff
  <2> QED BY <1>1, <2>1 DEF Log!Tear
<1>4. CASE left = "line"
  <2>1. disk' = Append(disk, draft[w]) /\ tail = "clean" /\ tail' = "unended" /\ garbled' = garbled
    BY <1>1, <1>4 DEF CutOff
  <2> QED BY <1>1, <2>1, LineRefines
<1> QED BY <1>2, <1>3, <1>4 DEF CutOffs

(* What is committed to the index is in the log.                             *)
LEMMA CommitRefines ==
  ASSUME IndInv, NEW w \in Writers, Commit(w) PROVE Log!Show
<1> DEFINE e == draft[w]
<1>1. /\ up /\ pc[w] = "commit" /\ UNCHANGED <<disk, tail, garbled, up>>
      /\ entries' = Append(entries, e) /\ entries \in Seq(Entry) /\ e \in Entry
  BY DEF Commit, IndInv, TypeOK
<1>2. Len(entries') = Len(entries) + 1 /\ entries'[Len(entries) + 1] = e
  BY <1>1
<1>3. ~garbled => \E i \in 1..Len(disk) : disk[i] = e
  BY <1>1 DEF IndInv, Strengthening, EntriesOf
<1> HIDE DEF e
<1> QED
  BY <1>1, <1>2, <1>3 DEF Log!Show

(* Every step of the storage is a step of the log or leaves it alone.        *)
LEMMA NextRefines ==
  IndInv /\ [Next]_vars => [Log!Next]_Log!logVars
<1> SUFFICES ASSUME IndInv, [Next]_vars PROVE [Log!Next]_Log!logVars
  OBVIOUS
<1>1. ASSUME NEW w \in Writers, Step(w) PROVE [Log!Next]_Log!logVars
  <2>1. CASE \/ AppendMessage(w)
             \/ \E target \in ById, text \in Labels \cup {NoLabel} : AppendLabel(w, target, text)
    <3>1. \A e : BeginAppend(w, e) => UNCHANGED <<disk, entries, up, garbled, tail>>
      BY DEF BeginAppend
    <3>2. UNCHANGED <<disk, entries, up, garbled, tail>>
      BY <2>1, <3>1 DEF AppendMessage, AppendLabel
    <3> QED
      BY <3>2 DEF Log!logVars
  <2>2. CASE \/ \E target \in ById \cup {NullId}, s \in BOOLEAN : MoveTo(w, target, s)
             \/ GetLeafId(w) \/ BranchSummary(w)
    BY <2>2 DEF MoveTo, GetLeafId, BranchSummary, Log!logVars
  <2>3. CASE AppendFile(w)
    BY <2>3, AppendFileRefines DEF Log!Next
  <2>4. ASSUME NEW left \in CutOffs, AppendFileFails(w, left)
        PROVE  [Log!Next]_Log!logVars
    BY <2>4, AppendFileFailsRefines DEF Log!Next
  <2>5. CASE Commit(w)
    BY <2>5, CommitRefines DEF Log!Next
  <2> QED
    BY <1>1, <2>1, <2>2, <2>3, <2>4, <2>5 DEF Step
<1>2. CASE Crash
  <2>1. up /\ ~up' /\ up' \in BOOLEAN /\ entries' = <<>> /\ disk' = disk
    BY <1>2 DEF Crash, CutOff
  <2>2. CASE UNCHANGED <<disk, tail, garbled>>
    BY <2>1, <2>2 DEF Log!Next, Log!Close
  <2>3. CASE tail' = "torn"
    BY <2>1, <2>3 DEF Log!Next, Log!Close
  <2> QED BY <2>2, <2>3, <1>2 DEF Crash, CutOff
<1>3. CASE Open
  BY <1>3 DEF Open, Log!Next, Log!Reopen
<1>4. CASE NextWindow \/ UNCHANGED vars
  BY <1>4 DEF NextWindow, vars, Log!logVars
<1> QED
  BY <1>1, <1>2, <1>3, <1>4 DEF Next

(* JsonlSessionStorage under the appends of Session is a session log: it     *)
(* shows only what is durable, its lines refer to earlier lines, and it      *)
(* never opens a damaged file, however appends, failures and crashes fall.   *)
THEOREM StorageIsALog == Spec => ImplementsSessionLog
<1> QED
  BY InitRefines, NextRefines, Inductive, PTL DEF Spec, ImplementsSessionLog, Log!Spec
-----------------------------------------------------------------------------
(* Appends that come one at a time: the file is what the index holds and,    *)
(* before a commit, the draft.                                               *)
ParentsKnown(s) == \A k \in 1..Len(s) : s[k].parent \in IdsOf(s) \cup {NullId}
TreeOf(s) == DistinctIds(s) /\ ParentsKnown(s) /\ NoCycle(s)

Busy(w) == pc[w] # "idle"

OneAtATime    == \A v, w \in Writers : Busy(v) /\ Busy(w) => v = w
DraftsAreNew  ==
  \A w \in Writers : pc[w] \in {"leaf", "file", "commit"} => draft[w].id \notin ById
DraftsOnLeaf  ==
  \A w \in Writers : (pc[w] \in {"file", "commit"} /\ draft[w].kind \in {"entry", "label"})
                       => draft[w].parent = leaf
MemoryIsFile  ==
  (up /\ ~garbled /\ tail # "unended") =>
    /\ (\A w \in Writers : pc[w] # "commit") => disk = entries
    /\ \A w \in Writers : pc[w] = "commit" => disk = Append(entries, draft[w])
CacheIsRebuilt == leaf = LeafIdAfter(entries) /\ labels = BuildLabelsById(entries)
Trees          == TreeOf(entries) /\ (~garbled => TreeOf(disk))

SerialInv == ~overlapped => /\ OneAtATime /\ DraftsAreNew /\ DraftsOnLeaf
                            /\ MemoryIsFile /\ CacheIsRebuilt /\ Trees

(* The order of the natural numbers has no infinite descent.                 *)
LEMMA NatOrder == IsWellFoundedOn({p \in Nat \X Nat : p[1] < p[2]}, Nat)
BY NatLessThanWellFounded DEF OpToRel

(* Some member of a set of lines is the last.                                *)
LEMMA HasMaximum ==
  ASSUME NEW n \in Nat, NEW S \in SUBSET (1..n), S # {}
  PROVE  \E x \in S : \A y \in S : x >= y
<1> DEFINE T == {m \in Nat : n - m \in S}
           R == {p \in Nat \X Nat : p[1] < p[2]}
<1>1. PICK k \in S : TRUE
  OBVIOUS
<1>2. n - k \in Nat /\ n - (n - k) = k
  OBVIOUS
<1>3. T \subseteq Nat /\ T # {}
  BY <1>1, <1>2
<1>4. IsWellFoundedOn(R, Nat)
  BY NatOrder
<1> HIDE DEF R
<1>5. PICK x \in T : \A y \in T : ~(<<y, x>> \in R)
  BY ONLY <1>3, <1>4, WFMin
<1>6. \A y \in T : ~(y < x)
  BY <1>3, <1>5 DEF R
<1>7. \A m \in S : n - m \in T /\ m \in Int
  <2> TAKE m \in S
  <2>1. n - m \in Nat /\ n - (n - m) = m
    OBVIOUS
  <2> QED BY <2>1
<1>8. \A m \in S : ~(n - m < x)
  BY <1>6, <1>7
<1>9. n - x \in S
  OBVIOUS
<1>10. \A m \in S : n - x >= m
  BY <1>7, <1>8
<1> QED BY <1>9, <1>10
(* Max of an interval of lines that ends in n.                               *)
LEMMA MaxIsLast ==
  ASSUME NEW n \in Nat, NEW S, S \subseteq 1..n, n \in S
  PROVE  Max(S) = n
<1>1. \E x \in S : \A y \in S : x >= y
  BY \A y \in S : n >= y
<1> DEFINE m == CHOOSE x \in S : \A y \in S : x >= y
<1>2. m \in S /\ \A y \in S : m >= y
  BY <1>1
<1>3. m \in 1..n /\ m >= n
  BY <1>2
<1>4. m = n
  BY <1>3
<1> QED BY <1>4 DEF Max

(* The parents of the ids of a sequence with one more entry.                 *)
LEMMA AppendedParts ==
  ASSUME NEW s \in Seq(Entry), NEW e \in Entry
  PROVE  /\ Len(Append(s, e)) = Len(s) + 1 /\ Len(s) \in Nat
         /\ \A i \in 1..Len(s) : Append(s, e)[i] = s[i]
         /\ Append(s, e)[Len(s) + 1] = e
         /\ 1..(Len(s) + 1) = 1..Len(s) \cup {Len(s) + 1}
         /\ Len(s) + 1 \notin 1..Len(s)
<1>1. /\ Len(Append(s, e)) = Len(s) + 1 /\ Len(s) \in Nat
      /\ \A i \in 1..Len(s) : Append(s, e)[i] = s[i]
      /\ Append(s, e)[Len(s) + 1] = e
  OBVIOUS
<1>2. 1..(Len(s) + 1) = 1..Len(s) \cup {Len(s) + 1} /\ Len(s) + 1 \notin 1..Len(s)
  BY <1>1
<1> QED BY <1>1, <1>2

(* A tree stays a tree with an entry that is new and hangs below a node of   *)
(* it.                                                                       *)
LEMMA TreeGrows ==
  ASSUME NEW s \in Seq(Entry), NEW e \in Entry, TreeOf(s),
         e.id \notin IdsOf(s), e.parent \in IdsOf(s) \cup {NullId}
  PROVE  TreeOf(Append(s, e))
<1> DEFINE t == Append(s, e)
           n == Len(s)
<1>1. /\ Len(t) = n + 1 /\ n \in Nat
      /\ \A i \in 1..n : t[i] = s[i]
      /\ t[n + 1] = e
      /\ 1..(n + 1) = 1..n \cup {n + 1}
      /\ n + 1 \notin 1..n
  BY AppendedParts
<1>2. IdsOf(t) = IdsOf(s) \cup {e.id}
  BY Appended
<1>3. e.id # NullId
  BY NullIdIsNoId DEF Entry
<1> HIDE DEF t, n
<1>4. \A i \in 1..n : s[i].id \in IdsOf(s)
  BY DEF n, IdsOf
<1>5. DistinctIds(t)
  <2>1. \A i, j \in 1..n : t[i].id = t[j].id => i = j
    BY <1>1 DEF TreeOf, DistinctIds, n
  <2>2. \A i \in 1..n : t[i].id # t[n + 1].id
    BY <1>1, <1>4
  <2> QED BY <1>1, <2>1, <2>2 DEF DistinctIds
<1>6. \A i \in 1..n : s[i].parent \in IdsOf(s) \cup {NullId}
  BY DEF TreeOf, ParentsKnown, n
<1>7. ParentsKnown(t)
  BY <1>1, <1>2, <1>6 DEF ParentsKnown
<1>8. \A i \in IdsOf(s) : ParentsOf(t, i) \subseteq ParentsOf(s, i) /\ e.id \notin ParentsOf(t, i)
  <2> SUFFICES ASSUME NEW i \in IdsOf(s), NEW k \in 1..Len(t), t[k].id = i
               PROVE  t[k].parent \in ParentsOf(s, i) /\ t[k].parent # e.id
    BY DEF ParentsOf
  <2>1. k \in 1..n /\ t[k] = s[k]
    BY <1>1
  <2> QED BY <1>3, <1>6, <2>1 DEF ParentsOf, n
<1>9. ParentsOf(t, e.id) = {e.parent}
  <2>1. \A k \in 1..Len(t) : t[k].id = e.id <=> k = n + 1
    BY <1>1, <1>4
  <2> QED BY <1>1, <2>1 DEF ParentsOf
<1>10. NoCycle(t)
  <2> SUFFICES ASSUME NEW ids \in SUBSET IdsOf(t), ids # {}
               PROVE  \E i \in ids : ParentsOf(t, i) \cap ids = {}
    BY DEF NoCycle
  <2> DEFINE old == ids \ {e.id}
  <2>1. CASE old = {}
    <3>1. ids = {e.id}
      BY <2>1
    <3>2. e.parent # e.id
      BY <1>3
    <3> QED BY <1>9, <3>1, <3>2
  <2>2. CASE old # {}
    <3>1. old \in SUBSET IdsOf(s)
      BY <1>2
    <3>2. PICK i \in old : ParentsOf(s, i) \cap old = {}
      BY <2>2, <3>1 DEF TreeOf, NoCycle
    <3>3. ParentsOf(t, i) \cap ids = {}
      BY <1>8, <3>1, <3>2
    <3> QED BY <3>3
  <2> QED BY <2>1, <2>2
<1> QED BY <1>5, <1>7, <1>10 DEF TreeOf, t

(* Updating the rebuilt label cache is rebuilding it with one more entry.    *)
LEMMA CacheGrows ==
  ASSUME NEW s \in Seq(Entry), NEW e \in Entry
  PROVE  BuildLabelsById(Append(s, e)) = UpdateLabelCache(BuildLabelsById(s), e)
<1> DEFINE t == Append(s, e)
           n == Len(s)
           Labelled(q) == {q[k].target : k \in {m \in 1..Len(q) : q[m].kind = "label"}}
           Last(q, i)  == Max(LabelLines(q, i))
           Keys(q)     == {j \in Labelled(q) : q[Last(q, j)].text # NoLabel}
<1>1. /\ Len(t) = n + 1 /\ n \in Nat
      /\ \A i \in 1..n : t[i] = s[i]
      /\ t[n + 1] = e
      /\ 1..(n + 1) = 1..n \cup {n + 1}
      /\ n + 1 \notin 1..n
  BY AppendedParts
<1>2. BuildLabelsById(s) = [i \in Keys(s) |-> s[Last(s, i)].text]
  BY DEF BuildLabelsById
<1>3. BuildLabelsById(t) = [i \in Keys(t) |-> t[Last(t, i)].text]
  BY DEF BuildLabelsById
<1> HIDE DEF t
<1>4. ASSUME NEW i, e.kind # "label" \/ e.target # i
      PROVE  LabelLines(t, i) = LabelLines(s, i)
  BY <1>1, <1>4 DEF LabelLines
<1>5. ASSUME NEW i \in Labelled(s)
      PROVE  /\ Last(s, i) \in 1..n
             /\ e.kind # "label" \/ e.target # i => t[Last(t, i)] = s[Last(s, i)]
  <2>1. LabelLines(s, i) # {} /\ LabelLines(s, i) \in SUBSET (1..n)
    BY <1>5 DEF LabelLines
  <2>2. \E x \in LabelLines(s, i) : \A y \in LabelLines(s, i) : x >= y
    BY <1>1, <2>1, HasMaximum
  <2>3. Last(s, i) \in LabelLines(s, i)
    BY <2>2 DEF Max
  <2> QED BY <1>1, <1>4, <2>1, <2>3
<1>6. ASSUME e.kind # "label"
      PROVE  BuildLabelsById(t) = BuildLabelsById(s)
  <2>1. Labelled(t) = Labelled(s)
    <3>1. {m \in 1..Len(t) : t[m].kind = "label"} = {m \in 1..Len(s) : s[m].kind = "label"}
      BY <1>1, <1>6
    <3> QED BY <1>1, <3>1
  <2>2. \A i \in Labelled(s) : t[Last(t, i)] = s[Last(s, i)]
    BY <1>5, <1>6
  <2> HIDE DEF Labelled, Last
  <2>3. Keys(t) = Keys(s)
    BY <2>1, <2>2
  <2> QED BY <1>2, <1>3, <2>2, <2>3
<1>7. ASSUME e.kind = "label"
      PROVE  BuildLabelsById(t) = UpdateLabelCache(BuildLabelsById(s), e)
  <2> DEFINE i == e.target
  <2>1. Labelled(t) = Labelled(s) \cup {i}
    <3>1. {m \in 1..Len(t) : t[m].kind = "label"} =
             {m \in 1..Len(s) : s[m].kind = "label"} \cup {n + 1}
      BY <1>1, <1>7
    <3> QED BY <1>1, <3>1
  <2>2. Last(t, i) = n + 1
    <3>1. LabelLines(t, i) \subseteq 1..(n + 1) /\ n + 1 \in LabelLines(t, i)
      BY <1>1, <1>7 DEF LabelLines
    <3> QED BY <1>1, <3>1, MaxIsLast
  <2>3. \A j \in Labelled(s) \ {i} : t[Last(t, j)] = s[Last(s, j)]
    BY <1>5
  <2>4. t[Last(t, i)] = e
    BY <1>1, <2>2
  <2> HIDE DEF Labelled, Last, i
  <2>5. Keys(t) = (Keys(s) \cup {i}) \ (IF e.text = NoLabel THEN {i} ELSE {})
    BY <2>1, <2>3, <2>4
  <2>6. \A j \in Keys(t) : t[Last(t, j)].text = (IF j = i THEN e.text ELSE s[Last(s, j)].text)
    BY <2>1, <2>3, <2>4
  <2> DEFINE keys == Keys(s)
             value(j) == s[Last(s, j)].text
  <2>8. UpdateLabelCache([j \in keys |-> value(j)], e) =
          [j \in (keys \cup {i}) \ (IF e.text = NoLabel THEN {i} ELSE {})
             |-> IF j = i THEN e.text ELSE value(j)]
    <3> HIDE DEF keys, value
    <3>1. DOMAIN [j \in keys |-> value(j)] = keys
      OBVIOUS
    <3>2. \A j \in keys : [k \in keys |-> value(k)][j] = value(j)
      OBVIOUS
    <3> QED BY <1>7, <3>1, <3>2 DEF UpdateLabelCache, i
  <2> QED BY <1>2, <1>3, <2>5, <2>6, <2>8
<1>8. CASE e.kind # "label"
  BY <1>6, <1>8 DEF UpdateLabelCache, t
<1>9. CASE e.kind = "label"
  BY <1>7, <1>9 DEF t
<1> QED BY <1>8, <1>9

(* A new id is not in the index.                                             *)
LEMMA IdsAreNew == ASSUME NEW i \in GenerateEntryId PROVE i \notin ById
BY DEF GenerateEntryId

(* A step that leaves the index alone, and the lines of a file that is not   *)
(* cut off, and changes one draft.                                           *)
LEMMA SerialCaller ==
  ASSUME IndInv, SerialInv, NEW w \in Writers, NEW d \in Entry,
         NEW p \in {"idle", "leaf", "file", "summary"},
         UNCHANGED <<up, entries, leaf, labels>>,
         ~garbled' /\ tail' # "unended" => disk' = disk /\ ~garbled /\ tail # "unended",
         ~overlapped' /\ ~garbled' => TreeOf(disk'),
         draft' = [draft EXCEPT ![w] = d], pc' = [pc EXCEPT ![w] = p],
         overlapped => overlapped',
         ~overlapped' => \A v \in Writers : Busy(v) => v = w,
         pc[w] # "commit",
         p \in {"leaf", "file"} => d.id \notin ById,
         (p = "file" /\ d.kind \in {"entry", "label"}) => d.parent = leaf
  PROVE  SerialInv'
<1> SUFFICES ASSUME ~overlapped'
             PROVE  (/\ OneAtATime /\ DraftsAreNew /\ DraftsOnLeaf
                     /\ MemoryIsFile /\ CacheIsRebuilt /\ Trees)'
  BY DEF SerialInv
<1>1. /\ ~overlapped /\ OneAtATime /\ DraftsAreNew /\ DraftsOnLeaf
      /\ MemoryIsFile /\ CacheIsRebuilt /\ Trees
  BY DEF SerialInv
<1>2. ASSUME NEW v \in Writers
      PROVE  draft'[v] = (IF v = w THEN d ELSE draft[v]) /\ pc'[v] = (IF v = w THEN p ELSE pc[v])
  BY DEF IndInv, TypeOK
<1>3. \A v \in Writers : v # w => pc[v] = "idle" /\ pc'[v] = "idle"
  BY <1>2 DEF Busy
<1>4. OneAtATime'
  BY <1>3 DEF OneAtATime, Busy
<1>5. DraftsAreNew'
  BY <1>2, <1>3 DEF DraftsAreNew, ById
<1>6. DraftsOnLeaf'
  BY <1>2, <1>3 DEF DraftsOnLeaf
<1>7. MemoryIsFile'
  <2>1. \A v \in Writers : pc[v] # "commit" /\ pc'[v] # "commit"
    BY <1>2, <1>3
  <2> QED BY <1>1, <2>1 DEF MemoryIsFile
<1>8. CacheIsRebuilt' /\ Trees'
  BY <1>1 DEF CacheIsRebuilt, Trees
<1> QED BY <1>4, <1>5, <1>6, <1>7, <1>8

LEMMA SerialDraft ==
  ASSUME IndInv, SerialInv, NEW w \in Writers, NEW d \in Entry,
         NEW p \in {"idle", "leaf", "file", "summary"},
         UNCHANGED <<disk, tail, garbled, up, entries, leaf, labels>>,
         draft' = [draft EXCEPT ![w] = d], pc' = [pc EXCEPT ![w] = p],
         overlapped => overlapped',
         ~overlapped' => \A v \in Writers : Busy(v) => v = w,
         pc[w] # "commit",
         p \in {"leaf", "file"} => d.id \notin ById,
         (p = "file" /\ d.kind \in {"entry", "label"}) => d.parent = leaf
  PROVE  SerialInv'
<1>1. ~overlapped' /\ ~garbled' => TreeOf(disk')
  BY DEF SerialInv, Trees
<1>2. ~garbled' /\ tail' # "unended" => disk' = disk /\ ~garbled /\ tail # "unended"
  OBVIOUS
<1> QED BY <1>1, <1>2, SerialCaller

LEMMA SerialBegin ==
  ASSUME IndInv, SerialInv, NEW w \in Writers, NEW e \in Entry, BeginAppend(w, e)
  PROVE  SerialInv'
<1>1. PICK i \in GenerateEntryId : draft' = [draft EXCEPT ![w] = [e EXCEPT !.id = i]]
  BY DEF BeginAppend
<1> DEFINE d == [e EXCEPT !.id = i]
<1>2. i \in Ids /\ i \notin ById
  BY GeneratedIds, IdsAreNew DEF IndInv, TypeOK
<1>3. d \in Entry /\ d.id = i
  BY <1>2 DEF Entry
<1>4. /\ pc' = [pc EXCEPT ![w] = "leaf"] /\ pc[w] = "idle"
      /\ overlapped' = (overlapped \/ Idle # Writers)
      /\ UNCHANGED <<disk, tail, garbled, up, entries, leaf, labels>>
  BY DEF BeginAppend
<1>5. /\ overlapped => overlapped'
      /\ ~overlapped' => \A v \in Writers : Busy(v) => v = w
  BY <1>4 DEF Idle, Busy
<1> HIDE DEF d
<1> QED
  BY <1>1, <1>2, <1>3, <1>4, <1>5, SerialDraft DEF d

LEMMA SerialMove ==
  ASSUME IndInv, SerialInv, NEW w \in Writers, NEW target \in ById \cup {NullId},
         NEW s \in BOOLEAN, MoveTo(w, target, s)
  PROVE  SerialInv'
<1>1. PICK i \in GenerateEntryId :
        draft' = [draft EXCEPT ![w] = [id |-> i, parent |-> leaf, kind |-> "leaf",
                                       target |-> target, text |-> NoLabel]]
  BY DEF MoveTo
<1> DEFINE d == [id |-> i, parent |-> leaf, kind |-> "leaf",
                 target |-> target, text |-> NoLabel]
<1>2. i \in Ids /\ i \notin ById /\ ById \subseteq Ids /\ leaf \in Ids \cup {NullId}
  BY GeneratedIds, IdsAreNew, CallerTypes DEF IndInv, TypeOK
<1>3. d \in Entry /\ d.id = i /\ d.parent = leaf
  BY <1>2 DEF Entry, EntryKinds
<1>4. /\ pc' = [pc EXCEPT ![w] = "file"] /\ pc[w] = "idle"
      /\ overlapped' = (overlapped \/ Idle # Writers)
      /\ UNCHANGED <<disk, tail, garbled, up, entries, leaf, labels>>
  BY DEF MoveTo
<1>5. /\ overlapped => overlapped'
      /\ ~overlapped' => \A v \in Writers : Busy(v) => v = w
  BY <1>4 DEF Idle, Busy
<1> HIDE DEF d
<1> QED
  BY <1>1, <1>2, <1>3, <1>4, <1>5, SerialDraft DEF d

LEMMA SerialSummary ==
  ASSUME IndInv, SerialInv, NEW w \in Writers, BranchSummary(w) PROVE SerialInv'
<1>1. PICK i \in GenerateEntryId :
        draft' = [draft EXCEPT ![w] = [id |-> i, parent |-> draft[w].target,
                                       kind |-> "branch_summary", target |-> NullId,
                                       text |-> NoLabel]]
  BY DEF BranchSummary
<1> DEFINE d == [id |-> i, parent |-> draft[w].target, kind |-> "branch_summary",
                 target |-> NullId, text |-> NoLabel]
<1>2. i \in Ids /\ i \notin ById /\ draft[w].target \in Ids \cup {NullId}
  BY GeneratedIds, IdsAreNew, CallerTypes DEF IndInv, TypeOK
<1>3. d \in Entry /\ d.id = i /\ d.kind = "branch_summary"
  BY <1>2 DEF Entry, EntryKinds
<1>4. /\ pc' = [pc EXCEPT ![w] = "file"] /\ pc[w] = "summary"
      /\ UNCHANGED <<disk, tail, garbled, up, entries, leaf, labels, overlapped>>
  BY DEF BranchSummary
<1>5. ~overlapped' => \A v \in Writers : Busy(v) => v = w
  BY <1>4 DEF SerialInv, OneAtATime, Busy
<1> HIDE DEF d
<1> QED
  BY <1>1, <1>2, <1>3, <1>4, <1>5, SerialDraft DEF d

LEMMA SerialLeaf ==
  ASSUME IndInv, SerialInv, NEW w \in Writers, GetLeafId(w) PROVE SerialInv'
<1> DEFINE d == [draft[w] EXCEPT !.parent = leaf]
<1>1. draft[w] \in Entry /\ leaf \in Ids \cup {NullId}
  BY DEF IndInv, TypeOK
<1>2. d \in Entry /\ d.id = draft[w].id /\ d.parent = leaf
  BY <1>1 DEF Entry
<1>3. draft' = [draft EXCEPT ![w] = d]
  BY DEF GetLeafId
<1>4. /\ pc' = [pc EXCEPT ![w] = "file"] /\ pc[w] = "leaf"
      /\ UNCHANGED <<disk, tail, garbled, up, entries, leaf, labels, overlapped>>
  BY DEF GetLeafId
<1>5. ~overlapped' => \A v \in Writers : Busy(v) => v = w
  BY <1>4 DEF SerialInv, OneAtATime, Busy
<1>6. CASE overlapped'
  BY <1>6 DEF SerialInv
<1>7. CASE ~overlapped'
  <2>1. draft[w].id \notin ById
    BY <1>4, <1>7 DEF SerialInv, DraftsAreNew
  <2> HIDE DEF d
  <2> QED
    BY <1>2, <1>3, <1>4, <1>5, <2>1, SerialDraft
<1> QED BY <1>6, <1>7

(* The line goes behind the lines of the index.                              *)
LEMMA SerialWrite ==
  ASSUME IndInv, SerialInv, NEW w \in Writers, AppendFile(w) PROVE SerialInv'
<1> SUFFICES ASSUME ~overlapped'
             PROVE  (/\ OneAtATime /\ DraftsAreNew /\ DraftsOnLeaf
                     /\ MemoryIsFile /\ CacheIsRebuilt /\ Trees)'
  BY DEF SerialInv
<1>1. /\ UNCHANGED <<up, entries, leaf, labels, draft, overlapped>> /\ pc[w] = "file"
      /\ pc' = [pc EXCEPT ![w] = "commit"] /\ up
  BY DEF AppendFile
<1>2. /\ OneAtATime /\ DraftsAreNew /\ DraftsOnLeaf
      /\ MemoryIsFile /\ CacheIsRebuilt /\ Trees
  BY <1>1 DEF SerialInv
<1>3. \A v \in Writers : pc'[v] = IF v = w THEN "commit" ELSE pc[v]
  BY <1>1 DEF IndInv, TypeOK
<1>4. \A v \in Writers : v # w => pc[v] = "idle" /\ pc'[v] = "idle"
  BY <1>1, <1>2, <1>3 DEF OneAtATime, Busy
<1>5. OneAtATime'
  BY <1>4 DEF OneAtATime, Busy
<1>6. DraftsAreNew' /\ DraftsOnLeaf' /\ CacheIsRebuilt'
  BY <1>1, <1>2, <1>3 DEF DraftsAreNew, DraftsOnLeaf, CacheIsRebuilt, ById
<1>7. MemoryIsFile' /\ Trees'
  <2>1. CASE tail # "clean"
    <3>1. garbled' = TRUE
      BY <2>1 DEF AppendFile
    <3> QED BY <1>1, <1>2, <3>1 DEF MemoryIsFile, Trees
  <2>2. CASE tail = "clean"
    <3>1. disk' = Append(disk, draft[w]) /\ garbled' = garbled /\ tail' = tail
      BY <2>2 DEF AppendFile
    <3>2. ~garbled => disk = entries
      BY <1>1, <1>2, <1>4, <2>2 DEF MemoryIsFile
    <3>3. MemoryIsFile'
      BY <1>1, <1>3, <1>4, <2>2, <3>1, <3>2 DEF MemoryIsFile
    <3>4. /\ entries \in Seq(Entry) /\ draft[w] \in Entry
          /\ draft[w].parent \in ById \cup {NullId} /\ draft[w].id \notin ById
      BY <1>1, <1>2 DEF IndInv, TypeOK, Strengthening, DraftsAreNew
    <3>5. TreeOf(entries) /\ TreeOf(Append(entries, draft[w]))
      BY <1>2, <3>4, TreeGrows DEF Trees, ById
    <3> QED BY <1>1, <3>1, <3>2, <3>3, <3>5 DEF Trees
  <2> QED BY <2>1, <2>2
<1> QED BY <1>5, <1>6, <1>7

(* A line of which only the newline is missing is one that the index does    *)
(* not have.                                                                 *)
LEMMA SerialFails ==
  ASSUME IndInv, SerialInv, NEW w \in Writers, NEW left \in CutOffs, AppendFileFails(w, left)
  PROVE  SerialInv'
<1>1. /\ Return(w) /\ pc[w] = "file" /\ up /\ CutOff(left, draft[w])
      /\ UNCHANGED <<up, entries, leaf, labels, overlapped>>
  BY DEF AppendFileFails
<1>2. ~overlapped' => \A v \in Writers : Busy(v) => v = w
  BY <1>1 DEF SerialInv, OneAtATime, Busy
<1>3. ~garbled' /\ tail' # "unended" => disk' = disk /\ ~garbled /\ tail # "unended"
  BY <1>1 DEF CutOff
<1>4. ASSUME ~overlapped', ~garbled' PROVE TreeOf(disk')
  <2>1. ~overlapped /\ ~garbled
    BY <1>1, <1>4, CutOffGrows DEF FileGrows
  <2>2. CASE disk' = disk
    BY <2>1, <2>2 DEF SerialInv, Trees
  <2>3. CASE disk' = Append(disk, draft[w]) /\ tail = "clean"
    <3>1. \A v \in Writers : pc[v] # "commit"
      BY <1>1, <1>2, <1>4 DEF Busy
    <3>2. disk = entries
      BY <1>1, <2>1, <2>3, <3>1 DEF SerialInv, MemoryIsFile
    <3>3. /\ entries \in Seq(Entry) /\ draft[w] \in Entry
          /\ draft[w].parent \in ById \cup {NullId} /\ draft[w].id \notin ById
      BY <1>1, <2>1 DEF IndInv, TypeOK, Strengthening, SerialInv, DraftsAreNew
    <3>4. TreeOf(entries)
      BY <2>1 DEF SerialInv, Trees
    <3> QED BY <2>3, <3>2, <3>3, <3>4, TreeGrows DEF ById
  <2> QED BY <1>1, <2>2, <2>3 DEF CutOff
<1> QED
  BY <1>1, <1>2, <1>3, <1>4, EmptyDraftType, SerialCaller DEF Return

(* The index catches up with the file.                                       *)
LEMMA SerialCommit ==
  ASSUME IndInv, SerialInv, NEW w \in Writers, Commit(w) PROVE SerialInv'
<1> SUFFICES ASSUME ~overlapped'
             PROVE  (/\ OneAtATime /\ DraftsAreNew /\ DraftsOnLeaf
                     /\ MemoryIsFile /\ CacheIsRebuilt /\ Trees)'
  BY DEF SerialInv
<1> DEFINE d == draft[w]
<1>1. /\ UNCHANGED <<disk, tail, garbled, up, overlapped>> /\ up /\ pc[w] = "commit"
      /\ entries' = Append(entries, d) /\ labels' = UpdateLabelCache(labels, d)
      /\ leaf' = LeafIdAfterEntry(d)
  BY DEF Commit
<1>2. /\ OneAtATime /\ DraftsAreNew /\ DraftsOnLeaf
      /\ MemoryIsFile /\ CacheIsRebuilt /\ Trees
  BY <1>1 DEF SerialInv
<1>3. PICK p \in {"idle", "summary"} : pc' = [pc EXCEPT ![w] = p]
  BY DEF Commit, Return
<1>4. \A v \in Writers : pc'[v] = IF v = w THEN p ELSE pc[v]
  BY <1>3 DEF IndInv, TypeOK
<1>5. \A v \in Writers : v # w => pc[v] = "idle" /\ pc'[v] = "idle"
  BY <1>1, <1>2, <1>4 DEF OneAtATime, Busy
<1>6. OneAtATime' /\ DraftsAreNew' /\ DraftsOnLeaf'
  BY <1>4, <1>5 DEF OneAtATime, DraftsAreNew, DraftsOnLeaf, Busy
<1>7. MemoryIsFile'
  BY <1>1, <1>2, <1>4, <1>5 DEF MemoryIsFile
<1>8. /\ entries \in Seq(Entry) /\ d \in Entry
      /\ d.parent \in ById \cup {NullId} /\ d.id \notin ById
  BY <1>1, <1>2 DEF IndInv, TypeOK, Strengthening, DraftsAreNew
<1>9. Trees'
  BY <1>1, <1>2, <1>8, TreeGrows DEF Trees, ById
<1>10. CacheIsRebuilt'
  <2>1. labels' = BuildLabelsById(Append(entries, d))
    BY <1>1, <1>2, <1>8, CacheGrows DEF CacheIsRebuilt
  <2>2. LeafIdAfter(Append(entries, d)) = LeafIdAfterEntry(d)
    <3>1. /\ Append(entries, d) # <<>>
          /\ Append(entries, d)[Len(Append(entries, d))] = d
      BY <1>8
    <3> QED BY <3>1 DEF LeafIdAfter
  <2> QED BY <1>1, <2>1, <2>2 DEF CacheIsRebuilt
<1> QED BY <1>6, <1>7, <1>9, <1>10

(* An empty index has no labels, no leaf, and is a tree.                     *)
LEMMA EmptyIndex ==
  /\ LeafIdAfter(<<>>) = NullId
  /\ BuildLabelsById(<<>>) = [i \in {} |-> NoLabel]
  /\ TreeOf(<<>>)
<1>1. Len(<<>>) = 0 /\ 1..0 = {}
  OBVIOUS
<1>2. {m \in 1..Len(<<>>) : <<>>[m].kind = "label"} = {}
  BY <1>1
<1>3. BuildLabelsById(<<>>) = [i \in {} |-> NoLabel]
  <2> DEFINE labelled == {<<>>[k].target : k \in {m \in 1..Len(<<>>) : <<>>[m].kind = "label"}}
  <2>1. labelled = {}
    BY <1>2
  <2> QED BY <2>1 DEF BuildLabelsById
<1>4. TreeOf(<<>>)
  <2>1. IdsOf(<<>>) = {}
    BY <1>1 DEF IdsOf
  <2> QED BY <1>1, <2>1 DEF TreeOf, DistinctIds, ParentsKnown, NoCycle
<1> QED BY <1>3, <1>4 DEF LeafIdAfter

LEMMA SerialInit == Init => SerialInv
<1> SUFFICES ASSUME Init PROVE SerialInv
  OBVIOUS
<1>1. /\ disk = <<>> /\ entries = <<>> /\ leaf = NullId /\ labels = [i \in {} |-> NoLabel]
      /\ \A w \in Writers : pc[w] = "idle"
  BY DEF Init
<1>2. OneAtATime /\ DraftsAreNew /\ DraftsOnLeaf /\ MemoryIsFile
  BY <1>1 DEF OneAtATime, DraftsAreNew, DraftsOnLeaf, MemoryIsFile, Busy
<1>3. CacheIsRebuilt /\ Trees
  BY <1>1, EmptyIndex DEF CacheIsRebuilt, Trees
<1> QED BY <1>2, <1>3 DEF SerialInv

LEMMA SerialCrash == ASSUME IndInv, SerialInv, Crash PROVE SerialInv'
<1>0. disk' = disk /\ (~garbled' => ~garbled)
  <2>1. CASE UNCHANGED <<disk, tail, garbled>>
    BY <2>1
  <2>2. ASSUME NEW w \in Writers, pc[w] = "file", CutOff("piece", draft[w])
        PROVE  disk' = disk /\ (~garbled' => ~garbled)
    BY <2>2, CutOffGrows DEF CutOff, CutOffs, FileGrows
  <2> QED BY <2>1, <2>2 DEF Crash
<1>1. /\ disk' = disk /\ (~garbled' => ~garbled) /\ UNCHANGED overlapped /\ ~up'
      /\ entries' = <<>> /\ leaf' = NullId /\ labels' = [i \in {} |-> NoLabel]
      /\ \A w \in Writers : pc'[w] = "idle"
  BY <1>0 DEF Crash
<1>2. (OneAtATime /\ DraftsAreNew /\ DraftsOnLeaf /\ MemoryIsFile)'
  BY <1>1 DEF OneAtATime, DraftsAreNew, DraftsOnLeaf, MemoryIsFile, Busy
<1>3. CacheIsRebuilt'
  BY <1>1, EmptyIndex DEF CacheIsRebuilt
<1>4. ~overlapped' => Trees'
  BY <1>1, EmptyIndex DEF SerialInv, Trees
<1> QED BY <1>2, <1>3, <1>4 DEF SerialInv

LEMMA SerialOpen == ASSUME IndInv, SerialInv, Open PROVE SerialInv'
<1>1. /\ UNCHANGED <<disk, garbled, pc, draft, overlapped>> /\ ~up /\ ~garbled
      /\ entries' = disk /\ leaf' = LeafIdAfter(disk) /\ labels' = BuildLabelsById(disk)
  BY DEF Open
<1>2. \A w \in Writers : pc[w] = "idle" /\ pc'[w] = "idle"
  BY <1>1 DEF IndInv, Strengthening
<1>3. (OneAtATime /\ DraftsAreNew /\ DraftsOnLeaf /\ MemoryIsFile)'
  BY <1>1, <1>2 DEF OneAtATime, DraftsAreNew, DraftsOnLeaf, MemoryIsFile, Busy
<1>4. CacheIsRebuilt'
  BY <1>1 DEF CacheIsRebuilt
<1>5. ~overlapped' => Trees'
  BY <1>1 DEF SerialInv, Trees
<1> QED BY <1>3, <1>4, <1>5 DEF SerialInv

LEMMA SerialNext == IndInv /\ SerialInv /\ [Next]_vars => SerialInv'
<1> SUFFICES ASSUME IndInv, SerialInv, [Next]_vars PROVE SerialInv'
  OBVIOUS
<1>1. ASSUME NEW w \in Writers, Step(w) PROVE SerialInv'
  <2>1. CASE AppendMessage(w)
    BY <2>1, EmptyDraftType, SerialBegin DEF AppendMessage
  <2>2. ASSUME NEW target \in ById, NEW text \in Labels \cup {NoLabel},
               AppendLabel(w, target, text)
        PROVE  SerialInv'
    <3> DEFINE e == [EmptyDraft EXCEPT !.kind = "label", !.target = target, !.text = text]
    <3>1. target \in Ids
      BY <1>1, CallerTypes
    <3>2. e \in Entry
      BY <3>1, EmptyDraftType DEF Entry, EntryKinds
    <3>3. BeginAppend(w, e)
      BY <2>2 DEF AppendLabel
    <3> HIDE DEF e
    <3> QED
      BY <3>2, <3>3, SerialBegin
  <2>3. ASSUME NEW target \in ById \cup {NullId}, NEW s \in BOOLEAN, MoveTo(w, target, s)
        PROVE  SerialInv'
    BY <2>3, SerialMove
  <2>4. CASE GetLeafId(w)
    BY <2>4, SerialLeaf
  <2>5. CASE AppendFile(w)
    BY <2>5, SerialWrite
  <2>6. ASSUME NEW left \in CutOffs, AppendFileFails(w, left) PROVE SerialInv'
    BY <2>6, SerialFails
  <2>7. CASE Commit(w)
    BY <2>7, SerialCommit
  <2>8. CASE BranchSummary(w)
    BY <2>8, SerialSummary
  <2> QED
    BY <1>1, <2>1, <2>2, <2>3, <2>4, <2>5, <2>6, <2>7, <2>8 DEF Step
<1>2. CASE NextWindow \/ UNCHANGED vars
  <2>1. UNCHANGED <<disk, tail, garbled, up, entries, leaf, labels, pc, draft, overlapped>>
    BY <1>2 DEF NextWindow, vars
  <2> QED
    BY <2>1 DEF SerialInv, OneAtATime, DraftsAreNew, DraftsOnLeaf, MemoryIsFile,
                CacheIsRebuilt, Trees, Busy, ById
<1> QED
  BY <1>1, <1>2, SerialCrash, SerialOpen DEF Next

(* While appends come one at a time, SerialInv holds.                        *)
THEOREM Serial == Spec => []SerialInv
<1> QED
  BY Inductive, SerialInit, SerialNext, PTL DEF Spec

(* With no append under way, closing an intact file and opening it again     *)
(* gives the entries, the leaf and the labels that were in memory.           *)
THEOREM ReopeningRestores == Spec => []ReopenRestores
<1>1. SerialInv => ReopenRestores
  BY DEF SerialInv, ReopenRestores, MemoryIsFile, CacheIsRebuilt, Idle
<1> QED
  BY <1>1, Serial, PTL

(* getPathToRoot ends for every entry.                                       *)
THEOREM PathsToRootEnd == Spec => []PathsEnd
<1>1. SerialInv => PathsEnd
  BY DEF SerialInv, PathsEnd, Trees, TreeOf
<1> QED
  BY <1>1, Serial, PTL

(* A message or a label that is committed hangs below the leaf it finds.     *)
THEOREM BranchContinues == Spec => AppendContinuesBranch
<1> DEFINE Continues ==
      \A w \in Writers :
       (/\ ~overlapped /\ pc[w] = "commit" /\ pc'[w] = "idle"
        /\ draft[w].kind \in {"entry", "label"})
         => draft[w].parent = leaf
<1>1. SerialInv => Continues
  BY DEF SerialInv, DraftsOnLeaf
<1>2. SerialInv /\ [Next]_vars => [Continues]_vars
  BY <1>1
<1> QED
  BY <1>2, Serial, PTL DEF Spec, AppendContinuesBranch
=============================================================================
