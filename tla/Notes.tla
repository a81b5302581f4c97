------------------------------- MODULE Notes -------------------------------
(***************************************************************************)
(* The notes of one personal space (note/service.go,                       *)
(* revision_repository.go, server/notes.go, notespolicy): the gateway      *)
(* checks owner, version and quota and then writes with another upstream   *)
(* call, and keeps the history of each note in its own table with a third. *)
(* Several requests of the owner are in progress at once (tabs, autosave,  *)
(* retries), may die between calls, and a write whose request gave up may  *)
(* be processed later.  The quota is counted over pages of the list, with  *)
(* an upstream call for each.                                              *)
(***************************************************************************)
EXTENDS Integers, FiniteSets

CONSTANTS
  NoteRequests,  \* slots for requests in progress, or with a write on its way
  NoteIds,       \* ids the upstream gives to new notes
  NoteUsers,     \* who may ask
  Owner,         \* the owner of the space, its profile says
  Contents,      \* title, text and status of a note, normalised
  SizeOf,        \* SizeOf[c]: bytes of the text
  MaxSize,       \* MaxNoteBytes
  MaxCount,      \* MaxNoteCount
  MaxBytes,      \* MaxCorpusBytes
  PageSize,      \* MaxPageSize
  Rank,          \* the order in which the upstream lists notes
  MaxVersion,    \* bound: how often a note is written
  NoContent      \* no content

ASSUME NotesAssumption ==
  /\ NoContent \notin Contents \cup NoteIds
  /\ SizeOf \in [Contents -> Nat] /\ MaxSize \in Nat
  /\ MaxCount \in Nat \ {0} /\ MaxBytes \in Nat /\ MaxVersion \in Nat \ {0}
  /\ PageSize \in Nat \ {0} /\ Rank \in [NoteIds -> Nat]
  /\ \A m, n \in NoteIds : Rank[m] = Rank[n] => m = n
  /\ IsFiniteSet(NoteIds) /\ IsFiniteSet(NoteRequests) /\ NoteRequests # {}

VARIABLES
  note,       \* upstream: note[n]
  revisions,  \* revisions[n][v]: the row of note_revisions
  edit,       \* edit[r]: where request r is, with its locals
  wrote,      \* history: wrote[n][v], what the upstream held at version v
  raced,      \* history: versions written over by who had read an older one
  shifted,    \* history: who counts a list that was changed since its first page
  blurred     \* history: checks that such a count let pass and the notes did not

noteVars == <<note, revisions, edit, wrote, raced, shifted, blurred>>

Versions == 1..MaxVersion
NoteOperations == {"create", "update", "restore", "get", "delete"}
NotePoints == {"idle", "read", "snapshot", "target", "quota", "write", "abandoned",
               "record", "undo", "delete"}
Note == [version : 0..MaxVersion, content : Contents \cup {NoContent}, live : BOOLEAN]
Edit == [pc : NotePoints, op : NoteOperations, note : NoteIds \cup {NoContent},
         content : Contents \cup {NoContent}, old : Contents \cup {NoContent},
         expected : 0..MaxVersion, target : 0..MaxVersion, seen : 0..MaxVersion,
         page : Nat, counted : Nat, found : Nat]  \* of the quota: pages, notes, bytes

UnbornNote == [version |-> 0, content |-> NoContent, live |-> FALSE]
NoEdit == [pc |-> "idle", op |-> "get", note |-> NoContent, content |-> NoContent,
           old |-> NoContent, expected |-> 0, target |-> 0, seen |-> 0,
           page |-> 0, counted |-> 0, found |-> 0]

NotesTypeOK ==
  /\ note \in [NoteIds -> Note]
  /\ revisions \in [NoteIds -> [Versions -> Contents \cup {NoContent}]]
  /\ edit \in [NoteRequests -> Edit]
  /\ wrote \in [NoteIds -> [Versions -> Contents \cup {NoContent}]]
  /\ raced \subseteq NoteIds \X Versions
  /\ shifted \subseteq NoteRequests /\ blurred \in Nat

NotesInit ==
  /\ note = [n \in NoteIds |-> UnbornNote]
  /\ revisions = [n \in NoteIds |-> [v \in Versions |-> NoContent]]
  /\ edit = [r \in NoteRequests |-> NoEdit]
  /\ wrote = [n \in NoteIds |-> [v \in Versions |-> NoContent]]
  /\ raced = {}
  /\ shifted = {} /\ blurred = 0
---------------------------------------------------------------------------
quotaHistory == <<shifted, blurred>>
noteHistory == <<wrote, raced, quotaHistory>>

NoteAt(r, pc) == edit[r].pc = pc
NoteGoes(r, pc) == edit' = [edit EXCEPT ![r].pc = pc]
NoteLeaves(r) == edit' = [edit EXCEPT ![r] = NoEdit]

\* authorize with notespolicy: nobody but the owner, whatever the operation.
NoteAuthorized(user) == user = Owner

\* normalizeWrite: text within the limit of one note.
Writable(content) == SizeOf[content] <= MaxSize

Live == {n \in NoteIds : note[n].live}
Count == Cardinality(Live)

\* The bytes of the corpus: a byte is told by its note and its place in it.
BytesOf(n, text) == {n} \X (1..SizeOf[text])
TextsOf(ns) == UNION {BytesOf(n, note[n].content) : n \in ns}
Corpus == TextsOf(Live)
Bytes == Cardinality(Corpus)

\* The notes on the first p pages of the list, and those on page p.
UpToPage(p) ==
  {n \in Live : Cardinality({m \in Live : Rank[m] < Rank[n]}) < p * PageSize}
OnPage(p) == UpToPage(p) \ UpToPage(p - 1)

\* POST /notes and /notes/import.
StartCreate(r, user, content) ==
  /\ NoteAt(r, "idle") /\ NoteAuthorized(user) /\ Writable(content)
  /\ edit' = [edit EXCEPT ![r] =
       [NoEdit EXCEPT !.pc = "quota", !.op = "create", !.content = content]]
  /\ UNCHANGED <<note, revisions, noteHistory>>

\* GET, PATCH, DELETE and restore of a note the client has seen.
Open(r, user, op, n, content, expected, target) ==
  /\ NoteAt(r, "idle") /\ NoteAuthorized(user)
  /\ note[n].version # 0 /\ expected <= note[n].version
  /\ edit' = [edit EXCEPT ![r] =
       [NoEdit EXCEPT !.pc = "read", !.op = op, !.note = n, !.content = content,
                         !.expected = expected, !.target = target]]
  /\ UNCHANGED <<note, revisions, noteHistory>>

StartGet(r, user, n) == Open(r, user, "get", n, NoContent, 0, 0)
StartDelete(r, user, n) == Open(r, user, "delete", n, NoContent, 0, 0)
StartUpdate(r, user, n, content, expected) ==
  Writable(content) /\ Open(r, user, "update", n, content, expected, 0)
StartRestore(r, user, n, expected, target) ==
  target \in 1..expected - 1 /\ Open(r, user, "restore", n, NoContent, expected, target)

\* GetManualKnowledge: the note as it is now, or an error.
ReadNote(r) ==
  LET n == edit[r].note IN
  /\ NoteAt(r, "read")
  /\ IF ~note[n].live THEN NoteLeaves(r)
     ELSE IF edit[r].op = "delete" THEN NoteGoes(r, "delete")
     ELSE edit' = [edit EXCEPT ![r].pc = "snapshot",
                             ![r].seen = note[n].version, ![r].old = note[n].content]
  /\ UNCHANGED <<note, revisions, noteHistory>>

\* RevisionRepository.Record: the first row of a version stays.
RecordNote(n, v, content) ==
  revisions' = [revisions EXCEPT ![n][v] = IF @ = NoContent THEN content ELSE @]

\* Record refuses another content for a version it has.
Recordable(n, v, content) == revisions[n][v] \in {NoContent, content}

\* What was read is recorded; then the client's version is compared with it.
Snapshot(r) ==
  /\ NoteAt(r, "snapshot")
  /\ Recordable(edit[r].note, edit[r].seen, edit[r].old)
  /\ RecordNote(edit[r].note, edit[r].seen, edit[r].old)
  /\ IF edit[r].op = "get" \/ edit[r].expected # edit[r].seen THEN NoteLeaves(r)
     ELSE edit' = [edit EXCEPT ![r].expected = 0, ![r].pc =
            IF edit[r].op = "restore" THEN "target" ELSE "quota"]
  /\ UNCHANGED <<note, noteHistory>>

\* The revision to restore, if the history has it.
Target(r) ==
  LET c == revisions[edit[r].note][edit[r].target] IN
  /\ NoteAt(r, "target")
  /\ IF c = NoContent THEN NoteLeaves(r)
     ELSE edit' = [edit EXCEPT ![r].pc = "quota", ![r].content = c, ![r].target = 0]
  /\ UNCHANGED <<note, revisions, noteHistory>>

Replaced(r) == IF edit[r].op = "create" THEN 0 ELSE SizeOf[edit[r].old]
Projected(r, bytes) == bytes + SizeOf[edit[r].content] - Replaced(r)

\* Where the count of r stands with the page that the upstream answers now.
NextPage(r) == edit[r].page + 1
Counted(r) == edit[r].counted + Cardinality(OnPage(NextPage(r)))
Found(r) == edit[r].found + Cardinality(TextsOf(OnPage(NextPage(r))))

\* enforceQuota, first page: a creation needs a place among the notes of the
\* space, of which every page says how many there are.
NoPlace(r) == edit[r].page = 0 /\ edit[r].op = "create" /\ Count >= MaxCount

\* The loop goes on until as many notes as there are have been counted, and
\* fails on an empty page before that.
NextPageNeeded(r) == Counted(r) < Count
NoNextPage(r) == NextPageNeeded(r) /\ OnPage(NextPage(r)) = {}

\* A slip: the bytes that the write adds are not counted.
WithinQuotaBefore(r) == Found(r) <= MaxBytes

\* The bytes found, with those that this write adds and those it replaces.
WithinQuota(r) == Projected(r, Found(r)) <= MaxBytes

CountPage(r) ==
  /\ NoteAt(r, "quota")
  /\ ~NoPlace(r) /\ NextPageNeeded(r) /\ ~NoNextPage(r)
  /\ edit' = [edit EXCEPT ![r].page = NextPage(r),
                         ![r].counted = Counted(r), ![r].found = Found(r)]
  /\ UNCHANGED <<note, revisions, noteHistory>>

\* The last page: the write may go on.
PassQuota(r) ==
  /\ NoteAt(r, "quota")
  /\ ~NoPlace(r) /\ ~NextPageNeeded(r) /\ WithinQuota(r)
  /\ edit' = [edit EXCEPT ![r].pc = "write", ![r].old = NoContent,
                         ![r].page = 0, ![r].counted = 0, ![r].found = 0]
  /\ blurred' = IF r \in shifted /\ Projected(r, Bytes) > MaxBytes
                  THEN blurred + 1 ELSE blurred
  /\ shifted' = shifted \ {r}
  /\ UNCHANGED <<note, revisions, wrote, raced>>

FailQuota(r) ==
  /\ NoteAt(r, "quota")
  /\ NoPlace(r) \/ NoNextPage(r) \/ (~NextPageNeeded(r) /\ ~WithinQuota(r))
  /\ NoteLeaves(r) /\ shifted' = shifted \ {r}
  /\ UNCHANGED <<note, revisions, wrote, raced, blurred>>
---------------------------------------------------------------------------
\* Whoever has counted a page and has not come to the last counts on a list
\* that is about to change.
Shift ==
  /\ shifted' = shifted \cup {r \in NoteRequests : NoteAt(r, "quota") /\ edit[r].page # 0}
  /\ UNCHANGED blurred

Born(n) == note[n].version # 0

\* The upstream holds `content` as the next version of n.
Held(n, content) ==
  /\ note[n].version < MaxVersion
  /\ note' = [note EXCEPT ![n] =
       [version |-> @.version + 1, content |-> content, live |-> TRUE]]
  /\ wrote' = [wrote EXCEPT ![n][note[n].version + 1] = content]

\* A slip: the new version is taken to be the one that was read, plus one.
WrittenExpected(r, n) ==
  IF NoteAt(r, "write")
    THEN edit' = [edit EXCEPT ![r].pc = "record", ![r].note = n,
                            ![r].seen = IF @ < MaxVersion THEN @ + 1 ELSE @]
    ELSE NoteLeaves(r)

\* Create, Update: the upstream takes the write; a request that is still there
\* goes on with the note as answered, in which `seen` is the new version.
Written(r, n) ==
  IF NoteAt(r, "write")
    THEN edit' = [edit EXCEPT ![r].pc = "record", ![r].note = n,
                            ![r].seen = note[n].version + 1]
    ELSE NoteLeaves(r)

CreateNote(r, n) ==
  /\ edit[r].pc \in {"write", "abandoned"} /\ edit[r].op = "create"
  /\ ~Born(n)
  /\ Held(n, edit[r].content) /\ Shift
  /\ Written(r, n)
  /\ UNCHANGED <<revisions, raced>>

UpdateNote(r) ==
  LET n == edit[r].note IN
  /\ edit[r].pc \in {"write", "abandoned"} /\ edit[r].op # "create"
  /\ note[n].live
  /\ Held(n, edit[r].content) /\ Shift
  /\ raced' = IF note[n].version = edit[r].seen THEN raced
              ELSE raced \cup {<<n, note[n].version>>}
  /\ Written(r, n)
  /\ UNCHANGED revisions

\* The upstream refuses, also because the note is gone.
RefuseWrite(r) ==
  /\ edit[r].pc \in {"write", "abandoned"}
  /\ NoteLeaves(r)
  /\ UNCHANGED <<note, revisions, noteHistory>>

\* No answer in time: the write may be processed later.
LoseWrite(r) ==
  /\ NoteAt(r, "write")
  /\ NoteGoes(r, "abandoned")
  /\ UNCHANGED <<note, revisions, noteHistory>>

\* The answered version is recorded.
RecordWrite(r) ==
  /\ NoteAt(r, "record")
  /\ Recordable(edit[r].note, edit[r].seen, edit[r].content)
  /\ RecordNote(edit[r].note, edit[r].seen, edit[r].content)
  /\ NoteLeaves(r)
  /\ UNCHANGED <<note, noteHistory>>

\* A history write fails; a creation then takes its note back.
NoteRecordFails(r) ==
  /\ edit[r].pc \in {"snapshot", "record"}
  /\ IF NoteAt(r, "record") /\ edit[r].op = "create"
       THEN NoteGoes(r, "undo") ELSE NoteLeaves(r)
  /\ UNCHANGED <<note, revisions, noteHistory>>

DeleteNote(r) ==
  /\ edit[r].pc \in {"undo", "delete"}
  /\ note' = [note EXCEPT ![edit[r].note].live = FALSE]
  /\ NoteLeaves(r) /\ Shift
  /\ UNCHANGED <<revisions, wrote, raced>>

\* The process stops, the client goes away, or a call fails with nothing done.
NoteDies(r) ==
  /\ edit[r].pc \notin {"idle", "write", "abandoned"}
  /\ NoteLeaves(r) /\ shifted' = shifted \ {r}
  /\ UNCHANGED <<note, revisions, wrote, raced, blurred>>

StartNote(r, user) ==
  \/ \E c \in Contents : StartCreate(r, user, c)
  \/ \E n \in NoteIds :
       \/ StartGet(r, user, n) \/ StartDelete(r, user, n)
       \/ \E e \in Versions :
            \/ \E c \in Contents : StartUpdate(r, user, n, c, e)
            \/ \E t \in Versions : StartRestore(r, user, n, e, t)

NotesNext ==
  \E r \in NoteRequests :
    \/ \E user \in NoteUsers : StartNote(r, user)
    \/ ReadNote(r) \/ Snapshot(r) \/ Target(r)
    \/ CountPage(r) \/ PassQuota(r) \/ FailQuota(r)
    \/ \E n \in NoteIds : CreateNote(r, n)
    \/ UpdateNote(r) \/ RefuseWrite(r) \/ LoseWrite(r)
    \/ RecordWrite(r) \/ NoteRecordFails(r) \/ DeleteNote(r) \/ NoteDies(r)

NotesSpec == NotesInit /\ [][NotesNext]_noteVars
---------------------------------------------------------------------------
\* A revision is what the upstream held at that version: no race of editors,
\* late write or failure in between files one text under another's number.
HistoryIsTrue ==
  \A n \in NoteIds, v \in Versions :
    revisions[n][v] # NoContent => revisions[n][v] = wrote[n][v]

\* A version that was written over can be read and restored, unless whoever
\* wrote over it had not seen it, and its own writer never got to record it.
NothingSeenIsLost ==
  \A n \in NoteIds, v \in Versions :
    v < note[n].version /\ revisions[n][v] = NoContent => <<n, v>> \in raced

\* The history of a note is true and complete: restore gives back what was
\* there, whoever edited at once and wherever requests ended.
HistoryIsKept == HistoryIsTrue /\ NothingSeenIsLost

\* The quota is checked before the note is created: requests at once may pass
\* it, each by one note and its bytes, and no further.  A count that goes over
\* more than one page while others write or delete may miss notes: each such
\* check that lets pass what the notes do not may take the space one note's
\* bytes further, and without one the bound is that of the requests at once.
Excess == (Cardinality(NoteRequests) - 1 + blurred) * MaxSize

QuotaExceededByRaceOnly ==
  /\ Count < MaxCount + Cardinality(NoteRequests)
  /\ Bytes <= MaxBytes + Excess
---------------------------------------------------------------------------
Texts == {c \in Contents : Writable(c)}

\* What a request knows at each of its points: which note it is about, which of
\* its versions it has seen or written, and with which text.
Knowing(r) ==
  LET w == edit[r]  n == edit[r].note IN
  /\ w.pc \in {"read", "snapshot", "target", "record", "undo", "delete"}
       \/ (w.pc \in {"quota", "write", "abandoned"} /\ w.op # "create")
         => n \in NoteIds /\ Born(n)
  /\ w.pc = "read" => w.op # "create"
  /\ w.pc = "snapshot" => w.op \in {"get", "update", "restore"}
  /\ w.pc = "target" => w.op = "restore"
  /\ w.pc \in {"read", "snapshot", "target"} =>
       /\ w.op = "update" => w.content \in Texts
       /\ w.op = "restore" => w.target \in Versions
  /\ w.pc \in {"quota", "write", "abandoned"} =>
       w.op \in {"create", "update", "restore"} /\ w.content \in Texts
  /\ w.pc = "snapshot" => w.seen \in 1..note[n].version /\ w.old = wrote[n][w.seen]
  /\ w.pc = "target" \/ (w.pc \in {"quota", "write", "abandoned"} /\ w.op # "create")
       => w.seen \in 1..note[n].version /\ revisions[n][w.seen] # NoContent
  /\ w.pc = "record" => w.seen \in 1..note[n].version /\ w.content = wrote[n][w.seen]

\* The versions of a note up to its present one have been written.
VersionsWritten ==
  \A n \in NoteIds :
    /\ \A v \in Versions :
         /\ v <= note[n].version => wrote[n][v] \in Texts
         /\ v > note[n].version => wrote[n][v] = NoContent
    /\ Born(n) => note[n].content = wrote[n][note[n].version]
    /\ note[n].live => Born(n)

\* The inductive invariant of the history.
NotesInv ==
  /\ NotesTypeOK /\ (\A r \in NoteRequests : Knowing(r))
  /\ VersionsWritten /\ HistoryIsTrue /\ NothingSeenIsLost
---------------------------------------------------------------------------
\* A count whose list has not changed is exact: it has the notes and bytes of
\* the pages it read.
CountIsExact ==
  \A r \in NoteRequests :
    LET w == edit[r]  ns == UpToPage(edit[r].page) IN
    /\ r \notin shifted =>
         w.counted = Cardinality(ns) /\ w.found = Cardinality(TextsOf(ns))
    /\ w.pc # "quota" => w.page = 0
    /\ w.page = 0 => r \notin shifted

\* The quota was checked and the write may still come; or the place of a new
\* note was, and the bytes are being counted.
MayWrite(r) == edit[r].pc \in {"write", "abandoned"}
Creating ==
  {r \in NoteRequests :
     edit[r].op = "create" /\ (MayWrite(r) \/ (NoteAt(r, "quota") /\ edit[r].page # 0))}

\* A request on its way to write over a note foresees the text it read until
\* its quota is checked, and then the text it will write.
Rewrites(r) ==
  /\ edit[r].pc \in {"snapshot", "target", "quota", "write", "abandoned"}
  /\ edit[r].op \in {"update", "restore"}
TextOf(r) == IF MayWrite(r) THEN edit[r].content ELSE edit[r].old

Sized == \A r \in NoteRequests : Rewrites(r) => TextOf(r) \in Texts

InMind(r) ==
  IF Rewrites(r) /\ note[edit[r].note].live THEN BytesOf(edit[r].note, TextOf(r)) ELSE {}
ToCreate(r) ==
  IF MayWrite(r) /\ edit[r].op = "create" THEN BytesOf(r, edit[r].content) ELSE {}

Foreseen == Corpus \cup UNION {InMind(r) : r \in NoteRequests}
ForeseenNew == UNION {ToCreate(r) : r \in NoteRequests}

\* What r foresees is there already, or was checked against the quota.
Fits(r) ==
  \/ InMind(r) \subseteq Corpus /\ ToCreate(r) = {}
  \/ MayWrite(r) /\ Cardinality(Corpus \cup InMind(r)) + Cardinality(ToCreate(r)) <= MaxBytes

\* Writes and deletions add nothing to what is foreseen, a check adds within the
\* quota or the others' sizes, since one request always fits: whoever wrote last
\* foresees nothing.  A check that was blurred adds the size of one note.
ForeseenIsBounded ==
  /\ Sized
  /\ blurred = 0 => \E r \in NoteRequests : Fits(r)
  /\ Cardinality(Foreseen) + Cardinality(ForeseenNew) <= MaxBytes + Excess
  /\ Count + Cardinality(Creating) < MaxCount + Cardinality(NoteRequests)

\* The inductive invariant of the quota.
QuotaInv == CountIsExact /\ ForeseenIsBounded
===========================================================================
