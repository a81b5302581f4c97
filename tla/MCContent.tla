----------------------------- MODULE MCContent -----------------------------
(***************************************************************************)
(* What owners make: `subject` says which component a behaviour is about;  *)
(* the others stay in their initial states.  The instances: two creation   *)
(* requests with one key; two requests on the history of one note, written *)
(* up to three times; two requests that fill a space of two notes with up  *)
(* to four, counted in pages of one; two requests on one document and two  *)
(* knowledge bases; and two requests on up to three model overrides of at  *)
(* most one.                                                               *)
(***************************************************************************)
EXTENDS SpaceCreation, Notes, Ingestion, ManagedModels, TLC

CONSTANTS r1, r2, i1, i2, n1, n2, n3, n4, c1, c2, u1, u2, d1, b1, b2

MCRequests == {r1, r2}
MCIds == {i1, i2}
MCNoteIds == {n1, n2, n3, n4}
MCModelIds == {n1, n2, n3}
MCContents == {c1, c2}
MCRank == [n \in MCNoteIds |-> CASE n = n1 -> 1 [] n = n2 -> 2 [] n = n3 -> 3 [] n = n4 -> 4]
MCSizes == [c \in MCContents |-> IF c = c1 THEN 1 ELSE 2]
MCUsers == {u1, u2}
MCManagers == {u1}
MCDocs == {d1}
MCBases == {b1, b2}

VARIABLE subject

allVars == <<subject, vars, noteVars, ingestVars, modelVars>>

MCInit ==
  /\ subject \in {"space", "history", "quota", "documents", "models"}
  /\ Init /\ NotesInit /\ IngestInit /\ ModelsInit
  /\ subject # "space" => vision

\* Bound of the history: one note.
OneNote == \A n \in MCNoteIds : note'[n].version # 0 => n = n1

\* Bounds of the quota.  Notes are given out and listed in the order of their
\* ids, and written four times in all; one check is blurred.
FourWrites ==
  /\ note'[n1].version + note'[n2].version + note'[n3].version + note'[n4].version <= 4
  /\ note'[n4].version # 0 => note'[n3].version # 0
  /\ note'[n3].version # 0 => note'[n2].version # 0
  /\ note'[n2].version # 0 => note'[n1].version # 0
  /\ blurred' <= 1

\* Requests create, delete, or lengthen a note as it is, one of them until there
\* is a note; their writes are answered.
QuotaRequests ==
  /\ \A r \in MCRequests :
       /\ edit'[r].pc # "abandoned"
       /\ edit'[r].pc # "idle" => edit'[r].op \in {"create", "update", "delete"}
       /\ edit'[r].pc = "read" /\ edit'[r].op = "update" =>
            LET n == note[edit'[r].note] IN
            n.live /\ edit'[r].expected = n.version /\ n.content = c1 /\ edit'[r].content = c2
  /\ (\A r \in MCRequests : edit'[r].pc # "idle") => \E n \in MCNoteIds : note'[n].version # 0

\* A write is recorded or, if it made the note, taken back.
WritesRecorded ==
  \A n \in MCNoteIds :
    note'[n].live /\ revisions'[n][note'[n].version] = NoContent =>
      \E r \in MCRequests : edit'[r].note = n /\ edit'[r].pc \in {"record", "undo"}

\* Models are given out in the order of their ids.
ModelsInOrder ==
  /\ models'[n3].born => models'[n2].born
  /\ models'[n2].born => models'[n1].born

QuotaCases == QuotaRequests /\ FourWrites /\ WritesRecorded

MCNext ==
  /\ UNCHANGED subject
  /\ \/ /\ subject = "space" /\ Next
        /\ UNCHANGED <<noteVars, ingestVars, modelVars>>
     \/ /\ subject = "history" /\ NotesNext /\ OneNote
        /\ UNCHANGED <<vars, ingestVars, modelVars>>
     \/ /\ subject = "quota" /\ NotesNext /\ QuotaCases
        /\ UNCHANGED <<vars, ingestVars, modelVars>>
     \/ /\ subject = "documents" /\ IngestNext
        /\ UNCHANGED <<vars, noteVars, modelVars>>
     \/ /\ subject = "models" /\ ModelsNext /\ ModelsInOrder
        /\ UNCHANGED <<vars, noteVars, ingestVars>>

MCSpec == MCInit /\ [][MCNext]_allVars

MCSymmetry == Permutations(MCRequests) \cup Permutations(MCBases)

\* The types of all components.
AllTypesOK == TypeOK /\ NotesTypeOK /\ IngestTypeOK /\ ModelsTypeOK
============================================================================
