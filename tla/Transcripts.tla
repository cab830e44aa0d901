------------------------------ MODULE Transcripts ------------------------------
(***************************************************************************)
(* The transcripts of the sessions: every program that runs a session      *)
(* writes, for each phrase it speaks, a row named by the session and the   *)
(* number its own chunker gave the phrase (session/pipeline.py, persist;   *)
(* db/sessions.py, record_transcript).  The statement is an upsert that    *)
(* replaces the translation of a row it finds, not its source text.        *)
(*                                                                         *)
(* One target language; a text is the program whose phrase it is.          *)
(***************************************************************************)
EXTENDS SessionStore

CONSTANT MaxChunks  \* bound on the phrases of each program

ASSUME TranscriptAssumption == MaxChunks \in [Programs -> Nat]

VARIABLES
  rows,   \* session_transcripts: the texts of each session's rows, by chunk_id
  chunk   \* the chunk_id of the last phrase each program has written

Chunks == UNION {1..MaxChunks[p] : p \in Programs}
tvars == <<vars, rows, chunk>>

TInit ==
  /\ Init
  /\ rows = [s \in Programs |-> [c \in Chunks |-> [source |-> Nobody, translated |-> Nobody]]]
  /\ chunk = [p \in Programs |-> 0]

\* record_transcript: INSERT, or on a row that is there DO UPDATE.
Upserted(row, p) ==
  [source |-> IF row.source = Nobody THEN p ELSE row.source, translated |-> p]
RecordTranscript(s, c, p) == rows' = [rows EXCEPT ![s][c] = Upserted(@, p)]

\* The session a program writes to, config.session_id.
NewestOfRoom(p) ==
  LET inRoom == {s \in LiveSessions : RoomOf[s] = RoomOf[p]}
  IN  IF inRoom = {} THEN runs[p] ELSE CHOOSE s \in inRoom : Newest(s, inRoom)
SessionId(p) == runs[p]

\* The next phrase that is spoken and written: those before it were skipped or
\* blank, or failed to be spoken or to be written, which is swallowed.
Persist(p) ==
  /\ program[p] = "running"
  /\ \E c \in (chunk[p] + 1)..MaxChunks[p] :
       /\ RecordTranscript(SessionId(p), c, p)
       /\ chunk' = [chunk EXCEPT ![p] = c]
  /\ UNCHANGED vars

TNext == (Next /\ UNCHANGED <<rows, chunk>>) \/ \E p \in Programs : Persist(p)

TSpec == TInit /\ [][TNext]_tvars

-----------------------------------------------------------------------------

\* transcript: the rows of a session.
Transcript(s) == {row \in {rows[s][c] : c \in Chunks} : row.translated # Nobody}

\* A transcript has the phrases of the program whose session it is, each
\* translation beside its own source text, unless a second program took the
\* session up: the numbers of its phrases begin again, and the upsert then puts
\* its translations beside the first one's texts (db/sessions.py:272-275).
TranscriptsPaired ==
  \A s \in Programs :
    ~Shared(s) => \A row \in Transcript(s) : row.source = s /\ row.translated = s
=============================================================================
