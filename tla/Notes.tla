-------------------------------- MODULE Notes --------------------------------
(***************************************************************************)
(* Notes: services/notes_service.rs with the table it keeps, and the part  *)
(* of stores/readerStore.ts that shows the notes of the open book.  The    *)
(* service's commands run in the order they were sent; their answers may   *)
(* find the store with another book, another session or other notes than   *)
(* it had when it asked.                                                   *)
(***************************************************************************)
EXTENDS Books, Naturals, Sequences, FiniteSets, Functions

CONSTANTS NoteId,     \* uuids
          Text,       \* content, colour and place of a note, as normalize_note_fields leaves it
          MaxCalls    \* bound: commands and answers under way

ASSUME NotesAssumption == None \notin NoteId

VARIABLES notes,      \* the table: book and text of each note, or None
          reader,     \* the store: the open book, the notes it shows, whether to load them
          calls,      \* commands on their way to the service, in order
          answers,    \* answers on their way back
          raced       \* notes changed while a change of them was under way

noteVars == <<notes, reader, calls, answers, raced>>

NoteRow == [book: Book, text: Text]
NoNotes == [n \in NoteId |-> None]
ClosedReader == [book |-> None, shown |-> NoNotes, due |-> FALSE]

\* live: the session that asked is the current one; fresh: nothing was asked or answered
\* since that makes this list one of the past (notesRequest and notesRevision).
Call(op, n, b, t) ==
    [op |-> op, note |-> n, book |-> b, text |-> t, live |-> TRUE, fresh |-> TRUE]

NotesOf(b) == [n \in NoteId |-> IF notes[n] # None /\ notes[n].book = b
                                THEN notes[n].text ELSE None]

UnderWay == Range(calls) \cup {a.call : a \in answers}
Sends(c) ==
    /\ Len(calls) + Cardinality(answers) < MaxCalls
    /\ calls' = Append(calls, c)
    /\ raced' = IF c.note # None /\ \E d \in UnderWay : d.note = c.note
                THEN raced \cup {c.note} ELSE raced

\* What becomes of the commands and answers under way when f happens to each of them.
Marked(f(_)) ==
    /\ calls' = [i \in DOMAIN calls |-> f(calls[i])]
    /\ answers' = {[a EXCEPT !.call = f(a.call)] : a \in answers}
Retire(c) == [c EXCEPT !.live = FALSE, !.fresh = FALSE]
Outdate(c) == [c EXCEPT !.fresh = FALSE]

-----------------------------------------------------------------------------
(* The service: one transaction each, after the book or the note was found. *)

Answer(c, ok, row, list) == [call |-> c, ok |-> ok, row |-> row, list |-> list]

Serves(op) ==
    /\ calls # <<>> /\ Head(calls).op = op
    /\ calls' = Tail(calls)
    /\ UNCHANGED <<reader, raced>>
Done(row, list) == answers' = answers \cup {Answer(Head(calls), TRUE, row, list)}

ListNotes ==
    LET b == Head(calls).book
    IN  /\ Serves("list") /\ b \in books
        /\ Done(None, NotesOf(b))
        /\ UNCHANGED notes

CreateNote ==
    LET c == Head(calls)
    IN  /\ Serves("create") /\ c.book \in books
        /\ notes' = [notes EXCEPT ![c.note] = [book |-> c.book, text |-> c.text]]
        /\ Done(notes'[c.note], NoNotes)

\* The book of a note never changes.
UpdateNote ==
    LET c == Head(calls)
    IN  /\ Serves("update") /\ notes[c.note] # None
        /\ notes' = [notes EXCEPT ![c.note].text = c.text]
        /\ Done(notes'[c.note], NoNotes)

DeleteNote ==
    LET c == Head(calls)
    IN  /\ Serves("delete") /\ notes[c.note] # None
        /\ notes' = [notes EXCEPT ![c.note] = None]
        /\ Done(None, NoNotes)

\* INVALID_ARGUMENT, BOOK_NOT_FOUND, NOTE_NOT_FOUND, or the database fails.
RefuseNote ==
    /\ calls # <<>>
    /\ calls' = Tail(calls)
    /\ answers' = answers \cup {Answer(Head(calls), FALSE, None, NoNotes)}
    /\ UNCHANGED <<notes, reader, raced>>

-----------------------------------------------------------------------------
(* The store. *)

OpenReader(b) ==
    /\ b \in books
    /\ reader' = [book |-> b, shown |-> NoNotes, due |-> TRUE]
    /\ Marked(Retire)
    /\ raced' = {}
    /\ UNCHANGED notes

CloseReader ==
    /\ reader.book # None
    /\ reader' = ClosedReader
    /\ Marked(Retire)
    /\ raced' = {}
    /\ UNCHANGED notes

\* Once the book is displayed.
LoadNotes ==
    /\ reader.book # None /\ reader.due
    /\ Sends(Call("list", None, reader.book, None))
    /\ reader' = [reader EXCEPT !.due = FALSE]
    /\ UNCHANGED <<notes, answers>>

\* An id that nothing refers to any more.
AddNote(n, t) ==
    /\ reader.book # None
    /\ notes[n] = None /\ reader.shown[n] = None /\ \A c \in UnderWay : c.note # n
    /\ \A a \in answers : a.list[n] = None
    /\ Sends(Call("create", n, reader.book, t))
    /\ UNCHANGED <<notes, reader, answers>>

EditNote(n, t) ==
    /\ reader.book # None /\ reader.shown[n] \notin {None, t}
    /\ Sends(Call("update", n, reader.book, t))
    /\ UNCHANGED <<notes, reader, answers>>

RemoveNote(n) ==
    /\ reader.book # None /\ reader.shown[n] # None
    /\ Sends(Call("delete", n, reader.book, None))
    /\ UNCHANGED <<notes, reader, answers>>

\* Mutant: a list is shown though a note was changed since it was asked for.
ShowsAny(a) == a.call.live

\* The list is the last that was asked for, and no change was answered since.
Shows(a) == a.call.live /\ a.call.fresh

\* An answer of another session changes nothing; that of a change makes every list on
\* its way one of the past.
AnswerArrives(a) ==
    LET others == answers \ {a}
        c == a.call
        shown == CASE c.op = "create" -> a.row.text
                   [] c.op = "update" ->
                        IF reader.shown[c.note] = None THEN None ELSE a.row.text
                   [] c.op = "delete" -> None
    IN  /\ a \in answers
        /\ \/ /\ c.op = "list" \/ ~c.live \/ ~a.ok
              /\ reader' = IF c.op = "list" /\ a.ok /\ Shows(a)
                           THEN [reader EXCEPT !.shown = a.list] ELSE reader
              /\ answers' = others /\ UNCHANGED calls
           \/ /\ c.op # "list" /\ c.live /\ a.ok
              /\ reader' = [reader EXCEPT !.shown[c.note] = shown]
              /\ calls' = [i \in DOMAIN calls |-> Outdate(calls[i])]
              /\ answers' = {[o EXCEPT !.call = Outdate(o.call)] : o \in others}
        /\ UNCHANGED <<notes, raced>>

-----------------------------------------------------------------------------

NotesForget(b) ==
    /\ notes' = [n \in NoteId |-> IF notes[n] # None /\ notes[n].book = b
                                  THEN None ELSE notes[n]]
    /\ UNCHANGED <<reader, calls, answers, raced>>

NotesRestart ==
    /\ reader' = ClosedReader /\ calls' = <<>> /\ answers' = {} /\ raced' = {}
    /\ UNCHANGED notes

NotesInit ==
    /\ notes = NoNotes /\ reader = ClosedReader
    /\ calls = <<>> /\ answers = {} /\ raced = {}

NotesCommand ==
    \/ ListNotes \/ CreateNote \/ UpdateNote \/ DeleteNote \/ RefuseNote
    \/ \E b \in Book : OpenReader(b)
    \/ CloseReader \/ LoadNotes
    \/ \E n \in NoteId, t \in Text : AddNote(n, t) \/ EditNote(n, t)
    \/ \E n \in NoteId : RemoveNote(n)
    \/ \E a \in answers : AnswerArrives(a)

-----------------------------------------------------------------------------

\* When nothing is under way, what the reader shows is what is stored: no note of another
\* book, of a session before, deleted or changed meanwhile, in whatever order the list
\* and the changes are answered.  (Two changes of one note at once may be answered the
\* wrong way round; they are excepted until the book is opened again.)
NotesShownAreStored ==
    /\ notes \in [NoteId -> NoteRow \cup {None}]
    /\ \A n \in NoteId : notes[n] # None => notes[n].book \in books
    /\ calls = <<>> /\ answers = {} =>
          \A n \in NoteId \ raced :
              reader.shown[n] # None =>
                  notes[n] = [book |-> reader.book, text |-> reader.shown[n]]
=============================================================================
