------------------------------- MODULE UserData -------------------------------
(***************************************************************************)
(* What users say of their books, in one database: series and tags         *)
(* (Catalog), notes (Notes) and settings (ReadingSettings), each with its  *)
(* service and its callers.  They share the table of books: a deletion     *)
(* cascades through all of them in the one statement, between any two      *)
(* commands.  No command is served before the start of the program has     *)
(* migrated the database (Migrations), and all of them die with it.        *)
(***************************************************************************)
EXTENDS Catalog, Notes, ReadingSettings

vars == <<books, catalogVars, noteVars, migrationVars, settingsVars>>

Startup ==
    /\ Migrate
    /\ wanted' = Rows(db')
    /\ UNCHANGED <<books, catalogVars, noteVars, panel, queue>>

CatalogWorks ==
    /\ Serving /\ CatalogCommand
    /\ UNCHANGED <<books, noteVars, migrationVars, settingsVars>>

NotesWork ==
    /\ Serving /\ NotesCommand
    /\ UNCHANGED <<books, catalogVars, migrationVars, settingsVars>>

SettingsWork ==
    /\ Serving /\ SettingsCommand
    /\ UNCHANGED <<books, catalogVars, noteVars>>

\* import_book, for a book that had no row: its id is a new one, which nothing under way
\* refers to.
ImportBook(b) ==
    /\ Serving /\ Free /\ b \notin books
    /\ \A i \in DOMAIN queue : queue[i].book # b
    /\ \A c \in UnderWay : c.book # b
    /\ books' = books \cup {b}
    /\ UNCHANGED <<catalogVars, noteVars, migrationVars, settingsVars>>

\* delete_book: one DELETE and its cascades.  The shelf offers it while no book is open.
DeleteBook(b) ==
    /\ Serving /\ b \in books /\ reader.book # b
    /\ books' = books \ {b}
    /\ CatalogForgets(b) /\ NotesForget(b) /\ SettingsForget(b)

RestartProgram ==
    /\ CatalogRestarts /\ NotesRestart /\ SettingsRestart
    /\ UNCHANGED books

Init ==
    /\ books \in SUBSET Book
    /\ CatalogInit /\ NotesInit /\ SettingsInit
    /\ db.version = 0 => books = {}

Next ==
    \/ Startup \/ RestartProgram
    \/ CatalogWorks \/ NotesWork \/ SettingsWork
    \/ \E b \in Book : ImportBook(b) \/ DeleteBook(b)

Spec == Init /\ [][Next]_vars
=============================================================================
