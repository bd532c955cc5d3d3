-------------------------------- MODULE Books --------------------------------
(***************************************************************************)
(* The rows of books as far as the other tables refer to them: each of     *)
(* them has its own foreign key, and every service asks for the book before *)
(* it writes.  Importing and deleting books is the subject of Library.     *)
(***************************************************************************)

CONSTANTS Book,
          None      \* NULL, or no row

ASSUME BooksAssumption == None \notin Book

VARIABLE books      \* ids of the rows of books
=============================================================================
