------------------------------ MODULE Migrations ------------------------------
(***************************************************************************)
(* db/migrations.rs: run_migrations at the start of the program brings a   *)
(* database of any earlier release to version 5.  Each version is a script *)
(* and a row of _migrations in one transaction, which may fail, or be      *)
(* interrupted, anywhere.  Of the data, the model has what the scripts     *)
(* convert: reading settings (a size and a margin stand for all) and the   *)
(* dates of reading.                                                       *)
(***************************************************************************)
EXTENDS Books, Integers

CONSTANTS Percent,    \* font_size_percent of releases before V3
          Size,       \* font_size_px
          Margin,     \* margin_percent, and margin_left_percent and -right- since V3
          Time        \* updated_at of reading progress

VARIABLES db,         \* the tables
          disk,       \* <<the tables as committed>> while a migration is open, or <<>>
          startup,    \* where run_migrations is
          was         \* the database as this release found it, or None once it serves

migrationVars == <<db, disk, startup, was>>

Latest == 5
Versions == 0..Latest

Seed == [percent |-> 100, margin |-> 5]
Defaults == [size |-> 16, margin |-> 3]

LegacyRow == [percent: Percent, margin: Margin]
LegacyOverride == [percent: Percent \cup {None}, margin: Margin \cup {None}]
Settings == [size: Size, margin: Margin]
Override == [size: Size \cup {None}, margin: Margin \cup {None}]

NoRows == [b \in Book |-> None]

\* schema: the scripts whose tables and columns are there; version: MAX(version) of
\* _migrations; updated: updated_at of the settings, 0 until somebody saves
\* them; reading: book_reading_state.
Databases(version, legacy, global, updated, legacyOverride, override, progress) ==
    [version: {version}, schema: {1..version}, legacy: legacy, global: global,
     updated: updated, legacyOverride: legacyOverride, override: override,
     progress: progress, reading: {NoRows}]

\* Bound: one book at most has settings of its own.
OneRow(S) == {NoRows} \cup {[NoRows EXCEPT ![b] = row] : b \in books, row \in S}

\* What earlier releases left: settings nobody touched are as V2 seeded them, V3
\* converted them or V4 corrected them.
OldDatabases ==
    LET Progress == {[b \in Book |-> IF b \in books THEN p[b] ELSE None] :
                        p \in [books -> Time \cup {None}]}
        L == OneRow(LegacyOverride)
        O == OneRow(Override)
        N == {NoRows}
        Converted == [size |-> 16, margin |-> 5]
        Shown == {[d EXCEPT !.reading = d.progress] :
                     d \in Databases(5, {Seed}, {Defaults}, {0}, N, O, Progress)}
    IN  Databases(0, {None}, {None}, {0}, N, N, N)
        \cup Databases(1, {None}, {None}, {0}, N, N, Progress)
        \cup Databases(2, {Seed}, {None}, {0}, L, N, Progress)
        \cup Databases(2, LegacyRow, {None}, {1}, L, N, Progress)
        \cup Databases(3, {Seed}, {Converted}, {0}, N, O, Progress)
        \cup Databases(3, LegacyRow, Settings, {1}, N, O, Progress)
        \cup Databases(4, {Seed}, {Defaults}, {0}, N, O, Progress)
        \cup Databases(4, LegacyRow, Settings, {1}, N, O, Progress)
        \cup Shown

Serving == startup = "serving"

-----------------------------------------------------------------------------
(* The scripts. *)

\* CAST(MIN(MAX(ROUND(percent / 100.0 * 16), 12), 32) AS INTEGER)
Pixels(percent) ==
    LET rounded == (percent * 16 + 50) \div 100
    IN  IF rounded < 12 THEN 12 ELSE IF rounded > 32 THEN 32 ELSE rounded

V1(d) == d

V2(d) == [d EXCEPT !.legacy = Seed, !.updated = 0]

\* NULL of a book stays NULL: it inherits.
ConvertedOverride(o) ==
    IF o = None THEN None
    ELSE [size |-> IF o.percent = None THEN None ELSE Pixels(o.percent), margin |-> o.margin]

V3(d) == [d EXCEPT !.global = [size |-> Pixels(d.legacy.percent), margin |-> d.legacy.margin],
                   !.override = [b \in Book |-> ConvertedOverride(d.legacyOverride[b])]]

\* Mutant: the margins are corrected whoever chose them.
V4Always(d) ==
    [d EXCEPT !.global.margin = IF d.legacy = Seed /\ @ = Seed.margin
                                THEN Defaults.margin ELSE @]

\* Only the seed row nobody touched: V3 kept the margin of V2.
V4(d) ==
    [d EXCEPT !.global.margin = IF d.legacy = Seed /\ d.updated = 0 /\ @ = Seed.margin
                                THEN Defaults.margin ELSE @]

V5(d) == [d EXCEPT !.reading = d.progress]

Script(k, d) ==
    CASE k = 1 -> V1(d) [] k = 2 -> V2(d) [] k = 3 -> V3(d) [] k = 4 -> V4(d) [] k = 5 -> V5(d)

-----------------------------------------------------------------------------
(* run_migrations *)

BeginMigration ==
    /\ startup = "check"
    /\ IF db.version = Latest
       THEN startup' = "serving" /\ was' = None /\ UNCHANGED disk
       ELSE startup' = "script" /\ disk' = <<db>> /\ UNCHANGED was
    /\ UNCHANGED db

\* Tables and columns that exist cannot be created: a script runs once.
RunScript ==
    LET k == db.version + 1
    IN  /\ startup = "script"
        /\ k \notin db.schema
        /\ db' = [Script(k, db) EXCEPT !.schema = @ \cup {k}]
        /\ startup' = "record"
        /\ UNCHANGED <<disk, was>>

RecordVersion ==
    /\ startup = "record"
    /\ db' = [db EXCEPT !.version = @ + 1]
    /\ startup' = "commit"
    /\ UNCHANGED <<disk, was>>

CommitMigration ==
    /\ startup = "commit"
    /\ disk' = <<>> /\ startup' = "check"
    /\ UNCHANGED <<db, was>>

\* ROLLBACK, and the program does not start.
MigrationFails ==
    /\ startup \in {"script", "record", "commit"}
    /\ db' = disk[1] /\ disk' = <<>>
    /\ startup' = "stopped"
    /\ UNCHANGED was

\* The program is started again, after it died or failed to start.
MigrationsRestart ==
    /\ db' = IF disk = <<>> THEN db ELSE disk[1]
    /\ disk' = <<>> /\ startup' = "check"
    /\ was' = IF Serving THEN db ELSE was

MigrationsInit ==
    /\ db \in OldDatabases /\ was = db
    /\ disk = <<>> /\ startup = "check"

Migrate == BeginMigration \/ RunScript \/ RecordVersion \/ CommitMigration \/ MigrationFails

-----------------------------------------------------------------------------

\* What a user of the release d is from sees, as this release shows it.
ShownGlobal(d) ==
    IF d.updated = 0 THEN Defaults
    ELSE IF d.version = 2
         THEN [size |-> Pixels(d.legacy.percent), margin |-> d.legacy.margin]
         ELSE d.global
ShownOverride(d, b) ==
    IF d.version = 2 THEN ConvertedOverride(d.legacyOverride[b]) ELSE d.override[b]

\* The version on disk is that of the tables, wherever a start was interrupted, so that
\* the next one neither repeats a script nor leaves one out; and when the program serves,
\* every setting anybody chose is as it was, what nobody chose is as documented, and
\* every book that was read has its date of reading.
UpgradeKeepsChoices ==
    /\ [](disk = <<>> => db.schema = 1..db.version)
    /\ [][~Serving /\ Serving' =>
             /\ db'.global = ShownGlobal(was)
             /\ \A b \in Book : /\ db'.override[b] = ShownOverride(was, b)
                                /\ db'.reading[b] = was.progress[b]]_<<db, startup>>
=============================================================================
