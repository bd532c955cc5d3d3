---------------------------- MODULE UserDataProofs ----------------------------
(***************************************************************************)
(* What the run of UserData checks on a small instance, proved for every   *)
(* set of books, series, tags, notes and values of settings: the database  *)
(* of any release is brought to what the program serves, the settings of   *)
(* the rows are those that were asked for last, the notes shown are those  *)
(* that are stored, and the relations of the catalog hold together.        *)
(***************************************************************************)
EXTENDS UserData, FiniteSetTheorems, SequenceTheorems, TLAPS

-----------------------------------------------------------------------------
(* Migrations: what a database is between the releases.                    *)

Shaped(d) == d = [version |-> d.version, schema |-> d.schema, legacy |-> d.legacy,
                  global |-> d.global, updated |-> d.updated,
                  legacyOverride |-> d.legacyOverride, override |-> d.override,
                  progress |-> d.progress, reading |-> d.reading]

\* A database as a release left it, this one included.
Found(d) ==
    /\ Shaped(d)
    /\ d.version \in Versions /\ d.schema = 1..d.version /\ d.updated \in {0, 1}
    /\ d.version < 2 => d.updated = 0 /\ d.legacyOverride = NoRows /\ d.override = NoRows
    /\ d.version = 2 /\ d.updated = 0 => d.legacy = Seed
    /\ d.version = 3 /\ d.updated = 0 => d.legacy = Seed /\ d.global = [size |-> 16, margin |-> 5]
    /\ d.version = 3 => d.global = [size |-> d.global.size, margin |-> d.global.margin]
    /\ d.version > 3 /\ d.updated = 0 => d.global = Defaults
    /\ d.version = 5 => d.reading = d.progress
    /\ d.override = [b \in Book |-> d.override[b]]

\* What the scripts make of it on the way to a version.
Upgrade(w, version) ==
    LET legacy == IF w.version < 2 /\ version >= 2 THEN Seed ELSE w.legacy
    IN  [version |-> version,
         schema |-> 1..version,
         legacy |-> legacy,
         global |-> IF version >= 4 THEN ShownGlobal(w)
                    ELSE IF version = 3 /\ w.version < 3
                    THEN [size |-> Pixels(legacy.percent), margin |-> legacy.margin]
                    ELSE w.global,
         updated |-> w.updated,
         legacyOverride |-> w.legacyOverride,
         override |-> IF w.version < 3 /\ version >= 3
                      THEN [b \in Book |-> ConvertedOverride(w.legacyOverride[b])]
                      ELSE w.override,
         progress |-> w.progress,
         reading |-> IF version = 5 THEN w.progress ELSE w.reading]

LEMMA UpgradeBegins ==
    ASSUME NEW w, Found(w)
    PROVE  Upgrade(w, w.version) = w
  BY DEF Found, Shaped, Upgrade, ShownGlobal, Versions, Latest

LEMMA SameDatabase ==
    ASSUME NEW d, NEW e, Shaped(d), Shaped(e),
           d.version = e.version, d.schema = e.schema, d.legacy = e.legacy,
           d.global = e.global, d.updated = e.updated,
           d.legacyOverride = e.legacyOverride, d.override = e.override,
           d.progress = e.progress, d.reading = e.reading
    PROVE  d = e
  BY DEF Shaped

LEMMA UpgradeShaped ==
    ASSUME NEW w, NEW version
    PROVE  Shaped(Upgrade(w, version))
  BY DEF Shaped, Upgrade

\* Each script takes it from one version to the next.
LEMMA ScriptUpgrades ==
    ASSUME NEW w, Found(w), NEW k \in w.version..4
    PROVE  [Script(k + 1, Upgrade(w, k)) EXCEPT !.schema = @ \cup {k + 1}]
               = [Upgrade(w, k + 1) EXCEPT !.version = k]
  <1> DEFINE u == Upgrade(w, k)
             v == Upgrade(w, k + 1)
             new == Script(k + 1, u)
             made == [new EXCEPT !.schema = @ \cup {k + 1}]
             upto == [v EXCEPT !.version = k]
  <1>1. w.version \in 0..5 /\ k \in 0..4 /\ w.version <= k
    BY DEF Found, Versions, Latest
  <1>2. 1..k \cup {k + 1} = 1..(k + 1)
    BY <1>1
  <1>3. /\ Shaped(u) /\ u.version = k /\ u.schema = 1..k
        /\ Shaped(v) /\ v.version = k + 1 /\ v.schema = 1..(k + 1)
        /\ u.updated = w.updated /\ v.updated = w.updated
        /\ u.legacyOverride = w.legacyOverride /\ v.legacyOverride = w.legacyOverride
        /\ u.progress = w.progress /\ v.progress = w.progress
    BY UpgradeShaped DEF Upgrade
  <1>4. /\ u.legacy = IF w.version < 2 /\ k >= 2 THEN Seed ELSE w.legacy
        /\ u.global = IF k >= 4 THEN ShownGlobal(w)
                      ELSE IF k = 3 /\ w.version < 3
                      THEN [size |-> Pixels(u.legacy.percent), margin |-> u.legacy.margin]
                      ELSE w.global
        /\ u.override = IF w.version < 3 /\ k >= 3
                        THEN [b \in Book |-> ConvertedOverride(w.legacyOverride[b])]
                        ELSE w.override
        /\ u.reading = IF k = 5 THEN w.progress ELSE w.reading
    BY DEF Upgrade
  <1>5. /\ v.legacy = IF w.version < 2 /\ k + 1 >= 2 THEN Seed ELSE w.legacy
        /\ v.global = IF k + 1 >= 4 THEN ShownGlobal(w)
                      ELSE IF k + 1 = 3 /\ w.version < 3
                      THEN [size |-> Pixels(v.legacy.percent), margin |-> v.legacy.margin]
                      ELSE w.global
        /\ v.override = IF w.version < 3 /\ k + 1 >= 3
                        THEN [b \in Book |-> ConvertedOverride(w.legacyOverride[b])]
                        ELSE w.override
        /\ v.reading = IF k + 1 = 5 THEN w.progress ELSE w.reading
    BY DEF Upgrade
  <1> HIDE DEF u, v
  <1>6. /\ Shaped(new) /\ new.version = k /\ new.schema = 1..k
        /\ new.updated = v.updated /\ new.legacyOverride = v.legacyOverride
        /\ new.progress = v.progress
        /\ new.legacy = v.legacy /\ new.global = v.global /\ new.override = v.override
        /\ new.reading = v.reading
    <2>1. CASE k = 0
      <3>1. new = u
        BY <2>1 DEF Script, V1
      <3> HIDE DEF new
      <3>2. QED BY <1>1, <1>3, <1>4, <1>5, <2>1, <3>1
    <2>2. CASE k = 1
      <3>1. new = [u EXCEPT !.legacy = Seed, !.updated = 0]
        BY <2>2 DEF Script, V2
      <3> HIDE DEF new
      <3>2. w.version < 2 /\ w.updated = 0
        BY <1>1, <2>2 DEF Found
      <3>3. Shaped(new)
        BY <1>3, <3>1 DEF Shaped
      <3>4. /\ new.version = u.version /\ new.schema = u.schema /\ new.legacy = Seed
            /\ new.updated = 0 /\ new.legacyOverride = u.legacyOverride
            /\ new.progress = u.progress /\ new.global = u.global
            /\ new.override = u.override /\ new.reading = u.reading
        BY <1>3, <3>1 DEF Shaped
      <3>5. new.updated = v.updated
        BY <1>3, <3>2, <3>4, Zenon
      <3>6. QED BY <1>1, <1>3, <1>4, <1>5, <2>2, <3>2, <3>3, <3>4, <3>5
    <2>3. CASE k = 2
      <3>1. new = [u EXCEPT
                !.global = [size |-> Pixels(u.legacy.percent), margin |-> u.legacy.margin],
                !.override = [b \in Book |-> ConvertedOverride(w.legacyOverride[b])]]
        BY <1>3, <2>3 DEF Script, V3
      <3> HIDE DEF new
      <3>2. Shaped(new)
        BY <1>3, <3>1 DEF Shaped
      <3>3. QED BY <1>1, <1>3, <1>4, <1>5, <2>3, <3>1, <3>2 DEF Shaped
    <2>4. CASE k = 3
      <3>1. u.global = [size |-> u.global.size, margin |-> u.global.margin]
        BY <1>1, <1>4, <2>4 DEF Found
      <3>2. [u.global EXCEPT !.margin = IF u.legacy = Seed /\ u.updated = 0 /\ @ = Seed.margin
                                        THEN Defaults.margin ELSE @] = ShownGlobal(w)
        BY <1>1, <1>3, <1>4, <2>4, <3>1 DEF Found, ShownGlobal, Pixels, Seed, Defaults
      <3>3. new = [u EXCEPT !.global = ShownGlobal(w)]
        BY <1>3, <2>4, <3>2 DEF Script, V4, Shaped
      <3> HIDE DEF new
      <3>4. Shaped(new)
        BY <1>3, <3>3 DEF Shaped
      <3>5. QED BY <1>1, <1>3, <1>4, <1>5, <2>4, <3>3, <3>4 DEF Shaped
    <2>5. CASE k = 4
      <3>1. new = [u EXCEPT !.reading = w.progress]
        BY <1>3, <2>5 DEF Script, V5
      <3> HIDE DEF new
      <3>2. Shaped(new)
        BY <1>3, <3>1 DEF Shaped
      <3>3. QED BY <1>1, <1>3, <1>4, <1>5, <2>5, <3>1, <3>2 DEF Shaped
    <2>6. QED BY <1>1, <2>1, <2>2, <2>3, <2>4, <2>5
  <1> HIDE DEF new
  <1>a. Shaped(new) /\ Shaped(v)
    BY <1>3, <1>6
  <1>7. /\ Shaped(made)
        /\ made.legacy = new.legacy /\ made.global = new.global
        /\ made.updated = new.updated /\ made.legacyOverride = new.legacyOverride
        /\ made.override = new.override /\ made.progress = new.progress
        /\ made.reading = new.reading
    BY <1>a DEF Shaped
  <1>b. /\ Shaped(upto)
        /\ upto.legacy = v.legacy /\ upto.global = v.global
        /\ upto.updated = v.updated /\ upto.legacyOverride = v.legacyOverride
        /\ upto.override = v.override /\ upto.progress = v.progress
        /\ upto.reading = v.reading
    BY <1>a DEF Shaped
  <1>8. /\ made.version = k /\ upto.version = k
        /\ made.schema = 1..(k + 1) /\ upto.schema = 1..(k + 1)
    BY <1>2, <1>3, <1>6 DEF Shaped
  <1> HIDE DEF made, upto
  <1>9. /\ made.version = upto.version /\ made.schema = upto.schema
    BY <1>8
  <1>10. /\ made.legacy = upto.legacy /\ made.global = upto.global
         /\ made.updated = upto.updated /\ made.legacyOverride = upto.legacyOverride
         /\ made.override = upto.override /\ made.progress = upto.progress
         /\ made.reading = upto.reading
    BY <1>6, <1>7, <1>b
  <1>11. made = upto
    BY <1>7, <1>b, <1>9, <1>10, SameDatabase
  <1>12. QED BY <1>11 DEF made, upto, new, u, v

\* The last version is one this release may find.
LEMMA UpgradeFound ==
    ASSUME NEW w, Found(w)
    PROVE  Found(Upgrade(w, 5))
  <1> DEFINE u == Upgrade(w, 5)
  <1>1. Shaped(u) /\ u.version = 5 /\ u.schema = 1..5
    BY UpgradeShaped DEF Upgrade
  <1>2. u.updated \in {0, 1} /\ (u.updated = 0 => u.global = Defaults)
    BY DEF Upgrade, Found, ShownGlobal
  <1>3. u.reading = u.progress /\ u.override = [b \in Book |-> u.override[b]]
    BY DEF Upgrade, Found
  <1> HIDE DEF u
  <1>4. Found(u)
    BY <1>1, <1>2, <1>3 DEF Found, Versions, Latest
  <1>5. QED BY <1>4 DEF u

LEMMA DatabaseFields ==
    ASSUME NEW v, NEW l, NEW g, NEW t, NEW lo, NEW o, NEW p,
           NEW d \in Databases(v, l, g, t, lo, o, p)
    PROVE  /\ Shaped(d)
           /\ d.version = v /\ d.schema = 1..v
           /\ d.legacy \in l /\ d.global \in g /\ d.updated \in t
           /\ d.legacyOverride \in lo /\ d.override \in o
  BY DEF Databases, Shaped

LEMMA OldAreFound ==
    ASSUME NEW d \in OldDatabases
    PROVE  Found(d)
  <1> DEFINE P == {[b \in Book |-> IF b \in books THEN p[b] ELSE None] :
                      p \in [books -> Time \cup {None}]}
             L == OneRow(LegacyOverride)
             O == OneRow(Override)
             N == {NoRows}
             C == [size |-> 16, margin |-> 5]
             S0 == Databases(0, {None}, {None}, {0}, N, N, N)
             S1 == Databases(1, {None}, {None}, {0}, N, N, P)
             S2 == Databases(2, {Seed}, {None}, {0}, L, N, P)
             S3 == Databases(2, LegacyRow, {None}, {1}, L, N, P)
             S4 == Databases(3, {Seed}, {C}, {0}, N, O, P)
             S5 == Databases(3, LegacyRow, Settings, {1}, N, O, P)
             S6 == Databases(4, {Seed}, {Defaults}, {0}, N, O, P)
             S7 == Databases(4, LegacyRow, Settings, {1}, N, O, P)
             D5 == Databases(5, {Seed}, {Defaults}, {0}, N, O, P)
             S8 == {[x EXCEPT !.reading = x.progress] : x \in D5}
  <1>0. \A o \in O \cup N : o = [b \in Book |-> o[b]]
    <2>1. ASSUME NEW S, NEW o \in OneRow(S) PROVE o = [b \in Book |-> o[b]]
      <3>1. CASE o = NoRows
        BY <3>1 DEF NoRows
      <3>2. CASE \E c \in books, row \in S : o = [NoRows EXCEPT ![c] = row]
        BY <3>2 DEF NoRows
      <3>3. QED BY <2>1, <3>1, <3>2 DEF OneRow
    <2>2. QED BY <2>1 DEF NoRows
  <1>1. d \in S0 \cup S1 \cup S2 \cup S3 \cup S4 \cup S5 \cup S6 \cup S7 \cup S8
    BY DEF OldDatabases
  <1> HIDE DEF P, L, O
  <1>2. ASSUME d \in S0 PROVE Found(d)
    <2>1. /\ Shaped(d) /\ d.version = 0 /\ d.schema = 1..0
          /\ d.legacy \in {None} /\ d.global \in {None} /\ d.updated \in {0}
          /\ d.legacyOverride \in N /\ d.override \in N
      BY <1>2, DatabaseFields
    <2>2. QED BY <1>0, <2>1 DEF Found, Versions, Latest
  <1>3. ASSUME d \in S1 PROVE Found(d)
    <2>1. /\ Shaped(d) /\ d.version = 1 /\ d.schema = 1..1
          /\ d.legacy \in {None} /\ d.global \in {None} /\ d.updated \in {0}
          /\ d.legacyOverride \in N /\ d.override \in N
      BY <1>3, DatabaseFields
    <2>2. QED BY <1>0, <2>1 DEF Found, Versions, Latest
  <1>4. ASSUME d \in S2 PROVE Found(d)
    <2>1. /\ Shaped(d) /\ d.version = 2 /\ d.schema = 1..2
          /\ d.legacy \in {Seed} /\ d.global \in {None} /\ d.updated \in {0}
          /\ d.legacyOverride \in L /\ d.override \in N
      BY <1>4, DatabaseFields
    <2>2. QED BY <1>0, <2>1 DEF Found, Versions, Latest
  <1>5. ASSUME d \in S3 PROVE Found(d)
    <2>1. /\ Shaped(d) /\ d.version = 2 /\ d.schema = 1..2
          /\ d.legacy \in LegacyRow /\ d.global \in {None} /\ d.updated \in {1}
          /\ d.legacyOverride \in L /\ d.override \in N
      BY <1>5, DatabaseFields
    <2>2. QED BY <1>0, <2>1 DEF Found, Versions, Latest
  <1>6. ASSUME d \in S4 PROVE Found(d)
    <2>1. /\ Shaped(d) /\ d.version = 3 /\ d.schema = 1..3
          /\ d.legacy \in {Seed} /\ d.global \in {C} /\ d.updated \in {0}
          /\ d.legacyOverride \in N /\ d.override \in O
      BY <1>6, DatabaseFields
    <2>2. QED BY <1>0, <2>1 DEF Found, Versions, Latest
  <1>7. ASSUME d \in S5 PROVE Found(d)
    <2>1. /\ Shaped(d) /\ d.version = 3 /\ d.schema = 1..3
          /\ d.legacy \in LegacyRow /\ d.global \in Settings /\ d.updated \in {1}
          /\ d.legacyOverride \in N /\ d.override \in O
      BY <1>7, DatabaseFields
    <2>2. QED BY <1>0, <2>1 DEF Found, Versions, Latest, Settings
  <1>8. ASSUME d \in S6 PROVE Found(d)
    <2>1. /\ Shaped(d) /\ d.version = 4 /\ d.schema = 1..4
          /\ d.legacy \in {Seed} /\ d.global \in {Defaults} /\ d.updated \in {0}
          /\ d.legacyOverride \in N /\ d.override \in O
      BY <1>8, DatabaseFields
    <2>2. QED BY <1>0, <2>1 DEF Found, Versions, Latest
  <1>9. ASSUME d \in S7 PROVE Found(d)
    <2>1. /\ Shaped(d) /\ d.version = 4 /\ d.schema = 1..4
          /\ d.legacy \in LegacyRow /\ d.global \in Settings /\ d.updated \in {1}
          /\ d.legacyOverride \in N /\ d.override \in O
      BY <1>9, DatabaseFields
    <2>2. QED BY <1>0, <2>1 DEF Found, Versions, Latest
  <1>10. ASSUME d \in S8 PROVE Found(d)
    <2>1. PICK x \in D5 : d = [x EXCEPT !.reading = x.progress]
      BY <1>10
    <2>2. /\ Shaped(x) /\ x.version = 5 /\ x.schema = 1..5
          /\ x.updated \in {0, 1} /\ x.global = Defaults /\ x.override \in O
      BY DatabaseFields
    <2>3. /\ Shaped(d) /\ d.version = 5 /\ d.schema = 1..5 /\ d.reading = d.progress
          /\ d.updated \in {0, 1} /\ d.global = Defaults /\ d.override \in O
      BY <2>1, <2>2 DEF Shaped
    <2>4. QED BY <1>0, <2>3 DEF Found, Versions, Latest
  <1> HIDE DEF S0, S1, S2, S3, S4, S5, S6, S7, S8
  <1>11. QED BY <1>1, <1>2, <1>3, <1>4, <1>5, <1>6, <1>7, <1>8, <1>9, <1>10

-----------------------------------------------------------------------------
(* The start of the program. *)

\* While the program starts, the tables are what the scripts so far make of those it
\* found, and what is on disk is one version's.
Upgrading ==
    /\ Found(was)
    /\ \/ /\ startup \in {"check", "stopped"} /\ disk = <<>>
          /\ \E v \in was.version..5 : db = Upgrade(was, v)
       \/ \E v \in was.version..4 :
             /\ disk = <<Upgrade(was, v)>>
             /\ \/ startup = "script" /\ db = Upgrade(was, v)
                \/ startup = "record" /\ db = [Upgrade(was, v + 1) EXCEPT !.version = v]
                \/ startup = "commit" /\ db = Upgrade(was, v + 1)

StartupInv ==
    IF Serving THEN disk = <<>> /\ db.version = 5 /\ Found(db) ELSE Upgrading

LEMMA UpgradeFields ==
    ASSUME NEW w, NEW version
    PROVE  Upgrade(w, version).version = version /\ Upgrade(w, version).schema = 1..version
  BY DEF Upgrade

LEMMA StartupBegins ==
    ASSUME MigrationsInit
    PROVE  StartupInv
  <1>1. Found(was) /\ db = was /\ disk = <<>> /\ startup = "check"
    BY OldAreFound DEF MigrationsInit
  <1>2. was.version \in was.version..5 /\ db = Upgrade(was, was.version)
    BY <1>1, UpgradeBegins DEF Found, Versions, Latest
  <1>3. QED BY <1>1, <1>2 DEF StartupInv, Upgrading, Serving

LEMMA MigrateKeepsStartup ==
    ASSUME StartupInv, Migrate
    PROVE  /\ StartupInv'
           /\ Serving' => ~Serving /\ UNCHANGED db
                          /\ Found(was) /\ db = Upgrade(was, 5)
  <1>1. ~Serving /\ Upgrading
    BY DEF Migrate, BeginMigration, RunScript, RecordVersion, CommitMigration,
           MigrationFails, StartupInv, Serving
  <1>2. Found(was) /\ was.version \in 0..5
    BY <1>1 DEF Upgrading, Found, Versions, Latest
  <1>3. CASE BeginMigration
    <2>1. PICK v \in was.version..5 : db = Upgrade(was, v)
      BY <1>1, <1>3 DEF Upgrading, BeginMigration
    <2>2. db.version = v /\ v \in 0..5 /\ disk = <<>>
      BY <1>1, <1>2, <1>3, <2>1, UpgradeFields DEF Upgrading, BeginMigration
    <2>3. CASE v = 5
      <3>1. startup' = "serving" /\ db' = db /\ disk' = disk
        BY <1>3, <2>2, <2>3 DEF BeginMigration, Latest, migrationVars
      <3>2. Found(db)
        BY <1>2, <2>1, <2>3, UpgradeFound
      <3>3. QED BY <1>1, <1>2, <2>1, <2>2, <2>3, <3>1, <3>2
                DEF StartupInv, Serving, Found, Shaped
    <2>4. CASE v # 5
      <3>1. startup' = "script" /\ disk' = <<db>> /\ db' = db /\ was' = was
        BY <1>3, <2>2, <2>4 DEF BeginMigration, Latest
      <3>2. v \in was.version..4
        BY <1>2, <2>2, <2>4
      <3>3. QED BY <1>2, <2>1, <3>1, <3>2 DEF StartupInv, Upgrading, Serving
    <2>5. QED BY <2>3, <2>4
  <1>4. CASE RunScript
    <2>1. PICK v \in was.version..4 : disk = <<Upgrade(was, v)>> /\ db = Upgrade(was, v)
      BY <1>1, <1>4 DEF Upgrading, RunScript
    <2>2. db.version = v
      BY <2>1, UpgradeFields
    <2>3. db' = [Upgrade(was, v + 1) EXCEPT !.version = v]
      BY <1>2, <1>4, <2>1, <2>2, ScriptUpgrades DEF RunScript
    <2>4. QED BY <1>2, <1>4, <2>1, <2>3 DEF RunScript, StartupInv, Upgrading, Serving
  <1>5. CASE RecordVersion
    <2>1. PICK v \in was.version..4 : /\ disk = <<Upgrade(was, v)>>
                                      /\ db = [Upgrade(was, v + 1) EXCEPT !.version = v]
      BY <1>1, <1>5 DEF Upgrading, RecordVersion
    <2> DEFINE u == Upgrade(was, v + 1)
    <2>2. Shaped(u) /\ u.version = v + 1
      BY UpgradeShaped, UpgradeFields
    <2> HIDE DEF u
    <2>3. [[u EXCEPT !.version = v] EXCEPT !.version = @ + 1] = u
      BY <2>2 DEF Shaped
    <2>4. db' = u
      BY <1>5, <2>1, <2>3 DEF RecordVersion, u
    <2>5. QED BY <1>2, <1>5, <2>1, <2>4 DEF RecordVersion, StartupInv, Upgrading, Serving, u
  <1>6. CASE CommitMigration
    <2>1. PICK v \in was.version..4 : db = Upgrade(was, v + 1)
      BY <1>1, <1>6 DEF Upgrading, CommitMigration
    <2>2. v + 1 \in was.version..5
      BY <1>2
    <2>3. QED BY <1>2, <1>6, <2>1, <2>2 DEF CommitMigration, StartupInv, Upgrading, Serving
  <1>7. CASE MigrationFails
    <2>1. PICK v \in was.version..4 : disk = <<Upgrade(was, v)>>
      BY <1>1, <1>7 DEF Upgrading, MigrationFails
    <2>2. v \in was.version..5
      BY <1>2
    <2>3. db' = Upgrade(was, v)
      BY <1>7, <2>1 DEF MigrationFails
    <2>4. QED BY <1>2, <1>7, <2>2, <2>3 DEF MigrationFails, StartupInv, Upgrading, Serving
  <1>8. QED BY <1>3, <1>4, <1>5, <1>6, <1>7 DEF Migrate

LEMMA RestartKeepsStartup ==
    ASSUME StartupInv, MigrationsRestart
    PROVE  StartupInv'
  <1>1. disk' = <<>> /\ startup' = "check" /\ ~Serving'
    BY DEF MigrationsRestart, Serving
  <1>2. CASE Serving
    <2>1. was' = db /\ db' = db /\ Found(db)
      BY <1>2 DEF StartupInv, MigrationsRestart
    <2>2. db.version \in db.version..5 /\ db = Upgrade(db, db.version)
      BY <2>1, UpgradeBegins DEF Found, Versions, Latest
    <2>3. QED BY <1>1, <2>1, <2>2 DEF StartupInv, Upgrading
  <1>3. CASE ~Serving
    <2>1. was' = was /\ Upgrading
      BY <1>3 DEF StartupInv, MigrationsRestart
    <2>2. was.version \in 0..5
      BY <2>1 DEF Upgrading, Found, Versions, Latest
    <2>3. \E v \in was.version..5 : db' = Upgrade(was, v)
      <3>1. CASE disk = <<>>
        BY <2>1, <3>1 DEF MigrationsRestart, Upgrading
      <3>2. CASE disk # <<>>
        <4>1. PICK v \in was.version..4 : disk = <<Upgrade(was, v)>>
          BY <2>1, <3>2 DEF Upgrading
        <4>2. db' = Upgrade(was, v) /\ v \in was.version..5
          BY <2>2, <3>2, <4>1 DEF MigrationsRestart
        <4>3. QED BY <4>2
      <3>3. QED BY <3>1, <3>2
    <2>4. QED BY <1>1, <2>1, <2>3 DEF StartupInv, Upgrading
  <1>4. QED BY <1>2, <1>3

-----------------------------------------------------------------------------
(* The queue of settings. *)

Op == {o \in [op: {"load", "save", "clear", "shelf"}, book: Book \cup {None},
              scope: {"none", "global", "book"}, draft: Draft \cup {None},
              stage: {"write", "read"}, tried: BOOLEAN, live: BOOLEAN, newest: BOOLEAN] :
          o.scope = "book" => o.book \in Book}

\* The rows by book, with None for the global one.
Writes(o, r) == \/ o.scope = "global" /\ r = None
                \/ o.scope = "book" /\ o.book = r
Row(rows, r) == IF r = None THEN rows.global ELSE rows.override[r]
IsRows(rows) == rows = [global |-> rows.global,
                        override |-> [b \in Book |-> rows.override[b]]]

\* The last operation that writes a row has what is wanted there; where there is none it
\* is there.
Settles(q, rows, want) ==
    \A r \in Book \cup {None} :
        /\ (\A i \in DOMAIN q : ~Writes(q[i], r)) => Row(want, r) = Row(rows, r)
        /\ r \in books \cup {None} =>
              \A i \in DOMAIN q :
                  Writes(q[i], r) /\ (\A j \in DOMAIN q : j > i => ~Writes(q[j], r)) =>
                      Row(want, r) = q[i].draft

\* Only the head has been written, and reads back what it wrote.
HeadWrites(q, rows) ==
    \A i \in DOMAIN q :
        q[i].stage = "read" =>
            /\ i = 1
            /\ \A r \in books \cup {None} : Writes(q[1], r) => Row(rows, r) = q[1].draft

QueueOK(q, rows, want) ==
    /\ q \in Seq(Op)
    /\ IsRows(rows) /\ IsRows(want)
    /\ Settles(q, rows, want) /\ HeadWrites(q, rows)

LEMMA PutRow ==
    ASSUME NEW rows, IsRows(rows), NEW o \in Op, o.scope # "none",
           o.scope = "book" => o.book \in Book, NEW d
    PROVE  LET new == Put(rows, o.scope, o.book, d)
           IN  /\ IsRows(new)
               /\ \A r \in Book \cup {None} :
                     Row(new, r) = IF Writes(o, r) THEN d ELSE Row(rows, r)
  <1> USE BooksAssumption
  <1>1. CASE o.scope = "global"
    <2> DEFINE new == [rows EXCEPT !.global = d]
    <2>1. Put(rows, o.scope, o.book, d) = new
      BY <1>1 DEF Put
    <2>2. new.global = d /\ new.override = rows.override /\ IsRows(new)
      BY DEF IsRows
    <2> HIDE DEF new
    <2>3. o.scope = "global" /\ o.scope # "book"
      BY <1>1
    <2>4. ASSUME NEW r PROVE Row(new, r) = IF Writes(o, r) THEN d ELSE Row(rows, r)
      <3>1. CASE r = None
        <4>1. Writes(o, r)
          BY <2>3, <3>1 DEF Writes
        <4>2. Row(new, r) = d
          BY <2>2, <3>1 DEF Row
        <4>3. QED BY <4>1, <4>2
      <3>2. CASE r # None
        <4>1. ~Writes(o, r)
          BY <2>3, <3>2 DEF Writes
        <4>2. Row(new, r) = Row(rows, r)
          BY <2>2, <3>2 DEF Row
        <4>3. QED BY <4>1, <4>2
      <3>3. QED BY <3>1, <3>2
    <2>5. QED BY <2>1, <2>2, <2>4
  <1>2. CASE o.scope = "book"
    <2> DEFINE new == [rows EXCEPT !.override[o.book] = d]
    <2>1. Put(rows, o.scope, o.book, d) = new
      BY <1>2 DEF Put
    <2>a. o.book \in Book
      BY <1>2
    <2>b. /\ new = [global |-> new.global, override |-> new.override]
          /\ new.global = rows.global
          /\ new.override = [rows.override EXCEPT ![o.book] = d]
      BY DEF IsRows
    <2>c. rows.override = [b \in Book |-> rows.override[b]]
      BY DEF IsRows
    <2>2. new.global = rows.global /\ IsRows(new)
      <3>1. new.override = [b \in Book |-> new.override[b]]
        BY <2>b, <2>c
      <3> HIDE DEF new
      <3>2. QED BY <2>b, <3>1 DEF IsRows
    <2>3. \A b \in Book : new.override[b] = IF b = o.book THEN d ELSE rows.override[b]
      BY <2>a, <2>b, <2>c
    <2> HIDE DEF new
    <2>4. QED BY <1>2, <2>1, <2>2, <2>3 DEF Row, Writes
  <1>3. QED BY <1>1, <1>2 DEF Op

\* An operation behind the others.
LEMMA AppendSettles ==
    ASSUME NEW q, NEW rows, NEW want, QueueOK(q, rows, want),
           NEW o \in Op, o.scope # "none", o.scope = "book" => o.book \in Book,
           o.stage = "write"
    PROVE  QueueOK(Append(q, o), rows, Put(want, o.scope, o.book, o.draft))
  <1> DEFINE new == Put(want, o.scope, o.book, o.draft)
             p == Append(q, o)
  <1>1. /\ IsRows(new)
        /\ \A r \in Book \cup {None} :
              Row(new, r) = IF Writes(o, r) THEN o.draft ELSE Row(want, r)
    BY PutRow DEF QueueOK
  <1>2. /\ p \in Seq(Op) /\ DOMAIN p = 1..Len(q) + 1 /\ p[Len(q) + 1] = o
        /\ Len(q) \in Nat /\ DOMAIN q = 1..Len(q) /\ \A i \in 1..Len(q) : p[i] = q[i]
    BY DEF QueueOK
  <1> HIDE DEF new, p
  <1>3. HeadWrites(p, rows)
    BY <1>2 DEF QueueOK, HeadWrites
  <1>4. ASSUME NEW r \in Book \cup {None}
        PROVE  /\ (\A i \in DOMAIN p : ~Writes(p[i], r)) => Row(new, r) = Row(rows, r)
               /\ r \in books \cup {None} =>
                     \A i \in DOMAIN p :
                         Writes(p[i], r) /\ (\A j \in DOMAIN p : j > i => ~Writes(p[j], r))
                             => Row(new, r) = p[i].draft
    <2>1. CASE Writes(o, r)
      <3>1. Row(new, r) = o.draft
        BY <1>1, <2>1
      <3>2. ~ \A i \in DOMAIN p : ~Writes(p[i], r)
        BY <1>2, <2>1
      <3>3. ASSUME NEW i \in DOMAIN p, \A j \in DOMAIN p : j > i => ~Writes(p[j], r)
            PROVE  i = Len(q) + 1
        BY <1>2, <2>1, <3>3
      <3>4. QED BY <1>2, <3>1, <3>2, <3>3
    <2>2. CASE ~Writes(o, r)
      <3>1. Row(new, r) = Row(want, r)
        BY <1>1, <2>2
      <3>2. /\ (\A i \in DOMAIN q : ~Writes(q[i], r)) => Row(want, r) = Row(rows, r)
            /\ r \in books \cup {None} =>
                  \A i \in DOMAIN q :
                      Writes(q[i], r) /\ (\A j \in DOMAIN q : j > i => ~Writes(q[j], r)) =>
                          Row(want, r) = q[i].draft
        BY DEF QueueOK, Settles
      <3>3. ASSUME \A i \in DOMAIN p : ~Writes(p[i], r)
            PROVE  Row(new, r) = Row(rows, r)
        BY <1>2, <3>1, <3>2, <3>3
      <3>4. ASSUME r \in books \cup {None}, NEW i \in DOMAIN p, Writes(p[i], r),
                   \A j \in DOMAIN p : j > i => ~Writes(p[j], r)
            PROVE  Row(new, r) = p[i].draft
        <4>1. i \in DOMAIN q /\ p[i] = q[i]
          BY <1>2, <2>2, <3>4
        <4>2. \A j \in DOMAIN q : j > i => ~Writes(q[j], r)
          BY <1>2, <3>4
        <4>3. QED BY <3>1, <3>2, <3>4, <4>1, <4>2
      <3>5. QED BY <3>3, <3>4
    <2>3. QED BY <2>1, <2>2
  <1>5. QED BY <1>1, <1>2, <1>3, <1>4 DEF QueueOK, Settles, new, p

\* A reader that opens reads, and writes nothing.
LEMMA AppendLoad ==
    ASSUME NEW q, NEW rows, NEW want, QueueOK(q, rows, want),
           NEW o \in Op, o.scope = "none", o.stage = "write"
    PROVE  QueueOK(Append(q, o), rows, want)
  <1> DEFINE p == Append(q, o)
  <1>1. /\ p \in Seq(Op) /\ DOMAIN p = 1..Len(q) + 1 /\ p[Len(q) + 1] = o
        /\ Len(q) \in Nat /\ DOMAIN q = 1..Len(q) /\ \A i \in 1..Len(q) : p[i] = q[i]
    BY DEF QueueOK
  <1> HIDE DEF p
  <1>2. \A r : ~Writes(o, r)
    BY DEF Writes
  <1>3. HeadWrites(p, rows)
    BY <1>1 DEF QueueOK, HeadWrites
  <1>4. Settles(p, rows, want)
    <2> SUFFICES ASSUME NEW r \in Book \cup {None}
                 PROVE  /\ (\A i \in DOMAIN p : ~Writes(p[i], r)) =>
                              Row(want, r) = Row(rows, r)
                        /\ r \in books \cup {None} =>
                              \A i \in DOMAIN p :
                                  /\ Writes(p[i], r)
                                  /\ \A j \in DOMAIN p : j > i => ~Writes(p[j], r)
                                  => Row(want, r) = p[i].draft
      BY DEF Settles
    <2>1. /\ (\A i \in DOMAIN q : ~Writes(q[i], r)) => Row(want, r) = Row(rows, r)
          /\ r \in books \cup {None} =>
                \A i \in DOMAIN q :
                    Writes(q[i], r) /\ (\A j \in DOMAIN q : j > i => ~Writes(q[j], r)) =>
                        Row(want, r) = q[i].draft
      BY DEF QueueOK, Settles
    <2>2. ASSUME \A i \in DOMAIN p : ~Writes(p[i], r)
          PROVE  Row(want, r) = Row(rows, r)
      BY <1>1, <2>1, <2>2
    <2>3. ASSUME r \in books \cup {None}, NEW i \in DOMAIN p, Writes(p[i], r),
                 \A j \in DOMAIN p : j > i => ~Writes(p[j], r)
          PROVE  Row(want, r) = p[i].draft
      <3>1. i \in DOMAIN q /\ p[i] = q[i]
        BY <1>1, <1>2, <2>3
      <3>2. \A j \in DOMAIN q : j > i => ~Writes(q[j], r)
        BY <1>1, <2>3
      <3>3. QED BY <2>1, <2>3, <3>1, <3>2
    <2>4. QED BY <2>2, <2>3
  <1>5. QED BY <1>1, <1>3, <1>4 DEF QueueOK, p

\* Flags that say for whom an operation runs do not matter to what it writes.
LEMMA SameSettles ==
    ASSUME NEW q, NEW rows, NEW want, QueueOK(q, rows, want),
           NEW p \in Seq(Op), DOMAIN p = DOMAIN q,
           \A i \in DOMAIN q : /\ p[i].scope = q[i].scope /\ p[i].book = q[i].book
                               /\ p[i].draft = q[i].draft
                               /\ p[i].stage = "read" => q[i].stage = "read"
    PROVE  QueueOK(p, rows, want)
  <1>1. \A i \in DOMAIN q : \A r : Writes(p[i], r) <=> Writes(q[i], r)
    BY DEF Writes
  <1>2. Settles(p, rows, want)
    BY <1>1 DEF QueueOK, Settles
  <1>3. HeadWrites(p, rows)
    BY <1>1 DEF QueueOK, HeadWrites
  <1>4. QED BY <1>2, <1>3 DEF QueueOK

LEMMA OlderSettles ==
    ASSUME NEW q, NEW rows, NEW want, QueueOK(q, rows, want)
    PROVE  /\ QueueOK(Older(q), rows, want) /\ QueueOK(Retired(q), rows, want)
           /\ Len(Older(q)) = Len(q) /\ Len(Retired(q)) = Len(q)
  <1>1. /\ q \in Seq(Op) /\ Len(q) \in Nat /\ DOMAIN q = 1..Len(q)
        /\ \A i \in DOMAIN q : q[i] \in Op
    BY DEF QueueOK
  <1>2. \A o \in Op : /\ [o EXCEPT !.newest = FALSE] \in Op
                      /\ [o EXCEPT !.live = FALSE, !.newest = FALSE] \in Op
    BY DEF Op
  <1>3. Older(q) \in Seq(Op) /\ Len(Older(q)) = Len(q)
    <2>1. Older(q) \in [1..Len(q) -> Op]
      BY <1>1, <1>2 DEF Older
    <2>2. QED BY <1>1, <2>1, SeqDef
  <1>4. Retired(q) \in Seq(Op) /\ Len(Retired(q)) = Len(q)
    <2>1. Retired(q) \in [1..Len(q) -> Op]
      BY <1>1, <1>2 DEF Retired
    <2>2. QED BY <1>1, <2>1, SeqDef
  <1>5. \A i \in DOMAIN q :
            LET o == Older(q)[i] IN /\ o.scope = q[i].scope /\ o.book = q[i].book
                                    /\ o.draft = q[i].draft /\ o.stage = q[i].stage
    BY <1>1 DEF Older, Op
  <1>6. \A i \in DOMAIN q :
            LET o == Retired(q)[i] IN /\ o.scope = q[i].scope /\ o.book = q[i].book
                                      /\ o.draft = q[i].draft /\ o.stage = q[i].stage
    BY <1>1 DEF Retired, Op
  <1>7. DOMAIN Older(q) = DOMAIN q /\ DOMAIN Retired(q) = DOMAIN q
    BY DEF Older, Retired
  <1>8. QED BY <1>3, <1>4, <1>5, <1>6, <1>7, SameSettles

-----------------------------------------------------------------------------
(* The panel. *)

Scopes == {"global", "book"}
Pending == [draft: Draft, scope: Scopes]

PanelOK ==
    /\ panel = [book |-> panel.book, result |-> panel.result, draft |-> panel.draft,
                scope |-> panel.scope, pending |-> panel.pending, told |-> panel.told]
    /\ panel.book \in books \cup {None} /\ panel.scope \in Scopes /\ panel.told \in BOOLEAN
    /\ panel.pending # None => panel.pending \in Pending

Closed ==
    /\ panel = NoPanel
    /\ \A i \in DOMAIN queue : ~queue[i].live

\* The load of a reader that opens is the last of the queue, and nobody waits for the
\* others.
Loading ==
    /\ panel.book # None /\ panel.draft = None /\ panel.pending = None /\ panel.result = None
    /\ queue # <<>>
    /\ \A i \in DOMAIN queue :
          IF i = Len(queue) THEN queue[i].op = "load" /\ queue[i].live
                                 /\ queue[i].book = panel.book
          ELSE ~queue[i].live

LoadFailed ==
    /\ panel.book # None /\ panel.draft = None /\ panel.pending = None /\ panel.result = None
    /\ panel.told /\ queue = <<>>

\* What the panel has read is what the rows are, unless an answer that it waits for is
\* under way.
Loaded ==
    /\ panel.book # None
    /\ \A i \in DOMAIN queue : /\ queue[i].live /\ queue[i].op \in {"save", "clear"}
                               /\ queue[i].book = panel.book
                               /\ i = Len(queue) => queue[i].newest
    /\ queue = <<>> /\ ~panel.told => panel.result = ReadSettings(panel.book)

SettingsInv ==
    /\ books \subseteq Book
    /\ QueueOK(queue, Rows(db), wanted)
    /\ \A i \in DOMAIN queue : queue[i].scope = "none" <=> queue[i].op = "load"
    /\ PanelOK
    /\ Closed \/ Loading \/ LoadFailed \/ Loaded
    /\ ~Serving => panel = NoPanel /\ queue = <<>>

LEMMA SettingsInvSettles ==
    ASSUME SettingsInv
    PROVE  SettingsSettle
  <1>1. SUFFICES ASSUME Serving, queue = <<>>
                 PROVE  /\ Rows(db) = wanted
                        /\ panel.book # None /\ panel.result # None /\ ~panel.told =>
                              panel.result = ReadSettings(panel.book)
    BY DEF SettingsSettle
  <1>2. \A r \in Book \cup {None} : Row(wanted, r) = Row(Rows(db), r)
    BY <1>1 DEF SettingsInv, QueueOK, Settles
  <1>3. IsRows(wanted) /\ IsRows(Rows(db))
    BY DEF SettingsInv, QueueOK
  <1>4. \A b \in Book : wanted.override[b] = Rows(db).override[b]
    BY <1>2, BooksAssumption DEF Row
  <1>5. wanted.global = Rows(db).global
    BY <1>2 DEF Row
  <1>6. Rows(db) = wanted
    <2> DEFINE rows == Rows(db)
    <2> HIDE DEF rows
    <2>1. QED BY <1>3, <1>4, <1>5 DEF IsRows, rows
  <1>7. QED BY <1>1, <1>6 DEF SettingsInv, Closed, NoPanel, Loading, LoadFailed, Loaded

LEMMA RowsOf ==
    ASSUME Found(db)
    PROVE  IsRows(Rows(db)) /\ Rows(db).global = db.global /\ Rows(db).override = db.override
  BY DEF IsRows, Rows, Found

LEMMA EmptyQueue ==
    ASSUME NEW rows, IsRows(rows)
    PROVE  QueueOK(<<>>, rows, rows)
  BY DEF QueueOK, Settles, HeadWrites

LEMMA QueuedOp ==
    ASSUME NEW op \in {"load", "save", "clear", "shelf"}, NEW b \in Book \cup {None},
           NEW scope \in {"none", "global", "book"}, NEW d \in Draft \cup {None},
           scope = "book" => b \in Book
    PROVE  LET o == Operation(op, b, scope, d)
           IN  /\ o \in Op /\ o.op = op /\ o.book = b /\ o.scope = scope /\ o.draft = d
               /\ o.stage = "write" /\ o.live /\ o.newest
  BY DEF Operation, Op

\* The facts every step starts from.
LEMMA QueueFacts ==
    ASSUME SettingsInv
    PROVE  /\ queue \in Seq(Op) /\ Len(queue) \in Nat /\ DOMAIN queue = 1..Len(queue)
           /\ queue # <<>> <=> Len(queue) > 0
           /\ \A i \in DOMAIN queue : queue[i] \in Op
           /\ IsRows(Rows(db)) /\ IsRows(wanted)
  BY DEF SettingsInv, QueueOK

\* A save of what is pending, behind the saves that it replaces.
LEMMA FlushOp ==
    ASSUME SettingsInv, panel.pending # None, panel.book # None
    PROVE  LET o == Operation("save", panel.book, panel.pending.scope, panel.pending.draft)
           IN  /\ o \in Op /\ o.op = "save" /\ o.book = panel.book /\ o.scope \in Scopes
               /\ o.scope = panel.pending.scope /\ o.draft = panel.pending.draft
               /\ o.stage = "write" /\ o.live /\ o.newest /\ o.book \in Book
               /\ Loaded
  <1>1. panel.pending \in Pending /\ panel.book \in Book
    BY DEF SettingsInv, PanelOK
  <1>2. panel.pending.scope \in Scopes /\ panel.pending.draft \in Draft
    BY <1>1 DEF Pending
  <1>3. Loaded
    BY DEF SettingsInv, Closed, NoPanel, Loading, LoadFailed
  <1>4. QED BY <1>1, <1>2, <1>3, QueuedOp DEF Scopes

\* The steps.

Steady == UNCHANGED <<books, db, startup>>

LEMMA MountReaderKeeps ==
    ASSUME SettingsInv, Found(db), Steady, NEW b \in Book, MountReader(b)
    PROVE  SettingsInv'
  <1> DEFINE o == Operation("load", b, "none", None)
  <1>1. /\ o \in Op /\ o.op = "load" /\ o.book = b /\ o.scope = "none"
        /\ o.stage = "write" /\ o.live
    BY QueuedOp
  <1> HIDE DEF o
  <1>2. /\ Serving /\ panel.book = None /\ b \in books /\ queue' = Append(queue, o)
        /\ panel' = [NoPanel EXCEPT !.book = b] /\ wanted' = wanted
        /\ UNCHANGED <<books, db, startup>>
    BY DEF MountReader, Queues, o, Steady
  <1>3. Closed
    BY <1>2 DEF SettingsInv, Loading, LoadFailed, Loaded
  <1>4. /\ Len(queue') = Len(queue) + 1 /\ queue'[Len(queue) + 1] = o
        /\ \A i \in 1..Len(queue) : queue'[i] = queue[i]
        /\ DOMAIN queue' = 1..(Len(queue) + 1)
    BY <1>1, <1>2, QueueFacts
  <1>5. QueueOK(queue', Rows(db'), wanted')
    BY <1>1, <1>2, AppendLoad DEF SettingsInv
  <1>6. Loading'
    <2>1. /\ panel'.book = b /\ panel'.draft = None /\ panel'.pending = None
          /\ panel'.result = None /\ b # None
      BY <1>2, BooksAssumption DEF NoPanel
    <2>2. queue' # <<>>
      BY <1>4
    <2>3. ASSUME NEW i \in DOMAIN queue', i # Len(queue') PROVE ~queue'[i].live
      BY <1>3, <1>4, <2>3, QueueFacts DEF Closed
    <2>4. QED BY <1>1, <1>4, <2>1, <2>2, <2>3 DEF Loading
  <1>7. PanelOK'
    BY <1>2 DEF PanelOK, NoPanel, Scopes
  <1>8. \A i \in DOMAIN queue' : queue'[i].scope = "none" <=> queue'[i].op = "load"
    BY <1>1, <1>4, QueueFacts DEF SettingsInv
  <1>9. QED BY <1>2, <1>5, <1>6, <1>7, <1>8 DEF SettingsInv, QueueOK, Settles, HeadWrites, Serving

LEMMA ChangeDraftKeeps ==
    ASSUME SettingsInv, Steady, NEW d \in Draft, ChangeDraft(d)
    PROVE  SettingsInv'
  <1>1. /\ panel.book # None /\ panel.draft # None /\ queue' = queue /\ wanted' = wanted
        /\ panel' = [panel EXCEPT !.draft = d,
                                  !.pending = [draft |-> d, scope |-> panel.scope]]
        /\ UNCHANGED <<books, db, startup>>
    BY DEF ChangeDraft, Steady
  <1>2. Loaded
    BY <1>1 DEF SettingsInv, Closed, NoPanel, Loading, LoadFailed
  <1>3. PanelOK'
    BY <1>1 DEF SettingsInv, PanelOK, Pending
  <1>4. /\ panel'.book = panel.book /\ panel'.told = panel.told
        /\ panel'.result = panel.result
    BY <1>1 DEF SettingsInv, PanelOK
  <1>5. Loaded'
    BY <1>1, <1>2, <1>4 DEF Loaded, ReadSettings
  <1>6. Serving
    BY <1>1 DEF SettingsInv, NoPanel
  <1>7. QED BY <1>1, <1>3, <1>5, <1>6 DEF SettingsInv, QueueOK, Settles, HeadWrites, Serving

\* What is common to the steps that queue a save or a clear of the reader.
LEMMA ReaderQueues ==
    ASSUME SettingsInv, Steady, Loaded, PanelOK', panel'.book = panel.book,
           NEW o \in Op, o.op \in {"save", "clear"}, o.book = panel.book, o.book \in Book,
           o.scope \in Scopes, o.stage = "write", o.live, o.newest,
           queue' = Append(Older(queue), o),
           wanted' = Put(wanted, o.scope, o.book, o.draft)
    PROVE  SettingsInv'
  <1>1. UNCHANGED <<books, db, startup>>
    BY DEF Steady
  <1>2. QueueOK(Older(queue), Rows(db), wanted) /\ Len(Older(queue)) = Len(queue)
    BY OlderSettles DEF SettingsInv
  <1>3. QueueOK(queue', Rows(db'), wanted')
    BY <1>1, <1>2, AppendSettles DEF Scopes
  <1>4. /\ Older(queue) \in Seq(Op) /\ DOMAIN Older(queue) = 1..Len(queue)
        /\ Len(queue) \in Nat
    BY <1>2, QueueFacts DEF QueueOK
  <1>5. /\ Len(queue') = Len(queue) + 1 /\ queue'[Len(queue) + 1] = o
        /\ \A i \in 1..Len(queue) : queue'[i] = Older(queue)[i]
        /\ DOMAIN queue' = 1..(Len(queue) + 1)
    BY <1>2, <1>4
  <1>6. ASSUME NEW i \in 1..Len(queue)
        PROVE  /\ queue'[i].op = queue[i].op /\ queue'[i].scope = queue[i].scope
               /\ queue'[i].book = queue[i].book /\ queue'[i].live = queue[i].live
    <2>1. Older(queue)[i] = [queue[i] EXCEPT !.newest = FALSE]
      BY QueueFacts DEF Older
    <2>2. queue[i] \in Op
      BY QueueFacts
    <2>3. QED BY <1>5, <2>1, <2>2 DEF Op
  <1>7. Loaded'
    <2>1. queue' # <<>>
      BY <1>4, <1>5
    <2>2. ASSUME NEW i \in DOMAIN queue'
          PROVE  /\ queue'[i].live /\ queue'[i].op \in {"save", "clear"}
                 /\ queue'[i].book = panel'.book
                 /\ i = Len(queue') => queue'[i].newest
      <3>1. CASE i = Len(queue) + 1
        BY <1>5, <3>1
      <3>2. CASE i # Len(queue) + 1
        <4>1. i \in 1..Len(queue) /\ i \in DOMAIN queue /\ i # Len(queue')
          BY <1>4, <1>5, <3>2, QueueFacts
        <4>2. QED BY <1>6, <4>1 DEF Loaded
      <3>3. QED BY <3>1, <3>2
    <2>3. QED BY <2>1, <2>2 DEF Loaded
  <1>8. ASSUME NEW i \in DOMAIN queue'
        PROVE  queue'[i].scope = "none" <=> queue'[i].op = "load"
    <2>1. CASE i = Len(queue) + 1
      BY <1>5, <2>1 DEF Scopes
    <2>2. CASE i # Len(queue) + 1
      BY <1>4, <1>5, <1>6, <2>2, QueueFacts DEF SettingsInv
    <2>3. QED BY <2>1, <2>2
  <1>9. Serving'
    BY <1>1 DEF SettingsInv, Loaded, NoPanel, Serving
  <1>10. QED BY <1>1, <1>3, <1>7, <1>8, <1>9
             DEF SettingsInv, QueueOK, Settles, HeadWrites

LEMMA SaveTimerKeeps ==
    ASSUME SettingsInv, Steady, SaveTimer
    PROVE  SettingsInv'
  <1> DEFINE o == Operation("save", panel.book, panel.pending.scope, panel.pending.draft)
  <1>1. /\ panel.pending # None
        /\ queue' = Append(Older(queue), o)
        /\ wanted' = Put(wanted, panel.pending.scope, panel.book, panel.pending.draft)
        /\ panel' = [panel EXCEPT !.pending = None, !.told = FALSE]
    BY DEF SaveTimer, Flushed, Queues
  <1>2. panel.book # None
    BY <1>1 DEF SettingsInv, Closed, NoPanel, Loading, LoadFailed, Loaded
  <1>3. /\ o \in Op /\ o.op = "save" /\ o.book = panel.book /\ o.scope \in Scopes
        /\ o.scope = panel.pending.scope /\ o.draft = panel.pending.draft
        /\ o.stage = "write" /\ o.live /\ o.newest /\ o.book \in Book
        /\ Loaded
    BY <1>1, <1>2, FlushOp
  <1> HIDE DEF o
  <1>4. PanelOK' /\ panel'.book = panel.book
    BY <1>1 DEF SettingsInv, PanelOK, Steady
  <1>5. QED BY <1>1, <1>3, <1>4, ReaderQueues

LEMMA ChangeScopeKeeps ==
    ASSUME SettingsInv, Steady, NEW scope \in Scopes, ChangeScope(scope)
    PROVE  SettingsInv'
  <1> DEFINE o == Operation("save", panel.book, panel.pending.scope, panel.pending.draft)
  <1>1. /\ panel.book # None /\ panel'.book = panel.book /\ panel'.pending = None
        /\ panel'.result = panel.result /\ PanelOK'
        /\ panel'.told <=> panel.told /\ panel.pending = None
        /\ panel.result = None => panel'.draft = panel.draft
    BY DEF ChangeScope, SettingsInv, PanelOK, Steady
  <1>2. CASE panel.pending = None
    <2>1. queue' = queue /\ wanted' = wanted /\ UNCHANGED <<books, db, startup>>
      BY <1>2 DEF ChangeScope, Flushed, Steady
    <2>2. Loading' \/ LoadFailed' \/ Loaded'
      <3>1. CASE Loading
        BY <1>1, <1>2, <2>1, <3>1 DEF Loading
      <3>2. CASE LoadFailed
        BY <1>1, <1>2, <2>1, <3>2 DEF LoadFailed
      <3>3. CASE Loaded
        BY <1>1, <1>2, <2>1, <3>3 DEF Loaded, ReadSettings
      <3>4. QED BY <1>1, <3>1, <3>2, <3>3 DEF SettingsInv, Closed, NoPanel
    <2>3. Serving
      BY <1>1 DEF SettingsInv, NoPanel
    <2>4. QED BY <1>1, <2>1, <2>2, <2>3
              DEF SettingsInv, QueueOK, Settles, HeadWrites, Serving
  <1>3. CASE panel.pending # None
    <2>1. /\ queue' = Append(Older(queue), o)
          /\ wanted' = Put(wanted, panel.pending.scope, panel.book, panel.pending.draft)
      BY <1>3 DEF ChangeScope, Flushed, Queues
    <2>2. /\ o \in Op /\ o.op = "save" /\ o.book = panel.book /\ o.scope \in Scopes
          /\ o.scope = panel.pending.scope /\ o.draft = panel.pending.draft
          /\ o.stage = "write" /\ o.live /\ o.newest /\ o.book \in Book
          /\ Loaded
      BY <1>1, <1>3, FlushOp
    <2> HIDE DEF o
    <2>3. QED BY <1>1, <2>1, <2>2, ReaderQueues
  <1>4. QED BY <1>2, <1>3

LEMMA ClearOverrideKeeps ==
    ASSUME SettingsInv, Steady, ClearOverride
    PROVE  SettingsInv'
  <1> DEFINE o == Operation("clear", panel.book, "book", None)
  <1>1. /\ panel.book # None /\ panel.result # None
        /\ queue' = Append(Older(queue), o)
        /\ wanted' = Put(wanted, "book", panel.book, None)
        /\ panel' = [panel EXCEPT !.pending = None, !.told = FALSE]
    BY DEF ClearOverride, Queues
  <1>2. PanelOK' /\ panel'.book = panel.book /\ panel.book \in Book
    BY <1>1 DEF SettingsInv, PanelOK, Steady
  <1>3. /\ o \in Op /\ o.op = "clear" /\ o.book = panel.book /\ o.scope = "book"
        /\ o.draft = None /\ o.stage = "write" /\ o.live /\ o.newest
    BY <1>2, QueuedOp
  <1>4. Loaded
    BY <1>1 DEF SettingsInv, Closed, NoPanel, Loading, LoadFailed
  <1> HIDE DEF o
  <1>5. QED BY <1>1, <1>2, <1>3, <1>4, ReaderQueues DEF Scopes

\* Nobody waits for what a closed reader leaves in the queue.
LEMMA RetiredRest ==
    ASSUME NEW q \in Seq(Op)
    PROVE  /\ DOMAIN Retired(q) = DOMAIN q
           /\ \A i \in DOMAIN q : /\ ~Retired(q)[i].live
                                  /\ Retired(q)[i].scope = q[i].scope
                                  /\ Retired(q)[i].op = q[i].op
  <1>1. \A i \in DOMAIN q : q[i] \in Op
    OBVIOUS
  <1>2. QED BY <1>1 DEF Retired, Op

LEMMA UnmountReaderKeeps ==
    ASSUME SettingsInv, Steady, UnmountReader
    PROVE  SettingsInv'
  <1> DEFINE o == Operation("save", panel.book, panel.pending.scope, panel.pending.draft)
  <1>1. panel.book # None /\ panel' = NoPanel /\ UNCHANGED <<books, db, startup>>
    BY DEF UnmountReader, Steady
  <1>2. Serving'
    BY <1>1 DEF SettingsInv, NoPanel, Serving
  <1>3. PanelOK'
    BY <1>1 DEF PanelOK, NoPanel, Scopes
  <1>4. PICK q \in Seq(Op) : /\ queue' = Retired(q)
                             /\ QueueOK(q, Rows(db), wanted')
                             /\ \A i \in DOMAIN q : q[i].scope = "none" <=> q[i].op = "load"
    <2>1. CASE panel.pending = None
      <3>1. queue' = Retired(queue) /\ wanted' = wanted
        BY <2>1 DEF UnmountReader
      <3>2. QED BY <3>1, QueueFacts DEF SettingsInv
    <2>2. CASE panel.pending # None
      <3>1. /\ queue' = Retired(Append(queue, o))
            /\ wanted' = Put(wanted, o.scope, o.book, o.draft)
        BY <2>2 DEF UnmountReader
      <3>2. /\ o \in Op /\ o.op = "save" /\ o.scope \in Scopes
            /\ o.stage = "write" /\ o.book \in Book
        BY <1>1, <2>2, FlushOp
      <3> HIDE DEF o
      <3>3. QueueOK(Append(queue, o), Rows(db), wanted')
        BY <3>1, <3>2, AppendSettles DEF SettingsInv, Scopes
      <3>4. /\ DOMAIN Append(queue, o) = 1..(Len(queue) + 1)
            /\ Append(queue, o)[Len(queue) + 1] = o
            /\ \A i \in 1..Len(queue) : Append(queue, o)[i] = queue[i]
            /\ Append(queue, o) \in Seq(Op) /\ DOMAIN queue = 1..Len(queue)
            /\ Len(queue) \in Nat
        BY <3>2, QueueFacts
      <3>5. ASSUME NEW i \in DOMAIN Append(queue, o)
            PROVE  Append(queue, o)[i].scope = "none" <=> Append(queue, o)[i].op = "load"
        <4>1. CASE i = Len(queue) + 1
          BY <3>2, <3>4, <4>1 DEF Scopes
        <4>2. CASE i # Len(queue) + 1
          BY <3>4, <4>2 DEF SettingsInv
        <4>3. QED BY <4>1, <4>2
      <3>6. QED BY <3>1, <3>3, <3>4, <3>5
    <2>3. QED BY <2>1, <2>2
  <1>5. QueueOK(queue', Rows(db), wanted')
    BY <1>4, OlderSettles
  <1>6. /\ \A i \in DOMAIN queue' : ~queue'[i].live
        /\ \A i \in DOMAIN queue' : queue'[i].scope = "none" <=> queue'[i].op = "load"
    BY <1>4, RetiredRest
  <1>7. Closed'
    BY <1>1, <1>6 DEF Closed
  <1>8. QED BY <1>1, <1>2, <1>3, <1>5, <1>6, <1>7
            DEF SettingsInv, QueueOK, Settles, HeadWrites

LEMMA ShelfSaveKeeps ==
    ASSUME SettingsInv, Steady, NEW d \in Draft, ShelfSave(d)
    PROVE  SettingsInv'
  <1> DEFINE made == Operation("shelf", None, "global", d)
             o == [made EXCEPT !.live = FALSE]
  <1>1. /\ Serving /\ panel.book = None /\ queue' = Append(queue, o)
        /\ wanted' = Put(wanted, "global", None, d) /\ panel' = panel
        /\ UNCHANGED <<books, db, startup>>
    BY DEF ShelfSave, Queues, Steady
  <1>2. /\ made \in Op /\ made.op = "shelf" /\ made.book = None /\ made.scope = "global"
        /\ made.draft = d /\ made.stage = "write"
    BY QueuedOp
  <1> HIDE DEF made
  <1>3. /\ o \in Op /\ o.op = "shelf" /\ o.book = None /\ o.scope = "global"
        /\ o.draft = d /\ o.stage = "write" /\ ~o.live
    BY <1>2 DEF Op
  <1> HIDE DEF o
  <1>4. QueueOK(queue', Rows(db), wanted')
    BY <1>1, <1>3, AppendSettles DEF SettingsInv
  <1>5. Closed
    BY <1>1 DEF SettingsInv, Loading, LoadFailed, Loaded
  <1>6. /\ DOMAIN queue' = 1..(Len(queue) + 1) /\ queue'[Len(queue) + 1] = o
        /\ \A i \in 1..Len(queue) : queue'[i] = queue[i]
        /\ DOMAIN queue = 1..Len(queue) /\ Len(queue) \in Nat
    BY <1>1, <1>3, QueueFacts
  <1>7. ASSUME NEW i \in DOMAIN queue'
        PROVE  /\ queue'[i].scope = "none" <=> queue'[i].op = "load"
               /\ ~queue'[i].live
    <2>1. CASE i = Len(queue) + 1
      BY <1>3, <1>6, <2>1
    <2>2. CASE i # Len(queue) + 1
      BY <1>5, <1>6, <2>2 DEF SettingsInv, Closed
    <2>3. QED BY <2>1, <2>2
  <1>8. Closed' /\ PanelOK' /\ Serving'
    BY <1>1, <1>5, <1>7 DEF Closed, SettingsInv, PanelOK, Serving
  <1>9. QED BY <1>1, <1>4, <1>7, <1>8 DEF SettingsInv, QueueOK, Settles, HeadWrites

\* The head leaves the queue; the rows did not change.
LEMMA HeadLeaves ==
    ASSUME NEW q, NEW rows, NEW want, QueueOK(q, rows, want), q # <<>>,
           NEW new, IsRows(new),
           \A r \in Book \cup {None} :
               IF /\ Writes(q[1], r)
                  /\ \A j \in DOMAIN q : j > 1 => ~Writes(q[j], r)
               THEN Row(new, r) = Row(rows, r)
               ELSE Row(new, r) = Row(want, r)
    PROVE  /\ QueueOK(Tail(q), rows, new)
           /\ Len(Tail(q)) = Len(q) - 1 /\ DOMAIN Tail(q) = 1..(Len(q) - 1)
           /\ \A i \in DOMAIN Tail(q) : i + 1 \in DOMAIN q /\ Tail(q)[i] = q[i + 1]
  <1> DEFINE p == Tail(q)
  <1>1. /\ p \in Seq(Op) /\ Len(q) \in Nat /\ DOMAIN q = 1..Len(q)
        /\ Len(q) > 0 /\ Len(p) = Len(q) - 1
        /\ DOMAIN p = 1..(Len(q) - 1)
        /\ \A i \in DOMAIN p : i + 1 \in DOMAIN q /\ p[i] = q[i + 1]
    BY DEF QueueOK
  <1> HIDE DEF p
  <1>2. HeadWrites(p, rows)
    <2>1. \A i \in DOMAIN q : i > 1 => q[i].stage # "read"
      BY <1>1 DEF QueueOK, HeadWrites
    <2>2. ASSUME NEW i \in DOMAIN p PROVE p[i].stage # "read"
      BY <1>1, <2>1
    <2>3. QED BY <2>2 DEF HeadWrites
  <1>3. Settles(p, rows, new)
    <2> SUFFICES ASSUME NEW r \in Book \cup {None}
                 PROVE  /\ (\A i \in DOMAIN p : ~Writes(p[i], r)) =>
                              Row(new, r) = Row(rows, r)
                        /\ r \in books \cup {None} =>
                              \A i \in DOMAIN p :
                                  /\ Writes(p[i], r)
                                  /\ \A j \in DOMAIN p : j > i => ~Writes(p[j], r)
                                  => Row(new, r) = p[i].draft
      BY DEF Settles
    <2>1. /\ (\A i \in DOMAIN q : ~Writes(q[i], r)) => Row(want, r) = Row(rows, r)
          /\ r \in books \cup {None} =>
                \A i \in DOMAIN q :
                    /\ Writes(q[i], r)
                    /\ \A j \in DOMAIN q : j > i => ~Writes(q[j], r)
                    => Row(want, r) = q[i].draft
      BY DEF QueueOK, Settles
    <2>2. \A j \in DOMAIN q : j > 1 => j - 1 \in DOMAIN p /\ q[j] = p[j - 1]
      BY <1>1
    <2>3. ASSUME \A i \in DOMAIN p : ~Writes(p[i], r)
          PROVE  Row(new, r) = Row(rows, r)
      <3>1. \A j \in DOMAIN q : j > 1 => ~Writes(q[j], r)
        BY <2>2, <2>3
      <3>2. CASE Writes(q[1], r)
        BY <3>1, <3>2 
      <3>3. CASE ~Writes(q[1], r)
        <4>1. \A i \in DOMAIN q : ~Writes(q[i], r)
          BY <1>1, <3>1, <3>3
        <4>2. QED BY <2>1, <3>3, <4>1
      <3>4. QED BY <3>2, <3>3
    <2>4. ASSUME r \in books \cup {None}, NEW i \in DOMAIN p, Writes(p[i], r),
                 \A j \in DOMAIN p : j > i => ~Writes(p[j], r)
          PROVE  Row(new, r) = p[i].draft
      <3>1. i + 1 \in DOMAIN q /\ q[i + 1] = p[i] /\ i + 1 > 1
        BY <1>1
      <3>2. ASSUME NEW j \in DOMAIN q, j > i + 1 PROVE ~Writes(q[j], r)
        <4>1. j - 1 \in DOMAIN p /\ j - 1 > i /\ p[j - 1] = q[j]
          BY <1>1, <3>2
        <4>2. QED BY <2>4, <4>1
      <3>3. Row(want, r) = p[i].draft
        BY <2>1, <2>4, <3>1, <3>2
      <3>4. Row(new, r) = Row(want, r)
        BY <2>4, <3>1
      <3>5. QED BY <3>3, <3>4
    <2>5. QED BY <2>3, <2>4
  <1>4. QueueOK(p, rows, new)
    BY <1>1, <1>2, <1>3 DEF QueueOK
  <1>5. QED BY <1>1, <1>4 DEF p

\* The head writes its row, and is still there.
Written(q) == [q EXCEPT ![1].stage = "read"]

LEMMA HeadIsWritten ==
    ASSUME NEW q, NEW rows, NEW want, QueueOK(q, rows, want), q # <<>>,
           q[1].scope # "none", q[1].scope = "book" => q[1].book \in books, books \subseteq Book
    PROVE  /\ QueueOK(Written(q), Put(rows, q[1].scope, q[1].book, q[1].draft), want)
           /\ Len(Written(q)) = Len(q) /\ DOMAIN Written(q) = DOMAIN q
           /\ Written(q)[1].stage = "read"
           /\ \A i \in DOMAIN q :
                 /\ Written(q)[i].op = q[i].op /\ Written(q)[i].scope = q[i].scope
                 /\ Written(q)[i].book = q[i].book /\ Written(q)[i].live = q[i].live
                 /\ Written(q)[i].newest = q[i].newest
                 /\ i > 1 => Written(q)[i] = q[i]
  <1> DEFINE p == Written(q)
             new == Put(rows, q[1].scope, q[1].book, q[1].draft)
             o == q[1]
             read == [o EXCEPT !.stage = "read"]
  <1>1. /\ q \in Seq(Op) /\ Len(q) \in Nat /\ DOMAIN q = 1..Len(q) /\ Len(q) > 0
        /\ o \in Op /\ IsRows(rows) /\ IsRows(want)
    BY DEF QueueOK
  <1>2. /\ IsRows(new)
        /\ \A r \in Book \cup {None} :
              Row(new, r) = IF Writes(o, r) THEN o.draft ELSE Row(rows, r)
    BY <1>1, PutRow
  <1>3. /\ read \in Op /\ read.op = o.op /\ read.scope = o.scope /\ read.book = o.book
        /\ read.live = o.live /\ read.draft = o.draft /\ read.newest = o.newest
        /\ read.stage = "read"
    BY <1>1 DEF Op
  <1>a. p = [q EXCEPT ![1] = read]
    BY DEF Written
  <1> HIDE DEF read, p, new
  <1>4. /\ p \in Seq(Op) /\ Len(p) = Len(q) /\ DOMAIN p = DOMAIN q /\ p[1] = read
        /\ \A i \in DOMAIN q : i # 1 => p[i] = q[i]
    BY <1>1, <1>3, <1>a
  <1>5. \A i \in DOMAIN q : /\ p[i].op = q[i].op /\ p[i].scope = q[i].scope
                            /\ p[i].book = q[i].book /\ p[i].live = q[i].live
                            /\ p[i].draft = q[i].draft /\ p[i].newest = q[i].newest
    BY <1>3, <1>4
  <1> HIDE DEF o
  <1>6. \A i \in DOMAIN q : \A r : Writes(p[i], r) <=> Writes(q[i], r)
    BY <1>5 DEF Writes
  <1>7. HeadWrites(p, new)
    <2>1. ASSUME NEW i \in DOMAIN p, p[i].stage = "read" PROVE i = 1
      BY <1>4, <2>1 DEF QueueOK, HeadWrites
    <2>2. ASSUME NEW r \in books \cup {None}, Writes(p[1], r) PROVE Row(new, r) = p[1].draft
      BY <1>1, <1>2, <1>3, <1>4, <1>6, <2>2 DEF o
    <2>3. QED BY <2>1, <2>2 DEF HeadWrites
  <1>8. Settles(p, new, want)
    <2> SUFFICES ASSUME NEW r \in Book \cup {None}
                 PROVE  /\ (\A i \in DOMAIN q : ~Writes(q[i], r)) =>
                              Row(want, r) = Row(new, r)
                        /\ r \in books \cup {None} =>
                              \A i \in DOMAIN q :
                                  /\ Writes(q[i], r)
                                  /\ \A j \in DOMAIN q : j > i => ~Writes(q[j], r)
                                  => Row(want, r) = q[i].draft
      BY <1>4, <1>5, <1>6 DEF Settles
    <2>1. ASSUME \A i \in DOMAIN q : ~Writes(q[i], r) PROVE Row(want, r) = Row(new, r)
      <3>1. Row(new, r) = Row(rows, r)
        BY <1>1, <1>2, <2>1 DEF o
      <3>2. QED BY <2>1, <3>1 DEF QueueOK, Settles
    <2>2. QED BY <2>1 DEF QueueOK, Settles
  <1>9. QueueOK(p, new, want)
    BY <1>2, <1>1, <1>4, <1>7, <1>8 DEF QueueOK
  <1>10. QED BY <1>3, <1>4, <1>5, <1>9 DEF p, new

LEMMA WrittenHeadLeaves ==
    ASSUME NEW q, NEW rows, NEW want, QueueOK(q, rows, want), q # <<>>,
           q[1].stage = "read" \/ q[1].scope = "none",
           q[1].scope = "book" => q[1].book \in books
    PROVE  QueueOK(Tail(q), rows, want)
  <1>1. q \in Seq(Op) /\ Len(q) \in Nat /\ DOMAIN q = 1..Len(q) /\ Len(q) > 0 /\ 1 \in DOMAIN q
    BY DEF QueueOK
  <1>2. ASSUME NEW r \in Book \cup {None}, Writes(q[1], r),
               \A j \in DOMAIN q : j > 1 => ~Writes(q[j], r)
        PROVE  Row(want, r) = Row(rows, r)
    <2>1. r \in books \cup {None} /\ q[1].stage = "read"
      BY <1>2 DEF Writes
    <2>2. Row(want, r) = q[1].draft
      BY <1>1, <1>2, <2>1 DEF QueueOK, Settles
    <2>3. Row(rows, r) = q[1].draft
      BY <1>1, <1>2, <2>1 DEF QueueOK, HeadWrites
    <2>4. QED BY <2>2, <2>3
  <1>3. IsRows(want)
    BY DEF QueueOK
  <1>4. QED BY <1>2, <1>3, HeadLeaves

\* Who waits for the rest of the queue when its head is gone.
LEMMA TailPhase ==
    ASSUME SettingsInv, queue # <<>>, panel' = panel, queue' = Tail(queue)
    PROVE  /\ Closed => Closed'
           /\ Loading /\ ~(queue[1].op = "load" /\ queue[1].live) => Loading'
           /\ Loaded /\ Len(queue) > 1 => Loaded'
           /\ Len(queue) = 1 <=> queue' = <<>>
           /\ \A i \in DOMAIN queue' : queue'[i].scope = "none" <=> queue'[i].op = "load"
  <1>1. /\ Len(queue) \in Nat /\ DOMAIN queue = 1..Len(queue) /\ Len(queue) > 0
        /\ DOMAIN queue' = 1..(Len(queue) - 1) /\ Len(queue') = Len(queue) - 1
        /\ \A i \in DOMAIN queue' : i + 1 \in DOMAIN queue /\ queue'[i] = queue[i + 1]
        /\ queue' \in Seq(Op)
    BY QueueFacts
  <1>2. Len(queue) = 1 <=> queue' = <<>>
    <2> DEFINE t == queue'
    <2>1. t \in Seq(Op)
      BY <1>1
    <2> HIDE DEF t
    <2>2. Len(t) = 0 <=> t = <<>>
      BY <2>1
    <2>3. QED BY <1>1, <2>2 DEF t
  <1>3. Closed => Closed'
    BY <1>1 DEF Closed
  <1>4. ASSUME Loading, ~(queue[1].op = "load" /\ queue[1].live) PROVE Loading'
    <2>1. Len(queue) # 1
      BY <1>1, <1>4 DEF Loading
    <2>2. \A i \in DOMAIN queue' : i = Len(queue') <=> i + 1 = Len(queue)
      BY <1>1
    <2>3. QED BY <1>1, <1>2, <1>4, <2>1, <2>2 DEF Loading
  <1>5. ASSUME Loaded, Len(queue) > 1 PROVE Loaded'
    <2>1. queue' # <<>>
      BY <1>1, <1>2, <1>5
    <2>2. \A i \in DOMAIN queue' : i = Len(queue') => i + 1 = Len(queue)
      BY <1>1
    <2>3. QED BY <1>1, <1>5, <2>1, <2>2 DEF Loaded
  <1>6. QED BY <1>1, <1>2, <1>3, <1>4, <1>5 DEF SettingsInv

LEMMA WriteSettingsKeeps ==
    ASSUME SettingsInv, Found(db), UNCHANGED books, WriteSettings
    PROVE  SettingsInv'
  <1> DEFINE o == Head(queue)
             rows == Put(Rows(db), o.scope, o.book, o.draft)
             p == Written(queue)
  <1>1. /\ queue # <<>> /\ o.op # "load" /\ o.stage = "write"
        /\ o.scope = "book" => o.book \in books
        /\ db' = [db EXCEPT !.global = rows.global, !.override = rows.override,
                            !.updated = IF o.scope = "global" THEN 1 ELSE @]
        /\ queue' = IF o.op = "shelf" THEN Tail(queue) ELSE p
        /\ UNCHANGED <<disk, startup, was, panel, wanted>> /\ UNCHANGED books
    BY DEF WriteSettings, Written
  <1>a. o = queue[1]
    BY <1>1, QueueFacts
  <1>2. /\ 1 \in DOMAIN queue /\ DOMAIN queue = 1..Len(queue) /\ Len(queue) \in Nat
        /\ o \in Op /\ o.scope # "none" /\ books \subseteq Book
    BY <1>1, QueueFacts DEF SettingsInv
  <1>3. IsRows(rows)
    BY <1>1, <1>2, PutRow, QueueFacts
  <1>4. Rows(db') = rows
    <2> HIDE DEF rows
    <2>1. db'.global = rows.global /\ db'.override = rows.override
      BY <1>1 DEF Found, Shaped
    <2>2. rows = [global |-> rows.global, override |-> rows.override]
      BY <1>3 DEF IsRows
    <2>3. QED BY <2>1, <2>2 DEF Rows
  <1>5. /\ QueueOK(p, rows, wanted) /\ p[1].stage = "read" /\ Len(p) = Len(queue) /\ DOMAIN p = DOMAIN queue
        /\ \A i \in DOMAIN queue : /\ p[i].op = queue[i].op /\ p[i].scope = queue[i].scope
                                   /\ p[i].book = queue[i].book
                                   /\ p[i].live = queue[i].live
                                   /\ p[i].newest = queue[i].newest
                                   /\ i > 1 => p[i] = queue[i]
    <2> HIDE DEF o
    <2>1. QueueOK(queue, Rows(db), wanted)
      BY DEF SettingsInv
    <2>2. rows = Put(Rows(db), queue[1].scope, queue[1].book, queue[1].draft)
      BY <1>a
    <2>3. queue[1].scope # "none" /\ (queue[1].scope = "book" => queue[1].book \in books)
      BY <1>1, <1>2, <1>a
    <2>4. books \subseteq Book /\ queue # <<>>
      BY <1>1, <1>2
    <2> HIDE DEF rows
    <2>5. QED BY <2>1, <2>2, <2>3, <2>4, HeadIsWritten
  <1>6. Serving' /\ PanelOK'
    BY <1>1 DEF SettingsInv, PanelOK, Serving
  <1>7. CASE o.op = "shelf"
    <2>1. Tail(p) = Tail(queue) /\ p # <<>> /\ p[1].stage = "read"
      <3>1. p \in Seq(Op) /\ queue \in Seq(Op)
        BY <1>5, QueueFacts DEF QueueOK
      <3>2. p[1].stage = "read"
        BY <1>5
      <3> HIDE DEF p
      <3>3. p # <<>>
        BY <1>1, <1>5, <3>1, QueueFacts
      <3>4. /\ Len(Tail(p)) = Len(Tail(queue)) /\ Tail(p) \in Seq(Op)
            /\ Tail(queue) \in Seq(Op)
            /\ Len(Tail(queue)) = Len(queue) - 1
        BY <1>1, <1>5, <3>1, <3>3
      <3>5. \A i \in 1..Len(Tail(p)) : Tail(p)[i] = Tail(queue)[i]
        BY <1>1, <1>2, <1>5, <3>1, <3>3, <3>4
      <3>6. QED BY <3>2, <3>3, <3>4, <3>5, SeqEqual
    <2> HIDE DEF p, rows, o
    <2>2. QueueOK(Tail(queue), rows, wanted)
      BY <1>1, <1>2, <1>5, <1>a, <2>1, WrittenHeadLeaves
    <2>3. queue' = Tail(queue) /\ panel' = panel
      BY <1>1, <1>7
    <2>4. Closed \/ Loading
      BY <1>1, <1>2, <1>7, <1>a DEF SettingsInv, LoadFailed, Loaded
    <2>5. Closed' \/ Loading'
      BY <1>1, <1>7, <1>a, <2>3, <2>4, TailPhase
    <2>6. \A i \in DOMAIN queue' : queue'[i].scope = "none" <=> queue'[i].op = "load"
      BY <1>1, <2>3, TailPhase
    <2>7. /\ QueueOK(queue', Rows(db'), wanted') /\ books' = books
          /\ books \subseteq Book
      BY <1>1, <1>2, <1>4, <2>2, <2>3
    <2>8. QED BY <1>6, <2>5, <2>6, <2>7
              DEF SettingsInv, QueueOK, Settles, HeadWrites
  <1>8. CASE o.op # "shelf"
    <2>1. queue' = p
      BY <1>1, <1>8
    <2> HIDE DEF p, rows, o
    <2>2. queue' # <<>>
      BY <1>2, <1>5, <2>1
    <2>3. Closed' \/ Loading' \/ Loaded'
      <3> DEFINE t == queue'
      <3>0. /\ panel' = panel /\ t # <<>> /\ Len(t) = Len(queue)
            /\ DOMAIN t = DOMAIN queue
            /\ \A i \in DOMAIN queue : /\ t[i].op = queue[i].op /\ t[i].book = queue[i].book
                                       /\ t[i].live = queue[i].live
                                       /\ t[i].newest = queue[i].newest
        BY <1>1, <1>5, <2>1, <2>2
      <3>1. CASE Closed
        BY <3>0, <3>1 DEF Closed
      <3>2. CASE Loading
        BY <3>0, <3>2 DEF Loading
      <3>3. CASE Loaded
        BY <3>0, <3>3 DEF Loaded
      <3>4. QED BY <1>1, <3>1, <3>2, <3>3 DEF SettingsInv, LoadFailed
    <2>4. \A i \in DOMAIN queue' : queue'[i].scope = "none" <=> queue'[i].op = "load"
      BY <1>5, <2>1 DEF SettingsInv
    <2>5. /\ QueueOK(queue', Rows(db'), wanted') /\ books' = books
          /\ books \subseteq Book
      BY <1>1, <1>2, <1>4, <1>5, <2>1
    <2>6. QED BY <1>6, <2>3, <2>4, <2>5
              DEF SettingsInv, QueueOK, Settles, HeadWrites
  <1>9. QED BY <1>7, <1>8

LEMMA ReadBackKeeps ==
    ASSUME SettingsInv, Steady, ReadBack
    PROVE  SettingsInv'
  <1> DEFINE o == Head(queue)
             result == ReadSettings(o.book)
  <1>1. /\ queue # <<>> /\ (o.op = "load" \/ o.stage = "read") /\ o.book \in books
        /\ queue' = Tail(queue) /\ wanted' = wanted /\ UNCHANGED <<books, db, startup>>
        /\ panel' = CASE o.op = "load" /\ o.live ->
                           [panel EXCEPT !.result = result, !.draft = EffectiveOf(result),
                                         !.scope = IF result.override = None
                                                   THEN "global" ELSE "book"]
                      [] o.op = "save" /\ Current(o) -> [panel EXCEPT !.result = result]
                      [] o.op = "clear" /\ Current(o) ->
                           [panel EXCEPT !.result = result, !.draft = EffectiveOf(result),
                                         !.scope = "global"]
                      [] OTHER -> panel
    BY DEF ReadBack, Steady
  <1>2. /\ o = queue[1] /\ 1 \in DOMAIN queue /\ o \in Op
        /\ Len(queue) \in Nat /\ Len(queue) > 0 /\ DOMAIN queue = 1..Len(queue)
    BY <1>1, QueueFacts
  <1> HIDE DEF o
  <1>3. o.scope = "none" <=> o.op = "load"
    BY <1>2 DEF SettingsInv
  <1>4. QueueOK(queue', Rows(db'), wanted') /\ books' = books /\ books \subseteq Book
    BY <1>1, <1>2, <1>3, WrittenHeadLeaves DEF SettingsInv
  <1>5. PanelOK' /\ panel'.book = panel.book /\ panel'.told = panel.told
        /\ panel'.pending = panel.pending
    <2> HIDE DEF result
    <2>1. PanelOK
      BY DEF SettingsInv
    <2>2. QED BY <1>1, <2>1 DEF PanelOK, Scopes
  <1>6. \A i \in DOMAIN queue' : queue'[i].scope = "none" <=> queue'[i].op = "load"
    <2>1. /\ DOMAIN queue' = 1..(Len(queue) - 1)
          /\ \A i \in DOMAIN queue' : i + 1 \in DOMAIN queue /\ queue'[i] = queue[i + 1]
      BY <1>1, <1>2, QueueFacts
    <2>2. QED BY <2>1 DEF SettingsInv
  <1>7. Serving'
    BY <1>1 DEF SettingsInv, Serving
  <1>8. ReadSettings(panel.book)' = ReadSettings(panel.book)
    BY <1>1, <1>5 DEF ReadSettings
  <1>9. Closed' \/ Loading' \/ Loaded'
    <2>1. CASE Closed
      <3>1. panel' = panel
        BY <1>1, <1>2, <2>1 DEF Closed, Current
      <3>2. QED BY <1>1, <2>1, <3>1, TailPhase
    <2>2. CASE Loading /\ ~(o.op = "load" /\ o.live)
      <3>1. ~o.live
        BY <1>2, <2>2 DEF Loading
      <3>2. panel' = panel
        BY <1>1, <3>1 DEF Current
      <3>3. QED BY <1>1, <1>2, <2>2, <3>2, TailPhase
    <2>3. CASE Loading /\ o.op = "load" /\ o.live
      <3>1. Len(queue) = 1 /\ o.book = panel.book
        BY <1>2, <2>3 DEF Loading
      <3>2. queue' = <<>>
        BY <1>1, <1>2, <3>1, QueueFacts
      <3>3. panel'.result = ReadSettings(panel.book)
        BY <1>1, <2>3, <3>1 DEF SettingsInv, PanelOK
      <3>4. QED BY <1>5, <1>8, <2>3, <3>2, <3>3 DEF Loaded, Loading
    <2>4. CASE Loaded
      <3>1. /\ o.live /\ o.op \in {"save", "clear"} /\ o.book = panel.book
            /\ Len(queue) = 1 => o.newest
        BY <1>2, <2>4 DEF Loaded
      <3>2. /\ DOMAIN queue' = 1..(Len(queue) - 1)
            /\ \A i \in DOMAIN queue' : i + 1 \in DOMAIN queue /\ queue'[i] = queue[i + 1]
            /\ Len(queue') = Len(queue) - 1 /\ queue' \in Seq(Op)
        BY <1>1, <1>2, QueueFacts
      <3>3. ASSUME NEW i \in DOMAIN queue'
            PROVE  /\ queue'[i].live /\ queue'[i].op \in {"save", "clear"}
                   /\ queue'[i].book = panel'.book
                   /\ i = Len(queue') => queue'[i].newest
        BY <1>2, <1>5, <2>4, <3>2 DEF Loaded
      <3>4. ASSUME queue' = <<>> PROVE panel'.result = ReadSettings(panel.book)
        <4>1. Len(queue') = 0
          BY <3>4
        <4>a. Len(queue) = 1
          BY <1>2, <3>2, <4>1
        <4>2. Current(o)
          BY <3>1, <4>a DEF Current
        <4>3. panel' = [panel EXCEPT !.result = result] \/
              panel' = [panel EXCEPT !.result = result, !.draft = EffectiveOf(result),
                                     !.scope = "global"]
          BY <1>1, <3>1, <4>2
        <4> HIDE DEF result
        <4>4. panel'.result = result
          BY <4>3 DEF SettingsInv, PanelOK
        <4>5. QED BY <3>1, <4>4 DEF result
      <3>5. QED BY <1>5, <1>8, <2>4, <3>3, <3>4 DEF Loaded
    <2>5. QED BY <1>1, <2>1, <2>2, <2>3, <2>4 DEF SettingsInv, LoadFailed
  <1>10. QED BY <1>4, <1>5, <1>6, <1>7, <1>9 DEF SettingsInv, QueueOK, Settles, HeadWrites

LEMMA TryAgainKeeps ==
    ASSUME SettingsInv, Steady, TryAgain
    PROVE  SettingsInv'
  <1> DEFINE o == Head(queue)
             again == [o EXCEPT !.tried = TRUE, !.stage = "write"]
             t == <<again>> \o Tail(queue)
  <1>1. /\ queue # <<>> /\ queue' = t /\ panel' = panel /\ wanted' = wanted
        /\ UNCHANGED <<books, db, startup>>
    BY DEF TryAgain, Steady
  <1>2. /\ o = queue[1] /\ 1 \in DOMAIN queue /\ o \in Op /\ queue \in Seq(Op)
        /\ Len(queue) \in Nat /\ Len(queue) > 0 /\ DOMAIN queue = 1..Len(queue)
    BY <1>1, QueueFacts
  <1> HIDE DEF o
  <1>3. /\ again \in Op /\ again.scope = o.scope /\ again.book = o.book
        /\ again.draft = o.draft /\ again.op = o.op /\ again.live = o.live
        /\ again.newest = o.newest /\ again.stage = "write"
    BY <1>2 DEF Op
  <1> HIDE DEF again
  <1>4. /\ t \in Seq(Op) /\ Len(t) = Len(queue) /\ DOMAIN t = DOMAIN queue
        /\ t[1] = again /\ \A i \in DOMAIN queue : i > 1 => t[i] = queue[i]
    BY <1>1, <1>2, <1>3
  <1> HIDE DEF t
  <1>5. \A i \in DOMAIN queue :
            /\ t[i].scope = queue[i].scope /\ t[i].book = queue[i].book
            /\ t[i].draft = queue[i].draft /\ t[i].op = queue[i].op
            /\ t[i].live = queue[i].live /\ t[i].newest = queue[i].newest
            /\ t[i].stage = "read" => queue[i].stage = "read"
    BY <1>2, <1>3, <1>4
  <1>6. QueueOK(queue', Rows(db'), wanted') /\ books' = books /\ books \subseteq Book
    BY <1>1, <1>4, <1>5, SameSettles DEF SettingsInv
  <1>7. t # <<>>
    BY <1>2, <1>4
  <1>8. Closed' \/ Loading' \/ Loaded'
    <2>0. panel' = panel /\ queue' = t
      BY <1>1
    <2>1. CASE Closed
      BY <1>4, <1>5, <2>0, <2>1 DEF Closed
    <2>2. CASE Loading
      BY <1>4, <1>5, <1>7, <2>0, <2>2 DEF Loading
    <2>3. CASE Loaded
      BY <1>4, <1>5, <1>7, <2>0, <2>3 DEF Loaded
    <2>4. QED BY <1>1, <2>1, <2>2, <2>3 DEF SettingsInv, LoadFailed
  <1>9. \A i \in DOMAIN queue' : queue'[i].scope = "none" <=> queue'[i].op = "load"
    BY <1>1, <1>4, <1>5 DEF SettingsInv
  <1>10. PanelOK' /\ Serving'
    BY <1>1 DEF SettingsInv, PanelOK, Serving
  <1>11. QED BY <1>6, <1>8, <1>9, <1>10 DEF SettingsInv, QueueOK, Settles, HeadWrites

LEMMA GiveUpKeeps ==
    ASSUME SettingsInv, Steady, GiveUp
    PROVE  SettingsInv'
  <1> DEFINE o == Head(queue)
             later == \E i \in 2..Len(queue) : /\ queue[i].scope = o.scope
                                               /\ o.scope = "book" => queue[i].book = o.book
             row == IF o.scope = "global" THEN Rows(db).global ELSE Rows(db).override[o.book]
  <1>1. /\ queue # <<>> /\ queue' = Tail(queue) /\ UNCHANGED <<books, db, startup>>
        /\ wanted' = IF later \/ o.op = "load" THEN wanted
                     ELSE Put(wanted, o.scope, o.book, row)
        /\ panel' = CASE o.op = "load" /\ o.live -> [panel EXCEPT !.told = TRUE]
                      [] o.op \in {"save", "clear"} /\ Current(o) ->
                           [panel EXCEPT !.told = TRUE]
                      [] OTHER -> panel
    BY DEF GiveUp, Steady
  <1>2. /\ o = queue[1] /\ 1 \in DOMAIN queue /\ o \in Op /\ queue \in Seq(Op)
        /\ Len(queue) \in Nat /\ Len(queue) > 0 /\ DOMAIN queue = 1..Len(queue)
    BY <1>1, QueueFacts
  <1>3. o.scope = "none" <=> o.op = "load"
    BY <1>2 DEF SettingsInv
  <1>4. o.scope = "book" => o.book \in Book
    BY <1>2 DEF Op
  <1>5. IsRows(wanted)
    BY QueueFacts
  <1>6. /\ IsRows(wanted')
        /\ \A r \in Book \cup {None} :
               IF /\ Writes(queue[1], r)
                  /\ \A j \in DOMAIN queue : j > 1 => ~Writes(queue[j], r)
               THEN Row(wanted', r) = Row(Rows(db), r)
               ELSE Row(wanted', r) = Row(wanted, r)
    <2> DEFINE rows == Rows(db)
    <2> HIDE DEF o, rows
    <2>1. CASE o.op = "load"
      <3>1. \A r : ~Writes(queue[1], r)
        BY <1>2, <1>3, <2>1 DEF Writes
      <3>2. wanted' = wanted
        BY <1>1, <2>1
      <3>3. QED BY <1>5, <3>1, <3>2
    <2>2. CASE later /\ o.op # "load"
      <3>1. wanted' = wanted
        BY <1>1, <2>2
      <3>2. PICK i \in 2..Len(queue) : /\ queue[i].scope = o.scope
                                       /\ o.scope = "book" => queue[i].book = o.book
        BY <2>2
      <3>3. i \in DOMAIN queue /\ i > 1
        BY <1>2
      <3>4. \A r : Writes(queue[1], r) => Writes(queue[i], r)
        BY <1>2, <3>2 DEF Writes
      <3>5. QED BY <1>5, <3>1, <3>3, <3>4
    <2>3. CASE ~later /\ o.op # "load"
      <3>1. wanted' = Put(wanted, o.scope, o.book, row)
        BY <1>1, <2>3
      <3>2. o.scope # "none"
        BY <1>3, <2>3
      <3> HIDE DEF row
      <3>3. /\ IsRows(wanted')
            /\ \A r \in Book \cup {None} :
                  Row(wanted', r) = IF Writes(o, r) THEN row ELSE Row(wanted, r)
        BY <1>2, <1>4, <1>5, <3>1, <3>2, PutRow
      <3>4. ASSUME NEW r \in Book \cup {None}, Writes(o, r)
            PROVE  /\ row = Row(Rows(db), r)
                   /\ \A j \in DOMAIN queue : j > 1 => ~Writes(queue[j], r)
        <4>1. \/ o.scope = "global" /\ r = None
              \/ o.scope = "book" /\ o.book = r /\ r # None
          BY <1>4, <3>4, BooksAssumption DEF Writes
        <4>2. row = Row(Rows(db), r)
          BY <4>1 DEF Row, row
        <4>3. ASSUME NEW j \in DOMAIN queue, j > 1, Writes(queue[j], r) PROVE FALSE
          <5>1. j \in 2..Len(queue)
            BY <1>2, <4>3
          <5>2. queue[j].scope = o.scope /\ (o.scope = "book" => queue[j].book = o.book)
            <6>1. queue[j] \in Op
              BY <1>2
            <6>2. CASE r = None
              BY <4>1, <4>3, <6>1, <6>2, BooksAssumption DEF Writes, Op
            <6>3. CASE r # None
              BY <4>1, <4>3, <6>3 DEF Writes
            <6>4. QED BY <6>2, <6>3
          <5>3. QED BY <2>3, <5>1, <5>2
        <4>4. QED BY <4>2, <4>3
      <3>5. QED BY <1>2, <3>3, <3>4
    <2>4. QED BY <2>1, <2>2, <2>3
  <1> HIDE DEF o, later, row
  <1>7. QueueOK(queue', Rows(db'), wanted') /\ books' = books /\ books \subseteq Book
    <2>1. QueueOK(queue, Rows(db), wanted)
      BY DEF SettingsInv
    <2>2. QueueOK(Tail(queue), Rows(db), wanted')
      BY <1>1, <1>6, <2>1, HeadLeaves
    <2>3. QED BY <1>1, <2>2 DEF SettingsInv
  <1>8. /\ DOMAIN queue' = 1..(Len(queue) - 1)
        /\ \A i \in DOMAIN queue' : i + 1 \in DOMAIN queue /\ queue'[i] = queue[i + 1]
        /\ Len(queue') = Len(queue) - 1 /\ queue' \in Seq(Op)
    BY <1>1, <1>2
  <1>9. \A i \in DOMAIN queue' : queue'[i].scope = "none" <=> queue'[i].op = "load"
    BY <1>8 DEF SettingsInv
  <1>10. panel' = panel \/ panel' = [panel EXCEPT !.told = TRUE]
    BY <1>1
  <1>11. /\ PanelOK' /\ panel'.book = panel.book /\ panel'.draft = panel.draft
         /\ panel'.pending = panel.pending /\ panel'.result = panel.result
    <2>1. PanelOK
      BY DEF SettingsInv
    <2>2. QED BY <1>1, <1>10, <2>1 DEF PanelOK
  <1>12. Serving'
    BY <1>1 DEF SettingsInv, Serving
  <1>13. Closed' \/ Loading' \/ LoadFailed' \/ Loaded'
    <2>1. CASE Closed
      <3>1. panel' = panel
        BY <1>1, <1>2, <2>1 DEF Closed, Current
      <3>2. QED BY <1>1, <2>1, <3>1, TailPhase
    <2>2. CASE Loading /\ ~(o.op = "load" /\ o.live)
      <3>1. ~o.live
        BY <1>2, <2>2 DEF Loading
      <3>2. panel' = panel
        BY <1>1, <3>1 DEF Current
      <3>3. QED BY <1>1, <1>2, <2>2, <3>2, TailPhase
    <2>3. CASE Loading /\ o.op = "load" /\ o.live
      <3>1. Len(queue) = 1
        BY <1>2, <2>3 DEF Loading
      <3>2. queue' = <<>>
        BY <1>1, <1>2, <3>1, QueueFacts
      <3>3. panel'.told
        BY <1>1, <2>3 DEF SettingsInv, PanelOK
      <3>4. QED BY <1>11, <2>3, <3>2, <3>3 DEF LoadFailed, Loading
    <2>4. CASE Loaded
      <3>1. o.live /\ o.op \in {"save", "clear"} /\ (Len(queue) = 1 => o.newest)
        BY <1>2, <2>4 DEF Loaded
      <3>2. ASSUME NEW i \in DOMAIN queue'
            PROVE  /\ queue'[i].live /\ queue'[i].op \in {"save", "clear"}
                   /\ queue'[i].book = panel'.book
                   /\ i = Len(queue') => queue'[i].newest
        BY <1>2, <1>8, <1>11, <2>4 DEF Loaded
      <3>3. ASSUME queue' = <<>> PROVE panel'.told
        <4>1. Len(queue') = 0
          BY <3>3
        <4>2. Len(queue) = 1
          BY <1>2, <1>8, <4>1
        <4>3. Current(o)
          BY <3>1, <4>2 DEF Current
        <4>4. panel' = [panel EXCEPT !.told = TRUE]
          BY <1>1, <3>1, <4>3
        <4>5. QED BY <4>4 DEF SettingsInv, PanelOK
      <3>4. QED BY <1>11, <2>4, <3>2, <3>3 DEF Loaded
    <2>5. QED BY <1>1, <2>1, <2>2, <2>3, <2>4 DEF SettingsInv, LoadFailed
  <1>14. QED BY <1>7, <1>9, <1>11, <1>12, <1>13 DEF SettingsInv, QueueOK, Settles, HeadWrites

LEMMA SettingsWorkKeeps ==
    ASSUME SettingsInv, StartupInv, SettingsWork
    PROVE  SettingsInv'
  <1>1. Serving /\ Found(db) /\ UNCHANGED books
    BY DEF SettingsWork, StartupInv
  <1>2. Steady \/ WriteSettings
    BY <1>1 DEF SettingsWork, SettingsCommand, Steady, migrationVars, Unserved, MountReader,
                ChangeDraft, ShelfSave, SaveTimer, ClearOverride, UnmountReader, ChangeScope,
                ReadBack, TryAgain, GiveUp
  <1>3. QED
    BY <1>1, <1>2, MountReaderKeeps, ChangeDraftKeeps, ShelfSaveKeeps, SaveTimerKeeps,
       ClearOverrideKeeps, UnmountReaderKeeps, ChangeScopeKeeps, WriteSettingsKeeps,
       ReadBackKeeps, TryAgainKeeps, GiveUpKeeps
    DEF SettingsWork, SettingsCommand, Scopes

LEMMA ImportKeepsSettings ==
    ASSUME SettingsInv, NEW b \in Book, ImportBook(b)
    PROVE  SettingsInv'
  <1>1. /\ books' = books \cup {b} /\ \A i \in DOMAIN queue : queue[i].book # b
        /\ UNCHANGED <<db, startup, panel, queue, wanted>> /\ Serving
    BY DEF ImportBook, migrationVars, settingsVars
  <1>2. \A i \in DOMAIN queue : ~Writes(queue[i], b)
    BY <1>1, BooksAssumption DEF Writes
  <1>3. HeadWrites(queue, Rows(db))'
    BY <1>1, <1>2, QueueFacts DEF SettingsInv, QueueOK, HeadWrites
  <1>4. Settles(queue, Rows(db), wanted)'
    BY <1>1, <1>2 DEF SettingsInv, QueueOK, Settles
  <1>5. PanelOK'
    BY <1>1 DEF SettingsInv, PanelOK
  <1>6. Closed' \/ Loading' \/ LoadFailed' \/ Loaded'
    BY <1>1 DEF SettingsInv, Closed, Loading, LoadFailed, Loaded, ReadSettings
  <1>7. Serving'
    BY <1>1 DEF Serving
  <1>8. QED BY <1>1, <1>3, <1>4, <1>5, <1>6, <1>7 DEF SettingsInv, QueueOK

LEMMA DeleteKeepsSettings ==
    ASSUME SettingsInv, Found(db), NEW b \in Book, DeleteBook(b)
    PROVE  SettingsInv'
  <1>1. /\ books' = books \ {b} /\ panel.book # b /\ Serving
        /\ db' = [db EXCEPT !.override[b] = None, !.legacyOverride[b] = None,
                            !.progress[b] = None, !.reading[b] = None]
        /\ wanted' = [wanted EXCEPT !.override[b] = None]
        /\ UNCHANGED <<startup, panel, queue>>
    BY DEF DeleteBook, SettingsForget
  <1>2. db'.global = db.global /\ db'.override = [db.override EXCEPT ![b] = None]
    BY <1>1 DEF Found, Shaped
  <1>3. IsRows(wanted)
    BY QueueFacts
  <1>4. /\ wanted' = [global |-> wanted'.global, override |-> wanted'.override]
        /\ wanted'.global = wanted.global
        /\ wanted'.override = [wanted.override EXCEPT ![b] = None]
    BY <1>1, <1>3 DEF IsRows
  <1>5. /\ wanted.override = [c \in Book |-> wanted.override[c]]
        /\ db.override = [c \in Book |-> db.override[c]]
    BY <1>3 DEF IsRows, Found
  <1>6. IsRows(wanted') /\ IsRows(Rows(db'))
    <2>1. wanted'.override = [c \in Book |-> wanted'.override[c]]
      BY <1>4, <1>5
    <2>2. db'.override = [c \in Book |-> db'.override[c]]
      BY <1>2, <1>5
    <2>3. QED BY <1>4, <2>1, <2>2 DEF IsRows, Rows
  <1>7. \A r \in Book \cup {None} :
            /\ Row(wanted', r) = IF r = b THEN None ELSE Row(wanted, r)
            /\ Row(Rows(db'), r) = IF r = b THEN None ELSE Row(Rows(db), r)
    BY <1>2, <1>4, <1>5, BooksAssumption DEF Row, Rows
  <1> DEFINE rows == Rows(db)
  <1> HIDE DEF rows
  <1>8. Settles(queue, rows, wanted)'
    <2> SUFFICES ASSUME NEW r \in Book \cup {None}
                 PROVE  /\ (\A i \in DOMAIN queue : ~Writes(queue[i], r)) =>
                              Row(wanted', r) = Row(rows', r)
                        /\ r \in books' \cup {None} =>
                              \A i \in DOMAIN queue :
                                  /\ Writes(queue[i], r)
                                  /\ \A j \in DOMAIN queue : j > i => ~Writes(queue[j], r)
                                  => Row(wanted', r) = queue[i].draft
      BY <1>1 DEF Settles
    <2>1. /\ (\A i \in DOMAIN queue : ~Writes(queue[i], r)) => Row(wanted, r) = Row(rows, r)
          /\ r \in books \cup {None} =>
                \A i \in DOMAIN queue :
                    /\ Writes(queue[i], r)
                    /\ \A j \in DOMAIN queue : j > i => ~Writes(queue[j], r)
                    => Row(wanted, r) = queue[i].draft
      BY DEF SettingsInv, QueueOK, Settles, rows
    <2>2. CASE r = b
      BY <1>1, <1>7, <2>2, BooksAssumption DEF rows
    <2>3. CASE r # b
      <3>1. Row(wanted', r) = Row(wanted, r) /\ Row(rows', r) = Row(rows, r)
        BY <1>7, <2>3 DEF rows
      <3>2. r \in books' \cup {None} => r \in books \cup {None}
        BY <1>1
      <3>3. QED BY <2>1, <3>1, <3>2
    <2>4. QED BY <2>2, <2>3
  <1>9. HeadWrites(queue, rows)'
    <2>1. \A r \in books' \cup {None} : r \in books \cup {None} /\ Row(rows', r) = Row(rows, r)
      BY <1>1, <1>7, BooksAssumption DEF SettingsInv, rows
    <2>2. HeadWrites(queue, rows)
      BY DEF SettingsInv, QueueOK, rows
    <2>3. QED BY <1>1, <2>1, <2>2 DEF HeadWrites
  <1>10. PanelOK'
    BY <1>1 DEF SettingsInv, PanelOK
  <1>11. panel.book # None => ReadSettings(panel.book)' = ReadSettings(panel.book)
    BY <1>1, <1>2, <1>5 DEF ReadSettings, SettingsInv, PanelOK
  <1>12. Closed' \/ Loading' \/ LoadFailed' \/ Loaded'
    BY <1>1, <1>11 DEF SettingsInv, Closed, Loading, LoadFailed, Loaded
  <1>13. Serving' /\ books' \subseteq Book
    BY <1>1 DEF SettingsInv, Serving
  <1>14. QED BY <1>1, <1>6, <1>8, <1>9, <1>10, <1>12, <1>13 DEF SettingsInv, QueueOK, rows

LEMMA UpgradeRows ==
    ASSUME NEW w, Found(w), NEW v, NEW k
    PROVE  /\ IsRows(Rows(Upgrade(w, v)))
           /\ IsRows(Rows([Upgrade(w, v) EXCEPT !.version = k]))
  <1> DEFINE u == Upgrade(w, v)
             t == [u EXCEPT !.version = k]
  <1>1. u.override = [b \in Book |-> u.override[b]] /\ Shaped(u)
    BY UpgradeShaped DEF Upgrade, Found
  <1> HIDE DEF u
  <1>2. t.override = u.override /\ t.global = u.global
    BY <1>1 DEF Shaped
  <1> HIDE DEF t
  <1>3. IsRows(Rows(u)) /\ IsRows(Rows(t))
    BY <1>1, <1>2 DEF Rows, IsRows
  <1>4. QED BY <1>3 DEF u, t

LEMMA StartupRows ==
    ASSUME StartupInv
    PROVE  IsRows(Rows(db))
  <1>1. CASE Serving
    BY <1>1 DEF StartupInv, Found, Rows, IsRows
  <1>2. CASE ~Serving
    BY <1>2, UpgradeRows DEF StartupInv, Upgrading
  <1>3. QED BY <1>1, <1>2

\* A program that has just started has asked for nothing.
LEMMA NothingAsked ==
    ASSUME books \subseteq Book, panel = NoPanel, queue = <<>>, wanted = Rows(db),
           IsRows(Rows(db))
    PROVE  SettingsInv
  <1>1. QueueOK(queue, Rows(db), wanted)
    BY EmptyQueue
  <1>2. PanelOK /\ Closed
    BY DEF PanelOK, Closed, NoPanel, Scopes
  <1>3. QED BY <1>1, <1>2 DEF SettingsInv

ServingInv == StartupInv /\ SettingsInv

LEMMA ServingKeepsFound ==
    ASSUME ServingInv, [Next]_vars, Serving, Serving'
    PROVE  StartupInv'
  <1>1. Found(db) /\ db.version = 5 /\ disk = <<>>
    BY DEF ServingInv, StartupInv
  <1>2. CASE UNCHANGED migrationVars
    BY <1>1, <1>2 DEF StartupInv, Serving, migrationVars
  <1>3. ASSUME WriteSettings PROVE StartupInv'
    <2> DEFINE o == Head(queue)
               rows == Put(Rows(db), o.scope, o.book, o.draft)
    <2>1. /\ db' = [db EXCEPT !.global = rows.global, !.override = rows.override,
                              !.updated = IF o.scope = "global" THEN 1 ELSE @]
          /\ disk' = disk /\ queue # <<>>
      BY <1>3 DEF WriteSettings
    <2>2. o \in Op /\ o.scope # "none" /\ o = queue[1]
      BY <1>3, <2>1, QueueFacts DEF ServingInv, SettingsInv, WriteSettings
    <2> HIDE DEF o
    <2>3. IsRows(rows) /\ (o.scope # "global" => rows.global = db.global)
      <3>1. IsRows(rows)
        BY <2>2, QueueFacts, PutRow DEF ServingInv, Op
      <3>2. ASSUME o.scope # "global" PROVE rows.global = db.global
        BY <3>2 DEF Put, Rows
      <3>3. QED BY <3>1, <3>2
    <2> HIDE DEF rows
    <2>4. /\ Shaped(db') /\ db'.version = 5 /\ db'.schema = 1..5
          /\ db'.updated \in {0, 1} /\ (db'.updated = 0 => db'.global = Defaults)
          /\ db'.reading = db'.progress /\ db'.override = rows.override
      <3>1. Shaped(db)
        BY <1>1 DEF Found
      <3>2. Shaped(db')
        BY <2>1, <3>1 DEF Shaped
      <3>3. /\ db'.version = db.version /\ db'.schema = db.schema
            /\ db'.updated = IF o.scope = "global" THEN 1 ELSE db.updated
            /\ db'.global = rows.global /\ db'.override = rows.override
            /\ db'.reading = db.reading /\ db'.progress = db.progress
        BY <2>1, <3>1 DEF Shaped
      <3>4. QED BY <1>1, <2>3, <3>2, <3>3 DEF Found
    <2>5. Found(db')
      <3>1. rows.override = [b \in Book |-> rows.override[b]]
        BY <2>3 DEF IsRows
      <3>2. QED BY <2>4, <3>1 DEF Found, Versions, Latest
    <2>6. QED BY <1>1, <2>1, <2>4, <2>5 DEF StartupInv
  <1>4. ASSUME NEW b \in Book, SettingsForget(b) PROVE StartupInv'
    <2>1. /\ db' = [db EXCEPT !.override[b] = None, !.legacyOverride[b] = None,
                              !.progress[b] = None, !.reading[b] = None]
          /\ disk' = disk
      BY <1>4 DEF SettingsForget
    <2>2. /\ Shaped(db') /\ db'.version = db.version /\ db'.schema = db.schema
          /\ db'.updated = db.updated /\ db'.global = db.global
          /\ db'.override = [db.override EXCEPT ![b] = None]
          /\ db'.reading = [db.reading EXCEPT ![b] = None]
          /\ db'.progress = [db.progress EXCEPT ![b] = None]
      BY <1>1, <2>1 DEF Found, Shaped
    <2>3. db'.override = [c \in Book |-> db'.override[c]]
      BY <1>1, <2>2 DEF Found
    <2>4. Found(db')
      BY <1>1, <2>2, <2>3 DEF Found, Versions, Latest
    <2>5. QED BY <1>1, <2>1, <2>2, <2>4 DEF StartupInv
  <1>5. UNCHANGED migrationVars \/ WriteSettings \/ \E b \in Book : SettingsForget(b)
    <2>1. CASE Startup
      BY <2>1 DEF Startup, Migrate, BeginMigration, RunScript, RecordVersion, CommitMigration,
                  MigrationFails, Serving
    <2>2. CASE RestartProgram
      BY <2>2 DEF RestartProgram, SettingsRestart, MigrationsRestart, Serving
    <2>3. CASE CatalogWorks \/ NotesWork
      BY <2>3 DEF CatalogWorks, NotesWork
    <2>4. CASE SettingsWork
      BY <2>4 DEF SettingsWork, SettingsCommand, Unserved, MountReader, ChangeDraft, ShelfSave,
                  SaveTimer, ClearOverride, UnmountReader, ChangeScope, ReadBack, TryAgain,
                  GiveUp
    <2>5. CASE \E b \in Book : ImportBook(b) \/ DeleteBook(b)
      BY <2>5 DEF ImportBook, DeleteBook
    <2>6. CASE UNCHANGED vars
      BY <2>6 DEF vars
    <2>7. QED BY <2>1, <2>2, <2>3, <2>4, <2>5, <2>6 DEF Next
  <1>6. QED BY <1>2, <1>3, <1>4, <1>5

LEMMA ServingInvStep ==
    ASSUME ServingInv, [Next]_vars
    PROVE  ServingInv'
  <1>1. CASE Startup
    <2>1. StartupInv' /\ ~Serving
      BY <1>1, MigrateKeepsStartup DEF ServingInv, Startup, Migrate, BeginMigration, RunScript,
            RecordVersion, CommitMigration, MigrationFails, Serving
    <2>2. IsRows(Rows(db))'
      BY <2>1, StartupRows, PTL
    <2>3. (books \subseteq Book /\ panel = NoPanel /\ queue = <<>> /\ wanted = Rows(db))'
      BY <1>1, <2>1 DEF ServingInv, SettingsInv, Startup
    <2>4. SettingsInv'
      BY <2>2, <2>3, NothingAsked, PTL
    <2>5. QED BY <2>1, <2>4 DEF ServingInv
  <1>2. CASE RestartProgram
    <2>1. StartupInv'
      BY <1>2, RestartKeepsStartup DEF ServingInv, RestartProgram, SettingsRestart
    <2>2. IsRows(Rows(db))'
      BY <2>1, StartupRows, PTL
    <2>3. (books \subseteq Book /\ panel = NoPanel /\ queue = <<>> /\ wanted = Rows(db))'
      BY <1>2 DEF ServingInv, SettingsInv, RestartProgram, SettingsRestart
    <2>4. SettingsInv'
      BY <2>2, <2>3, NothingAsked, PTL
    <2>5. QED BY <2>1, <2>4 DEF ServingInv
  <1>3. CASE UNCHANGED <<books, migrationVars, settingsVars>>
    <2>1. UNCHANGED <<books, db, disk, startup, was, panel, queue, wanted>>
      BY <1>3 DEF migrationVars, settingsVars
    <2>2. StartupInv'
      BY <2>1 DEF ServingInv, StartupInv, Upgrading, Serving
    <2>3. SettingsInv'
      BY <2>1 DEF ServingInv, SettingsInv, QueueOK, Settles, HeadWrites, PanelOK, Serving,
                  Closed, Loading, LoadFailed, Loaded, ReadSettings
    <2>4. QED BY <2>2, <2>3 DEF ServingInv
  <1>4. CASE SettingsWork
    <2>1. Serving /\ Serving'
      BY <1>4 DEF SettingsWork, SettingsCommand, Unserved, migrationVars, Serving, MountReader,
                  ChangeDraft, ShelfSave, SaveTimer, ClearOverride, UnmountReader, ChangeScope,
                  ReadBack, TryAgain, GiveUp, WriteSettings
    <2>2. QED BY <1>4, <2>1, SettingsWorkKeeps, ServingKeepsFound DEF ServingInv
  <1>5. ASSUME NEW b \in Book, ImportBook(b) PROVE ServingInv'
    <2>1. Serving /\ Serving'
      BY <1>5 DEF ImportBook, Serving, migrationVars
    <2>2. QED BY <1>5, <2>1, ImportKeepsSettings, ServingKeepsFound DEF ServingInv
  <1>6. ASSUME NEW b \in Book, DeleteBook(b) PROVE ServingInv'
    <2>1. Serving /\ Serving'
      BY <1>6 DEF DeleteBook, Serving, SettingsForget
    <2>2. Found(db)
      BY <2>1 DEF ServingInv, StartupInv
    <2>3. QED BY <1>6, <2>1, <2>2, DeleteKeepsSettings, ServingKeepsFound DEF ServingInv
  <1>7. CatalogWorks \/ NotesWork \/ UNCHANGED vars
           => UNCHANGED <<books, migrationVars, settingsVars>>
    BY DEF CatalogWorks, NotesWork, vars
  <1>8. QED BY <1>1, <1>2, <1>3, <1>4, <1>5, <1>6, <1>7 DEF Next

\* A database of any release is brought to what this one serves, and what users asked of
\* their settings is what the rows are or will be (run_migrations, settings_service.rs,
\* settingsPersistence.ts).
THEOREM ServingInvariant == Spec => []ServingInv
  <1>1. ASSUME Init PROVE ServingInv
    <2>1. StartupInv
      BY <1>1, StartupBegins DEF Init, SettingsInit
    <2>2. books \subseteq Book /\ panel = NoPanel /\ queue = <<>> /\ wanted = Rows(db)
      BY <1>1 DEF Init, SettingsInit
    <2>3. QED BY <2>1, <2>2, StartupRows, NothingAsked DEF ServingInv
  <1>2. QED BY <1>1, ServingInvStep, PTL DEF Spec

\* When the queue is empty, the rows are what the last operation queued for each asked for,
\* and an open panel shows them (settingsPersistence.ts, EpubReader.tsx).
THEOREM SettingsAreSettled == Spec => []SettingsSettle
  BY ServingInvariant, SettingsInvSettles, PTL DEF ServingInv

\* The version on disk is that of the tables wherever a start was interrupted, and when the
\* program serves, what anybody chose is as it was (run_migrations).
THEOREM UpgradesKeepChoices == Spec => UpgradeKeepsChoices
  <1> DEFINE Kept == /\ db'.global = ShownGlobal(was)
                     /\ \A b \in Book : /\ db'.override[b] = ShownOverride(was, b)
                                        /\ db'.reading[b] = was.progress[b]
  <1>1. ASSUME ServingInv PROVE disk = <<>> => db.schema = 1..db.version
    <2>1. CASE Serving
      BY <1>1, <2>1 DEF ServingInv, StartupInv, Found
    <2>2. CASE ~Serving
      BY <1>1, <2>2, UpgradeFields DEF ServingInv, StartupInv, Upgrading
    <2>3. QED BY <2>1, <2>2
  <1>2. ASSUME ServingInv, [Next]_vars
        PROVE  [~Serving /\ Serving' => Kept]_<<db, startup>>
    <2> SUFFICES ASSUME ~Serving, Serving' PROVE Kept
      OBVIOUS
    <2>1. Startup
      BY <1>2 DEF Next, vars, migrationVars, Serving, RestartProgram, SettingsRestart,
                  MigrationsRestart, CatalogWorks, NotesWork, SettingsWork, ImportBook,
                  DeleteBook, SettingsForget
    <2>2. Found(was) /\ db' = Upgrade(was, 5)
      BY <1>2, <2>1, MigrateKeepsStartup DEF Startup, ServingInv
    <2>3. was.version \in 0..5
      BY <2>2 DEF Found, Versions, Latest
    <2>4. db'.global = ShownGlobal(was) /\ db'.reading = was.progress
      BY <2>2 DEF Upgrade
    <2>5. db'.override = IF was.version < 3
                         THEN [b \in Book |-> ConvertedOverride(was.legacyOverride[b])]
                         ELSE was.override
      BY <2>2 DEF Upgrade
    <2>6. ASSUME NEW b \in Book PROVE db'.override[b] = ShownOverride(was, b)
      <3>1. CASE was.version < 2
        BY <2>2, <2>3, <2>5, <3>1 DEF Found, NoRows, ConvertedOverride, ShownOverride
      <3>2. CASE was.version = 2
        BY <2>5, <3>2 DEF ShownOverride
      <3>3. CASE was.version > 2
        BY <2>3, <2>5, <3>3 DEF ShownOverride
      <3>4. QED BY <2>3, <3>1, <3>2, <3>3
    <2>7. QED BY <2>4, <2>6
  <1>3. QED BY <1>1, <1>2, ServingInvariant, PTL DEF Spec, UpgradeKeepsChoices

-----------------------------------------------------------------------------
(* Notes. *)

CallRec ==
    {c \in [op: {"list", "create", "update", "delete"}, note: NoteId \cup {None}, book: Book,
            text: Text \cup {None}, live: BOOLEAN, fresh: BOOLEAN] :
        /\ c.op = "list" <=> c.note = None
        /\ c.op \in {"create", "update"} => c.text \in Text}
View == [NoteId -> Text \cup {None}]
Tells(a) == a.ok /\ a.call.op \in {"create", "update"} => a.row \in NoteRow
AnswerShape == [call: CallRec, ok: BOOLEAN, row: NoteRow \cup {None}, list: View]
AnswerRec == {a \in AnswerShape : Tells(a)}

NotesType ==
    /\ books \subseteq Book
    /\ notes \in [NoteId -> NoteRow \cup {None}]
    /\ \A n \in NoteId : notes[n] # None => notes[n].book \in books
    /\ reader \in [book: books \cup {None}, shown: View, due: BOOLEAN]
    /\ calls \in Seq(CallRec) /\ answers \subseteq AnswerRec

\* What is under way for the current session is about its book.
Mine ==
    /\ \A i \in DOMAIN calls : calls[i].live => calls[i].book = reader.book
    /\ \A a \in answers : a.call.live => a.call.book = reader.book

\* Commands of earlier sessions run first; until they have, this one has been told nothing.
Past ==
    /\ \A i, j \in DOMAIN calls : i < j /\ ~calls[j].live => ~calls[i].live
    /\ (\E i \in DOMAIN calls : ~calls[i].live) =>
          reader.shown = NoNotes /\ \A a \in answers : ~a.call.live

\* A change of a note that is not raced is the only one under way.
Alone(n) ==
    /\ \A i, j \in DOMAIN calls :
          calls[i].note = n /\ calls[j].note = n /\ calls[i].live => i = j
    /\ \A i \in DOMAIN calls, a \in answers :
          calls[i].note = n /\ a.call.note = n => ~calls[i].live /\ ~a.call.live
    /\ \A a, b \in answers : a.call.note = n /\ b.call.note = n /\ a.call.live => a = b

Answered(n) == \E a \in answers : a.ok /\ a.call.live /\ a.call.note = n

\* What a view of the open book says of a note is so, unless the answer to a change of it
\* is on its way.
Seen(n, view) ==
    \/ view[n] = None
    \/ notes[n] = [book |-> reader.book, text |-> view[n]]
    \/ Answered(n)
IsList(a) == a.ok /\ a.call.op = "list" /\ a.call.live /\ a.call.fresh

\* The answer to a change has the note as it is.
Kept(n) ==
    /\ \A a \in answers :
          a.ok /\ a.call.live /\ a.call.note = n /\ a.call.op \in {"create", "update"} =>
              notes[n] = a.row /\ a.row = [book |-> reader.book, text |-> a.row.text]
    /\ \A i \in DOMAIN calls :
          calls[i].live /\ calls[i].note = n /\ calls[i].op = "update" =>
              notes[n] = None \/ notes[n].book = reader.book

UpToDate(n) ==
    /\ Alone(n) /\ Kept(n) /\ Seen(n, reader.shown)
    /\ \A a \in answers : IsList(a) => Seen(n, a.list)

NotesInv ==
    /\ NotesType /\ Mine /\ Past
    /\ \A n \in NoteId \ raced : UpToDate(n)

LEMMA NotesInvShows ==
    ASSUME NotesInv
    PROVE  NotesShownAreStored
  <1>1. ASSUME answers = {}, NEW n \in NoteId \ raced, reader.shown[n] # None
        PROVE  notes[n] = [book |-> reader.book, text |-> reader.shown[n]]
    BY <1>1 DEF NotesInv, UpToDate, Seen, Answered
  <1>2. QED BY <1>1 DEF NotesShownAreStored, NotesInv, NotesType

\* The service takes the head of its queue and answers it.
LEMMA ServeKeeps ==
    ASSUME NotesInv, UNCHANGED <<books, reader, raced>>,
           calls # <<>>, calls' = Tail(calls),
           NEW c, c = calls[1], NEW x \in AnswerRec, x.call = c, answers' = answers \cup {x},
           notes' \in [NoteId -> NoteRow \cup {None}],
           \A n \in NoteId : notes'[n] # None => notes'[n].book \in books,
           \A n \in NoteId : n # c.note => notes'[n] = notes[n],
           ~x.ok => notes' = notes,
           c.live /\ c.op \in {"create", "update"} /\ x.ok /\ c.note \in NoteId \ raced =>
               notes'[c.note] = x.row /\ x.row = [book |-> reader.book, text |-> x.row.text],
           c.live /\ c.op = "list" /\ x.ok =>
               \A n \in NoteId : \/ x.list[n] = None
                                 \/ notes'[n] = [book |-> reader.book, text |-> x.list[n]]
    PROVE  NotesInv'
  <1>1. /\ calls \in Seq(CallRec) /\ Len(calls) \in Nat /\ DOMAIN calls = 1..Len(calls)
        /\ 1 \in DOMAIN calls /\ c \in CallRec
        /\ calls' \in Seq(CallRec) /\ DOMAIN calls' = 1..(Len(calls) - 1)
        /\ \A i \in DOMAIN calls' : /\ i + 1 \in DOMAIN calls /\ calls'[i] = calls[i + 1]
                                    /\ i + 1 # 1
    BY DEF NotesInv, NotesType
  <1>2. NotesType'
    BY <1>1 DEF NotesInv, NotesType
  <1>3. Mine'
    BY <1>1 DEF NotesInv, Mine
  <1>4. Past'
    <2>1. ASSUME NEW i \in DOMAIN calls', NEW j \in DOMAIN calls', i < j, ~calls'[j].live
          PROVE  ~calls'[i].live
      <3>1. i + 1 < j + 1
        BY <1>1, <2>1
      <3>2. QED BY <1>1, <2>1, <3>1 DEF NotesInv, Past
    <2>2. ASSUME NEW j \in DOMAIN calls', ~calls'[j].live
          PROVE  reader'.shown = NoNotes /\ \A a \in answers' : ~a.call.live
      <3>1. ~calls[j + 1].live /\ j + 1 \in DOMAIN calls /\ 1 < j + 1
        BY <1>1, <2>2
      <3>2. ~c.live /\ reader.shown = NoNotes /\ \A a \in answers : ~a.call.live
        BY <1>1, <3>1 DEF NotesInv, Past
      <3>3. QED BY <3>2
    <2>3. QED BY <2>1, <2>2 DEF Past
  <1>5. ASSUME NEW n \in NoteId \ raced
        PROVE  UpToDate(n)'
    <2>1. UpToDate(n)
      BY DEF NotesInv
    <2>2. ~c.live => reader.shown[n] = None /\ \A a \in answers : ~a.call.live
      BY <1>1 DEF NotesInv, Past, NoNotes
    <2>3. c.note = n /\ c.live => \A a \in answers : a.call.note # n
      BY <1>1, <2>1 DEF UpToDate, Alone
    <2>4. c.note = n => \A i \in DOMAIN calls' : calls'[i].note = n => ~calls'[i].live
      BY <1>1, <2>1 DEF UpToDate, Alone
    <2>5. Alone(n)'
      <3>1. ASSUME NEW i \in DOMAIN calls', NEW j \in DOMAIN calls',
                   calls'[i].note = n, calls'[j].note = n, calls'[i].live
            PROVE  i = j
        <4>1. i + 1 = j + 1
          BY <1>1, <2>1, <3>1 DEF UpToDate, Alone
        <4>2. QED BY <1>1, <4>1
      <3>2. ASSUME NEW i \in DOMAIN calls', NEW a \in answers',
                   calls'[i].note = n, a.call.note = n
            PROVE  ~calls'[i].live /\ ~a.call.live
        <4>1. CASE a = x
          <5>1. c.note = n /\ ~calls'[i].live
            BY <2>4, <3>2, <4>1
          <5>2. ~c.live
            <6>1. ASSUME c.live PROVE FALSE
              <7>1. i + 1 = 1
                BY <1>1, <2>1, <3>2, <5>1, <6>1 DEF UpToDate, Alone
              <7>2. QED BY <1>1, <7>1
            <6>2. QED BY <6>1
          <5>3. QED BY <4>1, <5>1, <5>2
        <4>2. CASE a \in answers
          BY <1>1, <2>1, <3>2, <4>2 DEF UpToDate, Alone
        <4>3. QED BY <4>1, <4>2
      <3>3. ASSUME NEW a \in answers', NEW b \in answers',
                   a.call.note = n, b.call.note = n, a.call.live
            PROVE  a = b
        <4>1. CASE a \in answers /\ b \in answers
          BY <2>1, <3>3, <4>1 DEF UpToDate, Alone
        <4>2. CASE a = x /\ b \in answers
          BY <2>3, <3>3, <4>2
        <4>3. CASE a \in answers /\ b = x
          BY <1>1, <2>1, <3>3, <4>3 DEF UpToDate, Alone
        <4>4. QED BY <4>1, <4>2, <4>3
      <3>4. QED BY <3>1, <3>2, <3>3 DEF Alone
    <2>6. Kept(n)'
      <3>1. ASSUME NEW a \in answers', a.ok, a.call.live, a.call.note = n,
                   a.call.op \in {"create", "update"}
            PROVE  notes'[n] = a.row /\ a.row = [book |-> reader'.book, text |-> a.row.text]
        <4>1. CASE a = x
          BY <3>1, <4>1
        <4>2. CASE a # x
          <5>1. a \in answers
            BY <4>2
          <5>2. c.note # n
            BY <2>2, <2>3, <3>1, <5>1
          <5>3. QED BY <2>1, <3>1, <5>1, <5>2 DEF UpToDate, Kept
        <4>3. QED BY <4>1, <4>2
      <3>2. ASSUME NEW i \in DOMAIN calls', calls'[i].live, calls'[i].note = n,
                   calls'[i].op = "update"
            PROVE  notes'[n] = None \/ notes'[n].book = reader'.book
        <4>1. c.note # n
          BY <2>4, <3>2
        <4>2. QED BY <1>1, <2>1, <3>2, <4>1 DEF UpToDate, Kept
      <3>3. QED BY <3>1, <3>2 DEF Kept
    <2>7. ASSUME NEW view, Seen(n, view), ~c.live => view[n] = None
          PROVE  \/ view[n] = None
                 \/ notes'[n] = [book |-> reader'.book, text |-> view[n]]
                 \/ Answered(n)'
      <3>1. CASE ~c.live
        BY <2>7, <3>1
      <3>2. CASE c.live /\ c.note = n /\ x.ok
        BY <3>2 DEF Answered
      <3>3. CASE c.live /\ ~(c.note = n /\ x.ok)
        <4>1. notes'[n] = notes[n] /\ reader' = reader
          BY <3>3
        <4>2. Answered(n) => Answered(n)'
          BY DEF Answered
        <4>3. QED BY <2>7, <4>1, <4>2 DEF Seen
      <3>4. QED BY <3>1, <3>2, <3>3
    <2>8. Seen(n, reader.shown)'
      <3>1. Seen(n, reader.shown)
        BY <2>1 DEF UpToDate
      <3>2. reader' = reader
        OBVIOUS
      <3>3. QED BY <2>2, <2>7, <3>1, <3>2 DEF Seen
    <2>9. ASSUME NEW a \in answers', IsList(a) PROVE Seen(n, a.list)'
      <3>1. CASE a = x
        BY <2>9, <3>1 DEF IsList, Seen
      <3>2. CASE a # x
        <4>1. a \in answers /\ Seen(n, a.list) /\ c.live
          BY <2>1, <2>2, <2>9, <3>2 DEF UpToDate, IsList
        <4>2. QED BY <2>7, <4>1 DEF Seen
      <3>3. QED BY <3>1, <3>2
    <2>10. QED BY <2>5, <2>6, <2>8, <2>9 DEF UpToDate
  <1>6. QED BY <1>2, <1>3, <1>4, <1>5 DEF NotesInv

LEMMA ServiceKeeps ==
    ASSUME NotesInv, UNCHANGED books,
           ListNotes \/ CreateNote \/ UpdateNote \/ DeleteNote \/ RefuseNote
    PROVE  NotesInv'
  <1> DEFINE c == Head(calls)
  <1> USE NotesAssumption
  <1>1. /\ calls # <<>> /\ calls' = Tail(calls) /\ UNCHANGED <<books, reader, raced>>
    BY DEF ListNotes, CreateNote, UpdateNote, DeleteNote, RefuseNote, Serves
  <1>2. /\ calls \in Seq(CallRec) /\ c = calls[1] /\ 1 \in DOMAIN calls /\ c \in CallRec
        /\ NotesType
    BY <1>1 DEF NotesInv, NotesType
  <1> HIDE DEF c
  <1>3. /\ notes \in [NoteId -> NoteRow \cup {None}] /\ NoNotes \in View
        /\ \A n \in NoteId : notes[n] # None => notes[n].book \in books
        /\ c.live => c.book = reader.book
    BY <1>2 DEF NotesType, NoNotes, View, NotesInv, Mine
  <1>4. c.op = "list" <=> c.note = None
    BY <1>2 DEF CallRec
  <1>5. CASE ListNotes
    <2> DEFINE list == NotesOf(c.book)
               x == Answer(c, TRUE, None, list)
    <2>1. answers' = answers \cup {x} /\ notes' = notes /\ c.op = "list"
      BY <1>5 DEF ListNotes, Done, Serves, c
    <2>2. list \in View
      BY <1>3 DEF NotesOf, View, NoteRow
    <2>3. ASSUME NEW n \in NoteId
          PROVE  list[n] = None \/ notes[n] = [book |-> c.book, text |-> list[n]]
      <3>1. CASE notes[n] # None /\ notes[n].book = c.book
        <4>1. notes[n] \in NoteRow /\ list[n] = notes[n].text
          BY <1>3, <3>1 DEF NotesOf
        <4>2. QED BY <3>1, <4>1 DEF NoteRow
      <3>2. CASE ~(notes[n] # None /\ notes[n].book = c.book)
        BY <3>2 DEF NotesOf
      <3>3. QED BY <3>1, <3>2
    <2> HIDE DEF list
    <2>4. x \in AnswerRec /\ x.call = c /\ x.list = list
      BY <1>2, <2>1, <2>2 DEF Answer, AnswerRec, AnswerShape, Tells
    <2> HIDE DEF x
    <2>5. QED BY ZenonT(60), <1>1, <1>2, <1>3, <2>1, <2>3, <2>4, ServeKeeps
  <1>6. CASE CreateNote
    <2> DEFINE row == [book |-> c.book, text |-> c.text]
               x == Answer(c, TRUE, notes'[c.note], NoNotes)
    <2>1. /\ answers' = answers \cup {x} /\ c.op = "create" /\ c.book \in books
          /\ notes' = [notes EXCEPT ![c.note] = row]
      BY <1>6 DEF CreateNote, Done, Serves, c
    <2>2. row \in NoteRow /\ c.note \in NoteId
      BY <1>2, <2>1 DEF CallRec, NoteRow
    <2>3. notes'[c.note] = row
      BY <1>3, <2>1, <2>2
    <2>4. x \in AnswerRec /\ x.call = c /\ x.row = row
      BY <1>2, <1>3, <2>2, <2>3 DEF Answer, AnswerRec, AnswerShape, Tells
    <2> HIDE DEF x
    <2>5. /\ notes' \in [NoteId -> NoteRow \cup {None}]
          /\ \A n \in NoteId : notes'[n] # None => notes'[n].book \in books
          /\ \A n \in NoteId : n # c.note => notes'[n] = notes[n]
      BY <1>3, <2>1, <2>2
    <2>6. x.ok
      BY DEF x, Answer
    <2>7. c.live => row = [book |-> reader.book, text |-> row.text]
      BY <1>3
    <2> HIDE DEF row
    <2>8. QED BY <1>1, <1>2, <2>1, <2>3, <2>4, <2>5, <2>6, <2>7, ServeKeeps
  <1>7. CASE UpdateNote
    <2> DEFINE row == [notes[c.note] EXCEPT !.text = c.text]
               x == Answer(c, TRUE, notes'[c.note], NoNotes)
    <2>1. /\ answers' = answers \cup {x} /\ c.op = "update" /\ notes[c.note] # None
          /\ notes' = [notes EXCEPT ![c.note] = row]
      BY <1>7 DEF UpdateNote, Done, Serves, c
    <2>2. c.note \in NoteId /\ c.text \in Text
      BY <1>2, <2>1 DEF CallRec
    <2>3. /\ notes[c.note] \in NoteRow /\ notes[c.note].book \in books
          /\ row = [book |-> notes[c.note].book, text |-> c.text] /\ row \in NoteRow
      BY <1>3, <2>1, <2>2 DEF NoteRow
    <2> HIDE DEF row
    <2>4. notes'[c.note] = row
      BY <1>3, <2>1, <2>2
    <2>5. x \in AnswerRec /\ x.call = c /\ x.row = row /\ x.ok
      BY <1>2, <1>3, <2>3, <2>4 DEF Answer, AnswerRec, AnswerShape, Tells
    <2> HIDE DEF x
    <2>6. /\ notes' \in [NoteId -> NoteRow \cup {None}]
          /\ \A n \in NoteId : notes'[n] # None => notes'[n].book \in books
          /\ \A n \in NoteId : n # c.note => notes'[n] = notes[n]
      BY <1>3, <2>1, <2>2, <2>3
    <2>7. c.live /\ c.note \in NoteId \ raced =>
              row = [book |-> reader.book, text |-> row.text]
      <3>1. ASSUME c.live, c.note \in NoteId \ raced PROVE notes[c.note].book = reader.book
        BY <1>2, <2>1, <3>1 DEF NotesInv, UpToDate, Kept
      <3>2. QED BY <2>3, <3>1
    <2>8. QED BY <1>1, <1>2, <2>1, <2>4, <2>5, <2>6, <2>7, ServeKeeps
  <1>8. CASE DeleteNote
    <2> DEFINE x == Answer(c, TRUE, None, NoNotes)
    <2>1. /\ answers' = answers \cup {x} /\ c.op = "delete"
          /\ notes' = [notes EXCEPT ![c.note] = None]
      BY <1>8 DEF DeleteNote, Done, Serves, c
    <2>2. c.note \in NoteId
      BY <1>2, <2>1 DEF CallRec
    <2>3. x \in AnswerRec /\ x.call = c /\ x.ok
      BY <1>2, <1>3, <2>1 DEF Answer, AnswerRec, AnswerShape, Tells
    <2> HIDE DEF x
    <2>4. /\ notes' \in [NoteId -> NoteRow \cup {None}]
          /\ \A n \in NoteId : notes'[n] # None => notes'[n].book \in books
          /\ \A n \in NoteId : n # c.note => notes'[n] = notes[n]
      BY <1>3, <2>1, <2>2
    <2>5. QED BY <1>1, <1>2, <2>1, <2>3, <2>4, ServeKeeps
  <1>9. CASE RefuseNote
    <2> DEFINE x == Answer(c, FALSE, None, NoNotes)
    <2>1. answers' = answers \cup {x} /\ notes' = notes
      BY <1>9 DEF RefuseNote, c
    <2>2. x \in AnswerRec /\ x.call = c /\ ~x.ok
      BY <1>2, <1>3 DEF Answer, AnswerRec, AnswerShape, Tells
    <2> HIDE DEF x
    <2>3. QED BY <1>1, <1>2, <1>3, <2>1, <2>2, ServeKeeps
  <1>10. QED BY <1>5, <1>6, <1>7, <1>8, <1>9

\* The store sends a command.
LEMMA SendKeeps ==
    ASSUME NotesInv, NEW c \in CallRec, c.live, c.book = reader.book, Sends(c),
           UNCHANGED <<books, notes, answers>>, reader' \in
               [book: books \cup {None}, shown: View, due: BOOLEAN],
           reader'.book = reader.book, reader'.shown = reader.shown,
           c.op = "update" /\ c.note \notin raced' =>
               notes[c.note] = None \/ notes[c.note].book = reader.book
    PROVE  NotesInv'
  <1> USE NotesAssumption
  <1>1. /\ calls' = Append(calls, c)
        /\ raced' = IF c.note # None /\ \E d \in UnderWay : d.note = c.note
                    THEN raced \cup {c.note} ELSE raced
    BY DEF Sends
  <1>2. calls \in Seq(CallRec) /\ Len(calls) \in Nat
    BY DEF NotesInv, NotesType
  <1> DEFINE k == Len(calls) + 1
  <1>3. /\ calls' \in Seq(CallRec) /\ DOMAIN calls' = 1..k /\ calls'[k] = c
        /\ k \in Nat /\ DOMAIN calls = 1..(k - 1)
        /\ \A i \in DOMAIN calls' : i = k \/ (i \in DOMAIN calls /\ calls'[i] = calls[i])
    <2>1. /\ calls' \in Seq(CallRec) /\ DOMAIN calls' = 1..k /\ calls'[k] = c
          /\ k \in Nat /\ DOMAIN calls = 1..Len(calls)
          /\ \A i \in 1..Len(calls) : calls'[i] = calls[i]
      BY <1>1, <1>2
    <2>2. k - 1 = Len(calls) /\ \A i \in 1..k : i = k \/ i \in 1..Len(calls)
      BY <1>2
    <2>3. QED BY <2>1, <2>2
  <1> HIDE DEF k
  <1>4. NotesType'
    BY <1>3 DEF NotesInv, NotesType
  <1>5. Mine'
    BY <1>3 DEF NotesInv, Mine
  <1>6. Past'
    <2>1. ASSUME NEW i \in DOMAIN calls', NEW j \in DOMAIN calls', i < j, ~calls'[j].live
          PROVE  ~calls'[i].live
      <3>1. j \in DOMAIN calls /\ calls'[j] = calls[j]
        BY <1>3, <2>1
      <3>2. i \in DOMAIN calls /\ calls'[i] = calls[i]
        BY <1>3, <2>1, <3>1
      <3>3. QED BY <2>1, <3>1, <3>2 DEF NotesInv, Past
    <2>2. ASSUME NEW j \in DOMAIN calls', ~calls'[j].live
          PROVE  reader'.shown = NoNotes /\ \A a \in answers' : ~a.call.live
      <3>1. j \in DOMAIN calls /\ calls'[j] = calls[j]
        BY <1>3, <2>2
      <3>2. QED BY <2>2, <3>1 DEF NotesInv, Past
    <2>3. QED BY <2>1, <2>2 DEF Past
  <1>7. ASSUME NEW n \in NoteId \ raced'
        PROVE  UpToDate(n)'
    <2>1. UpToDate(n)
      BY <1>1, <1>7 DEF NotesInv
    <2>2. c.note = n => \A d \in UnderWay : d.note # n
      BY <1>1, <1>7
    <2>3. /\ \A i \in DOMAIN calls : calls[i] \in UnderWay
          /\ \A a \in answers : a.call \in UnderWay
      BY DEF UnderWay, Range
    <2>4. ASSUME c.note = n
          PROVE  /\ \A i \in DOMAIN calls : calls[i].note # n
                 /\ \A a \in answers : a.call.note # n
      BY <2>2, <2>3, <2>4
    <2>5. Alone(n)'
      <3>1. ASSUME NEW i \in DOMAIN calls', NEW j \in DOMAIN calls',
                   calls'[i].note = n, calls'[j].note = n, calls'[i].live
            PROVE  i = j
        <4>1. CASE c.note = n
          BY <1>3, <2>4, <3>1, <4>1
        <4>2. CASE c.note # n
          BY <1>3, <2>1, <3>1, <4>2 DEF UpToDate, Alone
        <4>3. QED BY <4>1, <4>2
      <3>2. ASSUME NEW i \in DOMAIN calls', NEW a \in answers',
                   calls'[i].note = n, a.call.note = n
            PROVE  ~calls'[i].live /\ ~a.call.live
        BY <1>3, <2>1, <2>4, <3>2 DEF UpToDate, Alone
      <3>3. QED BY <2>1, <3>1, <3>2 DEF UpToDate, Alone
    <2>6. Kept(n)'
      <3>1. ASSUME NEW i \in DOMAIN calls', calls'[i].live, calls'[i].note = n,
                   calls'[i].op = "update"
            PROVE  notes'[n] = None \/ notes'[n].book = reader'.book
        <4>1. CASE i = k
          BY <1>3, <1>7, <3>1, <4>1
        <4>2. CASE i # k
          BY <1>3, <2>1, <3>1, <4>2 DEF UpToDate, Kept
        <4>3. QED BY <4>1, <4>2
      <3>2. QED BY <2>1, <3>1 DEF UpToDate, Kept
    <2>7. QED BY <2>1, <2>5, <2>6 DEF UpToDate, Seen, Answered, IsList
  <1>8. QED BY <1>4, <1>5, <1>6, <1>7 DEF NotesInv

\* Another book, or none, is opened: nobody waits for what is under way.
LEMMA RetireKeeps ==
    ASSUME NotesInv, UNCHANGED <<books, notes>>, Marked(Retire), raced' = {},
           reader' \in [book: books \cup {None}, shown: View, due: BOOLEAN],
           reader'.shown = NoNotes
    PROVE  NotesInv'
  <1>1. /\ calls \in Seq(CallRec) /\ Len(calls) \in Nat /\ DOMAIN calls = 1..Len(calls)
        /\ answers \subseteq AnswerRec
    BY DEF NotesInv, NotesType
  <1>2. \A c \in CallRec : Retire(c) \in CallRec /\ ~Retire(c).live
    BY DEF Retire, CallRec
  <1>3. /\ calls' = [i \in DOMAIN calls |-> Retire(calls[i])]
        /\ answers' = {[a EXCEPT !.call = Retire(a.call)] : a \in answers}
    BY DEF Marked
  <1>4. calls' \in Seq(CallRec) /\ \A i \in DOMAIN calls' : ~calls'[i].live
    <2>1. calls' \in [1..Len(calls) -> CallRec]
      BY <1>1, <1>2, <1>3
    <2>2. \A i \in DOMAIN calls' : ~calls'[i].live
      BY <1>1, <1>2, <1>3
    <2>3. QED BY <1>1, <2>1, <2>2, SeqDef
  <1>5. answers' \subseteq AnswerRec /\ \A a \in answers' : ~a.call.live
    <2>1. ASSUME NEW a \in answers PROVE LET t == [a EXCEPT !.call = Retire(a.call)]
                                         IN  t \in AnswerRec /\ ~t.call.live
      <3>1. Retire(a.call) \in CallRec /\ ~Retire(a.call).live
        BY <1>1, <1>2 DEF AnswerRec, AnswerShape, Tells
      <3>2. Retire(a.call).op = a.call.op
        BY DEF Retire
      <3>3. QED BY <1>1, <3>1, <3>2 DEF AnswerRec, AnswerShape, Tells
    <2>2. QED BY <1>3, <2>1
  <1>6. NotesType' /\ Mine' /\ Past'
    BY <1>4, <1>5 DEF NotesInv, NotesType, Mine, Past
  <1>7. ASSUME NEW n \in NoteId PROVE UpToDate(n)'
    BY <1>4, <1>5 DEF UpToDate, Alone, Kept, Seen, IsList, NoNotes
  <1>8. QED BY <1>6, <1>7 DEF NotesInv

LEMMA ArrivesKeeps ==
    ASSUME NotesInv, UNCHANGED books, NEW a \in answers, AnswerArrives(a)
    PROVE  NotesInv'
  <1> USE NotesAssumption
  <1> DEFINE others == answers \ {a}
             c == a.call
             text == CASE c.op = "create" -> a.row.text
                       [] c.op = "update" ->
                            IF reader.shown[c.note] = None THEN None ELSE a.row.text
                       [] c.op = "delete" -> None
  <1>1. UNCHANGED <<books, notes, raced>>
    BY DEF AnswerArrives
  <1>2. NotesType /\ a \in AnswerRec /\ c \in CallRec /\ answers \subseteq AnswerRec
    BY DEF NotesInv, NotesType, AnswerRec, AnswerShape, Tells
  <1>3. CASE c.op = "list" \/ ~c.live \/ ~a.ok
    <2>1. /\ answers' = others /\ calls' = calls
          /\ reader' = IF c.op = "list" /\ a.ok /\ Shows(a)
                       THEN [reader EXCEPT !.shown = a.list] ELSE reader
      BY <1>3 DEF AnswerArrives
    <2> DEFINE shows == c.op = "list" /\ a.ok /\ Shows(a)
    <2>2. /\ shows <=> IsList(a)
          /\ reader' \in [book: books \cup {None}, shown: View, due: BOOLEAN]
          /\ reader'.book = reader.book
          /\ reader'.shown = IF shows THEN a.list ELSE reader.shown
      BY <1>2, <2>1 DEF IsList, Shows, NotesType, AnswerRec, AnswerShape, Tells
    <2> HIDE DEF shows
    <2>3. NotesType'
      BY <1>1, <1>2, <2>1, <2>2 DEF NotesType
    <2>4. Mine'
      BY <2>1, <2>2 DEF NotesInv, Mine
    <2>5. Past'
      BY <2>1, <2>2 DEF NotesInv, Past, IsList
    <2>6. ASSUME NEW n \in NoteId \ raced PROVE UpToDate(n)'
      <3>1. UpToDate(n)
        BY DEF NotesInv
      <3>2. Alone(n)' /\ Kept(n)'
        BY <1>1, <2>1, <2>2, <3>1 DEF UpToDate, Alone, Kept
      <3>3. Answered(n) => Answered(n)'
        <4>1. c.note = n => ~(a.ok /\ c.live)
          BY <1>2, <1>3 DEF CallRec
        <4>2. QED BY <2>1, <4>1 DEF Answered
      <3>4. ASSUME NEW view, Seen(n, view)
            PROVE  \/ view[n] = None
                   \/ notes'[n] = [book |-> reader'.book, text |-> view[n]]
                   \/ Answered(n)'
        BY <1>1, <2>2, <3>3, <3>4 DEF Seen
      <3>5. Seen(n, reader'.shown)
        BY <2>2, <3>1 DEF UpToDate
      <3>6. Seen(n, reader.shown)'
        BY <3>4, <3>5 DEF Seen
      <3>7. ASSUME NEW b \in answers', IsList(b) PROVE Seen(n, b.list)'
        <4>1. Seen(n, b.list)
          BY <2>1, <3>1, <3>7 DEF UpToDate
        <4>2. QED BY <3>4, <4>1 DEF Seen
      <3>8. QED BY <3>2, <3>6, <3>7 DEF UpToDate, IsList
    <2>7. QED BY <1>1, <2>3, <2>4, <2>5, <2>6 DEF NotesInv
  <1>4. CASE ~(c.op = "list" \/ ~c.live \/ ~a.ok)
    <2>1. /\ reader' = [reader EXCEPT !.shown[c.note] = text]
          /\ calls' = [i \in DOMAIN calls |-> Outdate(calls[i])]
          /\ answers' = {[o EXCEPT !.call = Outdate(o.call)] : o \in others}
          /\ c.op \in {"create", "update", "delete"} /\ c.live /\ a.ok /\ c.note \in NoteId
      BY <1>2, <1>4 DEF AnswerArrives, CallRec
    <2>2. \A d \in CallRec : /\ Outdate(d) \in CallRec /\ ~Outdate(d).fresh
                             /\ Outdate(d).live = d.live /\ Outdate(d).note = d.note
                             /\ Outdate(d).op = d.op /\ Outdate(d).book = d.book
      BY DEF Outdate, CallRec
    <2>3. /\ calls \in Seq(CallRec) /\ Len(calls) \in Nat /\ DOMAIN calls = 1..Len(calls)
          /\ \A i \in DOMAIN calls : calls[i] \in CallRec
      BY <1>2 DEF NotesType
    <2>4. /\ calls' \in Seq(CallRec) /\ DOMAIN calls' = DOMAIN calls
          /\ \A i \in DOMAIN calls : /\ calls'[i].live = calls[i].live
                                     /\ calls'[i].note = calls[i].note
                                     /\ calls'[i].op = calls[i].op
                                     /\ calls'[i].book = calls[i].book
      <3>1. calls' \in [1..Len(calls) -> CallRec]
        BY <2>1, <2>2, <2>3
      <3>2. calls' \in Seq(CallRec)
        BY <2>3, <3>1, SeqDef
      <3>3. QED BY <2>1, <2>2, <2>3, <3>2
    <2>5. ASSUME NEW o \in answers
          PROVE  LET t == [o EXCEPT !.call = Outdate(o.call)]
                 IN  /\ t \in AnswerRec /\ ~t.call.fresh /\ t.call.live = o.call.live
                     /\ t.call.note = o.call.note /\ t.call.op = o.call.op
                     /\ t.call.book = o.call.book
                     /\ t.ok = o.ok /\ t.row = o.row /\ t.list = o.list
      <3>1. o \in AnswerRec /\ o.call \in CallRec
        BY <1>2 DEF AnswerRec, AnswerShape, Tells
      <3>2. QED BY <2>2, <3>1 DEF AnswerRec, AnswerShape, Tells
    <2>6. /\ answers' \subseteq AnswerRec
          /\ \A b \in answers' : ~b.call.fresh
          /\ \A b \in answers' : \E o \in others :
                /\ b = [o EXCEPT !.call = Outdate(o.call)]
                /\ b.call.live = o.call.live /\ b.call.note = o.call.note
                /\ b.call.op = o.call.op /\ b.call.book = o.call.book
                /\ b.ok = o.ok /\ b.row = o.row
      <3>1. ASSUME NEW b \in answers'
            PROVE  \E o \in others : b = [o EXCEPT !.call = Outdate(o.call)] /\ o \in answers
        BY <2>1, <3>1
      <3>2. answers' \subseteq AnswerRec /\ \A b \in answers' : ~b.call.fresh
        BY <2>5, <3>1
      <3>3. ASSUME NEW b \in answers'
            PROVE  \E o \in others :
                /\ b = [o EXCEPT !.call = Outdate(o.call)]
                /\ b.call.live = o.call.live /\ b.call.note = o.call.note
                /\ b.call.op = o.call.op /\ b.call.book = o.call.book
                /\ b.ok = o.ok /\ b.row = o.row
        <4>1. PICK o \in others : b = [o EXCEPT !.call = Outdate(o.call)] /\ o \in answers
          BY <3>1
        <4>2. QED BY <2>5, <4>1
      <3>4. QED BY <3>2, <3>3
    <2>7. \A o \in others : \E b \in answers' :
              /\ b.call.live = o.call.live /\ b.call.note = o.call.note /\ b.ok = o.ok
      BY <2>1, <2>5
    <2>8. ASSUME c.note \notin raced
          PROVE  /\ c.op \in {"create", "update"} =>
                      notes[c.note] = a.row /\ a.row = [book |-> reader.book,
                                                        text |-> a.row.text]
                 /\ \A i \in DOMAIN calls : calls[i].note # c.note
                 /\ \A o \in others : o.call.note # c.note
      <3>1. UpToDate(c.note)
        BY <2>1, <2>8 DEF NotesInv
      <3>2. QED BY <2>1, <3>1 DEF UpToDate, Kept, Alone
    <2>9. /\ reader.shown \in View /\ text \in Text \cup {None}
          /\ reader' \in [book: books \cup {None}, shown: View, due: BOOLEAN]
          /\ reader'.book = reader.book
          /\ reader'.shown = [reader.shown EXCEPT ![c.note] = text]
      <3>1. text \in Text \cup {None}
        <4>1. c.op \in {"create", "update"} => a.row \in NoteRow
          BY <1>2, <2>1 DEF AnswerRec, AnswerShape, Tells
        <4>2. QED BY <2>1, <4>1 DEF NoteRow
      <3> HIDE DEF text
      <3>2. QED BY <1>2, <2>1, <3>1 DEF NotesType, View
    <2> HIDE DEF text, others
    <2>10. NotesType'
      BY <1>1, <1>2, <2>4, <2>6, <2>9 DEF NotesType
    <2>11. Mine'
      <3>1. \A o \in others : o \in answers
        BY DEF others
      <3>2. QED BY <2>4, <2>6, <2>9, <3>1 DEF NotesInv, Mine
    <2>12. Past'
      <3>1. \A i \in DOMAIN calls : calls[i].live
        BY <2>1 DEF NotesInv, Past
      <3>2. QED BY <2>4, <3>1 DEF Past
    <2>13. ASSUME NEW n \in NoteId \ raced PROVE UpToDate(n)'
      <3>1. UpToDate(n) /\ \A o \in others : o \in answers
        BY DEF NotesInv, others
      <3>2. Alone(n)'
        <4>1. ASSUME NEW b \in answers', NEW d \in answers',
                     b.call.note = n, d.call.note = n, b.call.live
              PROVE  b = d
          <5>1. PICK o \in others : /\ b = [o EXCEPT !.call = Outdate(o.call)]
                                    /\ b.call.live = o.call.live /\ b.call.note = o.call.note
            BY <2>6
          <5>2. PICK p \in others : /\ d = [p EXCEPT !.call = Outdate(p.call)]
                                    /\ d.call.live = p.call.live /\ d.call.note = p.call.note
            BY <2>6
          <5>3. o = p
            BY <3>1, <4>1, <5>1, <5>2 DEF UpToDate, Alone
          <5>4. QED BY <5>1, <5>2, <5>3
        <4>2. ASSUME NEW i \in DOMAIN calls', NEW b \in answers',
                     calls'[i].note = n, b.call.note = n
              PROVE  ~calls'[i].live /\ ~b.call.live
          BY <2>4, <2>6, <3>1, <4>2 DEF UpToDate, Alone
        <4>3. ASSUME NEW i \in DOMAIN calls', NEW j \in DOMAIN calls',
                     calls'[i].note = n, calls'[j].note = n, calls'[i].live
              PROVE  i = j
          BY <2>4, <3>1, <4>3 DEF UpToDate, Alone
        <4>4. QED BY <4>1, <4>2, <4>3 DEF Alone
      <3>3. Kept(n)'
        <4>1. ASSUME NEW b \in answers', b.ok, b.call.live, b.call.note = n,
                     b.call.op \in {"create", "update"}
              PROVE  notes'[n] = b.row /\ b.row = [book |-> reader'.book, text |-> b.row.text]
          BY <1>1, <2>6, <2>9, <3>1, <4>1 DEF UpToDate, Kept
        <4>2. ASSUME NEW i \in DOMAIN calls', calls'[i].live, calls'[i].note = n,
                     calls'[i].op = "update"
              PROVE  notes'[n] = None \/ notes'[n].book = reader'.book
          BY <1>1, <2>4, <2>9, <3>1, <4>2 DEF UpToDate, Kept
        <4>3. QED BY <4>1, <4>2 DEF Kept
      <3>4. Seen(n, reader.shown)'
        <4>1. CASE n = c.note
          <5>1. reader'.shown[n] = text
            BY <2>9, <4>1 DEF View
          <5>2. CASE c.op = "delete"
            BY <5>1, <5>2 DEF text, Seen
          <5>3. CASE c.op \in {"create", "update"}
            <6>1. notes[n] = a.row /\ a.row = [book |-> reader.book, text |-> a.row.text]
              BY <2>8, <4>1, <5>3
            <6>2. text = None \/ text = a.row.text
              BY <5>3 DEF text
            <6>3. QED BY <1>1, <2>9, <5>1, <6>1, <6>2 DEF Seen
          <5>4. QED BY <2>1, <5>2, <5>3
        <4>2. CASE n # c.note
          <5>1. reader'.shown[n] = reader.shown[n]
            BY <2>9, <4>2 DEF View
          <5>2. ASSUME Answered(n) PROVE Answered(n)'
            <6>1. PICK o \in answers : o.ok /\ o.call.live /\ o.call.note = n
              BY <5>2 DEF Answered
            <6>2. o \in others
              BY <4>2, <6>1 DEF others
            <6>3. QED BY <2>7, <6>1, <6>2 DEF Answered
          <5>3. QED BY <1>1, <2>9, <3>1, <5>1, <5>2 DEF UpToDate, Seen
        <4>3. QED BY <4>1, <4>2
      <3>5. QED BY <2>6, <3>2, <3>3, <3>4 DEF UpToDate, IsList
    <2>14. QED BY <1>1, <2>10, <2>11, <2>12, <2>13 DEF NotesInv
  <1>5. QED BY <1>3, <1>4

LEMMA StoreKeeps ==
    ASSUME NotesInv, UNCHANGED books, NEW n \in NoteId, NEW t \in Text,
           AddNote(n, t) \/ EditNote(n, t) \/ RemoveNote(n)
    PROVE  NotesInv'
  <1> USE NotesAssumption
  <1>1. /\ NotesType /\ reader.book # None /\ reader.book \in Book /\ reader.shown \in View
        /\ UNCHANGED <<books, notes, reader, answers>>
    BY DEF NotesInv, NotesType, AddNote, EditNote, RemoveNote
  <1>2. CASE AddNote(n, t)
    <2> DEFINE c == Call("create", n, reader.book, t)
    <2>1. c \in CallRec /\ c.live /\ c.book = reader.book /\ c.op = "create"
      BY <1>1 DEF Call, CallRec
    <2>2. Sends(c)
      BY <1>2 DEF AddNote
    <2> HIDE DEF c
    <2>3. QED BY <1>1, <2>1, <2>2, SendKeeps DEF NotesType
  <1>3. CASE EditNote(n, t)
    <2> DEFINE c == Call("update", n, reader.book, t)
    <2>1. /\ c \in CallRec /\ c.live /\ c.book = reader.book /\ c.op = "update"
          /\ c.note = n
      BY <1>1 DEF Call, CallRec
    <2>2. Sends(c) /\ reader.shown[n] # None
      BY <1>3 DEF EditNote
    <2> HIDE DEF c
    <2>3. ASSUME n \notin raced'
          PROVE  notes[n] = None \/ notes[n].book = reader.book
      <3>1. n \notin raced /\ \A d \in UnderWay : d.note # n
        BY <2>1, <2>2, <2>3 DEF Sends
      <3>2. ~Answered(n)
        BY <3>1 DEF Answered, UnderWay
      <3>3. Seen(n, reader.shown)
        BY <3>1 DEF NotesInv, UpToDate
      <3>4. QED BY <2>2, <3>2, <3>3 DEF Seen
    <2>4. QED BY <1>1, <2>1, <2>2, <2>3, SendKeeps DEF NotesType
  <1>4. CASE RemoveNote(n)
    <2> DEFINE c == Call("delete", n, reader.book, None)
    <2>1. c \in CallRec /\ c.live /\ c.book = reader.book /\ c.op = "delete"
      BY <1>1 DEF Call, CallRec
    <2>2. Sends(c)
      BY <1>4 DEF RemoveNote
    <2> HIDE DEF c
    <2>3. QED BY <1>1, <2>1, <2>2, SendKeeps DEF NotesType
  <1>5. QED BY <1>2, <1>3, <1>4

LEMMA LoadKeeps ==
    ASSUME NotesInv, UNCHANGED books, LoadNotes
    PROVE  NotesInv'
  <1> DEFINE c == Call("list", None, reader.book, None)
  <1>1. NotesType /\ reader.book # None /\ reader.book \in Book
    BY DEF NotesInv, NotesType, LoadNotes
  <1>2. c \in CallRec /\ c.live /\ c.book = reader.book /\ c.op = "list"
    BY <1>1 DEF Call, CallRec
  <1>3. /\ Sends(c) /\ UNCHANGED <<books, notes, answers>>
        /\ reader' = [reader EXCEPT !.due = FALSE]
    BY DEF LoadNotes
  <1> HIDE DEF c
  <1>4. /\ reader' \in [book: books \cup {None}, shown: View, due: BOOLEAN]
        /\ reader'.book = reader.book /\ reader'.shown = reader.shown
    BY <1>1, <1>3 DEF NotesType
  <1>5. QED BY <1>2, <1>3, <1>4, SendKeeps

LEMMA NotesCommandKeeps ==
    ASSUME NotesInv, UNCHANGED books, NotesCommand
    PROVE  NotesInv'
  <1>1. CASE ListNotes \/ CreateNote \/ UpdateNote \/ DeleteNote \/ RefuseNote
    BY <1>1, ServiceKeeps
  <1>2. CASE \E b \in Book : OpenReader(b)
    <2>1. /\ UNCHANGED <<books, notes>> /\ Marked(Retire) /\ raced' = {}
          /\ \E b \in books : reader' = [book |-> b, shown |-> NoNotes, due |-> TRUE]
      BY <1>2 DEF OpenReader
    <2>2. NoNotes \in View
      BY DEF NoNotes, View
    <2>3. QED BY <2>1, <2>2, RetireKeeps
  <1>3. CASE CloseReader
    <2>1. /\ UNCHANGED <<books, notes>> /\ Marked(Retire) /\ raced' = {}
          /\ reader' = ClosedReader
      BY <1>3 DEF CloseReader
    <2>2. NoNotes \in View
      BY DEF NoNotes, View
    <2>3. QED BY <2>1, <2>2, RetireKeeps DEF ClosedReader
  <1>4. CASE LoadNotes
    BY <1>4, LoadKeeps
  <1>5. CASE \E n \in NoteId, t \in Text : AddNote(n, t) \/ EditNote(n, t)
    BY <1>5, StoreKeeps
  <1>6. CASE \E n \in NoteId : RemoveNote(n)
    <2>1. PICK n \in NoteId : RemoveNote(n)
      BY <1>6
    <2>2. PICK t \in Text : TRUE
      <3>1. reader.shown[n] \in Text
        BY <2>1 DEF RemoveNote, NotesInv, NotesType, View
      <3>2. QED BY <3>1
    <2>3. QED BY <2>1, <2>2, StoreKeeps
  <1>7. CASE \E a \in answers : AnswerArrives(a)
    BY <1>7, ArrivesKeeps
  <1>8. QED BY <1>1, <1>2, <1>3, <1>4, <1>5, <1>6, <1>7 DEF NotesCommand

\* A deletion takes the notes of a book that is not open.
LEMMA ForgetKeeps ==
    ASSUME NotesInv, NEW b \in Book, reader.book # b, books' = books \ {b}, NotesForget(b)
    PROVE  NotesInv'
  <1> USE NotesAssumption
  <1>1. /\ UNCHANGED <<reader, calls, answers, raced>>
        /\ notes' = [n \in NoteId |-> IF notes[n] # None /\ notes[n].book = b
                                      THEN None ELSE notes[n]]
    BY DEF NotesForget
  <1>2. NotesType'
    <2>1. notes' \in [NoteId -> NoteRow \cup {None}]
      BY <1>1 DEF NotesInv, NotesType
    <2>2. \A n \in NoteId : notes'[n] # None => notes'[n].book \in books'
      BY <1>1 DEF NotesInv, NotesType
    <2>3. reader' \in [book: books' \cup {None}, shown: View, due: BOOLEAN]
      BY <1>1 DEF NotesInv, NotesType
    <2>4. QED BY <1>1, <2>1, <2>2, <2>3 DEF NotesInv, NotesType
  <1>3. Mine' /\ Past'
    BY <1>1 DEF NotesInv, Mine, Past
  <1>4. ASSUME NEW n \in NoteId \ raced PROVE UpToDate(n)'
    <2>1. UpToDate(n)
      BY DEF NotesInv
    <2>2. \/ notes'[n] = notes[n]
          \/ notes[n] # None /\ notes[n].book # reader.book /\ notes'[n] = None
      BY <1>1
    <2>3. ASSUME NEW view, Seen(n, view)
          PROVE  \/ view[n] = None
                 \/ notes'[n] = [book |-> reader'.book, text |-> view[n]]
                 \/ Answered(n)'
      BY <1>1, <2>2, <2>3 DEF Seen, Answered
    <2>4. Seen(n, reader.shown)'
      BY <1>1, <2>1, <2>3 DEF UpToDate, Seen
    <2>5. ASSUME NEW a \in answers', IsList(a) PROVE Seen(n, a.list)'
      <3>1. Seen(n, a.list)
        BY <1>1, <2>1, <2>5 DEF UpToDate
      <3>2. QED BY <2>3, <3>1 DEF Seen
    <2>6. Kept(n)'
      <3>1. ASSUME NEW a \in answers', a.ok, a.call.live, a.call.note = n,
                   a.call.op \in {"create", "update"}
            PROVE  notes'[n] = a.row /\ a.row = [book |-> reader'.book, text |-> a.row.text]
        <4>1. notes[n] = a.row /\ a.row = [book |-> reader.book, text |-> a.row.text]
          BY <1>1, <2>1, <3>1 DEF UpToDate, Kept
        <4>2. notes[n].book = reader.book
          BY <4>1
        <4>3. QED BY <1>1, <2>2, <4>1, <4>2
      <3>2. ASSUME NEW i \in DOMAIN calls', calls'[i].live, calls'[i].note = n,
                   calls'[i].op = "update"
            PROVE  notes'[n] = None \/ notes'[n].book = reader'.book
        BY <1>1, <2>1, <2>2, <3>2 DEF UpToDate, Kept
      <3>3. QED BY <3>1, <3>2 DEF Kept
    <2>7. Alone(n)'
      BY <1>1, <2>1 DEF UpToDate, Alone
    <2>8. QED BY <2>4, <2>5, <2>6, <2>7 DEF UpToDate
  <1>5. QED BY <1>2, <1>3, <1>4, <1>1 DEF NotesInv

LEMMA NobodyAsks ==
    ASSUME books \subseteq Book, notes \in [NoteId -> NoteRow \cup {None}],
           \A n \in NoteId : notes[n] # None => notes[n].book \in books,
           reader = ClosedReader, calls = <<>>, answers = {}
    PROVE  NotesInv
  <1>1. NotesType
    BY DEF NotesType, ClosedReader, NoNotes, View
  <1>2. Mine /\ Past
    BY DEF Mine, Past, ClosedReader
  <1>3. \A n \in NoteId : UpToDate(n)
    BY DEF UpToDate, Alone, Kept, Seen, ClosedReader, NoNotes
  <1>4. QED BY <1>1, <1>2, <1>3 DEF NotesInv

LEMMA NotesStep ==
    ASSUME NotesInv, [Next]_vars
    PROVE  NotesInv'
  <1>1. CASE UNCHANGED <<books, noteVars>>
    BY <1>1 DEF NotesInv, NotesType, Mine, Past, UpToDate, Alone, Kept, Seen, Answered, noteVars
  <1>2. CASE NotesWork
    BY <1>2, NotesCommandKeeps DEF NotesWork
  <1>3. CASE RestartProgram
    <2>1. NotesRestart /\ UNCHANGED books
      BY <1>3 DEF RestartProgram
    <2>2. (/\ books \subseteq Book /\ notes \in [NoteId -> NoteRow \cup {None}]
           /\ \A n \in NoteId : notes[n] # None => notes[n].book \in books
           /\ reader = ClosedReader /\ calls = <<>> /\ answers = {})'
      BY <2>1 DEF NotesRestart, NotesInv, NotesType
    <2>3. QED BY <2>2, NobodyAsks, PTL
  <1>4. ASSUME NEW b \in Book, ImportBook(b) PROVE NotesInv'
    <2>1. books' = books \cup {b} /\ UNCHANGED noteVars
      BY <1>4 DEF ImportBook
    <2>2. NotesType'
      BY <2>1 DEF NotesInv, NotesType, noteVars
    <2>3. QED BY <2>1, <2>2 DEF NotesInv, Mine, Past, UpToDate, Alone, Kept, Seen, Answered,
                                noteVars
  <1>5. ASSUME NEW b \in Book, DeleteBook(b) PROVE NotesInv'
    BY <1>5, ForgetKeeps DEF DeleteBook
  <1>6. Startup \/ CatalogWorks \/ SettingsWork \/ UNCHANGED vars => UNCHANGED <<books, noteVars>>
    BY DEF Startup, CatalogWorks, SettingsWork, vars
  <1>7. QED BY <1>1, <1>2, <1>3, <1>4, <1>5, <1>6 DEF Next

\* When nothing is under way, what the reader shows is what is stored, whatever order lists
\* and changes were answered in (notes_service.rs, readerStore.ts).
THEOREM NotesShown == Spec => []NotesShownAreStored
  <1>1. ASSUME Init PROVE NotesInv
    BY <1>1, NobodyAsks DEF Init, NotesInit, NoNotes
  <1>2. QED BY <1>1, NotesStep, NotesInvShows, PTL DEF Spec

-----------------------------------------------------------------------------
(* The catalog: the invariant of its relations. *)

USE CatalogAssumption

\* Definitions are well formed and names unique where they must be.
Defined ==
    /\ series \in [Series -> Name \cup {None}]
    /\ groups \in [Group -> GroupName \cup {None}]
    /\ tags \in [Tag -> TagRow \cup {None}]
    /\ \A t \in AllTags : tags[t].group \in AllGroups \cup {None}
    /\ \A s1, s2 \in AllSeries : series[s1] = series[s2] => s1 = s2
    /\ \A g1, g2 \in AllGroups : groups[g1] = groups[g2] => g1 = g2
    /\ \A t1, t2 \in AllTags : tags[t1].group # None /\ tags[t1] = tags[t2] => t1 = t2

\* Relations that name only what there is.
RelationsOf ==
    [placed: [Book -> Placing \cup {None}], bookTags: SUBSET (Book \X Tag),
     seriesTags: SUBSET (Series \X Tag)]
Sound(r) ==
    /\ r \in RelationsOf
    /\ \A b \in Book : r.placed[b] # None => b \in books /\ r.placed[b].series \in AllSeries
    /\ r.bookTags \subseteq books \X AllTags
    /\ r.seriesTags \subseteq AllSeries \X AllTags

\* The statements that are still to come name only what there is.
Sensible ==
    /\ work = [kind |-> work.kind, owner |-> work.owner, todo |-> work.todo,
               asked |-> work.asked]
    /\ \/ work.kind = "bookTags" /\ work.owner \in books /\ work.todo \subseteq AllTags
       \/ work.kind = "seriesTags" /\ work.owner \in AllSeries /\ work.todo \subseteq AllTags
       \/ /\ work.kind = "order" /\ work.todo \subseteq Book \X Place
          /\ \A item \in work.todo : placed[item[1]] # None

\* Between two statements of a transaction the tables are sound, and so is what a rollback
\* would bring back.
Catalogued ==
    /\ books \subseteq Book
    /\ Defined
    /\ Sound(Now)
    /\ Free => before = None
    /\ ~Free => Sound(before) /\ Sensible

-----------------------------------------------------------------------------

\* Nothing that Catalogued speaks of is changed.
LEMMA CatalogIdle ==
    ASSUME Catalogued, UNCHANGED <<books, catalogVars>>
    PROVE  Catalogued'
  BY DEF Catalogued, Defined, Sound, Sensible, Now, Relations, Free, NoWork, AllSeries, AllGroups,
         AllTags, RelationsOf, catalogVars, definitions, relations

\* Catalogued holds of an empty catalog.
LEMMA CatalogBegins == Init => Catalogued
  BY DEF Init, CatalogInit, Catalogued, Defined, Sound, Now, Relations, Free, RelationsOf,
         AllSeries, AllGroups, AllTags

\* A definition is changed while no transaction is open.
LEMMA SeriesDefined ==
    ASSUME Catalogued, UNCHANGED books,
           NEW s \in Series, NEW n \in Name, CreateSeries(s, n) \/ UpdateSeries(s, n)
    PROVE  Catalogued'
  <1> USE DEF Catalogued, Defines, Free, NoWork
  <1>1. Defined'
    BY DEF CreateSeries, UpdateSeries, Defined, AllSeries, AllGroups, AllTags, TagRow, relations
  <1>2. Sound(Now)'
    BY DEF CreateSeries, UpdateSeries, Defined, Sound, Now, Relations, RelationsOf, AllSeries,
           AllTags, relations
  <1>3. QED BY <1>1, <1>2 DEF CreateSeries, UpdateSeries

LEMMA GroupDefined ==
    ASSUME Catalogued, UNCHANGED books,
           NEW g \in Group, NEW n \in GroupName, CreateTagGroup(g, n) \/ UpdateTagGroup(g, n)
    PROVE  Catalogued'
  <1> USE DEF Catalogued, Defines, Free, NoWork
  <1>1. Defined'
    BY DEF CreateTagGroup, UpdateTagGroup, Defined, AllSeries, AllGroups, AllTags, TagRow, relations
  <1>2. Sound(Now)'
    BY DEF CreateTagGroup, UpdateTagGroup, Defined, Sound, Now, Relations, RelationsOf, AllSeries,
           AllTags, relations
  <1>3. QED BY <1>1, <1>2 DEF CreateTagGroup, UpdateTagGroup

LEMMA TagDefined ==
    ASSUME Catalogued, UNCHANGED books,
           NEW t \in Tag, NEW row \in TagRow, CreateTag(t, row) \/ UpdateTag(t, row)
    PROVE  Catalogued'
  <1> USE DEF Catalogued, Defines, Free, NoWork
  <1>1. Defined'
    BY DEF CreateTag, UpdateTag, Defined, Unused, AllSeries, AllGroups, AllTags, relations
  <1>2. Sound(Now)'
    BY DEF CreateTag, UpdateTag, Defined, Sound, Now, Relations, RelationsOf, AllSeries,
           AllTags, relations
  <1>3. QED BY <1>1, <1>2 DEF CreateTag, UpdateTag

\* A deletion takes what refers to the deleted with it.
LEMMA SeriesDeleted ==
    ASSUME Catalogued, UNCHANGED books, NEW s \in Series, DeleteSeries(s)
    PROVE  Catalogued'
  <1> USE DEF Catalogued, Defines, Free, NoWork
  <1>1. Defined'
    BY DEF DeleteSeries, Defined, AllSeries, AllGroups, AllTags
  <1>2. Sound(Now)'
    BY DEF DeleteSeries, Defined, Sound, Now, Relations, RelationsOf, AllSeries, AllTags,
           Members, Placing
  <1>3. QED BY <1>1, <1>2 DEF DeleteSeries

LEMMA GroupDeleted ==
    ASSUME Catalogued, UNCHANGED books, NEW g \in Group, DeleteTagGroup(g)
    PROVE  Catalogued'
  <1> USE DEF Catalogued, Defines, Free, NoWork
  <1>1. tags' \in [Tag -> TagRow \cup {None}] /\ AllTags' = AllTags
    BY DEF DeleteTagGroup, Defined, AllTags, TagRow
  <1>2. \A t \in AllTags' : tags'[t].group # None => tags'[t] = tags[t] /\ tags[t].group # g
    BY <1>1 DEF DeleteTagGroup, Defined, AllTags, TagRow
  <1>3. \A t \in AllTags' : tags'[t].group \in AllGroups' \cup {None}
    BY <1>1, <1>2 DEF DeleteTagGroup, Defined, AllGroups
  <1>4. \A t1, t2 \in AllTags' :
            tags'[t1].group # None /\ tags'[t1] = tags'[t2] => t1 = t2
    BY <1>1, <1>2 DEF Defined
  <1>5. /\ groups' \in [Group -> GroupName \cup {None}]
        /\ \A g1, g2 \in AllGroups' : groups'[g1] = groups'[g2] => g1 = g2
    BY DEF DeleteTagGroup, Defined, AllGroups
  <1>6. Defined'
    BY <1>1, <1>3, <1>4, <1>5 DEF DeleteTagGroup, Defined, AllSeries
  <1>7. Sound(Now)'
    BY <1>1 DEF DeleteTagGroup, Sound, Now, Relations, RelationsOf, AllSeries, relations
  <1>8. QED BY <1>6, <1>7 DEF DeleteTagGroup

LEMMA TagDeleted ==
    ASSUME Catalogued, UNCHANGED books, NEW t \in Tag, DeleteTag(t)
    PROVE  Catalogued'
  <1> USE DEF Catalogued, Defines, Free, NoWork
  <1>1. Defined'
    BY DEF DeleteTag, Defined, AllSeries, AllGroups, AllTags
  <1>2. Sound(Now)'
    BY DEF DeleteTag, Defined, Sound, Now, Relations, RelationsOf, AllSeries, AllTags
  <1>3. QED BY <1>1, <1>2 DEF DeleteTag

\* A book is put into a series.
LEMMA BookPlaced ==
    ASSUME Catalogued, UNCHANGED books, NEW b \in Book, NEW s \in Series, NEW p \in Place,
           SetBookSeries(b, s, p)
    PROVE  Catalogued'
  <1> USE DEF Catalogued, Defines, Free, NoWork
  <1>1. Defined'
    BY DEF SetBookSeries, Defined, AllSeries, AllGroups, AllTags, definitions
  <1>2. Sound(Now)'
    BY DEF SetBookSeries, Sound, Now, Relations, RelationsOf, AllSeries, AllTags, Placing,
           definitions
  <1>3. QED BY <1>1, <1>2 DEF SetBookSeries

\* A book is taken out of its series.
LEMMA BookCleared ==
    ASSUME Catalogued, UNCHANGED books, NEW b \in Book, ClearBookSeries(b)
    PROVE  Catalogued'
  <1> USE DEF Catalogued, Defines, Free, NoWork
  <1>1. Defined'
    BY DEF ClearBookSeries, Defined, AllSeries, AllGroups, AllTags, definitions
  <1>2. Sound(Now)'
    BY DEF ClearBookSeries, Sound, Now, Relations, RelationsOf, AllSeries, AllTags, definitions
  <1>3. QED BY <1>1, <1>2 DEF ClearBookSeries

\* delete_book: its place and its tags go with it.
LEMMA BookDeleted ==
    ASSUME Catalogued, NEW b \in Book, books' = books \ {b}, CatalogForgets(b)
    PROVE  Catalogued'
  <1> USE DEF Catalogued, Defines, Free, NoWork
  <1>1. Defined'
    BY DEF CatalogForgets, Defined, AllSeries, AllGroups, AllTags, definitions
  <1>2. Sound(Now)'
    BY DEF CatalogForgets, Sound, Now, Relations, RelationsOf, AllSeries, AllTags, Placing,
           definitions
  <1>3. QED BY <1>1, <1>2 DEF CatalogForgets

\* import_book: a row that nothing refers to yet.
LEMMA BookImported ==
    ASSUME Catalogued, NEW b \in Book, books' = books \cup {b}, Free, UNCHANGED catalogVars
    PROVE  Catalogued'
  BY DEF Catalogued, Defined, Sound, Now, Relations, Free, NoWork, AllSeries, AllGroups, AllTags,
         RelationsOf, catalogVars, definitions, relations

\* A transaction begins: what a rollback would bring back is what there is.
LEMMA TagsReplaced ==
    ASSUME Catalogued, UNCHANGED books,
           \/ \E b \in Book, T \in SUBSET Tag : SetBookTags(b, T)
           \/ \E s \in Series, T \in SUBSET Tag : SetSeriesTags(s, T)
    PROVE  Catalogued'
  <1>1. /\ Free /\ before' = Now /\ UNCHANGED <<definitions, placed>>
        /\ bookTags' \subseteq bookTags /\ seriesTags' \subseteq seriesTags
    BY DEF SetBookTags, SetSeriesTags, Begins
  <1>2. Defined'
    BY <1>1 DEF Catalogued, Defined, AllSeries, AllGroups, AllTags, definitions
  <1>3. Sound(Now)' /\ Sound(before)'
    BY <1>1 DEF Catalogued, Sound, Now, Relations, RelationsOf, AllSeries, AllTags, definitions
  <1>4. AllTags' = AllTags /\ AllSeries' = AllSeries
    BY <1>1 DEF AllSeries, AllTags, definitions
  <1>5. ASSUME \E b \in Book, T \in SUBSET Tag : SetBookTags(b, T)
        PROVE  Sensible' /\ ~Free'
    <2>1. PICK b \in Book, T \in SUBSET Tag : SetBookTags(b, T)
      BY <1>5
    <2>2. /\ b \in books /\ T \subseteq AllTags
          /\ \E x : work' = [kind |-> "bookTags", owner |-> b, todo |-> T, asked |-> x]
      BY <2>1 DEF SetBookTags, Begins
    <2>3. QED BY <1>4, <2>2 DEF Sensible, Free, NoWork
  <1>6. ASSUME \E s \in Series, T \in SUBSET Tag : SetSeriesTags(s, T)
        PROVE  Sensible' /\ ~Free'
    <2>1. PICK s \in Series, T \in SUBSET Tag : SetSeriesTags(s, T)
      BY <1>6
    <2>2. /\ s \in AllSeries /\ T \subseteq AllTags
          /\ \E x : work' = [kind |-> "seriesTags", owner |-> s, todo |-> T, asked |-> x]
      BY <2>1 DEF SetSeriesTags, Begins
    <2>3. QED BY <1>4, <2>2 DEF Sensible, Free, NoWork
  <1>7. Sensible' /\ ~Free'
    BY <1>5, <1>6
  <1>8. QED BY <1>2, <1>3, <1>7 DEF Catalogued

LEMMA Reordered ==
    ASSUME Catalogued, UNCHANGED books, NEW s \in Series, NEW B \in SUBSET Book,
           NEW positions \in [B -> Place], Reorder(s, positions)
    PROVE  Catalogued'
  <1>1. Free /\ before' = Now /\ UNCHANGED <<definitions, relations>>
    BY DEF Reorder, Begins
  <1>2. Defined'
    BY <1>1 DEF Catalogued, Defined, AllSeries, AllGroups, AllTags, definitions
  <1>3. Sound(Now)' /\ Sound(before)'
    BY <1>1 DEF Catalogued, Sound, Now, Relations, RelationsOf, AllSeries, AllTags, definitions,
                relations
  <1>4. \A item \in work'.todo : item \in Book \X Place /\ placed[item[1]] # None
    BY DEF Reorder, Begins, Members
  <1>5. Sensible' /\ ~Free'
    BY <1>1, <1>4 DEF Reorder, Begins, Sensible, Free, NoWork, relations
  <1>6. QED BY <1>2, <1>3, <1>5 DEF Catalogued

\* A statement names only what there is.
LEMMA StatementMade ==
    ASSUME Catalogued, UNCHANGED books, NEW item \in work.todo, Statement(item)
    PROVE  Catalogued'
  <1>1. ~Free
    BY DEF Free, NoWork
  <1>2. UNCHANGED <<definitions, before>>
    BY DEF Statement
  <1>3. Sensible
    BY <1>1 DEF Catalogued
  <1>4. work' = [kind |-> work.kind, owner |-> work.owner, todo |-> work.todo \ {item},
                 asked |-> work.asked]
    BY <1>3 DEF Statement, Sensible
  <1>5. Defined' /\ Sound(before)'
    BY <1>1, <1>2 DEF Catalogued, Defined, Sound, AllSeries, AllGroups, AllTags, definitions
  <1>6. CASE work.kind = "bookTags"
    <2>1. /\ bookTags' = bookTags \cup {<<work.owner, item>>}
          /\ UNCHANGED <<placed, seriesTags>>
      BY <1>6 DEF Statement
    <2>2. work.owner \in books /\ item \in AllTags
      BY <1>3, <1>6 DEF Sensible
    <2>3. Sound(Now)'
      BY <1>2, <2>1, <2>2 DEF Catalogued, Sound, Now, Relations, RelationsOf, AllSeries, AllTags,
                              definitions
    <2>4. Sensible' /\ ~Free'
      BY <1>2, <1>3, <1>4, <1>6, <2>1 DEF Sensible, Free, NoWork, AllTags, definitions
    <2>5. QED BY <1>5, <2>3, <2>4 DEF Catalogued
  <1>7. CASE work.kind = "seriesTags"
    <2>1. /\ seriesTags' = seriesTags \cup {<<work.owner, item>>}
          /\ UNCHANGED <<placed, bookTags>>
      BY <1>7 DEF Statement
    <2>2. work.owner \in AllSeries /\ item \in AllTags
      BY <1>3, <1>7 DEF Sensible
    <2>3. Sound(Now)'
      BY <1>2, <2>1, <2>2 DEF Catalogued, Sound, Now, Relations, RelationsOf, AllSeries, AllTags,
                              definitions
    <2>4. Sensible' /\ ~Free'
      BY <1>2, <1>3, <1>4, <1>7, <2>1
      DEF Sensible, Free, NoWork, AllSeries, AllTags, definitions
    <2>5. QED BY <1>5, <2>3, <2>4 DEF Catalogued
  <1>8. CASE work.kind = "order"
    <2>1. /\ placed' = [placed EXCEPT ![item[1]].place = item[2]]
          /\ UNCHANGED <<bookTags, seriesTags>>
      BY <1>8 DEF Statement
    <2>2. item[1] \in Book /\ item[2] \in Place /\ placed[item[1]] # None
      BY <1>3, <1>8 DEF Sensible
    <2>3. placed \in [Book -> Placing \cup {None}]
      BY DEF Catalogued, Sound, Now, Relations, RelationsOf
    <2>4. /\ placed' \in [Book -> Placing \cup {None}]
          /\ \A b \in Book : placed'[b] # None <=> placed[b] # None
          /\ \A b \in Book : placed[b] # None => placed'[b].series = placed[b].series
      BY <2>1, <2>2, <2>3 DEF Placing
    <2>5. Sound(Now)'
      BY <1>2, <2>1, <2>4 DEF Catalogued, Sound, Now, Relations, RelationsOf, AllSeries, AllTags,
                              definitions
    <2>6. Sensible' /\ ~Free'
      BY <1>3, <1>4, <1>8, <2>4 DEF Sensible, Free, NoWork
    <2>7. QED BY <1>5, <2>5, <2>6 DEF Catalogued
  <1>9. QED BY <1>3, <1>6, <1>7, <1>8 DEF Sensible

\* The end of a transaction, by a commit, a rollback or a crash.
LEMMA TransactionEnds ==
    ASSUME Catalogued, UNCHANGED books, Finish \/ CatalogRestarts
    PROVE  Catalogued'
  <1>1. Free' /\ before' = None /\ UNCHANGED definitions
    BY DEF Finish, CatalogRestarts, Free
  <1>2. \/ UNCHANGED relations
        \/ before # None /\ RolledBack
        \/ ~Free /\ RolledBack
    BY DEF Finish, CatalogRestarts
  <1>3. Defined'
    BY <1>1 DEF Catalogued, Defined, AllSeries, AllGroups, AllTags, definitions
  <1>4. CASE UNCHANGED relations
    <2>1. Sound(Now)'
      BY <1>1, <1>4 DEF Catalogued, Sound, Now, Relations, AllSeries, AllTags, definitions,
                        relations
    <2>2. QED BY <1>1, <1>3, <2>1 DEF Catalogued
  <1>5. CASE ~Free /\ RolledBack
    <2>1. Sound(before) /\ Now' = Relations(before.placed, before.bookTags, before.seriesTags)
      BY <1>5 DEF Catalogued, RolledBack, Now, Relations
    <2>2. Sound(Now)'
      BY <1>1, <2>1 DEF Sound, Relations, RelationsOf, AllSeries, AllTags, definitions
    <2>3. QED BY <1>1, <1>3, <2>2 DEF Catalogued
  <1>6. QED BY <1>2, <1>4, <1>5 DEF Catalogued

-----------------------------------------------------------------------------
(* All steps. *)

\* Every command of the catalog keeps the invariant.
LEMMA CatalogCommandStep ==
    ASSUME Catalogued, UNCHANGED books, CatalogCommand
    PROVE  Catalogued'
  <1>1. CASE \E s \in Series, n \in Name : CreateSeries(s, n) \/ UpdateSeries(s, n)
    BY <1>1, SeriesDefined
  <1>2. CASE \E s \in Series : DeleteSeries(s)
    BY <1>2, SeriesDeleted
  <1>3. CASE \E b \in Book, s \in Series, p \in Place : SetBookSeries(b, s, p)
    BY <1>3, BookPlaced
  <1>4. CASE \E b \in Book : ClearBookSeries(b)
    BY <1>4, BookCleared
  <1>5. CASE \E g \in Group, n \in GroupName : CreateTagGroup(g, n) \/ UpdateTagGroup(g, n)
    BY <1>5, GroupDefined
  <1>6. CASE \E g \in Group : DeleteTagGroup(g)
    BY <1>6, GroupDeleted
  <1>7. CASE \E t \in Tag, row \in TagRow : CreateTag(t, row) \/ UpdateTag(t, row)
    BY <1>7, TagDefined
  <1>8. CASE \E t \in Tag : DeleteTag(t)
    BY <1>8, TagDeleted
  <1>9. CASE \/ \E b \in Book, T \in SUBSET Tag : SetBookTags(b, T)
             \/ \E s \in Series, T \in SUBSET Tag : SetSeriesTags(s, T)
    BY <1>9, TagsReplaced
  <1>10. CASE \E s \in Series, B \in SUBSET Book : \E positions \in [B -> Place] :
                 Reorder(s, positions)
    BY <1>10, Reordered
  <1>11. CASE \E item \in work.todo : Statement(item)
    BY <1>11, StatementMade
  <1>12. CASE Finish
    BY <1>12, TransactionEnds
  <1>13. QED BY <1>1, <1>2, <1>3, <1>4, <1>5, <1>6, <1>7, <1>8, <1>9, <1>10, <1>11, <1>12
             DEF CatalogCommand

\* Every other service leaves the catalog alone.
LEMMA CatalogStep == Catalogued /\ [Next]_vars => Catalogued'
  <1> SUFFICES ASSUME Catalogued, [Next]_vars PROVE Catalogued'
    OBVIOUS
  <1>1. CASE Startup \/ NotesWork \/ SettingsWork \/ UNCHANGED vars
    <2>1. UNCHANGED <<books, catalogVars>>
      BY <1>1 DEF Startup, NotesWork, SettingsWork, vars
    <2>2. QED BY <2>1, CatalogIdle
  <1>2. CASE CatalogWorks
    BY <1>2, CatalogCommandStep DEF CatalogWorks
  <1>3. CASE RestartProgram
    BY <1>3, TransactionEnds DEF RestartProgram
  <1>4. CASE \E b \in Book : ImportBook(b)
    BY <1>4, BookImported DEF ImportBook
  <1>5. CASE \E b \in Book : DeleteBook(b)
    BY <1>5, BookDeleted DEF DeleteBook
  <1>6. QED BY <1>1, <1>2, <1>3, <1>4, <1>5 DEF Next

\* The invariant holds throughout.
LEMMA CatalogInvariant == Spec => []Catalogued
  BY CatalogBegins, CatalogStep, PTL DEF Spec

\* It is stronger than what the run checks.
LEMMA CataloguedHangs == Catalogued => CatalogHangsTogether
  BY DEF Catalogued, Defined, Sound, Now, Relations, RelationsOf, CatalogHangsTogether

\* No relation names a book, series or tag that is gone, no tag a group that is gone, and
\* names are unique, whatever is deleted, imported, rolled back or restarted: the cascades
\* of V2_SCHEMA and the transactions of catalog_repository.rs.
THEOREM RelationsHold == Spec => []CatalogHangsTogether
  BY CatalogInvariant, CataloguedHangs, PTL

-----------------------------------------------------------------------------
(* Transactions. *)

\* With the statements still to come, a transaction is what it was asked for.
OnItsWay ==
    \/ /\ work.kind = "bookTags"
       /\ work.asked = Relations(placed, bookTags \cup ({work.owner} \X work.todo), seriesTags)
    \/ /\ work.kind = "seriesTags"
       /\ work.asked = Relations(placed, bookTags, seriesTags \cup ({work.owner} \X work.todo))
    \/ /\ work.kind = "order"
       /\ work.asked = Relations(work.asked.placed, bookTags, seriesTags)
       /\ work.asked.placed \in [Book -> Placing \cup {None}]
       /\ \A item \in work.todo :
             work.asked.placed[item[1]] = [series |-> placed[item[1]].series, place |-> item[2]]
       /\ \A b \in Book :
             (\A item \in work.todo : item[1] # b) => work.asked.placed[b] = placed[b]
       /\ \A i, j \in work.todo : i[1] = j[1] => i = j

\* What DELETE leaves and the INSERTs add, or the places asked for, is what was asked.
LEMMA BeginsOnItsWay ==
    ASSUME Catalogued,
           \/ \E b \in Book, T \in SUBSET Tag : SetBookTags(b, T)
           \/ \E s \in Series, T \in SUBSET Tag : SetSeriesTags(s, T)
           \/ \E s \in Series, B \in SUBSET Book : \E positions \in [B -> Place] :
                 Reorder(s, positions)
    PROVE  OnItsWay'
  <1>1. ASSUME NEW b \in Book, NEW T \in SUBSET Tag, SetBookTags(b, T)
        PROVE  OnItsWay'
    BY <1>1 DEF SetBookTags, Begins, OnItsWay, Relations
  <1>2. ASSUME NEW s \in Series, NEW T \in SUBSET Tag, SetSeriesTags(s, T)
        PROVE  OnItsWay'
    BY <1>2 DEF SetSeriesTags, Begins, OnItsWay, Relations
  <1>3. ASSUME NEW s \in Series, NEW B \in SUBSET Book, NEW positions \in [B -> Place],
               Reorder(s, positions)
        PROVE  OnItsWay'
    <2> DEFINE todo == {<<b, positions[b]>> : b \in B}
               P == [b \in Book |-> IF b \in B THEN [placed[b] EXCEPT !.place = positions[b]]
                                                ELSE placed[b]]
    <2>1. /\ work' = [kind |-> "order", owner |-> s, todo |-> todo,
                      asked |-> Relations(P, bookTags, seriesTags)]
          /\ UNCHANGED relations /\ B \subseteq Members(s)
      BY <1>3 DEF Reorder, Begins
    <2>2. /\ placed \in [Book -> Placing \cup {None}]
          /\ \A b \in B : placed[b] \in Placing
      BY <2>1 DEF Catalogued, Sound, Now, Relations, RelationsOf, Members
    <2>3. \A b \in B : P[b] = [series |-> placed[b].series, place |-> positions[b]]
      BY <2>2 DEF Placing
    <2>4. P \in [Book -> Placing \cup {None}]
      BY <2>2, <2>3 DEF Placing
    <2>5. \A b \in Book : (\A item \in todo : item[1] # b) => P[b] = placed[b]
      <3>1. \A b \in B : <<b, positions[b]>> \in todo /\ <<b, positions[b]>>[1] = b
        OBVIOUS
      <3>2. \A b \in Book : (\A item \in todo : item[1] # b) => b \notin B
        BY <3>1
      <3>3. QED BY <3>2
    <2>6. /\ work'.kind = "order" /\ work'.todo = todo
          /\ work'.asked = Relations(P, bookTags', seriesTags') /\ work'.asked.placed = P
      BY <2>1 DEF Relations, relations
    <2> HIDE DEF P
    <2>7. \A item \in todo :
             /\ P[item[1]] = [series |-> placed'[item[1]].series, place |-> item[2]]
             /\ \A j \in todo : item[1] = j[1] => item = j
      BY <2>1, <2>3 DEF relations
    <2> HIDE DEF todo
    <2>8. QED BY <2>1, <2>4, <2>5, <2>6, <2>7 DEF OnItsWay, relations
  <1>4. QED BY <1>1, <1>2, <1>3

\* A statement does what it was to do, once.
LEMMA StatementOnItsWay ==
    ASSUME Catalogued, ~Free, OnItsWay, NEW item \in work.todo, Statement(item)
    PROVE  OnItsWay'
  <1>1. Sensible
    BY DEF Catalogued
  <1>2. /\ work'.kind = work.kind /\ work'.owner = work.owner /\ work'.asked = work.asked
        /\ work'.todo = work.todo \ {item}
    BY <1>1 DEF Statement, Sensible
  <1>3. CASE work.kind = "bookTags"
    <2>1. /\ bookTags' = bookTags \cup {<<work.owner, item>>}
          /\ UNCHANGED <<placed, seriesTags>>
      BY <1>3 DEF Statement
    <2>2. bookTags' \cup ({work.owner} \X work'.todo)
              = bookTags \cup ({work.owner} \X work.todo)
      BY <1>2, <2>1
    <2>3. QED BY <1>2, <1>3, <2>1, <2>2 DEF OnItsWay
  <1>4. CASE work.kind = "seriesTags"
    <2>1. /\ seriesTags' = seriesTags \cup {<<work.owner, item>>}
          /\ UNCHANGED <<placed, bookTags>>
      BY <1>4 DEF Statement
    <2>2. seriesTags' \cup ({work.owner} \X work'.todo)
              = seriesTags \cup ({work.owner} \X work.todo)
      BY <1>2, <2>1
    <2>3. QED BY <1>2, <1>4, <2>1, <2>2 DEF OnItsWay
  <1>5. CASE work.kind = "order"
    <2>1. /\ placed' = [placed EXCEPT ![item[1]].place = item[2]]
          /\ UNCHANGED <<bookTags, seriesTags>>
      BY <1>5 DEF Statement
    <2>2. /\ placed \in [Book -> Placing \cup {None}]
          /\ item[1] \in Book /\ placed[item[1]] \in Placing
      BY <1>1, <1>5 DEF Sensible, Catalogued, Sound, Now, Relations, RelationsOf
    <2>3. /\ placed'[item[1]] = [series |-> placed[item[1]].series, place |-> item[2]]
          /\ \A b \in Book \ {item[1]} : placed'[b] = placed[b]
      BY <2>1, <2>2 DEF Placing
    <2>4. \A i \in work.todo : i[1] \in Book
      BY <1>1, <1>5 DEF Sensible
    <2>5. QED BY SMTT(30), <1>2, <1>5, <2>1, <2>2, <2>3, <2>4 DEF OnItsWay
  <1>6. QED BY <1>1, <1>3, <1>4, <1>5 DEF Sensible

\* Outside its own steps a transaction stays as it is.
LEMMA OnItsWayStep ==
    Catalogued /\ (~Free => OnItsWay) /\ [Next]_vars => (~Free => OnItsWay)'
  <1> SUFFICES ASSUME Catalogued, ~Free => OnItsWay, [Next]_vars, ~Free' PROVE OnItsWay'
    OBVIOUS
  <1>1. CASE UNCHANGED catalogVars
    BY <1>1 DEF OnItsWay, Free, catalogVars, relations
  <1>2. CASE CatalogWorks
    <2>1. \/ Defines
          \/ \E b \in Book, T \in SUBSET Tag : SetBookTags(b, T)
          \/ \E s \in Series, T \in SUBSET Tag : SetSeriesTags(s, T)
          \/ \E s \in Series, B \in SUBSET Book : \E positions \in [B -> Place] :
                Reorder(s, positions)
          \/ \E item \in work.todo : Statement(item)
          \/ Finish
      BY <1>2 DEF CatalogWorks, CatalogCommand, CreateSeries, UpdateSeries, DeleteSeries,
                  SetBookSeries, ClearBookSeries, CreateTagGroup, UpdateTagGroup,
                  DeleteTagGroup, CreateTag, UpdateTag, DeleteTag
    <2>2. ~Defines /\ ~Finish
      BY DEF Defines, Finish, Free
    <2>3. ASSUME NEW item \in work.todo, Statement(item) PROVE ~Free
      BY DEF Free, NoWork
    <2>4. QED BY <2>1, <2>2, <2>3, BeginsOnItsWay, StatementOnItsWay
  <1>3. CASE RestartProgram \/ \E b \in Book : DeleteBook(b)
    BY <1>3 DEF RestartProgram, CatalogRestarts, DeleteBook, CatalogForgets, Defines, Free
  <1>4. CASE \/ Startup \/ NotesWork \/ SettingsWork \/ UNCHANGED vars
             \/ \E b \in Book : ImportBook(b)
    BY <1>1, <1>4 DEF Startup, NotesWork, SettingsWork, ImportBook, vars
  <1>5. QED BY <1>2, <1>3, <1>4 DEF Next

\* A transaction that ends leaves what was there or what was asked for.
LEMMA EndsWhole ==
    Catalogued /\ (~Free => OnItsWay) /\ [Next]_vars =>
        [before # None /\ before' = None => Now' \in {before, work.asked}]_<<relations, work, before>>
  <1> SUFFICES ASSUME Catalogued, ~Free => OnItsWay, [Next]_vars, before # None, before' = None
               PROVE  Now' \in {before, work.asked}
    OBVIOUS
  <1>1. ~Free /\ OnItsWay /\ Sensible /\ before \in RelationsOf
    BY DEF Catalogued, Sound
  <1>2. RolledBack => Now' = before
    BY <1>1 DEF RolledBack, Now, Relations, RelationsOf
  <1>3. work.todo = {} => work.asked = Now
    <2> SUFFICES ASSUME work.todo = {} PROVE work.asked = Now
      OBVIOUS
    <2>1. CASE work.kind \in {"bookTags", "seriesTags"}
      <3>1. {work.owner} \X work.todo = {}
        OBVIOUS
      <3>2. bookTags \cup {} = bookTags /\ seriesTags \cup {} = seriesTags
        OBVIOUS
      <3>3. QED BY <1>1, <2>1, <3>1, <3>2 DEF OnItsWay, Now
    <2>2. CASE work.kind = "order"
      <3>1. work.asked.placed = placed
        BY <1>1, <2>2 DEF OnItsWay, Catalogued, Sound, Now, Relations, RelationsOf
      <3>2. QED BY <1>1, <2>2, <3>1 DEF OnItsWay, Now
    <2>3. QED BY <1>1, <2>1, <2>2 DEF OnItsWay
  <1>4. CASE Finish
    BY <1>2, <1>3, <1>4 DEF Finish, Now, relations
  <1>5. CASE CatalogRestarts
    BY <1>2, <1>5 DEF CatalogRestarts
  <1>6. Finish \/ CatalogRestarts
    <2>1. before' # before
      OBVIOUS
    <2>2. ~Defines /\ ~UNCHANGED catalogVars
      BY <2>1 DEF Defines, catalogVars
    <2>3. CASE CatalogWorks
      BY <1>1, <2>1, <2>2, <2>3 DEF CatalogWorks, CatalogCommand, CreateSeries, UpdateSeries,
         DeleteSeries, SetBookSeries, ClearBookSeries, CreateTagGroup, UpdateTagGroup,
         DeleteTagGroup, CreateTag, UpdateTag, DeleteTag, SetBookTags, SetSeriesTags, Reorder,
         Begins, Statement
    <2>4. CASE \E b \in Book : DeleteBook(b)
      BY <2>2, <2>4 DEF DeleteBook, CatalogForgets
    <2>5. CASE \/ Startup \/ NotesWork \/ SettingsWork \/ UNCHANGED vars
               \/ \E b \in Book : ImportBook(b)
      BY <2>2, <2>5 DEF Startup, NotesWork, SettingsWork, ImportBook, vars
    <2>6. QED BY <2>3, <2>4, <2>5 DEF Next, RestartProgram
  <1>7. QED BY <1>4, <1>5, <1>6

\* A transaction of catalog_repository.rs leaves the relations as they were or as it was
\* asked to, and it is over when its command is, whichever statement fails or the process
\* dies at (finish_transaction).
THEOREM TransactionsWhole == Spec => AllOrNothing
  <1>1. Init => (~Free => OnItsWay)
    BY DEF Init, CatalogInit, Free
  <1>2. Catalogued => (Free => before = None)
    BY DEF Catalogued
  <1>3. QED BY <1>1, <1>2, CatalogInvariant, OnItsWayStep, EndsWhole, PTL DEF Spec, AllOrNothing

-----------------------------------------------------------------------------
(* The catalog: queries over effective tags. *)

\* Selected by every tag of a set means that each of them is the book's.
LEMMA FilterSelects ==
    ASSUME Catalogued, NEW b \in books, NEW T \in SUBSET Tag
    PROVE  b \in FilterBooks(T) <=> \A t \in T : <<b, t>> \in Effective
  <1> DEFINE matches == {t \in T : <<b, t>> \in Effective}
  <1>1. IsFiniteSet(T)
    BY FS_Subset
  <1>2. Cardinality(matches) = Cardinality(T) <=> matches = T
    BY <1>1, FS_Subset
  <1>3. QED BY <1>2 DEF FilterBooks

\* The list names each tag that the book has, its own or its series', once.
LEMMA ListTells ==
    ASSUME Catalogued, NEW b \in books
    PROVE  /\ \A t : (\E l \in ListBookTags(b) : l.tag = t) <=> t \in Tag /\ <<b, t>> \in Effective
           /\ \A l \in ListBookTags(b) : l.inherited <=> <<b, l.tag>> \notin bookTags
           /\ \A k, l \in ListBookTags(b) : k.tag = l.tag => k = l
  <1>1. b \in Book
    BY DEF Catalogued
  <1>2. ASSUME NEW l \in ListBookTags(b)
        PROVE  \E t \in Tag :
                  \/ l = [tag |-> t, inherited |-> FALSE] /\ <<b, t>> \in bookTags
                  \/ /\ l = [tag |-> t, inherited |-> TRUE]
                     /\ placed[b] # None /\ <<placed[b].series, t>> \in seriesTags
                     /\ <<b, t>> \notin bookTags
    <2>1. CASE l \in {[tag |-> t, inherited |-> FALSE] : t \in {u \in Tag : <<b, u>> \in bookTags}}
      BY <2>1
    <2>2. CASE l \in {[tag |-> t, inherited |-> TRUE] :
                        t \in {u \in Tag : /\ placed[b] # None
                                           /\ <<placed[b].series, u>> \in seriesTags
                                           /\ <<b, u>> \notin bookTags}}
      BY <2>2
    <2>3. QED BY <2>1, <2>2 DEF ListBookTags
  <1>3. ASSUME NEW t \in Tag, <<b, t>> \in Effective
        PROVE  \E l \in ListBookTags(b) : l.tag = t
    <2>1. CASE <<b, t>> \in bookTags
      <3>1. [tag |-> t, inherited |-> FALSE] \in ListBookTags(b)
        BY <2>1 DEF ListBookTags
      <3>2. QED BY <3>1
    <2>2. CASE <<b, t>> \notin bookTags
      <3>1. [tag |-> t, inherited |-> TRUE] \in ListBookTags(b)
        BY <1>3, <2>2 DEF ListBookTags, Effective
      <3>2. QED BY <3>1
    <2>3. QED BY <2>1, <2>2
  <1>4. ASSUME NEW l \in ListBookTags(b)
        PROVE  /\ l \in [tag: Tag, inherited: BOOLEAN]
               /\ <<b, l.tag>> \in Effective
               /\ \/ l = [tag |-> l.tag, inherited |-> FALSE] /\ <<b, l.tag>> \in bookTags
                  \/ l = [tag |-> l.tag, inherited |-> TRUE] /\ <<b, l.tag>> \notin bookTags
    <2>1. PICK t \in Tag :
             \/ l = [tag |-> t, inherited |-> FALSE] /\ <<b, t>> \in bookTags
             \/ /\ l = [tag |-> t, inherited |-> TRUE]
                /\ placed[b] # None /\ <<placed[b].series, t>> \in seriesTags
                /\ <<b, t>> \notin bookTags
      BY <1>2
    <2>2. <<b, t>> \in Effective
      BY <1>1, <2>1 DEF Effective
    <2>3. CASE l = [tag |-> t, inherited |-> FALSE] /\ <<b, t>> \in bookTags
      BY <2>2, <2>3
    <2>4. CASE l = [tag |-> t, inherited |-> TRUE] /\ <<b, t>> \notin bookTags
      BY <2>2, <2>4
    <2>5. QED BY <2>1, <2>3, <2>4
  <1>5. ASSUME NEW l \in ListBookTags(b) PROVE l.inherited <=> <<b, l.tag>> \notin bookTags
    <2>1. CASE l = [tag |-> l.tag, inherited |-> FALSE] /\ <<b, l.tag>> \in bookTags
      BY <2>1
    <2>2. CASE l = [tag |-> l.tag, inherited |-> TRUE] /\ <<b, l.tag>> \notin bookTags
      BY <2>2
    <2>3. QED BY <1>4, <2>1, <2>2
  <1>6. ASSUME NEW k \in ListBookTags(b), NEW l \in ListBookTags(b), k.tag = l.tag PROVE k = l
    <2>1. CASE <<b, k.tag>> \in bookTags
      <3>1. k = [tag |-> k.tag, inherited |-> FALSE] /\ l = [tag |-> l.tag, inherited |-> FALSE]
        BY <1>4, <1>6, <2>1
      <3>2. QED BY <1>6, <3>1
    <2>2. CASE <<b, k.tag>> \notin bookTags
      <3>1. k = [tag |-> k.tag, inherited |-> TRUE] /\ l = [tag |-> l.tag, inherited |-> TRUE]
        BY <1>4, <1>6, <2>2
      <3>2. QED BY <1>6, <3>1
    <2>3. QED BY <2>1, <2>2
  <1>7. QED BY <1>3, <1>4, <1>5, <1>6

\* What filters (filter_books_by_effective_tags) and lists (list_book_tags) say of a book's
\* tags is the same, for any tags a book has directly, through its series, or both.
THEOREM QueriesAgree == Spec => []TagsAgree
  <1>1. ASSUME Catalogued, NEW b \in books PROVE
            LET list == ListBookTags(b)
                listed == {l.tag : l \in list}
            IN  /\ Cardinality(list) = Cardinality(listed)
                /\ \A T \in SUBSET AllTags \ {{}} : b \in FilterBooks(T) <=> T \subseteq listed
                /\ \A l \in list : l.inherited <=> <<b, l.tag>> \notin bookTags
    <2> DEFINE list == ListBookTags(b)
               listed == {l.tag : l \in list}
               tagOf == [l \in list |-> l.tag]
               entry == [t \in listed |-> CHOOSE l \in list : l.tag = t]
    <2>1. \A t : t \in listed <=> t \in Tag /\ <<b, t>> \in Effective
      BY <1>1, ListTells
    <2>2. /\ \A l \in list : l.inherited <=> <<b, l.tag>> \notin bookTags
          /\ \A k, l \in list : k.tag = l.tag => k = l
      BY <1>1, ListTells
    <2>3. IsFiniteSet(listed)
      <3>1. listed \subseteq Tag
        BY <2>1
      <3>2. QED BY <3>1, FS_Subset
    <2>4. entry \in Bijection(listed, list)
      <3>1. \A t \in listed : entry[t] \in list /\ entry[t].tag = t
        OBVIOUS
      <3>2. \A l \in list : l.tag \in listed /\ entry[l.tag] = l
        BY <2>2, <3>1
      <3> HIDE DEF list, listed
      <3>3. entry \in [listed -> list]
        BY <3>1
      <3> HIDE DEF entry
      <3>4. QED BY <3>1, <3>2, <3>3 DEF Bijection, Injection, Surjection, IsInjective
    <2>5. Cardinality(list) = Cardinality(listed)
      <3> HIDE DEF list, listed, entry
      <3>1. QED BY <2>3, <2>4, FS_Bijection DEF ExistsBijection
    <2>6. ASSUME NEW T \in SUBSET AllTags PROVE b \in FilterBooks(T) <=> T \subseteq listed
      <3>1. T \in SUBSET Tag
        BY DEF AllTags
      <3>2. QED BY <1>1, <2>1, <3>1, FilterSelects
    <2>7. QED BY <2>2, <2>5, <2>6
  <1>2. Catalogued => TagsAgree
    BY <1>1 DEF TagsAgree
  <1>3. QED BY <1>2, CatalogInvariant, PTL
===============================================================================
