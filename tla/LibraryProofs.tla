----------------------------- MODULE LibraryProofs -----------------------------
(***************************************************************************)
(* What the run of Library checks on a small instance, proved for every    *)
(* set of books, locators and contents, every size of covers and both      *)
(* limits of their cache: rows, covers, private copies and permissions     *)
(* keep together, whichever effect of a command fails or is the last.      *)
(***************************************************************************)
EXTENDS Library, TotalsProofs

-----------------------------------------------------------------------------
(* The inductive invariant. *)

\* What a command is at each of its steps.
ImportSteps == {"acquired", "identified", "parsed", "evict", "unlink", "persist", "discard",
                "swap", "release", "replace"}
CmdRec ==
    [op: {"none", "import", "relocate", "delete"},
     pc: {"idle", "reject", "forget"} \cup ImportSteps,
     book: Book \cup {NoBook}, locator: Locator \cup {NoBook}, probe: CopyId \cup {NoProbe},
     content: Content \cup {NoContent}, parsed: BOOLEAN, old: Row \cup {NoRow},
     cover: Path \cup {NoCover}, victim: Path \cup {NoCover}]

Typed ==
    /\ books \in [Book -> Row \cup {NoRow}]
    /\ covers \in [Path -> Nat] /\ protected \in [Path -> Nat] /\ orphans \subseteq Path
    /\ copies \subseteq CopyId /\ strays \subseteq CopyId
    /\ permissions \subseteq Locator /\ lost \subseteq Locator
    /\ source \in [Locator -> Content \cup {NoContent}]
    /\ events \in 0..MaxEvents
    /\ cmd \in CmdRec

Steps ==
    /\ cmd.op = "none" => cmd = Idle
    /\ cmd.op = "import" =>
          /\ cmd.pc \in ImportSteps
          /\ cmd.locator \in Locator /\ cmd.content \in Content
          /\ cmd.probe \in Book \cup ImportProbe
          /\ cmd.pc # "acquired" => cmd.book \in Book
    /\ cmd.op = "relocate" =>
          /\ cmd.pc \in {"acquired", "reject", "swap", "release"}
          /\ cmd.locator \in Locator /\ cmd.content \in Content
          /\ cmd.probe = <<"relocate", cmd.book>> /\ cmd.book \in Book /\ cmd.old \in Row
    /\ cmd.op = "delete" =>
          /\ cmd.pc \in {"forget", "release"}
          /\ cmd.book \in Book /\ cmd.old \in Row

\* A source has one book at most, and the permissions of all of them are kept.
Sourced ==
    /\ \A a, b \in Rows : books[a].locator = books[b].locator => a = b
    /\ \A b \in Rows : books[b].locator \in permissions \cup lost
    /\ \A b \in Rows : books[b].package \in {NoPackage, Package[books[b].content]}

Free(l) == \A b \in Rows : books[b].locator # l
BeforeRow == {"identified", "parsed", "evict", "unlink", "persist", "discard"}
AfterRow == {"swap", "release"}

\* What a command has read is still so when it uses it.
Current ==
    /\ cmd.op \in {"import", "relocate"} => cmd.locator \in permissions \cup lost
    /\ At("import", "acquired") =>
          /\ cmd.cover = NoCover /\ cmd.victim = NoCover /\ cmd.old = NoRow
          /\ cmd.probe \in ImportProbe => Free(cmd.locator)
          /\ cmd.probe \notin ImportProbe => cmd.probe \in Rows /\ books[cmd.probe].locator = cmd.locator
    /\ cmd.op = "import" /\ cmd.pc \in BeforeRow =>
          /\ books[cmd.book] = cmd.old
          /\ cmd.probe \in Book => cmd.probe = cmd.book /\ cmd.old # NoRow
          /\ cmd.old # NoRow => \/ cmd.old.locator = cmd.locator
                                \/ Work[cmd.old.content] = Work[cmd.content]
    /\ At("relocate", "acquired") => books[cmd.book] = cmd.old
    /\ cmd.op \in {"import", "relocate"} /\ cmd.pc \in AfterRow =>
          /\ books[cmd.book] # NoRow /\ books[cmd.book].locator = cmd.locator
          /\ cmd.probe \in Book => cmd.probe = cmd.book
          /\ cmd.old # NoRow /\ cmd.old.locator # cmd.locator => Free(cmd.old.locator)
    /\ cmd.op = "delete" => books[cmd.book] = NoRow /\ Free(cmd.old.locator)

Protecting ==
    /\ cmd.op = "import" /\ cmd.cover # NoCover
    /\ cmd.pc \in {"evict", "unlink", "persist", "discard", "swap", "release", "replace"}
Keeping == cmd.op = "import" /\ cmd.pc \in {"swap", "release", "replace"}

\* The files of the command that no row refers to.
Spare ==
    CASE cmd.op = "import" /\ cmd.pc \in {"parsed", "evict", "unlink", "persist", "discard"} ->
            {cmd.cover, cmd.victim}
      [] Keeping \/ At("delete", "forget") -> {OldCover}
      [] OTHER -> {}

Covered ==
    /\ \A b \in Rows : books[b].cover # NoCover =>
          books[b].cover[1] = b /\ covers[books[b].cover] > 0
    /\ \A p \in Path : covers[p] > 0 => p \in Stored \cup Spare \cup orphans
    /\ \A p \in orphans : covers[p] > 0 /\ p \notin Stored \cup Spare
    /\ protected = [p \in Path |-> IF Protecting /\ p \in Pair THEN 1 ELSE 0]
    /\ OldCover # NoCover => OldCover[1] = cmd.book
    /\ cmd.op = "import" /\ cmd.pc \in BeforeRow /\ cmd.cover # NoCover =>
          cmd.cover[1] = cmd.book /\ covers[cmd.cover] > 0 /\ cmd.cover \notin Stored
    /\ cmd.pc \in {"parsed", "evict", "unlink"} => cmd.cover # NoCover
    /\ cmd.pc \in {"identified"} => cmd.cover = NoCover
    /\ cmd.op # "import" => cmd.cover = NoCover
    /\ Keeping => /\ books[cmd.book] # NoRow /\ books[cmd.book].cover = cmd.cover
                  /\ OldCover # NoCover => OldCover # cmd.cover
    /\ cmd.victim # NoCover => /\ cmd.op = "import" /\ cmd.pc = "unlink"
                               /\ cmd.victim \notin Stored \cup Pair /\ covers[cmd.victim] > 0
    /\ cmd.pc = "unlink" => cmd.victim # NoCover

\* What a cover file weighs that could be unlinked.
Weight == [p \in Path |-> IF p \in orphans THEN 0 ELSE covers[p]]

Budgeted ==
    IF cmd.pc \in {"parsed", "evict", "unlink", "discard"}
    THEN Total([Weight EXCEPT ![cmd.cover] = 0]) <= HardLimit
    ELSE Total(Weight) <= HardLimit

SpareCopies ==
    CASE cmd.op \in {"import", "relocate"} /\ cmd.pc \notin {"release", "replace"} -> {cmd.probe}
      [] At("delete", "forget") -> {cmd.book}
      [] OTHER -> {}
Copied ==
    /\ copies \subseteq Rows \cup SpareCopies \cup strays
    /\ strays \cap Rows = {}
    /\ cmd.op = "import" /\ cmd.pc \in BeforeRow => cmd.book \notin strays

\* The order of updated_at.
Ordered == IsOrder(older, Rows)

LibraryInv == Typed /\ Steps /\ Ordered /\ Sourced /\ Current /\ Covered /\ Budgeted /\ Copied

-----------------------------------------------------------------------------
(* Constants and commands. *)

LEMMA Names ==
    /\ NoBook \notin Book /\ Book \cap Probe = {} /\ NoProbe \notin Book
    /\ NoCover \notin Path /\ NoContent \notin Content /\ NoRow \notin Row
    /\ SoftLimit \in Nat /\ HardLimit \in Nat /\ SoftLimit <= HardLimit /\ MaxEvents \in Nat
  BY LibraryAssumption DEF NoCover, Path

LEMMA Probes ==
    /\ ImportProbe \subseteq Probe /\ Probe \subseteq CopyId /\ Book \subseteq CopyId
    /\ Rows \subseteq Book
    /\ \A b \in Book : <<"relocate", b>> \in Probe /\ <<"relocate", b>> \notin ImportProbe
    /\ \A id \in ImportProbe : id \notin Book
  <1>1. "relocate" # "import"
    OBVIOUS
  <1>2. QED BY <1>1, Names DEF ImportProbe, Probe, CopyId, Rows

LEMMA IdleIsTyped ==
    /\ Idle \in CmdRec /\ Idle.op = "none" /\ Idle.pc = "idle" /\ Idle.cover = NoCover
    /\ Idle.victim = NoCover /\ Idle.old = NoRow /\ Idle.book = NoBook
  BY DEF Idle, CmdRec

\* A step that only goes on.
LEMMA GoesOn ==
    ASSUME cmd \in CmdRec, NEW pc \in {"idle", "reject", "forget"} \cup ImportSteps, Goes(pc)
    PROVE  /\ cmd' \in CmdRec /\ cmd'.pc = pc /\ cmd'.op = cmd.op /\ cmd'.book = cmd.book
           /\ cmd'.locator = cmd.locator /\ cmd'.probe = cmd.probe
           /\ cmd'.content = cmd.content /\ cmd'.parsed = cmd.parsed /\ cmd'.old = cmd.old
           /\ cmd'.cover = cmd.cover /\ cmd'.victim = cmd.victim
  BY DEF Goes, CmdRec

-----------------------------------------------------------------------------
(* Covers and their budget. *)

LEMMA PathsFinite == IsFiniteSet(Path)
  <1>1. IsFiniteSet(Book)
    BY LibraryAssumption
  <1>2. IsFiniteSet(1..(MaxEvents + 3))
    <2>1. 1 \in Int /\ MaxEvents + 3 \in Int
      BY Names
    <2>2. QED BY <2>1, FS_Interval
  <1>3. QED BY <1>1, <1>2, FS_Product DEF Path

LEMMA LessCovers ==
    ASSUME NEW f \in [Path -> Nat], NEW g \in [Path -> Nat], \A p \in Path : g[p] <= f[p],
           Total(f) <= HardLimit
    PROVE  Total(g) <= HardLimit
  <1>1. Total(g) <= Total(f) /\ Total(f) \in Nat /\ Total(g) \in Nat
    BY PathsFinite, TotalOfPart, TotalNatural
  <1>2. QED BY <1>1, Names

\* The weight of a part outside of which nothing weighs anything.
LEMMA CountsAll ==
    ASSUME NEW f \in [Path -> Nat], NEW S \in SUBSET Path, \A p \in Path : f[p] > 0 => p \in S
    PROVE  Total(f) = Total([p \in S |-> f[p]])
  <1> DEFINE part == [p \in S |-> f[p]]
  <1>1. part \in [S -> Nat] /\ \A p \in S : part[p] = f[p]
    OBVIOUS
  <1> HIDE DEF part
  <1>2. \A u : u \in Units(f) <=>
                 \E x \in Path, i \in Nat : u = <<x, i>> /\ 1 <= i /\ i <= f[x]
    BY UnitsArePairs
  <1>3. \A u : u \in Units(part) <=>
                 \E x \in S, i \in Nat : u = <<x, i>> /\ 1 <= i /\ i <= part[x]
    BY <1>1, UnitsArePairs
  <1>4. Units(f) = Units(part)
    BY <1>1, <1>2, <1>3
  <1>5. QED BY <1>4 DEF Total, part

\* What the files weigh that could be unlinked: their sizes, and nothing else.
LEMMA Weighs ==
    ASSUME covers \in [Path -> Nat], NEW S \in SUBSET Path, S \cap orphans = {},
           \A p \in Path : covers[p] > 0 => p \in S \cup orphans
    PROVE  /\ Weight \in [Path -> Nat] /\ \A p \in Path : Weight[p] <= covers[p]
           /\ Total(Weight) = Total([p \in S |-> covers[p]])
  <1>1. /\ Weight \in [Path -> Nat] /\ \A p \in Path : Weight[p] <= covers[p]
        /\ \A p \in Path : Weight[p] > 0 => p \in S
        /\ [p \in S |-> Weight[p]] = [p \in S |-> covers[p]]
    BY DEF Weight
  <1>2. Total(Weight) = Total([p \in S |-> Weight[p]])
    BY <1>1, CountsAll
  <1>3. QED BY <1>1, <1>2

\* Files without a row and copies are given up: discard_candidate, remove_replaced_cover,
\* remove_stored_cover and invalidate, each of which may fail.
LEMMA GivingUp ==
    ASSUME Typed, NEW P \in SUBSET Path, NEW I \in SUBSET CopyId, GivesUp(P, I),
           \A p \in orphans : covers[p] > 0 /\ p \notin P, strays \cap Rows = {},
           Rows' = Rows
    PROVE  /\ covers' \in [Path -> Nat]
           /\ \A p \in Path : covers'[p] <= covers[p]
           /\ \A p \in Path \ P : covers'[p] = covers[p]
           /\ \A p \in P : covers'[p] > 0 => p \in orphans'
           /\ orphans' \subseteq orphans \cup P /\ orphans \subseteq orphans'
           /\ \A p \in orphans' : covers'[p] > 0
           /\ P = {} => UNCHANGED <<covers, orphans>>
           /\ Weight \in [Path -> Nat] /\ Weight' \in [Path -> Nat]
           /\ \A p \in Path : Weight'[p] <= Weight[p]
           /\ \A p \in P : Weight'[p] = 0
           /\ copies' \subseteq CopyId /\ strays' \subseteq CopyId
           /\ copies' \subseteq (copies \ I) \cup Rows \cup strays' /\ strays \subseteq strays' \cup I
           /\ strays' \cap Rows = {} /\ strays' \subseteq strays \cup I
           /\ events' \in 0..MaxEvents
  <1>1. PICK Q \in SUBSET {p \in P : covers[p] > 0}, J \in SUBSET (I \cap copies) :
            /\ covers' = [p \in Path |-> IF p \in P \ Q THEN 0 ELSE covers[p]]
            /\ orphans' = orphans \cup Q
            /\ copies' = copies \ (I \ J)
            /\ strays' = (strays \ I) \cup (J \ Rows)
            /\ IF Q = {} /\ J = {} THEN UNCHANGED events ELSE Happens
    BY DEF GivesUp
  <1>2. events' \in 0..MaxEvents
    BY <1>1, Names DEF Happens, Typed
  <1>3. /\ covers' \in [Path -> Nat]
        /\ \A p \in Path : covers'[p] <= covers[p]
        /\ \A p \in Path \ P : covers'[p] = covers[p]
        /\ \A p \in Q : covers'[p] = covers[p]
        /\ \A p \in P \ Q : covers'[p] = 0
    BY <1>1 DEF Typed
  <1>4. \A p \in orphans' : covers'[p] > 0
    BY <1>1, <1>3 DEF Typed
  <1>5. P = {} => UNCHANGED <<covers, orphans>>
    <2>1. P = {} => covers' = [p \in Path |-> covers[p]]
      BY <1>1
    <2>2. QED BY <1>1, <2>1 DEF Typed
  <1>6. /\ Weight \in [Path -> Nat] /\ Weight' \in [Path -> Nat]
        /\ \A p \in Path : Weight'[p] <= Weight[p]
        /\ \A p \in P : Weight'[p] = 0
    BY <1>1, <1>3 DEF Weight, Typed
  <1>7. QED BY <1>1, <1>2, <1>3, <1>4, <1>5, <1>6 DEF Typed

-----------------------------------------------------------------------------
(* Steps that change no row and no file. *)

LEMMA SourceChangesKeeps ==
    ASSUME LibraryInv, NEW l \in Locator, SourceChanges(l)
    PROVE  LibraryInv'
  <1> USE DEF LibraryInv
  <1>1. UNCHANGED <<rows, cache, private, permissions, lost, cmd>>
    BY DEF SourceChanges
  <1>2. Typed'
    BY Names DEF SourceChanges, Happens, Typed, rows, cache, private
  <1>3. Steps' /\ Ordered' /\ Sourced' /\ Current'
    BY <1>1 DEF Steps, Ordered, Sourced, Current, Free, Rows, At, rows
  <1>4. Covered' /\ Budgeted' /\ Copied'
    BY <1>1 DEF Covered, Budgeted, Weight, Copied, Spare, SpareCopies, Protecting, Keeping, Pair, OldCover,
                Stored, Rows, At, rows, cache, private
  <1>5. QED BY <1>2, <1>3, <1>4

LEMMA RevokeKeeps ==
    ASSUME LibraryInv, NEW l \in Locator, Revoke(l)
    PROVE  LibraryInv'
  <1> USE DEF LibraryInv
  <1>1. UNCHANGED <<rows, cache, private, cmd>> /\ permissions' \cup lost' = permissions \cup lost
    BY DEF Revoke
  <1>2. Typed'
    BY Names DEF Revoke, Happens, Typed, rows, cache, private
  <1>3. Steps' /\ Ordered'
    BY <1>1 DEF Steps, Ordered, Rows, rows
  <1>4. Sourced' /\ Current'
    BY <1>1 DEF Sourced, Current, Free, Rows, At, rows
  <1>5. Covered' /\ Budgeted' /\ Copied'
    BY <1>1 DEF Covered, Budgeted, Weight, Copied, Spare, SpareCopies, Protecting, Keeping, Pair, OldCover,
                Stored, Rows, At, rows, cache, private
  <1>6. QED BY <1>2, <1>3, <1>4, <1>5

\* From one command to the next.
LEMMA StartsIdle ==
    ASSUME LibraryInv, cmd = Idle
    PROVE  /\ \A p \in Path : covers[p] > 0 => p \in Stored \cup orphans
           /\ \A p \in orphans : covers[p] > 0 /\ p \notin Stored
           /\ \A p \in Path : protected[p] = 0
           /\ Total(Weight) <= HardLimit
           /\ copies \subseteq Rows \cup strays /\ strays \cap Rows = {}
  <1> USE DEF LibraryInv
  <1>1. Spare = {} /\ SpareCopies = {} /\ ~Protecting /\ cmd.pc = "idle"
    BY IdleIsTyped DEF Spare, SpareCopies, Protecting, Keeping, At
  <1>2. QED BY <1>1 DEF Covered, Budgeted, Copied

\* Nothing is left of a command that ends when its files and copies are the rows'.
LEMMA EndsIdle ==
    ASSUME Typed', Ordered', Sourced', cmd' = Idle,
           \A b \in Rows' : books'[b].cover # NoCover =>
               books'[b].cover[1] = b /\ covers'[books'[b].cover] > 0,
           \A p \in Path : covers'[p] > 0 => p \in Stored' \cup orphans',
           \A p \in orphans' : covers'[p] > 0 /\ p \notin Stored',
           \A p \in Path : protected'[p] = 0, Total(Weight') <= HardLimit,
           copies' \subseteq Rows' \cup strays', strays' \cap Rows' = {}
    PROVE  LibraryInv'
  <1>1. (cmd = Idle /\ OldCover = NoCover)'
    BY IdleIsTyped DEF OldCover
  <1>2. (Steps /\ Current)'
    BY <1>1, IdleIsTyped DEF Steps, Current, At
  <1>3. (Spare = {} /\ SpareCopies = {} /\ ~Protecting /\ ~Keeping)'
    BY <1>1, IdleIsTyped DEF Spare, SpareCopies, Protecting, Keeping, At
  <1>4. protected' = [p \in Path |-> 0]
    BY DEF Typed
  <1>5. Covered'
    BY <1>1, <1>3, <1>4, IdleIsTyped DEF Covered
  <1>6. Budgeted' /\ Copied'
    BY <1>1, <1>3, IdleIsTyped DEF Budgeted, Copied
  <1>7. QED BY <1>2, <1>5, <1>6 DEF LibraryInv

-----------------------------------------------------------------------------
(* open_book and delete_book. *)

LEMMA OpenMissingKeeps ==
    ASSUME LibraryInv, NEW b \in Book, OpenMissing(b)
    PROVE  LibraryInv'
  <1> USE DEF LibraryInv
  <1> DEFINE row == [books[b] EXCEPT !.status = "missing"]
  <1>1. /\ cmd = Idle /\ cmd' = Idle /\ b \in Rows /\ books[b] \in Row
        /\ UpdatesBySource(row) /\ UNCHANGED <<cache, private, permissions, world, cmd>>
    BY DEF OpenMissing, Typed, Rows
  <1>2. /\ row \in Row /\ row.locator = books[b].locator /\ row.cover = books[b].cover
        /\ row.package = books[b].package /\ row.content = books[b].content
    BY <1>1 DEF Row
  <1> HIDE DEF row
  <1>3. Holders(row.locator) = {b}
    BY <1>1, <1>2 DEF Holders, Sourced
  <1>4. books' = [books EXCEPT ![b] = row] /\ Touches(b)
    BY <1>1, <1>3 DEF UpdatesBySource, Typed
  <1>5. Rows' = Rows /\ \A c \in Rows : /\ books'[c].locator = books[c].locator
                                        /\ books'[c].cover = books[c].cover
                                        /\ books'[c].package = books[c].package
                                        /\ books'[c].content = books[c].content
    BY <1>1, <1>2, <1>4, Names DEF Rows, Typed
  <1>6. Typed'
    BY <1>1, <1>2, <1>4 DEF Typed, cache, private, world
  <1>7. Ordered'
    <2>1. Rows' = Rows \cup {b}
      BY <1>1, <1>5
    <2>2. QED BY <1>4, <2>1, TouchOrders DEF Ordered, Touches
  <1>8. Sourced'
    BY <1>1, <1>5 DEF Sourced, world, private
  <1>9. Stored' = Stored /\ Weight' = Weight
    BY <1>1, <1>5 DEF Stored, Weight, cache
  <1>10. QED BY <1>1, <1>5, <1>6, <1>7, <1>8, <1>9, StartsIdle, EndsIdle DEF Covered, cache, private

LEMMA DeleteKeeps ==
    ASSUME LibraryInv, NEW b \in Book, Delete(b)
    PROVE  LibraryInv'
  <1> USE DEF LibraryInv
  <1>1. /\ cmd = Idle /\ b \in Rows /\ books[b] \in Row /\ older' = Without(older, b)
        /\ books' = [books EXCEPT ![b] = NoRow]
        /\ UNCHANGED <<cache, private, permissions, world>>
    BY DEF Delete, Typed, Rows
  <1>2. /\ cmd' \in CmdRec /\ cmd'.op = "delete" /\ cmd'.pc = "forget" /\ cmd'.book = b
        /\ cmd'.old = books[b] /\ cmd'.cover = NoCover /\ cmd'.victim = NoCover
    BY <1>1 DEF Delete, Idle, CmdRec, ImportSteps
  <1>3. Rows' = Rows \ {b} /\ \A c \in Rows' : books'[c] = books[c]
    BY <1>1 DEF Rows, Typed
  <1>4. Typed'
    BY <1>1, <1>2 DEF Typed, cache, private, world
  <1>5. Steps'
    BY <1>1, <1>2 DEF Steps
  <1>6. Ordered'
    BY <1>1, <1>3, WithoutOrders DEF Ordered
  <1>7. Sourced'
    BY <1>1, <1>3 DEF Sourced, world, private
  <1>8. Current'
    BY <1>1, <1>2, <1>3 DEF Current, At, Free, Sourced, Typed
  <1>9. /\ OldCover' = books[b].cover /\ Spare' = {books[b].cover} /\ SpareCopies' = {b}
        /\ ~Protecting' /\ ~Keeping'
    BY <1>1, <1>2, Names DEF OldCover, Spare, SpareCopies, Protecting, Keeping, At
  <1>10. Covered'
    <2>1. /\ \A p \in Path : covers[p] > 0 => p \in Stored' \cup {books[b].cover} \cup orphans
          /\ \A p \in orphans : covers[p] > 0 /\ p \notin Stored' \cup {books[b].cover}
      BY <1>1, <1>3, Names, StartsIdle DEF Stored, Typed
    <2>2. protected' = [p \in Path |-> 0]
      BY <1>1, StartsIdle DEF Typed, cache, private
    <2>3. \A c \in Rows' : books'[c].cover # NoCover =>
              books'[c].cover[1] = c /\ covers'[books'[c].cover] > 0
      BY <1>1, <1>3 DEF Covered, cache, private
    <2>4. QED BY <1>1, <1>2, <1>9, <2>1, <2>2, <2>3 DEF Covered, cache, private
  <1>11. Budgeted' /\ Copied'
    BY <1>1, <1>2, <1>3, <1>9, StartsIdle DEF Budgeted, Weight, Copied, cache, private
  <1>12. QED BY <1>4, <1>5, <1>6, <1>7, <1>8, <1>10, <1>11

LEMMA ForgetKeeps ==
    ASSUME LibraryInv, Forget
    PROVE  LibraryInv'
  <1> USE DEF LibraryInv
  <1> DEFINE P == File(OldCover)
             I == {cmd.book}
  <1>1. /\ cmd.op = "delete" /\ cmd.pc = "forget" /\ cmd.book \in Book /\ cmd.old \in Row
        /\ cmd \in CmdRec /\ Goes("release")
        /\ UNCHANGED <<rows, protected, permissions, source, lost>>
    BY DEF Forget, At, Steps, Typed
  <1>2. /\ cmd' \in CmdRec /\ cmd'.op = "delete" /\ cmd'.pc = "release"
        /\ cmd'.book = cmd.book /\ cmd'.old = cmd.old /\ cmd'.cover = cmd.cover
        /\ cmd'.victim = cmd.victim
    BY <1>1, GoesOn DEF ImportSteps
  <1>3. /\ OldCover = cmd.old.cover /\ OldCover' = OldCover
        /\ OldCover \in Path \cup {NoCover} /\ Spare = {OldCover} /\ ~Protecting /\ ~Protecting'
        /\ ~Keeping /\ ~Keeping' /\ Spare' = {} /\ SpareCopies = {cmd.book} /\ SpareCopies' = {}
        /\ cmd.cover = NoCover /\ cmd.victim = NoCover
    BY <1>1, <1>2, Names DEF OldCover, Spare, SpareCopies, Protecting, Keeping, At, Row, Covered
  <1>4. protected = [p \in Path |-> 0] /\ Guarded = {}
    BY <1>3 DEF Covered, Guarded
  <1>5. /\ GivesUp(P, I) /\ P \in SUBSET Path /\ I \in SUBSET CopyId
        /\ \A p \in Path : p \in P <=> p = OldCover
    <2>1. GivesUp(File(OldCover) \ Guarded, {cmd.book})
      BY DEF Forget
    <2>2. File(OldCover) \ Guarded = P
      BY <1>4
    <2>3. GivesUp(P, I)
      BY <2>1, <2>2
    <2>4. QED BY <1>1, <1>3, <2>3, Probes, Names DEF File
  <1>6. Rows' = Rows /\ Stored' = Stored /\ books' = books /\ older' = older
    BY <1>1 DEF Rows, Stored, rows
  <1> HIDE DEF P
  <1>7. /\ covers' \in [Path -> Nat]
        /\ \A p \in Path \ P : covers'[p] = covers[p]
        /\ \A p \in P : covers'[p] > 0 => p \in orphans'
        /\ orphans' \subseteq orphans \cup P /\ orphans \subseteq orphans'
        /\ \A p \in orphans' : covers'[p] > 0
        /\ Weight \in [Path -> Nat] /\ Weight' \in [Path -> Nat]
        /\ \A p \in Path : Weight'[p] <= Weight[p]
        /\ copies' \subseteq CopyId /\ strays' \subseteq CopyId
        /\ copies' \subseteq (copies \ I) \cup Rows \cup strays' /\ strays \subseteq strays' \cup I
        /\ strays' \cap Rows = {}
        /\ events' \in 0..MaxEvents
    <2>1. \A p \in orphans : covers[p] > 0 /\ p \notin P
      BY <1>3, <1>5 DEF Covered, Typed
    <2>2. Typed /\ strays \cap Rows = {}
      BY DEF Copied
    <2> HIDE DEF LibraryInv, I
    <2>3. QED BY <1>5, <1>6, <2>1, <2>2, GivingUp
  <1>8. Typed'
    BY <1>1, <1>2, <1>5, <1>7 DEF Typed, rows
  <1>9. Steps' /\ Ordered' /\ Sourced' /\ Current'
    BY <1>1, <1>2, <1>6 DEF Steps, Ordered, Sourced, Current, At, Free
  <1>10. Covered'
    <2>1. \A c \in Rows : books[c].cover # NoCover => books[c].cover # OldCover
      BY <1>1, <1>3 DEF Covered, Current, Rows
    <2>2. \A c \in Rows : books[c].cover # NoCover =>
              books[c].cover \in Path /\ books[c].cover[1] = c /\ covers'[books[c].cover] > 0
      BY <1>5, <1>7, <2>1 DEF Covered, Typed, Row, Rows
    <2>3. \A p \in Path : covers'[p] > 0 => p \in Stored \cup orphans'
      <3>1. \A p \in Path : covers[p] > 0 => p \in Stored \cup {OldCover} \cup orphans
        BY <1>3 DEF Covered
      <3>2. QED BY <1>5, <1>7, <3>1
    <2>4. \A p \in orphans' : covers'[p] > 0 /\ p \notin Stored
      <3>1. \A p \in orphans : p \notin Stored
        BY DEF Covered
      <3>2. \A p \in P : p \notin Stored
        BY <1>5, <2>1, Names DEF Stored
      <3>3. QED BY <1>7, <3>1, <3>2
    <2>5. QED BY <1>1, <1>2, <1>3, <1>4, <1>6, <2>2, <2>3, <2>4 DEF Covered
  <1>11. Budgeted'
    <2>1. Total(Weight) <= HardLimit
      BY <1>1 DEF Budgeted
    <2>2. Total(Weight') <= HardLimit
      BY <1>7, <2>1, LessCovers
    <2>3. QED BY <1>2, <2>2 DEF Budgeted
  <1>12. Copied'
    BY <1>1, <1>2, <1>3, <1>6, <1>7 DEF Copied
  <1>13. QED BY <1>8, <1>9, <1>10, <1>11, <1>12

LEMMA ReleaseDeletedKeeps ==
    ASSUME LibraryInv, ReleaseDeleted
    PROVE  LibraryInv'
  <1> USE DEF LibraryInv
  <1>1. /\ cmd.op = "delete" /\ cmd.pc = "release" /\ cmd' = Idle
        /\ permissions' = permissions \ {cmd.old.locator}
        /\ UNCHANGED <<rows, cache, private, world>>
    BY DEF ReleaseDeleted, At, Ends, Released
  <1>2. Spare = {} /\ SpareCopies = {} /\ ~Protecting
    BY <1>1 DEF Spare, SpareCopies, Protecting, Keeping, At
  <1>3. Rows' = Rows /\ Stored' = Stored /\ books' = books /\ older' = older
    BY <1>1 DEF Rows, Stored, rows
  <1>4. Typed' /\ Ordered'
    BY <1>1, <1>3, IdleIsTyped DEF Typed, Ordered, cache, private, world
  <1>5. Sourced'
    BY <1>1, <1>3 DEF Sourced, Current, Free, world, private
  <1>6. QED BY <1>1, <1>2, <1>3, <1>4, <1>5, EndsIdle DEF Covered, Budgeted, Weight, Copied, cache, private

-----------------------------------------------------------------------------
(* relocate_book. *)

\* A command ends that changed no row and no cover, and whose copy is gone.
LEMMA EndsWithoutTrace ==
    ASSUME LibraryInv, cmd' = Idle, UNCHANGED <<rows, cache, source>>,
           permissions' \subseteq Locator, lost' \subseteq Locator, events' \in 0..MaxEvents,
           \A b \in Rows : books[b].locator \in permissions' \cup lost',
           Spare \subseteq {NoCover}, ~Protecting,
           cmd.pc \notin {"parsed", "evict", "unlink", "discard"},
           copies' \subseteq CopyId, strays' \subseteq CopyId,
           copies' \subseteq Rows \cup strays', strays' \cap Rows = {}
    PROVE  LibraryInv'
  <1> USE DEF LibraryInv
  <1>1. /\ Rows' = Rows /\ Stored' = Stored /\ books' = books /\ older' = older
        /\ Weight' = Weight /\ covers' = covers /\ orphans' = orphans /\ protected' = protected
    BY DEF Rows, Stored, Weight, rows, cache
  <1>2. Typed' /\ Ordered' /\ Sourced'
    BY <1>1, IdleIsTyped DEF Typed, Ordered, Sourced
  <1>3. /\ \A p \in Path : covers[p] > 0 => p \in Stored \cup orphans
        /\ \A p \in orphans : covers[p] > 0 /\ p \notin Stored
    BY Names DEF Covered
  <1>4. /\ \A p \in Path : protected[p] = 0
        /\ \A b \in Rows : books[b].cover # NoCover =>
               books[b].cover[1] = b /\ covers[books[b].cover] > 0
    BY DEF Covered
  <1>5. Total(Weight) <= HardLimit
    BY DEF Budgeted
  <1>6. QED BY <1>1, <1>2, <1>3, <1>4, <1>5, EndsIdle

LEMMA CopyGone ==
    ASSUME LibraryInv, NEW id \in CopyId, SpareCopies \subseteq {id}, GivesUp({}, {id}), UNCHANGED rows
    PROVE  /\ UNCHANGED <<covers, orphans>> /\ events' \in 0..MaxEvents
           /\ copies' \subseteq CopyId /\ strays' \subseteq CopyId
           /\ copies' \subseteq Rows \cup strays' /\ strays' \cap Rows = {}
  <1> DEFINE P == {}
             I == {id}
  <1>1. /\ Typed /\ strays \cap Rows = {} /\ copies \subseteq Rows \cup {id} \cup strays
        /\ \A p \in orphans : covers[p] > 0
    BY DEF LibraryInv, Copied, Covered
  <1>2. Rows' = Rows
    BY DEF rows, Rows
  <1>3. /\ P \in SUBSET Path /\ I \in SUBSET CopyId /\ GivesUp(P, I)
        /\ \A p \in orphans : p \notin P
    OBVIOUS
  <1>4. P = {} /\ I = {id}
    OBVIOUS
  <1> HIDE DEF P, I
  <1>5. /\ UNCHANGED <<covers, orphans>> /\ events' \in 0..MaxEvents
        /\ copies' \subseteq CopyId /\ strays' \subseteq CopyId
        /\ copies' \subseteq (copies \ I) \cup Rows \cup strays' /\ strays \subseteq strays' \cup I
        /\ strays' \cap Rows = {}
    BY <1>1, <1>2, <1>3, <1>4, GivingUp
  <1>6. QED BY <1>1, <1>4, <1>5

\* The copying that an import or a relocation starts with fails.
LEMMA AcquiresNothing ==
    ASSUME LibraryInv, cmd = Idle, cmd' = cmd, NEW l \in Locator, Picked(l),
           NEW id \in CopyId, NEW next, next # Idle, Acquires(id, l, next),
           UNCHANGED <<rows, cache, source>>
    PROVE  LibraryInv'
  <1> USE DEF LibraryInv
  <1>1. /\ permissions' \subseteq Locator /\ lost' \subseteq Locator
        /\ \A b \in Rows : books[b].locator \in permissions' \cup lost'
    BY DEF Picked, Typed, Sourced
  <1>2. Spare = {} /\ ~Protecting /\ cmd.pc = "idle"
    BY IdleIsTyped DEF Spare, Protecting, Keeping, At
  <1>3. /\ copies' \subseteq CopyId /\ strays' \subseteq CopyId /\ events' \in 0..MaxEvents
        /\ copies' \subseteq Rows \cup strays' /\ strays' \cap Rows = {}
    <2>1. copies \subseteq Rows \cup strays /\ strays \cap Rows = {}
      BY StartsIdle
    <2>2. CASE UNCHANGED <<private, events>>
      BY <2>1, <2>2 DEF Typed, private
    <2>3. CASE /\ Happens
               /\ copies' \in {copies, copies \ {id}, copies \cup {id}}
               /\ strays' = IF id \in copies' \ Rows THEN strays \cup {id} ELSE strays \ {id}
      <3>1. events' \in 0..MaxEvents
        BY <2>3, Names DEF Typed, Happens
      <3>2. copies' \subseteq CopyId /\ strays' \subseteq CopyId
        BY <2>3 DEF Typed
      <3>3. copies' \subseteq copies \cup {id}
        BY <2>3
      <3>4. strays' \cap Rows = {}
        BY <2>1, <2>3
      <3>5. copies' \subseteq Rows \cup strays'
        BY <2>1, <2>3, <3>3
      <3>6. QED BY <3>1, <3>2, <3>4, <3>5
    <2>4. QED BY <2>2, <2>3 DEF Acquires
  <1>4. QED BY <1>1, <1>2, <1>3, EndsWithoutTrace

\* It succeeds.
LEMMA AcquiresCopy ==
    ASSUME LibraryInv, cmd = Idle, NEW l \in Locator, NEW id \in CopyId,
           NEW next, next # Idle, Acquires(id, l, next), cmd' # cmd
    PROVE  /\ cmd' = next /\ source[l] \in Content /\ events' = events
           /\ copies' \subseteq CopyId /\ strays' \subseteq CopyId
           /\ copies' \subseteq Rows \cup {id} \cup strays' /\ strays' \cap Rows = {}
  <1>1. /\ cmd' = next /\ source[l] # NoContent /\ events' = events
        /\ copies' = copies \cup {id} /\ strays' = strays \ {id}
    BY DEF Acquires
  <1>2. source[l] \in Content /\ copies \subseteq CopyId /\ strays \subseteq CopyId
    BY <1>1 DEF LibraryInv, Typed
  <1>3. copies \subseteq Rows \cup strays /\ strays \cap Rows = {}
    BY StartsIdle
  <1>4. QED BY <1>1, <1>2, <1>3

LEMMA RelocateStartKeeps ==
    ASSUME LibraryInv, NEW b \in Book, NEW l \in Locator, RelocateStart(b, l)
    PROVE  LibraryInv'
  <1> USE DEF LibraryInv
  <1> DEFINE id == <<"relocate", b>>
             next == [Idle EXCEPT !.op = "relocate", !.pc = "acquired", !.book = b,
                                  !.locator = l, !.probe = id,
                                  !.content = source[l], !.old = books[b]]
  <1>1. /\ cmd = Idle /\ b \in Rows /\ books[b] \in Row /\ Picked(l)
        /\ Acquires(id, l, next) /\ UNCHANGED <<rows, cache, source>>
    BY DEF RelocateStart, Typed, Rows
  <1>2. next # Idle
    <2>1. next.op = "relocate"
      BY DEF Idle
    <2> HIDE DEF next
    <2>2. QED BY <2>1, IdleIsTyped
  <1>3. id \in CopyId
    BY Probes
  <1>4. /\ next.op = "relocate" /\ next.pc = "acquired" /\ next.book = b /\ next.locator = l
        /\ next.probe = id /\ next.content = source[l] /\ next.old = books[b]
        /\ next.cover = NoCover /\ next.victim = NoCover
        /\ source[l] \in Content => next \in CmdRec
    BY <1>1, <1>3 DEF Idle, CmdRec, ImportSteps
  <1>5. id = <<"relocate", b>>
    OBVIOUS
  <1> HIDE DEF next, id
  <1>6. CASE cmd' = cmd
    BY <1>1, <1>2, <1>3, <1>6, AcquiresNothing
  <1>7. CASE cmd' # cmd
    <2>1. /\ cmd' = next /\ source[l] \in Content /\ events' = events
          /\ copies' \subseteq CopyId /\ strays' \subseteq CopyId
          /\ copies' \subseteq Rows \cup {id} \cup strays' /\ strays' \cap Rows = {}
      BY <1>1, <1>2, <1>3, <1>7, AcquiresCopy
    <2>2. /\ cmd' \in CmdRec /\ cmd'.op = "relocate" /\ cmd'.pc = "acquired"
          /\ cmd'.book = b /\ cmd'.locator = l /\ cmd'.probe = id
          /\ cmd'.content \in Content /\ cmd'.old = books[b] /\ cmd'.cover = NoCover
          /\ cmd'.victim = NoCover
      BY <1>4, <2>1
    <2>3. Rows' = Rows /\ Stored' = Stored /\ books' = books /\ older' = older
      BY <1>1 DEF Rows, Stored, rows
    <2>4. /\ permissions' \subseteq Locator /\ lost' \subseteq Locator
          /\ permissions' \cup lost' = permissions \cup lost \cup {l}
      BY <1>1 DEF Picked, Typed
    <2>5. Typed'
      BY <1>1, <2>1, <2>2, <2>3, <2>4 DEF Typed, cache
    <2>6. Steps' /\ Ordered' /\ Sourced' /\ Current'
      <3>1. Steps'
        BY <1>1, <1>5, <2>2 DEF Steps
      <3>2. Ordered' /\ Sourced'
        BY <2>3, <2>4 DEF Ordered, Sourced
      <3>3. cmd'.locator \in permissions' \cup lost'
        BY <2>2, <2>4
      <3>4. books'[cmd'.book] = cmd'.old
        BY <2>2, <2>3
      <3>5. Current'
        BY <2>2, <3>3, <3>4 DEF Current, At, AfterRow, BeforeRow
      <3>6. QED BY <3>1, <3>2, <3>5
    <2>7. /\ Spare' = {} /\ SpareCopies' = {id} /\ ~Protecting' /\ ~Keeping'
          /\ OldCover' = books[b].cover
      BY <1>1, <2>2, Names DEF Spare, SpareCopies, Protecting, Keeping, At, OldCover
    <2>8. Covered'
      <3>1. OldCover' # NoCover => OldCover'[1] = b
        BY <1>1, <2>7 DEF Covered
      <3>2. protected' = [p \in Path |-> 0]
        BY <1>1, StartsIdle DEF Typed, cache
      <3>3. QED BY <1>1, <2>2, <2>3, <2>7, <3>1, <3>2, StartsIdle DEF Covered, cache
    <2>9. Budgeted' /\ Copied'
      BY <1>1, <2>1, <2>2, <2>3, <2>7, StartsIdle DEF Budgeted, Weight, Copied, cache
    <2>10. QED BY <2>5, <2>6, <2>8, <2>9
  <1>8. QED BY <1>6, <1>7

\* Where a relocation is before it writes its row.
LEMMA Relocating ==
    ASSUME LibraryInv, At("relocate", "acquired") \/ At("relocate", "reject")
    PROVE  /\ cmd.op = "relocate" /\ cmd.pc \in {"acquired", "reject"}
           /\ cmd.probe = <<"relocate", cmd.book>>
           /\ cmd.pc = "acquired" => cmd.book \in Rows /\ books[cmd.book] = cmd.old
           /\ cmd.old \in Row /\ cmd.book \in Book
           /\ cmd.locator \in Locator /\ cmd.content \in Content /\ cmd \in CmdRec
           /\ cmd.locator \in permissions \cup lost
           /\ Spare = {} /\ ~Protecting /\ ~Keeping /\ SpareCopies = {cmd.probe}
           /\ cmd.probe \in Probe /\ cmd.probe \in CopyId /\ cmd.probe \notin Book
           /\ cmd.cover = NoCover /\ cmd.victim = NoCover
  <1> USE DEF LibraryInv
  <1>1. cmd.op = "relocate" /\ cmd.pc \in {"acquired", "reject"}
    BY DEF At
  <1>2. /\ cmd.locator \in Locator /\ cmd.content \in Content
        /\ cmd.probe = <<"relocate", cmd.book>> /\ cmd.book \in Book /\ cmd.old \in Row
        /\ cmd \in CmdRec
    BY <1>1 DEF Steps, Typed
  <1>3. cmd.probe \in Probe /\ cmd.probe \in CopyId /\ cmd.probe \notin Book
    BY <1>2, Probes, Names
  <1>4. /\ cmd.pc = "acquired" => cmd.book \in Rows /\ books[cmd.book] = cmd.old
        /\ cmd.locator \in permissions \cup lost
    BY <1>1, <1>2, Names DEF Current, At, Rows
  <1>5. Spare = {} /\ ~Protecting /\ ~Keeping /\ SpareCopies = {cmd.probe}
    BY <1>1 DEF Spare, Protecting, Keeping, SpareCopies, At
  <1>6. cmd.cover = NoCover /\ cmd.victim = NoCover
    BY <1>1 DEF Covered
  <1>7. QED BY <1>1, <1>2, <1>3, <1>4, <1>5, <1>6

\* A refused or failed relocation.
LEMMA RelocationEnds ==
    ASSUME LibraryInv, Refuse \/ Reject
    PROVE  LibraryInv'
  <1> USE DEF LibraryInv
  <1>1. /\ At("relocate", "acquired") \/ At("relocate", "reject")
        /\ cmd' = Idle /\ UNCHANGED <<rows, protected, source, lost>>
        /\ GivesUp({}, {cmd.probe})
        /\ permissions' = Rejected \/ permissions' = permissions
    BY DEF Refuse, Reject, Ends
  <1>2. \A b \in Rows : books[b].locator \in permissions' \cup lost'
    <2>1. CASE permissions' = permissions
      BY <1>1, <2>1 DEF Sourced
    <2>2. CASE permissions' = Released(cmd.locator) /\ Holders(cmd.locator) = {}
      BY <1>1, <2>2 DEF Sourced, Released, Holders
    <2>3. QED BY <1>1, <2>1, <2>2 DEF Rejected
  <1>3. permissions' \subseteq Locator /\ lost' \subseteq Locator
    BY <1>1 DEF Typed, Rejected, Released
  <1>4. /\ UNCHANGED <<covers, orphans>> /\ events' \in 0..MaxEvents
        /\ copies' \subseteq CopyId /\ strays' \subseteq CopyId
        /\ copies' \subseteq Rows \cup strays' /\ strays' \cap Rows = {}
    <2> DEFINE id == cmd.probe
    <2>1. id \in CopyId /\ SpareCopies \subseteq {id} /\ GivesUp({}, {id})
      BY <1>1, Relocating
    <2> HIDE DEF id
    <2>2. QED BY <1>1, <2>1, CopyGone
  <1>5. Spare = {} /\ ~Protecting /\ cmd.pc \notin {"parsed", "evict", "unlink", "discard"}
    BY <1>1, Relocating
  <1>6. QED BY <1>1, <1>2, <1>3, <1>4, <1>5, EndsWithoutTrace DEF cache

LEMMA RelocateFailsKeeps ==
    ASSUME LibraryInv, RelocateFails
    PROVE  LibraryInv'
  <1> USE DEF LibraryInv
  <1>1. /\ At("relocate", "acquired") /\ cmd.pc = "acquired" /\ Goes("reject")
        /\ UNCHANGED <<rows, cache, private, permissions, source, lost>>
    BY DEF RelocateFails, At
  <1>2. events' \in 0..MaxEvents
    BY Names DEF RelocateFails, Happens, Typed
  <1>3. /\ cmd.op = "relocate" /\ cmd.probe = <<"relocate", cmd.book>>
        /\ cmd.old \in Row /\ cmd.book \in Book
        /\ cmd.locator \in Locator /\ cmd.content \in Content /\ cmd \in CmdRec
        /\ cmd.locator \in permissions \cup lost
        /\ Spare = {} /\ ~Protecting /\ ~Keeping /\ SpareCopies = {cmd.probe}
        /\ cmd.cover = NoCover /\ cmd.victim = NoCover
    BY <1>1, Relocating
  <1>4. /\ cmd' \in CmdRec /\ cmd'.pc = "reject" /\ cmd'.op = "relocate" /\ cmd'.book = cmd.book
        /\ cmd'.locator = cmd.locator /\ cmd'.probe = cmd.probe
        /\ cmd'.content = cmd.content /\ cmd'.old = cmd.old
        /\ cmd'.cover = NoCover /\ cmd'.victim = NoCover
    BY <1>1, <1>3, GoesOn
  <1>5. /\ Rows' = Rows /\ Stored' = Stored /\ books' = books /\ older' = older
        /\ Weight' = Weight /\ covers' = covers /\ orphans' = orphans /\ protected' = protected
        /\ copies' = copies /\ strays' = strays
    BY <1>1 DEF Rows, Stored, Weight, rows, cache, private
  <1>6. Typed'
    BY <1>1, <1>2, <1>4, <1>5 DEF Typed
  <1>7. Steps' /\ Ordered' /\ Sourced'
    BY <1>1, <1>3, <1>4, <1>5 DEF Steps, Ordered, Sourced
  <1>8. Current'
    BY <1>1, <1>3, <1>4 DEF Current, At, AfterRow, BeforeRow
  <1>9. /\ Spare' = {} /\ SpareCopies' = {cmd.probe} /\ ~Protecting' /\ ~Keeping'
        /\ OldCover' = OldCover
    BY <1>4 DEF Spare, SpareCopies, Protecting, Keeping, At, OldCover
  <1>10. Covered'
    BY <1>1, <1>3, <1>4, <1>5, <1>9 DEF Covered
  <1>11. Budgeted' /\ Copied'
    BY <1>1, <1>3, <1>4, <1>5, <1>9 DEF Budgeted, Copied
  <1>12. QED BY <1>6, <1>7, <1>8, <1>10, <1>11

\* A row is written whole.
LEMMA RowWritten ==
    ASSUME LibraryInv, NEW b \in Book, NEW row \in Row, Updates(b, row) \/ Inserts(b, row)
    PROVE  /\ books' \in [Book -> Row \cup {NoRow}] /\ books'[b] = row
           /\ Rows' = Rows \cup {b} /\ \A c \in Rows \ {b} : books'[c] = books[c]
           /\ \A c \in Rows \ {b} : books[c].locator # row.locator
           /\ Ordered'
  <1> USE DEF LibraryInv
  <1>1. /\ books' = [books EXCEPT ![b] = row] /\ Touches(b)
        /\ Holders(row.locator) \subseteq {b}
    BY DEF Updates, Inserts
  <1>2. /\ books' \in [Book -> Row \cup {NoRow}] /\ books'[b] = row
        /\ Rows' = Rows \cup {b} /\ \A c \in Rows \ {b} : books'[c] = books[c]
    BY <1>1, Names DEF Typed, Rows
  <1>3. \A c \in Rows \ {b} : books[c].locator # row.locator
    BY <1>1 DEF Holders
  <1>4. Ordered'
    BY <1>1, <1>2, TouchOrders DEF Ordered, Touches
  <1>5. QED BY <1>2, <1>3, <1>4

LEMMA RelocateKeeps ==
    ASSUME LibraryInv, Relocate
    PROVE  LibraryInv'
  <1> USE DEF LibraryInv
  <1> DEFINE b == cmd.book
             row == [cmd.old EXCEPT !.locator = cmd.locator, !.content = cmd.content,
                                    !.package = Package[cmd.content], !.status = "available"]
  <1>1. /\ At("relocate", "acquired") /\ Updates(b, row) /\ Goes("swap")
        /\ UNCHANGED <<cache, private, permissions, world>>
    BY DEF Relocate
  <1>2. /\ b \in Book /\ b \in Rows /\ books[b] = cmd.old /\ cmd.pc = "acquired"
    BY <1>1, Relocating DEF Rows, At
  <1>3. /\ row \in Row /\ row.locator = cmd.locator /\ row.cover = cmd.old.cover
        /\ row.package = Package[cmd.content] /\ row.content = cmd.content
    BY <1>1, Relocating DEF Row
  <1> HIDE DEF row
  <1>4. /\ cmd' \in CmdRec /\ cmd'.op = "relocate" /\ cmd'.pc = "swap"
        /\ cmd'.book = b /\ cmd'.old = cmd.old /\ cmd'.cover = NoCover /\ cmd'.probe = cmd.probe
        /\ cmd'.victim = NoCover /\ cmd'.locator = cmd.locator /\ cmd'.content = cmd.content
    BY <1>1, Relocating, GoesOn DEF ImportSteps
  <1>5. /\ books' \in [Book -> Row \cup {NoRow}] /\ books'[b] = row
        /\ Rows' = Rows /\ \A c \in Rows \ {b} : books'[c] = books[c]
        /\ \A c \in Rows \ {b} : books[c].locator # row.locator
        /\ Ordered'
    BY SMTT(30), <1>1, <1>2, <1>3, RowWritten
  <1>6. Typed'
    BY <1>1, <1>4, <1>5 DEF Typed, cache, private, world
  <1>7. Steps'
    BY <1>1, <1>2, <1>4, Relocating DEF Steps
  <1>8. Sourced'
    <2>1. \A c \in Rows' : books'[c].locator \in permissions' \cup lost'
      BY <1>1, <1>3, <1>5, Relocating DEF Sourced, world, private
    <2>2. \A c \in Rows' : books'[c].package \in {NoPackage, Package[books'[c].content]}
      BY <1>3, <1>5 DEF Sourced
    <2>3. \A a, c \in Rows' : books'[a].locator = books'[c].locator => a = c
      BY <1>3, <1>5 DEF Sourced
    <2>4. QED BY <2>1, <2>2, <2>3 DEF Sourced
  <1>9. Current'
    <2>1. cmd.old.locator # cmd.locator => Free(cmd.old.locator)'
      BY <1>2, <1>3, <1>4, <1>5 DEF Sourced, Free
    <2>2. books'[b] # NoRow
      BY <1>3, <1>5, Names
    <2>3. cmd'.probe \notin Book
      BY <1>1, <1>4, Relocating
    <2>4. QED BY <1>1, <1>3, <1>4, <1>5, <2>1, <2>2, <2>3, Relocating DEF Current, At, AfterRow,
                                                                       BeforeRow, world
  <1>10. /\ Stored' = Stored /\ OldCover' = cmd.old.cover /\ OldCover = cmd.old.cover
         /\ \A c \in Rows : books'[c].cover = books[c].cover
    BY <1>1, <1>2, <1>3, <1>4, <1>5, Relocating, Names DEF Stored, OldCover
  <1>11. /\ Spare' = {} /\ SpareCopies' = {cmd.probe} /\ ~Protecting' /\ ~Keeping'
    BY <1>4 DEF Spare, SpareCopies, Protecting, Keeping, At
  <1>12. Covered'
    BY <1>1, <1>4, <1>5, <1>10, <1>11, Relocating DEF Covered, cache, private
  <1>13. Budgeted' /\ Copied'
    BY <1>1, <1>4, <1>5, <1>11, Relocating DEF Budgeted, Weight, Copied, cache, private
  <1>14. QED BY <1>5, <1>6, <1>7, <1>8, <1>9, <1>12, <1>13

-----------------------------------------------------------------------------
(* What imports and relocations have in common. *)

\* Where a command is after it wrote its row.
LEMMA Written ==
    ASSUME LibraryInv, cmd.pc \in {"swap", "release"}, cmd.op # "delete"
    PROVE  /\ cmd.op \in {"import", "relocate"} /\ cmd \in CmdRec
           /\ cmd.book \in Rows /\ books[cmd.book].locator = cmd.locator
           /\ cmd.locator \in Locator /\ cmd.probe \in CopyId
           /\ cmd.probe \in Book => cmd.probe = cmd.book
           /\ cmd.locator \in permissions \cup lost
           /\ cmd.old \in Row \cup {NoRow}
           /\ cmd.old # NoRow /\ cmd.old.locator # cmd.locator => Free(cmd.old.locator)
           /\ cmd.victim = NoCover /\ Total(Weight) <= HardLimit
           /\ cmd.op = "import" => Keeping
           /\ cmd.op = "relocate" => ~Keeping /\ ~Protecting /\ Spare = {}
  <1>1. cmd.op \in {"none", "import", "relocate", "delete"} /\ cmd.op # "none"
    BY IdleIsTyped DEF LibraryInv, Typed, Steps, CmdRec
  <1>2. cmd.book \in Rows /\ cmd.probe \in CopyId
    BY <1>1, Probes DEF LibraryInv, Steps, Current, Rows, AfterRow
  <1>3. QED BY <1>1, <1>2 DEF LibraryInv, Typed, Steps, Current, Covered, Budgeted, Keeping, Protecting,
                              AfterRow, CmdRec, Spare, At

LEMMA SwapCopyKeeps ==
    ASSUME LibraryInv, SwapCopy
    PROVE  LibraryInv'
  <1> USE DEF LibraryInv
  <1>1. /\ cmd.pc = "swap" /\ Goes("release") /\ UNCHANGED <<rows, cache, permissions, source, lost>>
        /\ cmd.op # "delete"
    BY DEF SwapCopy, Steps
  <1>2. /\ cmd.op \in {"import", "relocate"} /\ cmd \in CmdRec /\ cmd.book \in Rows
        /\ cmd.probe \in CopyId /\ cmd.book \in Book /\ cmd.book \in CopyId
        /\ cmd.probe \in Book => cmd.probe = cmd.book
    BY <1>1, Written, Probes
  <1>3. /\ cmd' \in CmdRec /\ cmd'.pc = "release" /\ cmd'.op = cmd.op /\ cmd'.book = cmd.book
        /\ cmd'.locator = cmd.locator /\ cmd'.probe = cmd.probe
        /\ cmd'.content = cmd.content /\ cmd'.parsed = cmd.parsed /\ cmd'.old = cmd.old
        /\ cmd'.cover = cmd.cover /\ cmd'.victim = cmd.victim
    BY <1>1, <1>2, GoesOn DEF ImportSteps
  <1>4. Rows' = Rows /\ Stored' = Stored /\ books' = books /\ older' = older
    BY <1>1 DEF Rows, Stored, rows
  <1>5. /\ copies' \subseteq CopyId /\ strays' \subseteq CopyId /\ events' \in 0..MaxEvents
        /\ copies' \subseteq Rows \cup strays' /\ strays' \cap Rows = {}
    <2>1. /\ copies \subseteq Rows \cup {cmd.probe} \cup strays /\ strays \cap Rows = {}
          /\ copies \subseteq CopyId /\ strays \subseteq CopyId
      BY <1>1, <1>2 DEF Copied, SpareCopies, Typed
    <2>2. CASE cmd.probe = cmd.book /\ UNCHANGED <<private, events>>
      BY <1>2, <2>1, <2>2 DEF Typed, private
    <2>3. ASSUME cmd.probe # cmd.book,
                 NEW made \in SUBSET {cmd.book}, NEW left \in SUBSET ({cmd.probe} \cap copies),
                 copies' = (copies \ {cmd.book, cmd.probe}) \cup made \cup left,
                 strays' = strays \cup left,
                 UNCHANGED events \/ Happens
          PROVE  /\ copies' \subseteq CopyId /\ strays' \subseteq CopyId /\ events' \in 0..MaxEvents
                 /\ copies' \subseteq Rows \cup strays' /\ strays' \cap Rows = {}
      <3>1. events' \in 0..MaxEvents
        BY <2>3, Names DEF Happens, Typed
      <3>2. cmd.probe \notin Rows
        BY <1>2, <2>3 DEF Rows
      <3>3. QED BY <1>2, <2>1, <2>3, <3>1, <3>2
    <2>4. QED BY <2>2, <2>3 DEF SwapCopy
  <1>6. Typed'
    BY <1>1, <1>3, <1>4, <1>5 DEF Typed, cache, private, world
  <1>7. Steps'
    BY <1>1, <1>2, <1>3 DEF Steps, ImportSteps
  <1>8. Ordered' /\ Sourced'
    BY <1>1, <1>4 DEF Ordered, Sourced
  <1>9. Current'
    BY <1>1, <1>2, <1>3, <1>4 DEF Current, At, AfterRow, BeforeRow, Free, world, private
  <1>10. /\ OldCover' = OldCover /\ Pair' = Pair /\ Spare' = Spare /\ SpareCopies' = {}
         /\ Protecting' <=> Protecting
         /\ Keeping' <=> Keeping
    BY <1>1, <1>2, <1>3 DEF OldCover, Pair, Spare, SpareCopies, Protecting, Keeping, At
  <1>11. Covered'
    BY <1>1, <1>3, <1>4, <1>10, Written DEF Covered, cache, private, BeforeRow
  <1>12. Budgeted' /\ Copied'
    BY <1>1, <1>3, <1>4, <1>5, <1>10, Written DEF Budgeted, Weight, Copied, cache, private
  <1>13. QED BY <1>6, <1>7, <1>8, <1>9, <1>11, <1>12

LEMMA ReleaseOldKeeps ==
    ASSUME LibraryInv, ReleaseOld
    PROVE  LibraryInv'
  <1> USE DEF LibraryInv
  <1>1. /\ cmd.pc = "release" /\ cmd.op # "delete" /\ UNCHANGED <<rows, cache, private, world>>
        /\ cmd.pc \in {"swap", "release"}
    BY DEF ReleaseOld
  <1>2. /\ cmd.op \in {"import", "relocate"} /\ cmd \in CmdRec /\ cmd.book \in Rows
    BY <1>1, Written
  <1>3. Rows' = Rows /\ Stored' = Stored /\ books' = books /\ older' = older
    BY <1>1 DEF Rows, Stored, rows
  <1>4. /\ permissions' \subseteq Locator /\ \A b \in Rows : books[b].locator \in permissions' \cup lost
        /\ cmd.locator \in permissions' \cup lost
    <2>1. CASE permissions' = permissions
      BY <1>1, <2>1, Written DEF Typed, Sourced
    <2>2. CASE /\ permissions' = permissions \ {cmd.old.locator}
               /\ cmd.old # NoRow /\ cmd.old.locator # cmd.locator
      <3>1. Free(cmd.old.locator) /\ cmd.locator \in permissions \cup lost
        BY <1>1, <2>2, Written
      <3>2. QED BY <2>2, <3>1 DEF Typed, Sourced, Free
    <2>3. QED BY <2>1, <2>2 DEF ReleaseOld, Released
  <1>5. SpareCopies = {}
    BY <1>1, <1>2 DEF SpareCopies, At
  <1>6. CASE cmd.op = "relocate"
    <2>1. cmd' = Idle
      BY <1>6 DEF ReleaseOld, Ends
    <2>2. Spare = {} /\ ~Protecting
      BY <1>1, <1>6, Written
    <2>3. /\ copies' = copies /\ strays' = strays /\ events' = events /\ lost' = lost
          /\ source' = source
      BY <1>1 DEF private, world
    <2>4. QED BY <1>1, <1>4, <1>5, <2>1, <2>2, <2>3, EndsWithoutTrace DEF Typed, Copied
  <1>7. CASE cmd.op = "import"
    <2>1. Goes("replace")
      BY <1>7 DEF ReleaseOld
    <2>2. /\ cmd' \in CmdRec /\ cmd'.pc = "replace" /\ cmd'.op = cmd.op /\ cmd'.book = cmd.book
          /\ cmd'.locator = cmd.locator /\ cmd'.probe = cmd.probe
          /\ cmd'.content = cmd.content /\ cmd'.parsed = cmd.parsed /\ cmd'.old = cmd.old
          /\ cmd'.cover = cmd.cover /\ cmd'.victim = cmd.victim
      BY <1>2, <2>1, GoesOn DEF ImportSteps
    <2>3. Typed'
      BY <1>1, <1>3, <1>4, <2>2 DEF Typed, cache, private, world
    <2>4. Steps'
      BY <1>1, <1>7, <2>2 DEF Steps, ImportSteps
    <2>5. Ordered' /\ Sourced'
      BY <1>1, <1>3, <1>4 DEF Ordered, Sourced, world, private
    <2>6. Current'
      BY <1>1, <1>4, <1>7, <2>2 DEF Current, At, AfterRow, BeforeRow, world, private
    <2>7. /\ OldCover' = OldCover /\ Pair' = Pair /\ Spare' = Spare /\ SpareCopies' = {}
          /\ Protecting' <=> Protecting
          /\ Keeping' <=> Keeping
      BY <1>1, <1>7, <2>2 DEF OldCover, Pair, Spare, SpareCopies, Protecting, Keeping, At
    <2>8. Covered'
      BY <1>1, <1>3, <1>7, <2>2, <2>7, Written DEF Covered, cache, private, BeforeRow
    <2>9. Budgeted' /\ Copied'
      BY <1>1, <1>3, <1>5, <2>2, <2>7, Written DEF Budgeted, Weight, Copied, cache, private
    <2>10. QED BY <2>3, <2>4, <2>5, <2>6, <2>8, <2>9
  <1>8. QED BY <1>2, <1>6, <1>7

-----------------------------------------------------------------------------
(* The program dies and is started again. *)

\* The covers of some books, by path and by book.
LEMMA CoversByBook ==
    ASSUME NEW S \in SUBSET Book, NEW cover \in [S -> Path], \A b \in S : cover[b][1] = b,
           NEW f \in [Path -> Nat], \A p \in Path : f[p] > 0 => \E b \in S : p = cover[b],
           NEW g \in [S -> Nat], \A b \in S : f[cover[b]] <= g[b]
    PROVE  Total(f) <= Total(g)
  <1> DEFINE at == [u \in Units(f) |-> <<u[1][1], u[2]>>]
  <1>1. IsFiniteSet(S)
    BY LibraryAssumption, FS_Subset
  <1>2. IsFiniteSet(Units(g))
    BY <1>1, TotalNatural
  <1>3. ASSUME NEW u \in Units(f)
        PROVE  \E b \in S, i \in Nat : u = <<cover[b], i>> /\ 1 <= i /\ i <= f[cover[b]]
    <2>1. PICK p \in Path, i \in Nat : u = <<p, i>> /\ 1 <= i /\ i <= f[p]
      BY <1>3, UnitsArePairs
    <2>2. f[p] > 0
      BY <2>1
    <2>3. QED BY <2>1, <2>2
  <1>4. ASSUME NEW u \in Units(f) PROVE at[u] \in Units(g)
    <2>1. PICK b \in S, i \in Nat : u = <<cover[b], i>> /\ 1 <= i /\ i <= f[cover[b]]
      BY <1>3
    <2>2. at[u] = <<b, i>>
      BY <2>1
    <2>3. b \in S /\ i <= g[b]
      BY <2>1
    <2> HIDE DEF at
    <2>4. QED BY <2>1, <2>2, <2>3, UnitsArePairs
  <1>5. ASSUME NEW u \in Units(f), NEW v \in Units(f), at[u] = at[v] PROVE u = v
    <2>1. PICK b \in S, i \in Nat : u = <<cover[b], i>>
      BY <1>3
    <2>2. PICK c \in S, j \in Nat : v = <<cover[c], j>>
      BY <1>3
    <2>3. at[u] = <<b, i>> /\ at[v] = <<c, j>>
      BY <2>1, <2>2
    <2>4. QED BY <1>5, <2>1, <2>2, <2>3
  <1>6. at \in Injection(Units(f), Units(g))
    <2>1. at \in [Units(f) -> Units(g)]
      BY <1>4
    <2> HIDE DEF at
    <2>2. QED BY <1>5, <2>1 DEF Injection, IsInjective
  <1>7. QED BY <1>2, <1>6, FS_Injection DEF Total

LEMMA RestartKeeps ==
    ASSUME LibraryInv, Restart
    PROVE  LibraryInv'
  <1> USE DEF LibraryInv
  <1> DEFINE size == [b \in Reconciled |-> covers[books[b].cover]]
             kept == Newest(older, Reconciled, size, SoftLimit)
  <1>1. /\ cmd' = Idle /\ protected' = [p \in Path |-> 0]
        /\ UNCHANGED events \/ Happens
        /\ books' = [b \in Book |-> IF b \in Rows \ kept THEN [books[b] EXCEPT !.cover = NoCover]
                                    ELSE books[b]]
        /\ covers' = [p \in Path |-> IF \E b \in kept : books[b].cover = p THEN covers[p] ELSE 0]
        /\ orphans' = {} /\ copies' = copies \cap Rows /\ strays' = {}
        /\ UNCHANGED <<older, permissions, source, lost>>
    BY DEF Restart
  <1>2. \A b \in Reconciled : /\ b \in Rows /\ b \in Book /\ books[b].cover \in Path
                              /\ covers[books[b].cover] > 0 /\ books[b].cover[1] = b
    BY DEF Reconciled, Rows, Typed, Row, Covered
  <1>3. /\ kept \subseteq Reconciled /\ kept \in SUBSET Book
        /\ Total([b \in kept |-> size[b]]) <= SoftLimit
        /\ size \in [Reconciled -> Nat] /\ \A b \in Reconciled : size[b] = covers[books[b].cover]
    <2>1. Reconciled \in SUBSET Rows /\ IsFiniteSet(Reconciled)
      <3>1. IsFiniteSet(Book) /\ Reconciled \subseteq Book
        BY <1>2, LibraryAssumption
      <3>2. QED BY <1>2, <3>1, FS_Subset
    <2>2. /\ size \in [Reconciled -> Nat]
          /\ \A b \in Reconciled : size[b] = covers[books[b].cover]
      BY <1>2 DEF Typed
    <2> HIDE DEF size
    <2>3. kept \subseteq Reconciled /\ Total([b \in kept |-> size[b]]) <= SoftLimit
      BY <2>1, <2>2, NewestFit, Names DEF Ordered
    <2>4. QED BY <1>2, <2>2, <2>3
  <1> HIDE DEF kept, size
  <1>4. Rows' = Rows /\ \A b \in Rows : /\ books'[b] \in Row
                                        /\ books'[b].locator = books[b].locator
                                        /\ books'[b].content = books[b].content
                                        /\ books'[b].package = books[b].package
                                        /\ books'[b].cover = IF b \in kept THEN books[b].cover
                                                             ELSE NoCover
    <2>1. ASSUME NEW b \in Rows \ kept
          PROVE  LET row == [books[b] EXCEPT !.cover = NoCover]
                 IN  /\ row \in Row /\ row.locator = books[b].locator
                     /\ row.content = books[b].content /\ row.package = books[b].package
                     /\ row.cover = NoCover
      BY DEF Rows, Typed, Row
    <2>2. \A b \in Rows : b \in Book /\ books[b] \in Row
      BY DEF Rows, Typed
    <2>3. \A b \in Book : b \notin Rows => books'[b] = NoRow
      BY <1>1 DEF Rows
    <2>4. Rows' = Rows
      BY <1>1, <2>1, <2>2, <2>3, Names DEF Rows
    <2>5. QED BY <1>1, <2>1, <2>2, <2>4
  <1>5. Typed'
    <2>1. books' \in [Book -> Row \cup {NoRow}]
      BY <1>1, <1>4 DEF Rows
    <2>2. covers' \in [Path -> Nat] /\ protected' \in [Path -> Nat]
      BY <1>1 DEF Typed
    <2>3. orphans' \subseteq Path /\ copies' \subseteq CopyId /\ strays' \subseteq CopyId
      BY <1>1 DEF Typed
    <2>4. events' \in 0..MaxEvents
      BY <1>1, Names DEF Typed, Happens
    <2>5. QED BY <1>1, <2>1, <2>2, <2>3, <2>4, IdleIsTyped DEF Typed
  <1>6. Ordered' /\ Sourced'
    <2>1. Ordered'
      BY <1>1, <1>4 DEF Ordered
    <2>2. \A b \in Rows' : books'[b].locator \in permissions' \cup lost'
      BY <1>1, <1>4 DEF Sourced
    <2>3. \A b \in Rows' : books'[b].package \in {NoPackage, Package[books'[b].content]}
      BY <1>4 DEF Sourced
    <2>4. \A a, b \in Rows' : books'[a].locator = books'[b].locator => a = b
      BY <1>4 DEF Sourced
    <2>5. QED BY <2>1, <2>2, <2>3, <2>4 DEF Sourced
  <1>7. \A b \in Rows' : books'[b].cover # NoCover =>
            books'[b].cover[1] = b /\ covers'[books'[b].cover] > 0
    <2>1. \A b \in kept : covers'[books[b].cover] = covers[books[b].cover]
      BY <1>1, <1>2, <1>3
    <2>2. ASSUME NEW b \in Rows', books'[b].cover # NoCover
          PROVE  b \in kept /\ books'[b].cover = books[b].cover
      BY <1>4, <2>2
    <2>3. QED BY <1>2, <1>3, <2>1, <2>2
  <1>8. ASSUME NEW p \in Path, covers'[p] > 0 PROVE p \in Stored'
    <2>1. PICK b \in kept : books[b].cover = p
      BY <1>1, <1>8
    <2>2. QED BY <1>2, <1>3, <1>4, <2>1, Names DEF Stored
  <1>9. Total(Weight') <= HardLimit
    <2> DEFINE cover == [b \in kept |-> books[b].cover]
               g == [b \in kept |-> size[b]]
    <2>1. covers' \in [Path -> Nat]
      BY <1>5 DEF Typed
    <2>2. /\ g \in [kept -> Nat] /\ \A b \in kept : g[b] = covers[books[b].cover]
          /\ Total(g) <= SoftLimit
      BY <1>3
    <2>3. /\ cover \in [kept -> Path]
          /\ \A b \in kept : cover[b] = books[b].cover /\ cover[b][1] = b
      BY <1>2, <1>3
    <2> HIDE DEF cover, g
    <2>4. \A p \in Path : covers'[p] > 0 => \E b \in kept : p = cover[b]
      BY <1>1, <2>3
    <2>5. \A b \in kept : covers'[cover[b]] <= g[b]
      BY <1>1, <1>2, <1>3, <2>2, <2>3 DEF Typed
    <2>6. Total(covers') <= Total(g)
      <3>1. \A b \in kept : cover[b][1] = b
        BY <2>3
      <3> HIDE DEF LibraryInv
      <3>2. QED BY <1>3, <2>1, <2>2, <2>3, <2>4, <2>5, <3>1, CoversByBook
    <2>7. IsFiniteSet(kept)
      BY <1>3, LibraryAssumption, FS_Subset
    <2>8. Total(g) \in Nat /\ Total(covers') \in Nat
      BY <2>1, <2>2, <2>7, PathsFinite, TotalNatural
    <2>9. Weight' = covers'
      BY <1>1, <2>1 DEF Weight
    <2>10. QED BY <2>2, <2>6, <2>8, <2>9, Names
  <1>10. /\ copies' \subseteq Rows' \cup strays' /\ strays' \cap Rows' = {} /\ orphans' = {}
    BY <1>1, <1>4
  <1>11. \A p \in Path : protected'[p] = 0
    BY <1>1
  <1>12. QED BY <1>1, <1>5, <1>6, <1>7, <1>8, <1>9, <1>10, <1>11, EndsIdle

-----------------------------------------------------------------------------
(* import_book: from the picked file to its cover. *)

\* The copying of import_book.
LEMMA ImportStartKeeps ==
    ASSUME LibraryInv, NEW l \in Locator, ImportStart(l)
    PROVE  LibraryInv'
  <1> USE DEF LibraryInv
  <1>1. PICK id \in ProbeOf(l) :
            Acquires(id, l, [Idle EXCEPT !.op = "import", !.pc = "acquired", !.locator = l,
                                         !.probe = id, !.content = source[l]])
    BY DEF ImportStart
  <1> DEFINE next == [Idle EXCEPT !.op = "import", !.pc = "acquired", !.locator = l,
                                  !.probe = id, !.content = source[l]]
  <1>2. /\ cmd = Idle /\ Picked(l) /\ Acquires(id, l, next) /\ UNCHANGED <<rows, cache, source>>
    BY <1>1 DEF ImportStart
  <1>3. /\ id \in CopyId /\ id \in Book \cup ImportProbe
        /\ id \in ImportProbe => Free(l)
        /\ id \notin ImportProbe => id \in Rows /\ books[id].locator = l
    <2>1. CASE Holders(l) # {}
      BY <2>1, Probes DEF ProbeOf, Holders
    <2>2. CASE Holders(l) = {}
      BY <2>2, Probes DEF ProbeOf, Holders, Free
    <2>3. QED BY <2>1, <2>2
  <1>4. next # Idle
    <2>1. next.op = "import"
      BY DEF Idle
    <2> HIDE DEF next
    <2>2. QED BY <2>1, IdleIsTyped
  <1>5. /\ next.op = "import" /\ next.pc = "acquired" /\ next.locator = l
        /\ next.probe = id /\ next.content = source[l] /\ next.old = NoRow
        /\ next.cover = NoCover /\ next.victim = NoCover
        /\ source[l] \in Content => next \in CmdRec
    BY <1>3 DEF Idle, CmdRec, ImportSteps
  <1> HIDE DEF next
  <1>6. CASE cmd' = cmd
    BY <1>2, <1>3, <1>4, <1>6, AcquiresNothing
  <1>7. CASE cmd' # cmd
    <2>1. /\ cmd' = next /\ source[l] \in Content /\ events' = events
          /\ copies' \subseteq CopyId /\ strays' \subseteq CopyId
          /\ copies' \subseteq Rows \cup {id} \cup strays' /\ strays' \cap Rows = {}
      BY <1>2, <1>3, <1>4, <1>7, AcquiresCopy
    <2>2. /\ cmd' \in CmdRec /\ cmd'.op = "import" /\ cmd'.pc = "acquired"
          /\ cmd'.locator = l /\ cmd'.probe = id
          /\ cmd'.content \in Content /\ cmd'.old = NoRow /\ cmd'.cover = NoCover
          /\ cmd'.victim = NoCover
      BY <1>5, <2>1
    <2>3. Rows' = Rows /\ Stored' = Stored /\ books' = books /\ older' = older
      BY <1>2 DEF Rows, Stored, rows
    <2>4. /\ permissions' \subseteq Locator /\ lost' \subseteq Locator
          /\ permissions' \cup lost' = permissions \cup lost \cup {l}
      BY <1>2 DEF Picked, Typed
    <2>5. Typed'
      BY <1>2, <2>1, <2>2, <2>3, <2>4 DEF Typed, cache
    <2>6. Steps'
      BY <1>3, <2>2 DEF Steps, ImportSteps
    <2>7. Ordered' /\ Sourced'
      BY <2>3, <2>4 DEF Ordered, Sourced
    <2>8. Current'
      <3>1. cmd'.locator \in permissions' \cup lost'
        BY <2>2, <2>4
      <3>2. /\ cmd'.probe \in ImportProbe => Free(cmd.locator)'
            /\ cmd'.probe \notin ImportProbe =>
                  cmd'.probe \in Rows' /\ books'[cmd'.probe].locator = cmd'.locator
        BY <1>3, <2>2, <2>3 DEF Free
      <3>3. QED BY <2>2, <3>1, <3>2 DEF Current, At, AfterRow, BeforeRow
    <2>9. /\ Spare' = {} /\ SpareCopies' = {id} /\ ~Protecting' /\ ~Keeping'
          /\ OldCover' = NoCover
      BY <2>2 DEF Spare, SpareCopies, Protecting, Keeping, At, OldCover
    <2>10. Covered'
      <3>1. protected' = [p \in Path |-> 0]
        BY <1>2, StartsIdle DEF Typed, cache
      <3>2. QED BY <1>2, <2>2, <2>3, <2>9, <3>1, StartsIdle DEF Covered, cache, BeforeRow
    <2>11. Budgeted' /\ Copied'
      BY <1>2, <2>1, <2>2, <2>3, <2>9, StartsIdle DEF Budgeted, Weight, Copied, cache, BeforeRow
    <2>12. QED BY <2>5, <2>6, <2>7, <2>8, <2>10, <2>11
  <1>8. QED BY <1>6, <1>7

\* What matches a book is a copy of its work: relocation_matches.
LEMMA MatchesAreCopies ==
    ASSUME NEW row \in Row, row.package \in {NoPackage, Package[row.content]},
           NEW c \in Content, RelocationMatches(row, c)
    PROVE  Work[row.content] = Work[c]
  <1>1. row.content \in Content
    BY DEF Row
  <1>2. \/ Stamp[row.content] = Stamp[c] /\ Stamp[row.content] > 0
        \/ Package[row.content] = Package[c] /\ Package[row.content] # NoPackage
    BY DEF RelocationMatches
  <1>3. QED BY <1>1, <1>2, LibraryAssumption

\* Where an import is before it writes its row.
LEMMA Importing ==
    ASSUME LibraryInv, cmd.op = "import", cmd.pc \in {"acquired"} \cup BeforeRow
    PROVE  /\ cmd \in CmdRec /\ cmd.locator \in Locator /\ cmd.content \in Content
           /\ cmd.probe \in Book \cup ImportProbe /\ cmd.probe \in CopyId
           /\ SpareCopies = {cmd.probe} /\ ~Keeping
           /\ cmd.locator \in permissions \cup lost
           /\ cmd.pc \in BeforeRow => cmd.book \in Book /\ books[cmd.book] = cmd.old
           /\ cmd.cover \in Path \cup {NoCover} /\ OldCover \in Path \cup {NoCover}
           /\ cmd.pc # "unlink" => cmd.victim = NoCover
           /\ \A p \in Path : covers[p] > 0 => p \in Stored \cup Spare \cup orphans
           /\ cmd.pc \in {"acquired", "identified"} => Spare = {} /\ cmd.cover = NoCover
           /\ Stored \subseteq Path
  <1> USE DEF LibraryInv
  <1>1. /\ cmd \in CmdRec /\ cmd.locator \in Locator /\ cmd.content \in Content
        /\ cmd.probe \in Book \cup ImportProbe /\ cmd.probe \in CopyId
        /\ cmd.pc # "acquired" => cmd.book \in Book
    BY Probes DEF Typed, Steps
  <1>2. SpareCopies = {cmd.probe} /\ ~Keeping
    BY DEF SpareCopies, Keeping, BeforeRow, At
  <1>3. /\ cmd.locator \in permissions \cup lost
        /\ cmd.pc \in BeforeRow => cmd.book \in Book /\ books[cmd.book] = cmd.old
    BY <1>1 DEF Current, BeforeRow
  <1>4. cmd.cover \in Path \cup {NoCover} /\ OldCover \in Path \cup {NoCover}
    BY <1>1 DEF CmdRec, OldCover, Row
  <1>5. /\ cmd.pc # "unlink" => cmd.victim = NoCover
        /\ \A p \in Path : covers[p] > 0 => p \in Stored \cup Spare \cup orphans
    BY DEF Covered
  <1>6. cmd.pc \in {"acquired", "identified"} => Spare = {} /\ cmd.cover = NoCover
    BY DEF Covered, Current, At, Spare, Keeping
  <1>7. Stored \subseteq Path
    BY DEF Stored, Rows, Typed, Row
  <1>8. QED BY <1>1, <1>2, <1>3, <1>4, <1>5, <1>6, <1>7

LEMMA IdentifyKeeps ==
    ASSUME LibraryInv, Identify
    PROVE  LibraryInv'
  <1> USE DEF LibraryInv
  <1> DEFINE found == IF cmd.probe \in Book THEN {cmd.probe}
                      ELSE IF cmd.content \in Parses THEN Recoverable(cmd.content) ELSE {}
  <1>1. /\ cmd.op = "import" /\ cmd.pc = "acquired" /\ At("import", "acquired")
        /\ UNCHANGED <<rows, protected, source, lost>>
    BY DEF Identify, At
  <1>2. /\ cmd \in CmdRec /\ cmd.content \in Content /\ cmd.probe \in Book \cup ImportProbe
        /\ cmd.locator \in Locator
        /\ cmd.probe \in CopyId /\ SpareCopies = {cmd.probe} /\ Spare = {} /\ cmd.cover = NoCover
        /\ cmd.victim = NoCover /\ cmd.locator \in permissions \cup lost
        /\ ~Keeping /\ ~Protecting
    BY <1>1, Importing DEF Protecting
  <1>3. Rows' = Rows /\ Stored' = Stored /\ books' = books /\ older' = older
    BY <1>1 DEF Rows, Stored, rows
  <1>4. CASE /\ Cardinality(found) > 1 /\ GivesUp({}, {cmd.probe})
             /\ permissions' = Released(cmd.locator) /\ Ends
    <2>1. cmd.probe \in ImportProbe
      <3>1. cmd.probe \in Book => Cardinality(found) = 1
        BY FS_Singleton
      <3>2. QED BY <1>2, <1>4, <3>1
    <2>2. Free(cmd.locator)
      BY <1>1, <2>1 DEF Current
    <2>3. \A b \in Rows : books[b].locator \in permissions' \cup lost'
      BY <1>1, <1>4, <2>2 DEF Sourced, Free, Released
    <2> DEFINE id == cmd.probe
    <2>4. id \in CopyId /\ SpareCopies \subseteq {id} /\ GivesUp({}, {id})
      BY <1>2, <1>4
    <2> HIDE DEF id
    <2>5. /\ UNCHANGED <<covers, orphans>> /\ events' \in 0..MaxEvents
          /\ copies' \subseteq CopyId /\ strays' \subseteq CopyId
          /\ copies' \subseteq Rows \cup strays' /\ strays' \cap Rows = {}
      BY <1>1, <2>4, CopyGone
    <2>6. permissions' \subseteq Locator /\ lost' \subseteq Locator /\ cmd' = Idle
      BY <1>1, <1>4 DEF Typed, Released, Ends
    <2>7. QED BY <1>1, <1>2, <2>3, <2>5, <2>6, EndsWithoutTrace DEF cache
  <1>5. ASSUME NEW b \in IF found = {} THEN Unused ELSE found,
               cmd' = [cmd EXCEPT !.pc = "identified", !.book = b, !.old = books[b]],
               UNCHANGED <<covers, orphans, private, permissions, events>>
        PROVE  LibraryInv'
    <2>1. /\ b \in Book
          /\ b \in Rows => \/ b = cmd.probe
                           \/ RelocationMatches(books[b], cmd.content)
          /\ cmd.probe \in Book => b = cmd.probe /\ books[b] # NoRow
          /\ b \notin strays
      <3>1. CASE cmd.probe \in Book
        <4>1. b = cmd.probe
          BY <1>5, <3>1
        <4>2. b \in Rows
          BY <1>1, <3>1, <4>1, Probes DEF Current
        <4>3. QED BY <3>1, <4>1, <4>2 DEF Copied, Rows
      <3>2. CASE cmd.probe \notin Book
        BY <1>5, <3>2 DEF Recoverable, Rows, Copied, Unused
      <3>3. QED BY <3>1, <3>2
    <2>2. /\ cmd' \in CmdRec /\ cmd'.op = "import" /\ cmd'.pc = "identified"
          /\ cmd'.book = b /\ cmd'.locator = cmd.locator /\ cmd'.probe = cmd.probe
          /\ cmd'.content = cmd.content /\ cmd'.old = books[b] /\ cmd'.cover = NoCover
          /\ cmd'.victim = NoCover
      BY <1>1, <1>2, <1>5, <2>1 DEF CmdRec, ImportSteps, Typed
    <2>3. Typed'
      BY <1>1, <1>3, <1>5, <2>2 DEF Typed, cache, private
    <2>4. Steps'
      BY <1>1, <1>2, <2>1, <2>2 DEF Steps, ImportSteps
    <2>5. Ordered' /\ Sourced'
      BY <1>1, <1>3, <1>5 DEF Ordered, Sourced
    <2>6. Current'
      <3>1. books[b] # NoRow => \/ books[b].locator = cmd.locator
                                \/ Work[books[b].content] = Work[cmd.content]
        <4>1. CASE b = cmd.probe
          BY <1>1, <2>1, <4>1, Probes DEF Current
        <4>2. CASE b \in Rows /\ RelocationMatches(books[b], cmd.content)
          <5>1. books[b] \in Row /\ books[b].package \in {NoPackage, Package[books[b].content]}
            BY <4>2 DEF Typed, Sourced, Rows
          <5>2. QED BY <1>2, <4>2, <5>1, MatchesAreCopies
        <4>3. QED BY <2>1, <4>1, <4>2 DEF Rows
      <3>2. QED BY <1>1, <1>2, <1>3, <1>5, <2>1, <2>2, <3>1 DEF Current, At, AfterRow
    <2>7. /\ OldCover' = IF books[b] = NoRow THEN NoCover ELSE books[b].cover
          /\ Spare' = {} /\ SpareCopies' = {cmd.probe} /\ ~Protecting' /\ ~Keeping'
      BY <2>2 DEF OldCover, Spare, SpareCopies, Protecting, Keeping, At
    <2>8. Covered'
      <3>1. OldCover' # NoCover => OldCover'[1] = b
        BY <2>1, <2>7 DEF Covered, Rows
      <3>2. QED BY <1>1, <1>2, <1>3, <1>5, <2>2, <2>7, <3>1 DEF Covered
    <2>9. Budgeted' /\ Copied'
      BY <1>1, <1>2, <1>3, <1>5, <2>1, <2>2, <2>7 DEF Budgeted, Weight, Copied, private
    <2>10. QED BY <2>3, <2>4, <2>5, <2>6, <2>8, <2>9
  <1>6. QED BY <1>4, <1>5 DEF Identify

\* An import or a relocation returns and leaves its copy.
LEMMA BreakOffKeeps ==
    ASSUME LibraryInv, BreakOff
    PROVE  LibraryInv'
  <1> USE DEF LibraryInv
  <1>1. /\ cmd' = Idle /\ copies' = copies /\ strays' = strays \cup ({cmd.probe} \ Book)
        /\ UNCHANGED <<rows, cache, copies, permissions, source, lost>>
        /\ events' \in 0..MaxEvents
    BY Names DEF BreakOff, Ends, Happens, Typed
  <1>2. /\ cmd.probe \in CopyId /\ SpareCopies = {cmd.probe} /\ Spare \subseteq {NoCover} /\ ~Protecting
        /\ cmd.pc \notin {"parsed", "evict", "unlink", "discard"}
        /\ cmd.probe \in Book => cmd.probe \in Rows
    <2>1. CASE At("import", "acquired")
      <3>1. cmd.op = "import" /\ cmd.pc = "acquired"
        BY <2>1 DEF At
      <3>2. /\ cmd.probe \in CopyId /\ SpareCopies = {cmd.probe} /\ Spare = {}
            /\ cmd.probe \in Book \cup ImportProbe
        BY <3>1, Importing
      <3>3. cmd.probe \in Book => cmd.probe \in Rows
        BY <2>1, Probes DEF Current
      <3>4. ~Protecting
        BY <3>1 DEF Protecting
      <3>5. QED BY <3>1, <3>2, <3>3, <3>4
    <2>2. CASE At("import", "identified")
      <3>1. cmd.op = "import" /\ cmd.pc = "identified" /\ cmd.pc \in BeforeRow
        BY <2>2 DEF At, BeforeRow
      <3>2. cmd.probe \in CopyId /\ SpareCopies = {cmd.probe} /\ Spare = {}
        BY <3>1, Importing
      <3>3. cmd.probe \in Book => cmd.probe \in Rows
        BY <3>1 DEF Current, Rows
      <3>4. ~Protecting
        BY <3>1 DEF Protecting
      <3>5. QED BY <3>1, <3>2, <3>3, <3>4
    <2>3. CASE At("relocate", "acquired")
      BY <2>3, Relocating
    <2>4. QED BY <2>1, <2>2, <2>3 DEF BreakOff
  <1>3. /\ copies' \subseteq CopyId /\ strays' \subseteq CopyId
        /\ copies' \subseteq Rows \cup strays' /\ strays' \cap Rows = {}
    <2>1. /\ copies \subseteq Rows \cup {cmd.probe} \cup strays /\ strays \cap Rows = {}
          /\ copies \subseteq CopyId /\ strays \subseteq CopyId
      BY <1>2 DEF Copied, Typed
    <2>2. QED BY <1>1, <1>2, <2>1, Probes
  <1>4. /\ permissions' \subseteq Locator /\ lost' \subseteq Locator
        /\ \A b \in Rows : books[b].locator \in permissions' \cup lost'
    BY <1>1 DEF Typed, Sourced
  <1>5. QED BY <1>1, <1>2, <1>3, <1>4, EndsWithoutTrace

-----------------------------------------------------------------------------
(* import_book: the cover. *)

\* A step of an import before its row is written that changes neither rows nor copies.
LEMMA CoverStep ==
    ASSUME LibraryInv, cmd.op = "import", cmd.pc \in BeforeRow,
           UNCHANGED <<rows, private, permissions, source, lost>>, events' \in 0..MaxEvents,
           cmd' \in CmdRec, cmd'.op = "import", cmd'.pc \in BeforeRow,
           cmd'.book = cmd.book, cmd'.locator = cmd.locator, cmd'.probe = cmd.probe,
           cmd'.content = cmd.content, cmd'.old = cmd.old,
           covers' \in [Path -> Nat], protected' \in [Path -> Nat], orphans' \subseteq Path
    PROVE  /\ Typed' /\ Steps' /\ Ordered' /\ Sourced' /\ Current' /\ Copied'
           /\ books' = books /\ Rows' = Rows /\ Stored' = Stored /\ OldCover' = OldCover /\ ~Keeping'
           /\ OldCover # NoCover => OldCover[1] = cmd.book
           /\ \A b \in Rows : books[b].cover # NoCover =>
                 books[b].cover \in Path /\ books[b].cover[1] = b /\ covers[books[b].cover] > 0
  <1> USE DEF LibraryInv
  <1>1. books' = books /\ older' = older /\ Rows' = Rows /\ Stored' = Stored /\ OldCover' = OldCover
    BY DEF rows, Rows, Stored, OldCover
  <1>2. Typed'
    BY <1>1 DEF Typed, private
  <1>3. Steps'
    BY DEF Steps, BeforeRow, ImportSteps
  <1>4. Ordered' /\ Sourced'
    BY <1>1 DEF Ordered, Sourced
  <1>5. Current'
    BY <1>1 DEF Current, At, BeforeRow, AfterRow
  <1>6. SpareCopies' = SpareCopies
    BY DEF SpareCopies, At, BeforeRow
  <1>7. Copied'
    BY <1>1, <1>6 DEF Copied, private
  <1>8. /\ OldCover # NoCover => OldCover[1] = cmd.book
        /\ \A b \in Rows : books[b].cover # NoCover =>
              books[b].cover \in Path /\ books[b].cover[1] = b /\ covers[books[b].cover] > 0
    BY DEF Covered, Typed, Rows, Row
  <1>9. ~Keeping'
    BY DEF Keeping, BeforeRow
  <1>10. QED BY <1>1, <1>2, <1>3, <1>4, <1>5, <1>7, <1>8, <1>9

\* A candidate is no file there is.
LEMMA CandidateIsNew ==
    ASSUME LibraryInv, At("import", "identified"), NEW p \in Fresh(cmd.book)
    PROVE  p \in Path /\ p[1] = cmd.book /\ covers[p] = 0 /\ p \notin Stored \cup orphans
  <1>1. cmd.op = "import" /\ cmd.pc = "identified" /\ cmd.pc \in BeforeRow
    BY DEF At, BeforeRow
  <1>2. cmd.book \in Book
    BY <1>1, Importing
  <1>3. p \in Path /\ p[1] = cmd.book /\ covers[p] = 0 /\ p \notin Stored
    BY <1>2 DEF Fresh, Path, Counted
  <1>4. QED BY <1>3 DEF LibraryInv, Covered

LEMMA ExtractCoverKeeps ==
    ASSUME LibraryInv, ExtractCover
    PROVE  LibraryInv'
  <1> USE DEF LibraryInv
  <1> DEFINE bytes == CoverOf(cmd.content)
  <1>1. /\ At("import", "identified") /\ cmd.op = "import" /\ cmd.pc = "identified"
        /\ cmd.pc \in BeforeRow
        /\ UNCHANGED <<rows, protected, orphans, private, permissions, world>>
    BY DEF ExtractCover, At, BeforeRow
  <1>2. /\ cmd \in CmdRec /\ Spare = {} /\ cmd.cover = NoCover /\ ~Keeping
        /\ cmd.victim = NoCover /\ ~Protecting /\ cmd.content \in Content
        /\ \A q \in Path : covers[q] > 0 => q \in Stored \cup orphans
        /\ \A q \in orphans : covers[q] > 0 /\ q \notin Stored
    BY <1>1, Importing DEF Protecting, Covered
  <1>3. protected = [q \in Path |-> 0] /\ protected' = protected /\ orphans' = orphans
    BY <1>1, <1>2 DEF Covered
  <1>4. Total(Weight) <= HardLimit /\ covers \in [Path -> Nat] /\ orphans \subseteq Path
    BY <1>1 DEF Budgeted, Typed
  <1>5. CASE bytes = 0
    <2> DEFINE parsed == cmd.content \in Parses
    <2>1. /\ cmd' = [cmd EXCEPT !.pc = "persist", !.parsed = parsed] /\ covers' = covers
          /\ parsed \in BOOLEAN
      BY <1>5 DEF ExtractCover
    <2> HIDE DEF parsed
    <2>2. /\ cmd' \in CmdRec /\ cmd'.op = "import" /\ cmd'.pc = "persist" /\ cmd'.pc \in BeforeRow
          /\ cmd'.book = cmd.book /\ cmd'.locator = cmd.locator /\ cmd'.probe = cmd.probe
          /\ cmd'.content = cmd.content /\ cmd'.old = cmd.old /\ cmd'.cover = NoCover
          /\ cmd'.victim = NoCover
      BY <1>1, <1>2, <2>1 DEF CmdRec, ImportSteps, BeforeRow
    <2>3. /\ Typed' /\ Steps' /\ Ordered' /\ Sourced' /\ Current' /\ Copied'
          /\ books' = books /\ Rows' = Rows /\ Stored' = Stored /\ OldCover' = OldCover /\ ~Keeping'
          /\ OldCover # NoCover => OldCover[1] = cmd.book
          /\ \A b \in Rows : books[b].cover # NoCover =>
                books[b].cover \in Path /\ books[b].cover[1] = b /\ covers[books[b].cover] > 0
      BY <1>1, <1>3, <1>4, <2>1, <2>2, CoverStep DEF Typed, world
    <2>4. ~Protecting' /\ Spare' = {NoCover}
      <3>1. Spare' = {cmd'.cover, cmd'.victim}
        BY <2>2 DEF Spare, Keeping, At
      <3>2. QED BY <2>2, <3>1 DEF Protecting
    <2>5. Covered'
      BY <1>2, <1>3, <1>4, <2>1, <2>2, <2>3, <2>4, Names DEF Covered
    <2>6. Budgeted'
      BY <1>3, <1>4, <2>1, <2>2 DEF Budgeted, Weight
    <2>7. QED BY <2>3, <2>5, <2>6
  <1>6. ASSUME NEW p \in Fresh(cmd.book), bytes > 0,
               covers' = [covers EXCEPT ![p] = bytes],
               cmd' = [cmd EXCEPT !.pc = "parsed", !.parsed = TRUE, !.cover = p]
        PROVE  LibraryInv'
    <2>2. p \in Path /\ p[1] = cmd.book /\ covers[p] = 0 /\ p \notin Stored \cup orphans
      BY <1>1, CandidateIsNew
    <2>3. bytes \in Nat
      BY <1>2, LibraryAssumption DEF CoverOf
    <2> HIDE DEF bytes
    <2>4. /\ covers' \in [Path -> Nat] /\ covers'[p] > 0
          /\ \A q \in Path : q # p => covers'[q] = covers[q]
      BY <1>4, <1>6, <2>2, <2>3
    <2>5. /\ cmd' \in CmdRec /\ cmd'.op = "import" /\ cmd'.pc = "parsed" /\ cmd'.pc \in BeforeRow
          /\ cmd'.book = cmd.book /\ cmd'.locator = cmd.locator /\ cmd'.probe = cmd.probe
          /\ cmd'.content = cmd.content /\ cmd'.old = cmd.old /\ cmd'.cover = p
          /\ cmd'.victim = NoCover
      BY <1>1, <1>2, <1>6, <2>2 DEF CmdRec, ImportSteps, BeforeRow
    <2>6. /\ Typed' /\ Steps' /\ Ordered' /\ Sourced' /\ Current' /\ Copied'
          /\ books' = books /\ Rows' = Rows /\ Stored' = Stored /\ OldCover' = OldCover /\ ~Keeping'
          /\ OldCover # NoCover => OldCover[1] = cmd.book
          /\ \A b \in Rows : books[b].cover # NoCover =>
                books[b].cover \in Path /\ books[b].cover[1] = b /\ covers[books[b].cover] > 0
      BY <1>1, <1>3, <1>4, <2>4, <2>5, CoverStep DEF Typed, world
    <2>7. ~Protecting' /\ Spare' = {p, NoCover} /\ p # NoCover
      <3>1. ~Protecting' /\ p # NoCover
        BY <2>2, <2>5, Names DEF Protecting
      <3>2. Spare' = {cmd'.cover, cmd'.victim}
        BY <2>5 DEF Spare, Keeping, At
      <3>3. QED BY <2>5, <3>1, <3>2
    <2>8. Covered'
      <3>1. \A b \in Rows : books[b].cover # NoCover =>
                books[b].cover[1] = b /\ covers'[books[b].cover] > 0
        BY <2>2, <2>4, <2>6 DEF Stored
      <3>2. \A q \in Path : covers'[q] > 0 => q \in Stored \cup {p} \cup orphans
        BY <1>2, <2>4
      <3>3. \A q \in orphans : covers'[q] > 0 /\ q \notin Stored \cup {p, NoCover}
        BY <1>2, <1>4, <2>2, <2>4, Names
      <3>4. QED BY <1>3, <2>2, <2>4, <2>5, <2>6, <2>7, <3>1, <3>2, <3>3 DEF Covered
    <2>9. Budgeted'
      <3>1. [Weight' EXCEPT ![p] = 0] = Weight
        BY <1>3, <1>4, <2>2, <2>4 DEF Weight
      <3>2. QED BY <1>4, <2>5, <3>1 DEF Budgeted
    <2>10. QED BY <2>6, <2>8, <2>9
  <1>7. QED BY <1>5, <1>6 DEF ExtractCover

LEMMA AdmitKeeps ==
    ASSUME LibraryInv, Admit
    PROVE  LibraryInv'
  <1> USE DEF LibraryInv
  <1>1. /\ cmd.op = "import" /\ cmd.pc = "parsed" /\ cmd.pc \in BeforeRow
        /\ UNCHANGED <<rows, covers, orphans, private, permissions, world>>
        /\ protected' = Protect(Pair) /\ Goes("evict")
    BY DEF Admit, At, BeforeRow
  <1>2. /\ cmd \in CmdRec /\ ~Keeping /\ ~Protecting /\ covers \in [Path -> Nat]
        /\ cmd.victim = NoCover /\ cmd.cover # NoCover /\ orphans \subseteq Path
        /\ \A q \in Path : covers[q] > 0 => q \in Stored \cup Spare \cup orphans
    BY <1>1, Importing DEF Protecting, Covered, Typed
  <1>3. /\ cmd' \in CmdRec /\ cmd'.op = "import" /\ cmd'.pc = "evict" /\ cmd'.pc \in BeforeRow
        /\ cmd'.book = cmd.book /\ cmd'.locator = cmd.locator /\ cmd'.probe = cmd.probe
        /\ cmd'.content = cmd.content /\ cmd'.old = cmd.old /\ cmd'.cover = cmd.cover
        /\ cmd'.victim = NoCover
    BY <1>1, <1>2, GoesOn DEF ImportSteps, BeforeRow
  <1>4. protected' = [p \in Path |-> IF p \in Pair THEN 1 ELSE 0]
    BY <1>1, <1>2 DEF Protect, Covered
  <1>5. /\ Typed' /\ Steps' /\ Ordered' /\ Sourced' /\ Current' /\ Copied'
        /\ books' = books /\ Rows' = Rows /\ Stored' = Stored /\ OldCover' = OldCover /\ ~Keeping'
        /\ OldCover # NoCover => OldCover[1] = cmd.book
        /\ \A b \in Rows : books[b].cover # NoCover =>
              books[b].cover \in Path /\ books[b].cover[1] = b /\ covers[books[b].cover] > 0
    BY <1>1, <1>2, <1>3, <1>4, CoverStep DEF Typed, world
  <1>6. Protecting' /\ Spare' = Spare /\ Pair' = Pair
    <2>1. Spare' = {cmd'.cover, cmd'.victim}
      BY <1>3 DEF Spare, Keeping, At
    <2>2. Spare = {cmd.cover, cmd.victim}
      BY <1>1 DEF Spare, Keeping, At
    <2>3. Protecting' /\ Pair' = Pair
      BY <1>1, <1>2, <1>3, <1>5 DEF Protecting, Pair
    <2>4. QED BY <1>2, <1>3, <2>1, <2>2, <2>3
  <1>7. Covered'
    BY <1>1, <1>2, <1>3, <1>4, <1>5, <1>6 DEF Covered
  <1>8. Budgeted'
    <2>1. Weight' = Weight
      BY <1>1 DEF Weight
    <2>2. QED BY <1>1, <1>3, <2>1 DEF Budgeted
  <1>9. QED BY <1>5, <1>7, <1>8

\* The cover cannot be written.
LEMMA CoverFailsKeeps ==
    ASSUME LibraryInv, CoverFails
    PROVE  LibraryInv'
  <1> USE DEF LibraryInv
  <1>1. /\ At("import", "identified") /\ cmd.op = "import" /\ cmd.pc = "identified"
        /\ cmd.pc \in BeforeRow
        /\ UNCHANGED <<rows, protected, private, permissions, source, lost>>
        /\ events' \in 0..MaxEvents
    BY Names DEF CoverFails, Happens, At, BeforeRow, Typed
  <1>2. /\ cmd \in CmdRec /\ Spare = {} /\ cmd.cover = NoCover /\ ~Keeping
        /\ cmd.victim = NoCover /\ ~Protecting /\ cmd.content \in Content
        /\ \A q \in Path : covers[q] > 0 => q \in Stored \cup orphans
        /\ \A q \in orphans : covers[q] > 0 /\ q \notin Stored
        /\ covers \in [Path -> Nat] /\ orphans \subseteq Path
    BY <1>1, Importing DEF Protecting, Covered, Typed
  <1>3. PICK pc \in {"discard", "persist"} : Goes(pc)
    BY DEF CoverFails
  <1>4. /\ cmd' \in CmdRec /\ cmd'.op = "import" /\ cmd'.pc = pc /\ cmd'.pc \in BeforeRow
        /\ cmd'.book = cmd.book /\ cmd'.locator = cmd.locator /\ cmd'.probe = cmd.probe
        /\ cmd'.content = cmd.content /\ cmd'.old = cmd.old /\ cmd'.cover = NoCover
        /\ cmd'.victim = NoCover
    BY <1>1, <1>2, <1>3, GoesOn DEF ImportSteps, BeforeRow
  \* What is on the disk then, and that it weighs nothing more.
  <1>5. /\ covers' \in [Path -> Nat] /\ orphans' \subseteq Path
        /\ \A q \in Stored : covers'[q] = covers[q]
        /\ \A q \in Path : covers'[q] > 0 => q \in Stored \cup orphans'
        /\ \A q \in orphans' : covers'[q] > 0 /\ q \notin Stored
        /\ Weight' = Weight
    <2>1. CASE UNCHANGED <<covers, orphans>>
      BY <1>2, <2>1 DEF Weight
    <2>2. CASE \E p \in Fresh(cmd.book) :
                   /\ covers' = [covers EXCEPT ![p] = CoverOf(cmd.content)]
                   /\ orphans' = orphans \cup {p}
      <3>0. PICK p \in Fresh(cmd.book) :
                /\ covers' = [covers EXCEPT ![p] = CoverOf(cmd.content)]
                /\ orphans' = orphans \cup {p}
        BY <2>2
      <3> DEFINE bytes == CoverOf(cmd.content)
      <3>1. p \in Path /\ covers[p] = 0 /\ p \notin Stored \cup orphans
        BY <1>1, CandidateIsNew
      <3>2. bytes \in Nat /\ bytes > 0
        BY <1>2, LibraryAssumption DEF CoverOf, CoverFails
      <3> HIDE DEF bytes
      <3>3. /\ covers' \in [Path -> Nat] /\ covers'[p] > 0
            /\ \A q \in Path : q # p => covers'[q] = covers[q]
        BY <1>2, <3>0, <3>1, <3>2 DEF bytes
      <3>4. QED BY <1>1, <1>2, <3>0, <3>1, <3>3, Importing DEF Weight
    <2>3. QED BY <2>1, <2>2 DEF CoverFails
  <1>6. /\ Typed' /\ Steps' /\ Ordered' /\ Sourced' /\ Current' /\ Copied'
        /\ books' = books /\ Rows' = Rows /\ Stored' = Stored /\ OldCover' = OldCover /\ ~Keeping'
        /\ OldCover # NoCover => OldCover[1] = cmd.book
        /\ \A b \in Rows : books[b].cover # NoCover =>
              books[b].cover \in Path /\ books[b].cover[1] = b /\ covers[books[b].cover] > 0
    BY <1>1, <1>4, <1>5, CoverStep DEF Typed
  <1>7. ~Protecting' /\ Spare' = {NoCover}
    <2>1. Spare' = {cmd'.cover, cmd'.victim}
      BY <1>3, <1>4 DEF Spare, Keeping, At
    <2>2. QED BY <1>4, <2>1 DEF Protecting
  <1>8. Covered'
    <2>1. \A b \in Rows : books[b].cover # NoCover =>
              books[b].cover[1] = b /\ covers'[books[b].cover] > 0
      BY <1>5, <1>6 DEF Stored
    <2>2. \A q \in orphans' : covers'[q] > 0 /\ q \notin Stored \cup {NoCover}
      BY <1>5, Names
    <2>3. protected' = [q \in Path |-> 0]
      BY <1>1, <1>2 DEF Covered
    <2>4. QED BY <1>3, <1>4, <1>5, <1>6, <1>7, <2>1, <2>2, <2>3 DEF Covered
  <1>9. Budgeted'
    <2>1. Total(Weight) <= HardLimit
      BY <1>1 DEF Budgeted
    <2>2. [Weight EXCEPT ![NoCover] = 0] = Weight
      BY Names DEF Weight
    <2>3. QED BY <1>3, <1>4, <1>5, <2>1, <2>2 DEF Budgeted
  <1>10. QED BY <1>6, <1>8, <1>9

\* Where an import is while it evicts.
LEMMA Evicting ==
    ASSUME LibraryInv, cmd.op = "import", cmd.pc \in {"evict", "unlink", "persist", "discard"}
    PROVE  /\ cmd \in CmdRec /\ cmd.pc \in BeforeRow /\ ~Keeping
           /\ cmd.pc \in {"evict", "unlink"} => cmd.cover # NoCover
           /\ Protecting <=> cmd.cover # NoCover
           /\ cmd.cover \in Path \cup {NoCover} /\ cmd.cover \notin Stored
           /\ cmd.cover # NoCover => cmd.cover[1] = cmd.book /\ covers[cmd.cover] > 0
           /\ cmd.pc # "unlink" => cmd.victim = NoCover
           /\ \A q \in Path : covers[q] > 0 => q \in Stored \cup {cmd.cover, cmd.victim} \cup orphans
           /\ \A q \in orphans : covers[q] > 0 /\ q \notin Stored \cup {cmd.cover, cmd.victim}
           /\ protected = [p \in Path |-> IF cmd.cover # NoCover /\ p \in Pair THEN 1 ELSE 0]
           /\ covers \in [Path -> Nat] /\ orphans \subseteq Path
  <1> USE DEF LibraryInv
  <1>1. cmd.pc \in BeforeRow
    BY DEF BeforeRow
  <1>2. Spare = {cmd.cover, cmd.victim}
    BY DEF Spare, Keeping, At
  <1>3. Protecting <=> cmd.cover # NoCover
    BY DEF Protecting
  <1>4. /\ cmd \in CmdRec /\ ~Keeping /\ cmd.cover \in Path \cup {NoCover}
        /\ cmd.pc # "unlink" => cmd.victim = NoCover
        /\ \A q \in Path : covers[q] > 0 => q \in Stored \cup Spare \cup orphans
        /\ \A q \in orphans : covers[q] > 0 /\ q \notin Stored \cup Spare
    BY <1>1, Importing DEF Covered
  <1>5. cmd.cover \notin Stored
    BY <1>1 DEF Covered, Stored
  <1>6. /\ cmd.pc \in {"evict", "unlink"} => cmd.cover # NoCover
        /\ cmd.cover # NoCover => cmd.cover[1] = cmd.book /\ covers[cmd.cover] > 0
    BY <1>1 DEF Covered
  <1>7. protected = [p \in Path |-> IF cmd.cover # NoCover /\ p \in Pair THEN 1 ELSE 0]
    BY <1>3 DEF Covered
  <1>8. QED BY <1>1, <1>2, <1>3, <1>4, <1>5, <1>6, <1>7 DEF Typed

LEMMA EvictRowKeeps ==
    ASSUME LibraryInv, EvictRow
    PROVE  LibraryInv'
  <1> USE DEF LibraryInv
  <1>1. /\ cmd.op = "import" /\ cmd.pc = "evict"
        /\ UNCHANGED <<older, cache, private, permissions, world>>
    BY DEF EvictRow, At
  <1>2. PICK b \in Evictable :
            /\ books' = [books EXCEPT ![b].cover = NoCover]
            /\ cmd' = [cmd EXCEPT !.pc = "unlink", !.victim = books[b].cover]
    BY DEF EvictRow
  <1> DEFINE v == books[b].cover
             row == [books[b] EXCEPT !.cover = NoCover]
  <1>3. /\ cmd \in CmdRec /\ cmd.pc \in BeforeRow /\ ~Keeping /\ Protecting
        /\ cmd.cover # NoCover /\ cmd.cover \in Path /\ cmd.cover \notin Stored
        /\ cmd.cover[1] = cmd.book /\ covers[cmd.cover] > 0 /\ cmd.victim = NoCover
        /\ \A q \in Path : covers[q] > 0 => q \in Stored \cup {cmd.cover} \cup orphans
        /\ \A q \in orphans : covers[q] > 0 /\ q \notin Stored \cup {cmd.cover}
        /\ protected = [p \in Path |-> IF p \in Pair THEN 1 ELSE 0]
    BY <1>1, Evicting, Names
  <1>4. cmd.book \in Book /\ books[cmd.book] = cmd.old
    BY <1>1, <1>3, Importing
  <1>5. /\ b \in Rows /\ b \in Book /\ books[b] \in Row /\ v # NoCover /\ v \in Path /\ v[1] = b
        /\ v \in Stored /\ v \notin Pair
    <2>1. /\ b \in Rows /\ b \in Book /\ books[b] \in Row /\ v # NoCover /\ protected[v] = 0
      BY DEF Evictable, Typed, Rows
    <2>2. v \in Path /\ v[1] = b /\ v \in Stored
      BY <2>1 DEF Row, Covered, Stored
    <2>3. v \notin Pair
      BY <1>3, <2>1, <2>2
    <2>4. QED BY <2>1, <2>2, <2>3
  <1>6. b # cmd.book
    <2>1. b = cmd.book => OldCover = v
      BY <1>4, <1>5, Names DEF OldCover
    <2>2. QED BY <1>5, <2>1 DEF Pair
  <1>7. /\ row \in Row /\ row.locator = books[b].locator /\ row.cover = NoCover
        /\ row.package = books[b].package /\ row.content = books[b].content
    BY <1>5 DEF Row
  <1>8. books' = [books EXCEPT ![b] = row]
    BY <1>2
  <1> HIDE DEF row, v
  <1>9. /\ books' \in [Book -> Row \cup {NoRow}] /\ Rows' = Rows
        /\ books'[b] = row /\ \A c \in Book \ {b} : books'[c] = books[c]
    BY <1>5, <1>7, <1>8, Names DEF Typed, Rows
  <1>10. \A c \in Rows : /\ books'[c].locator = books[c].locator
                         /\ books'[c].package = books[c].package
                         /\ books'[c].content = books[c].content
                         /\ books'[c].cover = IF c = b THEN NoCover ELSE books[c].cover
    BY <1>7, <1>9 DEF Rows
  <1>11. /\ cmd' \in CmdRec /\ cmd'.op = "import" /\ cmd'.pc = "unlink" /\ cmd'.pc \in BeforeRow
         /\ cmd'.book = cmd.book /\ cmd'.locator = cmd.locator /\ cmd'.probe = cmd.probe
         /\ cmd'.content = cmd.content /\ cmd'.old = cmd.old /\ cmd'.cover = cmd.cover
         /\ cmd'.victim = v
    BY <1>1, <1>2, <1>3, <1>5 DEF CmdRec, ImportSteps, BeforeRow, v
  <1>12. Typed'
    BY <1>1, <1>9, <1>11 DEF Typed, cache, private, world
  <1>13. Steps'
    BY <1>1, <1>11 DEF Steps, ImportSteps
  <1>14. Ordered' /\ Sourced'
    <2>1. Ordered'
      BY <1>1, <1>9 DEF Ordered
    <2>2. QED BY <1>1, <1>9, <1>10, <2>1 DEF Sourced, world, private
  <1>15. Current'
    <2>1. books'[cmd.book] = cmd.old
      BY <1>4, <1>6, <1>9
    <2>2. cmd'.pc \notin {"acquired", "swap", "release"}
      BY <1>11
    <2>3. QED BY <1>1, <1>3, <1>9, <1>11, <2>1, <2>2 DEF Current, At, AfterRow, world, private
  <1>16. /\ OldCover' = OldCover /\ Pair' = Pair /\ Protecting' /\ ~Keeping'
         /\ SpareCopies' = SpareCopies
    <2>1. OldCover' = OldCover /\ Pair' = Pair
      BY <1>11 DEF OldCover, Pair
    <2>2. Protecting' /\ ~Keeping'
      BY <1>3, <1>11 DEF Protecting, Keeping
    <2>3. SpareCopies' = SpareCopies
      BY <1>1, <1>11 DEF SpareCopies, At
    <2>4. QED BY <2>1, <2>2, <2>3
  <1>17. Spare' = {cmd.cover, v}
    <2>1. Spare' = {cmd'.cover, cmd'.victim}
      BY <1>11 DEF Spare, Keeping, At
    <2>2. QED BY <1>11, <2>1
  <1>18. Stored' = Stored \ {v}
    <2>1. \A c \in Rows : c # b => books[c].cover # v
      BY <1>5 DEF Covered
    <2>2. QED BY <1>5, <1>9, <1>10, <2>1 DEF Stored, v
  <1>19. Covered'
    <2>1. \A c \in Rows : books'[c].cover # NoCover =>
              books'[c].cover[1] = c /\ covers[books'[c].cover] > 0
      BY <1>10 DEF Covered
    <2>2. OldCover # NoCover => OldCover[1] = cmd.book
      BY DEF Covered
    <2>3. v \notin Stored' \cup Pair /\ covers[v] > 0
      <3>1. v \notin Stored' \cup Pair
        BY <1>5, <1>18
      <3>2. covers[v] > 0
        BY <1>5 DEF Covered, v
      <3>3. QED BY <3>1, <3>2
    <2>4. /\ \A q \in Path : covers[q] > 0 => q \in Stored' \cup {cmd.cover, v} \cup orphans
          /\ \A q \in orphans : covers[q] > 0 /\ q \notin Stored' \cup {cmd.cover, v}
      BY <1>3, <1>5, <1>18
    <2>5. QED BY <1>1, <1>3, <1>5, <1>9, <1>11, <1>16, <1>17, <1>18, <2>1, <2>2, <2>3, <2>4 DEF Covered, cache, private
  <1>20. Budgeted' /\ Copied'
    <2>1. Weight' = Weight
      BY <1>1 DEF Weight, cache
    <2>2. Budgeted'
      BY <1>1, <1>11, <2>1 DEF Budgeted
    <2>3. QED BY <1>1, <1>3, <1>9, <1>11, <1>16, <2>2 DEF Copied, private
  <1>21. QED BY <1>12, <1>13, <1>14, <1>15, <1>19, <1>20

LEMMA EvictFileKeeps ==
    ASSUME LibraryInv, EvictFile
    PROVE  LibraryInv'
  <1> USE DEF LibraryInv
  <1>1. /\ cmd.op = "import" /\ cmd.pc = "unlink" /\ cmd.pc \in BeforeRow
        /\ UNCHANGED <<rows, protected, private, permissions, source, lost>>
        /\ events' \in 0..MaxEvents
    BY Names DEF EvictFile, Happens, At, BeforeRow, Typed
  <1> DEFINE v == cmd.victim
  <1>2. /\ cmd \in CmdRec /\ ~Keeping /\ Protecting
        /\ cmd.cover # NoCover /\ cmd.cover \in Path /\ cmd.cover \notin Stored
        /\ cmd.cover[1] = cmd.book /\ covers[cmd.cover] > 0
        /\ \A q \in Path : covers[q] > 0 => q \in Stored \cup {cmd.cover, v} \cup orphans
        /\ \A q \in orphans : covers[q] > 0 /\ q \notin Stored \cup {cmd.cover, v}
        /\ protected = [p \in Path |-> IF p \in Pair THEN 1 ELSE 0]
        /\ covers \in [Path -> Nat] /\ orphans \subseteq Path
    BY <1>1, Evicting, Names
  <1>3. v \in Path /\ v \notin Stored \cup Pair /\ cmd.cover \in Pair
    BY <1>1, <1>2 DEF Covered, CmdRec, Pair
  <1>4. PICK pc \in {"evict", "discard"} : cmd' = [cmd EXCEPT !.pc = pc, !.victim = NoCover]
    BY DEF EvictFile
  <1>5. /\ cmd' \in CmdRec /\ cmd'.op = "import" /\ cmd'.pc = pc /\ cmd'.pc \in BeforeRow
        /\ cmd'.book = cmd.book /\ cmd'.locator = cmd.locator /\ cmd'.probe = cmd.probe
        /\ cmd'.content = cmd.content /\ cmd'.old = cmd.old /\ cmd'.cover = cmd.cover
        /\ cmd'.victim = NoCover
    BY <1>1, <1>2, <1>4 DEF CmdRec, ImportSteps, BeforeRow
  \* The file is gone or an orphan.
  <1>6. /\ covers' \in [Path -> Nat] /\ orphans' \subseteq orphans \cup {v}
        /\ \A q \in Path : q # v => covers'[q] = covers[q]
        /\ covers'[v] > 0 => v \in orphans'
        /\ orphans \subseteq orphans' /\ \A q \in orphans' : covers'[q] > 0
    <2>1. v \in Stored \cup {v} \cup orphans
      OBVIOUS
    <2>2. CASE covers' = [covers EXCEPT ![v] = 0] /\ orphans' = orphans
      BY <1>2, <1>3, <2>2
    <2>3. CASE covers' = covers /\ orphans' = orphans \cup {v}
      BY <1>1, <1>2, <1>3, <2>3, Names DEF Covered
    <2>4. QED BY <2>2, <2>3 DEF EvictFile
  <1>7. orphans' \subseteq Path
    BY <1>2, <1>3, <1>6
  <1> HIDE DEF v
  <1>8. /\ Typed' /\ Steps' /\ Ordered' /\ Sourced' /\ Current' /\ Copied'
        /\ books' = books /\ Rows' = Rows /\ Stored' = Stored /\ OldCover' = OldCover /\ ~Keeping'
        /\ OldCover # NoCover => OldCover[1] = cmd.book
        /\ \A b \in Rows : books[b].cover # NoCover =>
              books[b].cover \in Path /\ books[b].cover[1] = b /\ covers[books[b].cover] > 0
    BY <1>1, <1>5, <1>6, <1>7, CoverStep DEF Typed
  <1>9. Protecting' /\ Pair' = Pair
    BY <1>2, <1>4, <1>5, <1>8 DEF Protecting, Pair
  <1>10. Spare' = {cmd.cover, NoCover}
    <2>1. Spare' = {cmd'.cover, cmd'.victim}
      BY <1>4, <1>5 DEF Spare, Keeping, At
    <2>2. QED BY <1>5, <2>1
  <1>11. Covered'
    <2>1. \A b \in Rows : books[b].cover # NoCover =>
              books[b].cover[1] = b /\ covers'[books[b].cover] > 0
      BY <1>3, <1>6, <1>8 DEF Stored
    <2>2. \A q \in Path : covers'[q] > 0 => q \in Stored \cup {cmd.cover, NoCover} \cup orphans'
      BY <1>2, <1>3, <1>6, Names
    <2>3. covers'[cmd.cover] > 0
      BY <1>2, <1>3, <1>6
    <2>4. \A q \in orphans' : covers'[q] > 0 /\ q \notin Stored \cup {cmd.cover, NoCover}
      BY <1>2, <1>3, <1>6, <1>7, Names
    <2>5. QED BY <1>1, <1>2, <1>4, <1>5, <1>8, <1>9, <1>10, <2>1, <2>2, <2>3, <2>4 DEF Covered
  <1>12. Budgeted'
    <2> DEFINE f == [Weight EXCEPT ![cmd.cover] = 0]
               g == [Weight' EXCEPT ![cmd.cover] = 0]
    <2>1. /\ f \in [Path -> Nat] /\ g \in [Path -> Nat] /\ \A q \in Path : g[q] <= f[q]
      BY <1>2, <1>3, <1>6 DEF Weight
    <2>2. Total(f) <= HardLimit
      BY <1>1 DEF Budgeted
    <2> HIDE DEF f, g
    <2>3. Total(g) <= HardLimit
      BY <2>1, <2>2, LessCovers
    <2>4. QED BY <1>4, <1>5, <2>3 DEF Budgeted, g
  <1>13. QED BY <1>8, <1>11, <1>12

\* A refused or failed import leaves the cover its book had, and nothing else.
LEMMA DiscardKeeps ==
    ASSUME LibraryInv, Discard
    PROVE  LibraryInv'
  <1> USE DEF LibraryInv
  <1> DEFINE P == File(cmd.cover)
             I == {cmd.probe}
  <1>1. /\ cmd.op = "import" /\ cmd.pc = "discard" /\ cmd.pc \in BeforeRow /\ cmd' = Idle
        /\ UNCHANGED <<rows, permissions, source, lost>> /\ GivesUp(P, I)
        /\ protected' = IF cmd.cover = NoCover THEN protected ELSE Unprotect(Pair)
    BY DEF Discard, Ends, At, BeforeRow
  <1>2. /\ cmd.cover \in Path \cup {NoCover} /\ cmd.cover \notin Stored /\ cmd.victim = NoCover
        /\ \A q \in Path : covers[q] > 0 => q \in Stored \cup {cmd.cover, NoCover} \cup orphans
        /\ \A q \in orphans : covers[q] > 0 /\ q \notin Stored \cup {cmd.cover, NoCover}
        /\ protected = [p \in Path |-> IF cmd.cover # NoCover /\ p \in Pair THEN 1 ELSE 0]
        /\ covers \in [Path -> Nat] /\ orphans \subseteq Path
    BY <1>1, Evicting
  <1>3. /\ P \in SUBSET Path /\ I \in SUBSET CopyId /\ SpareCopies = I
        /\ P = {cmd.cover} \ {NoCover}
    <2>1. cmd.probe \in CopyId /\ SpareCopies = {cmd.probe}
      BY <1>1, Importing
    <2>2. QED BY <1>2, <2>1 DEF File
  <1> HIDE DEF P, I
  <1>4. Rows' = Rows /\ Stored' = Stored /\ books' = books /\ older' = older
    BY <1>1 DEF Rows, Stored, rows
  <1>5. /\ \A p \in orphans : covers[p] > 0 /\ p \notin P
        /\ strays \cap Rows = {} /\ copies \subseteq Rows \cup I \cup strays
    BY <1>2, <1>3 DEF Copied
  <1>6. /\ covers' \in [Path -> Nat]
        /\ \A p \in Path \ P : covers'[p] = covers[p]
        /\ \A p \in P : covers'[p] > 0 => p \in orphans'
        /\ orphans' \subseteq orphans \cup P /\ orphans \subseteq orphans'
        /\ \A p \in orphans' : covers'[p] > 0
        /\ Weight \in [Path -> Nat] /\ Weight' \in [Path -> Nat]
        /\ \A p \in Path : Weight'[p] <= Weight[p]
        /\ \A p \in P : Weight'[p] = 0
        /\ copies' \subseteq CopyId /\ strays' \subseteq CopyId
        /\ copies' \subseteq (copies \ I) \cup Rows \cup strays' /\ strays \subseteq strays' \cup I
        /\ strays' \cap Rows = {} /\ events' \in 0..MaxEvents
    BY <1>1, <1>3, <1>4, <1>5, GivingUp
  <1>7. protected' = [p \in Path |-> 0]
    <2>1. CASE cmd.cover = NoCover
      BY <1>1, <1>2, <2>1
    <2>2. CASE cmd.cover # NoCover
      BY <1>1, <1>2, <2>2 DEF Unprotect
    <2>3. QED BY <2>1, <2>2
  <1>8. copies' \subseteq Rows' \cup strays' /\ strays' \cap Rows' = {}
    BY <1>4, <1>5, <1>6
  <1>9. Typed' /\ Ordered' /\ Sourced'
    BY <1>1, <1>2, <1>3, <1>4, <1>6, <1>7, IdleIsTyped DEF Typed, Ordered, Sourced
  <1>10. \A b \in Rows : books[b].cover # NoCover =>
             books[b].cover[1] = b /\ covers'[books[b].cover] > 0
    <2>1. \A b \in Rows : books[b].cover # NoCover =>
              /\ books[b].cover \in Stored /\ books[b].cover \in Path
              /\ books[b].cover[1] = b /\ covers[books[b].cover] > 0
      BY DEF Covered, Stored, Typed, Rows, Row
    <2>2. QED BY <1>2, <1>3, <1>6, <2>1
  <1>11. /\ \A p \in Path : covers'[p] > 0 => p \in Stored \cup orphans'
         /\ \A p \in orphans' : covers'[p] > 0 /\ p \notin Stored
    BY <1>2, <1>3, <1>6, Names
  <1>12. Total(Weight') <= HardLimit
    <2> DEFINE f == [Weight EXCEPT ![cmd.cover] = 0]
    <2>1. f \in [Path -> Nat] /\ \A p \in Path : Weight'[p] <= f[p]
      <3>1. /\ f \in [Path -> Nat]
            /\ \A p \in Path : f[p] = IF p = cmd.cover THEN 0 ELSE Weight[p]
        BY <1>6
      <3> HIDE DEF f
      <3>2. QED BY <1>2, <1>3, <1>6, <3>1, Names
    <2>2. Total(f) <= HardLimit
      BY <1>1 DEF Budgeted
    <2> HIDE DEF f
    <2>3. QED BY <1>6, <2>1, <2>2, LessCovers
  <1>13. \A p \in Path : protected'[p] = 0
    BY <1>7
  <1>14. QED BY <1>1, <1>4, <1>8, <1>9, <1>10, <1>11, <1>12, <1>13, EndsIdle

\* The enforcement is over, or what was admitted is not to be stored.
LEMMA StopsEvicting ==
    ASSUME LibraryInv, cmd.op = "import", cmd.pc \in {"evict", "persist"},
           NEW pc \in {"persist", "discard"}, Goes(pc),
           pc = "persist" => Total(Weight) <= HardLimit,
           UNCHANGED <<rows, cache, private, permissions, source, lost>>,
           events' \in 0..MaxEvents
    PROVE  LibraryInv'
  <1> USE DEF LibraryInv
  <1>1. /\ cmd \in CmdRec /\ ~Keeping /\ cmd.pc \in BeforeRow
        /\ Protecting <=> cmd.cover # NoCover
        /\ cmd.cover \in Path \cup {NoCover} /\ cmd.cover \notin Stored
        /\ cmd.cover # NoCover => cmd.cover[1] = cmd.book /\ covers[cmd.cover] > 0
        /\ cmd.victim = NoCover
        /\ \A q \in Path : covers[q] > 0 => q \in Stored \cup {cmd.cover, NoCover} \cup orphans
        /\ \A q \in orphans : covers[q] > 0 /\ q \notin Stored \cup {cmd.cover, NoCover}
        /\ protected = [p \in Path |-> IF cmd.cover # NoCover /\ p \in Pair THEN 1 ELSE 0]
        /\ covers \in [Path -> Nat] /\ orphans \subseteq Path
    BY Evicting
  <1>2. /\ cmd' \in CmdRec /\ cmd'.op = "import" /\ cmd'.pc = pc /\ cmd'.pc \in BeforeRow
        /\ cmd'.book = cmd.book /\ cmd'.locator = cmd.locator /\ cmd'.probe = cmd.probe
        /\ cmd'.content = cmd.content /\ cmd'.old = cmd.old /\ cmd'.cover = cmd.cover
        /\ cmd'.victim = NoCover
    BY <1>1, GoesOn DEF ImportSteps, BeforeRow
  <1>3. /\ Typed' /\ Steps' /\ Ordered' /\ Sourced' /\ Current' /\ Copied'
        /\ books' = books /\ Rows' = Rows /\ Stored' = Stored /\ OldCover' = OldCover /\ ~Keeping'
        /\ OldCover # NoCover => OldCover[1] = cmd.book
        /\ \A b \in Rows : books[b].cover # NoCover =>
              books[b].cover \in Path /\ books[b].cover[1] = b /\ covers[books[b].cover] > 0
    BY <1>1, <1>2, CoverStep DEF Typed, cache
  <1>4. Protecting' = Protecting /\ Pair' = Pair
    BY <1>1, <1>2, <1>3 DEF Protecting, Pair
  <1>5. Spare' = {cmd.cover, NoCover}
    <2>1. Spare' = {cmd'.cover, cmd'.victim}
      BY <1>2 DEF Spare, Keeping, At
    <2>2. QED BY <1>2, <2>1
  <1>6. Covered'
    BY <1>1, <1>2, <1>3, <1>4, <1>5 DEF Covered, cache
  <1>7. Weight' = Weight
    BY DEF Weight, cache
  <1>8. CASE pc = "persist"
    BY <1>2, <1>3, <1>6, <1>7, <1>8 DEF Budgeted
  <1>9. CASE pc = "discard"
    <2> DEFINE f == [Weight EXCEPT ![cmd.cover] = 0]
    <2>1. Total(f) <= HardLimit
      <3>1. CASE cmd.pc = "evict"
        BY <3>1 DEF Budgeted
      <3>2. CASE cmd.pc = "persist"
        <4>1. Total(Weight) <= HardLimit
          BY <3>2 DEF Budgeted
        <4>2. Weight \in [Path -> Nat]
          BY <1>1 DEF Weight
        <4>3. f \in [Path -> Nat] /\ \A p \in Path : f[p] <= Weight[p]
          <5>1. /\ f \in [Path -> Nat]
                /\ \A p \in Path : f[p] = IF p = cmd.cover THEN 0 ELSE Weight[p]
            BY <4>2
          <5> HIDE DEF f
          <5>2. QED BY <4>2, <5>1
        <4> HIDE DEF f
        <4>4. QED BY <4>1, <4>2, <4>3, LessCovers
      <3>3. QED BY <3>1, <3>2
    <2>2. Budgeted'
      BY <1>2, <1>7, <1>9, <2>1 DEF Budgeted
    <2>3. QED BY <1>3, <1>6, <2>2
  <1>10. QED BY <1>8, <1>9

LEMMA AdmittedKeeps ==
    ASSUME LibraryInv, Admitted
    PROVE  LibraryInv'
  <1> USE DEF LibraryInv
  <1>1. /\ cmd.op = "import" /\ cmd.pc = "evict"
        /\ UNCHANGED <<rows, cache, private, permissions, world>>
    BY DEF Admitted, At
  <1>2. PICK pc \in {"persist", "discard"} :
            Goes(pc) /\ (pc = "persist" => CountedBytes <= HardLimit)
    BY DEF Admitted
  <1>3. cmd.cover # NoCover
    BY <1>1, Evicting
  <1>4. pc = "persist" => Total(Weight) <= HardLimit
    <2>1. /\ cmd.cover \in Path /\ covers \in [Path -> Nat] /\ orphans \subseteq Path
          /\ protected = [p \in Path |-> IF p \in Pair THEN 1 ELSE 0]
          /\ \A q \in Path : covers[q] > 0 => q \in Stored \cup {cmd.cover, NoCover} \cup orphans
          /\ \A q \in orphans : covers[q] > 0 /\ q \notin Stored \cup {cmd.cover, NoCover}
      BY <1>1, <1>3, Evicting
    <2>2. cmd.cover \in Guarded /\ Guarded = Pair \cap Path
      BY <1>3, <2>1 DEF Guarded, Pair
    <2>3. OldCover # NoCover => OldCover \in Stored
      BY <1>1, Importing DEF OldCover, Stored, Rows, BeforeRow
    <2>4. Counted \in SUBSET Path /\ Counted \cap orphans = {}
      <3>1. Stored \subseteq Path
        BY <1>1, Importing DEF BeforeRow
      <3>2. QED BY <2>1, <2>2, <2>3, <3>1 DEF Counted, Pair
    <2>5. \A q \in Path : covers[q] > 0 => q \in Counted \cup orphans
      BY <2>1, <2>2, Names DEF Counted
    <2>6. Total(Weight) = CountedBytes
      BY <2>1, <2>4, <2>5, Weighs DEF CountedBytes
    <2>7. QED BY <1>2, <2>6
  <1>5. UNCHANGED <<source, lost>> /\ events' \in 0..MaxEvents
    BY <1>1 DEF world, Typed
  <1>6. QED BY <1>1, <1>2, <1>4, <1>5, StopsEvicting

LEMMA ImportFailsKeeps ==
    ASSUME LibraryInv, ImportFails
    PROVE  LibraryInv'
  <1>1. /\ cmd.op = "import" /\ cmd.pc \in {"evict", "persist"} /\ Goes("discard")
        /\ UNCHANGED <<rows, cache, private, permissions, source, lost>>
    BY DEF ImportFails, At
  <1>2. events' \in 0..MaxEvents
    BY Names DEF ImportFails, Happens, LibraryInv, Typed
  <1>3. QED BY <1>1, <1>2, StopsEvicting

-----------------------------------------------------------------------------
(* import_book: the row, and the cover it replaces. *)

LEMMA PersistKeeps ==
    ASSUME LibraryInv, Persist
    PROVE  LibraryInv'
  <1> USE DEF LibraryInv
  <1> DEFINE b == cmd.book
  <1>1. /\ cmd.op = "import" /\ cmd.pc = "persist" /\ cmd.pc \in BeforeRow
        /\ UNCHANGED <<cache, private, permissions, world>>
        /\ Updates(b, Merged) \/ Inserts(b, Merged)
        /\ Goes("swap")
    BY DEF Persist, At, BeforeRow
  <1>2. /\ cmd \in CmdRec /\ cmd.locator \in Locator /\ cmd.content \in Content /\ b \in Book
        /\ books[b] = cmd.old /\ cmd.probe \in CopyId /\ SpareCopies = {cmd.probe}
        /\ cmd.locator \in permissions \cup lost /\ cmd.probe \in Book \cup ImportProbe
    BY <1>1, Importing
  <1>3. /\ cmd.cover \in Path \cup {NoCover} /\ cmd.cover \notin Stored
        /\ cmd.cover # NoCover => cmd.cover[1] = b /\ covers[cmd.cover] > 0
        /\ cmd.victim = NoCover
        /\ \A q \in Path : covers[q] > 0 => q \in Stored \cup {cmd.cover, NoCover} \cup orphans
        /\ \A q \in orphans : covers[q] > 0 /\ q \notin Stored \cup {cmd.cover, NoCover}
        /\ orphans \subseteq Path
        /\ protected = [p \in Path |-> IF cmd.cover # NoCover /\ p \in Pair THEN 1 ELSE 0]
    BY <1>1, Evicting
  <1>4. /\ Merged \in Row /\ Merged.locator = cmd.locator /\ Merged.cover = cmd.cover
        /\ Merged.content = cmd.content /\ Merged.package \in {NoPackage, Package[cmd.content]}
    <2>1. (IF cmd.parsed THEN "available" ELSE "error") \in {"available", "missing", "error"}
      OBVIOUS
    <2>2. (IF cmd.parsed THEN Package[cmd.content] ELSE NoPackage)
             \in {Package[c] : c \in Content} \cup {NoPackage}
      BY <1>2
    <2>3. QED BY <1>2, <1>3, <2>1, <2>2 DEF Merged, Row
  <1>5. /\ cmd' \in CmdRec /\ cmd'.op = "import" /\ cmd'.pc = "swap"
        /\ cmd'.book = b /\ cmd'.locator = cmd.locator /\ cmd'.probe = cmd.probe
        /\ cmd'.content = cmd.content /\ cmd'.old = cmd.old /\ cmd'.cover = cmd.cover
        /\ cmd'.victim = NoCover
    BY <1>1, <1>2, <1>3, GoesOn DEF ImportSteps
  <1>6. /\ books' \in [Book -> Row \cup {NoRow}] /\ books'[b] = Merged
        /\ Rows' = Rows \cup {b} /\ \A c \in Rows \ {b} : books'[c] = books[c]
        /\ \A c \in Rows \ {b} : books[c].locator # Merged.locator
        /\ Ordered'
    <2> DEFINE row == Merged
    <2>1. row \in Row /\ (Updates(b, row) \/ Inserts(b, row))
      BY <1>1, <1>4
    <2> HIDE DEF row
    <2>2. /\ books' \in [Book -> Row \cup {NoRow}] /\ books'[b] = row
          /\ Rows' = Rows \cup {b} /\ \A c \in Rows \ {b} : books'[c] = books[c]
          /\ \A c \in Rows \ {b} : books[c].locator # row.locator
          /\ Ordered'
      BY <1>2, <2>1, RowWritten
    <2>3. QED BY <2>2 DEF row
  <1> HIDE DEF b
  <1>7. Typed'
    BY <1>1, <1>5, <1>6 DEF Typed, cache, private, world
  <1>8. Steps'
    BY <1>2, <1>5 DEF Steps, ImportSteps
  <1>9. Sourced'
    <2>1. \A c \in Rows' : books'[c].locator \in permissions' \cup lost'
      BY <1>1, <1>2, <1>4, <1>6 DEF Sourced, world, private
    <2>2. \A c \in Rows' : books'[c].package \in {NoPackage, Package[books'[c].content]}
      BY <1>4, <1>6 DEF Sourced
    <2>3. \A a, c \in Rows' : books'[a].locator = books'[c].locator => a = c
      BY <1>4, <1>6 DEF Sourced
    <2>4. QED BY <2>1, <2>2, <2>3 DEF Sourced
  <1>10. books'[b] # NoRow /\ books'[b].cover = cmd.cover /\ books'[b].locator = cmd.locator
    BY <1>4, <1>6, Names
  <1>11. Current'
    <2>1. ASSUME cmd.old # NoRow, cmd.old.locator # cmd.locator
          PROVE  Free(cmd.old.locator)'
      <3>1. b \in Rows /\ books[b].locator = cmd.old.locator
        BY <1>2, <2>1 DEF Rows
      <3>2. \A c \in Rows' : books'[c].locator # cmd.old.locator
        BY <1>6, <1>10, <2>1, <3>1 DEF Sourced
      <3>3. QED BY <1>5, <3>2 DEF Free
    <2>2. cmd.probe \in Book => cmd.probe = b
      BY <1>1 DEF Current, b
    <2>3. cmd'.pc \notin BeforeRow /\ cmd'.pc # "acquired" /\ cmd'.op # "delete"
      BY <1>5 DEF BeforeRow
    <2>4. permissions' = permissions /\ lost' = lost
      BY <1>1 DEF world
    <2>5. QED BY <1>2, <1>5, <1>10, <2>1, <2>2, <2>3, <2>4 DEF Current, At
  <1>12. /\ OldCover' = OldCover /\ Pair' = Pair /\ Keeping'
         /\ Protecting' <=> cmd.cover # NoCover
         /\ Spare' = {OldCover} /\ SpareCopies' = {cmd.probe}
    <2>1. OldCover' = OldCover /\ Pair' = Pair
      BY <1>5 DEF OldCover, Pair
    <2>2. /\ Keeping'
          /\ Protecting' <=> cmd.cover # NoCover
      BY <1>5 DEF Keeping, Protecting
    <2>3. Spare' = {OldCover'}
      BY <1>5, <2>2 DEF Spare, Keeping, At
    <2>4. SpareCopies' = {cmd.probe}
      BY <1>5 DEF SpareCopies, At
    <2>5. QED BY <2>1, <2>2, <2>3, <2>4
  <1>13. /\ \A q \in Stored : q # OldCover => q \in Stored'
         /\ cmd.cover # NoCover => cmd.cover \in Stored'
         /\ OldCover # NoCover => OldCover \in Stored
         /\ Stored' \subseteq (Stored \cup {cmd.cover}) \ ({OldCover} \ {cmd.cover})
    <2>1. OldCover = IF b \in Rows THEN books[b].cover ELSE NoCover
      BY <1>2 DEF OldCover, Rows
    <2>2. /\ \A q \in Stored : q # OldCover => q \in Stored'
          /\ cmd.cover # NoCover => cmd.cover \in Stored'
          /\ OldCover # NoCover => OldCover \in Stored
      BY <1>6, <1>10, <2>1 DEF Stored
    <2>3. \A c \in Rows \ {b} : books[c].cover # NoCover => books[c].cover # OldCover
      BY DEF Covered, b
    <2>4. Stored' \subseteq (Stored \cup {cmd.cover}) \ ({OldCover} \ {cmd.cover})
      BY <1>6, <1>10, <2>3 DEF Stored
    <2>5. QED BY <2>2, <2>4
  <1>14. Covered'
    <2>1. \A c \in Rows' : books'[c].cover # NoCover =>
              books'[c].cover[1] = c /\ covers[books'[c].cover] > 0
      BY <1>3, <1>6, <1>10 DEF Covered
    <2>2. OldCover # NoCover => OldCover[1] = b /\ OldCover # cmd.cover
      BY <1>3, <1>13 DEF Covered, b
    <2>3. /\ \A q \in Path : covers[q] > 0 => q \in Stored' \cup {OldCover} \cup orphans
          /\ \A q \in orphans : covers[q] > 0 /\ q \notin Stored' \cup {OldCover}
      BY <1>3, <1>13, Names
    <2>4. protected = [p \in Path |-> IF Protecting' /\ p \in Pair THEN 1 ELSE 0]
      BY <1>3, <1>12
    <2>5. QED BY <1>1, <1>5, <1>10, <1>12, <2>1, <2>2, <2>3, <2>4 DEF Covered, cache, private, BeforeRow
  <1>15. Budgeted' /\ Copied'
    <2>1. Weight' = Weight
      BY <1>1 DEF Weight, cache
    <2>2. Budgeted'
      BY <1>1, <1>5, <2>1 DEF Budgeted
    <2>3. b \notin strays
      BY <1>1 DEF Copied, b
    <2>4. cmd'.pc \notin BeforeRow
      BY <1>5 DEF BeforeRow
    <2>5. QED BY <1>1, <1>2, <1>6, <1>12, <2>2, <2>3, <2>4 DEF Copied, private
  <1>16. QED BY <1>6, <1>7, <1>8, <1>9, <1>11, <1>14, <1>15

LEMMA RemoveReplacedKeeps ==
    ASSUME LibraryInv, RemoveReplaced
    PROVE  LibraryInv'
  <1> USE DEF LibraryInv
  <1> DEFINE P == File(OldCover)
             I == {}
  <1>1. /\ cmd.op = "import" /\ cmd.pc = "replace" /\ cmd' = Idle
        /\ UNCHANGED <<rows, permissions, source, lost>> /\ GivesUp(P, I)
        /\ protected' = Unprotect(Pair)
    BY DEF RemoveReplaced, At, Ends
  <1>2. /\ Keeping /\ Spare = {OldCover} /\ SpareCopies = {} /\ Total(Weight) <= HardLimit
        /\ OldCover \in Path \cup {NoCover}
    BY <1>1 DEF Keeping, Spare, SpareCopies, Budgeted, At, OldCover, Typed, CmdRec, Row
  <1>3. /\ books[cmd.book].cover = cmd.cover
        /\ OldCover # NoCover => OldCover # cmd.cover /\ OldCover[1] = cmd.book
        /\ \A q \in Path : covers[q] > 0 => q \in Stored \cup {OldCover} \cup orphans
        /\ \A q \in orphans : covers[q] > 0 /\ q \notin Stored \cup {OldCover}
    BY <1>2 DEF Covered
  <1>4. Rows' = Rows /\ Stored' = Stored /\ books' = books /\ older' = older
    BY <1>1 DEF Rows, Stored, rows
  <1>5. P \in SUBSET Path /\ I \in SUBSET CopyId /\ P = {OldCover} \ {NoCover}
    BY <1>2 DEF File
  <1>6. /\ strays \cap Rows = {} /\ copies \subseteq Rows \cup strays /\ I = {}
        /\ orphans \subseteq Path
    BY <1>2 DEF Copied, Typed
  <1> HIDE DEF P, I
  <1>7. /\ covers' \in [Path -> Nat]
        /\ \A p \in Path \ P : covers'[p] = covers[p]
        /\ \A p \in P : covers'[p] > 0 => p \in orphans'
        /\ orphans' \subseteq orphans \cup P /\ orphans \subseteq orphans'
        /\ \A p \in orphans' : covers'[p] > 0
        /\ Weight \in [Path -> Nat] /\ Weight' \in [Path -> Nat]
        /\ \A p \in Path : Weight'[p] <= Weight[p]
        /\ copies' \subseteq CopyId /\ strays' \subseteq CopyId
        /\ copies' \subseteq (copies \ I) \cup Rows \cup strays' /\ strays \subseteq strays' \cup I
        /\ strays' \cap Rows = {} /\ events' \in 0..MaxEvents
    BY <1>1, <1>3, <1>4, <1>5, <1>6, GivingUp
  <1>8. protected' = [p \in Path |-> 0]
    BY <1>1 DEF Covered, Unprotect
  <1>9. Typed' /\ Ordered' /\ Sourced'
    BY <1>1, <1>4, <1>5, <1>6, <1>7, <1>8, IdleIsTyped DEF Typed, Ordered, Sourced
  <1>10. \A b \in Rows : books[b].cover # NoCover =>
             books[b].cover[1] = b /\ covers'[books[b].cover] > 0
    <2>1. \A b \in Rows : books[b].cover # NoCover =>
              /\ books[b].cover \in Path
              /\ books[b].cover[1] = b /\ covers[books[b].cover] > 0
      BY DEF Covered, Typed, Rows, Row
    <2>2. \A b \in Rows : books[b].cover # NoCover => books[b].cover \notin P
      BY <1>3, <1>5, <2>1
    <2>3. QED BY <1>7, <2>1, <2>2
  <1>11. /\ \A p \in Path : covers'[p] > 0 => p \in Stored \cup orphans'
         /\ \A p \in orphans' : covers'[p] > 0 /\ p \notin Stored
    <2>1. \A p \in P : p \notin Stored
      <3>1. OldCover # NoCover => OldCover \notin Stored
        BY <1>3 DEF Covered, Stored
      <3>2. QED BY <1>5, <3>1
    <2>2. QED BY <1>3, <1>5, <1>6, <1>7, <2>1, Names
  <1>12. Total(Weight') <= HardLimit
    BY <1>2, <1>7, LessCovers
  <1>13. copies' \subseteq Rows' \cup strays' /\ strays' \cap Rows' = {}
    BY <1>4, <1>6, <1>7
  <1>14. \A p \in Path : protected'[p] = 0
    BY <1>8
  <1>15. QED BY <1>1, <1>4, <1>9, <1>10, <1>11, <1>12, <1>13, <1>14, EndsIdle

-----------------------------------------------------------------------------
(* Every step keeps the invariant. *)

LEMMA LibraryStarts == Init => LibraryInv
  <1> SUFFICES ASSUME Init PROVE LibraryInv
    OBVIOUS
  <1> USE DEF Init
  <1>1. Rows = {} /\ Stored = {}
    BY DEF Rows, Stored
  <1>2. Typed
    <2>1. books \in [Book -> Row \cup {NoRow}]
      OBVIOUS
    <2>2. covers \in [Path -> Nat] /\ protected \in [Path -> Nat]
      OBVIOUS
    <2>3. source \in [Locator -> Content \cup {NoContent}]
      BY LibraryAssumption
    <2>4. events \in 0..MaxEvents
      BY Names
    <2>5. QED BY <2>1, <2>2, <2>3, <2>4, IdleIsTyped DEF Typed
  <1>3. Steps /\ Ordered /\ Sourced /\ Current
    BY <1>1, IdleIsTyped DEF Steps, Ordered, Sourced, Current, At, IsOrder
  <1>4. Spare = {} /\ SpareCopies = {} /\ ~Protecting /\ ~Keeping /\ OldCover = NoCover
    BY IdleIsTyped DEF Spare, SpareCopies, Protecting, Keeping, At, OldCover
  <1>5. Covered
    BY <1>1, <1>4, IdleIsTyped DEF Covered
  <1>6. Budgeted
    <2>1. Total(Weight) = 0
      <3>1. Weight \in [Path -> Nat] /\ \A p \in Path : Weight[p] = 0
        BY DEF Weight
      <3>2. QED BY <3>1, TotalOfZeros
    <2>2. QED BY <2>1, IdleIsTyped, Names DEF Budgeted
  <1>7. Copied
    BY IdleIsTyped DEF Copied
  <1>8. QED BY <1>2, <1>3, <1>5, <1>6, <1>7 DEF LibraryInv

LEMMA LibraryStays ==
    ASSUME LibraryInv, UNCHANGED vars
    PROVE  LibraryInv'
  <1> USE DEF LibraryInv
  <1>1. /\ books' = books /\ older' = older /\ covers' = covers /\ protected' = protected
        /\ orphans' = orphans /\ strays' = strays
        /\ copies' = copies /\ permissions' = permissions /\ source' = source /\ lost' = lost
        /\ events' = events /\ cmd' = cmd
    BY DEF vars, rows, cache, private, world
  <1>2. Typed' /\ Steps' /\ Ordered' /\ Sourced' /\ Current'
    BY <1>1 DEF Typed, Steps, Ordered, Sourced, Current, Free, Rows, At
  <1>3. Covered' /\ Budgeted' /\ Copied'
    BY <1>1 DEF Covered, Budgeted, Weight, Copied, Spare, SpareCopies, Protecting, Keeping, Pair, OldCover,
                Stored, Rows, At
  <1>4. QED BY <1>2, <1>3

LEMMA LibrarySteps == LibraryInv /\ [Next]_vars => LibraryInv'
  <1> SUFFICES ASSUME LibraryInv, [Next]_vars PROVE LibraryInv'
    OBVIOUS
  <1>1. CASE Import
    BY <1>1, ImportStartKeeps, IdentifyKeeps, ExtractCoverKeeps, CoverFailsKeeps, AdmitKeeps,
       EvictRowKeeps, EvictFileKeeps, AdmittedKeeps, ImportFailsKeeps, DiscardKeeps,
       PersistKeeps, RemoveReplacedKeeps DEF Import
  <1>2. CASE Relocation
    BY <1>2, RelocateStartKeeps, RelocationEnds, RelocateKeeps, RelocateFailsKeeps DEF Relocation
  <1>3. CASE Deletion
    BY <1>3, DeleteKeeps, ForgetKeeps, ReleaseDeletedKeeps DEF Deletion
  <1>4. CASE \E b \in Book : OpenMissing(b)
    BY <1>4, OpenMissingKeeps
  <1>5. CASE BreakOff \/ SwapCopy \/ ReleaseOld
    BY <1>5, BreakOffKeeps, SwapCopyKeeps, ReleaseOldKeeps
  <1>6. CASE Environment
    BY <1>6, SourceChangesKeeps, RevokeKeeps, RestartKeeps DEF Environment
  <1>7. CASE UNCHANGED vars
    BY <1>7, LibraryStays
  <1>8. QED BY <1>1, <1>2, <1>3, <1>4, <1>5, <1>6, <1>7 DEF Next

\* The inductive invariant: what a command has read is still so when it uses it, and a file
\* or copy that no row refers to is the command's or was left by a failure: one of an unlink,
\* or one that ended a command between its copying and its clean-up.
THEOREM LibraryInvariant == Spec => []LibraryInv
  BY LibraryStarts, LibrarySteps, PTL DEF Spec

-----------------------------------------------------------------------------
(* What follows. *)

\* No two books have a source in common and none refers to a cover that is not there:
\* import_book, the relocation, the eviction and the two reconciliations at the start.
THEOREM BooksHoldTogether == Spec => []LibraryOK
  <1>1. ASSUME LibraryInv PROVE LibraryOK
    <2> USE <1>1 DEF LibraryInv
    <2>1. IsOrder(older, Rows)
      BY DEF Ordered
    <2>2. ASSUME NEW l \in Locator PROVE Cardinality(Holders(l)) <= 1
      <3>1. CASE Holders(l) = {}
        BY <3>1, FS_EmptySet
      <3>2. CASE Holders(l) # {}
        <4>1. PICK b \in Holders(l) : TRUE
          BY <3>2
        <4>2. Holders(l) = {b}
          BY <4>1 DEF Holders, Sourced
        <4>3. QED BY <4>2, FS_Singleton
      <3>3. QED BY <3>1, <3>2
    <2>3. \A p \in Stored : covers[p] > 0
      BY DEF Stored, Covered
    <2>4. QED BY <2>1, <2>2, <2>3 DEF LibraryOK, Typed, Ordered
  <1>2. QED BY <1>1, LibraryInvariant, PTL

\* A finished, refused or failed command leaves no cover file, no private copy and no
\* protection behind, except for the files whose removal failed and the copies that a
\* failure before the clean-up left: discard_candidate, remove_replaced_cover and the
\* invalidations, the evictions that cannot unlink, and the early returns of import_book,
\* relocate_book and acquire.
THEOREM CommandsCleanUp == Spec => []NothingLeftBehind
  <1>1. ASSUME LibraryInv PROVE NothingLeftBehind
    <2>1. Stored \subseteq {p \in Path : covers[p] > 0}
      BY <1>1 DEF LibraryInv, Typed, Covered, Stored, Rows, Row
    <2>2. orphans \subseteq Path
      BY <1>1 DEF LibraryInv, Typed
    <2>3. QED BY <1>1, <2>1, <2>2, StartsIdle DEF NothingLeftBehind, Guarded
  <1>2. QED BY <1>1, LibraryInvariant, PTL

\* Without the files whose removal failed, the covers fit the hard limit between commands
\* and from an admission on, whatever the sizes of the covers and the limits:
\* admit_candidate and enforce_limits_locked, an eviction that cannot unlink included.
THEOREM CoversFit == Spec => []CoverBudgetHeld
  <1>1. ASSUME LibraryInv PROVE CoverBudgetHeld
    <2> USE <1>1 DEF LibraryInv
    <2> DEFINE S == Path \ orphans
    <2>1. Total(Weight) = Total([p \in S |-> covers[p]])
      <3>1. /\ covers \in [Path -> Nat] /\ S \in SUBSET Path /\ S \cap orphans = {}
            /\ \A p \in Path : covers[p] > 0 => p \in S \cup orphans
        BY DEF Typed
      <3> HIDE DEF S
      <3>2. QED BY <3>1, Weighs
    <2>2. QED BY <2>1, IdleIsTyped DEF Budgeted, CoverBudgetHeld
  <1>2. QED BY <1>1, LibraryInvariant, PTL

\* No command gives back the permission of a source that a book has:
\* release_source_permission and release_rejected_candidate.
THEOREM AccessIsKept == Spec => []BooksKeepAccess
  <1>1. ASSUME LibraryInv PROVE BooksKeepAccess
    BY <1>1 DEF LibraryInv, Sourced, BooksKeepAccess
  <1>2. QED BY <1>1, LibraryInvariant, PTL

\* The steps that leave every row's source alone.
LEMMA SourcesStay ==
    ASSUME LibraryInv, [Next]_vars, ~Persist, ~Relocate,
           NEW b \in Rows, books'[b] # NoRow
    PROVE  books'[b].locator = books[b].locator
  <1>1. b \in Book /\ books[b] \in Row /\ books \in [Book -> Row \cup {NoRow}]
    BY DEF LibraryInv, Typed, Rows
  <1>2. CASE books' = books
    BY <1>2
  <1>3. ASSUME NEW c \in Book, OpenMissing(c) PROVE books'[b].locator = books[b].locator
    <2>1. /\ c \in Rows /\ books[c] \in Row
          /\ UpdatesBySource([books[c] EXCEPT !.status = "missing"])
      BY <1>3 DEF OpenMissing, LibraryInv, Typed, Rows
    <2>2. [books[c] EXCEPT !.status = "missing"].locator = books[c].locator
      BY <2>1 DEF Row
    <2> DEFINE row == [books[c] EXCEPT !.status = "missing"]
    <2>3. UpdatesBySource(row) /\ row.locator = books[c].locator
      BY <2>1, <2>2
    <2> HIDE DEF row
    <2>4. QED BY <1>1, <2>3 DEF UpdatesBySource, Holders
  <1>4. ASSUME NEW c \in Book, Delete(c) PROVE books'[b].locator = books[b].locator
    BY <1>1, <1>4 DEF Delete
  <1>5. CASE EvictRow
    BY <1>1, <1>5 DEF EvictRow, Row
  <1>6. CASE Restart
    <2>1. books'[b] \in {books[b], [books[b] EXCEPT !.cover = NoCover]}
      BY <1>1, <1>6 DEF Restart
    <2>2. QED BY <1>1, <2>1 DEF Row
  <1>7. CASE /\ ~EvictRow /\ ~Restart
             /\ \A c \in Book : ~OpenMissing(c) /\ ~Delete(c)
    BY <1>2, <1>7 DEF Next, Import, Relocation, Deletion, Environment, vars, rows, ImportStart,
        Identify, BreakOff, ExtractCover, CoverFails, Admit, EvictFile, Admitted, ImportFails,
        Discard, RemoveReplaced, RelocateStart, Refuse, RelocateFails, Reject, Forget, ReleaseDeleted, SwapCopy, ReleaseOld,
        SourceChanges, Revoke
  <1>8. QED BY <1>3, <1>4, <1>5, <1>6, <1>7

\* A book that gets another source stays the work its progress, notes and tags are about:
\* relocation_matches, for whatever the providers report and the packages say.
THEOREM BooksStayTheWork == Spec => WorkKept
  <1> DEFINE Kept == \A b \in Rows :
                         books'[b] # NoRow /\ books'[b].locator # books[b].locator
                             => Work[books'[b].content] = Work[books[b].content]
  <1>1. ASSUME LibraryInv, [Next]_vars PROVE Kept
    <2> SUFFICES ASSUME NEW b \in Rows, books'[b] # NoRow, books'[b].locator # books[b].locator
                 PROVE  Work[books'[b].content] = Work[books[b].content]
      OBVIOUS
    <2>1. b \in Book /\ books[b] \in Row /\ books \in [Book -> Row \cup {NoRow}]
      BY <1>1 DEF LibraryInv, Typed, Rows
    <2>2. CASE Persist
      <3>1. /\ At("import", "persist") /\ books' = [books EXCEPT ![cmd.book] = Merged]
        BY <2>2 DEF Persist, Updates, Inserts
      <3>2. b = cmd.book /\ books'[b] = Merged
        BY <2>1, <3>1
      <3>3. Merged.locator = cmd.locator /\ Merged.content = cmd.content
        BY DEF Merged
      <3>4. cmd.old = books[b] /\ cmd.old # NoRow
        BY <1>1, <3>1, <3>2 DEF LibraryInv, Current, At, BeforeRow, Rows
      <3>5. \/ cmd.old.locator = cmd.locator
            \/ Work[cmd.old.content] = Work[cmd.content]
        BY <1>1, <3>1, <3>4 DEF LibraryInv, Current, At, BeforeRow
      <3>6. QED BY <3>2, <3>3, <3>4, <3>5
    <2>3. CASE Relocate
      <3> DEFINE row == [cmd.old EXCEPT !.locator = cmd.locator, !.content = cmd.content,
                                        !.package = Package[cmd.content],
                                        !.status = "available"]
      <3>1. /\ At("relocate", "acquired") /\ books' = [books EXCEPT ![cmd.book] = row]
            /\ RelocationMatches(cmd.old, cmd.content)
        BY <2>3 DEF Relocate, Updates
      <3>2. /\ books[cmd.book] = cmd.old /\ cmd.old \in Row /\ cmd.content \in Content
            /\ cmd.book \in Rows
        BY <1>1, <3>1, Relocating DEF At
      <3>3. row.content = cmd.content
        BY <3>2 DEF Row
      <3> HIDE DEF row
      <3>4. b = cmd.book /\ books'[b] = row
        BY <2>1, <3>1
      <3>5. cmd.old.package \in {NoPackage, Package[cmd.old.content]}
        BY <1>1, <3>2 DEF LibraryInv, Sourced
      <3>6. Work[cmd.old.content] = Work[cmd.content]
        BY <3>1, <3>2, <3>5, MatchesAreCopies
      <3>7. QED BY <3>2, <3>3, <3>4, <3>6
    <2>4. QED BY <1>1, <2>2, <2>3, SourcesStay
  <1>2. QED BY <1>1, LibraryInvariant, PTL DEF Spec, WorkKept

===============================================================================
