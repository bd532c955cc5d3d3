------------------------ MODULE ReadingProgressProofs ------------------------
(***************************************************************************)
(* What the reader store keeps, for any number of books, sessions, page    *)
(* turns, settings changes and failures: the saved locations, what an open *)
(* book resumes from, the EPUB.js objects and the settings shown.          *)
(***************************************************************************)
EXTENDS ReadingProgress, SequenceTheorems, TLAPS

USE ProgressAssumption, NoBookAssumption

-----------------------------------------------------------------------------
(* The inductive invariant: the type invariant and six parts. *)

Current(g) == applies[g].session = session
Active == {"saving", "displaying", "rejected"}

\* Openings and settings changes belong to sessions; those of the current one are about the
\* book in the store, and await a write in the states that await one.
Linked ==
    /\ store.book # NoBook =>
           /\ session \in Session
           /\ opening[session].pc \in Awaiting \cup {"open", "failed"}
    /\ \A s \in Session :
           /\ s > session => opening[s] = Idle
           /\ opening[s].pc \in Awaiting \cup {"open"} => opening[s].book \in Book
           /\ s = session /\ opening[s].pc \in Awaiting \cup {"open"}
                  => opening[s].book = store.book
           /\ opening[s].pc = "retired" => s < session
           /\ opening[s].ahead > 0 => opening[s].pc = "chain"
    /\ \A g \in Apply :
           /\ applies[g].session <= session
           /\ applies[g].pc # "idle" => applies[g].session \in Session
           /\ Current(g) /\ applies[g].pc \notin {"idle", "done"}
                  => applies[g].book = store.book /\ store.book # NoBook
           /\ Current(g) /\ applies[g].pc \in Active => opening[session].pc = "open"
           /\ applies[g].ahead > 0 => applies[g].pc = "saving"

\* The EPUB.js objects alive are those of the current session, and the opening or the store
\* knows them.
Shown ==
    /\ ObjectsRetired
    /\ session \in live.books =>
           session \in Session /\ (store.epub \/ opening[session].pc \in Awaiting)
    /\ store.rendition # NoRendition =>
           /\ session \in Session /\ store.epub
           /\ opening[session].pc \in Awaiting \cup {"open"}
           /\ store.rendition[1] = session
           /\ store.rendition[2] # 0 => Current(store.rendition[2])
    /\ session \in Session =>
           /\ opening[session].pc \in Awaiting => session \in live.books
           /\ opening[session].pc = "loading" => store.rendition = NoRendition
           /\ opening[session].pc \in Awaiting \ {"loading"} => store.rendition = <<session, 0>>
           /\ opening[session].pc = "open" => store.rendition # NoRendition

\* Every location is one of the book it is kept for.
Placed ==
    /\ store.cfi # None => store.book # NoBook /\ store.cfi[1] = store.book
    /\ timer # None => timer = store.cfi
    /\ \A s \in Session :
           /\ opening[s].target # None => opening[s].target[1] = opening[s].book
           /\ opening[s].pc \in {"displaying", "open"} => opening[s].target # None
    /\ \A g \in Apply :
           /\ applies[g].target # None => applies[g].target[1] = applies[g].book
           /\ applies[g].pc = "displaying" => applies[g].target # None
    /\ LocationsStayApart

\* A chain sends its writes one by one, and its last is the last location reported, unless
\* the timer has that.
Chained ==
    /\ \A b \in Book : \A i \in DOMAIN writes[b] : writes[b][i].status = "queued" <=> i # 1
    /\ \A b \in Book :
           writes[b] # <<>> /\ writes[b][1].status = "done" => progress[b] = writes[b][1].cfi
    /\ store.cfi # None => reached[store.book] = store.cfi
    /\ \A b \in Book :
           timer = None \/ store.book # b =>
               /\ writes[b] # <<>> => writes[b][Len(writes[b])].cfi = reached[b]
               /\ writes[b] = <<>> /\ b \notin failed => progress[b] = reached[b]

\* While a book is being opened nothing is written for it that was not on its way before,
\* up to the display of what was read.
Resuming ==
    \A s \in Session \cap {session} :
        LET o == opening[s]
        IN  /\ o.pc \in {"loading", "chain", "reading", "read"} => store.cfi = None
            /\ o.pc = "chain" => o.ahead = Len(writes[o.book])
            /\ o.pc \in {"reading", "read"} => writes[o.book] = <<>>
            /\ o.pc \in {"loading", "chain", "reading"} /\ ~o.asked => o.target = None
            /\ o.asked => o.target # None /\ o.target[2] # 0
            /\ o.pc = "read" /\ ~o.asked => o.target = progress[o.book]
            /\ o.pc = "displaying" =>
                   /\ store.cfi \in {None, o.target}
                   /\ \A i \in DOMAIN writes[o.book] : writes[o.book][i].cfi = o.target
                   /\ o.target = StartOf(o.book)
                          => progress[o.book] \in {None, StartOf(o.book)}

\* Settings changes of a session run one after the other, and unless something failed the
\* rendition has the flow of the store when none is being replaced.
Settled ==
    /\ \A b \in Book : \A i \in DOMAIN writes[b] : writes[b][i].status = "failed" => errors > 0
    /\ \A s \in Session : opening[s].pc \in {"rejected", "failed"} => errors > 0
    /\ \A g \in Apply : applies[g].pc = "rejected" => errors > 0
    /\ \A g, h \in Apply : h < g /\ applies[g].pc # "idle" => applies[h].pc # "idle"
    /\ \A g, h \in Apply :
           h < g /\ applies[g].session = applies[h].session
                 /\ applies[g].pc \in Active \cup {"done"}
               => applies[h].pc = "done"
    /\ errors = 0 =>
           /\ \A g \in Apply : Current(g) /\ applies[g].pc \in {"saving", "displaying"}
                  => store.flow = applies[g].flow
           /\ \/ store.built = store.flow
              \/ \E g \in Apply : Current(g) /\ applies[g].pc = "saving" /\ applies[g].rebuild
           /\ \A g \in Apply :
                  /\ Current(g) /\ applies[g].pc = "done"
                  /\ \A h \in Apply : h > g => applies[h].pc = "idle"
                  => store.flow = applies[g].flow

Inv == TypeOK /\ Linked /\ Shown /\ Placed /\ Chained /\ Resuming /\ Settled

-----------------------------------------------------------------------------
(* The data. *)

Stores == [book: Book \cup {NoBook}, cfi: Cfi \cup {None}, epub: BOOLEAN,
           rendition: Rendition \cup {NoRendition}, built: Flow, flow: Flow]
Openings == [pc: OpeningPc, book: Book \cup {NoBook}, asked: BOOLEAN,
             target: Cfi \cup {None}, ahead: Nat]
ApplyPc == {"idle", "queued", "saving", "rejected", "displaying", "done"}
Settlings == [pc: ApplyPc, session: 0..MaxSessions, book: Book \cup {NoBook}, flow: Flow,
              rebuild: BOOLEAN, target: Cfi \cup {None}, ahead: Nat]
Chains == [Book -> Seq(Write)]

\* The type invariant, one conjunct for each variable.
LEMMA Types ==
    TypeOK <=> /\ progress \in [Book -> Cfi \cup {None}]
               /\ session \in 0..MaxSessions
               /\ store \in Stores
               /\ timer \in Cfi \cup {None}
               /\ writes \in Chains
               /\ opening \in [Session -> Openings]
               /\ applies \in [Apply -> Settlings]
               /\ live \in [books: SUBSET Session, renditions: SUBSET Rendition]
               /\ turns \in 0..MaxTurns
               /\ errors \in 0..MaxErrors
               /\ reached \in [Book -> Cfi \cup {None}]
               /\ failed \subseteq Book
               /\ \A s \in Session : Awaits(opening[s], writes)
               /\ \A g \in Apply : Awaits(applies[g], writes)
    BY DEF TypeOK, Stores, Openings, Settlings, ApplyPc, Chains

LEMMA TypesKept ==
    TypeOK' <=> /\ progress' \in [Book -> Cfi \cup {None}]
                /\ session' \in 0..MaxSessions
                /\ store' \in Stores
                /\ timer' \in Cfi \cup {None}
                /\ writes' \in Chains
                /\ opening' \in [Session -> Openings]
                /\ applies' \in [Apply -> Settlings]
                /\ live' \in [books: SUBSET Session, renditions: SUBSET Rendition]
                /\ turns' \in 0..MaxTurns
                /\ errors' \in 0..MaxErrors
                /\ reached' \in [Book -> Cfi \cup {None}]
                /\ failed' \subseteq Book
                /\ \A s \in Session : Awaits(opening'[s], writes')
                /\ \A g \in Apply : Awaits(applies'[g], writes')
    BY DEF TypeOK, Stores, Openings, Settlings, ApplyPc, Chains

LEMMA Bounds ==
    /\ MaxPage \in Nat /\ MaxSessions \in Nat /\ MaxTurns \in Nat /\ MaxApplies \in Nat
    /\ MaxErrors \in Nat
    BY DEF ProgressAssumption

LEMMA CfiParts ==
    /\ \A c \in Cfi : c[1] \in Book /\ c[2] \in 0..MaxPage /\ c # None
    /\ \A b \in Book, p \in 0..MaxPage :
           <<b, p>> \in Cfi /\ <<b, p>>[1] = b /\ <<b, p>>[2] = p
  <1>1. ASSUME NEW c \in Cfi PROVE c[1] \in Book /\ c[2] \in 0..MaxPage /\ c # None
    <2>1. PICK b \in Book, p \in 0..MaxPage : c = <<b, p>>
      BY DEF Cfi
    <2>2. <<b, p>> # <<>>
      OBVIOUS
    <2>3. QED BY <2>1, <2>2 DEF None
  <1>2. QED BY <1>1 DEF Cfi

LEMMA Starts ==
    ASSUME NEW b \in Book
    PROVE  /\ StartOf(b) \in Cfi /\ StartOf(b) # None
           /\ StartOf(b)[1] = b /\ StartOf(b)[2] = 0
  <1>1. 0 \in 0..MaxPage
    BY Bounds
  <1>2. QED BY <1>1, CfiParts DEF StartOf

LEMMA RenditionParts ==
    /\ \A r \in Rendition : r[1] \in Session /\ r[2] \in 0..MaxApplies /\ r # NoRendition
    /\ \A s \in Session, g \in 0..MaxApplies :
           <<s, g>> \in Rendition /\ <<s, g>>[1] = s /\ <<s, g>>[2] = g
  <1>1. ASSUME NEW r \in Rendition
        PROVE  r[1] \in Session /\ r[2] \in 0..MaxApplies /\ r # NoRendition
    <2>1. PICK s \in Session, g \in 0..MaxApplies : r = <<s, g>>
      BY DEF Rendition
    <2>2. <<s, g>> # <<>>
      OBVIOUS
    <2>3. QED BY <2>1, <2>2 DEF NoRendition
  <1>2. QED BY <1>1 DEF Rendition

LEMMA Resting ==
    /\ Idle \in Openings /\ Idle.pc = "idle" /\ Idle.book = NoBook /\ Idle.asked = FALSE
    /\ Idle.target = None /\ Idle.ahead = 0
    /\ Closed \in Stores /\ Closed.book = NoBook /\ Closed.cfi = None /\ Closed.epub = FALSE
    /\ Closed.rendition = NoRendition /\ Closed.built = "paginated"
    /\ Closed.flow = "paginated"
    /\ NoApply \in Settlings /\ NoApply.pc = "idle" /\ NoApply.session = 0
    /\ NoApply.book = NoBook /\ NoApply.target = None /\ NoApply.ahead = 0
    BY Bounds DEF Idle, Openings, OpeningPc, Awaiting, Closed, Stores, Flow, NoApply, Settlings,
                  ApplyPc

LEMMA OpeningStates ==
    /\ Awaiting = {"loading", "chain", "rejected", "reading", "read", "displaying"}
    /\ OpeningPc = Awaiting \cup {"idle", "open", "failed", "retired"}
    /\ Active = {"saving", "displaying", "rejected"}
    BY DEF Awaiting, OpeningPc, Active

-----------------------------------------------------------------------------
(* Chains of writes. *)

LEMMA QueuedChain ==
    ASSUME NEW w \in Chains, NEW b \in Book, NEW c \in Cfi
    PROVE  LET v == Queued(w, b, c)
           IN  /\ v \in Chains
               /\ \A a \in Book : a # b => v[a] = w[a]
               /\ v[b] # <<>> /\ Len(v[b]) = Len(w[b]) + 1
               /\ DOMAIN v[b] = 1..(Len(w[b]) + 1)
               /\ \A i \in 1..Len(w[b]) : v[b][i] = w[b][i]
               /\ v[b][Len(v[b])].cfi = c
               /\ v[b][Len(v[b])].status = IF w[b] = <<>> THEN "sent" ELSE "queued"
  <1> DEFINE new == [cfi |-> c, status |-> IF w[b] = <<>> THEN "sent" ELSE "queued"]
             v == Queued(w, b, c)
  <1>1. new \in Write /\ new.cfi = c /\ new.status = IF w[b] = <<>> THEN "sent" ELSE "queued"
    BY DEF Write
  <1>2. v = [w EXCEPT ![b] = Append(@, new)]
    BY DEF Queued
  <1>3. w[b] \in Seq(Write)
    BY DEF Chains
  <1> HIDE DEF new
  <1>4. /\ Append(w[b], new) \in Seq(Write) /\ Append(w[b], new) # <<>>
        /\ Len(Append(w[b], new)) = Len(w[b]) + 1
        /\ \A i \in 1..Len(w[b]) : Append(w[b], new)[i] = w[b][i]
        /\ Append(w[b], new)[Len(w[b]) + 1] = new
    BY <1>1, <1>3, AppendProperties
  <1>5. v[b] = Append(w[b], new) /\ \A a \in Book : a # b => v[a] = w[a]
    BY <1>2 DEF Chains
  <1>6. v \in Chains
    BY <1>2, <1>4 DEF Chains
  <1>7. DOMAIN v[b] = 1..(Len(w[b]) + 1)
    BY <1>4, <1>5, LenProperties
  <1> HIDE DEF v
  <1>8. QED BY <1>1, <1>4, <1>5, <1>6, <1>7 DEF v

LEMMA ReleasedChain ==
    ASSUME NEW q \in Seq(Write), q # <<>>, NEW rejected \in BOOLEAN
    PROVE  LET r == Released(Tail(q), rejected)
           IN  /\ r \in Seq(Write) /\ Len(r) = Len(q) - 1 /\ Len(q) \in Nat \ {0}
               /\ DOMAIN r = 1..Len(r) /\ DOMAIN q = 1..Len(q)
               /\ r = <<>> <=> Len(q) = 1
               /\ \A i \in DOMAIN r : i + 1 \in DOMAIN q /\ r[i].cfi = q[i + 1].cfi
               /\ \A i \in DOMAIN r : r[i].status = IF i = 1 /\ q[i + 1].status = "queued"
                                                    THEN "sent" ELSE q[i + 1].status
  <1> DEFINE t == Tail(q)
             sent == [t[1] EXCEPT !.status = "sent"]
             r == Released(t, rejected)
  <1>1. /\ t \in Seq(Write) /\ Len(t) = Len(q) - 1 /\ Len(q) \in Nat \ {0}
        /\ \A i \in 1..Len(t) : t[i] = q[i + 1]
        /\ DOMAIN t = 1..Len(t) /\ DOMAIN q = 1..Len(q)
    BY HeadTailProperties, EmptySeq, LenProperties
  <1> HIDE DEF t
  <1>2. CASE t # <<>> /\ t[1].status = "queued"
    <2>1. Head(t) = t[1] /\ 1 \in DOMAIN t
      BY <1>1, <1>2, EmptySeq
    <2>2. r = [t EXCEPT ![1] = sent]
      BY <1>2, <2>1 DEF Released
    <2>3. t[1] \in Write
      BY <1>1, <2>1, ElementOfSeq
    <2>4. sent \in Write /\ sent.status = "sent" /\ sent.cfi = t[1].cfi
      BY <2>3 DEF Write
    <2> HIDE DEF sent
    <2>5. r \in Seq(Write) /\ Len(r) = Len(t)
      BY <1>1, <2>1, <2>2, <2>4, ExceptSeq
    <2>6. r[1] = sent /\ \A i \in DOMAIN t : i # 1 => r[i] = t[i]
      BY <1>1, <2>1, <2>2
    <2>7. DOMAIN r = 1..Len(r)
      BY <2>5, LenProperties
    <2> HIDE DEF r
    <2>8. r # <<>>
      BY <1>1, <2>1, <2>5
    <2>9. Len(q) # 1
      BY <1>1, <2>1
    <2>10. ASSUME NEW i \in DOMAIN r
           PROVE  /\ i + 1 \in DOMAIN q /\ r[i].cfi = q[i + 1].cfi
                  /\ r[i].status = IF i = 1 /\ q[i + 1].status = "queued"
                                   THEN "sent" ELSE q[i + 1].status
      <3>1. i \in 1..Len(t) /\ i + 1 \in DOMAIN q /\ t[i] = q[i + 1]
        BY <1>1, <2>5, <2>7
      <3>2. CASE i = 1
        BY <1>2, <2>4, <2>6, <3>1, <3>2
      <3>3. CASE i # 1
        BY <1>1, <2>6, <3>1, <3>3
      <3>4. QED BY <3>2, <3>3
    <2>11. QED BY <1>1, <2>5, <2>7, <2>8, <2>9, <2>10 DEF r, t
  <1>3. CASE ~(t # <<>> /\ t[1].status = "queued")
    <2>1. r = t
      <3>1. t # <<>> => Head(t) = t[1]
        BY <1>1
      <3>2. QED BY <1>3, <3>1 DEF Released
    <2>2. t = <<>> <=> Len(q) = 1
      BY <1>1, EmptySeq
    <2>3. \A i \in DOMAIN t : i + 1 \in DOMAIN q
      BY <1>1
    <2>4. t # <<>> => t[1].status # "queued"
      BY <1>3
    <2> HIDE DEF r
    <2>5. ASSUME NEW i \in DOMAIN t
          PROVE  t[i].status = IF i = 1 /\ q[i + 1].status = "queued"
                               THEN "sent" ELSE q[i + 1].status
      <3>1. t[i] = q[i + 1] /\ (i = 1 => t # <<>>)
        BY <1>1, <2>2
      <3>2. QED BY <2>4, <3>1
    <2>6. QED BY <1>1, <2>1, <2>2, <2>3, <2>5 DEF r, t
  <1>4. QED BY <1>2, <1>3

-----------------------------------------------------------------------------
(* The initial state. *)

LEMMA ProgressStarts == Init => Inv
  <1> SUFFICES ASSUME Init PROVE Inv
    OBVIOUS
  <1>1. /\ session = 0 /\ store = Closed /\ timer = None /\ errors = 0 /\ failed = {}
        /\ live.books = {} /\ live.renditions = {} /\ reached = progress
        /\ \A b \in Book : writes[b] = <<>> /\ progress[b] = None
        /\ \A s \in Session : opening[s] = Idle
        /\ \A g \in Apply : applies[g] = NoApply
    BY DEF Init
  <1>2. 0 \notin Session /\ MaxSessions \in Nat
    BY Bounds DEF Session
  <1>3. TypeOK
    <2>1. /\ progress \in [Book -> Cfi \cup {None}] /\ reached \in [Book -> Cfi \cup {None}]
          /\ opening \in [Session -> Openings] /\ applies \in [Apply -> Settlings]
          /\ live \in [books: SUBSET Session, renditions: SUBSET Rendition]
          /\ writes \in Chains
      BY Resting DEF Init, Chains
    <2>2. session \in 0..MaxSessions /\ turns \in 0..MaxTurns /\ errors \in 0..MaxErrors
      BY Bounds DEF Init
    <2>3. /\ \A s \in Session : Awaits(opening[s], writes)
          /\ \A g \in Apply : Awaits(applies[g], writes)
      BY <1>1, Resting DEF Awaits
    <2>4. QED BY <1>1, <2>1, <2>2, <2>3, Resting, Types
  <1>4. Linked
    BY <1>1, <1>2, Resting, OpeningStates DEF Linked, Current
  <1>5. Shown
    BY <1>1, <1>2, Resting DEF Shown, ObjectsRetired
  <1>6. Placed
    BY <1>1, Resting DEF Placed, LocationsStayApart
  <1>7. Chained
    BY <1>1, Resting DEF Chained
  <1>8. Resuming
    BY <1>1, <1>2 DEF Resuming
  <1>9. Settled
    BY <1>1, <1>2, Resting, OpeningStates DEF Settled, Current
  <1>10. QED BY <1>3, <1>4, <1>5, <1>6, <1>7, <1>8, <1>9 DEF Inv

-----------------------------------------------------------------------------
(* Openings and closings. *)

\* What is appended when a book is left, or the reader is suspended.
LEMMA FlushedChain ==
    ASSUME Inv
    PROVE  /\ Flushed(writes) \in Chains
           /\ timer = None => Flushed(writes) = writes
           /\ timer # None =>
                 /\ store.book \in Book /\ store.cfi \in Cfi /\ timer = store.cfi
                 /\ Flushed(writes) = Queued(writes, store.book, store.cfi)
  <1>1. store \in Stores /\ writes \in Chains
    BY Types DEF Inv
  <1>2. store.book \in Book \cup {NoBook} /\ store.cfi \in Cfi \cup {None}
    BY <1>1 DEF Stores
  <1>3. timer = None => Flushed(writes) = writes
    BY DEF Flushed
  <1>4. CASE timer # None
    <2>1. store.cfi = timer /\ store.cfi \in Cfi /\ store.book \in Book
      BY <1>2, <1>4 DEF Inv, Placed
    <2>2. Flushed(writes) = Queued(writes, store.book, store.cfi)
      BY <1>4, <2>1 DEF Flushed
    <2>3. QED BY <1>1, <1>4, <2>1, <2>2, QueuedChain
  <1>5. QED BY <1>1, <1>3, <1>4

\* A chain that got longer still has whatever is awaited, and keeps its order.
Longer(v, b, c) ==
    /\ v \in Chains
    /\ \A a \in Book : a # b => v[a] = writes[a]
    /\ v[b] # <<>> /\ Len(v[b]) = Len(writes[b]) + 1
    /\ DOMAIN v[b] = 1..(Len(writes[b]) + 1)
    /\ \A i \in 1..Len(writes[b]) : v[b][i] = writes[b][i]
    /\ v[b][Len(v[b])].cfi = c
    /\ v[b][Len(v[b])].status = IF writes[b] = <<>> THEN "sent" ELSE "queued"

LEMMA ChainLengths ==
    ASSUME TypeOK, NEW b \in Book
    PROVE  /\ writes[b] \in Seq(Write) /\ Len(writes[b]) \in Nat
           /\ DOMAIN writes[b] = 1..Len(writes[b])
           /\ writes[b] = <<>> <=> Len(writes[b]) = 0
  <1>1. writes[b] \in Seq(Write)
    BY Types DEF Chains
  <1>2. QED BY <1>1, LenProperties, EmptySeq

LEMMA LongerChain ==
    ASSUME Inv, NEW b \in Book, NEW c \in Cfi, NEW v, v = Queued(writes, b, c)
    PROVE  Longer(v, b, c)
  <1>1. writes \in Chains
    BY Types DEF Inv
  <1>2. QED BY SMTT(30), <1>1, QueuedChain DEF Longer

LEMMA LongerAwaits ==
    ASSUME Inv, NEW b \in Book, NEW c \in Cfi, Longer(writes', b, c),
           NEW p, Awaits(p, writes), p.ahead \in Nat
    PROVE  Awaits(p, writes')
  <1> SUFFICES ASSUME p.ahead > 0 PROVE p.book \in Book /\ p.ahead <= Len(writes'[p.book])
    BY DEF Awaits
  <1>1. p.book \in Book /\ p.ahead <= Len(writes[p.book])
    BY DEF Awaits
  <1>2. Len(writes[p.book]) \in Nat
    BY <1>1, ChainLengths DEF Inv
  <1>3. CASE p.book = b
    BY <1>1, <1>2, <1>3 DEF Longer
  <1>4. CASE p.book # b
    BY <1>1, <1>4 DEF Longer
  <1>5. QED BY <1>1, <1>3, <1>4

\* The parts of the invariant that are only about chains, when one gets longer.
LEMMA LongerIsChained ==
    ASSUME Inv, NEW b \in Book, NEW c \in Cfi, Longer(writes', b, c)
    PROVE  /\ \A a \in Book : \A i \in DOMAIN writes'[a] :
                 writes'[a][i].status = "queued" <=> i # 1
           /\ \A a \in Book : writes'[a] # <<>> /\ writes'[a][1].status = "done"
                 => progress[a] = writes'[a][1].cfi
           /\ \A a \in Book : \A i \in DOMAIN writes'[a] :
                 writes'[a][i].status = "failed" => errors > 0
           /\ c[1] = b => \A a \in Book : \A i \in DOMAIN writes'[a] : writes'[a][i].cfi[1] = a
  <1>1. \A a \in Book \ {b} : writes'[a] = writes[a]
    BY DEF Longer
  <1> DEFINE n == Len(writes[b])
             v == writes'[b]
  <1>2. /\ n \in Nat /\ DOMAIN writes[b] = 1..n /\ (writes[b] = <<>> <=> n = 0)
    BY ChainLengths DEF Inv
  <1>3. /\ DOMAIN v = 1..(n + 1) /\ v[n + 1].cfi = c
        /\ v[n + 1].status = IF n = 0 THEN "sent" ELSE "queued"
        /\ \A i \in 1..n : v[i] = writes[b][i]
    BY <1>2 DEF Longer
  <1> HIDE DEF n, v
  <1>4. \A i \in DOMAIN v : /\ v[i].status = "queued" <=> i # 1
                            /\ v[i].status = "failed" => errors > 0
                            /\ c[1] = b => v[i].cfi[1] = b
    <2>1. ASSUME NEW i \in 1..n
          PROVE  /\ v[i].status = "queued" <=> i # 1
                 /\ v[i].status = "failed" => errors > 0
                 /\ v[i].cfi[1] = b
      BY <1>2, <1>3 DEF Inv, Chained, Settled, Placed, LocationsStayApart
    <2>2. /\ v[n + 1].status = "queued" <=> n + 1 # 1
          /\ v[n + 1].status = "failed" => errors > 0
          /\ c[1] = b => v[n + 1].cfi[1] = b
      BY <1>2, <1>3
    <2>3. \A i \in DOMAIN v : i \in 1..n \/ i = n + 1
      BY <1>2, <1>3
    <2>4. QED BY <2>1, <2>2, <2>3
  <1>5. v[1].status = "done" => progress[b] = v[1].cfi
    <2>1. CASE n = 0
      BY <1>3, <2>1
    <2>2. CASE n # 0
      <3>1. 1 \in 1..n /\ writes[b] # <<>>
        BY <1>2, <2>2
      <3>2. QED BY <1>3, <3>1 DEF Inv, Chained
    <2>3. QED BY <2>1, <2>2
  <1>6. QED BY SMTT(30), <1>1, <1>4, <1>5 DEF v, Inv, Chained, Settled, Placed, LocationsStayApart

LEMMA NothingSurvives ==
    ASSUME Inv
    PROVE  Retired.books = {} /\ Retired.renditions = {}
  <1>1. live.books \subseteq {session} /\ live.renditions = {store.rendition} \ {NoRendition}
    BY DEF Inv, Shown, ObjectsRetired
  <1>2. session \in live.books =>
            session \in Session /\ (store.epub \/ opening[session].pc \in Awaiting)
    BY DEF Inv, Shown
  <1>3. Retired.books = {}
    BY <1>1, <1>2 DEF Retired
  <1>4. Retired.renditions = {}
    BY <1>1 DEF Retired
  <1>5. QED BY <1>3, <1>4

\* What open() and close() have in common: the next session begins with nothing shown.
Leaves ==
    /\ session < MaxSessions /\ session' = session + 1
    /\ writes' = Flushed(writes) /\ timer' = None
    /\ UNCHANGED <<progress, applies, extras>>
    /\ store' \in Stores /\ store'.cfi = None /\ store'.epub = FALSE
    /\ store'.rendition = NoRendition /\ store'.built = "paginated"
    /\ store'.flow = "paginated"
    /\ live' \in [books: SUBSET Session, renditions: SUBSET Rendition]
    /\ live'.renditions = {}
    /\ opening' \in [Session -> Openings]
    /\ \A s \in Session : s # session' => opening'[s] = opening[s]
    /\ LET o == opening'[session']
       IN  /\ o.ahead = 0
           /\ o.target # None => o.target[1] = o.book /\ o.target[2] # 0
           /\ o.asked <=> o.target # None
           /\ \/ /\ store'.book = NoBook /\ o = Idle /\ live'.books = {}
              \/ /\ store'.book \in Book /\ o.book = store'.book /\ o.pc = "loading"
                 /\ live'.books = {session'}

LEMMA FlushedKeeps ==
    ASSUME Inv, writes' = Flushed(writes), timer' = None, UNCHANGED <<progress, reached, errors, failed>>
    PROVE  /\ writes' \in Chains
           /\ \A p : Awaits(p, writes) /\ p.ahead \in Nat
                  => Awaits(p, writes')
           /\ \A a \in Book : \A i \in DOMAIN writes'[a] :
                 writes'[a][i].status = "queued" <=> i # 1
           /\ \A a \in Book : writes'[a] # <<>> /\ writes'[a][1].status = "done"
                 => progress'[a] = writes'[a][1].cfi
           /\ \A a \in Book : \A i \in DOMAIN writes'[a] :
                 writes'[a][i].status = "failed" => errors' > 0
           /\ \A a \in Book : \A i \in DOMAIN writes'[a] : writes'[a][i].cfi[1] = a
           /\ \A a \in Book :
                 /\ writes'[a] # <<>> => writes'[a][Len(writes'[a])].cfi = reached'[a]
                 /\ writes'[a] = <<>> /\ a \notin failed' => progress'[a] = reached'[a]
  <1>1. CASE timer = None
    <2>1. writes' = writes /\ writes' \in Chains
      BY <1>1, FlushedChain
    <2>2. QED BY <1>1, <2>1 DEF Awaits, Inv, Chained, Settled, Placed, LocationsStayApart
  <1>2. CASE timer # None
    <2> DEFINE b == store.book
               c == store.cfi
    <2>1. b \in Book /\ c \in Cfi /\ timer = c /\ writes' = Queued(writes, b, c)
      BY <1>2, FlushedChain
    <2>2. Longer(writes', b, c)
      BY <2>1, LongerChain
    <2>3. c[1] = b /\ reached[b] = c
      BY <1>2, <2>1, CfiParts DEF Inv, Placed, Chained
    <2> HIDE DEF b, c
    <2>4. \A a \in Book :
             /\ writes'[a] # <<>> => writes'[a][Len(writes'[a])].cfi = reached[a]
             /\ writes'[a] = <<>> /\ a \notin failed => progress[a] = reached[a]
      <3>1. \A a \in Book \ {b} : writes'[a] = writes[a] /\ store.book # a
        BY <2>2 DEF Longer, b
      <3>2. writes'[b] # <<>> /\ writes'[b][Len(writes'[b])].cfi = reached[b]
        BY <2>2, <2>3 DEF Longer
      <3>3. QED BY <3>1, <3>2 DEF Inv, Chained
    <2>5. \A p : Awaits(p, writes) /\ p.ahead \in Nat
                  => Awaits(p, writes')
      BY <2>1, <2>2, LongerAwaits
    <2>6. writes' \in Chains
      BY <2>2 DEF Longer
    <2>7. QED BY <2>1, <2>2, <2>3, <2>4, <2>5, <2>6, LongerIsChained
  <1>3. QED BY <1>1, <1>2

LEMMA LeavesKeeps ==
    ASSUME Inv, Leaves
    PROVE  Inv'
  <1> DEFINE n == session + 1
             o == opening'[n]
  <1>1. /\ session \in 0..MaxSessions /\ MaxSessions \in Nat
        /\ opening \in [Session -> Openings] /\ applies \in [Apply -> Settlings]
    BY Types, Bounds DEF Inv
  <1>2. n \in Session /\ session' = n /\ n # session
    BY <1>1 DEF Leaves, Session
  <1>3. /\ progress' = progress /\ applies' = applies /\ reached' = reached /\ errors' = errors
        /\ failed' = failed /\ turns' = turns /\ timer' = None /\ writes' = Flushed(writes)
    BY DEF Leaves, extras
  <1>4. /\ store' \in Stores /\ store'.cfi = None /\ store'.epub = FALSE
        /\ store'.rendition = NoRendition /\ store'.built = store'.flow
        /\ live' \in [books: SUBSET Session, renditions: SUBSET Rendition]
        /\ live'.renditions = {} /\ opening' \in [Session -> Openings]
        /\ \A s \in Session : s # n => opening'[s] = opening[s]
    BY <1>2 DEF Leaves
  <1>5. /\ o \in Openings /\ o.ahead = 0
        /\ o.target # None => o.target[1] = o.book /\ o.target[2] # 0
        /\ o.asked <=> o.target # None
    BY <1>2, <1>4 DEF Leaves
  <1>6. \/ store'.book = NoBook /\ o = Idle /\ o.pc = "idle" /\ live'.books = {}
        \/ /\ store'.book \in Book /\ o.book = store'.book /\ o.pc = "loading"
           /\ live'.books = {n}
    BY <1>2, Resting DEF Leaves
  <1> HIDE DEF o
  <1>7. \A g \in Apply : applies'[g] = applies[g] /\ applies'[g].session # session'
    BY <1>1, <1>2, <1>3 DEF Inv, Linked
  <1>8. TypeOK'
    <2>1. writes' \in Chains
      BY <1>3, FlushedKeeps
    <2>2. ASSUME NEW s \in Session PROVE Awaits(opening'[s], writes')
      <3>1. CASE s = n
        BY <1>5, <3>1 DEF Awaits, o
      <3>2. CASE s # n
        <4>1. Awaits(opening[s], writes) /\ opening[s].ahead \in Nat /\ opening'[s] = opening[s]
          BY <1>1, <1>4, <3>2, Types DEF Inv, Openings
        <4>2. QED BY <1>3, <4>1, FlushedKeeps DEF Leaves
      <3>3. QED BY <3>1, <3>2
    <2>3. ASSUME NEW g \in Apply PROVE Awaits(applies'[g], writes')
      <3>1. Awaits(applies[g], writes) /\ applies[g].ahead \in Nat /\ applies'[g] = applies[g]
        BY <1>1, <1>3, Types DEF Inv, Settlings
      <3>2. QED BY <1>3, <3>1, FlushedKeeps
    <2>4. session' \in 0..MaxSessions
      BY <1>1, <1>2 DEF Session
    <2>5. QED BY <1>3, <1>4, <2>1, <2>2, <2>3, <2>4, Types, TypesKept DEF Inv
  <1>9. Linked'
    <2>1. o.pc = "idle" => o = Idle
      BY <1>6
    <2>2. ASSUME NEW s \in Session
          PROVE  /\ s > n => opening'[s] = Idle
                 /\ opening'[s].pc \in Awaiting \cup {"open"} => opening'[s].book \in Book
                 /\ s = n /\ opening'[s].pc \in Awaiting \cup {"open"}
                        => opening'[s].book = store'.book
                 /\ opening'[s].pc = "retired" => s < n
                 /\ opening'[s].ahead > 0 => opening'[s].pc = "chain"
      <3>1. CASE s = n
        BY <1>1, <1>2, <1>5, <1>6, <3>1, OpeningStates DEF o
      <3>2. CASE s # n
        <4>1. opening'[s] = opening[s] /\ s \in Nat
          BY <1>4, <3>2 DEF Session
        <4>2. s > n => s > session
          BY <1>1, <4>1
        <4>3. s < session => s < n
          BY <1>1, <4>1
        <4>4. QED BY <3>2, <4>1, <4>2, <4>3 DEF Inv, Linked
      <3>3. QED BY <3>1, <3>2
    <2>3. store'.book # NoBook => o.pc \in Awaiting
      BY <1>6, OpeningStates
    <2>4. ASSUME NEW g \in Apply
          PROVE  /\ applies'[g].session <= n
                 /\ applies'[g].pc # "idle" => applies'[g].session \in Session
                 /\ applies'[g].session # n
                 /\ applies'[g].ahead > 0 => applies'[g].pc = "saving"
      <3>1. applies[g].session \in Nat /\ applies[g].session <= session
        BY <1>1 DEF Inv, Linked, Settlings
      <3>2. QED BY <1>1, <1>2, <1>7, <3>1 DEF Inv, Linked
    <2>5. QED BY <1>2, <2>2, <2>3, <2>4 DEF Linked, Current, o
  <1>10. Shown'
    BY <1>2, <1>4, <1>6, OpeningStates DEF Shown, ObjectsRetired, o
  <1>11. Placed'
    <2>1. ASSUME NEW s \in Session
          PROVE  /\ opening'[s].target # None => opening'[s].target[1] = opening'[s].book
                 /\ opening'[s].pc \in {"displaying", "open"} => opening'[s].target # None
      BY <1>4, <1>5, <1>6 DEF Inv, Placed, o
    <2>2. \A a \in Book : \A i \in DOMAIN writes'[a] : writes'[a][i].cfi[1] = a
      BY <1>3, FlushedKeeps
    <2>3. QED BY <1>3, <1>4, <2>1, <2>2 DEF Inv, Placed, LocationsStayApart
  <1>12. Chained'
    BY <1>3, <1>4, FlushedKeeps DEF Chained
  <1>13. Resuming'
    <2>1. o.pc = "loading" \/ o.pc = "idle"
      BY <1>6
    <2>2. QED BY <1>2, <1>4, <1>5, <2>1 DEF Resuming, o
  <1>14. Settled'
    <2>1. \A s \in Session : opening'[s].pc \in {"rejected", "failed"} => errors' > 0
      BY <1>3, <1>4, <1>6 DEF Inv, Settled, o
    <2>2. \A a \in Book : \A i \in DOMAIN writes'[a] :
             writes'[a][i].status = "failed" => errors' > 0
      BY <1>3, FlushedKeeps
    <2>3. QED BY <1>3, <1>4, <1>7, <2>1, <2>2 DEF Inv, Settled, Current
  <1>15. QED BY <1>8, <1>9, <1>10, <1>11, <1>12, <1>13, <1>14 DEF Inv

LEMMA OpenKeeps ==
    ASSUME Inv, NEW b \in Book, NEW href \in {None} \cup ({b} \X (1..MaxPage)), Open(b, href)
    PROVE  Inv'
  <1> DEFINE n == session + 1
             o == [Idle EXCEPT !.pc = "loading", !.book = b, !.asked = (href # None),
                               !.target = href]
  <1>1. /\ session \in 0..MaxSessions /\ MaxSessions \in Nat /\ live.books \subseteq Session
        /\ opening \in [Session -> Openings] /\ session < MaxSessions /\ session' = n
    BY Types, Bounds DEF Inv, Open
  <1>2. n \in Session
    BY <1>1 DEF Session
  <1>3. href \in Cfi \cup {None} /\ (href # None => href[1] = b /\ href[2] # 0)
    <2>1. CASE href = None
      BY <2>1
    <2>2. CASE href # None
      <3>1. PICK p \in 1..MaxPage : href = <<b, p>>
        BY <2>2
      <3>2. p \in 0..MaxPage /\ p # 0
        BY Bounds
      <3>3. QED BY <3>1, <3>2, CfiParts
    <2>3. QED BY <2>1, <2>2
  <1>4. /\ o \in Openings /\ o.pc = "loading" /\ o.book = b /\ o.target = href /\ o.ahead = 0
        /\ o.asked <=> href # None
    BY <1>3, OpeningStates DEF Idle, Openings
  <1>5. opening' = [opening EXCEPT ![n] = o]
    BY <1>1 DEF Open
  <1> HIDE DEF o
  <1>6. /\ opening' \in [Session -> Openings] /\ opening'[n] = o
        /\ \A s \in Session : s # n => opening'[s] = opening[s]
    BY <1>1, <1>2, <1>4, <1>5
  <1>7. /\ store' \in Stores /\ store'.book = b /\ store'.cfi = None /\ store'.epub = FALSE
        /\ store'.rendition = NoRendition /\ store'.built = "paginated"
        /\ store'.flow = "paginated"
    <2>1. store' = [Closed EXCEPT !.book = b]
      BY DEF Open
    <2>2. QED BY <2>1 DEF Closed, Stores, Flow
  <1>8. live'.books = {n} /\ live'.renditions = {}
    <2>1. live' = [Retired EXCEPT !.books = @ \cup {n}]
      BY <1>1 DEF Open
    <2>2. live' = [books |-> Retired.books \cup {n}, renditions |-> Retired.renditions]
      BY <2>1 DEF Retired
    <2>3. QED BY <2>2, NothingSurvives
  <1>9. live' \in [books: SUBSET Session, renditions: SUBSET Rendition]
    <2>1. live' = [Retired EXCEPT !.books = @ \cup {n}]
      BY <1>1 DEF Open
    <2>2. live' = [books |-> Retired.books \cup {n}, renditions |-> Retired.renditions]
      BY <2>1 DEF Retired
    <2>3. live' = [books |-> {n}, renditions |-> {}]
      BY <2>2, NothingSurvives
    <2>4. QED BY <1>2, <2>3
  <1>10. Leaves
    <2>1. /\ writes' = Flushed(writes) /\ timer' = None
          /\ UNCHANGED <<progress, applies, extras>>
      BY DEF Open
    <2>2. b # NoBook
      OBVIOUS
    <2>3. QED BY <1>1, <1>2, <1>3, <1>4, <1>6, <1>7, <1>8, <1>9, <2>1, <2>2 DEF Leaves
  <1>11. QED BY <1>10, LeavesKeeps

LEMMA CloseKeeps ==
    ASSUME Inv, Close
    PROVE  Inv'
  <1> DEFINE n == session + 1
  <1>1. /\ session \in 0..MaxSessions /\ MaxSessions \in Nat
        /\ opening \in [Session -> Openings] /\ session < MaxSessions /\ session' = n
    BY Types, Bounds DEF Inv, Close
  <1>2. n \in Session /\ n > session
    BY <1>1 DEF Session
  <1>3. opening' = opening /\ opening[n] = Idle
    BY <1>2 DEF Close, Inv, Linked
  <1>4. store' = Closed
    BY DEF Close
  <1>5. live' = [books |-> {}, renditions |-> {}]
    BY NothingSurvives DEF Close, Retired
  <1>6. Leaves
    <2>1. /\ writes' = Flushed(writes) /\ timer' = None
          /\ UNCHANGED <<progress, applies, extras>>
      BY DEF Close
    <2>2. QED BY <1>1, <1>2, <1>3, <1>4, <1>5, <2>1, Resting DEF Leaves
  <1>7. QED BY <1>6, LeavesKeeps

-----------------------------------------------------------------------------
(* The continuations of open(). *)

\* What the continuations of the current open() have in common.
Proceeds(s) ==
    /\ s \in Session /\ s = session /\ opening[s].pc \in Awaiting
    /\ UNCHANGED <<progress, session, timer, writes, applies, turns, reached, failed>>
    /\ errors' \in 0..MaxErrors /\ errors' >= errors
    /\ store' \in Stores /\ store'.book = store.book /\ store'.cfi = store.cfi
    /\ store'.built = store.built /\ store'.flow = store.flow
    /\ live' \in [books: SUBSET Session, renditions: SUBSET Rendition]
    /\ opening' \in [Session -> Openings]
    /\ \A t \in Session : t # s => opening'[t] = opening[t]
    /\ LET o == opening'[s]
       IN  /\ o.pc \in Awaiting \cup {"open", "failed"}
           /\ o.pc # "failed" => o.book = opening[s].book
           /\ o.target # None => o.target[1] = o.book
           /\ o.pc \in {"displaying", "open"} => o.target # None
           /\ o.pc \in {"rejected", "failed"} => errors' > 0
           /\ o.ahead > 0 => o.pc = "chain" /\ o.ahead <= Len(writes[o.book])

LEMMA ProceedsKeeps ==
    ASSUME Inv, NEW s, Proceeds(s)
    PROVE  TypeOK' /\ Linked' /\ Placed' /\ Chained' /\ Settled'
  <1> DEFINE o == opening'[s]
  <1>1. /\ s \in Session /\ s = session /\ opening[s].pc \in Awaiting
        /\ session' = session /\ progress' = progress /\ timer' = timer /\ writes' = writes
        /\ applies' = applies /\ turns' = turns /\ reached' = reached /\ failed' = failed
        /\ errors' \in 0..MaxErrors /\ errors' >= errors
        /\ store' \in Stores /\ store'.book = store.book /\ store'.cfi = store.cfi
        /\ store'.built = store.built /\ store'.flow = store.flow
        /\ live' \in [books: SUBSET Session, renditions: SUBSET Rendition]
        /\ opening' \in [Session -> Openings]
        /\ \A t \in Session : t # s => opening'[t] = opening[t]
    BY DEF Proceeds
  <1>2. /\ o.pc \in Awaiting \cup {"open", "failed"}
        /\ o.pc # "failed" => o.book = opening[s].book
        /\ o.target # None => o.target[1] = o.book
        /\ o.pc \in {"displaying", "open"} => o.target # None
        /\ o.pc \in {"rejected", "failed"} => errors' > 0
        /\ o.ahead > 0 => o.pc = "chain" /\ o.ahead <= Len(writes[o.book])
    BY DEF Proceeds
  <1> HIDE DEF o
  <1>3. opening[s].book \in Book /\ opening[s].book = store.book
    BY <1>1 DEF Inv, Linked
  <1>4. /\ \A g \in Apply : Current(g) => applies[g].pc \notin Active
        /\ errors \in Nat
    BY <1>1, Types, OpeningStates, Bounds DEF Inv, Linked
  <1>5. TypeOK'
    <2>1. Awaits(o, writes)
      BY <1>2, <1>3 DEF Awaits
    <2>2. QED BY <1>1, <2>1, Types, TypesKept DEF Inv, o
  <1>6. Linked'
    <2>1. /\ session \in 0..MaxSessions /\ MaxSessions \in Nat /\ store.book # NoBook
          /\ s \in Nat
      BY <1>1, <1>3, Types, Bounds DEF Inv, Session
    <2>2. ASSUME NEW t \in Session
          PROVE  /\ t > session => opening'[t] = Idle
                 /\ opening'[t].pc \in Awaiting \cup {"open"} => opening'[t].book \in Book
                 /\ t = session /\ opening'[t].pc \in Awaiting \cup {"open"}
                        => opening'[t].book = store.book
                 /\ opening'[t].pc = "retired" => t < session
                 /\ opening'[t].ahead > 0 => opening'[t].pc = "chain"
      <3>1. CASE t = s
        BY <1>1, <1>2, <1>3, <2>1, <3>1, OpeningStates DEF o
      <3>2. CASE t # s
        BY <1>1, <3>2 DEF Inv, Linked
      <3>3. QED BY <3>1, <3>2
    <2>3. ASSUME NEW g \in Apply, Current(g) PROVE applies[g].pc \notin Active
      BY <1>4, <2>3
    <2>4. QED BY <1>1, <1>2, <2>1, <2>2, <2>3 DEF Inv, Linked, Current, o
  <1>7. Placed'
    BY <1>1, <1>2 DEF Inv, Placed, LocationsStayApart, o
  <1>8. Chained'
    BY <1>1 DEF Inv, Chained
  <1>9. Settled'
    <2>1. errors' = 0 => errors = 0
      BY <1>1, <1>4
    <2>2. errors > 0 => errors' > 0
      BY <1>1, <1>4
    <2>3. \A t \in Session : opening'[t].pc \in {"rejected", "failed"} => errors' > 0
      BY <1>1, <1>2, <2>2 DEF Inv, Settled, o
    <2>4. QED BY <1>1, <2>1, <2>2, <2>3 DEF Inv, Settled, Current
  <1>10. QED BY <1>5, <1>6, <1>7, <1>8, <1>9

\* What is known before each of them.
Known(s) ==
    /\ s = session /\ s \in Session /\ opening[s].pc \in Awaiting
    /\ opening[s] \in Openings /\ opening \in [Session -> Openings]
    /\ store \in Stores /\ live \in [books: SUBSET Session, renditions: SUBSET Rendition]
    /\ errors \in Nat /\ errors \in 0..MaxErrors
    /\ opening[s].book \in Book /\ opening[s].book = store.book
    /\ live.books = {s} /\ live.renditions = {store.rendition} \ {NoRendition}
    /\ <<s, 0>> \in Rendition /\ <<s, 0>> # NoRendition
    /\ <<s, 0>>[1] = s /\ <<s, 0>>[2] = 0
    /\ store.rendition = NoRendition \/ store.rendition = <<s, 0>>
    /\ opening[s].ahead \in Nat /\ (opening[s].ahead > 0 => opening[s].pc = "chain")
    /\ opening[s].target # None => opening[s].target[1] = opening[s].book
    /\ opening[s].target \in Cfi \cup {None}
    /\ Awaits(opening[s], writes)
    /\ writes[opening[s].book] \in Seq(Write)

LEMMA Underway ==
    ASSUME Inv, NEW s \in Session, opening[s].pc \in Awaiting, IsCurrentSession(s)
    PROVE  Known(s)
  <1>1. s = session
    BY DEF IsCurrentSession
  <1>2. /\ opening \in [Session -> Openings] /\ store \in Stores /\ errors \in 0..MaxErrors
        /\ live \in [books: SUBSET Session, renditions: SUBSET Rendition]
        /\ Awaits(opening[s], writes) /\ writes \in Chains
    BY Types DEF Inv
  <1>3. /\ opening[s].book \in Book /\ opening[s].book = store.book
        /\ opening[s].ahead > 0 => opening[s].pc = "chain"
    BY <1>1 DEF Inv, Linked
  <1>4. /\ live.books = {s} /\ live.renditions = {store.rendition} \ {NoRendition}
        /\ store.rendition = NoRendition \/ store.rendition = <<s, 0>>
    BY <1>1 DEF Inv, Shown, ObjectsRetired
  <1>5. 0 \in 0..MaxApplies
    BY Bounds
  <1>6. /\ <<s, 0>> \in Rendition /\ <<s, 0>> # NoRendition
        /\ <<s, 0>>[1] = s /\ <<s, 0>>[2] = 0
    BY <1>5, RenditionParts
  <1>7. opening[s].target # None => opening[s].target[1] = opening[s].book
    BY DEF Inv, Placed
  <1>8. /\ opening[s].ahead \in Nat /\ opening[s].target \in Cfi \cup {None}
        /\ errors \in Nat
    BY <1>2, Bounds DEF Openings
  <1>9. writes[opening[s].book] \in Seq(Write)
    BY <1>2, <1>3 DEF Chains
  <1>10. QED BY <1>1, <1>2, <1>3, <1>4, <1>6, <1>7, <1>8, <1>9 DEF Known

\* A continuation that leaves the store and the objects alone.
LEMMA QuietProceeds ==
    ASSUME Inv, NEW s \in Session, opening[s].pc \in Awaiting, IsCurrentSession(s),
           NEW o \in Openings, opening' = [opening EXCEPT ![s] = o],
           UNCHANGED <<progress, session, store, timer, writes, applies, live, extras>>,
           o.pc \in (Awaiting \ {"rejected"}) \cup {"open"},
           o.book = opening[s].book,
           o.target # None => o.target[1] = o.book,
           o.pc \in {"displaying", "open"} => o.target # None,
           o.ahead = 0,
           opening[s].pc # "loading" /\ o.pc # "loading"
    PROVE  /\ TypeOK' /\ Linked' /\ Shown' /\ Placed' /\ Chained' /\ Settled'
           /\ s = session /\ session' = session /\ writes' = writes /\ store' = store
           /\ progress' = progress /\ opening'[s] = o
  <1>0. Known(s)
    BY Underway
  <1>1. /\ progress' = progress /\ session' = session /\ store' = store /\ timer' = timer
        /\ writes' = writes /\ applies' = applies /\ live' = live /\ turns' = turns
        /\ errors' = errors /\ reached' = reached /\ failed' = failed
    BY DEF extras
  <1>2. /\ opening' \in [Session -> Openings] /\ opening'[s] = o
        /\ \A t \in Session : t # s => opening'[t] = opening[t]
    BY <1>0 DEF Known
  <1>3. errors \in 0..MaxErrors /\ errors >= errors
    BY <1>0, Bounds DEF Known
  <1>4. Proceeds(s)
    BY <1>0, <1>1, <1>2, <1>3, OpeningStates DEF Proceeds, Known
  <1>5. TypeOK' /\ Linked' /\ Placed' /\ Chained' /\ Settled'
    BY <1>4, ProceedsKeeps
  <1>6. s = session /\ opening[s].pc \in Awaiting \ {"loading"}
    BY <1>0 DEF Known
  <1>7. /\ store.rendition = <<s, 0>> /\ <<s, 0>> # NoRendition
        /\ <<s, 0>>[1] = s /\ <<s, 0>>[2] = 0 /\ live.books = {s} /\ s \in Session
        /\ live.renditions = {store.rendition} \ {NoRendition}
    BY <1>6, <1>0 DEF Inv, Shown, Known
  <1>8. Shown'
    BY <1>1, <1>2, <1>6, <1>7, OpeningStates DEF Inv, Shown, ObjectsRetired
  <1>9. QED BY <1>1, <1>2, <1>5, <1>6, <1>8

LEMMA LoadedKeeps ==
    ASSUME Inv, NEW s \in Session, Loaded(s)
    PROVE  Inv'
  <1> DEFINE n == Len(writes[opening[s].book])
             o == [opening[s] EXCEPT !.pc = "chain", !.ahead = n]
  <1>1. opening[s].pc = "loading" /\ opening[s].pc \in Awaiting /\ IsCurrentSession(s)
    BY OpeningStates DEF Loaded
  <1>0. Known(s)
    BY <1>1, Underway
  <1>2. n \in Nat /\ writes[opening[s].book] \in Seq(Write)
    BY <1>1, <1>0, LenProperties DEF Known
  <1>3. opening' = [opening EXCEPT ![s] = o]
    BY DEF Loaded
  <1> HIDE DEF n
  <1>4. /\ o \in Openings /\ o.pc = "chain" /\ o.ahead = n /\ o.book = opening[s].book
        /\ o.target = opening[s].target /\ o.asked = opening[s].asked
    BY <1>1, <1>2, <1>0, OpeningStates DEF Openings, Known
  <1> HIDE DEF o
  <1>5. /\ opening' \in [Session -> Openings] /\ opening'[s] = o
        /\ \A t \in Session : t # s => opening'[t] = opening[t]
    BY <1>1, <1>3, <1>4, <1>0 DEF Known
  <1>6. /\ progress' = progress /\ session' = session /\ timer' = timer
        /\ writes' = writes /\ applies' = applies /\ turns' = turns
        /\ errors' = errors /\ reached' = reached /\ failed' = failed
    BY DEF Loaded, extras
  <1>7. /\ store' \in Stores /\ store'.book = store.book /\ store'.cfi = store.cfi
        /\ store'.built = store.built /\ store'.flow = store.flow
        /\ store'.epub = TRUE /\ store'.rendition = <<s, 0>>
    <2>1. store' = [store EXCEPT !.epub = TRUE, !.rendition = <<s, 0>>]
      BY DEF Loaded
    <2>2. store \in Stores /\ <<s, 0>> \in Rendition
      BY <1>1, <1>0 DEF Known
    <2>3. QED BY <2>1, <2>2 DEF Stores
  <1>8. store.rendition = NoRendition
    BY <1>1, <1>0 DEF Inv, Shown, Known
  <1>9. /\ live' \in [books: SUBSET Session, renditions: SUBSET Rendition]
        /\ live'.books = {s} /\ live'.renditions = {<<s, 0>>}
    <2>1. live' = [live EXCEPT !.renditions = @ \cup {<<s, 0>>}]
      BY DEF Loaded
    <2>2. /\ live \in [books: SUBSET Session, renditions: SUBSET Rendition]
          /\ live.books = {s} /\ live.renditions = {} /\ <<s, 0>> \in Rendition
      BY <1>1, <1>8, <1>0 DEF Known
    <2>3. QED BY <2>1, <2>2
  <1>10. Proceeds(s)
    <2>1. errors \in 0..MaxErrors /\ errors >= errors
      BY <1>1, <1>0, Bounds DEF Known
    <2>2. o.ahead > 0 => o.pc = "chain" /\ o.ahead <= n
      BY <1>2, <1>4
    <2>3. QED BY <1>1, <1>4, <1>5, <1>6, <1>7, <1>9, <2>1, <2>2, <1>0, OpeningStates
              DEF Proceeds, n, Known
  <1>11. Shown'
    BY <1>1, <1>4, <1>5, <1>6, <1>7, <1>9, <1>0, OpeningStates DEF Shown, ObjectsRetired, Known
  <1>12. Resuming'
    <2>1. s = session
      BY <1>1, <1>0 DEF Known
    <2>2. QED BY <1>1, <1>4, <1>5, <1>6, <1>7, <2>1 DEF Inv, Resuming, n
  <1>13. QED BY <1>10, <1>11, <1>12, ProceedsKeeps DEF Inv

LEMMA RequestProgressKeeps ==
    ASSUME Inv, NEW s \in Session, RequestProgress(s)
    PROVE  Inv'
  <1> DEFINE o == [opening[s] EXCEPT !.pc = "reading"]
  <1>1. /\ opening[s].pc = "chain" /\ opening[s].pc \in Awaiting /\ IsCurrentSession(s)
        /\ opening[s].ahead = 0 /\ opening' = [opening EXCEPT ![s] = o]
        /\ UNCHANGED <<progress, session, store, timer, writes, applies, live, extras>>
    BY OpeningStates DEF RequestProgress
  <1>0. Known(s)
    BY <1>1, Underway
  <1>2. /\ o \in Openings /\ o.pc = "reading" /\ o.ahead = 0 /\ o.book = opening[s].book
        /\ o.target = opening[s].target /\ o.asked = opening[s].asked
    BY <1>1, <1>0, OpeningStates DEF Openings, Known
  <1> HIDE DEF o
  <1>3. /\ TypeOK' /\ Linked' /\ Shown' /\ Placed' /\ Chained' /\ Settled'
        /\ s = session /\ session' = session /\ writes' = writes /\ store' = store
        /\ progress' = progress /\ opening'[s] = o
    BY <1>1, <1>2, <1>0, QuietProceeds, OpeningStates DEF Known
  <1>4. writes[o.book] = <<>>
    <2>1. Len(writes[o.book]) = 0 /\ writes[o.book] \in Seq(Write)
      BY <1>1, <1>2, <1>3, <1>0 DEF Inv, Resuming, Known
    <2>2. QED BY <2>1, EmptySeq
  <1>5. Resuming'
    BY <1>1, <1>2, <1>3, <1>4 DEF Inv, Resuming
  <1>6. QED BY <1>3, <1>5 DEF Inv

LEMMA ServeReadKeeps ==
    ASSUME Inv, NEW s \in Session, ServeRead(s)
    PROVE  Inv'
  <1> DEFINE t == IF opening[s].target # None THEN opening[s].target
                  ELSE progress[opening[s].book]
             o == [opening[s] EXCEPT !.pc = "read", !.target = t]
  <1>1. /\ opening[s].pc = "reading" /\ opening[s].pc \in Awaiting /\ IsCurrentSession(s)
        /\ opening' = [opening EXCEPT ![s] = o]
        /\ UNCHANGED <<progress, session, store, timer, writes, applies, live, extras>>
    BY OpeningStates DEF ServeRead
  <1>0. Known(s)
    BY <1>1, Underway
  <1>2. t \in Cfi \cup {None} /\ (t # None => t[1] = opening[s].book)
    <2>1. progress \in [Book -> Cfi \cup {None}]
      BY Types DEF Inv
    <2>2. \A b \in Book : progress[b] # None => progress[b][1] = b
      BY DEF Inv, Placed, LocationsStayApart
    <2>3. QED BY <1>1, <2>1, <2>2, <1>0 DEF Openings, Known
  <1>3. opening[s].asked => t = opening[s].target /\ t # None /\ t[2] # 0
    BY <1>1, <1>0 DEF Inv, Resuming, Known
  <1>4. ~opening[s].asked => t = progress[opening[s].book]
    BY <1>1, <1>0 DEF Inv, Resuming, Known
  <1>5. store.cfi = None /\ writes[opening[s].book] = <<>>
    BY <1>1, <1>0 DEF Inv, Resuming, Known
  <1> HIDE DEF t
  <1>6. /\ o \in Openings /\ o.pc = "read" /\ o.ahead = opening[s].ahead
        /\ o.book = opening[s].book /\ o.target = t /\ o.asked = opening[s].asked
    BY <1>1, <1>2, <1>0, OpeningStates DEF Openings, Known
  <1> HIDE DEF o
  <1>7. opening[s].ahead = 0
    BY <1>1, <1>0 DEF Openings, Known
  <1>8. /\ TypeOK' /\ Linked' /\ Shown' /\ Placed' /\ Chained' /\ Settled'
        /\ s = session /\ session' = session /\ writes' = writes /\ store' = store
        /\ progress' = progress /\ opening'[s] = o
    BY <1>1, <1>2, <1>6, <1>7, QuietProceeds, OpeningStates
  <1>9. Resuming'
    BY <1>1, <1>3, <1>4, <1>5, <1>6, <1>8 DEF Inv, Resuming
  <1>10. QED BY <1>8, <1>9 DEF Inv

LEMMA DisplayKeeps ==
    ASSUME Inv, NEW s \in Session, Display(s)
    PROVE  Inv'
  <1> DEFINE b == opening[s].book
             t == IF opening[s].target = None THEN StartOf(b) ELSE opening[s].target
             o == [opening[s] EXCEPT !.pc = "displaying", !.target = t]
  <1>1. /\ opening[s].pc = "read" /\ opening[s].pc \in Awaiting /\ IsCurrentSession(s)
        /\ opening' = [opening EXCEPT ![s] = o]
        /\ UNCHANGED <<progress, session, store, timer, writes, applies, live, extras>>
    BY OpeningStates DEF Display
  <1>0. Known(s)
    BY <1>1, Underway
  <1>2. b \in Book /\ s = session /\ opening[s] \in Openings
    BY <1>1, <1>0 DEF Known
  <1>3. t \in Cfi /\ t # None /\ t[1] = b
    BY <1>1, <1>2, Starts, <1>0 DEF Openings, Known
  <1>4. opening[s].asked => t = opening[s].target /\ t[2] # 0
    BY <1>1, <1>2 DEF Inv, Resuming
  <1>5. t = StartOf(b) => progress[b] \in {None, StartOf(b)}
    <2>1. CASE opening[s].asked
      BY <1>2, <1>4, <2>1, Starts
    <2>2. CASE ~opening[s].asked
      <3>1. opening[s].target = progress[b]
        BY <1>1, <1>2, <2>2 DEF Inv, Resuming
      <3>2. QED BY <3>1
    <2>3. QED BY <2>1, <2>2
  <1>6. store.cfi = None /\ writes[b] = <<>>
    BY <1>1, <1>2 DEF Inv, Resuming
  <1> HIDE DEF t
  <1>7. /\ o \in Openings /\ o.pc = "displaying" /\ o.ahead = opening[s].ahead
        /\ o.book = opening[s].book /\ o.target = t /\ o.asked = opening[s].asked
    BY <1>1, <1>2, <1>3, OpeningStates DEF Openings
  <1> HIDE DEF o
  <1>8. opening[s].ahead = 0
    BY <1>1, <1>0 DEF Openings, Known
  <1>9. /\ TypeOK' /\ Linked' /\ Shown' /\ Placed' /\ Chained' /\ Settled'
        /\ s = session /\ session' = session /\ writes' = writes /\ store' = store
        /\ progress' = progress /\ opening'[s] = o
    BY <1>1, <1>2, <1>3, <1>7, <1>8, QuietProceeds, OpeningStates
  <1>10. Resuming'
    BY <1>3, <1>4, <1>5, <1>6, <1>7, <1>9 DEF Inv, Resuming
  <1>11. QED BY <1>9, <1>10 DEF Inv

LEMMA DisplayedKeeps ==
    ASSUME Inv, NEW s \in Session, Displayed(s)
    PROVE  Inv'
  <1> DEFINE o == [opening[s] EXCEPT !.pc = "open"]
  <1>1. /\ opening[s].pc = "displaying" /\ opening[s].pc \in Awaiting /\ IsCurrentSession(s)
        /\ opening' = [opening EXCEPT ![s] = o]
        /\ UNCHANGED <<progress, session, store, timer, writes, applies, live, extras>>
    BY OpeningStates DEF Displayed
  <1>0. Known(s)
    BY <1>1, Underway
  <1>2. /\ o \in Openings /\ o.pc = "open" /\ o.ahead = opening[s].ahead
        /\ o.book = opening[s].book /\ o.target = opening[s].target
        /\ o.asked = opening[s].asked
    BY <1>1, <1>0, OpeningStates DEF Openings, Known
  <1> HIDE DEF o
  <1>3. opening[s].ahead = 0 /\ opening[s].target # None
    <2>1. opening[s].ahead = 0
      BY <1>0, <1>1 DEF Known
    <2>2. opening[s].target # None
      BY <1>1 DEF Inv, Placed
    <2>3. QED BY <2>1, <2>2
  <1>4. /\ TypeOK' /\ Linked' /\ Shown' /\ Placed' /\ Chained' /\ Settled'
        /\ s = session /\ session' = session /\ writes' = writes /\ store' = store
        /\ progress' = progress /\ opening'[s] = o
    BY <1>1, <1>2, <1>3, <1>0, QuietProceeds, OpeningStates DEF Known
  <1>5. Resuming'
    BY <1>2, <1>4 DEF Inv, Resuming
  <1>6. QED BY <1>4, <1>5 DEF Inv

LEMMA OpenFailedKeeps ==
    ASSUME Inv, NEW s \in Session, OpenFailed(s)
    PROVE  Inv'
  <1> DEFINE o == [Idle EXCEPT !.pc = "failed"]
  <1>1. /\ opening[s].pc \in Awaiting /\ IsCurrentSession(s)
        /\ opening' = [opening EXCEPT ![s] = o]
    BY DEF OpenFailed
  <1>0. Known(s)
    BY <1>1, Underway
  <1>2. /\ o \in Openings /\ o.pc = "failed" /\ o.ahead = 0 /\ o.asked = FALSE
        /\ o.target = None
    BY OpeningStates DEF Openings, Idle
  <1> HIDE DEF o
  <1>3. /\ opening' \in [Session -> Openings] /\ opening'[s] = o
        /\ \A t \in Session : t # s => opening'[t] = opening[t]
    BY <1>0, <1>1, <1>2 DEF Known
  <1>4. /\ progress' = progress /\ session' = session /\ timer' = timer
        /\ writes' = writes /\ applies' = applies /\ turns' = turns
        /\ reached' = reached /\ failed' = failed
    BY DEF OpenFailed
  <1>5. errors' \in 0..MaxErrors /\ errors' >= errors /\ errors' > 0
    <2>1. CASE opening[s].pc = "rejected" /\ errors' = errors
      <3>1. errors > 0
        BY <1>0, <2>1 DEF Inv, Settled, Known
      <3>2. QED BY <1>0, <2>1, <3>1 DEF Known
    <2>2. CASE errors < MaxErrors /\ errors' = errors + 1
      BY <1>0, <2>2, Bounds DEF Known
    <2>3. QED BY <2>1, <2>2 DEF OpenFailed
  <1>6. /\ store' \in Stores /\ store'.book = store.book /\ store'.cfi = store.cfi
        /\ store'.built = store.built /\ store'.flow = store.flow
        /\ store'.epub = FALSE /\ store'.rendition = NoRendition
    <2>1. store' = [store EXCEPT !.epub = FALSE, !.rendition = NoRendition]
      BY DEF OpenFailed
    <2>2. QED BY <1>0, <2>1 DEF Stores, Known
  <1>7. live' = [books |-> {}, renditions |-> {}]
    <2>1. live' = [books |-> live.books \ {s}, renditions |-> live.renditions \ {<<s, 0>>}]
      BY DEF OpenFailed
    <2>2. live.books \ {s} = {} /\ live.renditions \ {<<s, 0>>} = {}
      BY <1>0 DEF Known
    <2>3. QED BY <2>1, <2>2
  <1>8. Proceeds(s)
    BY <1>0, <1>2, <1>3, <1>4, <1>5, <1>6, <1>7, OpeningStates DEF Proceeds, Known
  <1>9. Shown'
    BY <1>0, <1>2, <1>3, <1>4, <1>6, <1>7, OpeningStates DEF Shown, ObjectsRetired, Known
  <1>10. Resuming'
    BY <1>0, <1>2, <1>3, <1>4 DEF Resuming, Known
  <1>11. QED BY <1>8, <1>9, <1>10, ProceedsKeeps DEF Inv

LEMMA AbandonedKeeps ==
    ASSUME Inv, NEW s \in Session, Abandoned(s)
    PROVE  Inv'
  <1> DEFINE o == [Idle EXCEPT !.pc = "retired"]
  <1>1. /\ opening[s].pc \in Awaiting /\ s # session /\ opening' = [opening EXCEPT ![s] = o]
    BY DEF Abandoned, IsCurrentSession
  <1>2. /\ o \in Openings /\ o.pc = "retired" /\ o.ahead = 0 /\ o.asked = FALSE
        /\ o.target = None
    BY OpeningStates DEF Openings, Idle
  <1> HIDE DEF o
  <1>3. /\ progress' = progress /\ session' = session /\ timer' = timer
        /\ writes' = writes /\ applies' = applies /\ turns' = turns /\ store' = store
        /\ reached' = reached /\ failed' = failed /\ errors' = errors
    BY DEF Abandoned, extras
  <1>4. /\ opening \in [Session -> Openings] /\ session \in 0..MaxSessions
        /\ live \in [books: SUBSET Session, renditions: SUBSET Rendition] /\ MaxSessions \in Nat
    BY Types, Bounds DEF Inv
  <1>5. /\ opening' \in [Session -> Openings] /\ opening'[s] = o
        /\ \A t \in Session : t # s => opening'[t] = opening[t]
    BY <1>1, <1>2, <1>4
  <1>6. s < session
    <2>1. ~(s > session)
      BY <1>1, Resting, OpeningStates DEF Inv, Linked
    <2>2. QED BY <1>1, <1>4, <2>1 DEF Session
  <1>7. live' = live
    <2>1. live.books \ {s} = live.books
      BY <1>1 DEF Inv, Shown, ObjectsRetired
    <2>2. <<s, 0>> \notin live.renditions
      <3>1. live.renditions = {store.rendition} \ {NoRendition}
        BY DEF Inv, Shown, ObjectsRetired
      <3>2. store.rendition # NoRendition => store.rendition[1] = session
        BY DEF Inv, Shown
      <3>3. <<s, 0>>[1] = s
        OBVIOUS
      <3>4. QED BY <1>1, <3>1, <3>2, <3>3
    <2>3. live' = [books |-> live.books \ {s}, renditions |-> live.renditions \ {<<s, 0>>}]
      BY DEF Abandoned
    <2>4. live = [books |-> live.books, renditions |-> live.renditions]
      BY <1>4
    <2>5. live.renditions \ {<<s, 0>>} = live.renditions
      BY <2>2
    <2>6. QED BY <2>1, <2>3, <2>4, <2>5
  <1>8. TypeOK'
    <2>1. Awaits(o, writes)
      BY <1>2 DEF Awaits
    <2>2. QED BY <1>3, <1>5, <1>7, <2>1, Types, TypesKept DEF Inv
  <1>9. Linked'
    <2>1. session \in Session => opening'[session] = opening[session]
      BY <1>1, <1>5
    <2>2. ASSUME NEW t \in Session
          PROVE  /\ t > session => opening'[t] = Idle
                 /\ opening'[t].pc \in Awaiting \cup {"open"} => opening'[t].book \in Book
                 /\ t = session /\ opening'[t].pc \in Awaiting \cup {"open"}
                        => opening'[t].book = store.book
                 /\ opening'[t].pc = "retired" => t < session
                 /\ opening'[t].ahead > 0 => opening'[t].pc = "chain"
      <3>1. CASE t = s
        BY <1>1, <1>2, <1>4, <1>5, <1>6, <3>1, OpeningStates DEF Session
      <3>2. CASE t # s
        BY <1>5, <3>2 DEF Inv, Linked
      <3>3. QED BY <3>1, <3>2
    <2>3. \A g \in Apply : applies[g].session <= session
      BY DEF Inv, Linked
    <2>4. \A g \in Apply : Current(g) /\ applies[g].pc \in Active
              => opening'[session].pc = "open"
      <3>1. ASSUME NEW g \in Apply, Current(g), applies[g].pc \in Active
            PROVE  opening'[session].pc = "open"
        <4>1. session \in Session
          BY <3>1, OpeningStates DEF Inv, Linked, Current
        <4>2. QED BY <2>1, <3>1, <4>1 DEF Inv, Linked
      <3>2. QED BY <3>1
    <2>5. QED BY <1>3, <2>1, <2>2, <2>4 DEF Inv, Linked, Current
  <1>10. Shown'
    <2>1. session \in Session => opening'[session] = opening[session]
      BY <1>1, <1>5
    <2>2. QED BY <1>3, <1>7, <2>1 DEF Inv, Shown, ObjectsRetired, Current
  <1>11. Placed'
    BY <1>2, <1>3, <1>5 DEF Inv, Placed, LocationsStayApart
  <1>12. Chained'
    BY <1>3 DEF Inv, Chained
  <1>13. Resuming'
    BY <1>1, <1>3, <1>5 DEF Inv, Resuming
  <1>14. Settled'
    BY <1>2, <1>3, <1>5 DEF Inv, Settled, Current
  <1>15. QED BY <1>8, <1>9, <1>10, <1>11, <1>12, <1>13, <1>14 DEF Inv

-----------------------------------------------------------------------------
(* Settings changes. *)

LEMMA ApplyReadingSettingsKeeps ==
    ASSUME Inv, NEW g \in Apply, NEW f \in Flow, ApplyReadingSettings(g, f)
    PROVE  Inv'
  <1> DEFINE a == [NoApply EXCEPT !.pc = "queued", !.session = session, !.book = store.book,
                                  !.flow = f]
  <1>1. /\ applies[g].pc = "idle" /\ store.book # NoBook
        /\ \A h \in 1..(g - 1) : applies[h].pc # "idle"
        /\ applies' = [applies EXCEPT ![g] = a]
        /\ progress' = progress /\ session' = session /\ timer' = timer /\ store' = store
        /\ writes' = writes /\ opening' = opening /\ turns' = turns /\ live' = live
        /\ reached' = reached /\ failed' = failed /\ errors' = errors
    BY DEF ApplyReadingSettings, extras
  <1>2. /\ applies \in [Apply -> Settlings] /\ session \in 0..MaxSessions
        /\ store.book \in Book \cup {NoBook}
    BY Types DEF Inv, Stores
  <1>3. /\ a \in Settlings /\ a.pc = "queued" /\ a.session = session /\ a.book = store.book
        /\ a.target = None /\ a.ahead = 0
    BY <1>2 DEF NoApply, Settlings, ApplyPc
  <1> HIDE DEF a
  <1>4. /\ applies' \in [Apply -> Settlings] /\ applies'[g] = a
        /\ \A h \in Apply : h # g => applies'[h] = applies[h]
    BY <1>1, <1>2, <1>3
  <1>5. session \in Session
    BY <1>1 DEF Inv, Linked
  <1>6. \A h \in Apply : h \in Nat /\ (h < g => h \in 1..(g - 1)) /\ (h < g \/ h = g \/ h > g)
    BY Bounds DEF Apply
  <1>7. TypeOK'
    <2>1. Awaits(a, writes)
      BY <1>3 DEF Awaits
    <2>2. QED BY <1>1, <1>4, <2>1, Types, TypesKept DEF Inv
  <1>8. Linked'
    <2>1. session <= session
      BY <1>2, Bounds
    <2>2. QED BY <1>1, <1>3, <1>4, <1>5, <2>1, OpeningStates DEF Inv, Linked, Current
  <1>9. Shown'
    <2>1. store.rendition # NoRendition /\ store.rendition[2] # 0 =>
              store.rendition[2] \in Apply
      <3>1. \A r \in Rendition : r[2] # 0 => r[2] \in Apply
        BY RenditionParts, Bounds DEF Apply
      <3>2. QED BY <3>1, Types DEF Inv, Stores
    <2>2. QED BY <1>1, <1>3, <1>4, <2>1 DEF Inv, Shown, ObjectsRetired, Current
  <1>10. Placed'
    BY <1>1, <1>3, <1>4 DEF Inv, Placed, LocationsStayApart
  <1>11. Chained' /\ Resuming'
    BY <1>1 DEF Inv, Chained, Resuming
  <1>12. Settled'
    <2>1. \A h, k \in Apply : h < k /\ applies'[k].pc # "idle" => applies'[h].pc # "idle"
      BY <1>1, <1>3, <1>4, <1>6 DEF Inv, Settled
    <2>2. \A h, k \in Apply :
              h < k /\ applies'[k].session = applies'[h].session
                    /\ applies'[k].pc \in Active \cup {"done"}
                  => applies'[h].pc = "done"
      BY <1>1, <1>3, <1>4, <1>6, OpeningStates DEF Inv, Settled
    <2>3. errors = 0 =>
              /\ \A k \in Apply : applies'[k].session = session
                                  /\ applies'[k].pc \in {"saving", "displaying"}
                     => store.flow = applies'[k].flow
              /\ \/ store.built = store.flow
                 \/ \E k \in Apply : /\ applies'[k].session = session
                                     /\ applies'[k].pc = "saving" /\ applies'[k].rebuild
      BY <1>1, <1>3, <1>4 DEF Inv, Settled, Current
    <2>4. ASSUME errors = 0, NEW k \in Apply, applies'[k].session = session,
                 applies'[k].pc = "done", \A h \in Apply : h > k => applies'[h].pc = "idle"
          PROVE  store.flow = applies'[k].flow
      <3>1. k # g /\ applies'[k] = applies[k]
        BY <1>3, <1>4, <2>4
      <3>2. \A h \in Apply : h > k => applies[h].pc = "idle"
        BY <1>1, <1>4, <2>4
      <3>3. QED BY <2>4, <3>1, <3>2 DEF Inv, Settled, Current
    <2>5. \A k \in Apply : applies'[k].pc = "rejected" => errors > 0
      BY <1>3, <1>4 DEF Inv, Settled
    <2>6. QED BY <1>1, <2>1, <2>2, <2>3, <2>4, <2>5 DEF Inv, Settled, Current
  <1>13. QED BY <1>7, <1>8, <1>9, <1>10, <1>11, <1>12 DEF Inv

\* A settings change that ends.
LEMMA EndsKeeps ==
    ASSUME Inv, NEW g \in Apply, applies[g].pc # "idle", applies' = Ends(g),
           UNCHANGED <<progress, session, store, timer, writes, opening, live, extras>>,
           \A h \in Apply : h < g /\ applies[h].session = applies[g].session
                                => applies[h].pc = "done",
           Current(g) /\ applies[g].rebuild /\ errors = 0 => applies[g].pc # "saving",
           Current(g) /\ errors = 0 /\ (\A h \in Apply : h > g => applies[h].pc = "idle")
               => store.flow = applies[g].flow
    PROVE  Inv'
  <1> DEFINE a == [NoApply EXCEPT !.pc = "done", !.session = applies[g].session,
                                  !.flow = applies[g].flow]
  <1>1. /\ applies' = [applies EXCEPT ![g] = a]
        /\ progress' = progress /\ session' = session /\ timer' = timer /\ store' = store
        /\ writes' = writes /\ opening' = opening /\ turns' = turns /\ live' = live
        /\ reached' = reached /\ failed' = failed /\ errors' = errors
    BY DEF Ends, extras
  <1>2. applies \in [Apply -> Settlings]
    BY Types DEF Inv
  <1>3. /\ a \in Settlings /\ a.pc = "done" /\ a.session = applies[g].session
        /\ a.flow = applies[g].flow /\ a.target = None /\ a.ahead = 0
    BY <1>2 DEF NoApply, Settlings, ApplyPc
  <1> HIDE DEF a
  <1>4. /\ applies' \in [Apply -> Settlings] /\ applies'[g] = a
        /\ \A h \in Apply : h # g => applies'[h] = applies[h]
        /\ \A h \in Apply : applies'[h].session = applies[h].session
    BY <1>1, <1>2, <1>3
  <1>5. TypeOK'
    <2>1. Awaits(a, writes)
      BY <1>3 DEF Awaits
    <2>2. QED BY <1>1, <1>4, <2>1, Types, TypesKept DEF Inv
  <1>6. Linked'
    BY <1>1, <1>3, <1>4, OpeningStates DEF Inv, Linked, Current
  <1>7. Shown'
    <2>1. store.rendition # NoRendition /\ store.rendition[2] # 0 =>
              store.rendition[2] \in Apply
      <3>1. \A r \in Rendition : r[2] # 0 => r[2] \in Apply
        BY RenditionParts, Bounds DEF Apply
      <3>2. QED BY <3>1, Types DEF Inv, Stores
    <2>2. QED BY <1>1, <1>4, <2>1 DEF Inv, Shown, ObjectsRetired, Current
  <1>8. Placed'
    BY <1>1, <1>3, <1>4 DEF Inv, Placed, LocationsStayApart
  <1>9. Chained' /\ Resuming'
    BY <1>1 DEF Inv, Chained, Resuming
  <1>10. Settled'
    <2>1. \A h, k \in Apply : h < k /\ applies'[k].pc # "idle" => applies'[h].pc # "idle"
      BY <1>3, <1>4 DEF Inv, Settled
    <2>2. ASSUME NEW h \in Apply, NEW k \in Apply, h < k,
                 applies'[k].session = applies'[h].session,
                 applies'[k].pc \in Active \cup {"done"}
          PROVE  applies'[h].pc = "done"
      <3>1. CASE h = g
        BY <1>3, <1>4, <3>1
      <3>2. CASE h # g /\ k = g
        BY <1>4, <2>2, <3>2
      <3>3. CASE h # g /\ k # g
        BY <1>4, <2>2, <3>3 DEF Inv, Settled
      <3>4. QED BY <3>1, <3>2, <3>3
    <2>3. errors = 0 =>
              /\ \A k \in Apply : applies'[k].session = session
                                  /\ applies'[k].pc \in {"saving", "displaying"}
                     => store.flow = applies'[k].flow
              /\ \/ store.built = store.flow
                 \/ \E k \in Apply : /\ applies'[k].session = session
                                     /\ applies'[k].pc = "saving" /\ applies'[k].rebuild
      BY <1>3, <1>4 DEF Inv, Settled, Current
    <2>4. ASSUME errors = 0, NEW k \in Apply, applies'[k].session = session,
                 applies'[k].pc = "done", \A h \in Apply : h > k => applies'[h].pc = "idle"
          PROVE  store.flow = applies'[k].flow
      <3>1. \A h \in Apply : h > k => applies[h].pc = "idle"
        BY <1>3, <1>4, <2>4
      <3>2. CASE k = g
        BY <1>3, <1>4, <2>4, <3>1, <3>2 DEF Current
      <3>3. CASE k # g
        BY <1>4, <2>4, <3>1, <3>3 DEF Inv, Settled, Current
      <3>4. QED BY <3>2, <3>3
    <2>5. \A k \in Apply : applies'[k].pc = "rejected" => errors > 0
      BY <1>3, <1>4 DEF Inv, Settled
    <2>6. QED BY <1>1, <2>1, <2>2, <2>3, <2>4, <2>5 DEF Inv, Settled, Current
  <1>11. QED BY <1>5, <1>6, <1>7, <1>8, <1>9, <1>10 DEF Inv

LEMMA EndApplyKeeps ==
    ASSUME Inv, NEW g \in Apply, EndApply(g)
    PROVE  Inv'
  <1>1. /\ \/ applies[g].pc = "saving" /\ (applies[g].rebuild => applies[g].session # session)
           \/ applies[g].pc \in {"displaying", "rejected"}
        /\ applies' = Ends(g)
        /\ UNCHANGED <<progress, session, store, timer, writes, opening, live, extras>>
    BY DEF EndApply
  <1>2. applies[g].pc \in Active
    BY <1>1, OpeningStates
  <1>3. \A h \in Apply : h < g /\ applies[h].session = applies[g].session
                             => applies[h].pc = "done"
    BY <1>2 DEF Inv, Settled
  <1>4. applies[g].pc = "rejected" => errors > 0
    BY DEF Inv, Settled
  <1>5. Current(g) /\ errors = 0 => store.flow = applies[g].flow
    BY <1>1, <1>4 DEF Inv, Settled
  <1>6. Current(g) /\ applies[g].rebuild => applies[g].pc # "saving"
    BY <1>1 DEF Current
  <1>7. QED BY <1>1, <1>3, <1>5, <1>6, EndsKeeps

LEMMA StartApplyKeeps ==
    ASSUME Inv, NEW g \in Apply, StartApply(g)
    PROVE  Inv'
  <1> DEFINE void == applies[g].session # session \/ IsSuperseded(g)
             n == IF store.cfi # None THEN Len(writes[applies[g].book]) + 1 ELSE 0
             d == (store.flow # applies[g].flow)
             a == [applies[g] EXCEPT !.pc = "saving", !.target = store.cfi, !.rebuild = d,
                                     !.ahead = n]
  <1>1. /\ applies[g].pc = "queued" /\ IsNext(g)
        /\ void \/ opening[session].pc \notin Awaiting
        /\ progress' = progress /\ session' = session /\ timer' = timer
        /\ opening' = opening /\ turns' = turns /\ live' = live
        /\ reached' = reached /\ failed' = failed /\ errors' = errors
    BY DEF StartApply, extras
  <1>2. /\ applies \in [Apply -> Settlings] /\ session \in 0..MaxSessions
        /\ store \in Stores /\ writes \in Chains
    BY Types DEF Inv
  <1>3. \A h \in Apply : h \in Nat /\ (h < g => h \in 1..(g - 1))
                         /\ (h > g => h \in (g + 1)..MaxApplies)
    BY Bounds DEF Apply
  <1>4. \A h \in Apply : h < g /\ applies[h].session = applies[g].session
                             => applies[h].pc = "done"
    BY <1>1, <1>3 DEF IsNext
  <1>5. IsSuperseded(g) => \E h \in Apply : h > g /\ applies[h].pc # "idle"
    <2>1. \A h \in (g + 1)..MaxApplies : h \in Apply /\ h > g
      BY Bounds DEF Apply
    <2>2. QED BY <2>1 DEF IsSuperseded
  <1>6. CASE void \/ store.rendition = NoRendition
    <2>1. /\ applies' = Ends(g)
          /\ UNCHANGED <<progress, session, store, timer, writes, opening, live, extras>>
      BY <1>1, <1>6 DEF StartApply
    <2>2. ~void => errors > 0
      <3>1. SUFFICES ASSUME ~void PROVE errors > 0
        OBVIOUS
      <3>2. store.rendition = NoRendition /\ Current(g) /\ opening[session].pc \notin Awaiting
        BY <1>1, <1>6, <3>1 DEF Current
      <3>3. store.book # NoBook
        BY <1>1, <3>2 DEF Inv, Linked
      <3>4. session \in Session /\ opening[session].pc \in {"open", "failed"}
        BY <3>2, <3>3 DEF Inv, Linked
      <3>5. opening[session].pc # "open"
        BY <3>2, <3>4 DEF Inv, Shown
      <3>6. QED BY <3>4, <3>5 DEF Inv, Settled
    <2>3. Current(g) /\ errors = 0 /\ (\A h \in Apply : h > g => applies[h].pc = "idle")
              => store.flow = applies[g].flow
      <3>1. errors = 0 => ~(errors > 0)
        OBVIOUS
      <3>2. QED BY <1>5, <2>2, <3>1 DEF Current
    <2>4. QED BY <1>1, <1>4, <2>1, <2>3, EndsKeeps
  <1>7. CASE ~void /\ store.rendition # NoRendition
    <2>1. applies[g].session = session /\ Current(g) /\ ~IsSuperseded(g)
      BY <1>7 DEF Current
    <2>2. \A h \in Apply : h > g => applies[h].pc = "idle"
      BY <1>3, <2>1 DEF IsSuperseded
    <2>3. /\ store.book \in Book /\ applies[g].book = store.book
          /\ opening[session].pc = "open" /\ session \in Session
      <3>1. store.book # NoBook /\ applies[g].book = store.book
        BY <1>1, <2>1 DEF Inv, Linked
      <3>2. session \in Session /\ opening[session].pc \in Awaiting \cup {"open"}
        BY <1>7 DEF Inv, Shown
      <3>3. QED BY <1>1, <1>2, <1>7, <3>1, <3>2 DEF Stores
    <2>4. /\ store' = [store EXCEPT !.flow = applies[g].flow]
          /\ writes' = IF store.cfi # None THEN Queued(writes, store.book, store.cfi)
                       ELSE writes
          /\ applies' = [applies EXCEPT ![g] = a]
      BY <1>1, <1>7, <2>3 DEF StartApply
    <2>5. Len(writes[store.book]) \in Nat /\ n \in Nat
      BY <2>3, ChainLengths DEF Inv
    <2>6. n > 0 => store.cfi # None /\ n = Len(writes[store.book]) + 1
      BY <2>3
    <2> DEFINE isFlag == d \in BOOLEAN /\ (d <=> store.flow # applies[g].flow)
    <2>differs. isFlag
      OBVIOUS
    <2> HIDE DEF n, d
    <2>7. /\ a \in Settlings /\ a.pc = "saving" /\ a.session = session /\ a.book = store.book
          /\ a.flow = applies[g].flow /\ a.target = store.cfi /\ a.ahead = n
          /\ a.rebuild <=> store.flow # applies[g].flow
      <3>1. applies[g] \in Settlings /\ store.cfi \in Cfi \cup {None}
        BY <1>2 DEF Stores
      <3>2. /\ a \in Settlings /\ a.pc = "saving" /\ a.session = applies[g].session
            /\ a.book = applies[g].book /\ a.flow = applies[g].flow /\ a.target = store.cfi
            /\ a.ahead = n
        BY <2>5, <2>differs, <3>1 DEF Settlings, ApplyPc
      <3>3. a.rebuild = d
        BY <3>1 DEF Settlings
      <3>4. QED BY <2>1, <2>3, <2>differs, <3>2, <3>3
    <2> HIDE DEF a
    <2>8. /\ applies' \in [Apply -> Settlings] /\ applies'[g] = a
          /\ \A h \in Apply : h # g => applies'[h] = applies[h]
          /\ \A h \in Apply : applies'[h].session = applies[h].session
      BY <1>2, <2>1, <2>4, <2>7
    <2>9. /\ store' \in Stores /\ store'.book = store.book /\ store'.cfi = store.cfi
          /\ store'.epub = store.epub /\ store'.rendition = store.rendition
          /\ store'.built = store.built /\ store'.flow = applies[g].flow
      BY <1>2, <2>4 DEF Stores, Settlings
    <2>10. /\ store.cfi = None => writes' = writes
           /\ store.cfi # None => Longer(writes', store.book, store.cfi)
      <3>1. store.cfi # None => store.cfi \in Cfi
        BY <1>2 DEF Stores
      <3>2. QED BY <2>3, <2>4, <3>1, LongerChain
    <2>11. /\ store.cfi # None => store.cfi \in Cfi /\ store.cfi[1] = store.book
           /\ store.cfi # None => reached[store.book] = store.cfi
           /\ timer = None \/ timer = store.cfi
      BY <1>2 DEF Inv, Placed, Chained, Stores
    <2>12. writes' \in Chains
      BY <1>2, <2>10 DEF Longer
    <2>13. TypeOK'
      <3>1. Awaits(a, writes')
        BY <2>3, <2>6, <2>7, <2>10 DEF Awaits, Longer
      <3>2. \A s \in Session : Awaits(opening[s], writes) /\ opening[s].ahead \in Nat
        BY Types DEF Inv, Openings
      <3>3. \A h \in Apply : Awaits(applies[h], writes) /\ applies[h].ahead \in Nat
        BY Types DEF Inv, Settlings
      <3>4. \A p : Awaits(p, writes) /\ p.ahead \in Nat => Awaits(p, writes')
        BY <2>3, <2>10, <2>11, LongerAwaits
      <3>5. /\ \A s \in Session : Awaits(opening'[s], writes')
            /\ \A h \in Apply : Awaits(applies'[h], writes')
        BY <1>1, <2>8, <3>1, <3>2, <3>3, <3>4
      <3>6. QED BY <1>1, <2>8, <2>9, <2>12, <3>5, Types, TypesKept DEF Inv
    <2>14. Linked'
      BY <1>1, <2>3, <2>7, <2>8, <2>9, OpeningStates DEF Inv, Linked, Current
    <2>15. Shown'
      <3>1. store.rendition[2] # 0 => store.rendition[2] \in Apply
        <4>1. \A r \in Rendition : r[2] # 0 => r[2] \in Apply
          BY RenditionParts, Bounds DEF Apply
        <4>2. QED BY <1>2, <1>7, <4>1 DEF Stores
      <3>2. QED BY <1>1, <2>8, <2>9, <3>1 DEF Inv, Shown, ObjectsRetired, Current
    <2>16. Placed'
      <3>1. \A b \in Book : \A i \in DOMAIN writes'[b] : writes'[b][i].cfi[1] = b
        BY <2>3, <2>10, <2>11, LongerIsChained DEF Inv, Placed, LocationsStayApart
      <3>2. QED BY <1>1, <2>7, <2>8, <2>9, <2>11, <3>1 DEF Inv, Placed, LocationsStayApart
    <2>17. Chained'
      <3>1. /\ \A b \in Book : \A i \in DOMAIN writes'[b] :
                  writes'[b][i].status = "queued" <=> i # 1
            /\ \A b \in Book : writes'[b] # <<>> /\ writes'[b][1].status = "done"
                  => progress[b] = writes'[b][1].cfi
        BY <2>3, <2>10, <2>11, LongerIsChained DEF Inv, Chained
      <3>2. ASSUME NEW b \in Book, timer = None \/ store.book # b
            PROVE  /\ writes'[b] # <<>> => writes'[b][Len(writes'[b])].cfi = reached[b]
                   /\ writes'[b] = <<>> /\ b \notin failed => progress[b] = reached[b]
        <4>1. CASE store.cfi # None /\ b = store.book
          BY <2>10, <2>11, <4>1 DEF Longer
        <4>2. CASE ~(store.cfi # None /\ b = store.book)
          <5>1. writes'[b] = writes[b]
            BY <2>10, <4>2 DEF Longer
          <5>2. QED BY <3>2, <5>1 DEF Inv, Chained
        <4>3. QED BY <4>1, <4>2
      <3>3. QED BY <1>1, <2>9, <2>11, <3>1, <3>2 DEF Chained
    <2>18. Resuming'
      BY <1>1, <2>3 DEF Inv, Resuming
    <2>19. Settled'
      <3>1. \A h, k \in Apply : h < k /\ applies'[k].pc # "idle" => applies'[h].pc # "idle"
        BY <1>1, <2>7, <2>8 DEF Inv, Settled
      <3>2. ASSUME NEW h \in Apply, NEW k \in Apply, h < k,
                   applies'[k].session = applies'[h].session,
                   applies'[k].pc \in Active \cup {"done"}
            PROVE  applies'[h].pc = "done"
        <4>1. CASE k = g
          <5>1. h # g
            BY <1>3, <3>2, <4>1
          <5>2. QED BY <1>4, <2>8, <3>2, <4>1, <5>1
        <4>2. CASE k # g
          BY <1>1, <2>8, <3>2, <4>2 DEF Inv, Settled
        <4>3. QED BY <4>1, <4>2
      <3>3. ASSUME NEW k \in Apply, k # g, Current(k), applies[k].pc # "idle"
            PROVE  applies[k].pc = "done" /\ k < g
        <4>1. k < g
          BY <1>3, <2>2, <3>3
        <4>2. QED BY <1>4, <2>1, <3>3, <4>1 DEF Current
      <3>4. \A k \in Apply : applies'[k].session = session
                             /\ applies'[k].pc \in {"saving", "displaying"}
                => store'.flow = applies'[k].flow
        BY <2>7, <2>8, <2>9, <3>3 DEF Current
      <3>5. errors = 0 =>
                \/ store'.built = store'.flow
                \/ \E k \in Apply : /\ applies'[k].session = session
                                    /\ applies'[k].pc = "saving" /\ applies'[k].rebuild
        <4>1. CASE a.rebuild
          BY <2>7, <2>8, <4>1
        <4>2. CASE ~a.rebuild
          <5>1. store'.flow = store.flow
            BY <2>7, <2>9, <4>2
          <5>2. ~\E k \in Apply : Current(k) /\ applies[k].pc = "saving" /\ applies[k].rebuild
            BY <1>1, <3>3
          <5>3. QED BY <2>9, <5>1, <5>2 DEF Inv, Settled
        <4>3. QED BY <4>1, <4>2
      <3>6. ASSUME NEW k \in Apply, applies'[k].session = session, applies'[k].pc = "done",
                   \A h \in Apply : h > k => applies'[h].pc = "idle"
            PROVE  store'.flow = applies'[k].flow
        <4>1. k # g
          BY <2>7, <2>8, <3>6
        <4>2. g > k
          BY <1>3, <2>8, <3>3, <3>6, <4>1 DEF Current
        <4>3. QED BY <2>7, <2>8, <3>6, <4>2
      <3>7. \A b \in Book : \A i \in DOMAIN writes'[b] :
                writes'[b][i].status = "failed" => errors > 0
        BY <2>3, <2>10, <2>11, LongerIsChained DEF Inv, Settled
      <3>8. \A k \in Apply : applies'[k].pc = "rejected" => errors > 0
        BY <2>7, <2>8 DEF Inv, Settled
      <3>9. QED BY <1>1, <3>1, <3>2, <3>4, <3>5, <3>6, <3>7, <3>8 DEF Inv, Settled, Current
    <2>20. QED BY <2>13, <2>14, <2>15, <2>16, <2>17, <2>18, <2>19 DEF Inv
  <1>8. QED BY <1>6, <1>7

LEMMA RebuildKeeps ==
    ASSUME Inv, NEW g \in Apply, Rebuild(g)
    PROVE  Inv'
  <1>1. /\ applies[g].pc = "saving" /\ applies[g].ahead = 0 /\ applies[g].session = session
        /\ applies[g].rebuild
        /\ progress' = progress /\ session' = session /\ timer' = timer
        /\ opening' = opening /\ turns' = turns /\ writes' = writes
        /\ reached' = reached /\ failed' = failed /\ errors' = errors
    BY DEF Rebuild, extras
  <1>2. /\ applies \in [Apply -> Settlings] /\ store \in Stores
        /\ live \in [books: SUBSET Session, renditions: SUBSET Rendition]
    BY Types DEF Inv
  <1>3. Current(g) /\ applies[g].pc \in Active /\ g # 0 /\ g \in 0..MaxApplies
    BY <1>1, Bounds, OpeningStates DEF Current, Apply
  <1>4. /\ store.book \in Book /\ applies[g].book = store.book /\ session \in Session
        /\ opening[session].pc = "open"
    <2>1. store.book # NoBook /\ applies[g].book = store.book
      BY <1>1, <1>3 DEF Inv, Linked
    <2>2. session \in Session /\ opening[session].pc = "open"
      BY <1>1, <1>3 DEF Inv, Linked
    <2>3. QED BY <1>2, <2>1, <2>2 DEF Stores
  <1> DEFINE r == <<session, g>>
  <1>5. r \in Rendition /\ r # NoRendition /\ r[1] = session /\ r[2] = g
    BY <1>3, <1>4, RenditionParts
  <1>6. store.rendition # NoRendition /\ store.epub
    BY <1>4 DEF Inv, Shown
  <1> HIDE DEF r
  <1>7. /\ store' \in Stores /\ store'.book = store.book /\ store'.cfi = store.cfi
        /\ store'.epub = store.epub /\ store'.rendition = r
        /\ store'.built = applies[g].flow /\ store'.flow = store.flow
    <2>1. store' = [store EXCEPT !.rendition = r, !.built = applies[g].flow]
      BY DEF Rebuild, r
    <2>2. QED BY <1>2, <1>5, <2>1 DEF Stores, Settlings
  <1>8. /\ live' \in [books: SUBSET Session, renditions: SUBSET Rendition]
        /\ live'.books = live.books /\ live'.renditions = {r}
    <2>1. live' = [live EXCEPT !.renditions = (@ \ {store.rendition}) \cup {r}]
      BY DEF Rebuild, r
    <2>2. live.renditions \ {store.rendition} = {}
      BY DEF Inv, Shown, ObjectsRetired
    <2>3. QED BY <1>2, <1>5, <2>1, <2>2
  <1>9. PICK t \in {applies[g].target, store.cfi} :
            applies' = [applies EXCEPT ![g].pc = "displaying",
                                       ![g].target = IF t = None THEN StartOf(applies[g].book)
                                                     ELSE t]
    BY DEF Rebuild
  <1> DEFINE c == IF t = None THEN StartOf(applies[g].book) ELSE t
             a == [applies[g] EXCEPT !.pc = "displaying", !.target = c]
  <1>10. c \in Cfi /\ c # None /\ c[1] = applies[g].book
    <2>1. t # None => t \in Cfi /\ t[1] = applies[g].book
      BY <1>2, <1>4 DEF Inv, Placed, Settlings, Stores
    <2>2. QED BY <1>4, <2>1, Starts
  <1>11. applies' = [applies EXCEPT ![g] = a]
    BY <1>9
  <1> HIDE DEF c
  <1>12. /\ a \in Settlings /\ a.pc = "displaying" /\ a.session = session
         /\ a.book = applies[g].book /\ a.flow = applies[g].flow /\ a.target = c
         /\ a.ahead = 0
    BY <1>1, <1>2, <1>10 DEF Settlings, ApplyPc
  <1> HIDE DEF a
  <1>13. /\ applies' \in [Apply -> Settlings] /\ applies'[g] = a
         /\ \A h \in Apply : h # g => applies'[h] = applies[h]
         /\ \A h \in Apply : applies'[h].session = applies[h].session
    BY <1>1, <1>2, <1>11, <1>12
  <1>14. TypeOK'
    <2>1. Awaits(a, writes)
      BY <1>12 DEF Awaits
    <2>2. QED BY <1>1, <1>7, <1>8, <1>13, <2>1, Types, TypesKept DEF Inv
  <1>15. Linked'
    BY <1>1, <1>3, <1>4, <1>7, <1>12, <1>13, OpeningStates DEF Inv, Linked, Current
  <1>16. Shown'
    BY <1>1, <1>4, <1>5, <1>6, <1>7, <1>8, <1>12, <1>13, OpeningStates
       DEF Inv, Shown, ObjectsRetired, Current
  <1>17. Placed'
    BY <1>1, <1>7, <1>10, <1>12, <1>13 DEF Inv, Placed, LocationsStayApart
  <1>18. Chained' /\ Resuming'
    BY <1>1, <1>7 DEF Inv, Chained, Resuming
  <1>19. Settled'
    <2>1. \A h, k \in Apply : h < k /\ applies'[k].pc # "idle" => applies'[h].pc # "idle"
      BY <1>1, <1>12, <1>13 DEF Inv, Settled
    <2>2. ASSUME NEW h \in Apply, NEW k \in Apply, h < k,
                 applies'[k].session = applies'[h].session,
                 applies'[k].pc \in Active \cup {"done"}
          PROVE  applies'[h].pc = "done"
      <3>1. applies[k].session = applies[h].session /\ applies[k].pc \in Active \cup {"done"}
        BY <1>3, <1>13, <2>2
      <3>2. applies[h].pc = "done"
        BY <2>2, <3>1 DEF Inv, Settled
      <3>3. QED BY <1>1, <1>13, <3>2
    <2>3. \A k \in Apply : k # g /\ applies[k].session = session => applies[k].pc # "saving"
      <3>1. ASSUME NEW k \in Apply, k # g, applies[k].session = session,
                   applies[k].pc = "saving"
            PROVE  FALSE
        <4>1. k < g \/ g < k
          BY <3>1 DEF Apply
        <4>2. QED BY <1>1, <1>3, <3>1, <4>1, OpeningStates DEF Inv, Settled
      <3>2. QED BY <3>1
    <2>4. errors = 0 =>
              /\ \A k \in Apply : applies'[k].session = session
                                  /\ applies'[k].pc \in {"saving", "displaying"}
                     => store'.flow = applies'[k].flow
              /\ store'.built = store'.flow
      <3>1. errors = 0 => store.flow = applies[g].flow
        BY <1>1, <1>3 DEF Inv, Settled
      <3>2. QED BY <1>7, <1>12, <1>13, <3>1 DEF Inv, Settled, Current
    <2>5. ASSUME errors = 0, NEW k \in Apply, applies'[k].session = session,
                 applies'[k].pc = "done", \A h \in Apply : h > k => applies'[h].pc = "idle"
          PROVE  store'.flow = applies'[k].flow
      <3>1. k # g /\ applies'[k] = applies[k]
        BY <1>12, <1>13, <2>5
      <3>2. \A h \in Apply : h > k => applies[h].pc = "idle"
        BY <1>12, <1>13, <2>5
      <3>3. QED BY <1>7, <2>5, <3>1, <3>2 DEF Inv, Settled, Current
    <2>6. \A k \in Apply : applies'[k].pc = "rejected" => errors > 0
      BY <1>12, <1>13 DEF Inv, Settled
    <2>7. QED BY <1>1, <2>1, <2>2, <2>4, <2>5, <2>6 DEF Inv, Settled, Current
  <1>20. QED BY <1>14, <1>15, <1>16, <1>17, <1>18, <1>19 DEF Inv

-----------------------------------------------------------------------------
(* What the reader, EPUB.js, the timer and the backend do meanwhile. *)

LEMMA SavesKeeps ==
    ASSUME Inv, timer # None, writes' = Flushed(writes), timer' = None,
           UNCHANGED <<progress, session, store, opening, applies, live, extras>>
    PROVE  Inv'
  <1>1. /\ progress' = progress /\ session' = session /\ store' = store
        /\ opening' = opening /\ applies' = applies /\ live' = live /\ turns' = turns
        /\ errors' = errors /\ reached' = reached /\ failed' = failed
    BY DEF extras
  <1>2. /\ store.book \in Book /\ store.cfi \in Cfi /\ timer = store.cfi
        /\ writes' = Queued(writes, store.book, store.cfi)
    BY FlushedChain
  <1>3. store.cfi # None /\ Longer(writes', store.book, store.cfi)
    BY <1>2, LongerChain
  <1>4. TypeOK'
    <2>1. \A s \in Session : Awaits(opening[s], writes) /\ opening[s].ahead \in Nat
      BY Types DEF Inv, Openings
    <2>2. \A g \in Apply : Awaits(applies[g], writes) /\ applies[g].ahead \in Nat
      BY Types DEF Inv, Settlings
    <2>3. /\ \A s \in Session : Awaits(opening'[s], writes')
          /\ \A g \in Apply : Awaits(applies'[g], writes')
      BY <1>1, <2>1, <2>2, FlushedKeeps
    <2>4. writes' \in Chains
      BY <1>3 DEF Longer
    <2>5. QED BY <1>1, <2>3, <2>4, Types, TypesKept DEF Inv
  <1>5. Linked' /\ Shown'
    BY <1>1 DEF Inv, Linked, Shown, ObjectsRetired, Current
  <1>6. Placed'
    <2>1. \A b \in Book : \A i \in DOMAIN writes'[b] : writes'[b][i].cfi[1] = b
      BY <1>1, FlushedKeeps
    <2>2. QED BY <1>1, <2>1 DEF Inv, Placed, LocationsStayApart
  <1>7. Chained'
    <2>1. store.cfi # None => reached[store.book] = store.cfi
      BY DEF Inv, Chained
    <2>2. QED BY <1>1, <2>1, FlushedKeeps DEF Chained
  <1>8. Resuming'
    <2>1. SUFFICES ASSUME session \in Session
                   PROVE  LET o == opening[session]
                          IN  /\ o.pc \notin {"loading", "chain", "reading", "read"}
                              /\ o.asked => o.target # None /\ o.target[2] # 0
                              /\ o.pc = "displaying" =>
                                     /\ store.cfi \in {None, o.target}
                                     /\ \A i \in DOMAIN writes'[o.book] :
                                            writes'[o.book][i].cfi = o.target
                                     /\ o.target = StartOf(o.book)
                                            => progress[o.book] \in {None, StartOf(o.book)}
      BY <1>1 DEF Resuming
    <2>2. /\ opening[session].pc \notin {"loading", "chain", "reading", "read"}
          /\ opening[session].asked
                 => opening[session].target # None /\ opening[session].target[2] # 0
      BY <1>3, <2>1 DEF Inv, Resuming
    <2>3. ASSUME opening[session].pc = "displaying"
          PROVE  LET o == opening[session]
                 IN  /\ store.cfi \in {None, o.target}
                     /\ \A i \in DOMAIN writes'[o.book] : writes'[o.book][i].cfi = o.target
                     /\ o.target = StartOf(o.book)
                            => progress[o.book] \in {None, StartOf(o.book)}
      <3> DEFINE o == opening[session]
                 b == store.book
                 n == Len(writes[b])
      <3>1. o.book = b /\ store.cfi = o.target
        BY <1>3, <2>1, <2>3, OpeningStates DEF Inv, Linked, Resuming
      <3>2. \A i \in DOMAIN writes[b] : writes[b][i].cfi = o.target
        BY <2>1, <2>3, <3>1 DEF Inv, Resuming
      <3>3. n \in Nat /\ DOMAIN writes[b] = 1..n
        BY <1>2, ChainLengths DEF Inv
      <3>4. /\ DOMAIN writes'[b] = 1..(n + 1) /\ \A i \in 1..n : writes'[b][i] = writes[b][i]
            /\ writes'[b][n + 1].cfi = store.cfi
        BY <1>3 DEF Longer
      <3>5. o.target = StartOf(o.book) => progress[o.book] \in {None, StartOf(o.book)}
        BY <2>1, <2>3 DEF Inv, Resuming
      <3> HIDE DEF o, n, b
      <3>6. ASSUME NEW i \in DOMAIN writes'[b] PROVE writes'[b][i].cfi = o.target
        <4>1. i \in 1..n \/ i = n + 1
          BY <3>3, <3>4
        <4>2. QED BY <3>1, <3>2, <3>3, <3>4, <4>1
      <3>7. QED BY <3>1, <3>5, <3>6 DEF o
    <2>4. QED BY <2>2, <2>3
  <1>9. Settled'
    <2>1. \A b \in Book : \A i \in DOMAIN writes'[b] :
              writes'[b][i].status = "failed" => errors > 0
      BY <1>1, FlushedKeeps
    <2>2. QED BY <1>1, <2>1 DEF Inv, Settled, Current
  <1>10. QED BY <1>4, <1>5, <1>6, <1>7, <1>8, <1>9 DEF Inv

LEMMA TimerFiresKeeps ==
    ASSUME Inv, TimerFires
    PROVE  Inv'
  <1>1. /\ timer # None /\ writes' = Queued(writes, timer[1], timer) /\ timer' = None
        /\ UNCHANGED <<progress, session, store, opening, applies, live, extras>>
    BY DEF TimerFires
  <1>2. timer = store.cfi /\ timer[1] = store.book
    BY <1>1 DEF Inv, Placed
  <1>3. writes' = Flushed(writes)
    BY <1>1, <1>2, FlushedChain
  <1>4. QED BY <1>1, <1>3, SavesKeeps

LEMMA SuspendKeeps ==
    ASSUME Inv, Suspend
    PROVE  Inv'
    BY SavesKeeps DEF Suspend

LEMMA ReportedKeeps ==
    ASSUME Inv, NEW c \in Cfi, c[1] = store.book, store.book \in Book, Reported(c),
           UNCHANGED <<progress, session, writes, opening, applies, live, errors, failed>>,
           turns' \in 0..MaxTurns, session \in Session,
           \/ opening[session].pc = "open"
           \/ opening[session].pc = "displaying" /\ c = opening[session].target
    PROVE  Inv'
  <1>1. /\ progress' = progress /\ session' = session /\ writes' = writes
        /\ opening' = opening /\ applies' = applies /\ live' = live
        /\ errors' = errors /\ failed' = failed
    OBVIOUS
  <1>2. store \in Stores /\ reached \in [Book -> Cfi \cup {None}] /\ c # None
    BY Types, CfiParts DEF Inv
  <1>3. /\ store' \in Stores /\ store'.book = store.book /\ store'.cfi = c
        /\ store'.epub = store.epub /\ store'.rendition = store.rendition
        /\ store'.built = store.built /\ store'.flow = store.flow
    BY <1>2 DEF Reported, Stores
  <1>4. /\ timer' = c /\ reached' \in [Book -> Cfi \cup {None}]
        /\ reached'[store.book] = c
        /\ \A b \in Book : b # store.book => reached'[b] = reached[b]
    BY <1>2 DEF Reported
  <1>5. TypeOK'
    BY <1>1, <1>3, <1>4, Types, TypesKept DEF Inv
  <1>6. Linked' /\ Shown'
    BY <1>1, <1>3 DEF Inv, Linked, Shown, ObjectsRetired, Current
  <1>7. Placed'
    <2>1. store'.book # NoBook /\ store'.cfi[1] = store'.book /\ timer' = store'.cfi
      BY <1>3, <1>4
    <2>2. QED BY <1>1, <2>1 DEF Inv, Placed, LocationsStayApart
  <1>8. Chained'
    BY <1>1, <1>2, <1>3, <1>4 DEF Inv, Chained
  <1>9. Resuming'
    BY <1>1, <1>3 DEF Inv, Resuming
  <1>10. Settled'
    BY <1>1, <1>3 DEF Inv, Settled, Current
  <1>11. QED BY <1>5, <1>6, <1>7, <1>8, <1>9, <1>10 DEF Inv

LEMMA TurnKeeps ==
    ASSUME Inv, NEW p \in 1..MaxPage, Turn(p)
    PROVE  Inv'
  <1>1. /\ store.rendition # NoRendition /\ opening[session].pc = "open"
        /\ turns < MaxTurns /\ turns' = turns + 1 /\ Reported(<<store.book, p>>)
        /\ UNCHANGED <<progress, session, writes, opening, applies, live, errors, failed>>
    BY DEF Turn, Interactive
  <1>2. session \in Session /\ turns \in 0..MaxTurns
    BY <1>1, Types DEF Inv, Shown
  <1>3. store.book \in Book
    BY <1>1, <1>2 DEF Inv, Linked
  <1>4. turns' \in 0..MaxTurns /\ p \in 0..MaxPage
    BY <1>1, <1>2, Bounds
  <1>5. <<store.book, p>> \in Cfi /\ <<store.book, p>>[1] = store.book
    BY <1>3, <1>4, CfiParts
  <1>6. QED BY <1>1, <1>2, <1>3, <1>4, <1>5, ReportedKeeps

LEMMA RelocatedTargetKeeps ==
    ASSUME Inv, RelocatedTarget
    PROVE  Inv'
  <1>1. PICK c \in Unreported : c # store.cfi /\ Reported(c)
    BY DEF RelocatedTarget
  <1>2. /\ UNCHANGED <<progress, session, writes, opening, applies, live, errors, failed>>
        /\ turns' = turns /\ turns \in 0..MaxTurns
    BY Types DEF RelocatedTarget, Inv
  <1>3. /\ opening \in [Session -> Openings] /\ applies \in [Apply -> Settlings]
        /\ store \in Stores
    BY Types DEF Inv
  <1>4. CASE \E s \in Session \cap {session} :
                 /\ c = opening[s].target
                 /\ \/ opening[s].pc = "displaying"
                    \/ opening[s].pc = "open" /\ store.cfi = None
    <2>1. /\ session \in Session /\ c = opening[session].target
          /\ opening[session].pc \in {"displaying", "open"}
      BY <1>4
    <2>2. opening[session].book \in Book /\ opening[session].book = store.book
      BY <2>1, OpeningStates DEF Inv, Linked
    <2>3. c # None /\ c[1] = store.book /\ c \in Cfi
      BY <1>3, <2>1, <2>2 DEF Inv, Placed, Openings
    <2>4. QED BY <1>1, <1>2, <2>1, <2>2, <2>3, ReportedKeeps
  <1>5. CASE \E g \in Apply : /\ c = applies[g].target /\ applies[g].pc = "displaying"
                              /\ store.rendition = <<session, g>>
    <2>1. PICK g \in Apply : /\ c = applies[g].target /\ applies[g].pc = "displaying"
                             /\ store.rendition = <<session, g>>
      BY <1>5
    <2>2. store.rendition # NoRendition /\ store.rendition[2] = g /\ g # 0
      BY <2>1, Bounds DEF NoRendition, Apply
    <2>3. Current(g) /\ session \in Session
      BY <2>2 DEF Inv, Shown
    <2>4. opening[session].pc = "open" /\ applies[g].book = store.book /\ store.book # NoBook
      BY <2>1, <2>3, OpeningStates DEF Inv, Linked
    <2>5. c # None /\ c[1] = store.book /\ c \in Cfi /\ store.book \in Book
      BY <1>3, <2>1, <2>4 DEF Inv, Placed, Settlings, Stores
    <2>6. QED BY <1>1, <1>2, <2>3, <2>4, <2>5, ReportedKeeps
  <1>6. QED BY <1>1, <1>4, <1>5 DEF Unreported

LEMMA ServeWriteKeeps ==
    ASSUME Inv, NEW b \in Book, ServeWrite(b)
    PROVE  Inv'
  <1>1. /\ session' = session /\ store' = store /\ timer' = timer /\ opening' = opening
        /\ applies' = applies /\ live' = live /\ turns' = turns /\ reached' = reached
        /\ failed' = failed
    BY DEF ServeWrite
  <1>2. PICK i \in DOMAIN writes[b] :
            /\ writes[b][i].status = "sent"
            /\ \/ /\ writes' = [writes EXCEPT ![b][i].status = "done"]
                  /\ progress' = [progress EXCEPT ![b] = writes[b][i].cfi]
                  /\ errors' = errors
               \/ /\ errors < MaxErrors /\ errors' = errors + 1
                  /\ writes' = [writes EXCEPT ![b][i].status = "failed"]
                  /\ progress' \in {progress, [progress EXCEPT ![b] = writes[b][i].cfi]}
    BY DEF ServeWrite
  <1>3. /\ progress \in [Book -> Cfi \cup {None}] /\ writes \in Chains
        /\ errors \in 0..MaxErrors /\ writes[b] \in Seq(Write)
    BY Types DEF Inv, Chains
  <1>4. /\ Len(writes[b]) \in Nat /\ DOMAIN writes[b] = 1..Len(writes[b])
    BY ChainLengths DEF Inv
  <1>5. i = 1 /\ writes[b] # <<>>
    BY <1>2, <1>3, <1>4, EmptySeq DEF Inv, Chained
  <1> DEFINE q == writes[b]
             c == writes[b][1].cfi
  <1>6. writes[b][1] \in Write /\ c \in Cfi /\ c[1] = b
    <2>1. writes[b][1] \in Write
      BY <1>3, <1>4, <1>2, <1>5, ElementOfSeq
    <2>2. c[1] = b
      BY <1>2, <1>5 DEF Inv, Placed, LocationsStayApart
    <2>3. QED BY <2>1, <2>2 DEF Write
  <1>7. PICK st \in {"done", "failed"} :
            /\ writes' = [writes EXCEPT ![b][1].status = st]
            /\ \/ progress' = [progress EXCEPT ![b] = c]
               \/ st = "failed" /\ progress' = progress
            /\ errors' \in 0..MaxErrors /\ errors' >= errors
            /\ st = "failed" => errors' > 0
    <2>1. CASE /\ writes' = [writes EXCEPT ![b][i].status = "done"]
               /\ progress' = [progress EXCEPT ![b] = writes[b][i].cfi]
               /\ errors' = errors
      BY <1>3, <1>5, <2>1, Bounds
    <2>2. CASE /\ errors < MaxErrors /\ errors' = errors + 1
               /\ writes' = [writes EXCEPT ![b][i].status = "failed"]
               /\ progress' \in {progress, [progress EXCEPT ![b] = writes[b][i].cfi]}
      BY <1>3, <1>5, <2>2, Bounds
    <2>3. QED BY <1>2, <2>1, <2>2
  <1> DEFINE w == [q[1] EXCEPT !.status = st]
             v == [q EXCEPT ![1] = w]
  <1>8. w \in Write /\ w.status = st /\ w.cfi = c
    BY <1>6 DEF Write
  <1>9. writes' = [writes EXCEPT ![b] = v]
    BY <1>7
  <1> HIDE DEF w
  <1>10. /\ v \in Seq(Write) /\ Len(v) = Len(q) /\ DOMAIN v = 1..Len(q) /\ v # <<>>
         /\ v[1] = w /\ \A j \in DOMAIN q : j # 1 => v[j] = q[j]
    <2>1. 1 \in DOMAIN q /\ q \in Seq(Write)
      BY <1>2, <1>3, <1>5
    <2>2. v \in Seq(Write) /\ Len(v) = Len(q)
      BY <1>8, <2>1, ExceptSeq
    <2>3. DOMAIN v = 1..Len(v)
      BY <2>2, LenProperties
    <2>4. v[1] = w /\ \A j \in DOMAIN q : j # 1 => v[j] = q[j]
      BY <2>1
    <2>5. v # <<>>
      BY <1>4, <2>1, <2>2, EmptySeq
    <2>6. QED BY <2>2, <2>3, <2>4, <2>5
  <1> HIDE DEF v
  <1>11. /\ writes' \in Chains /\ writes'[b] = v
         /\ \A a \in Book : a # b => writes'[a] = writes[a]
         /\ \A a \in Book : Len(writes'[a]) = Len(writes[a])
    BY <1>3, <1>9, <1>10 DEF Chains
  <1>12. /\ DOMAIN v = DOMAIN q
         /\ \A j \in DOMAIN q : v[j].cfi = q[j].cfi
    BY <1>4, <1>8, <1>10
  <1>13. /\ progress' \in [Book -> Cfi \cup {None}]
         /\ progress'[b] = c \/ (st = "failed" /\ progress'[b] = progress[b])
         /\ \A a \in Book : a # b => progress'[a] = progress[a]
    <2>1. CASE progress' = [progress EXCEPT ![b] = c]
      BY <1>3, <1>6, <2>1
    <2>2. CASE st = "failed" /\ progress' = progress
      BY <1>3, <2>2
    <2>3. QED BY <1>7, <2>1, <2>2
  <1>14. TypeOK'
    <2>1. /\ \A s \in Session : Awaits(opening[s], writes)
          /\ \A g \in Apply : Awaits(applies[g], writes)
      BY Types DEF Inv
    <2>2. \A p : Awaits(p, writes) => Awaits(p, writes')
      BY <1>11 DEF Awaits
    <2>3. QED BY <1>1, <1>7, <1>11, <1>13, <2>1, <2>2, Types, TypesKept DEF Inv
  <1>15. Linked' /\ Shown'
    BY <1>1 DEF Inv, Linked, Shown, ObjectsRetired, Current
  <1>16. LocationsStayApart'
    <2>1. \A a \in Book : progress'[a] # None => progress'[a][1] = a
      BY <1>6, <1>13 DEF Inv, Placed, LocationsStayApart
    <2>2. \A a \in Book : \A j \in DOMAIN writes'[a] : writes'[a][j].cfi[1] = a
      BY <1>11, <1>12 DEF Inv, Placed, LocationsStayApart
    <2>3. QED BY <2>1, <2>2 DEF LocationsStayApart
  <1>17. Placed'
    BY <1>1, <1>16 DEF Inv, Placed
  <1>18. Chained'
    <2>1. \A a \in Book : \A j \in DOMAIN writes'[a] :
              writes'[a][j].status = "queued" <=> j # 1
      <3>1. \A j \in DOMAIN v : v[j].status = "queued" <=> j # 1
        BY <1>8, <1>10, <1>12 DEF Inv, Chained
      <3>2. QED BY <1>11, <3>1 DEF Inv, Chained
    <2>2. \A a \in Book : writes'[a] # <<>> /\ writes'[a][1].status = "done"
              => progress'[a] = writes'[a][1].cfi
      <3>1. v[1].status = "done" => progress'[b] = v[1].cfi
        BY <1>7, <1>8, <1>10, <1>13
      <3>2. QED BY <1>11, <1>13, <3>1 DEF Inv, Chained
    <2>3. ASSUME NEW a \in Book, timer = None \/ store.book # a
          PROVE  /\ writes'[a] # <<>> => writes'[a][Len(writes'[a])].cfi = reached[a]
                 /\ writes'[a] = <<>> /\ a \notin failed => progress'[a] = reached[a]
      <3>1. CASE a = b
        <4>1. q[Len(q)].cfi = reached[b] /\ Len(q) \in DOMAIN q
          BY <1>4, <1>5, <1>2, <2>3, <3>1 DEF Inv, Chained
        <4>2. QED BY <1>10, <1>11, <1>12, <3>1, <4>1
      <3>2. CASE a # b
        BY <1>11, <1>13, <2>3, <3>2 DEF Inv, Chained
      <3>3. QED BY <3>1, <3>2
    <2>4. QED BY <1>1, <2>1, <2>2, <2>3 DEF Inv, Chained
  <1>19. Resuming'
    <2> SUFFICES ASSUME session \in Session
                 PROVE  LET o == opening[session]
                        IN  /\ o.pc \in {"loading", "chain", "reading", "read"} => store.cfi = None
                            /\ o.pc = "chain" => o.ahead = Len(writes'[o.book])
                            /\ o.pc \in {"reading", "read"} => writes'[o.book] = <<>>
                            /\ o.pc \in {"loading", "chain", "reading"} /\ ~o.asked
                                   => o.target = None
                            /\ o.asked => o.target # None /\ o.target[2] # 0
                            /\ o.pc = "read" /\ ~o.asked => o.target = progress'[o.book]
                            /\ o.pc = "displaying" =>
                                   /\ store.cfi \in {None, o.target}
                                   /\ \A j \in DOMAIN writes'[o.book] :
                                          writes'[o.book][j].cfi = o.target
                                   /\ o.target = StartOf(o.book)
                                          => progress'[o.book] \in {None, StartOf(o.book)}
      BY <1>1 DEF Resuming
    <2> DEFINE o == opening[session]
    <2>1. /\ o.pc \in {"loading", "chain", "reading", "read"} => store.cfi = None
          /\ o.pc = "chain" => o.ahead = Len(writes[o.book])
          /\ o.pc \in {"reading", "read"} => writes[o.book] = <<>>
          /\ o.pc \in {"loading", "chain", "reading"} /\ ~o.asked => o.target = None
          /\ o.asked => o.target # None /\ o.target[2] # 0
          /\ o.pc = "read" /\ ~o.asked => o.target = progress[o.book]
          /\ o.pc = "displaying" =>
                 /\ store.cfi \in {None, o.target}
                 /\ \A j \in DOMAIN writes[o.book] : writes[o.book][j].cfi = o.target
                 /\ o.target = StartOf(o.book)
                        => progress[o.book] \in {None, StartOf(o.book)}
      BY DEF Inv, Resuming
    <2>2. o.pc \in Awaiting => o.book \in Book
      BY DEF Inv, Linked
    <2> HIDE DEF o
    <2>3. o.pc \in {"reading", "read"} => o.book # b
      BY <1>5, <2>1
    <2>4. o.pc = "displaying" /\ o.book = b => o.target = c
      BY <1>2, <1>5, <2>1
    <2>5. o.pc = "displaying" =>
              /\ \A j \in DOMAIN writes'[o.book] : writes'[o.book][j].cfi = o.target
              /\ o.target = StartOf(o.book) => progress'[o.book] \in {None, StartOf(o.book)}
      <3>1. SUFFICES ASSUME o.pc = "displaying"
                     PROVE  /\ \A j \in DOMAIN writes'[o.book] : writes'[o.book][j].cfi = o.target
                            /\ o.target = StartOf(o.book)
                                   => progress'[o.book] \in {None, StartOf(o.book)}
        OBVIOUS
      <3>2. o.book \in Book
        BY <2>2, <3>1, OpeningStates
      <3>3. CASE o.book = b
        <4>1. \A j \in DOMAIN v : v[j].cfi = o.target
          BY <1>12, <2>1, <3>1, <3>3
        <4>2. o.target = c
          BY <2>4, <3>1, <3>3
        <4>3. QED BY <1>11, <1>13, <2>1, <3>1, <3>3, <4>1, <4>2
      <3>4. CASE o.book # b
        <4>1. writes'[o.book] = writes[o.book] /\ progress'[o.book] = progress[o.book]
          BY <1>11, <1>13, <3>2, <3>4
        <4>2. QED BY <2>1, <3>1, <4>1
      <3>5. QED BY <3>3, <3>4
    <2>6. /\ o.pc = "chain" => o.ahead = Len(writes'[o.book])
          /\ o.pc \in {"reading", "read"} => writes'[o.book] = <<>>
          /\ o.pc = "read" /\ ~o.asked => o.target = progress'[o.book]
      BY <1>11, <1>13, <2>1, <2>2, <2>3, OpeningStates
    <2>7. QED BY <2>1, <2>5, <2>6 DEF o
  <1>20. Settled'
    <2>1. (errors' = 0 => errors = 0) /\ (errors > 0 => errors' > 0)
      BY <1>3, <1>7, Bounds
    <2>2. \A a \in Book : \A j \in DOMAIN writes'[a] :
              writes'[a][j].status = "failed" => errors' > 0
      <3>1. \A j \in DOMAIN v : v[j].status = "failed" => errors' > 0
        BY <1>7, <1>8, <1>10, <1>12, <2>1 DEF Inv, Settled
      <3>2. QED BY <1>11, <2>1, <3>1 DEF Inv, Settled
    <2>3. QED BY <1>1, <2>1, <2>2 DEF Inv, Settled, Current
  <1>21. QED BY <1>14, <1>15, <1>17, <1>18, <1>19, <1>20 DEF Inv

\* What an answer does to whoever awaits, or does not.
LEMMA NearerParts ==
    ASSUME NEW p, p \in Openings \/ p \in Settlings, NEW rejected \in BOOLEAN
    PROVE  LET r == Nearer(p, rejected)
           IN  /\ r.book = p.book /\ r.target = p.target
               /\ p \in Openings => r \in Openings /\ r.asked = p.asked
               /\ p \in Settlings =>
                      /\ r \in Settlings /\ r.session = p.session /\ r.flow = p.flow
                      /\ r.rebuild = p.rebuild
               /\ r.ahead \in Nat /\ p.ahead \in Nat
               /\ p.ahead = 0 => r.ahead = 0 /\ r.pc = p.pc
               /\ p.ahead > 0 => /\ r.ahead = p.ahead - 1
                                 /\ \/ r.pc = p.pc
                                    \/ p.ahead = 1 /\ rejected /\ r.pc = "rejected"
  <1> DEFINE k == IF p.ahead = 0 THEN 0 ELSE p.ahead - 1
             moved == [p EXCEPT !.ahead = k]
             thrown == [p EXCEPT !.ahead = 0, !.pc = "rejected"]
  <1>1. p.ahead \in Nat /\ k \in Nat
    BY DEF Openings, Settlings
  <1>2. Nearer(p, rejected) = IF p.ahead = 1 /\ rejected THEN thrown ELSE moved
    BY DEF Nearer
  <1>3. /\ p.ahead = 0 => k = 0
        /\ p.ahead > 0 => k = p.ahead - 1
    BY <1>1
  <1> HIDE DEF k
  <1>4. CASE p \in Openings
    <2>1. /\ moved \in Openings /\ moved.ahead = k /\ moved.pc = p.pc /\ moved.book = p.book
          /\ moved.target = p.target /\ moved.asked = p.asked
      BY <1>1, <1>4 DEF Openings
    <2>2. /\ thrown \in Openings /\ thrown.ahead = 0 /\ thrown.pc = "rejected"
          /\ thrown.book = p.book /\ thrown.target = p.target /\ thrown.asked = p.asked
      BY <1>4, OpeningStates DEF Openings
    <2>3. ~(p \in Settlings)
      <3>1. "asked" \in DOMAIN p /\ (p \in Settlings => "asked" \notin DOMAIN p)
        BY <1>4 DEF Openings, Settlings
      <3>2. QED BY <3>1
    <2> HIDE DEF moved, thrown
    <2>4. CASE p.ahead = 1 /\ rejected
      <3>1. Nearer(p, rejected) = thrown
        BY <1>2, <2>4
      <3>2. p.ahead = 1 /\ rejected = TRUE /\ 0 = p.ahead - 1
        BY <2>4
      <3>3. QED BY <1>4, <2>2, <2>3, <3>1, <3>2
    <2>5. CASE ~(p.ahead = 1 /\ rejected)
      <3>1. Nearer(p, rejected) = moved
        BY <1>2, <2>5
      <3>2. QED BY <1>1, <1>3, <1>4, <2>1, <2>3, <3>1
    <2>6. QED BY <2>4, <2>5
  <1>5. CASE p \in Settlings
    <2>1. /\ moved \in Settlings /\ moved.ahead = k /\ moved.pc = p.pc /\ moved.book = p.book
          /\ moved.target = p.target /\ moved.session = p.session /\ moved.flow = p.flow
          /\ moved.rebuild = p.rebuild
      BY <1>1, <1>5 DEF Settlings
    <2>2. /\ thrown \in Settlings /\ thrown.ahead = 0 /\ thrown.pc = "rejected"
          /\ thrown.book = p.book /\ thrown.target = p.target /\ thrown.session = p.session
          /\ thrown.flow = p.flow /\ thrown.rebuild = p.rebuild
      BY <1>5 DEF Settlings, ApplyPc
    <2>3. ~(p \in Openings)
      <3>1. (p \in Openings => "asked" \in DOMAIN p) /\ "asked" \notin DOMAIN p
        BY <1>5 DEF Openings, Settlings
      <3>2. QED BY <3>1
    <2> HIDE DEF moved, thrown
    <2>4. CASE p.ahead = 1 /\ rejected
      <3>1. Nearer(p, rejected) = thrown
        BY <1>2, <2>4
      <3>2. p.ahead = 1 /\ rejected = TRUE /\ 0 = p.ahead - 1
        BY <2>4
      <3>3. QED BY <1>5, <2>2, <2>3, <3>1, <3>2
    <2>5. CASE ~(p.ahead = 1 /\ rejected)
      <3>1. Nearer(p, rejected) = moved
        BY <1>2, <2>5
      <3>2. QED BY <1>1, <1>3, <1>5, <2>1, <2>3, <3>1
    <2>6. QED BY <2>4, <2>5
  <1>6. QED BY <1>4, <1>5

LEMMA AnswerWriteKeeps ==
    ASSUME Inv, NEW b \in Book, AnswerWrite(b)
    PROVE  Inv'
  <1> DEFINE q == writes[b]
             rejected == Head(q).status = "failed"
             v == Released(Tail(q), rejected)
  <1>1. /\ progress' = progress /\ session' = session /\ store' = store /\ timer' = timer
        /\ live' = live /\ turns' = turns /\ errors' = errors /\ reached' = reached
        /\ q # <<>> /\ Head(q).status \in {"done", "failed"}
        /\ writes' = [writes EXCEPT ![b] = v]
        /\ opening' = [s \in Session |-> IF opening[s].book = b THEN Nearer(opening[s], rejected)
                                         ELSE opening[s]]
        /\ applies' = [g \in Apply |-> IF applies[g].book = b THEN Nearer(applies[g], rejected)
                                       ELSE applies[g]]
        /\ failed' = IF rejected THEN failed \cup {b} ELSE failed \ {b}
    BY DEF AnswerWrite
  <1>2. /\ writes \in Chains /\ q \in Seq(Write) /\ errors \in Nat /\ failed \subseteq Book
        /\ opening \in [Session -> Openings] /\ applies \in [Apply -> Settlings]
        /\ session \in 0..MaxSessions
    BY Types, Bounds DEF Inv, Chains
  <1>3. rejected \in BOOLEAN /\ Head(q) = q[1] /\ Len(q) \in Nat \ {0} /\ DOMAIN q = 1..Len(q)
    BY <1>1, <1>2, EmptySeq, LenProperties
  <1>4. rejected => q[1].status = "failed" /\ errors > 0
    <2>1. 1 \in DOMAIN q
      BY <1>3
    <2>2. QED BY <1>3, <2>1 DEF Inv, Settled
  <1>5. ~rejected => q[1].status = "done"
    BY <1>1, <1>3
  <1> HIDE DEF rejected
  <1>6. /\ v \in Seq(Write) /\ Len(v) = Len(q) - 1 /\ DOMAIN v = 1..Len(v)
        /\ v = <<>> <=> Len(q) = 1
        /\ \A i \in DOMAIN v : i + 1 \in DOMAIN q /\ v[i].cfi = q[i + 1].cfi
        /\ \A i \in DOMAIN v : v[i].status = IF i = 1 /\ q[i + 1].status = "queued"
                                             THEN "sent" ELSE q[i + 1].status
    BY <1>1, <1>2, <1>3, ReleasedChain
  <1> HIDE DEF v, q
  <1>7. /\ writes' \in Chains /\ writes'[b] = v
        /\ \A a \in Book : a # b => writes'[a] = writes[a]
    BY <1>1, <1>2, <1>6 DEF Chains
  <1>8. \A i \in DOMAIN v : v[i].status = IF i = 1 THEN "sent" ELSE "queued"
    <2>1. ASSUME NEW i \in DOMAIN v PROVE q[i + 1].status = "queued"
      <3>1. i + 1 \in DOMAIN q /\ i + 1 # 1
        BY <1>6, <2>1
      <3>2. QED BY <3>1 DEF Inv, Chained, q
    <2>2. QED BY <1>6, <2>1
  <1>9. ASSUME NEW s \in Session
        PROVE  /\ opening'[s] \in Openings /\ opening'[s].book = opening[s].book
               /\ opening'[s].target = opening[s].target
               /\ opening'[s].asked = opening[s].asked
               /\ opening[s].book # b => opening'[s] = opening[s]
               /\ \/ opening'[s].pc = opening[s].pc
                  \/ /\ opening[s].pc = "chain" /\ opening'[s].pc = "rejected"
                     /\ opening'[s].ahead = 0 /\ errors > 0
               /\ opening[s].ahead = 0 => opening'[s].ahead = 0
               /\ opening[s].ahead > 0 /\ opening[s].book = b
                      => opening'[s].ahead = opening[s].ahead - 1
               /\ opening[s].ahead \in Nat /\ opening'[s].ahead \in Nat
    <2>1. opening[s].ahead > 0 => opening[s].pc = "chain"
      BY DEF Inv, Linked
    <2>2. opening[s] \in Openings /\ opening[s].ahead \in Nat
      BY <1>2 DEF Openings
    <2>3. CASE opening[s].book = b
      <3> DEFINE r == Nearer(opening[s], rejected)
      <3>1. opening'[s] = r
        BY <1>1, <2>3
      <3>2. /\ r.book = opening[s].book /\ r.target = opening[s].target /\ r \in Openings
            /\ r.asked = opening[s].asked /\ r.ahead \in Nat
            /\ opening[s].ahead = 0 => r.ahead = 0 /\ r.pc = opening[s].pc
            /\ opening[s].ahead > 0 =>
                   /\ r.ahead = opening[s].ahead - 1
                   /\ \/ r.pc = opening[s].pc
                      \/ opening[s].ahead = 1 /\ rejected /\ r.pc = "rejected"
        BY <1>3, <2>2, NearerParts
      <3> HIDE DEF r
      <3>3. opening[s].ahead = 0 \/ opening[s].ahead > 0
        BY <2>2
      <3>4. CASE opening[s].ahead = 0
        BY <2>2, <2>3, <3>1, <3>2, <3>4
      <3>5. CASE opening[s].ahead > 0
        BY <1>4, <2>1, <2>2, <2>3, <3>1, <3>2, <3>5
      <3>6. QED BY <3>3, <3>4, <3>5
    <2>4. CASE opening[s].book # b
      BY <1>1, <2>2, <2>4
    <2>5. QED BY <2>3, <2>4
  <1>10. ASSUME NEW g \in Apply
         PROVE  /\ applies'[g] \in Settlings /\ applies'[g].book = applies[g].book
                /\ applies'[g].target = applies[g].target
                /\ applies'[g].session = applies[g].session
                /\ applies'[g].flow = applies[g].flow /\ applies'[g].rebuild = applies[g].rebuild
                /\ applies[g].book # b => applies'[g] = applies[g]
                /\ \/ applies'[g].pc = applies[g].pc
                   \/ /\ applies[g].pc = "saving" /\ applies'[g].pc = "rejected"
                      /\ applies'[g].ahead = 0 /\ errors > 0
                /\ applies[g].ahead = 0 => applies'[g].ahead = 0
                /\ applies[g].ahead > 0 /\ applies[g].book = b
                       => applies'[g].ahead = applies[g].ahead - 1
                /\ applies[g].ahead \in Nat /\ applies'[g].ahead \in Nat
    <2>1. applies[g].ahead > 0 => applies[g].pc = "saving"
      BY DEF Inv, Linked
    <2>2. applies[g] \in Settlings /\ applies[g].ahead \in Nat
      BY <1>2 DEF Settlings
    <2>3. CASE applies[g].book = b
      <3> DEFINE r == Nearer(applies[g], rejected)
      <3>1. applies'[g] = r
        BY <1>1, <2>3
      <3>2. /\ r.book = applies[g].book /\ r.target = applies[g].target /\ r \in Settlings
            /\ r.session = applies[g].session /\ r.flow = applies[g].flow
            /\ r.rebuild = applies[g].rebuild /\ r.ahead \in Nat
            /\ applies[g].ahead = 0 => r.ahead = 0 /\ r.pc = applies[g].pc
            /\ applies[g].ahead > 0 =>
                   /\ r.ahead = applies[g].ahead - 1
                   /\ \/ r.pc = applies[g].pc
                      \/ applies[g].ahead = 1 /\ rejected /\ r.pc = "rejected"
        BY <1>3, <2>2, NearerParts
      <3> HIDE DEF r
      <3>3. applies[g].ahead = 0 \/ applies[g].ahead > 0
        BY <2>2
      <3>4. CASE applies[g].ahead = 0
        BY <2>2, <2>3, <3>1, <3>2, <3>4
      <3>5. CASE applies[g].ahead > 0
        BY <1>4, <2>1, <2>2, <2>3, <3>1, <3>2, <3>5
      <3>6. QED BY <3>3, <3>4, <3>5
    <2>4. CASE applies[g].book # b
      BY <1>1, <2>2, <2>4
    <2>5. QED BY <2>3, <2>4
  <1>11. TypeOK'
    <2>0. ASSUME NEW p, NEW r, Awaits(p, writes), p.ahead \in Nat, r.ahead \in Nat,
                 r.book = p.book, p.ahead = 0 => r.ahead = 0, p.book # b => r = p,
                 p.ahead > 0 /\ p.book = b => r.ahead = p.ahead - 1
          PROVE  Awaits(r, writes')
      <3>1. SUFFICES ASSUME r.ahead > 0 PROVE r.book \in Book /\ r.ahead <= Len(writes'[r.book])
        BY DEF Awaits
      <3>2. p.ahead > 0
        BY <2>0, <3>1
      <3>3. p.book \in Book /\ p.ahead <= Len(writes[p.book])
        BY <2>0, <3>2 DEF Awaits
      <3>4. CASE p.book = b
        <4>1. p.ahead <= Len(q) /\ r.ahead = p.ahead - 1
          BY <2>0, <3>2, <3>3, <3>4 DEF q
        <4>2. r.ahead <= Len(v)
          BY <1>3, <1>6, <2>0, <4>1
        <4>3. QED BY <1>7, <2>0, <3>3, <3>4, <4>2
      <3>5. CASE p.book # b
        BY <1>7, <2>0, <3>3, <3>5
      <3>6. QED BY <3>4, <3>5
    <2>1. ASSUME NEW s \in Session PROVE Awaits(opening'[s], writes')
      <3>1. Awaits(opening[s], writes)
        BY Types DEF Inv
      <3>2. QED BY <1>9, <2>0, <3>1
    <2>2. ASSUME NEW g \in Apply PROVE Awaits(applies'[g], writes')
      <3>1. Awaits(applies[g], writes)
        BY Types DEF Inv
      <3>2. QED BY <1>10, <2>0, <3>1
    <2>3. opening' \in [Session -> Openings] /\ applies' \in [Apply -> Settlings]
      BY <1>1, <1>9, <1>10
    <2>4. failed' \subseteq Book
      BY <1>1, <1>2
    <2>5. QED BY <1>1, <1>7, <2>1, <2>2, <2>3, <2>4, Types, TypesKept DEF Inv
  <1>12. Linked'
    <2>1. store.book # NoBook =>
              session \in Session /\ opening'[session].pc \in Awaiting \cup {"open", "failed"}
      BY <1>9, OpeningStates DEF Inv, Linked
    <2>2. ASSUME NEW s \in Session
          PROVE  /\ s > session => opening'[s] = Idle
                 /\ opening'[s].pc \in Awaiting \cup {"open"} => opening'[s].book \in Book
                 /\ s = session /\ opening'[s].pc \in Awaiting \cup {"open"}
                        => opening'[s].book = store.book
                 /\ opening'[s].pc = "retired" => s < session
                 /\ opening'[s].ahead > 0 => opening'[s].pc = "chain"
      <3>1. s > session => opening'[s] = Idle
        <4>1. s > session => opening[s] = Idle /\ opening[s].book # b
          BY Resting DEF Inv, Linked
        <4>2. QED BY <1>9, <4>1
      <3>2. opening'[s].pc \in Awaiting \cup {"open"}
                => opening[s].pc \in Awaiting \cup {"open"} /\ opening'[s].book = opening[s].book
        BY <1>9, OpeningStates
      <3>3. opening'[s].pc = "retired" => opening[s].pc = "retired"
        BY <1>9
      <3>4. opening'[s].ahead > 0 => opening'[s].pc = "chain"
        BY <1>9 DEF Inv, Linked
      <3>5. QED BY <3>1, <3>2, <3>3, <3>4 DEF Inv, Linked
    <2>3. ASSUME NEW g \in Apply
          PROVE  /\ applies'[g].session <= session
                 /\ applies'[g].pc # "idle" => applies'[g].session \in Session
                 /\ applies'[g].session = session /\ applies'[g].pc \notin {"idle", "done"}
                        => applies'[g].book = store.book /\ store.book # NoBook
                 /\ applies'[g].session = session /\ applies'[g].pc \in Active
                        => opening'[session].pc = "open"
                 /\ applies'[g].ahead > 0 => applies'[g].pc = "saving"
      <3>1. /\ applies'[g].pc \notin {"idle", "done"} <=> applies[g].pc \notin {"idle", "done"}
            /\ applies'[g].pc # "idle" <=> applies[g].pc # "idle"
            /\ applies'[g].pc \in Active <=> applies[g].pc \in Active
        BY <1>10, OpeningStates
      <3>2. applies[g].session = session /\ applies[g].pc \in Active
                => opening'[session].pc = "open"
        <4>1. SUFFICES ASSUME Current(g), applies[g].pc \in Active
                       PROVE  opening'[session].pc = "open"
          BY DEF Current
        <4>2. session \in Session /\ opening[session].pc = "open"
          BY <4>1, OpeningStates DEF Inv, Linked, Current
        <4>3. QED BY <1>9, <4>2
      <3>3. applies'[g].ahead > 0 => applies'[g].pc = "saving"
        BY <1>10 DEF Inv, Linked
      <3>4. QED BY <1>10, <3>1, <3>2, <3>3 DEF Inv, Linked, Current
    <2>4. QED BY <1>1, <2>1, <2>2, <2>3 DEF Linked, Current
  <1>13. Shown'
    <2>1. session \in Session =>
              /\ opening'[session].pc \in Awaiting <=> opening[session].pc \in Awaiting
              /\ opening'[session].pc = "open" <=> opening[session].pc = "open"
              /\ opening'[session].pc = "loading" <=> opening[session].pc = "loading"
      BY <1>9, OpeningStates
    <2>2. store.rendition # NoRendition /\ store.rendition[2] # 0
              => store.rendition[2] \in Apply
      <3>1. \A r \in Rendition : r[2] # 0 => r[2] \in Apply
        BY RenditionParts, Bounds DEF Apply
      <3>2. QED BY <3>1, Types DEF Inv, Stores
    <2>3. QED BY <1>1, <1>10, <2>1, <2>2 DEF Inv, Shown, ObjectsRetired, Current
  <1>14. Placed'
    <2>1. \A a \in Book : \A i \in DOMAIN writes'[a] : writes'[a][i].cfi[1] = a
      <3>1. \A i \in DOMAIN v : v[i].cfi[1] = b
        BY <1>6 DEF Inv, Placed, LocationsStayApart, q
      <3>2. QED BY <1>7, <3>1 DEF Inv, Placed, LocationsStayApart
    <2>2. ASSUME NEW s \in Session
          PROVE  /\ opening'[s].target # None => opening'[s].target[1] = opening'[s].book
                 /\ opening'[s].pc \in {"displaying", "open"} => opening'[s].target # None
      BY <1>9 DEF Inv, Placed
    <2>3. ASSUME NEW g \in Apply
          PROVE  /\ applies'[g].target # None => applies'[g].target[1] = applies'[g].book
                 /\ applies'[g].pc = "displaying" => applies'[g].target # None
      BY <1>10 DEF Inv, Placed
    <2>4. QED BY <1>1, <2>1, <2>2, <2>3 DEF Inv, Placed, LocationsStayApart
  <1>15. Chained'
    <2>1. /\ \A a \in Book : \A i \in DOMAIN writes'[a] :
                writes'[a][i].status = "queued" <=> i # 1
          /\ \A a \in Book : writes'[a] # <<>> /\ writes'[a][1].status = "done"
                => progress[a] = writes'[a][1].cfi
      <3>1. v # <<>> => v[1].status = "sent"
        <4>1. v # <<>> => 1 \in DOMAIN v
          BY <1>3, <1>6
        <4>2. QED BY <1>8, <4>1
      <3>2. \A i \in DOMAIN v : v[i].status = "queued" <=> i # 1
        BY <1>8
      <3>3. QED BY <1>7, <3>1, <3>2 DEF Inv, Chained
    <2>2. ASSUME NEW a \in Book, timer = None \/ store.book # a
          PROVE  /\ writes'[a] # <<>> => writes'[a][Len(writes'[a])].cfi = reached[a]
                 /\ writes'[a] = <<>> /\ a \notin failed' => progress[a] = reached[a]
      <3>1. CASE a = b
        <4>1. q[Len(q)].cfi = reached[b]
          BY <1>1, <2>2, <3>1 DEF Inv, Chained, q
        <4>2. v # <<>> => v[Len(v)].cfi = reached[b]
          <5>1. v # <<>> => Len(v) \in DOMAIN v /\ Len(v) + 1 = Len(q)
            BY <1>3, <1>6
          <5>2. QED BY <1>6, <4>1, <5>1
        <4>3. v = <<>> /\ b \notin failed' => progress[b] = reached[b]
          <5>1. SUFFICES ASSUME v = <<>>, b \notin failed' PROVE progress[b] = reached[b]
            OBVIOUS
          <5>2. q[1].status = "done" /\ Len(q) = 1
            BY <1>1, <1>2, <1>5, <1>6, <5>1
          <5>3. progress[b] = q[1].cfi
            BY <1>1, <5>2 DEF Inv, Chained, q
          <5>4. QED BY <4>1, <5>2, <5>3
        <4>4. QED BY <1>7, <3>1, <4>2, <4>3
      <3>2. CASE a # b
        <4>1. a \in failed' <=> a \in failed
          BY <1>1, <3>2
        <4>2. QED BY <1>7, <2>2, <3>2, <4>1 DEF Inv, Chained
      <3>3. QED BY <3>1, <3>2
    <2>3. store.cfi # None => reached[store.book] = store.cfi
      BY DEF Inv, Chained
    <2>4. QED BY <1>1, <2>1, <2>2, <2>3 DEF Chained
  <1>16. Resuming'
    <2> SUFFICES ASSUME session \in Session
                 PROVE  LET o == opening'[session]
                        IN  /\ o.pc \in {"loading", "chain", "reading", "read"} => store.cfi = None
                            /\ o.pc = "chain" => o.ahead = Len(writes'[o.book])
                            /\ o.pc \in {"reading", "read"} => writes'[o.book] = <<>>
                            /\ o.pc \in {"loading", "chain", "reading"} /\ ~o.asked
                                   => o.target = None
                            /\ o.asked => o.target # None /\ o.target[2] # 0
                            /\ o.pc = "read" /\ ~o.asked => o.target = progress[o.book]
                            /\ o.pc = "displaying" =>
                                   /\ store.cfi \in {None, o.target}
                                   /\ \A j \in DOMAIN writes'[o.book] :
                                          writes'[o.book][j].cfi = o.target
                                   /\ o.target = StartOf(o.book)
                                          => progress[o.book] \in {None, StartOf(o.book)}
      BY ZenonT(60), <1>1 DEF Resuming
    <2> DEFINE o == opening[session]
               p == opening'[session]
    <2>1. /\ o.pc \in {"loading", "chain", "reading", "read"} => store.cfi = None
          /\ o.pc = "chain" => o.ahead = Len(writes[o.book])
          /\ o.pc \in {"reading", "read"} => writes[o.book] = <<>>
          /\ o.pc \in {"loading", "chain", "reading"} /\ ~o.asked => o.target = None
          /\ o.asked => o.target # None /\ o.target[2] # 0
          /\ o.pc = "read" /\ ~o.asked => o.target = progress[o.book]
          /\ o.pc = "displaying" =>
                 /\ store.cfi \in {None, o.target}
                 /\ \A j \in DOMAIN writes[o.book] : writes[o.book][j].cfi = o.target
                 /\ o.target = StartOf(o.book)
                        => progress[o.book] \in {None, StartOf(o.book)}
      BY DEF Inv, Resuming
    <2>2. o.pc \in Awaiting => o.book \in Book
      BY DEF Inv, Linked
    <2>3. /\ p.book = o.book /\ p.target = o.target /\ p.asked = o.asked
          /\ p.pc = o.pc \/ p.pc = "rejected"
          /\ o.book # b => p = o
          /\ o.ahead > 0 /\ o.book = b => p.ahead = o.ahead - 1
      BY <1>9
    <2> HIDE DEF o, p
    <2>4. p.pc = "chain" => p.ahead = Len(writes'[p.book])
      <3>1. SUFFICES ASSUME p.pc = "chain" PROVE p.ahead = Len(writes'[p.book])
        OBVIOUS
      <3>2. o.pc = "chain" /\ o.book \in Book /\ o.ahead = Len(writes[o.book])
        BY <2>1, <2>2, <2>3, <3>1, OpeningStates
      <3>3. CASE o.book = b
        <4>1. o.ahead = Len(q) /\ o.ahead > 0
          BY <1>3, <3>2, <3>3 DEF q
        <4>2. QED BY <1>6, <1>7, <2>3, <3>3, <4>1
      <3>4. CASE o.book # b
        BY <1>7, <2>3, <3>2, <3>4
      <3>5. QED BY <3>3, <3>4
    <2>5. p.pc \in {"reading", "read"} => writes'[p.book] = <<>>
      <3>1. SUFFICES ASSUME p.pc \in {"reading", "read"} PROVE writes'[p.book] = <<>>
        OBVIOUS
      <3>2. o.pc = p.pc /\ o.book \in Book /\ writes[o.book] = <<>>
        BY <2>1, <2>2, <2>3, <3>1, OpeningStates
      <3>3. o.book # b
        BY <1>1, <3>2 DEF q
      <3>4. QED BY <1>7, <2>3, <3>2, <3>3
    <2>6. p.pc = "displaying" =>
              \A j \in DOMAIN writes'[p.book] : writes'[p.book][j].cfi = p.target
      <3>1. SUFFICES ASSUME p.pc = "displaying"
                     PROVE  \A j \in DOMAIN writes'[p.book] : writes'[p.book][j].cfi = p.target
        OBVIOUS
      <3>2. o.pc = "displaying" /\ o.book \in Book
        BY <2>2, <2>3, <3>1, OpeningStates
      <3>3. CASE o.book = b
        <4>1. \A j \in DOMAIN q : q[j].cfi = o.target
          BY <2>1, <3>2, <3>3 DEF q
        <4>2. QED BY <1>6, <1>7, <2>3, <3>3, <4>1
      <3>4. CASE o.book # b
        BY <1>7, <2>1, <2>3, <3>2, <3>4
      <3>5. QED BY <3>3, <3>4
    <2>7. QED BY <2>1, <2>3, <2>4, <2>5, <2>6 DEF p
  <1>17. Settled'
    <2>1. \A a \in Book : \A i \in DOMAIN writes'[a] :
              writes'[a][i].status = "failed" => errors > 0
      BY <1>7, <1>8 DEF Inv, Settled
    <2>2. \A s \in Session : opening'[s].pc \in {"rejected", "failed"} => errors > 0
      BY <1>9 DEF Inv, Settled
    <2>3. \A g \in Apply : applies'[g].pc = "rejected" => errors > 0
      BY <1>10 DEF Inv, Settled
    <2>4. \A g \in Apply : /\ applies'[g].pc = "idle" <=> applies[g].pc = "idle"
                           /\ applies'[g].pc = "done" <=> applies[g].pc = "done"
                           /\ applies'[g].pc \in Active <=> applies[g].pc \in Active
                           /\ applies'[g].session = applies[g].session
                           /\ applies'[g].flow = applies[g].flow
                           /\ applies'[g].rebuild = applies[g].rebuild
      BY <1>10, OpeningStates
    <2>5. \A g, h \in Apply : h < g /\ applies'[g].pc # "idle" => applies'[h].pc # "idle"
      BY <2>4 DEF Inv, Settled
    <2>6. \A g, h \in Apply :
              h < g /\ applies'[g].session = applies'[h].session
                    /\ applies'[g].pc \in Active \cup {"done"}
                  => applies'[h].pc = "done"
      BY <2>4 DEF Inv, Settled
    <2>7. errors = 0 => \A g \in Apply : applies'[g].pc = applies[g].pc
      <3>1. errors = 0 => ~(errors > 0)
        OBVIOUS
      <3>2. QED BY <1>10, <3>1
    <2>8. errors = 0 =>
              /\ \A g \in Apply : applies'[g].session = session
                                  /\ applies'[g].pc \in {"saving", "displaying"}
                     => store.flow = applies'[g].flow
              /\ \/ store.built = store.flow
                 \/ \E g \in Apply : /\ applies'[g].session = session
                                     /\ applies'[g].pc = "saving" /\ applies'[g].rebuild
              /\ \A g \in Apply :
                     /\ applies'[g].session = session /\ applies'[g].pc = "done"
                     /\ \A h \in Apply : h > g => applies'[h].pc = "idle"
                     => store.flow = applies'[g].flow
      BY <2>4, <2>7 DEF Inv, Settled, Current
    <2>9. QED BY <1>1, <2>1, <2>2, <2>3, <2>5, <2>6, <2>8 DEF Settled, Current
  <1>18. QED BY <1>11, <1>12, <1>13, <1>14, <1>15, <1>16, <1>17 DEF Inv

-----------------------------------------------------------------------------
(* Every step, and the theorems. *)

LEMMA ProgressSteps == Inv /\ [Next]_vars => Inv'
  <1> SUFFICES ASSUME Inv, [Next]_vars PROVE Inv'
    OBVIOUS
  <1>1. CASE Reader
    <2>1. CASE \E b \in Book : \E href \in {None} \cup ({b} \X (1..MaxPage)) : Open(b, href)
      BY <2>1, OpenKeeps
    <2>2. CASE Close
      BY <2>2, CloseKeeps
    <2>3. CASE \E p \in 1..MaxPage : Turn(p)
      BY <2>3, TurnKeeps
    <2>4. CASE \E g \in Apply, f \in Flow : ApplyReadingSettings(g, f)
      BY <2>4, ApplyReadingSettingsKeeps
    <2>5. CASE Suspend
      BY <2>5, SuspendKeeps
    <2>6. QED BY <1>1, <2>1, <2>2, <2>3, <2>4, <2>5 DEF Reader
  <1>2. ASSUME NEW s \in Session, Continuation(s) PROVE Inv'
    BY <1>2, LoadedKeeps, RequestProgressKeeps, ServeReadKeeps, DisplayKeeps, DisplayedKeeps,
       OpenFailedKeeps, AbandonedKeeps DEF Continuation
  <1>3. ASSUME NEW g \in Apply, Settling(g) PROVE Inv'
    BY <1>3, StartApplyKeeps, RebuildKeeps, EndApplyKeeps DEF Settling
  <1>4. CASE RelocatedTarget
    BY <1>4, RelocatedTargetKeeps
  <1>5. CASE TimerFires
    BY <1>5, TimerFiresKeeps
  <1>6. ASSUME NEW b \in Book, ServeWrite(b) \/ AnswerWrite(b) PROVE Inv'
    BY <1>6, ServeWriteKeeps, AnswerWriteKeeps
  <1>7. CASE UNCHANGED vars
    <2>1. /\ progress' = progress /\ session' = session /\ store' = store /\ timer' = timer
          /\ writes' = writes /\ opening' = opening /\ applies' = applies /\ live' = live
          /\ turns' = turns /\ errors' = errors /\ reached' = reached /\ failed' = failed
      BY <1>7 DEF vars, extras
    <2>2. TypeOK'
      BY <2>1, Types, TypesKept DEF Inv
    <2>3. Linked' /\ Shown' /\ Placed'
      BY <2>1 DEF Inv, Linked, Shown, Placed, Current, ObjectsRetired, LocationsStayApart
    <2>4. Chained' /\ Resuming' /\ Settled'
      BY <2>1 DEF Inv, Chained, Resuming, Settled, Current
    <2>5. QED BY <2>2, <2>3, <2>4 DEF Inv
  <1>8. QED BY <1>1, <1>2, <1>3, <1>4, <1>5, <1>6, <1>7 DEF Next

LEMMA ProgressInvariant == Spec => []Inv
  <1>1. Spec => Init /\ [][Next]_vars
    BY DEF Spec
  <1>2. QED BY <1>1, ProgressStarts, ProgressSteps, PTL

(***************************************************************************)
(* The row of a book ends up with the last location reported for it, and   *)
(* with no location of another book: the chain of writes and the pending   *)
(* save lose and reorder nothing, however open(), close(), settings        *)
(* changes and the timer interleave.                                       *)
(***************************************************************************)
THEOREM LastLocationSaved == Spec => []LocationsOK
  <1>1. Inv => LocationsOK
    <2>1. SUFFICES ASSUME Inv, NEW b \in Book, Quiet(b), b \notin failed
                   PROVE  progress[b] = reached[b]
      BY DEF Inv, Placed, LocationsOK, LastLocationWins
    <2>2. timer = None \/ store.book # b
      BY <2>1 DEF Quiet, Inv, Placed
    <2>3. QED BY <2>1, <2>2 DEF Quiet, Inv, Chained
  <1>2. QED BY <1>1, ProgressInvariant, PTL

(***************************************************************************)
(* What open() resumes from is the location the book was left at: no write *)
(* of the book is under way when its row is read.                          *)
(***************************************************************************)
THEOREM ResumesFromLastLocation == Spec => []ResumesWhereLeft
  <1>1. Inv => ResumesWhereLeft
    <2>1. SUFFICES ASSUME Inv, NEW s \in Session, opening[s].pc = "read", s = session,
                          ~opening[s].asked, opening[s].book \notin failed
                   PROVE  opening[s].target = reached[opening[s].book]
      BY DEF ResumesWhereLeft, IsCurrentSession
    <2>2. /\ opening[s].target = progress[opening[s].book]
          /\ writes[opening[s].book] = <<>> /\ store.cfi = None
      BY <2>1 DEF Inv, Resuming
    <2>3. timer = None /\ opening[s].book \in Book
      BY <2>1, <2>2, OpeningStates DEF Inv, Placed, Linked
    <2>4. QED BY <2>1, <2>2, <2>3 DEF Inv, Chained
  <1>2. QED BY <1>1, ProgressInvariant, PTL

(***************************************************************************)
(* The first page is displayed only for a book that has no other saved     *)
(* location: a failed read or a lost race never sends the reader back.     *)
(***************************************************************************)
THEOREM StartIsForNewBooks == Spec => []NeverBackToStart
  <1>1. Inv => NeverBackToStart
    BY DEF Inv, Resuming, NeverBackToStart, IsCurrentSession
  <1>2. QED BY <1>1, ProgressInvariant, PTL

(***************************************************************************)
(* No EPUB.js book or rendition outlives its session or its flow, and the  *)
(* store never shows a destroyed one, whichever await open() is in when it *)
(* is abandoned.                                                           *)
(***************************************************************************)
THEOREM NothingLeaks == Spec => []ObjectsRetired
  <1>1. Inv => ObjectsRetired
    BY DEF Inv, Shown
  <1>2. QED BY <1>1, ProgressInvariant, PTL

(***************************************************************************)
(* The rendition of an open reader at rest has the flow of the last        *)
(* settings change, whatever changes were overtaken on the way.            *)
(***************************************************************************)
THEOREM LastSettingsWin == Spec => []LatestSettingsShown
  <1>1. Inv => LatestSettingsShown
    <2>1. SUFFICES ASSUME Inv, NEW g \in Apply, Current(g), applies[g].pc = "done",
                          \A h \in Apply : h > g => applies[h].pc = "idle", errors = 0
                   PROVE  store.built = applies[g].flow
      BY DEF LatestSettingsShown, Current
    <2>2. store.flow = applies[g].flow
      BY <2>1 DEF Inv, Settled
    <2>3. ~\E k \in Apply : Current(k) /\ applies[k].pc = "saving" /\ applies[k].rebuild
      <3>1. SUFFICES ASSUME NEW k \in Apply, Current(k), applies[k].pc = "saving" PROVE FALSE
        OBVIOUS
      <3>2. k < g \/ k = g \/ g < k
        BY Bounds DEF Apply
      <3>3. QED BY <2>1, <3>1, <3>2 DEF Inv, Settled, Current
    <2>4. QED BY <2>1, <2>2, <2>3 DEF Inv, Settled
  <1>2. QED BY <1>1, ProgressInvariant, PTL

-----------------------------------------------------------------------------
(* The promise of ReadingPlaces: every step is one of its steps or none. *)

Waits == [b \in Book |-> IF timer # None /\ store.book = b THEN timer ELSE None]
Sent == [b \in Book |-> OnTheirWay(writes[b])]
Refused == {b \in Book : WasRefused(b)}

\* The refinement mapping, by its parts.
LEMMA PlaceSteps ==
    /\ (UNCHANGED <<reached, Waits, Sent, progress, Refused>>
           => UNCHANGED Places!placeVars)
    /\ \A b \in Book, c \in Cfi :
          /\ reached' = [reached EXCEPT ![b] = c] /\ Waits' = [Waits EXCEPT ![b] = c]
          /\ UNCHANGED <<Sent, progress, Refused>>
          => Places!PlacesNext
    /\ \A b \in Book :
          /\ Waits[b] # None
          /\ Sent' = [Sent EXCEPT ![b] = Append(@, Waits[b])]
          /\ Waits' = [Waits EXCEPT ![b] = None]
          /\ UNCHANGED <<reached, progress, Refused>>
          => Places!PlacesNext
    /\ \A b \in Book :
          /\ reached[b] # None
          /\ Sent' = [Sent EXCEPT ![b] = Append(@, reached[b])]
          /\ UNCHANGED <<reached, Waits, progress, Refused>>
          => Places!PlacesNext
    /\ \A b \in Book :
          /\ Sent[b] # <<>> /\ Sent' = [Sent EXCEPT ![b] = Tail(@)]
          /\ UNCHANGED <<reached, Waits>>
          /\ \/ progress' = [progress EXCEPT ![b] = Head(Sent[b])] /\ Refused' = Refused \ {b}
             \/ /\ progress' \in {progress, [progress EXCEPT ![b] = Head(Sent[b])]}
                /\ Refused' = Refused \cup {b}
          => Places!PlacesNext
  BY DEF Waits, Sent, Refused, Places!placeVars, Places!PlacesNext, Places!Reach,
         Places!Send, Places!SendAgain, Places!Save, Places!Refuse

\* Chains: what is on its way is the locations that were not executed.
LEMMA OnTheirWayParts ==
    ASSUME NEW q \in Seq(Write)
    PROVE  /\ OnTheirWay(q) \in Seq(Cfi)
           /\ ~Executed(q) => /\ Len(OnTheirWay(q)) = Len(q)
                              /\ \A i \in 1..Len(q) : OnTheirWay(q)[i] = q[i].cfi
           /\ Executed(q) => /\ Len(OnTheirWay(q)) = Len(q) - 1 /\ Len(q) > 0
                             /\ \A i \in 1..(Len(q) - 1) : OnTheirWay(q)[i] = q[i + 1].cfi
  <1>1. Len(q) \in Nat /\ DOMAIN q = 1..Len(q) /\ (q = <<>> <=> Len(q) = 0)
    BY LenProperties, EmptySeq
  <1>2. \A i \in 1..Len(q) : q[i].cfi \in Cfi
    <2>1. \A i \in 1..Len(q) : q[i] \in Write
      BY <1>1, ElementOfSeq
    <2>2. QED BY <2>1 DEF Write
  <1>3. CASE Executed(q)
    <2> DEFINE s == [i \in 1..(Len(q) - 1) |-> q[i + 1].cfi]
    <2>1. Len(q) > 0 /\ Len(q) - 1 \in Nat
      BY <1>1, <1>3 DEF Executed
    <2>2. OnTheirWay(q) = s
      BY <1>3 DEF OnTheirWay
    <2>3. s \in [1..(Len(q) - 1) -> Cfi]
      BY <1>1, <1>2, <2>1
    <2>4. \A i \in 1..(Len(q) - 1) : s[i] = q[i + 1].cfi
      OBVIOUS
    <2> HIDE DEF s
    <2>5. s \in Seq(Cfi) /\ Len(s) = Len(q) - 1
      <3> DEFINE n == Len(q) - 1
      <3>1. n \in Nat /\ s \in [1..n -> Cfi]
        BY <2>1, <2>3
      <3> HIDE DEF n
      <3>2. s \in Seq(Cfi) /\ Len(s) = n
        BY <3>1
      <3>3. QED BY <3>2 DEF n
    <2>6. QED BY <1>3, <2>1, <2>2, <2>4, <2>5
  <1>4. CASE ~Executed(q)
    <2> DEFINE s == [i \in 1..(Len(q) - 0) |-> q[i + 0].cfi]
    <2>1. OnTheirWay(q) = s
      BY <1>4 DEF OnTheirWay
    <2>2. s \in [1..Len(q) -> Cfi]
      BY <1>1, <1>2
    <2>3. s \in Seq(Cfi) /\ Len(s) = Len(q)
      BY <1>1, <2>2
    <2>4. \A i \in 1..Len(q) : s[i] = q[i].cfi
      BY <1>1
    <2>5. QED BY <1>4, <2>1, <2>3, <2>4
  <1>5. QED BY <1>3, <1>4

\* A chain that gets longer has one location more on its way.
LEMMA LongerOnTheirWay ==
    ASSUME Inv, NEW b \in Book, NEW c \in Cfi, Longer(writes', b, c), UNCHANGED failed
    PROVE  /\ Sent' = [Sent EXCEPT ![b] = Append(@, c)]
           /\ Refused' = Refused
  <1> DEFINE q == writes[b]
             v == writes'[b]
  <1>1. /\ q \in Seq(Write) /\ Len(q) \in Nat /\ DOMAIN q = 1..Len(q)
        /\ (q = <<>> <=> Len(q) = 0)
    BY ChainLengths DEF Inv
  <1>2. /\ v \in Seq(Write) /\ v # <<>> /\ Len(v) = Len(q) + 1
        /\ \A i \in 1..Len(q) : v[i] = q[i]
        /\ v[Len(q) + 1].cfi = c
        /\ v[Len(q) + 1].status = IF q = <<>> THEN "sent" ELSE "queued"
    BY <1>1 DEF Longer, Chains
  <1>3. \A a \in Book : a # b => writes'[a] = writes[a]
    BY DEF Longer
  <1> HIDE DEF q, v
  <1>4. Executed(v) <=> Executed(q)
    BY <1>1, <1>2 DEF Executed
  <1>5. OnTheirWay(v) = Append(OnTheirWay(q), c)
    <2>1. OnTheirWay(v) \in Seq(Cfi) /\ Append(OnTheirWay(q), c) \in Seq(Cfi)
      BY <1>1, <1>2, OnTheirWayParts
    <2>2. Len(OnTheirWay(v)) = Len(OnTheirWay(q)) + 1
      BY <1>1, <1>2, <1>4, OnTheirWayParts
    <2>3. ASSUME NEW i \in 1..Len(OnTheirWay(v))
          PROVE  OnTheirWay(v)[i] = Append(OnTheirWay(q), c)[i]
      <3>1. /\ OnTheirWay(q) \in Seq(Cfi) /\ Len(OnTheirWay(q)) \in Nat
            /\ i \in 1..(Len(OnTheirWay(q)) + 1)
        BY <1>1, <2>2, OnTheirWayParts
      <3>2. CASE i = Len(OnTheirWay(q)) + 1
        <4>1. Append(OnTheirWay(q), c)[i] = c
          BY <3>1, <3>2
        <4>2. CASE Executed(q)
          BY <1>1, <1>2, <1>4, <3>1, <3>2, <4>1, <4>2, OnTheirWayParts
        <4>3. CASE ~Executed(q)
          BY <1>1, <1>2, <1>4, <3>1, <3>2, <4>1, <4>3, OnTheirWayParts
        <4>4. QED BY <4>2, <4>3
      <3>3. CASE i \in 1..Len(OnTheirWay(q))
        <4>1. Append(OnTheirWay(q), c)[i] = OnTheirWay(q)[i]
          BY <3>1, <3>3
        <4>2. CASE Executed(q)
          <5>1. Len(OnTheirWay(q)) = Len(q) - 1 /\ OnTheirWay(q)[i] = q[i + 1].cfi
            BY <1>1, <3>3, <4>2, OnTheirWayParts
          <5>2. Len(v) - 1 = Len(q) /\ OnTheirWay(v)[i] = v[i + 1].cfi
            <6>1. \A j \in 1..(Len(v) - 1) : OnTheirWay(v)[j] = v[j + 1].cfi
              BY <1>2, <1>4, <4>2, OnTheirWayParts
            <6>2. Len(v) - 1 = Len(q) /\ i \in 1..(Len(v) - 1)
              BY <1>1, <1>2, <3>3, <5>1
            <6>3. QED BY <6>1, <6>2
          <5>3. i + 1 \in 1..Len(q)
            BY <1>1, <3>3, <5>1
          <5>4. QED BY <1>2, <4>1, <5>1, <5>2, <5>3
        <4>3. CASE ~Executed(q)
          <5>1. Len(OnTheirWay(q)) = Len(q) /\ OnTheirWay(q)[i] = q[i].cfi
            BY <1>1, <3>3, <4>3, OnTheirWayParts
          <5>2. \A j \in 1..Len(v) : OnTheirWay(v)[j] = v[j].cfi
            BY <1>2, <1>4, <4>3, OnTheirWayParts
          <5>3. i \in 1..Len(q) /\ i \in 1..Len(v)
            BY <1>1, <1>2, <3>3, <5>1
          <5>4. QED BY <1>2, <4>1, <5>1, <5>2, <5>3
        <4>4. QED BY <4>2, <4>3
      <3>4. QED BY <3>1, <3>2, <3>3
    <2>4. Len(Append(OnTheirWay(q), c)) = Len(OnTheirWay(q)) + 1
      BY <1>1, OnTheirWayParts
    <2>5. QED BY <2>1, <2>2, <2>3, <2>4, SeqEqual
  <1>6. Sent' = [Sent EXCEPT ![b] = Append(@, c)]
    BY <1>3, <1>5 DEF Sent, q, v
  <1>7. Executed(q) => v[1] = q[1]
    BY <1>1, <1>2 DEF Executed
  <1>8. \A a \in Book : WasRefused(a)' <=> WasRefused(a)
    BY <1>3, <1>4, <1>7 DEF WasRefused, q, v
  <1>9. QED BY <1>6, <1>8 DEF Refused

\* What waits is sent when the book is left, the reader is suspended or the timer fires.
LEMMA FlushedSends ==
    ASSUME Inv, writes' = Flushed(writes), timer' = None, UNCHANGED <<progress, reached, failed>>
    PROVE  Places!PlacesNext \/ UNCHANGED Places!placeVars
  <1>1. Waits' = [b \in Book |-> None]
    BY DEF Waits
  <1>2. CASE timer = None
    <2>1. writes' = writes /\ Waits = [b \in Book |-> None]
      BY <1>2, FlushedChain DEF Waits
    <2>2. Sent' = Sent /\ Refused' = Refused
      BY <2>1 DEF Sent, Refused, WasRefused
    <2>3. QED BY <1>1, <2>1, <2>2, PlaceSteps
  <1>3. CASE timer # None
    <2> DEFINE b == store.book
               c == store.cfi
    <2>1. b \in Book /\ c \in Cfi /\ timer = c /\ writes' = Queued(writes, b, c)
      BY <1>3, FlushedChain
    <2>2. Longer(writes', b, c)
      BY <2>1, LongerChain
    <2>3. Waits = [a \in Book |-> IF a = b THEN c ELSE None] /\ c # None
      BY <1>3, <2>1 DEF Waits
    <2> HIDE DEF b, c
    <2>4. Sent' = [Sent EXCEPT ![b] = Append(@, Waits[b])] /\ Refused' = Refused
      BY <2>1, <2>2, <2>3, LongerOnTheirWay
    <2>5. Waits[b] # None /\ Waits' = [Waits EXCEPT ![b] = None]
      BY <1>1, <2>1, <2>3
    <2>6. QED BY <2>1, <2>4, <2>5, PlaceSteps
  <1>4. QED BY <1>2, <1>3

\* Most of what the store does is not about places.
LEMMA NothingOfPlaces ==
    ASSUME store'.book = store.book, UNCHANGED <<progress, timer, writes, reached, failed>>
    PROVE  UNCHANGED Places!placeVars
  <1>1. Waits' = Waits
    BY DEF Waits
  <1>2. Sent' = Sent /\ Refused' = Refused
    BY DEF Sent, Refused, WasRefused
  <1>3. QED BY <1>1, <1>2, PlaceSteps

\* A location is reported of the book in the store.
LEMMA ReportedReaches ==
    ASSUME Inv, NEW c \in Cfi, store.book \in Book, Reported(c), UNCHANGED <<progress, writes, failed>>
    PROVE  Places!PlacesNext
  <1> DEFINE b == store.book
  <1>1. store \in Stores
    BY Types DEF Inv
  <1>2. store'.book = b /\ timer' = c /\ c # None /\ reached' = [reached EXCEPT ![b] = c]
    BY <1>1, CfiParts DEF Reported, Stores
  <1>3. Waits' = [Waits EXCEPT ![b] = c]
    <2>1. Waits' = [a \in Book |-> IF a = b THEN c ELSE None]
      BY <1>2 DEF Waits
    <2>2. \A a \in Book : a # b => Waits[a] = None
      BY DEF Waits
    <2>3. Waits = [a \in Book |-> Waits[a]]
      BY DEF Waits
    <2> HIDE DEF b
    <2>4. QED BY <2>1, <2>2, <2>3
  <1>4. Sent' = Sent /\ Refused' = Refused
    BY DEF Sent, Refused, WasRefused
  <1> HIDE DEF b
  <1>5. b \in Book
    BY DEF b
  <1>6. QED BY <1>2, <1>3, <1>4, <1>5, PlaceSteps

\* What is reported is reported of the book that is shown.
LEMMA ReportsOfTheBook ==
    ASSUME Inv, RelocatedTarget \/ \E p \in 1..MaxPage : Turn(p)
    PROVE  Places!PlacesNext
  <1>1. store \in Stores /\ session \in 0..MaxSessions /\ opening \in [Session -> Openings]
        /\ applies \in [Apply -> Settlings]
    BY Types DEF Inv
  <1>2. CASE \E p \in 1..MaxPage : Turn(p)
    <2>1. PICK p \in 1..MaxPage : Turn(p)
      BY <1>2
    <2>2. store.rendition # NoRendition /\ UNCHANGED <<progress, writes, failed>>
          /\ Reported(<<store.book, p>>)
      BY <2>1 DEF Turn, Interactive
    <2>3. store.book \in Book
      <3>1. session \in Session /\ opening[session].pc \in Awaiting \cup {"open"}
        BY <2>2 DEF Inv, Shown
      <3>2. QED BY <3>1 DEF Inv, Linked
    <2>4. p \in 0..MaxPage
      BY Bounds
    <2>5. <<store.book, p>> \in Cfi
      BY <2>3, <2>4, CfiParts
    <2>6. QED BY <2>2, <2>3, <2>5, ReportedReaches
  <1>3. CASE RelocatedTarget
    <2>1. PICK c \in Unreported : Reported(c)
      BY <1>3 DEF RelocatedTarget
    <2>2. UNCHANGED <<progress, writes, failed>>
      BY <1>3 DEF RelocatedTarget
    <2>3. c \in Cfi /\ store.book \in Book
      <3>1. CASE \E s \in Session : /\ s = session /\ c = opening[s].target
                                    /\ opening[s].pc \in {"displaying", "open"}
        <4>1. PICK s \in Session : /\ s = session /\ c = opening[s].target
                                   /\ opening[s].pc \in {"displaying", "open"}
          BY <3>1
        <4>2. opening[s].target \in Cfi \cup {None} /\ opening[s].target # None
          BY <1>1, <4>1 DEF Openings, Inv, Placed
        <4>3. store.book \in Book
          BY <4>1, OpeningStates DEF Inv, Linked
        <4>4. QED BY <4>1, <4>2, <4>3
      <3>2. CASE \E h \in Apply : /\ applies[h].pc = "displaying" /\ c = applies[h].target
                                  /\ store.rendition = <<session, h>>
        <4>1. PICK h \in Apply : /\ applies[h].pc = "displaying" /\ c = applies[h].target
                                 /\ store.rendition = <<session, h>>
          BY <3>2
        <4>2. applies[h].target \in Cfi \cup {None} /\ applies[h].target # None
          BY <1>1, <4>1 DEF Settlings, Inv, Placed
        <4>3. <<session, h>> # <<>>
          OBVIOUS
        <4>4. session \in Session /\ opening[session].pc \in Awaiting \cup {"open"}
          BY <4>1, <4>3 DEF Inv, Shown, NoRendition
        <4>5. store.book \in Book
          BY <4>4 DEF Inv, Linked
        <4>6. QED BY <4>1, <4>2, <4>5
      <3>3. QED BY <2>1, <3>1, <3>2 DEF Unreported
    <2>4. QED BY <2>1, <2>2, <2>3, ReportedReaches
  <1>4. QED BY <1>2, <1>3

\* A settings change writes the present place down before it moves anything.
LEMMA StartApplySends ==
    ASSUME Inv, NEW g \in Apply, StartApply(g)
    PROVE  Places!PlacesNext \/ UNCHANGED Places!placeVars
  <1>1. UNCHANGED <<progress, timer, reached, failed>> /\ applies[g].pc = "queued"
    BY DEF StartApply, extras
  <1>2. store \in Stores /\ applies \in [Apply -> Settlings]
    BY Types DEF Inv
  <1>3. CASE UNCHANGED <<store, writes>>
    BY <1>1, <1>3, NothingOfPlaces
  <1>4. CASE /\ applies[g].session = session
             /\ store' = [store EXCEPT !.flow = applies[g].flow]
             /\ writes' = IF store.cfi # None THEN Queued(writes, applies[g].book, store.cfi)
                          ELSE writes
    <2>1. store'.book = store.book
      BY <1>2, <1>4 DEF Stores
    <2>2. CASE store.cfi = None
      BY <1>1, <1>4, <2>1, <2>2, NothingOfPlaces
    <2>3. CASE store.cfi # None
      <3> DEFINE b == store.book
                 c == store.cfi
      <3>1. applies[g].book = b /\ b # NoBook
        BY <1>1, <1>4 DEF Inv, Linked, Current
      <3>2. b \in Book /\ c \in Cfi /\ reached[b] = c
        BY <1>2, <2>3, <3>1 DEF Stores, Inv, Chained
      <3>3. Longer(writes', b, c)
        BY <1>4, <2>3, <3>1, <3>2, LongerChain
      <3>4. Waits' = Waits
        BY <1>1, <2>1 DEF Waits
      <3> HIDE DEF b, c
      <3>5. Sent' = [Sent EXCEPT ![b] = Append(@, reached[b])] /\ Refused' = Refused
        BY <1>1, <3>2, <3>3, LongerOnTheirWay
      <3>6. reached[b] # None
        BY <3>2, CfiParts
      <3>7. QED BY <1>1, <3>2, <3>4, <3>5, <3>6, PlaceSteps
    <2>4. QED BY <2>2, <2>3
  <1>5. QED BY <1>3, <1>4 DEF StartApply

\* A write is executed: what was first on its way is stored or refused.
LEMMA ServeWriteSaves ==
    ASSUME Inv, NEW b \in Book, ServeWrite(b)
    PROVE  Places!PlacesNext
  <1> DEFINE q == writes[b]
             c == writes[b][1].cfi
  <1>1. /\ writes \in Chains /\ q \in Seq(Write) /\ Len(q) \in Nat /\ DOMAIN q = 1..Len(q)
    BY Types, ChainLengths DEF Inv
  <1>2. store' = store /\ timer' = timer /\ reached' = reached /\ failed' = failed
    BY DEF ServeWrite
  <1>3. PICK i \in DOMAIN q :
            /\ q[i].status = "sent"
            /\ \/ /\ writes' = [writes EXCEPT ![b][i].status = "done"]
                  /\ progress' = [progress EXCEPT ![b] = q[i].cfi]
               \/ /\ writes' = [writes EXCEPT ![b][i].status = "failed"]
                  /\ progress' \in {progress, [progress EXCEPT ![b] = q[i].cfi]}
    BY DEF ServeWrite
  <1>4. i = 1 /\ q # <<>> /\ Len(q) > 0 /\ ~Executed(q)
    BY <1>1, <1>3, EmptySeq DEF Inv, Chained, Executed
  <1>5. PICK st \in {"done", "failed"} :
            /\ writes' = [writes EXCEPT ![b][1].status = st]
            /\ \/ st = "done" /\ progress' = [progress EXCEPT ![b] = c]
               \/ st = "failed" /\ progress' \in {progress, [progress EXCEPT ![b] = c]}
    BY <1>3, <1>4
  <1> DEFINE w == [q[1] EXCEPT !.status = st]
             v == [q EXCEPT ![1] = w]
  <1>6. q[1] \in Write /\ w \in Write /\ w.status = st
    <2>1. q[1] \in Write
      BY <1>1, <1>3, <1>4, ElementOfSeq
    <2>2. QED BY <2>1 DEF Write
  <1>7. writes' = [writes EXCEPT ![b] = v]
    BY <1>5
  <1>8. writes'[b] = v /\ \A a \in Book : a # b => writes'[a] = writes[a]
    BY <1>1, <1>7 DEF Chains
  <1> HIDE DEF w
  <1>9. v \in Seq(Write) /\ Len(v) = Len(q) /\ v[1] = w /\ \A j \in DOMAIN q : j # 1 => v[j] = q[j]
    <2>1. 1 \in DOMAIN q /\ q \in Seq(Write)
      BY <1>1, <1>4
    <2>2. v \in Seq(Write) /\ Len(v) = Len(q)
      BY <1>6, <2>1, ExceptSeq
    <2>3. QED BY <2>1, <2>2
  <1> HIDE DEF v
  <1>10. v # <<>> /\ Executed(v)
    BY <1>1, <1>4, <1>6, <1>9, EmptySeq DEF Executed
  <1>11. /\ OnTheirWay(q) \in Seq(Cfi) /\ Len(OnTheirWay(q)) = Len(q)
         /\ \A j \in 1..Len(q) : OnTheirWay(q)[j] = q[j].cfi
    BY <1>1, <1>4, OnTheirWayParts
  <1>12. /\ OnTheirWay(v) \in Seq(Cfi) /\ Len(OnTheirWay(v)) = Len(q) - 1
         /\ \A j \in 1..(Len(q) - 1) : OnTheirWay(v)[j] = v[j + 1].cfi
    BY <1>9, <1>10, OnTheirWayParts
  <1> HIDE DEF q
  <1>13. OnTheirWay(q) # <<>> /\ Head(OnTheirWay(q)) = c
    BY <1>1, <1>4, <1>11, EmptySeq DEF q
  <1>14. OnTheirWay(v) = Tail(OnTheirWay(q))
    <2> DEFINE t == Tail(OnTheirWay(q))
    <2>1. /\ t \in Seq(Cfi) /\ Len(t) = Len(q) - 1
          /\ \A j \in 1..Len(t) : t[j] = OnTheirWay(q)[j + 1]
      BY <1>11, <1>13, HeadTailProperties
    <2> HIDE DEF t
    <2>2. ASSUME NEW j \in 1..Len(OnTheirWay(v)) PROVE OnTheirWay(v)[j] = t[j]
      <3>1. j \in 1..(Len(q) - 1) /\ j + 1 \in 1..Len(q) /\ j + 1 # 1
        BY <1>1, <1>12
      <3>2. OnTheirWay(v)[j] = v[j + 1].cfi /\ v[j + 1] = q[j + 1]
        BY <1>1, <1>9, <1>12, <3>1
      <3>3. t[j] = q[j + 1].cfi
        BY <1>11, <2>1, <3>1
      <3>4. QED BY <3>2, <3>3
    <2>3. OnTheirWay(v) = t
      BY <1>12, <2>1, <2>2, SeqEqual
    <2>4. QED BY <2>3 DEF t
  <1>15. Sent[b] = OnTheirWay(q) /\ Sent' = [Sent EXCEPT ![b] = Tail(@)]
    BY <1>8, <1>14 DEF Sent, q
  <1>16. Waits' = Waits
    BY <1>2 DEF Waits
  <1>17. \A a \in Book : a # b => (WasRefused(a)' <=> WasRefused(a))
    BY <1>2, <1>8 DEF WasRefused
  <1>18. WasRefused(b)' <=> st = "failed"
    BY <1>6, <1>8, <1>9, <1>10 DEF WasRefused
  <1>19. Refused' = IF st = "failed" THEN Refused \cup {b} ELSE Refused \ {b}
    BY <1>17, <1>18 DEF Refused
  <1> HIDE DEF c
  <1>20. CASE st = "done"
    <2>1. progress' = [progress EXCEPT ![b] = Head(Sent[b])] /\ Refused' = Refused \ {b}
      BY <1>5, <1>13, <1>15, <1>19, <1>20
    <2>2. QED BY <1>2, <1>13, <1>15, <1>16, <2>1, PlaceSteps
  <1>21. CASE st = "failed"
    <2>1. /\ progress' \in {progress, [progress EXCEPT ![b] = Head(Sent[b])]}
          /\ Refused' = Refused \cup {b}
      BY <1>5, <1>13, <1>15, <1>19, <1>21
    <2>2. QED BY <1>2, <1>13, <1>15, <1>16, <2>1, PlaceSteps
  <1>22. QED BY <1>20, <1>21

\* The answer only makes room for the next write.
LEMMA AnswerWriteHides ==
    ASSUME Inv, NEW b \in Book, AnswerWrite(b)
    PROVE  UNCHANGED Places!placeVars
  <1> DEFINE q == writes[b]
             rejected == q[1].status = "failed"
             r == Released(Tail(q), rejected)
  <1>1. writes \in Chains /\ q \in Seq(Write) /\ Len(q) \in Nat /\ DOMAIN q = 1..Len(q)
        /\ (q = <<>> <=> Len(q) = 0)
    BY Types, ChainLengths DEF Inv
  <1>2. q # <<>> /\ Head(q) = q[1] /\ q[1].status \in {"done", "failed"} /\ Executed(q)
    BY <1>1 DEF AnswerWrite, Executed
  <1>3. /\ writes' = [writes EXCEPT ![b] = r]
        /\ failed' = IF rejected THEN failed \cup {b} ELSE failed \ {b}
        /\ UNCHANGED <<progress, store, timer, reached>>
    BY <1>2 DEF AnswerWrite
  <1>4. writes'[b] = r /\ \A a \in Book : a # b => writes'[a] = writes[a]
    BY <1>1, <1>3 DEF Chains
  <1>5. rejected \in BOOLEAN
    OBVIOUS
  <1> HIDE DEF rejected
  <1>6. /\ r \in Seq(Write) /\ Len(r) = Len(q) - 1 /\ DOMAIN r = 1..Len(r)
        /\ \A i \in DOMAIN r : i + 1 \in DOMAIN q /\ r[i].cfi = q[i + 1].cfi
        /\ \A i \in DOMAIN r : r[i].status = IF i = 1 /\ q[i + 1].status = "queued"
                                             THEN "sent" ELSE q[i + 1].status
    BY <1>1, <1>2, <1>5, ReleasedChain
  <1>7. \A i \in DOMAIN q : i # 1 => q[i].status = "queued"
    BY DEF Inv, Chained
  <1> HIDE DEF q, r
  <1>8. ~Executed(r)
    <2>1. SUFFICES ASSUME r # <<>> PROVE r[1].status = "sent"
      BY DEF Executed
    <2>2. 1 \in DOMAIN r
      BY <1>6, <2>1, EmptySeq, LenProperties
    <2>3. 2 \in DOMAIN q
      BY <1>6, <2>2
    <2>4. q[2].status = "queued"
      BY <1>7, <2>3
    <2>5. r[1].status = IF q[1 + 1].status = "queued" THEN "sent" ELSE q[1 + 1].status
      BY <1>6, <2>2
    <2>6. QED BY <2>4, <2>5
  <1>9. OnTheirWay(r) = OnTheirWay(q)
    <2>1. /\ OnTheirWay(r) \in Seq(Cfi) /\ Len(OnTheirWay(r)) = Len(r)
          /\ \A i \in 1..Len(r) : OnTheirWay(r)[i] = r[i].cfi
      BY <1>6, <1>8, OnTheirWayParts
    <2>2. /\ OnTheirWay(q) \in Seq(Cfi) /\ Len(OnTheirWay(q)) = Len(q) - 1
          /\ \A i \in 1..(Len(q) - 1) : OnTheirWay(q)[i] = q[i + 1].cfi
      BY <1>1, <1>2, OnTheirWayParts
    <2>3. \A i \in 1..Len(OnTheirWay(r)) : OnTheirWay(r)[i] = OnTheirWay(q)[i]
      BY <1>6, <2>1, <2>2
    <2>4. QED BY <1>6, <2>1, <2>2, <2>3, SeqEqual
  <1>10. Sent' = Sent
    BY <1>4, <1>9 DEF Sent, q
  <1>11. \A a \in Book : a # b => (WasRefused(a)' <=> WasRefused(a))
    BY <1>3, <1>4 DEF WasRefused
  <1>12. WasRefused(b)' <=> WasRefused(b)
    BY <1>2, <1>3, <1>4, <1>8 DEF WasRefused, q, rejected
  <1>13. Refused' = Refused
    BY <1>11, <1>12 DEF Refused
  <1>14. Waits' = Waits
    BY <1>3 DEF Waits
  <1>15. QED BY <1>3, <1>10, <1>13, <1>14, PlaceSteps

LEMMA StepImplementsPlaces ==
    Inv /\ [Next]_vars => [Places!PlacesNext]_(Places!placeVars)
  <1> SUFFICES ASSUME Inv, [Next]_vars
               PROVE  Places!PlacesNext \/ UNCHANGED Places!placeVars
    OBVIOUS
  <1>0. store \in Stores
    BY Types DEF Inv
  <1>1. CASE Reader
    <2>1. CASE \/ Close
               \/ \E b \in Book : \E href \in {None} \cup ({b} \X (1..MaxPage)) : Open(b, href)
      <3>1. writes' = Flushed(writes) /\ timer' = None /\ UNCHANGED <<progress, reached, failed>>
        BY <2>1 DEF Open, Close, extras
      <3>2. QED BY <3>1, FlushedSends
    <2>2. CASE \E p \in 1..MaxPage : Turn(p)
      BY <2>2, ReportsOfTheBook
    <2>3. CASE \E g \in Apply, f \in Flow : ApplyReadingSettings(g, f)
      <3>1. UNCHANGED <<progress, store, timer, writes, reached, failed>>
        BY <2>3 DEF ApplyReadingSettings, extras
      <3>2. QED BY <3>1, NothingOfPlaces
    <2>4. CASE Suspend
      <3>1. writes' = Flushed(writes) /\ timer' = None /\ UNCHANGED <<progress, reached, failed>>
        BY <2>4 DEF Suspend, extras
      <3>2. QED BY <3>1, FlushedSends
    <2>5. QED BY <1>1, <2>1, <2>2, <2>3, <2>4 DEF Reader
  <1>2. ASSUME NEW s \in Session, Continuation(s) PROVE UNCHANGED Places!placeVars
    <2>1. UNCHANGED <<progress, timer, writes, reached, failed>>
      BY <1>2 DEF Continuation, Loaded, RequestProgress, ServeRead, Display, Displayed,
                  OpenFailed, Abandoned, extras
    <2>2. \/ UNCHANGED store
          \/ store' = [store EXCEPT !.epub = TRUE, !.rendition = <<s, 0>>]
          \/ store' = [store EXCEPT !.epub = FALSE, !.rendition = NoRendition]
      BY <1>2 DEF Continuation, Loaded, RequestProgress, ServeRead, Display, Displayed,
                  OpenFailed, Abandoned, extras
    <2>3. store'.book = store.book
      BY <1>0, <2>2 DEF Stores
    <2>4. QED BY <2>1, <2>3, NothingOfPlaces
  <1>3. ASSUME NEW g \in Apply, Settling(g)
        PROVE  Places!PlacesNext \/ UNCHANGED Places!placeVars
    <2>1. CASE StartApply(g)
      BY <2>1, StartApplySends
    <2>2. CASE Rebuild(g) \/ EndApply(g)
      <3>1. UNCHANGED <<progress, timer, writes, reached, failed>>
        BY <2>2 DEF Rebuild, EndApply, extras
      <3>2. \/ UNCHANGED store
            \/ store' = [store EXCEPT !.rendition = <<session, g>>, !.built = applies[g].flow]
        BY <2>2 DEF Rebuild, EndApply
      <3>3. store'.book = store.book
        BY <1>0, <3>2 DEF Stores
      <3>4. QED BY <3>1, <3>3, NothingOfPlaces
    <2>3. QED BY <1>3, <2>1, <2>2 DEF Settling
  <1>4. CASE RelocatedTarget
    BY <1>4, ReportsOfTheBook
  <1>5. CASE TimerFires
    <2>1. /\ timer # None /\ writes' = Queued(writes, timer[1], timer) /\ timer' = None
          /\ UNCHANGED <<progress, reached, failed>>
      BY <1>5 DEF TimerFires, extras
    <2>2. timer = store.cfi /\ timer[1] = store.book
      BY <2>1 DEF Inv, Placed
    <2>3. writes' = Flushed(writes)
      BY <2>1, <2>2, FlushedChain
    <2>4. QED BY <2>1, <2>3, FlushedSends
  <1>6. ASSUME NEW b \in Book, ServeWrite(b) \/ AnswerWrite(b)
        PROVE  Places!PlacesNext \/ UNCHANGED Places!placeVars
    BY <1>6, ServeWriteSaves, AnswerWriteHides
  <1>7. CASE UNCHANGED vars
    <2>1. UNCHANGED <<progress, store, timer, writes, reached, failed>>
      BY <1>7 DEF vars, extras
    <2>2. QED BY <2>1, NothingOfPlaces
  <1>8. QED BY <1>1, <1>2, <1>3, <1>4, <1>5, <1>6, <1>7 DEF Next

(***************************************************************************)
(* The reader store implements ReadingPlaces: a row moves forward along    *)
(* the places reached in its book, one write at a time, whatever sessions, *)
(* openings, settings changes and failures come in between.                *)
(***************************************************************************)
THEOREM PlacesImplemented == Spec => ImplementsPlaces
  <1>1. Init => Places!PlacesInit
    <2>1. ASSUME Init PROVE Places!PlacesInit
      <3>1. /\ progress = [b \in Book |-> None] /\ reached = progress /\ timer = None
            /\ failed = {} /\ \A b \in Book : writes[b] = <<>>
        BY <2>1 DEF Init
      <3>2. Waits = [b \in Book |-> None]
        BY <3>1 DEF Waits
      <3>3. Refused = {}
        BY <3>1 DEF Refused, WasRefused, Executed
      <3>4. ASSUME NEW b \in Book PROVE OnTheirWay(writes[b]) = <<>>
        <4>1. writes[b] \in Seq(Write) /\ Len(writes[b]) = 0 /\ ~Executed(writes[b])
          BY <3>1, EmptySeq DEF Executed
        <4>2. OnTheirWay(writes[b]) \in Seq(Cfi) /\ Len(OnTheirWay(writes[b])) = 0
          BY <4>1, OnTheirWayParts
        <4>3. QED BY <4>2, EmptySeq
      <3>5. Sent = [b \in Book |-> <<>>]
        BY <3>4 DEF Sent
      <3>6. QED BY <3>1, <3>2, <3>3, <3>5 DEF Places!PlacesInit, Waits, Sent, Refused
    <2>2. QED BY <2>1
  <1>2. QED
    BY <1>1, StepImplementsPlaces, ProgressInvariant, PTL
       DEF Spec, ImplementsPlaces, Places!PlacesSpec

(***************************************************************************)
(* Once no location of a book waits or is on its way, the row has the last *)
(* one reached, unless the last write was refused: executed or answered.   *)
(***************************************************************************)
THEOREM PlacesAreSettled == Spec => []Places!PlacesSettle
  <1>1. Inv => Places!PlacesSettle
    <2>1. SUFFICES ASSUME Inv, NEW b \in Book, Waits[b] = None, Sent[b] = <<>>, b \notin Refused
                   PROVE  progress[b] = reached[b]
      BY DEF Places!PlacesSettle, Waits, Sent, Refused
    <2>2. timer = None \/ store.book # b
      BY <2>1 DEF Waits
    <2>3. /\ writes[b] \in Seq(Write) /\ Len(writes[b]) \in Nat
          /\ (writes[b] = <<>> <=> Len(writes[b]) = 0)
      BY <2>1, ChainLengths DEF Inv
    <2>4. OnTheirWay(writes[b]) = <<>> /\ ~WasRefused(b)
      BY <2>1 DEF Sent, Refused
    <2>5. CASE Executed(writes[b])
      <3>1. Len(writes[b]) = 1
        <4> DEFINE n == Len(writes[b])
        <4>1. n \in Nat /\ Len(OnTheirWay(writes[b])) = n - 1
          BY <2>3, <2>5, OnTheirWayParts
        <4>2. Len(OnTheirWay(writes[b])) = 0
          BY <2>4, EmptySeq
        <4> HIDE DEF n
        <4>3. n = 1
          BY <4>1, <4>2
        <4>4. QED BY <4>3 DEF n
      <3>2. writes[b] # <<>> /\ writes[b][1].status = "done"
        BY <2>1, <2>3, <2>4, <2>5, <3>1 DEF WasRefused, Executed
      <3>3. progress[b] = writes[b][1].cfi /\ writes[b][Len(writes[b])].cfi = reached[b]
        BY <2>1, <2>2, <3>2 DEF Inv, Chained
      <3>4. QED BY <3>1, <3>3
    <2>6. CASE ~Executed(writes[b])
      <3>1. writes[b] = <<>>
        BY <2>1, <2>3, <2>4, <2>6, OnTheirWayParts, EmptySeq
      <3>2. b \notin failed
        BY <2>4, <2>6 DEF WasRefused
      <3>3. QED BY <2>1, <2>2, <3>1, <3>2 DEF Inv, Chained
    <2>7. QED BY <2>5, <2>6
  <1>2. QED BY <1>1, ProgressInvariant, PTL
=============================================================================
