----------------------------- MODULE ReadingPlaces -----------------------------
(***************************************************************************)
(* What the reader store promises about the place in a book, stated        *)
(* without sessions, renditions, openings, settings or answers: of each    *)
(* book the last place reached waits to be sent, is sent behind those sent *)
(* before it, and is stored in its turn or refused.  A place that was left *)
(* behind is never stored over a later one.                                *)
(*                                                                         *)
(* ReadingProgress implements this specification.                          *)
(***************************************************************************)
EXTENDS Sequences

CONSTANTS Book,
          Place,       \* locations in books
          NoPlace      \* of a book without one

VARIABLES place,       \* place[b]: the last location reached in b
          waiting,     \* waiting[b]: the location to be sent, or NoPlace
          sent,        \* sent[b]: the locations on their way to the row, in order
          saved,       \* saved[b]: the row
          refused      \* books whose last write was refused

placeVars == <<place, waiting, sent, saved, refused>>

PlacesTypeOK ==
    /\ place \in [Book -> Place \cup {NoPlace}]
    /\ waiting \in [Book -> Place \cup {NoPlace}]
    /\ sent \in [Book -> Seq(Place)]
    /\ saved \in [Book -> Place \cup {NoPlace}]
    /\ refused \subseteq Book

PlacesInit ==
    /\ place = [b \in Book |-> NoPlace]
    /\ waiting = [b \in Book |-> NoPlace]
    /\ sent = [b \in Book |-> <<>>]
    /\ saved = [b \in Book |-> NoPlace]
    /\ refused = {}

\* The reader gets to c: an earlier place that still waits is forgotten.
Reach(b, c) ==
    /\ place' = [place EXCEPT ![b] = c]
    /\ waiting' = [waiting EXCEPT ![b] = c]
    /\ UNCHANGED <<sent, saved, refused>>

\* What waits is sent, when its time comes or the book is left.
Send(b) ==
    /\ waiting[b] # NoPlace
    /\ sent' = [sent EXCEPT ![b] = Append(@, waiting[b])]
    /\ waiting' = [waiting EXCEPT ![b] = NoPlace]
    /\ UNCHANGED <<place, saved, refused>>

\* The present place is written down before something moves the reader.
SendAgain(b) ==
    /\ place[b] # NoPlace
    /\ sent' = [sent EXCEPT ![b] = Append(@, place[b])]
    /\ UNCHANGED <<place, waiting, saved, refused>>

Save(b) ==
    /\ sent[b] # <<>>
    /\ sent' = [sent EXCEPT ![b] = Tail(@)]
    /\ saved' = [saved EXCEPT ![b] = Head(sent[b])]
    /\ refused' = refused \ {b}
    /\ UNCHANGED <<place, waiting>>

\* An error is reported: nothing was stored, or it was all the same.
Refuse(b) ==
    /\ sent[b] # <<>>
    /\ sent' = [sent EXCEPT ![b] = Tail(@)]
    /\ saved' \in {saved, [saved EXCEPT ![b] = Head(sent[b])]}
    /\ refused' = refused \cup {b}
    /\ UNCHANGED <<place, waiting>>

PlacesNext ==
    \E b \in Book :
        \/ \E c \in Place : Reach(b, c)
        \/ Send(b) \/ SendAgain(b) \/ Save(b) \/ Refuse(b)

PlacesSpec == PlacesInit /\ [][PlacesNext]_placeVars

\* Once nothing waits and nothing is on its way, the row has the last place reached,
\* unless its last write was refused.
PlacesSettle ==
    \A b \in Book :
        waiting[b] = NoPlace /\ sent[b] = <<>> /\ b \notin refused => saved[b] = place[b]
=============================================================================
