------------------------------- MODULE MCDevice --------------------------------
(* What a device holds of the books (ChangeFeed) and what it has to send         *)
(* (Outbox), as one instance for TLC.  The two models do not meet, so a          *)
(* behaviour is one of either: focus says which, and the other stands still      *)
(* where it began.                                                               *)
EXTENDS ChangeFeed, TLC

CONSTANTS
  own, other, theirs, r1, r2,        \* the account's own business, another, a document of that one, and requests
  Known0, MaxSaves, OutboxEvents     \* Outbox

\* A bound of Outbox is a number.
ASSUME BoxBounds == MaxSaves \in Nat

VARIABLES
  focus,
  oDoc, oAnswers, oLate, oRow, oShown, oOlder, oKnown, oCursor, oQueue, oNextId, oRun, oSaving, oMode, oLink,
  oMade, oOutcome, oReached, oDiscarded, oRevived, oOvertaken, oEvents

OwnOrOther == [e \in Entities |-> IF e = own THEN own ELSE other]
\* The other business, its document and the account's own were written first.
OneFounding == {<<other, theirs, own>>}

Box == INSTANCE Outbox WITH
  MaxEvents <- OutboxEvents,
  doc <- oDoc, answers <- oAnswers, late <- oLate, row <- oRow, shown <- oShown, older <- oOlder, known <- oKnown,
  cursor <- oCursor, queue <- oQueue, nextId <- oNextId, run <- oRun, saving <- oSaving, mode <- oMode,
  link <- oLink, made <- oMade, outcome <- oOutcome, reached <- oReached, discarded <- oDiscarded,
  revived <- oRevived, overtaken <- oOvertaken, events <- oEvents

feed == vars
box == <<oDoc, oAnswers, oLate, oRow, oShown, oOlder, oKnown, oCursor, oQueue, oNextId, oRun, oSaving, oMode, oLink,
         oMade, oOutcome, oReached, oDiscarded, oRevived, oOvertaken, oEvents>>

EitherInit == focus \in {"feed", "box"} /\ Init /\ Box!Init /\ (focus # "box" => oDoc.v = 0)
EitherNext ==
  /\ UNCHANGED focus
  /\ \/ focus = "feed" /\ Next /\ UNCHANGED box
     \/ focus = "box" /\ Box!Next /\ UNCHANGED feed
EitherSpec == EitherInit /\ [][EitherNext]_<<focus, feed, box>>
Symmetry == Permutations({r1, r2})

\* Properties of the outbox
QueueIsSound == Box!QueueIsSound
EditsLand == Box!EditsLand
NoSilentOverwrite == Box!NoSilentOverwrite
=============================================================================
