--------------------------- MODULE MCSessionNotes ---------------------------
EXTENDS SessionNotes, TLC

\* A Task with one Session, which is enough for a note and a Review.
MCOwner == "s1" :> "t1"
=============================================================================
