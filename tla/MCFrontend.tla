----------------------------- MODULE MCFrontend -----------------------------
(* The instance of the frontend for TLC. *)
EXTENDS Frontend, TLC

\* The wheel events of the instance: short turns, a notch of three lines, and
\* a page, both ways.
MCTurns ==
  [delta : {-30, 30}, unit : {"pixel"}] \cup [delta : {-3, 3}, unit : {"line"}]
    \cup [delta : {-1, 1}, unit : {"page"}]

=============================================================================
