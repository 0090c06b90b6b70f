------------------------------ MODULE MCScope ------------------------------
(* A ring of three samples, filled at once as the ADC is asked to or in     *)
(* parts, buffers of two to six samples, a pointer that may leave the area; *)
(* either many events of the user and no recording, or up to two recordings *)
(* and few events.                                                          *)
EXTENDS Scope, TLC

MCFiles ==
  {[ok |-> TRUE, app |-> TRUE, plugin |-> TRUE, interval |-> 6, recorder |-> TRUE, rate |-> 2,
    area |-> TRUE, static |-> TRUE, range |-> 2],
   [ok |-> TRUE, app |-> FALSE, plugin |-> FALSE, interval |-> 0, recorder |-> FALSE, rate |-> 0,
    area |-> TRUE, static |-> FALSE, range |-> 1],
   [ok |-> TRUE, app |-> TRUE, plugin |-> FALSE, interval |-> 6, recorder |-> TRUE, rate |-> 1,
    area |-> TRUE, static |-> TRUE, range |-> 2],
   [ok |-> FALSE, app |-> FALSE, plugin |-> FALSE, interval |-> 0, recorder |-> FALSE, rate |-> 0,
    area |-> FALSE, static |-> FALSE, range |-> 0]}

MCPreferences ==
  {[interval |-> 6, rate |-> 2, trigger |-> "single"], [interval |-> 4, rate |-> 2, trigger |-> "timed"],
   [interval |-> 8, rate |-> 2, trigger |-> "repetitive"]}

MCPositions == {-2, 0, 2, 6}
MCWidths == {-4, 0, 6, 40}
MCBudgets ==
  {[events |-> 5, loads |-> 0, starts |-> 0, chunks |-> {}, which |-> {"graph", "mouse", "modes"}],
   [events |-> 3, loads |-> 2, starts |-> 0, chunks |-> {},
    which |-> {"graph", "preferences", "settings", "mouse"}],
   [events |-> 0, loads |-> 1, starts |-> 1, chunks |-> {3}, which |-> {}],
   [events |-> 0, loads |-> 0, starts |-> 1, chunks |-> {1, 2}, which |-> {}],
   [events |-> 0, loads |-> 0, starts |-> 2, chunks |-> {3}, which |-> {}],
   [events |-> 1, loads |-> 0, starts |-> 1, chunks |-> {3}, which |-> {"graph"}],
   [events |-> 2, loads |-> 0, starts |-> 1, chunks |-> {3}, which |-> {"settings"}],
   [events |-> 2, loads |-> 0, starts |-> 1, chunks |-> {3}, which |-> {"preferences"}],
   [events |-> 2, loads |-> 0, starts |-> 1, chunks |-> {3}, which |-> {"mouse"}]}
=============================================================================
