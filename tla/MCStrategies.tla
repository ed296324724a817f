---------------------------- MODULE MCStrategies ----------------------------
(***************************************************************************)
(* The two example jobs with the symbols they name, on asks from the       *)
(* smallest a service can quote to some whose limit is a whole cent        *)
(* exactly, just above one and just below.                                 *)
(***************************************************************************)
EXTENDS Strategies

MCWatched == [interval |-> << "GLD", "SLV" >>, multi |-> << "AAPL", "KO", "GLD" >>]
MCSpellings == [symbol \in {"AAPL", "KO", "GLD", "SLV"} |-> symbol]
MCAsks == {Missing, Invalid, -100, 0, 1, 49, 99, 100, 9950, 9951, 20000, 1999999}
=============================================================================
