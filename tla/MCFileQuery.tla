------------------------------ MODULE MCFileQuery ------------------------------
(***************************************************************************)
(* Instances of FileQuery: directories of payloads by time, and of         *)
(* payloads by run with one that is valid for all runs.                    *)
(***************************************************************************)
EXTENDS FileQuery, FiniteSets

Order == <<"ofl", "simu">>

ByTime ==
  [fl : {"ofl"}, ct : {1, 2}, bt : {1, 2}, et : {0, 3}, dt : {0, 2}, run : {0}, seq : {0}]
  \union [fl : {"simu"}, ct : {1}, bt : {2}, et : {0}, dt : {0}, run : {0}, seq : {0}]

ByRun ==
  [fl : {"ofl"}, ct : {1, 2}, bt : {0}, et : {0}, dt : {0}, run : {1, 2}, seq : {0, 1}]
  \union [fl : {"ofl"}, ct : {1}, bt : {1}, et : {0}, dt : {0}, run : {0}, seq : {0}]

Small(S, n) == {d \in SUBSET S : Cardinality(d) <= n}
DirectoriesOf == Small(ByTime, 3) \union Small(ByRun, 3)
ArrivalsOf == [fl : {"ofl"}, ct : {2}, bt : {2}, et : {0}, dt : {0}, run : {0, 1}, seq : {0}]
AsksOf ==
  [evt : {1, 3}, run : {0}, seq : {0}, mt : {0, 1, 3}]
  \union [evt : {0, 2}, run : {1}, seq : {0}, mt : {0, 1}]
================================================================================
