---------------------------- MODULE MCProgressive ----------------------------
(* Progressive with the draft preset and changes of single fields of it.   *)
EXTENDS Progressive

Draft == PresetConfig("draft")
MCConfigs ==
  {Draft, [Draft EXCEPT !.numRays = 3, !.perBatch = 0], [Draft EXCEPT !.perBatch = -1],
   [Draft EXCEPT !.numRays = 0]}
Shoebox == [valid |-> TRUE, sources |-> 1, receivers |-> 1]
MCScenes == {Shoebox, [Shoebox EXCEPT !.sources = 2], [Shoebox EXCEPT !.valid = FALSE]}
=============================================================================
