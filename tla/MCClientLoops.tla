---------------------------- MODULE MCClientLoops ----------------------------
(* Small instances of ClientLoops: a server is ready at once, after the first   *)
(* waits, around the end of the default waits and of the longest ones, or never. *)
EXTENDS ClientLoops

Never == 1000000
Readies ==
  {0, 1, 7, 21, 29, 30, 31, 59, 90, 100, 111, 119, 121, 439, 529, 559, 600, 721, 723, 789, 790, 791, 1600, 1681, Never}
==============================================================================
