---------------------------- MODULE MCMergeRounds ----------------------------
(***************************************************************************)
(* A contact with one field of each strategy.                               *)
(***************************************************************************)
EXTENDS MergeRounds

CONSTANTS Ann, Anna, Work, Home, Uid

MCFields == {"full_name", "emails", "uid", "raw"}

MCStrategy == [f \in MCFields |-> CASE f = "full_name" -> "scalar"
                                    [] f = "emails" -> "set"
                                    [] f = "uid" -> "immutable"
                                    [] f = "raw" -> "ignore"]

MCFieldValues == [f \in MCFields |->
                    CASE f = "full_name" -> {None, Ann, Anna}
                      [] f = "emails" -> {None, {}, {Work}, {Home}, {Work, Home}}
                      [] f = "uid" -> {None, Uid}
                      [] f = "raw" -> {None}]

MCTimes == {None, 1, 2}
==============================================================================
