----------------------------- MODULE BilateralForest -----------------------------
(***************************************************************************)
(* algorithms/bwoaif: the online isolation forest.  Records are buffered;  *)
(* a full buffer trains one new tree, which replaces the oldest one.       *)
(*                                                                         *)
(* A tree is known by its age_batch, the number of the batch it was        *)
(* trained on (0: the training data).  Nondeterministic: the verdict.      *)
(***************************************************************************)
EXTENDS Naturals, Sequences

CONSTANTS
  NumTrees,       \* config.num_trees
  BatchSize       \* config.batch_size

ASSUME ForestAssumption ==
  /\ NumTrees \in Nat \ {0}
  /\ BatchSize \in Nat \ {0}

VARIABLES
  trees,          \* age_batch of every tree; empty before fit
  buffered,       \* len(current_batch_data)
  batchIndex      \* current_batch_index

forestVars == <<trees, buffered, batchIndex>>

NoForest(t, b, i) == t = <<>> /\ b = 0 /\ i = 0

ForestInit  == NoForest(trees, buffered, batchIndex)
ForestReset == NoForest(trees', buffered', batchIndex')

(* fit, on training data.                                                  *)
Fit ==
  /\ trees' = [i \in 1 .. NumTrees |-> 0]
  /\ UNCHANGED <<buffered, batchIndex>>

(* argmin of the ages: the first of the oldest trees.                      *)
Oldest(ages) ==
  CHOOSE i \in DOMAIN ages :
    \A j \in DOMAIN ages : ages[i] < ages[j] \/ (ages[i] = ages[j] /\ i <= j)

(* detect, the buffer not full after the record.                           *)
Buffer ==
  /\ buffered + 1 < BatchSize
  /\ buffered' = buffered + 1
  /\ UNCHANGED <<trees, batchIndex>>

(* detect and _update_forest.                                              *)
UpdateForest ==
  /\ buffered + 1 >= BatchSize
  /\ batchIndex' = batchIndex + 1
  /\ trees' = [trees EXCEPT ![Oldest(trees)] = batchIndex + 1]
  /\ buffered' = 0
===============================================================================
