---------------------------- MODULE MCDataPreparation ----------------------------
(* A TLC instance of DataPreparation.  A training file has one or two      *)
(* chunks: with a duplicate inside, with a row of another chunk again, or  *)
(* without a clean row; there may be a second training file, and the       *)
(* validation split may be missing.                                        *)
EXTENDS DataPreparation

CONSTANTS a, b, c

\* Two rows that differ in nothing but their label or address.
MCFeature == [r \in {a, b, c} |-> IF r = b THEN a ELSE r]

MCChunks == {<<a, b, a>>, <<Invalid, a>>, <<Invalid>>}

MCFiles == {<<k>> : k \in MCChunks} \cup {<<k, l>> : k, l \in MCChunks}

MCTrain == {<<f>> : f \in MCFiles} \cup {<<f, <<k>>>> : f \in MCFiles, k \in MCChunks}

MCDataSets ==
  { [train |-> t, validation |-> v, test |-> <<<<<<c, c>>, <<a>>>>>>] :
      t \in MCTrain, v \in {<<>>, <<<<<<Invalid>>, <<b>>>>, <<<<b>>>>>>} }
===============================================================================
