----------------------------- MODULE MCRegistry -----------------------------
(* Small directories of every composition, with small tables.              *)
EXTENDS SwRegistry, TLC

(* Selects is SelectSeq where nothing occurs twice.                        *)
ASSUME SelectsMeansSelectSeq ==
  \A n, m \in 0..3 :
    \A seq \in {q \in [1..n -> 1..3] : \A i, j \in 1..n : q[i] = q[j] => i = j} :
      \A sub \in [1..m -> 1..3], S \in SUBSET (1..3) :
        Selects(sub, seq, S) <=> sub = SelectSeq(seq, LAMBDA x : x \in S)

CONSTANTS f1, f2, f3, f4, f5

MCFiles == {f1, f2, f3, f4, f5}

MCDirs == [MCFiles -> Kinds]

FileSymmetry == Permutations(MCFiles)

=============================================================================
