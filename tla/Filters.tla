-------------------------------- MODULE Filters --------------------------------
(***************************************************************************)
(* The elements of a sequence that pass a test, in their order: SelectSeq, *)
(* as a recursive function that proofs can unfold (the proof system knows  *)
(* no definition of SelectSeq).                                            *)
(***************************************************************************)
EXTENDS Naturals, Sequences, SequencesExt

(* The elements of s that are in K.                                        *)
Only(s, K) ==
  LET kept[n \in 0 .. Len(s)] ==
        IF n = 0 THEN <<>>
        ELSE IF s[n] \in K THEN Append(kept[n - 1], s[n])
        ELSE kept[n - 1]
  IN  kept[Len(s)]

(* The elements of s that pass Test.                                       *)
Select(s, Test(_)) == Only(s, {x \in Range(s) : Test(x)})
=============================================================================
