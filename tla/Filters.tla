-------------------------------- MODULE Filters --------------------------------
(* Array.prototype.filter as the reducers and the synchronisations use it, on *)
(* the elements of a set: a recursive function, which can be reasoned about.  *)
EXTENDS SequencesExt

(* What a sequence holds of a set, in its order. *)
Among(seq, S) ==
    LET kept[i \in 0..Len(seq)] ==
          IF i = 0 THEN <<>>
          ELSE IF seq[i] \in S THEN Append(kept[i - 1], seq[i]) ELSE kept[i - 1]
    IN kept[Len(seq)]

Without(seq, S) == Among(seq, ToSet(seq) \ S)

=================================================================================
