--------------------------------- MODULE Retain ---------------------------------
(***************************************************************************)
(* The elements of a sequence at some of its indices: what Vec::retain,     *)
(* VecDeque::retain and removeObjectAtIndex: leave.                         *)
(***************************************************************************)
EXTENDS Integers, Sequences

Retain(seq, indices) ==
  LET kept[i \in 0..Len(seq)] ==
        IF i = 0 THEN <<>>
        ELSE IF i \in indices THEN Append(kept[i - 1], seq[i]) ELSE kept[i - 1]
  IN kept[Len(seq)]
=============================================================================
