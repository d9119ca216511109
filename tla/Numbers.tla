------------------------------- MODULE Numbers -------------------------------
(***************************************************************************)
(* Small arithmetic shared by the modules of calculations.  Prices and     *)
(* times are integers; a value the code computes by a division is kept as  *)
(* a fraction or in a unit fine enough for what is asked of it.            *)
(***************************************************************************)
EXTENDS Integers, Sequences, FiniteSets, FiniteSetsExt, SequencesExt

Abs(x) == IF x < 0 THEN -x ELSE x
Larger(x, y) == IF x > y THEN x ELSE y
Smaller(x, y) == IF x < y THEN x ELSE y

Total(S, f(_)) == MapThenSumSet(f, S)

(* The elements of a set in order, each put in its place: SetToSortSeq of  *)
(* the library enumerates sequences and is of no use beyond a few.         *)
Sorted(S, Before(_, _)) ==
  FoldSet(LAMBDA x, in : SelectSeq(in, LAMBDA y : Before(y, x)) \o <<x>>
                           \o SelectSeq(in, LAMBDA y : ~Before(y, x)), <<>>, S)

Ascending(S) == Sorted(S, LAMBDA x, y : x < y)

(* At most the first, or the last, n elements of a sequence.               *)
FirstOf(n, s) == SubSeq(s, 1, Smaller(n, Len(s)))
LastOf(n, s) == SubSeq(s, Larger(1, Len(s) - n + 1), Len(s))

(* Records in the order of one of their fields, a time or a strike.        *)
InOrder(S, key(_)) == Sorted(S, LAMBDA a, b : key(a) < key(b))

(* Twice the median of a non-empty sequence of numbers.                    *)
TwiceMedian(s) ==
  LET in == SortSeq(s, LAMBDA x, y : x < y)
      n == Len(s)
  IN  IF n % 2 = 1 THEN 2 * in[(n + 1) \div 2] ELSE in[n \div 2] + in[n \div 2 + 1]
=============================================================================
