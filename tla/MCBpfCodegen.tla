--------------------------- MODULE MCBpfCodegen ---------------------------
EXTENDS BpfCodegen, Folds, SequencesExt

(* "(((p and P) or Q) and P) ...": and and or alternate over depth levels, *)
(* the right operands being chains of width primitives.                    *)
Ladder(depth, width, p) ==
    LET Chained(Join(_, _)) == FoldLeft(LAMBDA e, q : Join(e, q), p,
                                        [i \in 1..(width - 1) |-> p])
        Rung(e, i) == IF i % 2 = 1 THEN And(e, Chained(Or)) ELSE Or(e, Chained(And))
    IN  FoldLeft(Rung, p, [i \in 1..depth |-> i])

(* Small jumps, many instructions: 16 times smaller than the least such    *)
(* expression under the limits of 255 and 4096, and so are its limits.     *)
Tall == {Ladder(48, 3, Proto("ip"))}
=============================================================================
