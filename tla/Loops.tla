-------------------------------- MODULE Loops --------------------------------
(***************************************************************************)
(* Sequential loops of pure code, and tables.                              *)
(***************************************************************************)
EXTENDS Integers, Sequences

LOCAL INSTANCE TLC

\* op(x).  The set of one element makes TLC evaluate x first.
After(op(_), x) == CHOOSE y \in {op(p) : p \in {x}} : TRUE

\* start after step(., seq[1]), step(., seq[2]), ...: SequencesExt's FoldLeft,
\* halved at every level to keep TLC's recursion flat.
Through(step(_, _), start, seq) ==
    LET RECURSIVE Part(_, _, _)
        Part(x, i, j) ==
            IF i > j THEN x
            ELSE IF i = j THEN step(x, seq[i])
            ELSE LET m == (i + j) \div 2
                 IN  CHOOSE y \in {Part(p, m + 1, j) : p \in {Part(x, i, m)}} : TRUE
    IN  After(LAMBDA x : Part(x, 1, Len(seq)), start)

\* The same with the number of the round, from 1 to n.
Rounds(step(_, _), start, n) == Through(step, start, [k \in 1..n |-> k])

\* The function f itself, which TLC evaluates once and for all arguments.
Table(f) == f @@ <<>>
=============================================================================
