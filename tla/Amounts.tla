------------------------------ MODULE Amounts ------------------------------
(***************************************************************************)
(* Amounts of money are int64 (minor units of a currency) everywhere in    *)
(* the program, and Go's int64 arithmetic wraps around.                    *)
(***************************************************************************)
EXTENDS Integers, SequencesExt

CONSTANT Half   \* 2^63: an int64 is in -Half .. Half - 1

ASSUME HalfAssumption == Half \in Nat \ {0}

Int64 == -Half .. Half - 1

Wrap(x) == ((x + Half) % (2 * Half)) - Half

\* A loop that adds up amounts wraps at each of them.
WrapSum(amounts) == FoldLeft(LAMBDA sum, amount : Wrap(sum + amount), 0, amounts)
=============================================================================
