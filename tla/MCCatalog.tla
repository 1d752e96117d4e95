------------------------------ MODULE MCCatalog -----------------------------
(***************************************************************************)
(* Values of the constants of Catalog for TLC.                             *)
(***************************************************************************)
EXTENDS Catalog

CONSTANTS c1, c2, c3, w1, mug, lamp, mu

MCCreators == {c1, c2, c3}
MCWalkers == {w1}
MCIds == 1 .. 4
MCNames == {mug, lamp}
MCInput(name, price) == [name |-> name, price |-> price]
MCInputs ==
  { MCInput(mug, "good"), MCInput(lamp, "good"), MCInput(Blank, "good"),
    MCInput(mug, "absent"), MCInput(mug, "bad") }
MCQueries == {mu}
MCFinds == [q \in MCQueries |-> {mug}]

\* Pages of DefaultPage = 2, of one and of MaxPage = 3 products; the gateway
\* makes one of 0 and DefaultPage of no limit.
MCLimits == {0, 1, 5}
=============================================================================
