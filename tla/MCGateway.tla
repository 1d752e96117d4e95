----------------------------- MODULE MCGateway ------------------------------
(***************************************************************************)
(* Values of the constants of Gateway for TLC.                             *)
(***************************************************************************)
EXTENDS Gateway, TLC

CONSTANTS c1, d1

MCOneCall == {c1}
MCBoth == {c1, d1}
MCDirect == {d1}
MCGateway == {"gateway"}
MCApi == {"api"}
MCNone == {}

In(path, method, valid, slow) ==
  [path |-> path, method |-> method, valid |-> valid, slow |-> slow]

\* A write that may not be found, one that may only fail, with a body that is
\* there or slow, a read that may be refused by its handler, and requests that
\* lead to no RPC.
MCInputs ==
  { In("items", "DELETE", TRUE, FALSE), In("item", "PUT", TRUE, FALSE),
    In("item", "PUT", TRUE, TRUE), In("product", "GET", TRUE, FALSE),
    In("item", "PUT", FALSE, FALSE), In("cart", "PUT", TRUE, FALSE),
    In("other", "GET", TRUE, FALSE) }

MCOneInput == { In("items", "DELETE", TRUE, FALSE) }
MCWrites == { In("item", "PUT", TRUE, FALSE), In("item", "PUT", TRUE, TRUE) }
=============================================================================
