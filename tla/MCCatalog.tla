----------------------------- MODULE MCCatalog -----------------------------
(* An instance of Catalog for TLC.                                         *)
EXTENDS Catalog, TLC

CONSTANTS X, Y, b1, b2

\* One product in category Y, carried by b1; b2 is yet to be opened.
MCInitCategory == <<Y>>

Create(c) == [op |-> "create", category |-> c]
OpenOne == [op |-> "open"]
Update(p, fields, c, b, details) ==
  [op |-> "update", product |-> p, fields |-> fields, category |-> c,
   branch |-> b, details |-> details]

\* Two calls that may both make X, a product changed with and without a word
\* about its category, a branch it has no row for, and a product to come.
MCCalls ==
  { Create(X), OpenOne,
    Update(1, {"name"}, Unsaid, b1, {"price"}),
    Update(1, {"description"}, X, NoBranch, {}),
    Update(1, {"imageUrl"}, NoCategory, b2, {"stock"}),
    Update(2, {}, Unsaid, b1, {"isAvailable"}) }
=============================================================================
