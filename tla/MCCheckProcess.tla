--------------------------- MODULE MCCheckProcess ---------------------------
(***************************************************************************)
(* A small instance of a check that runs a program: two items to cover.    *)
(***************************************************************************)
EXTENDS CheckProcessProperties

CONSTANTS i1, i2

MCItems == {i1, i2}

\* Up to a renaming of the items these are all there are.
MCInitial == {{}, {i1}, {i1, i2}}
=============================================================================
