---------------------------- MODULE MCCatalogue ------------------------------
(* A small instance of Catalogue for TLC.                                  *)
EXTENDS Catalogue

\* Both users may do everything, each with the products of their own.
Permissions == [u \in Users |-> {"product:create", "product:update"}]

\* A category that exists, and one that does not.
Asked == {{"tea"}, {"none"}}

\* Two files, and a batch whose second file is not valid.
SomeBatches == {<<TRUE, TRUE>>, <<TRUE, FALSE>>}
==============================================================================
