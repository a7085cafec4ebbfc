----------------------------- MODULE ModelCatalog -----------------------------
(* The models of the catalog, by id.                                       *)
CONSTANT Models
=============================================================================
