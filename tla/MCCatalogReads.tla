--------------------------- MODULE MCCatalogReads ---------------------------
(* CatalogReads with interchangeable documents and versions.               *)
EXTENDS CatalogReads, TLC

Symmetry == Permutations(Docs) \cup Permutations(Ids)

(* Walks and selection requests do not touch each other's state: it is enough *)
(* to look at either beside the service.                                   *)
OneKindAtWork ==
  (\A w \in Walkers : wpc[w] = "idle") \/ (\A s \in Selectors : spc[s] = "idle")
=============================================================================
