------------------------------- MODULE Search -------------------------------
(***************************************************************************)
(* QdrantService.hybrid_search beside the ingestion runs.                  *)
(*                                                                         *)
(* A search is one request to Qdrant, filtered by the user alone; which of *)
(* the user's points rank best is up to the vectors.  Docs are the         *)
(* documents of one user.                                                  *)
(***************************************************************************)
EXTENDS IngestionPipeline

CONSTANT Limit   \* limit

VARIABLE hits   \* what the last search returned: <<generation, chunk index>>

searchVars == <<vars, hits>>

Visible == UNION {{g} \X store[g] : g \in {h \in Gens : doc[h] \in Docs}}

Search ==
    /\ \E best \in SUBSET Visible : Cardinality(best) <= Limit /\ hits' = best
    /\ UNCHANGED vars

SearchNext == (Next /\ UNCHANGED hits) \/ Search

SearchSpec == Init /\ hits = {} /\ [][SearchNext]_searchVars

-----------------------------------------------------------------------------

(* "Readers never see a half-written document" (ingestion_pipeline.py:15):     *)
(* whatever a search returns is of a version that is complete at that moment.  *)
ReadersSeeWholeVersions ==
    [][hits' # hits => \A p \in hits' : Complete(p[1])]_searchVars
=============================================================================
