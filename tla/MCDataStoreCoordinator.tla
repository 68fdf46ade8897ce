----------------------- MODULE MCDataStoreCoordinator -----------------------
(* Three clients of the coordinator, two of which present the same name.   *)
EXTENDS DataStoreCoordinator, TLC

CONSTANTS a, b, c, writer, indexer

MCOwnerOf == (a :> writer) @@ (b :> writer) @@ (c :> indexer)
=============================================================================
