------------------------ MODULE MCCollectionPipeline ------------------------
(* Instances of CollectionPipeline for TLC. *)
EXTENDS CollectionPipeline, TLC

CONSTANTS i1, i2, i3, i4

\* One item stays, one is revised and two are added, of which one lies beyond max_entries.
RevisedFeed == <<i1 :> 1 @@ i2 :> 1 @@ i3 :> 0 @@ i4 :> 0, i1 :> 1 @@ i2 :> 2 @@ i3 :> 1 @@ i4 :> 1>>
RevisedWindow == <<{i1, i2, i3, i4}, {i1, i2, i3}>>

\* An item is added, then the other one is revised; all entries are within max_entries.
GrowingFeed == <<i1 :> 1 @@ i2 :> 0, i1 :> 1 @@ i2 :> 1, i1 :> 2 @@ i2 :> 1>>
GrowingWindow == <<{i1, i2}, {i1, i2}, {i1, i2}>>
=============================================================================
