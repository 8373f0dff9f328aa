------------------------- MODULE MCEmbeddingBatcher -------------------------
(* Small instances of EmbeddingBatcher for TLC.                             *)
EXTENDS EmbeddingBatcher

CONSTANTS c1, c2, c3, c4, c5

\* Two calls fill a batch of 3 or leave room; c4 overshoots; c5 is empty.
Sizes == c1 :> 1 @@ c2 :> 2 @@ c3 :> 1 @@ c4 :> 3 @@ c5 :> 0

\* One caller embeds a query.
Kinds == c1 :> "passage" @@ c2 :> "passage" @@ c3 :> "query"
           @@ c4 :> "passage" @@ c5 :> "passage"

\* The index jobs of a worker: passages only.
Passages == [c \in Calls |-> "passage"]
Singles == [c \in Calls |-> 1]
=============================================================================
