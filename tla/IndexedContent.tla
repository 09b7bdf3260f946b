--------------------------- MODULE IndexedContent ---------------------------
(***************************************************************************)
(* The indexing pipeline with what it makes of a text: DocumentIndexing    *)
(* says when the chunks of a document reach the collection, DocumentChunks *)
(* what they are.                                                          *)
(***************************************************************************)
EXTENDS DocumentIndexing, DocumentChunks

(* As soon as a document can be searched, it can be searched in full,        *)
(* whatever its text, the limit and the overlap: its chunks keep the text    *)
(* (CharacterChunker.chunk and _find_chunk_end).                             *)
SearchableInFull == vectors # {} => ChunksKeepText

(* And whatever the order in which the embedding service answered, its chunks *)
(* are found by their own vectors (_parse_embedding_response).                *)
FoundByOwnVectors == vectors # {} => VectorsBelong

=============================================================================
