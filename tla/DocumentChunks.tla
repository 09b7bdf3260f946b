--------------------------- MODULE DocumentChunks ---------------------------
(***************************************************************************)
(* What the indexing pipeline makes of the text of a document: the chunks  *)
(* CharacterChunker cuts it into, and the vectors that the embedding       *)
(* service returns for them.                                               *)
(*                                                                         *)
(* " ".join(text.split()) leaves words with one space between them.  Which *)
(* words is all the same to the chunker: a text is its length and where    *)
(* its spaces are, positions counted from 0.  A chunk is the positions it  *)
(* takes from the text, a vector is the number of the text it embeds.      *)
(***************************************************************************)
EXTENDS Integers, FiniteSetsExt, SequencesExt

CONSTANTS
  MaxLength,  \* of the texts, and of their chunks
  MaxBatch    \* of the texts of one embedding request

ASSUME BoundsAssumption == MaxLength \in Nat /\ MaxBatch \in Nat

-----------------------------------------------------------------------------
(* The chunker *)

Normalized(text) ==
  \A p \in text.spaces :
    /\ p \notin {0, text.length - 1}
    /\ p + 1 \notin text.spaces

Texts ==
  UNION {{text \in [length : {n}, spaces : SUBSET (0..n - 1)] : Normalized(text)} :
           n \in 0..MaxLength}

\* The settings __init__ lets pass.
Settings == {s \in [max : 1..MaxLength, overlap : 0..MaxLength] : s.overlap < s.max}

\* A space at the start of the window is not a place to cut: rfind gives 0.
FindChunkEnd(s, text, start) ==
  LET hardEnd == Min({start + s.max, text.length})
      cuts    == text.spaces \cap (start + 1 .. hardEnd - 1)
  IN  IF hardEnd = text.length \/ cuts = {} THEN hardEnd ELSE Max(cuts)

\* Mutant of NextStart: the space a text was cut at counts as read.
NextStartPastSpace(s, start, end) == Max({end + 1 - s.overlap, start + 1})

NextStart(s, start, end) == Max({end - s.overlap, start + 1})

Strip(text, P) ==
  LET letters == P \ text.spaces
  IN  IF letters = {} THEN {} ELSE Min(letters) .. Max(letters)

Chunks(s, text) ==
  LET from[start \in 0..text.length] ==
        LET end   == FindChunkEnd(s, text, start)
            chunk == Strip(text, start .. end - 1)
        IN  (IF chunk = {} THEN <<>> ELSE <<chunk>>)
              \o (IF end >= text.length THEN <<>> ELSE from[NextStart(s, start, end)])
  IN  IF text.length = 0 THEN <<>> ELSE from[0]

-----------------------------------------------------------------------------
(* The embedding client *)

Refused == <<>>   \* EmbeddingProviderError: no vectors

\* An item says which text it is for; -1 stands for no number, or for a
\* vector of the wrong size, or not of numbers.
Items(n) == [index : -1..n, embedding : -1..n - 1]

\* Mutant of ParseEmbeddingResponse: vectors are taken in the order they come.
ParseInOrder(data, n) ==
  IF \/ Len(data) # n
     \/ \E k \in DOMAIN data :
          data[k].index \notin 0..n - 1 \/ data[k].embedding = -1
  THEN Refused
  ELSE [i \in 1..n |-> data[i].embedding]

\* vectors[index] is set by the one item that has this index.
ParseEmbeddingResponse(data, n) ==
  IF \/ Len(data) # n
     \/ \E k \in DOMAIN data :
          \/ data[k].index \notin 0..n - 1
          \/ \E j \in 1..k - 1 : data[j].index = data[k].index
          \/ data[k].embedding = -1
  THEN Refused
  ELSE [i \in 1..n |-> LET k == CHOOSE k \in DOMAIN data : data[k].index = i - 1
                       IN  data[k].embedding]

\* BGEEmbeddingClient; DeterministicEmbedder goes through the texts in order.
EmbedTexts(n, data) == IF n = 0 THEN <<>> ELSE ParseEmbeddingResponse(data, n)

-----------------------------------------------------------------------------
(* What the pipeline relies on *)

WordEnd(text, p) == Min({q \in p .. text.length : q \in text.spaces \cup {text.length}})

\* The words of a text, each as its positions.
WordsOf(text) ==
  {p .. WordEnd(text, p) - 1 : p \in {q \in 0..text.length - 1 :
     q \notin text.spaces /\ q - 1 \in text.spaces \cup {-1}}}

Inside(P, chunks) == \E k \in DOMAIN chunks : P \subseteq chunks[k]

NothingSkipped(text, chunks) ==
  \A p \in (0..text.length - 1) \ text.spaces : Inside({p}, chunks)

InOrder(chunks) ==
  \A k \in 1..Len(chunks) - 1 :
    Min(chunks[k]) <= Min(chunks[k + 1]) /\ Max(chunks[k]) <= Max(chunks[k + 1])

WordsWhole(s, text, chunks) ==
  \A W \in WordsOf(text) : Cardinality(W) < s.max => Inside(W, chunks)

NeighboursTogether(s, text, chunks) ==
  (\A W \in WordsOf(text) : Cardinality(W) < s.max - s.overlap) =>
    \A p \in (0..text.length - 1) \ text.spaces, d \in 1..s.overlap :
      p + d \in (0..text.length - 1) \ text.spaces => Inside(p .. p + d, chunks)

(* However an overlap and the places to cut fall: no character of a text is  *)
(* skipped, no chunk is longer than the limit, chunks come in the order of   *)
(* the text, a word shorter than the limit is whole in some chunk, and when  *)
(* words are short, characters no further apart than the overlap share one.  *)
(* (CharacterChunker.chunk and _find_chunk_end.)                             *)
ChunksKeepText ==
  \A s \in Settings, text \in Texts :
    LET chunks == Chunks(s, text)
    IN  /\ NothingSkipped(text, chunks)
        /\ \A k \in DOMAIN chunks : Cardinality(chunks[k]) <= s.max
        /\ InOrder(chunks)
        /\ WordsWhole(s, text, chunks)
        /\ NeighboursTogether(s, text, chunks)

(* Whatever the order of an embedding response: if its items name their      *)
(* texts truly and it is accepted, every text has its own vector, and it is  *)
(* accepted when no text is missing.  (_parse_embedding_response: a text     *)
(* stored with the vector of another would be found by the wrong questions.) *)
VectorsBelong ==
  \A n \in 1..MaxBatch : \A data \in BoundedSeq(Items(n), n + 1) :
    LET truly    == \A k \in DOMAIN data : data[k].embedding = data[k].index
        complete == \A i \in 0..n - 1 : \E k \in DOMAIN data : data[k].index = i
    IN  truly => EmbedTexts(n, data) = IF complete /\ Len(data) = n
                                       THEN [i \in 1..n |-> i - 1]
                                       ELSE Refused

=============================================================================
