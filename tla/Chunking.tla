------------------------------ MODULE Chunking ------------------------------
(***************************************************************************)
(* How a document is cut into chunks (services/api, knowledge.py).  A text *)
(* is a sequence of paragraphs, a paragraph the lengths of its words: what *)
(* is in a word is data, where it ends is what the cutting goes by.        *)
(***************************************************************************)
EXTENDS SequencesExt

CONSTANT MAX_CHUNK_CHARS

ASSUME ChunkingAssumption == MAX_CHUNK_CHARS \in Nat \ {0}

\* Letters, and characters with the spaces between words.
Letters(words) == SumFunction(words)
TextLength(words) == IF words = <<>> THEN 0 ELSE Letters(words) + Len(words) - 1

\* How many words end before the last space of the first MAX_CHUNK_CHARS.
WordsThatFit(words) ==
    LET fit == {k \in 1 .. Len(words) - 1 :
                    TextLength(SubSeq(words, 1, k)) < MAX_CHUNK_CHARS}
    IN  IF fit = {} THEN 0 ELSE Max(fit)

\* What is left of a word that is longer than a chunk, before the other words.
LeftOf(word, others) ==
    IF word = MAX_CHUNK_CHARS THEN others ELSE <<word - MAX_CHUNK_CHARS>> \o others

\* One paragraph: whole, or cut at spaces, or through words without any.
Pieces[words \in Seq(Nat)] ==
    LET k == WordsThatFit(words) IN
    IF words = <<>> THEN <<>>
    ELSE IF TextLength(words) <= MAX_CHUNK_CHARS THEN <<words>>
    ELSE IF k > 0
    THEN <<SubSeq(words, 1, k)>> \o Pieces[SubSeq(words, k + 1, Len(words))]
    ELSE <<<<MAX_CHUNK_CHARS>>>> \o Pieces[LeftOf(Head(words), Tail(words))]

\* Paragraphs first, then length.  A body that is not blank has a chunk.
chunk_text(body) == FlattenSeq([i \in DOMAIN body |-> Pieces[body[i]]])

-----------------------------------------------------------------------------
(***************************************************************************)
(* Nothing is lost or made up by the cutting: no chunk is empty or longer  *)
(* than a chunk may be, the chunks hold as many letters as the body, and,  *)
(* when no word is longer than a chunk, its words in their order.          *)
(* (chunk_text: "Script-agnostic chunking: paragraphs first, then length") *)
(***************************************************************************)
CutsCleanly(body) ==
    LET chunks == chunk_text(body)
        words == FlattenSeq(body)
    IN  /\ \A i \in DOMAIN chunks :
              chunks[i] # <<>> /\ TextLength(chunks[i]) <= MAX_CHUNK_CHARS
        /\ Letters(FlattenSeq(chunks)) = Letters(words)
        /\ (\A j \in DOMAIN words : words[j] <= MAX_CHUNK_CHARS) =>
              FlattenSeq(chunks) = words

=============================================================================
