-------------------------- MODULE MCPhraseChunker --------------------------
(***************************************************************************)
(* PhraseChunker with a plain word, the same word at the end of a clause,  *)
(* and a conjunction.                                                      *)
(***************************************************************************)
EXTENDS PhraseChunker

MCTokens ==
  {[word |-> "talk", closes |-> FALSE], [word |-> "talk", closes |-> TRUE],
   [word |-> "but", closes |-> FALSE]}
MCConjunctions == {"but"}
=============================================================================
