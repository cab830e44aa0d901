---------------------------- MODULE MCRecogniser ----------------------------
(* Recogniser with transcripts of up to three words that agree, differ at  *)
(* the front and differ at the back.                                       *)
EXTENDS Recogniser

MCTranscripts == {<<>>, <<"a">>, <<"a", "b">>, <<"b", "b">>, <<"a", "b", "a">>}
=============================================================================
