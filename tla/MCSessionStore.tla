---------------------------- MODULE MCSessionStore ----------------------------
(***************************************************************************)
(* Two services and a replay, the second service in a room of its own; or  *)
(* two services in one room.                                               *)
(***************************************************************************)
EXTENDS Transcripts

CONSTANTS first, second, third

\* The sessions of the main room are the ones that two programs may share.
MCMaxChunks == [p \in {first, second, third} |-> IF p = third THEN 0 ELSE 1]
MCNoChunks == [p \in {first, second, third} |-> 0]

MCRoomOf == [p \in {first, second, third} |-> IF p = third THEN "annex" ELSE "main"]
=============================================================================
