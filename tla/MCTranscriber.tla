---------------------------- MODULE MCTranscriber ----------------------------
(***************************************************************************)
(* Small instances of Transcriber.                                         *)
(***************************************************************************)
EXTENDS Transcriber, TLC

Native == [mode |-> "stream", aligned |-> TRUE]
Chunked == [mode |-> "chunked", aligned |-> TRUE]

\* Families that load as a native stream and time their words.
StreamingOnly == {Native}
\* Both modes, with timed words.
Timed == {Native, Chunked}
\* All but the chunked family whose words are timed.
AllButTimedChunks == Family \ {Chunked}
=============================================================================
