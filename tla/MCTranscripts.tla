---------------------------- MODULE MCTranscripts ---------------------------
(* A small instance of Transcripts: one claude transcript, reads that fail. *)
EXTENDS Transcripts, TLC
CONSTANTS a
OnePath == <<a>>
Claude == [p \in PathSet |-> "claude"]
Reading == {"unreadable"}
=============================================================================
