---------------------------- MODULE MCFrameSplit ----------------------------
(* Three events and every way to cut their text into reads.                  *)
EXTENDS FrameSplit
=============================================================================
