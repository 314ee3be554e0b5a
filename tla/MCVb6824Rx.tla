----------------------------- MODULE MCVb6824Rx -----------------------------
(***************************************************************************)
(* Frames of the two protocols: short and long voice frames (the wake word *)
(* is 12 bytes, an OPUS frame about 40), and upgrade packets of three      *)
(* lengths.  The buffer is scaled to hold one long and one short frame.    *)
(***************************************************************************)
EXTENDS Vb6824Rx

Asr    == [cmd |-> 384, size |-> 14]
Record == [cmd |-> 8320, size |-> 42]
Version == [cmd |-> 263, size |-> 10]

Start == [cmd |-> 1, size |-> 1]
Read  == [cmd |-> 2 + 256 * 32, size |-> 9]
Stop  == [cmd |-> 3 + 256 * 1, size |-> 2]

MCVoiceFrames == {Asr, Record, Version}
MCJlFrames    == {Start, Read, Stop}
=============================================================================
