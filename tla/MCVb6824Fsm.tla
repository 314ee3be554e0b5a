---------------------------- MODULE MCVb6824Fsm ----------------------------
(***************************************************************************)
(* Voice frames of up to three bytes and upgrade packets of up to two:     *)
(* silence (zeros, which satisfy a CRC that starts from 0), a payload that *)
(* looks like the other protocol's header, one that looks like its own.    *)
(***************************************************************************)
EXTENDS Vb6824Fsm

MCVoiceFrames == { [cmd |-> 8320, data |-> <<0, 0, 0>>],
                   [cmd |-> 384,  data |-> <<170, 85>>] }
MCJlPackets   == { <<1>>, <<3, 0>> }

(* Zero, the header bytes, and the lengths at and above the bounds. *)
MCNoise       == {0, 3, 4, 85, 170}

(* The published check value of CRC16-CCITT (XModem), the CRC that          *)
(* jl_ota_protocol.pdf p. 6 names: that of the digits 1 to 9 is 0x31C3.     *)
ASSUME CrcIsXModem == crc16_ccitt([i \in 1..9 |-> 48 + i]) = 12739
=============================================================================
