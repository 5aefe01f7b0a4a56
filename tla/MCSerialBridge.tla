--------------------------- MODULE MCSerialBridge ---------------------------
(***************************************************************************)
(* Instances of SerialBridge for TLC: how many datagrams in a row are lost. *)
(***************************************************************************)
EXTENDS SerialBridge

\* No loss, the longest run of losses that is counted right, and one more.
AroundAWrap == {0, 255, 256}
FewLost == {0, 1}
=============================================================================
