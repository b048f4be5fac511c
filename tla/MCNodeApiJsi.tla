---------------------------- MODULE MCNodeApiJsi ----------------------------
(* NodeApiJsi for TLC, with the conversions of numbers on small widths and   *)
(* those of texts.                                                           *)
EXTENDS NodeApiJsi, Codecs

(* The state of the runtime is well formed, and the conversions of numbers *)
(* and texts, on which it has no influence, agree with their reference     *)
(* definitions for every input of the width: bigintToString, toArrayIndex, *)
(* and the frames, the handshake and the UTF-8 of the inspector.           *)
ConversionsHold == TypeOK /\ ConversionsAreExact /\ CodecsAreExact

(* toString of a BigInt "converted to a String in base radix" (jsi.h) is   *)
(* the number, for one word and for two.                                   *)
BigIntTextHolds == TypeOK /\ OneWordTextIsExact /\ TwoWordTextIsExact
=============================================================================
