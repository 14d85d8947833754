------------------------------ MODULE MCMessage -----------------------------
(* Instances of Message for TLC.                                           *)
EXTENDS Message

(* Bytes that could be taken for lengths, no metadata, an empty value, and *)
(* two pairs, one with an empty key.                                       *)
APath == <<1, 0>>
AMethod == <<>>
AnyPayloads == {<<>>, <<5, 5>>}
AnyMetadatas ==
  {NoMetadata, (<<1>> :> <<>>), (<<>> :> <<1>>) @@ (<<0>> :> <<2>>)}

(* The theorems about the stream take this as their condition.             *)
ASSUME FramesFitHere == FramesFit
=============================================================================
