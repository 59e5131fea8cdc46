----------------------------- MODULE MCProtocols -----------------------------
(***************************************************************************)
(* Protocols with conversations of at most MaxMessages messages, texts of  *)
(* no, one and two tokens, and a content of two parts.                     *)
(***************************************************************************)
EXTENDS Protocols, SequencesExt

CONSTANTS gpt4o, claude, MaxMessages

MCEncodingOf ==
    [m \in Models |-> IF m = gpt4o THEN "o200k_base" ELSE "cl100k_base"]

Parts == {<<0>>, <<1>>, <<2, 1>>}

MCConversations == BoundedSeq([role : Roles, parts : Parts], MaxMessages)
=============================================================================
