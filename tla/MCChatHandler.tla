---------------------------- MODULE MCChatHandler ----------------------------
(* ChatHandler with streams of at most MaxLines chunks of text. *)
EXTENDS ChatHandler

CONSTANT MaxLines

MCNext ==
    \/ Arrive \/ ClientGone
    \/ Unavailable \/ Answered
    \/ delivered < MaxLines /\ metered < MaxLines /\ ForwardLine
    \/ WriteFails \/ WriteBlocks \/ BodyEnds \/ StreamAbandoned
    \/ CountTokens \/ Proxy
    \/ Price \/ Deduct \/ RecordDaily \/ RecordMinute \/ Log

MCSpec == Init /\ [][MCNext]_vars /\ Fairness
=============================================================================
