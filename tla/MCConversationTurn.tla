------------------------- MODULE MCConversationTurn -------------------------
(* TLC instances of ConversationTurn: two turns of one conversation.         *)
EXTENDS ConversationTurn

CONSTANTS t1, t2, chat

TwoTurns == {t1, t2}
OneChat == {chat}
TwoOnChat == [t \in TwoTurns |-> chat]
=============================================================================
