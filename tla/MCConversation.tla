--------------------------- MODULE MCConversation ---------------------------
EXTENDS Conversation
CONSTANTS a, b, n1, n2
MCActor == {a, b}
MCOneActor == {a}
MCNotifier == {n1, n2}
MCOneNotifier == {n1}
=============================================================================
