------------------------ MODULE MCAgentConversation ------------------------
EXTENDS AgentConversation, TLC
CONSTANTS a, b
Accounts == {a, b}
Symmetric == Permutations(Accounts)
=============================================================================
