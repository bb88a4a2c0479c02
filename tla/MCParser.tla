----------------------------- MODULE MCParser ------------------------------
EXTENDS Parser
=============================================================================
