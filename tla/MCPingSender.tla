---------------------------- MODULE MCPingSender ----------------------------
EXTENDS PingSender
=============================================================================
