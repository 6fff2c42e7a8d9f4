---------------------------- MODULE MCMcpLeases -----------------------------
EXTENDS McpLeases
=============================================================================
