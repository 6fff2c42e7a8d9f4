----------------------------- MODULE MCToolPool -----------------------------
EXTENDS ToolPool
=============================================================================
