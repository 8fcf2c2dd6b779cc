-------------------------- MODULE MCPairedSession --------------------------
EXTENDS PairedSession
=============================================================================
