----------------------------- MODULE MCPtyHost -----------------------------
EXTENDS PtyHost
=============================================================================
