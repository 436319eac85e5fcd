----------------------------- MODULE MCPosixLog -----------------------------
EXTENDS PosixLog
=============================================================================
