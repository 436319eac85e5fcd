---------------------------- MODULE MCSemReaders ----------------------------
EXTENDS SemReaders
=============================================================================
