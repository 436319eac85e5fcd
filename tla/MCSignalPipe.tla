---------------------------- MODULE MCSignalPipe ----------------------------
EXTENDS SignalPipe
=============================================================================
