------------------------------ MODULE MCStreams ------------------------------
EXTENDS Streaming
=============================================================================
