---------------------------- MODULE MCHandshake ----------------------------
EXTENDS Handshake

=============================================================================
