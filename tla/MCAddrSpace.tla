---------------------------- MODULE MCAddrSpace ----------------------------
EXTENDS AddrSpace
=============================================================================
