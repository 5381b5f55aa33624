----------------------------- MODULE MCCrossChain -----------------------------
EXTENDS CrossChain

=============================================================================
