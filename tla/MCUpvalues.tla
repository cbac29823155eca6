----------------------------- MODULE MCUpvalues -----------------------------
EXTENDS Upvalues
=============================================================================
