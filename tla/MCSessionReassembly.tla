------------------------ MODULE MCSessionReassembly ------------------------
EXTENDS SessionReassembly
=============================================================================
