--------------------------- MODULE MCFlushHandler ---------------------------
EXTENDS FlushHandler
=============================================================================
