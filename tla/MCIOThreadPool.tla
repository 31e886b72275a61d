--------------------------- MODULE MCIOThreadPool ---------------------------
EXTENDS IOThreadPool
=============================================================================
