----------------------------- MODULE MCFIFOArray -----------------------------
\* Two readers and two writers on a FIFO of two elements.
EXTENDS FIFOArray
=============================================================================
