------------------------------ MODULE MCStream ------------------------------
\* Stream with its bounds given by the .cfg files.
EXTENDS Stream
=============================================================================
