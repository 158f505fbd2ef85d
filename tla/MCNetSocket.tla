---------------------------- MODULE MCNetSocket ----------------------------
\* NetSocket with two packets, enough for one to wait while the other is read.
EXTENDS NetSocket
=============================================================================
