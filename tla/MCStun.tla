------------------------------- MODULE MCStun -------------------------------
\* Stun behind every kind of NAT; the .cfg files bound retries and datagrams.
EXTENDS Stun
=============================================================================
