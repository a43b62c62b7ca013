------------------------------ MODULE MCProtocol ------------------------------
EXTENDS Protocol

MCMisread == {-1, 0, 5}
=============================================================================
