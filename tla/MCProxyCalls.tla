---------------------------- MODULE MCProxyCalls ----------------------------
EXTENDS ProxyCalls, TLC
=============================================================================
