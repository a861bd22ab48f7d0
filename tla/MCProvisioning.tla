---------------------------- MODULE MCProvisioning ----------------------------
EXTENDS Provisioning
CONSTANTS s1, s2, q1, q2
=============================================================================
