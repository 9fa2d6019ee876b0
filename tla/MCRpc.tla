------------------------------- MODULE MCRpc -------------------------------
\* Instances of Rpc: a served path, the one of the end request, and one the
\* device has no endpoint for.
EXTENDS Rpc

CONSTANTS ver, ctrl, cred
=============================================================================
