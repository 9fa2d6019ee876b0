----------------------------- MODULE MCManager -----------------------------
\* An instance of Manager: three runs of an application that waits.
EXTENDS Manager
=============================================================================
