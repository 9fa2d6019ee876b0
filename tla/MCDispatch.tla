----------------------------- MODULE MCDispatch -----------------------------
\* The instance of Dispatch: a message buffer of two bytes, entries of up to
\* four, two attempts.
EXTENDS Dispatch
=============================================================================
