---- MODULE MCExchange ----
\* A request of as many fragments as there are sequence numbers, so that the
\* sequence wraps at its end, and a response of more.
EXTENDS Exchange
====
