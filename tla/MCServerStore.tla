---------------------------- MODULE MCServerStore ----------------------------
\* ServerStore for TLC: three servers, so that one can be behind two bastions,
\* and one session, as sessions do not meet.
EXTENDS ServerStore, TLC

CONSTANTS a, b, c, secret, x1, e1, h1

Symmetry == Permutations(Servers) \cup Permutations(Hosts)
=============================================================================
