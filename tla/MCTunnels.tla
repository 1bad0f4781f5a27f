------------------------------ MODULE MCTunnels ------------------------------
\* Tunnels for TLC: a SOCKS5 and a remote tunnel, two starts,
\* one connection.
EXTENDS Tunnels

CONSTANTS socks, remote, s1, s2, k1
=============================================================================
