----------------------------- MODULE MCHostKeys -----------------------------
\* Host keys for TLC: a server on a port of its own, alone or behind a
\* bastion, a bastion behind itself (two profiles, one host), and the line
\* the host of the server has without the port; and two servers apart.
EXTENDS HostKeys, TLC

CONSTANTS c1, c2, target, plain, bastion, k1, k2

MCPlainOf == [a \in {target, plain, bastion} |-> IF a = target THEN plain ELSE a]
MCChains == {<<target>>, <<target, bastion>>, <<bastion, bastion>>}
MCApart == {<<target>>, <<bastion>>}
MCFirstKeys == {[a \in Addresses |-> k1]}
MCFirstLines == {Line(target, k2), Line(plain, k2)}
Commanders == Permutations({c1, c2})
=============================================================================
