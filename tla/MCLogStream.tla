---------------------------- MODULE MCLogStream ----------------------------
\* Log streams for TLC: three of them, and output with a beginning that nothing
\* continues, a character of two bytes and one that is cut off.
EXTENDS LogStream, TLC

CONSTANTS s1, s2, s3

Said == {<<<<"lead3">>, <<"lead2", "cont">>, <<"lead3">>>>}
MCOutputs == [s \in Streams |-> IF s = s1 THEN Said ELSE {<< >>}]

Grants(readable, root, passwordless, secret) ==
  [readable |-> readable, root |-> root, passwordless |-> passwordless, secret |-> secret, right |-> secret]

MCLogHosts ==
  {Grants(TRUE, FALSE, FALSE, FALSE), Grants(FALSE, FALSE, TRUE, FALSE),
   Grants(FALSE, FALSE, FALSE, TRUE), Grants(FALSE, FALSE, FALSE, FALSE)}
Followers == Permutations({s2, s3})
=============================================================================
