---------------------------- MODULE MCDeployment ----------------------------
EXTENDS Deployment, TLC

\* r2 and r3 have one version; r3 comes with a new signing key. r4 was packed
\* with a public key that is not its own.
Versions == [r \in Release |-> IF r = Preinstalled THEN 1 ELSE 2]
CONSTANTS r1, r2, r3, r4, old, new
Signed == r1 :> old @@ r2 :> old @@ r3 :> new @@ r4 :> new
Packed == r1 :> old @@ r2 :> old @@ r3 :> new @@ r4 :> old
=============================================================================
