---------------------------- MODULE MCBundleInstall ----------------------------
(* Two executables: the first has a whole embedded bundle, the second an    *)
(* incomplete one, and their locks agree on one package.                    *)
EXTENDS BundleInstall

CONSTANTS p1, p2, c1, c2, c3

MCLocked == <<<<c1, c2>>, <<c1, c3>>>>
MCEmbedded == <<<<c1, c2>>, <<c1, Absent>>>>
MCConfigured == {<<c1, c2>>, <<c3, Absent>>}
=============================================================================
