------------------------- MODULE MCUpdateSelection --------------------------
(* Instances of UpdateSelection for TLC. *)
EXTENDS UpdateSelection, TLC

Package(v, b, s, isComplete, isSound) ==
  [version |-> v, build |-> b, sha |-> s, complete |-> isComplete, sound |-> isSound]

(* Version 2 was published, and again with the same name, other bytes and a *)
(* wrong stamp; a later build of it has no digest in repodata.  The later   *)
(* build of version 1 has a higher build number but a lower version.        *)
OneRebuilt == Package(1, 1, 11, TRUE, TRUE)
Two == Package(2, 0, 20, TRUE, TRUE)
TwoAgain == Package(2, 0, 21, TRUE, FALSE)
TwoRebuilt == Package(2, 1, 22, FALSE, TRUE)

MCPackages == {OneRebuilt, Two, TwoAgain, TwoRebuilt}
MCChannels == {{OneRebuilt, Two}, {TwoAgain}, {Two, TwoRebuilt}}
MCFirst == [version |-> 1, build |-> 0]
MCIdentities == {MCFirst} \union {Identity(p) : p \in MCPackages}
=============================================================================
