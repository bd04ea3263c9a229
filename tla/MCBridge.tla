------------------------------ MODULE MCBridge ------------------------------
(***************************************************************************)
(* Bridge on small instances.                                              *)
(***************************************************************************)
EXTENDS Bridge, TLC
CONSTANTS hub, s1, s2, alice, bob

\* Every link, and one spoke misconfigured with another spoke as its peer.
LinksAndStray == {<<hub, s1>>, <<s1, hub>>, <<hub, s2>>, <<s2, hub>>, <<s1, s2>>}
OneLink == {<<hub, s1>>, <<s1, hub>>}
=============================================================================
