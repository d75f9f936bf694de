---------------------------- MODULE MCChannels ----------------------------
(* Instances of Channels: alice is logged in once, bob twice.              *)
EXTENDS Channels

MCUserOf == [t \in Threads |-> IF t = "alice" THEN "a" ELSE "b"]
=============================================================================
