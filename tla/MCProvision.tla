---------------------------- MODULE MCProvision ----------------------------
(* Instances of Provision for TLC.  c3 is c1's device created once more; c4 is  *)
(* another user's, whose labels happen to join to the file name of c2: user     *)
(* "a", device "b-c" and user "a-b", device "c".                                *)
EXTENDS Provision, TLC

CONSTANTS alice, bob, c1, c2, c3, c4, phone, laptop, m1, m2

OwnerOf == [c \in Credential |-> IF c = c4 THEN bob ELSE alice]
FileOf == [c \in Credential |-> IF c \in {c1, c3} THEN phone ELSE laptop]
CommandSymmetry == Permutations(Command)
=============================================================================
