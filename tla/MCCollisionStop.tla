--------------------------- MODULE MCCollisionStop ---------------------------
(* CollisionStop for TLC: an arm that two links belong to, and a wrist.     *)
EXTENDS CollisionStop

MCLinkJoint == <<"arm", "arm", "wrist">>

\* The wrist turned in meets the mast when the arm is retracted, which all the
\* links resolve, and the first link of the arm when it is half out, which only
\* that link and the wrist resolve.
MCResolves == [c \in Config |->
    IF c["wrist"] = Reach /\ c["arm"] = 0 THEN <<1, 1, -1>>
    ELSE IF c["wrist"] = Reach /\ c["arm"] = 1 THEN <<1, 0, -1>>
    ELSE <<0, 0, 0>>]
=============================================================================
