--------------------------- MODULE MCInteraction ----------------------------
(* One message, two replicas.                                              *)
EXTENDS Interaction, TLC
CONSTANTS style, c1, c2, x, y, dismiss, u, someone, s1, s2
MCEffect == (1..(3 * MaxMessages)) \X {"answer-style", "confirm-style"}
MCInput == {style, c1, c2}
MCAnswer == {x, y, dismiss}
\* Ask declares two choices; a confirmation is accepted (x) or dismissed.
MCValid == [i \in MCInput |-> IF i = style THEN MCAnswer ELSE {x, dismiss}]
MCConfirmOf == (x :> c1) @@ (y :> c2)
MCPerson == {u, someone}
MCReplica == {s1, s2}
MCSkew == [s \in MCReplica |-> IF s = s1 THEN 0 ELSE 1]
=============================================================================
