------------------------ MODULE MCCollaborationRoom ------------------------
(* Bounds for checking CollaborationRoom with TLC. *)
EXTENDS CollaborationRoom

CONSTANTS a, b

\* A message is for both; it reaches a alone while b is withdrawn or removed.
MCAddressed == {<<b, a>>}
=============================================================================
