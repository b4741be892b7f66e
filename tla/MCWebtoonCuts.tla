--------------------------- MODULE MCWebtoonCuts ---------------------------
(* TLC instances of WebtoonCuts. *)
EXTENDS WebtoonCuts

CONSTANTS u1, q1, q2, a1, a2, path1, path2

(* A ZIP of two images of one name, with one and two cuts; one without images. *)
Sources == { <<<<path1>>, <<path1, path2>>>>, <<>> }
=============================================================================
