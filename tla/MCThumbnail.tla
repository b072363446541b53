----------------------------- MODULE MCThumbnail ----------------------------
(* Instance of Thumbnail for TLC.                                           *)
EXTENDS Thumbnail

CONSTANTS h1, h2, c1, s1, s2
=============================================================================
