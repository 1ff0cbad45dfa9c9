------------------------ MODULE MCKnowledgeDownloads ------------------------
(* Model values of the constants of KnowledgeDownloads for TLC. *)
EXTENDS KnowledgeDownloads, TLC

CONSTANTS d1, d2, d3, p1, p2, s1, s2

ProfileEach == s1 :> p1 @@ s2 :> p2
SessionEach == d1 :> s1 @@ d2 :> s1 @@ d3 :> s2
=============================================================================
