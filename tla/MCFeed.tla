------------------------------- MODULE MCFeed -------------------------------
(* Feed with a single author.                                              *)
EXTENDS Feed

CONSTANT a1

MCAuthor == [b \in Blogs |-> a1]
=============================================================================
