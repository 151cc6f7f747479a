----------------------------- MODULE MCRecipeJobs -----------------------------
(* RecipeJobs on small instances. *)
EXTENDS RecipeJobs, TLC

Symmetric == Permutations(Procs)
=============================================================================
