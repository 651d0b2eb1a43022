----------------------------- MODULE ProjectRow -----------------------------
(***************************************************************************)
(* What the components of a Project share of its row in the projects       *)
(* table: each command reads whether the Project is archived.              *)
(***************************************************************************)
VARIABLE archived   \* project.status is ARCHIVED
=============================================================================
