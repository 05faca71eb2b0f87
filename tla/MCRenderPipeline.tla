--------------------------- MODULE MCRenderPipeline ---------------------------
(***************************************************************************)
(* RenderPipeline on a small instance: the second push adds a page and     *)
(* removes another one, the third one brings it back.                      *)
(***************************************************************************)
EXTENDS RenderPipeline

MCPages == <<{1, 2}, {1, 3}, {1, 2}>>
===============================================================================
