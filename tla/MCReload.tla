------------------------------ MODULE MCReload ------------------------------
(* TemplateReload for TLC.  Bounds: two clusters (one may be created late and *)
(* precede the other), a template of two steps, a notification buffer of one. *)
EXTENDS TemplateReload
=============================================================================
