-------------------------- MODULE MCReflectionsSync --------------------------
(* An instance of ReflectionsSync for TLC. *)
EXTENDS ReflectionsSync, TLC

CONSTANTS a, b
=============================================================================
