------------------------- MODULE MCLegacyThreadPool -------------------------
(***************************************************************************)
(* LegacyThreadPool on small instances.                                    *)
(***************************************************************************)
EXTENDS LegacyThreadPool
=============================================================================
