------------------------- MODULE MCAssetsManagerEx --------------------------
(***************************************************************************)
(* AssetsManagerEx on small instances.                                     *)
(***************************************************************************)
EXTENDS AssetsManagerEx
=============================================================================
