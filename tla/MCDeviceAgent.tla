--------------------------- MODULE MCDeviceAgent ---------------------------
(***************************************************************************)
(* DeviceAgent on a small instance: frames that flush one command buffer,  *)
(* as the pipelines of the engine do, and frames that flush several, so    *)
(* that jobs run in parallel.                                              *)
(***************************************************************************)
EXTENDS DeviceAgent

CONSTANTS c1, c2, c3

MixedFlushes == {<<c1>>, <<c2, c3>>, <<c1, c2, c3>>}
=============================================================================
