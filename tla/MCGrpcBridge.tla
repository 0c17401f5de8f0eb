---------------------------- MODULE MCGrpcBridge ----------------------------
(***************************************************************************)
(* The instance of GrpcBridge that TLC checks: all four ways to start it.  *)
(***************************************************************************)
EXTENDS GrpcBridge

MCModes == Role \X Role
=============================================================================
