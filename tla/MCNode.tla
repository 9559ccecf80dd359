------------------------------- MODULE MCNode -------------------------------
(* One request of each server. *)
EXTENDS Node, TLC

MCServer == "rh" :> "http" @@ "rg" :> "grpc"
=============================================================================
