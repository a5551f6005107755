-------------------------- MODULE MCServerRegistry --------------------------
(* An instance of ServerRegistry: one server that connects three times.     *)
EXTENDS ServerRegistry, TLC

CONSTANT exec

MCSocketServer == (1 :> exec) @@ (2 :> exec) @@ (3 :> exec)
=============================================================================
