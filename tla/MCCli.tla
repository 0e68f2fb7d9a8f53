------------------------------- MODULE MCCli -------------------------------
(* Two processes that share a file, one of them with the picker. *)
EXTENDS Cli, TLC

CONSTANTS p1, p2, a, b

MCCommands == (p1 :> <<<<a, b>>>>) @@ (p2 :> <<<<a>>, <<>>>>)
MCChoosers == {p1}
MCSize == (a :> 2) @@ (b :> 1)
=============================================================================
