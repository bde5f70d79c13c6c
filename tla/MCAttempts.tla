----------------------------- MODULE MCAttempts -----------------------------
(* Values of Attempts' constants for TLC. *)
EXTENDS Attempts, TLC

CONSTANTS t1, t2, coder, helper, native, cli, remote, mock

(* The coder works through the command line backend, which brings its own  *)
(* model; the helper through the native one, with a remote provider and    *)
(* the local mock to fall back to.                                         *)
Homes     == coder :> cli @@ helper :> native
Models    == coder :> None @@ helper :> remote
Limits    == coder :> 1 @@ helper :> 1
OnePinned == t1 :> None @@ t2 :> coder
Order     == cli :> 1 @@ native :> 2 @@ remote :> 1 @@ mock :> 2
NoRank    == <<>>
=============================================================================
