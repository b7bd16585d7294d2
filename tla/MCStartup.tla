----------------------------- MODULE MCStartup ------------------------------
(***************************************************************************)
(* Model-checking harness for Startup: the three command-line flags are    *)
(* enumerated by Init; the bounds are constants of the cfg files.          *)
(***************************************************************************)
EXTENDS Startup
=============================================================================
