------------------------------ MODULE MCHttpd -------------------------------
(* A command beside two clients that want the one stream there is.         *)
EXTENDS Httpd
=============================================================================
