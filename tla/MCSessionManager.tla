-------------------------- MODULE MCSessionManager --------------------------
(* Instances of the session manager for model checking.                      *)
EXTENDS SessionManager
=============================================================================
