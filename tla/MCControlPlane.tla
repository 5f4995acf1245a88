--------------------------- MODULE MCControlPlane ---------------------------
(* Instances of ControlPlane for TLC: two requests at a time, a token with  *)
(* every scope, one that may only read, and one the table does not have.    *)
EXTENDS ControlPlane

MCScopes == [full |-> {"read", "write", "admin"}, reader |-> {"read"}]
MCPresented == {"full", "reader", "stranger"}
=============================================================================
