------------------------------- MODULE MCAcme -------------------------------
(* Two issuances for one name, as a renewal overlapping a retried one.     *)
EXTENDS Acme

MCHost(t) == "example.test"
=============================================================================
