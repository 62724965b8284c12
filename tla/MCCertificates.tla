--------------------------- MODULE MCCertificates ---------------------------
(* Certificates with two renewals within the horizon.                      *)
EXTENDS Certificates
=============================================================================
