--------------------------- MODULE MCCertificates ---------------------------
(* Two domains, one of which may fail while the other is to be renewed.    *)
EXTENDS Certificates
=============================================================================
