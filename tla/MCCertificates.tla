---------------------------- MODULE MCCertificates ----------------------------
(***************************************************************************)
(* Small instances of the certificate tool for TLC.                        *)
(***************************************************************************)
EXTENDS CertificatesProperties
=============================================================================
