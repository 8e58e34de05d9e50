---------------------------- MODULE MCCertStore ----------------------------
(* Two replicas that race for the Secret. *)
EXTENDS CertStore

CONSTANTS r1, r2

MCReplicas == {r1, r2}
=============================================================================
