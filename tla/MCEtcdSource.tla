---------------------------- MODULE MCEtcdSource ----------------------------
(* Small instances of EtcdSource. *)
EXTENDS EtcdSource
=============================================================================
