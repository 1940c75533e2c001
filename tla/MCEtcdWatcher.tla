---------------------------- MODULE MCEtcdWatcher ----------------------------
(* Model values for EtcdWatcher: a key of the service itself, and a key of a *)
(* service whose name continues its name.                                    *)
EXTENDS EtcdWatcher

CONSTANTS own, longer
=============================================================================
