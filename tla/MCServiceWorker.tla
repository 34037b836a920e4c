---------------------------- MODULE MCServiceWorker ----------------------------
(* Instances of ServiceWorker for TLC. *)
EXTENDS ServiceWorker
=============================================================================
