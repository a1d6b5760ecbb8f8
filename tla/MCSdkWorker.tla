---------------------------- MODULE MCSdkWorker ----------------------------
(* Instances of SdkWorkerProperties for TLC. *)
EXTENDS SdkWorkerProperties

=============================================================================
