-------------------------- MODULE MCSingleInstance --------------------------
(* Values for model-checking SingleInstance.                               *)
EXTENDS SingleInstance

\* CommunicationConfig::default() on Unix, communication/mod.rs.
DefaultFallbacks == <<"FileBased", "InMemory", "SharedMemory">>

NoFallbacks == << >>
=============================================================================
