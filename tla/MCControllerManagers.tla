---------------------- MODULE MCControllerManagers ----------------------
(* Small instances of ControllerManagers.                                  *)
EXTENDS ControllerManagers

\* Every kind of manager but Helios, which evicts controllers it may not reuse.
KeepingBackends == Kinds \ {"Helios"}
EvictingBackends == {"Helios"}

=============================================================================
