------------------------------ MODULE MCPulsar ------------------------------
(* Small instances of the pulsar and of what its clients are told. *)
EXTENDS PulsarClaims

\* No thread in the database at start-up.
NoThreads == [t \in {} |-> {}]

=============================================================================
