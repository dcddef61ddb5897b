------------------------ MODULE MCPersistenceWriter ------------------------
(* TLC instance of PersistenceWriter. *)
EXTENDS PersistenceWriter
=============================================================================
