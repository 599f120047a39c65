------------------------ MODULE MC_WrapperEndpoint ------------------------
(* Connections that call at once; their names are interchangeable.         *)
EXTENDS WrapperEndpoint

=============================================================================
