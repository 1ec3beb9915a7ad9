------------------------------ MODULE MCPaging ------------------------------
(* Paging for TLC: the values of the constants are in the configuration.    *)
EXTENDS Paging

=============================================================================
