---------------------- MODULE MCPessimisticPortfolios ----------------------
(* Two transactions of one account, two threads that put them, one remover. *)
EXTENDS PessimisticPortfolios
=============================================================================
