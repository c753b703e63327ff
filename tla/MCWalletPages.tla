---------------------------- MODULE MCWalletPages ----------------------------
(* The pages of two holders and an issuer over a small instance of the links. *)
EXTENDS WalletPages, MCPresentationService
=============================================================================
