---------------------------- MODULE MC_RSLCToken ----------------------------
(* RSLCToken over the tokens and comments of MC_Tokens.                   *)
EXTENDS RSLCToken, MC_Tokens

=============================================================================
