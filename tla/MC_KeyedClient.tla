---------------------------- MODULE MC_KeyedClient ----------------------------
(* Instances of KeyedClient for TLC. *)
EXTENDS MC_RPC, KeyedClient
==============================================================================
