-------------------------- MODULE MCProviderStream --------------------------
(* A script with two bursts, and one that ends without a terminator. *)
EXTENDS ProviderStream

Played == [type |-> "tool_use", n |-> 1, input |-> "whole"]

MCScripts ==
  {<<Text(1), Played, Done(1, 1), Text(1), Done(1, 1)>>,
   <<Played, Done(1, 1), ErrorEvent>>,
   <<Played, Played, Done(1, 1), Text(1)>>,
   <<>>}
=============================================================================
