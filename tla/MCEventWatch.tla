----------------------------- MODULE MCEventWatch ---------------------------
(* Blocks in which a failed extrinsic comes before, after or without an event *)
(* that is waited for, and one in which both types are there.                 *)
EXTENDS EventWatch

MCBlockEvents ==
  {<<"Transfer">>, <<"Remark", "Transfer">>, <<"failed", "Transfer">>, <<"Transfer", "failed">>}
=============================================================================
