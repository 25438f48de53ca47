-------------------------- MODULE MCEncryptedTable --------------------------
(***************************************************************************)
(* The user keys of the runs of EncryptedTable: two that share a byte, and *)
(* targets at, between and behind them; values that NextImpl can step     *)
(* over, merge operands on both sides of that limit, and tombstones.       *)
(***************************************************************************)
EXTENDS EncryptedTable

MCUsers  == {<<1, 0>>, <<1, 4>>}
MCGaps   == {<<1, 2>>, <<2, 0>>}
MCValues == {<<"put", 1>>, <<"merge", 2>>, <<"merge", 4>>, <<"del", 0>>}

TombstoneValues == {<<"put", 1>>, <<"del", 0>>}
=============================================================================
