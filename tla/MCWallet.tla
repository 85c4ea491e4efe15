------------------------------- MODULE MCWallet -------------------------------
(***************************************************************************)
(* A directory with a wallet, its staged and previous files and a backup.  *)
(***************************************************************************)
EXTENDS MineaiWallet

MCName == {"wallet", "new", "before1", "before2", "backup"}
MCCopy == <<"before1", "before2">>
=============================================================================
