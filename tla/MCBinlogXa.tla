----------------------------- MODULE MCBinlogXa -----------------------------
(* Instances of BinlogXa for TLC.                                          *)
EXTENDS BinlogXa

CONSTANTS t1, t2, r1

InnodbOnly == <<"InnoDB">>
=============================================================================
