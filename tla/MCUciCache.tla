----------------------------- MODULE MCUciCache -----------------------------
(* The cache on a small package: a typed and a drawn section name, one new *)
(* section without a name, one option.                                     *)
EXTENDS UciCache
CONSTANTS net, cfg1, new1, opt, a
MCTyped == {net}
MCDrawn == {cfg1}
MCTemp  == {new1}
MCOpt   == {opt}
MCVal   == {a}
=============================================================================
