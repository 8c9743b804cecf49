------------------------------ MODULE MCConsole -----------------------------
(* The console client on small streams.                                    *)
EXTENDS Console

(* Two short lines; one that fills the buffer and another; one too long.   *)
MCStreams == {<<3, 6>>, <<4, 6>>, <<5, 7>>}
=============================================================================
