---------------------------- MODULE MCPanicHook ----------------------------
(* Constants of PanicHook for TLC: a client that captures panics races one that does not,  *)
(* and two threads may panic.                                                              *)
EXTENDS PanicHook, TLC
CONSTANTS i1, i2, t1, t2, w
OneCaptures == (i1 :> "captures") @@ (i2 :> "silent")
=============================================================================
