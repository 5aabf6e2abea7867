----------------------------- MODULE MCJobRunner -----------------------------
(* An instance of JobRunner: the opcodes each engine ends.                 *)
EXTENDS JobRunner

Completed ==
  [e \in {"libaio", "null", "spdk"} |->
     CASE e = "libaio" -> {"read", "flush", "write_zeroes"}
       [] e = "null" -> {"write", "identify"}
       [] e = "spdk" -> {"read", "flush"}]
=============================================================================
