------------------------------- MODULE MCConsole -------------------------------
(* The console for TLC: values of constants that a configuration file       *)
(* cannot write.                                                            *)
EXTENDS Console

MCSeries == [table : {"a", "b"}, operation : {"I"}]
MCBraced == {[table |-> "b", operation |-> "I"]}
MCChanges == {-1, 1}
=============================================================================
