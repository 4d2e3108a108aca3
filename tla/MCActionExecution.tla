------------------------- MODULE MCActionExecution -------------------------
(* Small instances of ActionExecution for TLC. *)
EXTENDS ActionExecution, TLC

OneWrite == {"social.publish"}
OneRead == {"analytics.read"}
WriteAndRead == OneWrite \cup OneRead
None == {}
RequestSymmetry == Permutations(Executors) \cup Permutations(Deciders)
=============================================================================
