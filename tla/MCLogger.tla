------------------------------ MODULE MCLogger ------------------------------
(* Model-checking instances of Logger.                                     *)
EXTENDS Logger, TLC

OnlyLog  == {"log"}
Colors   == {14, 30}  \* yellow, and yellow on blue
Symmetry == Permutations(SysThreads) \cup Permutations(ClntThreads)
=============================================================================
