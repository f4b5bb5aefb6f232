---- MODULE MCLStar ----
EXTENDS LStar

MCAlphabet == <<"a", "b">>

\* Locks of three states: only the last state answers the letter "a" with 1,
\* the letter "b" leads there one state at a time, and "a" in the second state
\* stays or goes back to the start.
MCMachines ==
  {m \in [to : [States \X Letters -> States],
          out : {[p \in States \X Letters |-> IF p = <<3, "a">> THEN 1 ELSE 0]}] :
     /\ \A q \in States : m.to[q, "b"] = (q % 3) + 1
     /\ \A q \in {1, 3} : m.to[q, "a"] = 1
     /\ m.to[2, "a"] \in {1, 2}}
====
