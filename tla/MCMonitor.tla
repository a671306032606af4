------------------------------ MODULE MCMonitor ------------------------------
(* Constants of the run of MonitorCalls.                                  *)
EXTENDS MonitorCalls
CONSTANTS s1, s2, bad, o1, o2

MCScriptOf == [o \in Outs |-> IF o = o1 THEN s1 ELSE s2]

\* An output to s1 expires with the second block after its own.
MCLockTime == [s \in Scripts |-> IF s = s1 THEN 2 ELSE 9]

MCRegistry == <<bad, s2>>
MCChain == <<{o1}>>
=============================================================================
