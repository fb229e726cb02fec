------------------------------ MODULE MCAof ---------------------------------
(* Model-checking instance of Aof.tla: one key, two values, at most four  *)
(* entries written and two crashes in a behaviour.                        *)
EXTENDS Aof

MCKeys == {"k1"}
MCVals == {"v1", "v2"}
MCAllPolicies == {"Always", "EverySecond", "No"}
MCAlways == {"Always"}

\* Entries and crashes are unbounded in the program; the run explores
\* behaviours with at most MaxFrames entries and MaxCrashes crashes.
MaxFrames == 4
MaxCrashes == 2
Bound == next <= MaxFrames /\ crashes <= MaxCrashes
=============================================================================
