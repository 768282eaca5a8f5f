--------------------------- MODULE MCAiMonitoring ---------------------------
(* Small instances of AiMonitoring for TLC.                                  *)
EXTENDS AiMonitoring, TLC

CONSTANTS u1, u2, s1, s2

\* One schedule over every unit; a deleted schedule's runs fall back to u1.
MCUnitsOf == [s \in Schedules |-> Units]
\* Two schedules whose surfaces overlap in u1 only.
MCOverlap == s1 :> {u1} @@ s2 :> {u1, u2}
MCDefaultUnits == {u1}
MCOneUnit == {{u1}}
MCNoScopes == {}

\* Two schedules that share a unit, or one of them and a manual request for it:
\* all of it together has too many states.
TwoAtATime ==
  \A r \in RunId : runs'[r].stamp # 0 =>
    /\ runs'[r].sched = s1
    /\ schedules[s1].exists /\ ~schedules[s2].exists

SafetySymmetry == Permutations(Workers) \union Permutations(Ticks)
=============================================================================
