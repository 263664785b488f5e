--------------------------- MODULE SessionMachine ---------------------------
(* The guest-session state machine of core/state.py: the states and the      *)
(* legal transitions.  transition() raises on an edge that is not listed, so *)
(* callers test CanGo before they assume the move happened.                  *)

States == {"idle", "armed", "countdown", "capturing", "review", "processing"}

AllowedTransitions ==
  { <<"idle", "armed">>,
    <<"armed", "countdown">>,    <<"armed", "idle">>,
    <<"countdown", "capturing">>, <<"countdown", "idle">>,
    <<"capturing", "review">>,   <<"capturing", "idle">>,
    <<"capturing", "countdown">>,
    <<"review", "processing">>,  <<"review", "idle">>,
    <<"processing", "idle">> }

(* transition() succeeds; otherwise it raises InvalidTransitionError.        *)
CanGo(current, target) == <<current, target>> \in AllowedTransitions
=============================================================================
