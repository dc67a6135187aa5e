-------------------------- MODULE MCNativeWorkers --------------------------
(* NativeWorkers on small instances.                                       *)
EXTENDS NativeWorkers

CONSTANTS s1, s2, a1, a2

MCSessions == {s1, s2}
OneSession == {s1}
MCActivities == {a1, a2}
OneActivity == {a1}

=============================================================================
