---------------------------- MODULE MCScionSocket ----------------------------
(***************************************************************************)
(* Small instances of ScionSocket.                                         *)
(***************************************************************************)
EXTENDS ScionSocket

CONSTANTS l1, e1, e2, r1, r2, s1

OneLocal == {l1}
TwoExternal == {e1, e2}
TwoRemotes == {r1, r2}
OneServer == {s1}

Unasked(s, form) == [kind |-> "stun", from |-> s, form |-> form, tx |-> 0, ep |-> e1]
Letter(kind, src, dst) ==
  [kind |-> kind, src |-> src, dst |-> dst, valid |-> TRUE, big |-> FALSE]

Mixed ==
  {Letter("data", r1, e1), Letter("data", r2, l1), Letter("scmp", r1, l1),
   Unasked(s1, "malformed"), Unasked(r1, "other"),
   [Letter("data", r1, l1) EXCEPT !.big = TRUE], [Letter("data", r1, l1) EXCEPT !.valid = FALSE]}

SomeFlags == {{}, {"peek"}, {"dontwait"}, {"dontwait", "peek", "stun"}, {"peek", "scmp", "stun"}}
=============================================================================
