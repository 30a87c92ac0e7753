---------------------------- MODULE MCHeaderChain ----------------------------
(* Instances of HeaderChain for TLC. *)
EXTENDS HeaderChain

(* Schedules of equal size, and the empty one that has no effect. *)
MCEqualSchedules == {<<"a", "b", "c", "d">>, <<"a", "b", "c", "e">>, <<>>}

(* A schedule that shrinks, as update_elected_producers_yta may propose. *)
MCShrinkingSchedules == {<<"a", "b", "c", "d">>, <<"a", "d">>}
==============================================================================
