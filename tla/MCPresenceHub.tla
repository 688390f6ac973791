---------------------------- MODULE MCPresenceHub ----------------------------
(* Instances of PresenceHub for TLC: one player who reconnects, and one who watches. *)
EXTENDS PresenceHub

TwoAndOne == {<<"lun", 1>>, <<"lun", 2>>, <<"kim", 1>>}
=============================================================================
