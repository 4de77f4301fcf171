---------------------------- MODULE MCPresence ----------------------------
(* Presence with three spellings of two names and idle times around the    *)
(* threshold of ten minutes.                                               *)
EXTENDS Presence

CONSTANTS Foo, FOO, Bar, Baz

MCNames == {Foo, FOO, Bar, Baz}

MCsimplify == (Foo :> 2) @@ (FOO :> 2) @@ (Bar :> 1) @@ (Baz :> 3)

MCIdleTimes == {0, 9, 10}
===========================================================================
