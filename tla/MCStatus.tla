----------------------------- MODULE MCStatus -----------------------------
(* Status with two away messages; Silence is the empty one.                *)
EXTENDS Status

CONSTANTS Lunch, Meeting, Silence, None

SomeMessages == {Lunch, Meeting}
===========================================================================
