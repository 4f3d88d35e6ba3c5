---------------------------- MODULE MCPageSession ----------------------------
(* An instance of PageSession for TLC: every kind of page; the two kinds of   *)
(* row with the fewest statuses change twice, and these and registrations     *)
(* have two requests on their way at a time.                                        *)
EXTENDS PageSession

AllKinds == DOMAIN StatusesOf

TwoForSome == [k \in AllKinds |-> IF k \in {"user", "registration", "result"} THEN 2 ELSE 1]

TwoForUsers == [k \in AllKinds |-> IF k \in {"user", "result"} THEN 2 ELSE 1]
=============================================================================
