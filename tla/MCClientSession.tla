---------------------------- MODULE MCClientSession ----------------------------
(* An instance of ClientSession for TLC: an account with one role, or without *)
(* any, and two calls at a time.                                              *)
EXTENDS ClientSession

OneRoleOrNone == {{"ADMINISTRATOR"}, {"RACE_ORGANIZER"}, {"VIEWER"}, {}}
=============================================================================
