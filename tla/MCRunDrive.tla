---------------------------- MODULE MCRunDrive ----------------------------
(***************************************************************************)
(* RunDrive for TLC: a roster of two accounts, or of none, and the replies *)
(* that tell the waves apart.                                              *)
(***************************************************************************)
EXTENDS RunDrive

CONSTANTS a1, a2

TwoAccounts == <<a1, a2>>
NoRoster == <<>>

ReadsAndWrites == {<<>>, <<"write">>, <<"read", "write">>, <<"write", "read">>}
OnlyReads == {<<>>, <<"read">>, <<"read", "read">>}
NoTools == {<<>>}
=============================================================================
