------------------------------- MODULE MCTeam -------------------------------
(* A small instance of Team for TLC.                                        *)
EXTENDS Team, TLC

OnlyUsers == {fetch_users}
=============================================================================
