---------------------------- MODULE MCTokenRefresh ----------------------------
(* TokenRefresh with the loop and one or two commands on one or two accounts. *)
EXTENDS TokenRefresh, TLC

MCSymmetry == Permutations(Commands) \cup Permutations(Keys)

\* With two accounts, both have an expires_at: one without it is only refreshed less often.
TimedInit == TokenInit /\ untimed = {}

TimedSpec == TimedInit /\ [][TokenNext]_tokenVars
=============================================================================
