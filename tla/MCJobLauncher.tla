---------------------------- MODULE MCJobLauncher ----------------------------
(* Model-checking instance of the launcher: the owner tokens are the        *)
(* launchers themselves.                                                    *)
EXTENDS JobLauncher
==============================================================================
