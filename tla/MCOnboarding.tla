---------------------------- MODULE MCOnboarding ----------------------------
(* Two wallets without a profile, one of which opens the tab; a name that  *)
(* passes the check, one that passes and leaves no label, and one that is   *)
(* too short.                                                               *)
EXTENDS Onboarding

Slug == [n \in Names |-> IF n = "---" THEN "empty" ELSE "alice"]
Before == << >>
=============================================================================
