---------------------------- MODULE MCWorkbench ----------------------------
(***************************************************************************)
(* Two cases between which the user goes as often as she likes.  Sessions  *)
(* follow one another where only they are looked at: to a panel the end of *)
(* a session is that of the page.                                          *)
(***************************************************************************)
EXTENDS Workbench

McSessions(t) == IF t = "plain" THEN 3 ELSE 1

=============================================================================
