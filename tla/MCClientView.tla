---------------------------- MODULE MCClientView ----------------------------
(***************************************************************************)
(* A window of two tabs, and a third one that may be opened.               *)
(***************************************************************************)
EXTENDS ClientView

CONSTANTS t1, t2, t3

TwoTabs == <<t1, t2>>
ThreeTabs == {t1, t2, t3}

=============================================================================
