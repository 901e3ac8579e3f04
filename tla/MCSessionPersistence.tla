------------------------ MODULE MCSessionPersistence ------------------------
(***************************************************************************)
(* Small instances of SessionPersistence: two tabs are enough to tell a    *)
(* partial layout, an older one and an empty one from the right one.       *)
(***************************************************************************)
EXTENDS SessionPersistence

=============================================================================
