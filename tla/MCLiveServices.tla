---------------------------- MODULE MCLiveServices ----------------------------
(* Small instances of the three parts: the menu of MCSmsRouting, one listing, *)
(* one request of each kind.                                                  *)
EXTENDS MCSmsRouting, LiveServices

=============================================================================
