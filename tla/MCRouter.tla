------------------------------ MODULE MCRouter -------------------------------
(* Small instances of Router.                                              *)
EXTENDS Router

MCKind == {"user", "other", "unreadable"}
MCHistory == {"h1", "h2"}
=============================================================================
