-------------------------- MODULE MCRssScheduler --------------------------
(* RssScheduler for TLC: the .cfg files give all its constants values. *)
EXTENDS RssScheduler
=============================================================================
