-------------------------- MODULE MCAnnouncements --------------------------
(***************************************************************************)
(* One match that can end in two ways, one piece of news.  The API         *)
(* remembers one result: the other way to end makes it forget.             *)
(***************************************************************************)
EXTENDS Announcements

CONSTANTS wins, loses, article, m1
=============================================================================
