---------------------------- MODULE MCRecentList ----------------------------
(* RecentList with two contacts, one of them with a small row number       *)
EXTENDS RecentList

CONSTANTS a, b
AB == <<a, b>>

=============================================================================
