------------------------------- MODULE MCFeed -------------------------------
(* One account and its feed for TLC: a project it may read and one it may   *)
(* not, or two it may read; the feed shows whatever it may read.            *)
EXTENDS Feed, TLC

CONSTANTS here, there

Both == {here, there}
OneFeed == {Both}
=============================================================================
