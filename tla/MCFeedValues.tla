---------------------------- MODULE MCFeedValues ----------------------------
(* FeedValues for TLC: two feeds, asked for together.                      *)
EXTENDS FeedValues

CONSTANTS f1, f2

TwoFeeds == {f1, f2}
Lists    == {<<f1, f2>>}
=============================================================================
