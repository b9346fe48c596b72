----------------------------- MODULE MCArchiver -----------------------------
(***************************************************************************)
(* Instances of Archiver for TLC.  Posts p1..p5 and comments c1..c3 of     *)
(* subreddit "a" over the epochs 1..4; post q1 and comment d1 of           *)
(* subreddit "b".  c2 and c3 share a timestamp and a page of two just      *)
(* holds them; p2, p3 and p5 share one and are more than fit on it.        *)
(***************************************************************************)
EXTENDS Archiver

(* The configured list: one subreddit, and one named twice beside another. *)
OneSubreddit == [w \in {1} |-> "a"]
DuplicateBesideAnother == [w \in {1, 2, 3} |-> IF w = 2 THEN "b" ELSE "a"]

MCCreated ==
    [r \in Records |->
        CASE r \in {"p1", "c1"} -> 1
          [] r \in {"p2", "p3", "p5"} -> 2
          [] r \in {"c2", "c3", "q1", "d1"} -> 3
          [] r = "p4" -> 4]

MCStream ==
    [r \in Records |->
        <<IF r \in {"q1", "d1"} THEN "b" ELSE "a",
          IF r \in {"p1", "p2", "p3", "p4", "p5", "q1"} THEN "posts" ELSE "comments">>]

(* c2 and c3 are on a cycle; d1 replies to a comment of another subreddit, *)
(* which is not in its file.                                               *)
MCParent ==
    [r \in Records |->
        CASE r = "c2" -> "c3"
          [] r = "c3" -> "c2"
          [] r = "d1" -> "c1"
          [] OTHER -> "post"]

(* The fallback lacks p1 and c2; the primary has everything. *)
MCServed ==
    [b \in Backends |-> IF b = "pullpush" THEN Records \ {"p1", "c2"} ELSE Records]

PagesOfTwo == [b \in Backends |-> {2}]
AdaptivePages == [b \in Backends |-> IF b = "arctic_shift" THEN {2, 3} ELSE {2}]

FullRun(from, to) == [after |-> from, before |-> to, maxPages |-> NoCap]
DryRun(from, to, cap) == [after |-> from, before |-> to, maxPages |-> cap]

SameWindowTwice == <<FullRun(1, 5), FullRun(1, 5)>>
RollingWindow == <<FullRun(1, 3), FullRun(2, 5)>>
DryRunThenFull == <<DryRun(3, 5, 2), FullRun(1, 5)>>
=============================================================================
