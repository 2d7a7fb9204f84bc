----------------------------- MODULE MCRelease -----------------------------
(* Instances of Release for TLC: two tags of one line at once, and a       *)
(* pre-release by itself, each sound or not; one platform stands for the   *)
(* three, whose jobs are alike.                                            *)
EXTENDS Release

Version(rank, line, pre) == [rank |-> rank, line |-> line, pre |-> pre]
First == Version(1, 3, FALSE)
Second == Version(2, 3, FALSE)
Candidate == Version(3, 4, TRUE)

MCSeries == {{First, Second}, {Candidate}}
MCPlatforms == {"linux-x86_64"}
=============================================================================
