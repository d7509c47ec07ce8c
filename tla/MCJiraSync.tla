----------------------------- MODULE MCJiraSync -----------------------------
(* JiraSync with two entries, one a page.                                   *)
EXTENDS JiraSync, TLC

CONSTANTS o1, o2, r1, r2, r3, j1, j2

TwoOrgs == {o1, o2}
Rows == {r1, r2, r3}
OneJob == {j1}
TwoJobs == {j1, j2}
Alike == Permutations(Org) \union Permutations(Row)
         \union Permutations(Job)
=============================================================================
