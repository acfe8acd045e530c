-------------------------- MODULE MCReviewPipeline --------------------------
EXTENDS ReviewPipeline, TLC

CONSTANTS f1, f2, f3, r1, r2

Plan(memory, review, rs) == [memory |-> memory, review |-> review, replies |-> rs]
Found(fs, prior) == [findings |-> fs, prior |-> prior]

MCPlans == {Plan(TRUE, TRUE, {r1}), Plan(FALSE, FALSE, {r1, r2})}
MCResults == {Found({f1, f2}, "none"), Found({f3}, "changed"), Found({f1}, "answer"),
              Found({}, "same"), Found({}, "resolve"), Found({}, "reply")}

=============================================================================
