------------------------------- MODULE MCJobs -------------------------------
\* The postings of one company.
EXTENDS Jobs, TLC

CONSTANT c1

MCJobOwner == [j \in Jobs |-> c1]

Symmetry == Permutations(JobReq)
=============================================================================
