---------------------- MODULE MCSingleWorkerAdmission ----------------------
EXTENDS SingleWorkerAdmission, TLC

\* Requests are interchangeable except for the key that a single job has.
AdmissionSymmetry == Permutations(Requests \ Locals)

=============================================================================
