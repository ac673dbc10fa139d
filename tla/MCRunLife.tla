----------------------------- MODULE MCRunLife ------------------------------
(***************************************************************************)
(* RunLife instances: one desk, its launches and the tasks that resume.    *)
(***************************************************************************)
EXTENDS RunLife, TLC

\* Launches are interchangeable, and so are resumes.
Symmetric == Permutations(Launch) \cup Permutations(Resume)
=============================================================================
