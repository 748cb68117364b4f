---------------------------- MODULE MCSubmission ----------------------------
(* Submission for TLC.                                                     *)
EXTENDS SubmissionProperties, TLC

\* Callbacks are interchangeable.
CallbackSymmetry == Permutations(Workers)

=============================================================================
