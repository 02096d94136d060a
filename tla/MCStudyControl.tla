--------------------------- MODULE MCStudyControl ---------------------------
(* Instances of StudyControl for TLC. *)
EXTENDS StudyControl
=============================================================================
