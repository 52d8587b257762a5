------------------------------- MODULE MCUpload -------------------------------
(* Instances of Upload for TLC.                                            *)
EXTENDS UploadProperties

CONSTANTS q1, q2, q3, p1
=============================================================================
