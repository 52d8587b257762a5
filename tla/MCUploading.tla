------------------------------ MODULE MCUploading ------------------------------
(* A request and its retry; workers, requests and hashes are interchangeable. *)
EXTENDS UploadingProperties, TLC
CONSTANTS w1, w2, c1, c2, h1, h2
Symmetry == Permutations({w1, w2}) \cup Permutations({c1, c2}) \cup Permutations({h1, h2})
=============================================================================
