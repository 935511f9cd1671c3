-------------------------- MODULE MCVersionCompare --------------------------
(* Model checking of VersionCompare: uploads are interchangeable.          *)
EXTENDS VersionCompare, TLC

UploadSymmetry == Permutations(Uploads)
=============================================================================
