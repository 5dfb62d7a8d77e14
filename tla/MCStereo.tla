------------------------------ MODULE MCStereo -------------------------------
(* An instance of StereoMerge for TLC. *)
EXTENDS StereoMerge
=============================================================================
