--------------------------- MODULE MCCourseImage ---------------------------
(* Small instances of CourseImage.                                         *)
EXTENDS CourseImage, TLC

CONSTANTS r1, r2, r3

Symmetry == Permutations(Requests)
=============================================================================
