------------------------- MODULE MCCourseGeneration -------------------------
(* CourseGeneration on the small instances of the cfg files.               *)
EXTENDS CourseGeneration

=============================================================================
