--------------------------- MODULE MCBoundExecution ---------------------------
(* All the shapes are analysed; those the binding supports are executed. *)
EXTENDS BoundExecution, ProgramShapes

AnalysedPrograms ==
  Lifetimes(LAMBDA p : TRUE) \cup Specials(LAMBDA p : TRUE) \cup Accumulators(LAMBDA p : TRUE)
    \cup Pairs(LAMBDA p : TRUE) \cup Tails(LAMBDA p : TRUE)
    \cup ReadInits(LAMBDA p : TRUE) \cup StoredArgs(LAMBDA p : TRUE)
    \cup Outside(LAMBDA p : TRUE) \cup SharedInits(LAMBDA p : TRUE)
=============================================================================
