----------------------------- MODULE MCUnsupported -----------------------------
(***************************************************************************)
(* Each family drops one of the restrictions of module ProgramShapes, for  *)
(* the runs that refute what the documentation says.                       *)
(***************************************************************************)
EXTENDS BoundExecution, ProgramShapes

(* A value computed before the loop is read in the loop and after it. *)
OutlivingPrograms ==
  {p \in OneLoop({Fill("i")}, {Fill("q")}, Unary("x", {"a"}), Binary("y", {"x", "q"}), {"y"},
                 TwoPosts({"r"}, {"p", "q"}), {{}}) : ~ NothingOutlivesLoop(p)}

(* A tensor is stored and then read again. *)
EarlyStorePrograms ==
  {p \in {Program(<<Fill("i"), Fill("q")>>, <<"i">>, OnePhi, <<x, Store("x"), y>>, <<"y">>,
                  post, {}) :
            x \in Unary("x", {"a", "q"}), y \in Binary("y", {"x", "a"}), post \in OnePost({"r"})} :
     AllUsed(p) /\ ~ StoresLast(p)}

(* All of them are executed. *)
Unchecked(p) == TRUE
=============================================================================
