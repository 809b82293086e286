----------------------------- MODULE OrderedWrites -----------------------------
(***************************************************************************)
(* What every rewritten kernel promises: it performs the writes of the     *)
(* source, want, each exactly once and with the source's value; writes to  *)
(* one DRAM tile happen in the source's order, all others in any order.    *)
(***************************************************************************)
EXTENDS Integers, Sequences, TLC

VARIABLES
  want,   \* the writes of the source in its order: [point, at, value]
  done,   \* those that were performed
  dram    \* the tiles written

WInit == want = <<>> /\ done = {} /\ dram = <<>>

(* The kernel is started on some inputs. *)
Start == want = <<>> /\ want' # <<>> /\ UNCHANGED <<done, dram>>

Write(k) ==
  /\ k \notin done
  /\ \A j \in 1 .. k - 1 : want[j].at = want[k].at => j \in done
  /\ dram' = (want[k].at :> want[k].value) @@ dram
  /\ done' = done \cup {k}
  /\ UNCHANGED want

WNext == Start \/ \E k \in DOMAIN want : Write(k)

WSpec == WInit /\ [][WNext]_<<want, done, dram>>
=============================================================================
