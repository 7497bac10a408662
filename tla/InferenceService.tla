--------------------------- MODULE InferenceService ---------------------------
(***************************************************************************)
(* What an asynchronous inference engine promises its application, the     *)
(* contract behind InferenceInterface::Invoke and the events of            *)
(* EventObjectInterface: an accepted inference is reported by one event,   *)
(* events come in the order of the Invoke() calls, and an inference is     *)
(* dropped without an event only after a failure the engine cannot report. *)
(* RuntimeAsync is shown to implement it.                                  *)
(***************************************************************************)
EXTENDS Integers, Sequences

CONSTANT Contexts   \* the contexts the application passes to Invoke()

VARIABLES
  pending,    \* accepted, not yet reported, oldest first
  reported,   \* the events in the order of their publication
  failing     \* a failure that may cost an event has happened

vars == <<pending, reported, failing>>

EventKind == {"success", "error"}

Init ==
  /\ pending = <<>>
  /\ reported = <<>>
  /\ failing = FALSE

Accept(c) ==
  /\ pending' = Append(pending, c)
  /\ UNCHANGED <<reported, failing>>

Report(kind) ==
  /\ pending # <<>>
  /\ pending' = Tail(pending)
  /\ reported' = Append(reported, [context |-> Head(pending), type |-> kind])
  /\ failing' \in {failing, TRUE}

\* The oldest inference is lost, which happens only with a failure.
Drop ==
  /\ pending # <<>>
  /\ pending' = Tail(pending)
  /\ failing' = TRUE
  /\ UNCHANGED reported

Fail ==
  /\ failing' = TRUE
  /\ UNCHANGED <<pending, reported>>

Next ==
  \/ \E c \in Contexts : Accept(c)
  \/ \E kind \in EventKind : Report(kind)
  \/ Drop
  \/ Fail

Spec == Init /\ [][Next]_vars
=============================================================================
