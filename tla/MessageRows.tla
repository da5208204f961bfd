----------------------------- MODULE MessageRows -----------------------------
(***************************************************************************)
(* What the components that write the tables messages and dependency_edges *)
(* rely on from each other: a message is inserted once and unfinished, with *)
(* its edge if it has one; it is finished once, with its edge or before it; *)
(* and a finished message and a closed edge stay so.                       *)
(***************************************************************************)
VARIABLES
  unfinished,   \* the messages that wait for their outcome
  finished,     \* those that have it
  waiting       \* those whose edge is active

rows == <<unfinished, finished, waiting>>

RowsInit == unfinished = {} /\ finished = {} /\ waiting = {}

\* Any number of messages in one transaction.
Insert ==
  /\ unfinished \subseteq unfinished' /\ unfinished' \cap finished = {}
  /\ waiting \subseteq waiting' /\ waiting' \subseteq waiting \cup (unfinished' \ unfinished)
  /\ UNCHANGED finished

Finish(m) ==
  /\ m \in unfinished
  /\ unfinished' = unfinished \ {m}
  /\ finished' = finished \cup {m}
  /\ waiting' \in {waiting, waiting \ {m}}

CloseEdge(m) ==
  /\ m \in finished
  /\ waiting' = waiting \ {m}
  /\ UNCHANGED <<unfinished, finished>>

RowsNext == Insert \/ (\E m \in unfinished : Finish(m)) \/ (\E m \in finished : CloseEdge(m))

RowsSpec == RowsInit /\ [][RowsNext]_rows
==============================================================================
