----------------------------- MODULE PgThreadStop ---------------------------
(***************************************************************************)
(* PgThread with a history variable that remembers whether pg_thread_stop  *)
(* was called after everything that asks the thread to run.                *)
(***************************************************************************)
EXTENDS PgThread

VARIABLE
  quiet   \* "no"; or since a call of pg_thread_stop: "clean" when no RUN or
          \* FORCE_START was under way then, "dirty" when one was

Starts == {"RUN", "FORCE_START"}

Called(ops) == \E c \in Clients : phase[c] = "idle" /\ call'[c].op \in ops

UnderWay(ops) ==
  \/ \E i \in 0 .. queue_size - 1 : queue[i].op \in ops
  \/ \E c \in Clients : call[c].op \in ops

NextQuiet ==
  /\ Next
  /\ quiet' = IF Called({"STOP"})
              THEN IF UnderWay(Starts) THEN "dirty" ELSE "clean"
              ELSE IF Called(Starts) \/ main' = "none" THEN "no" ELSE quiet

SpecQuiet == Init /\ quiet = "no" /\ [][NextQuiet]_<<vars, quiet>>

FairSpecQuiet == SpecQuiet /\ Fairness

\* The call of pg_thread_stop has returned.
StopReturned == \A c \in Clients : call[c].op # "STOP"

\* When pg_thread_stop, called with no RUN and no FORCE_START under way,
\* returns, the thread is stopped and does not poll; and neither a poll nor an
\* error nor an operation of another kind starts it again.
StopHolds ==
  quiet = "clean" /\ StopReturned => state = "STOPPED" /\ main # "poll"

\* The same for every call of pg_thread_stop, whatever was called before it.
StopStops == quiet # "no" /\ StopReturned => state = "STOPPED"
=============================================================================
