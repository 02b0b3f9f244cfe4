---------------------------- MODULE StatementRunner ----------------------------
(***************************************************************************)
(* What the command line client promises about the statements it is given: *)
(* they are sent one at a time, in their order, each once; a statement that *)
(* found the session gone is sent once more, at once, or the file it is in *)
(* is read once more; after any other error the rest of what was given is  *)
(* dropped, unless the error is that of a second attempt.  Lines are cut   *)
(* into statements in whatever way, and answers are of no interest here.   *)
(***************************************************************************)
EXTENDS Naturals, Sequences

CONSTANT Forms(_) \* Forms(s): the texts that may be sent for the statement s

VARIABLES
  line,    \* the statements given and not yet begun
  held,    \* of those, the ones after the command that reads a file
  reading, \* the statements come from a file
  again,   \* the statement, or the file, is tried for the second time
  status,  \* "idle", "running", "resend", "reread", "stopped"
  ran      \* the texts sent

vars == <<line, held, reading, again, status, ran>>

Init ==
  /\ line = <<>> /\ held = <<>> /\ reading \in BOOLEAN /\ again = FALSE
  /\ status = "idle" /\ ran = <<>>

\* A line is read when the one before it is done.
Give ==
  /\ status = "idle" /\ line = <<>>
  /\ UNCHANGED <<held, reading, again, status, ran>>

Begin ==
  /\ status = "idle" /\ line # <<>>
  /\ \E text \in Forms(Head(line)) : ran' = Append(ran, text)
  /\ line' = Tail(line) /\ status' = "running"
  /\ UNCHANGED <<held, reading, again>>

\* A command is not sent.
Skip ==
  /\ status = "idle" /\ line # <<>> /\ ~reading
  /\ line' = Tail(line)
  /\ UNCHANGED <<held, reading, again, status, ran>>

Open ==
  /\ status = "idle" /\ line # <<>> /\ ~reading
  /\ held' = Tail(line) /\ line' = <<>> /\ reading' = TRUE /\ again' = FALSE
  /\ UNCHANGED <<status, ran>>

\* The rest of the line goes on after the file.
Close ==
  /\ line' = held /\ held' = <<>> /\ reading' = FALSE /\ again' = FALSE
  /\ UNCHANGED ran

EndOfFile ==
  /\ status = "idle" /\ line = <<>> /\ reading
  /\ Close /\ UNCHANGED status

Finish ==
  /\ status = "running"
  /\ status' = "idle" /\ again' = (again /\ reading)
  /\ UNCHANGED <<line, held, reading, ran>>

\* An error, of a statement or of a command.
Abandon ==
  /\ (status = "running" /\ ~again) \/ (status = "idle" /\ line # <<>> /\ ~reading)
  /\ line' = <<>> /\ held' = <<>> /\ reading' = FALSE /\ status' = "idle"
  /\ UNCHANGED <<again, ran>>

\* An error of a second attempt.
Excuse ==
  /\ status = "running" /\ again
  /\ status' = "idle"
  /\ IF reading THEN Close ELSE again' = FALSE /\ UNCHANGED <<line, held, reading, ran>>

\* The session is gone.
Lose ==
  /\ status = "running" /\ ~again
  /\ IF reading THEN Close /\ status' = "reread"
     ELSE status' = "resend" /\ UNCHANGED <<line, held, reading, again, ran>>

Resend ==
  /\ status = "resend"
  /\ ran' = Append(ran, ran[Len(ran)])
  /\ status' = "running" /\ again' = TRUE
  /\ UNCHANGED <<line, held, reading>>

Reread ==
  /\ status = "reread"
  /\ held' = line /\ line' = <<>> /\ reading' = TRUE
  /\ status' = "idle" /\ again' = TRUE
  /\ UNCHANGED ran

GiveUp ==
  /\ status \in {"resend", "reread"}
  /\ status' = "idle"
  /\ UNCHANGED <<line, held, reading, again, ran>>

Stop ==
  /\ status \in {"idle", "running"}
  /\ status' = "stopped" /\ reading' \in {reading, FALSE}
  /\ UNCHANGED <<line, held, again, ran>>

Next ==
  \/ Give \/ Begin \/ Skip \/ Open \/ EndOfFile \/ Finish
  \/ Abandon \/ Excuse \/ Lose \/ Resend \/ Reread \/ GiveUp \/ Stop

Spec == Init /\ [][Next]_vars

=============================================================================
