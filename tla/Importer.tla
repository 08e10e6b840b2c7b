-------------------------------- MODULE Importer --------------------------------
(***************************************************************************)
(* The CSV importer (importer/importer.go): how a line of an export becomes*)
(* a task or is quarantined.  A line is what its adapter looks at: the     *)
(* title cell, whether the completion date can be parsed, and the status   *)
(* cell, by the words that any of the adapters knows.                      *)
(***************************************************************************)
EXTENDS Naturals, Sequences, FiniteSets

Sources == {"asana", "rocketlane", "generic"}

(* Title cells: plain text, text behind the sigil of a formula, a sigil     *)
(* alone, text longer than the 255 characters tasks.title may have, nothing.*)
Titles == {"text", "formula", "sigil", "overlong", "empty"}
Statuses == {"todo", "in_progress", "blocked", "review", "done", "waived"}
Words == Statuses \cup {"completed", "in progress", "not started", "", "other"}
Lines == [title : Titles, completed : BOOLEAN, status : Words]

(* sanitize strips the sigil, TrimSpace the rest.                           *)
Sanitized(cell) ==
    CASE cell = "formula" -> "text" [] cell = "sigil" -> "empty" [] OTHER -> cell

(* What each adapter understands; the due date is dropped when it cannot be *)
(* parsed, and no adapter quarantines a line for it.                        *)
GenericStatus(w) == IF w = "" THEN "todo" ELSE IF w = "in progress" THEN "in_progress" ELSE w

RocketlaneStatus(w) ==
    IF w \in {"completed", "done"} THEN "done"
    ELSE IF w = "in progress" THEN "in_progress"
    ELSE IF w = "blocked" THEN w
    ELSE "todo"

Adapted(source, line) ==
    [title |-> Sanitized(line.title),
     status |-> CASE source = "asana" -> IF line.completed THEN "done" ELSE "todo"
                  [] source = "rocketlane" -> RocketlaneStatus(line.status)
                  [] source = "generic" -> GenericStatus(line.status)]

Accepted(source, line) ==
    /\ Sanitized(line.title) # "empty"
    /\ source = "generic" => GenericStatus(line.status) \in Statuses

(* The tasks of a file, by their line.                                      *)
Accepting(source, file) == {i \in DOMAIN file : Accepted(source, file[i])}
TasksOf(source, file) == [i \in Accepting(source, file) |-> Adapted(source, file[i])]

(* Parse: the tasks of the accepted lines, by their line, and how many lines*)
(* there are of either kind.                                                *)
Parsed(source, file) ==
    [tasks |-> TasksOf(source, file), ok |-> Cardinality(Accepting(source, file)),
     quarantined |-> Cardinality(DOMAIN file \ Accepting(source, file))]

=============================================================================
