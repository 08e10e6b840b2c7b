------------------------------- MODULE Migration -------------------------------
(***************************************************************************)
(* What the migration agent makes of a CSV file (migrationagent.go): a     *)
(* language model proposes which column goes to which field of the desti-  *)
(* nation and how cells are transformed, the code keeps what it can check  *)
(* of that, shows the first rows, and transforms every row once a manager  *)
(* approves.  Who may decide, and what two of them do at once, is in       *)
(* Proposals.                                                              *)
(*                                                                         *)
(* A name stands for a column name as it is written, in a file or in an    *)
(* answer; the headers of one file differ by more than case and space.  A  *)
(* field is its place in migrationDestFields, however the answer spells it.*)
(* None of them holds a date, so the transform date_iso is never applied.  *)
(* There is one run at a time: no run reads another.                       *)
(***************************************************************************)
EXTENDS Naturals, SequencesExt

CONSTANTS
    Names,      \* column names, in any case
    LowerOf,    \* the lower case of each, without the space around it
    FieldName,  \* the lower-case names of the fields, in their order
    Kind,       \* "phone", "email" or "other" of each
    Mentions,   \* the lower-case names that mention each
    Uploads,    \* the files there may be: [headers, records]
    Answers,    \* answers of the model: [columns, transforms]
    Previewed   \* rows shown, 10 in the code

Fields == DOMAIN FieldName
Invented == 0   \* a field the destination does not have

(* Cells: a formula, telephone numbers in several forms and other text.     *)
Sigiled == {"formula", "international", "twoplus"}
Cells == {"empty", "text", "TEXT", "national", "digits", "mixed"} \cup Sigiled

ASSUME NamesAssumption ==
    /\ LowerOf \in [Names -> Names] /\ \A n \in Names : LowerOf[LowerOf[n]] = LowerOf[n]
    /\ FieldName \in Seq(Names) /\ Kind \in [Fields -> {"phone", "email", "other"}]
    /\ Mentions \in [Fields -> SUBSET Names] /\ Previewed \in Nat
ASSUME UploadsAssumption ==
    \A file \in Uploads :
        /\ file.headers \subseteq Names
        /\ \A g, h \in file.headers : LowerOf[g] = LowerOf[h] => g = h
        /\ file.records \in Seq([file.headers -> Cells])

VARIABLE run    \* the row of migration_runs

NoRun == [st |-> "none"]
InitMigration == run = NoRun

-----------------------------------------------------------------------------
(* The mapping.  Ranges over Go maps come in any order, so each of several  *)
(* candidates may be taken.                                                 *)

Known(file) == {LowerOf[h] : h \in file.headers}

(* The header that is the field, else the key of one that mentions it: the  *)
(* key is in lower case, whatever the header is.                            *)
Guessed(file, f) ==
    IF FieldName[f] \in Known(file)
    THEN {h \in file.headers : LowerOf[h] = FieldName[f]}
    ELSE Known(file) \cap Mentions[f]

(* Mutant: a field that a guess has used is offered too.                    *)
OfferedAgain(file, answer, f) ==
    {n \in DOMAIN answer.columns : answer.columns[n] = f /\ LowerOf[n] \in Known(file)}

(* What the answer offers for a field that no guess has used.               *)
Offered(file, answer, f) ==
    {n \in DOMAIN answer.columns :
        answer.columns[n] = f /\ LowerOf[n] \in Known(file) /\ Guessed(file, f) = {}}

Picks(candidates) ==
    {p \in [{f \in Fields : candidates[f] # {}} -> Names] :
        \A f \in DOMAIN p : p[f] \in candidates[f]}

(* A later field takes the column of an earlier one.                        *)
ColumnsOf(pick) == [n \in Range(pick) |-> Max({f \in DOMAIN pick : pick[f] = n})]

(* What is taken from the answer is written over a guess of that name.      *)
WrittenOver(guess, taken) ==
    [n \in DOMAIN guess \cup DOMAIN taken |-> IF n \in DOMAIN taken THEN taken[n] ELSE guess[n]]

Mappings(file, answer) ==
    {WrittenOver(ColumnsOf(guess), ColumnsOf(taken)) :
        taken \in Picks([f \in Fields |-> Offered(file, answer, f)]),
        guess \in Picks([f \in Fields |-> Guessed(file, f)])}

migrationTransforms == {"phone_e164", "email_lower", "dedupe", "sanitize_formula"}
TransformsOf(answer) ==
    {"sanitize_formula"} \cup (answer.transforms \cap migrationTransforms)

-----------------------------------------------------------------------------
(* What is done to a cell.                                                  *)

(* Too few digits, or too many, is an error; a plus between digits is kept, *)
(* and another one put before them.                                         *)
PhoneE164(v) ==
    CASE v = "national" -> "digits" [] v = "mixed" -> "twoplus"
      [] v \in {"empty", "digits", "international", "twoplus"} -> v
      [] OTHER -> "error"

EmailLower(v) == IF v = "TEXT" THEN "text" ELSE v
Quoted ==
    [formula |-> "'formula", international |-> "'international", twoplus |-> "'twoplus"]
SanitizeFormula(v) == IF v \in Sigiled THEN Quoted[v] ELSE v

(* Mutant: whatever is in the field of a telephone number is taken for one. *)
CellOutPhones(v, kind, transforms) ==
    CASE kind = "phone" /\ "phone_e164" \in transforms ->
            IF PhoneE164(v) = "error" THEN "empty" ELSE PhoneE164(v)
      [] kind = "phone" -> v
      [] kind = "email" /\ "email_lower" \in transforms -> SanitizeFormula(EmailLower(v))
      [] OTHER -> SanitizeFormula(v)

(* E.164 numbers are safe by construction.                                  *)
CellOut(v, kind, transforms) ==
    CASE kind = "phone" /\ "phone_e164" \in transforms ->
            IF PhoneE164(v) = "error" THEN "empty" ELSE PhoneE164(v)
      [] kind = "email" /\ "email_lower" \in transforms -> SanitizeFormula(EmailLower(v))
      [] OTHER -> SanitizeFormula(v)

(* A column that the file does not have under this very name is empty.      *)
Cell(file, i, n) == IF n \in file.headers THEN file.records[i][n] ELSE "empty"
ColumnFor(columns, f) == CHOOSE n \in DOMAIN columns : columns[n] = f

RowOut(file, columns, transforms, i) ==
    LET v(f) == Cell(file, i, ColumnFor(columns, f)) IN
    [row |-> [f \in Range(columns) |-> CellOut(v(f), Kind[f], transforms)],
     errors |-> {f \in Range(columns) : Kind[f] = "phone" /\ "phone_e164" \in transforms
                                            /\ PhoneE164(v(f)) = "error"}]

(* Mutant: only what the answer asked for is done to the rows shown.        *)
BuildPreviewRaw(file, columns, transforms) ==
    [i \in 1..(IF Previewed < Len(file.records) THEN Previewed ELSE Len(file.records)) |->
        RowOut(file, columns, transforms \ {"phone_e164"}, i)]

BuildPreview(file, columns, transforms) ==
    [i \in 1..(IF Previewed < Len(file.records) THEN Previewed ELSE Len(file.records)) |->
        RowOut(file, columns, transforms, i)]

-----------------------------------------------------------------------------
(* The endpoints.  A file that cannot be parsed and a model that does not   *)
(* answer leave no row.                                                     *)

MigrationSuggest(file, answer) ==
    /\ run = NoRun
    /\ \E columns \in Mappings(file, answer) :
           LET transforms == TransformsOf(answer) IN
           run' = [st |-> "draft", file |-> file, columns |-> columns,
                   transforms |-> transforms,
                   preview |-> BuildPreview(file, columns, transforms),
                   result |-> <<>>, quarantine |-> <<>>]

(* Mutant: the key is noted before the errors are looked at.                *)
SeenAnyway(outs, i) == \E j \in 1..(i - 1) : outs[j].row = outs[i].row

(* An equal row came before and was not quarantined for its cells.          *)
Seen(outs, i) == \E j \in 1..(i - 1) : outs[j].row = outs[i].row /\ outs[j].errors = {}

(* The rows are transformed again from the file, by the stored mapping.     *)
(* Both lists are in the order of the file, so each is a function of lines. *)
MigrationApprove ==
    /\ run.st = "draft"
    /\ LET outs == [i \in DOMAIN run.file.records |->
                       RowOut(run.file, run.columns, run.transforms, i)]
           dup(i) == "dedupe" \in run.transforms /\ Seen(outs, i)
           bad == {i \in DOMAIN outs : outs[i].errors # {} \/ dup(i)} IN
       run' = [run EXCEPT !.st = "done",
                  !.result = [i \in DOMAIN outs \ bad |-> outs[i].row],
                  !.quarantine = [i \in bad |->
                      [cells |-> outs[i].errors, duplicate |-> dup(i)]]]

DeleteMigration ==
    /\ run # NoRun
    /\ run' = NoRun

MigrationNext ==
    \/ \E file \in Uploads, answer \in Answers : MigrationSuggest(file, answer)
    \/ MigrationApprove
    \/ DeleteMigration

MigrationSpec == InitMigration /\ [][MigrationNext]_run

-----------------------------------------------------------------------------
(* Properties.                                                              *)

(* Whatever the model answers, and in whatever order it is read, a field is *)
(* fed by one column, one the file has up to its case, and the formula guard*)
(* is on (migrationagent.go:147-187).                                       *)
MappingSound ==
    run # NoRun =>
        /\ \A m, n \in DOMAIN run.columns : run.columns[m] = run.columns[n] => m = n
        /\ \A n \in DOMAIN run.columns : LowerOf[n] \in Known(run.file)
        /\ "sanitize_formula" \in run.transforms

(* Every row of the file is in the result or quarantined, and in one of    *)
(* them; a row is quarantined for its cells, or as a duplicate of one before*)
(* it that is in the result, and no two there are the same                  *)
(* (migrationagent.go:274-320).                                             *)
EveryRowOnce ==
    run.st = "done" =>
        /\ DOMAIN run.result \cup DOMAIN run.quarantine = DOMAIN run.file.records
        /\ DOMAIN run.result \cap DOMAIN run.quarantine = {}
        /\ "dedupe" \in run.transforms => IsInjective(run.result)
        /\ \A i \in DOMAIN run.quarantine :
               LET q == run.quarantine[i] IN
               /\ q.cells # {} \/ q.duplicate
               /\ q.duplicate => "dedupe" \in run.transforms
                      /\ \E j \in DOMAIN run.result : j < i /\ run.result[j] =
                             RowOut(run.file, run.columns, run.transforms, i).row

(* What the manager saw is what is done: a row shown without errors is in   *)
(* the result as it was shown, or a duplicate of one before it that is, and *)
(* a row shown with errors is quarantined; the preview and the run are      *)
(* written twice in the code (migrationagent.go:274-320, 616-654).          *)
PreviewTells ==
    run.st = "done" =>
        \A i \in DOMAIN run.preview :
            IF run.preview[i].errors # {} THEN i \in DOMAIN run.quarantine
            ELSE \E j \in DOMAIN run.result :
                     /\ run.result[j] = run.preview[i].row
                     /\ j = i \/ ("dedupe" \in run.transforms /\ j < i)

(* No cell of the result would run as a formula: what begins with a sigil is*)
(* a telephone number (migrationagent.go:303-307).                          *)
CellsSafe ==
    run.st = "done" =>
        \A r \in Range(run.result) : \A f \in DOMAIN r :
            r[f] \in Sigiled => Kind[f] = "phone" /\ r[f] # "formula"
                                    /\ "phone_e164" \in run.transforms

-----------------------------------------------------------------------------
(* Claims that the code does not keep, each run by hand.                    *)

(* "execution is code - hallucinations can't corrupt data" (migrationagent. *)
(* go:20-21): the column a field is fed from is in the file.                *)
ColumnsExist == run # NoRun => DOMAIN run.columns \subseteq run.file.headers

(* "hallucinated or duplicate - best-guess stands" (migrationagent.go:172): *)
(* a header that is a field of the destination feeds it.                    *)
GuessStands ==
    run # NoRun =>
        \A h \in run.file.headers, f \in Fields :
            LowerOf[h] = FieldName[f] => h \in DOMAIN run.columns /\ run.columns[h] = f

(* "keep digits + one leading +" (migrationagent.go:507).                   *)
OneLeadingPlus ==
    run.st = "done" => \A r \in Range(run.result) : \A f \in DOMAIN r : r[f] # "twoplus"

(* "the ... 'preview + validation errors' contract" (migrationagent.go:     *)
(* 602): what is shown without errors is not quarantined.                   *)
PreviewForetells ==
    run.st = "done" =>
        \A i \in DOMAIN run.preview \cap DOMAIN run.quarantine : run.preview[i].errors # {}
=============================================================================
