------------------------------ MODULE GroupTable ------------------------------
(***************************************************************************)
(* src/db_config.py, rows_to_desired(): the groups that the rows of the    *)
(* table ask for, as an operator on the sequence of rows in the order of   *)
(* their ids.  A row is a record                                           *)
(*                                                                         *)
(*   name, padded   its name without the spaces around it, and whether     *)
(*                  there are any: UNIQUE compares the name with them      *)
(*   fields         whether the columns that must not be blank, and the    *)
(*                  length of the name, are "good" or "bad"                *)
(*   limit          the two limits as one: "null", "good" or "bad"         *)
(*   enabled                                                               *)
(***************************************************************************)
EXTENDS Naturals, Sequences, Functions

CONSTANTS
    RowNames,       \* group names
    RowsRefused     \* GroupValidationError

Rows ==
    [name : RowNames, padded : BOOLEAN, fields : {"good", "bad"},
     limit : {"null", "good", "bad"}, enabled : BOOLEAN]

\* A desired group: the place of its row, its name, and whether it has limits of its own.
DesiredGroups == [index : Nat, name : RowNames, limit : {"inherited", "own"}]

ASSUME GroupTableAssumption == RowsRefused \notin Seq(DesiredGroups)

\* Whatever wrote the rows, the table's UNIQUE holds.
IsTable(rows) ==
    /\ rows \in Seq(Rows)
    /\ \A i, j \in DOMAIN rows :
         i # j => rows[i].name # rows[j].name \/ rows[i].padded # rows[j].padded

\* validate_group_fields
ValidFields(row) == row.fields = "good" /\ row.limit # "bad"

RowGroup(i, row) ==
    [index |-> i, name |-> row.name,
     limit |-> IF row.limit = "null" THEN "inherited" ELSE "own"]

Taken(desired, name) == \E g \in Range(desired) : g.name = name

\* Mutant: disabled rows are skipped before they are looked at.
MapRowEnabledOnly(desired, i, row) ==
    IF desired = RowsRefused \/ ~ row.enabled THEN desired
    ELSE IF ~ ValidFields(row) \/ Taken(desired, row.name) THEN RowsRefused
    ELSE Append(desired, RowGroup(i, row))

\* One row: an invalid one is refused even if it is disabled, a name that is taken only
\* if it is enabled.
MapRow(desired, i, row) ==
    IF desired = RowsRefused THEN desired
    ELSE IF ~ ValidFields(row) THEN RowsRefused
    ELSE IF ~ row.enabled THEN desired
    ELSE IF Taken(desired, row.name) THEN RowsRefused
    ELSE Append(desired, RowGroup(i, row))

\* What the first n rows ask for.
DesiredSoFar(rows) ==
    LET desired[n \in 0..Len(rows)] ==
          IF n = 0 THEN << >> ELSE MapRow(desired[n - 1], n, rows[n])
    IN  desired

RowsToDesired(rows) == DesiredSoFar(rows)[Len(rows)]

-----------------------------------------------------------------------------
(* What the table is meant to say, without a pass over it.                 *)

EnabledRows(rows) == {i \in DOMAIN rows : rows[i].enabled}

WellFilled(rows) ==
    /\ \A i \in DOMAIN rows : ValidFields(rows[i])
    /\ \A i, j \in EnabledRows(rows) : i # j => rows[i].name # rows[j].name
=============================================================================
