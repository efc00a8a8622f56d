------------------------------ MODULE MCProcess ------------------------------
(***************************************************************************)
(* Instance of Process for TLC: every numbering of up to three indices in  *)
(* environment mode, every setting of the switches in both modes, and      *)
(* every table of up to two rows in database mode.                         *)
(***************************************************************************)
EXTENDS Process

\* Names that collide with a default name or with each other, and each kind of limit.
SomeEntries ==
    {e \in Entries :
        /\ e.name \in {Unset, 2} \cup OtherNames
        /\ e.creds # "all" => e.name \in {Unset, 2} /\ e.limit # "good"}

GoodSettings == [s \in Settings |-> "good"]

NumberedEnvirons ==
    {[settings |-> GoodSettings, source |-> "env", admin_ui |-> TRUE, password |-> FALSE,
      entries |-> entries] : entries \in [Indices -> SomeEntries]}

\* Entries that _parse_groups refuses, and some that it takes.
Stale == [n \in Indices |-> [creds |-> "some", name |-> Unset, limit |-> "bad"]]

Single ==
    [n \in Indices |->
        [creds |-> IF n = 1 THEN "all" ELSE "none", name |-> Unset, limit |-> "unset"]]

SwitchedEnvirons ==
    {[settings |-> settings, source |-> source, admin_ui |-> ui, password |-> password,
      entries |-> entries] :
        settings \in [Settings -> {"unset", "good", "bad"}],
        source \in {"env", "database", "other"},
        ui \in BOOLEAN, password \in BOOLEAN, entries \in {Stale, Single}}

\* Each way a row can be wrong, and names that differ in spaces only.
SomeRows ==
    {row \in Rows :
        (row.fields = "bad" \/ row.limit # "null") => row.name = "sales" /\ ~ row.padded}

SomeTables == {rows \in UNION {[1..n -> SomeRows] : n \in 0..2} : IsTable(rows)}

ThreeRows ==
    [i \in 1..3 |->
        [name |-> IF i = 1 THEN "sales" ELSE "support", padded |-> i = 3, fields |-> "good",
         limit |-> "null", enabled |-> i # 2]]

InDatabaseMode(ui) ==
    [settings |-> GoodSettings, source |-> "database", admin_ui |-> ui, password |-> TRUE,
     entries |-> Stale]

WhatIsFound ==
    [environ : NumberedEnvirons \cup SwitchedEnvirons, table : {ThreeRows}]
      \cup [environ : {InDatabaseMode(ui) : ui \in BOOLEAN}, table : SomeTables]
=============================================================================
