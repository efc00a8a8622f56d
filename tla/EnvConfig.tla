------------------------------ MODULE EnvConfig ------------------------------
(***************************************************************************)
(* src/config.py, load_config(): what the environment variables make of    *)
(* the program, as operators on an environment value, a record             *)
(*                                                                         *)
(*   settings   the variables that are checked one by one: "unset" (or     *)
(*              blank), "good" or "bad"                                    *)
(*   source     CONFIG_SOURCE: "env", "database" or "other"                *)
(*   admin_ui, password    ADMIN_UI, and whether ADMIN_PASSWORD is set     *)
(*   entries    index |-> what the GROUP_<index>_* variables hold          *)
(*                                                                         *)
(* Group names are told apart, not spelled: n is the default name          *)
(* "group-<n>", which GROUP_<m>_NAME may hold too.                         *)
(***************************************************************************)
EXTENDS Naturals, Sequences

CONSTANTS
    Settings, Required,     \* the single settings; those without a default
    MaxGroupIndex,          \* _MAX_GROUP_INDEX
    OtherNames,             \* names that are no index's default
    Unset, ConfigError

Indices == 1..MaxGroupIndex

\* A parsed group: its index, its name, and whether it has limits of its own.
Groups ==
    [index : Indices, name : Indices \cup OtherNames, limit : {"inherited", "own"}]

Configs ==
    [source : {"env", "database"}, admin_ui : BOOLEAN, groups : Seq(Groups)]

ASSUME EnvConfigAssumption ==
    /\ Required \subseteq Settings
    /\ MaxGroupIndex \in Nat
    /\ Unset \notin Indices \cup OtherNames
    /\ ConfigError \notin Seq(Groups) \cup Configs

\* How many of the three required variables are set, GROUP_<n>_NAME, and the two
\* limits as one.
Entries ==
    [creds : {"none", "some", "all"}, name : Indices \cup OtherNames \cup {Unset},
     limit : {"unset", "good", "bad"}]

Environs ==
    [settings : [Settings -> {"unset", "good", "bad"}],
     source : {"env", "database", "other"},
     admin_ui : BOOLEAN, password : BOOLEAN,
     entries : [Indices -> Entries]]

\* _int_env and its kind: blank is the default, if there is one, and what is no
\* number, switch or address, or is out of range, is an error.
Acceptable(environ, s) ==
    environ.settings[s] \in (IF s \in Required THEN {"good"} ELSE {"unset", "good"})

Group(n, entry) ==
    [index |-> n,
     name |-> IF entry.name = Unset THEN n ELSE entry.name,
     limit |-> IF entry.limit = "unset" THEN "inherited" ELSE "own"]

-----------------------------------------------------------------------------
(* _parse_groups: one pass over the indices, then the names.               *)

\* Mutant: a gap ends the list, and what comes after it is not noticed.
ScanUntilGap(scan, n, entry) ==
    IF scan.error \/ scan.seen_missing THEN scan
    ELSE IF entry.creds = "none" THEN [scan EXCEPT !.seen_missing = TRUE]
    ELSE IF entry.creds = "some" \/ entry.limit = "bad" THEN [scan EXCEPT !.error = TRUE]
    ELSE [scan EXCEPT !.groups = Append(@, Group(n, entry))]

ScanIndex(scan, n, entry) ==
    IF scan.error THEN scan
    ELSE IF entry.creds = "none" THEN [scan EXCEPT !.seen_missing = TRUE]
    ELSE IF entry.creds = "some" \/ scan.seen_missing \/ entry.limit = "bad"
    THEN [scan EXCEPT !.error = TRUE]
    ELSE [scan EXCEPT !.groups = Append(@, Group(n, entry))]

\* The pass, and what it has found after the first n indices.
Pass(entries) ==
    LET scan[n \in 0..MaxGroupIndex] ==
          IF n = 0 THEN [groups |-> << >>, seen_missing |-> FALSE, error |-> FALSE]
          ELSE ScanIndex(scan[n - 1], n, entries[n])
    IN  scan

Scan(entries) == Pass(entries)[MaxGroupIndex]

DuplicateName(groups) ==
    \E i, j \in DOMAIN groups : i # j /\ groups[i].name = groups[j].name

ParseGroups(entries) ==
    LET scan == Scan(entries)
    IN  IF scan.error \/ scan.groups = << >> \/ DuplicateName(scan.groups)
        THEN ConfigError
        ELSE scan.groups

\* In database mode the group variables are not parsed at all.
GroupsOf(environ) ==
    IF environ.source = "database" THEN << >> ELSE ParseGroups(environ.entries)

LoadConfig(environ) ==
    IF \/ \E s \in Settings : ~ Acceptable(environ, s)
       \/ environ.source = "other"
       \/ environ.source = "database" /\ environ.admin_ui /\ ~ environ.password
       \/ GroupsOf(environ) = ConfigError
    THEN ConfigError
    ELSE [source |-> environ.source, admin_ui |-> environ.admin_ui,
          groups |-> GroupsOf(environ)]

-----------------------------------------------------------------------------
(* What the README promises of it, without a pass over the indices.        *)

Complete(entries) == {n \in Indices : entries[n].creds = "all"}

\* "Group indices start at 1 and must be contiguous. Each group requires [the three]
\* together", and the names that result are distinct.
WellNumbered(entries) ==
    /\ \E k \in Indices : Complete(entries) = 1..k
    /\ \A n \in Indices \ Complete(entries) : entries[n].creds = "none"
    /\ \A n \in Complete(entries) : entries[n].limit # "bad"
    /\ \A m, n \in Complete(entries) :
         m # n => Group(m, entries[m]).name # Group(n, entries[n]).name

WellConfigured(environ) ==
    /\ \A s \in Settings : Acceptable(environ, s)
    /\ CASE environ.source = "env"      -> WellNumbered(environ.entries)
         [] environ.source = "database" -> environ.admin_ui => environ.password
         [] OTHER                       -> FALSE
=============================================================================
