------------------------------ MODULE MCAdminApi ------------------------------
(***************************************************************************)
(* Instances of AdminApi for TLC.  A PUT renames a group, disables it, or  *)
(* does both with a new secret; every field is given in one body and blank *)
(* in another.                                                             *)
(***************************************************************************)
EXTENDS AdminApi, TLC

EnabledRows == {row \in Rows : row.enabled}

SomeBodies ==
    [name : Names, secret : {Blank}, enabled : {Blank}]
      \cup [name : {Blank}, secret : {Blank}, enabled : {FALSE}]
      \cup [name : {Blank}, secret : Secrets, enabled : {TRUE}]

AdminSymmetry ==
    Permutations(Ids) \cup Permutations(Names) \cup Permutations(Secrets)
      \cup Permutations(Requests)
=============================================================================
