----------------------------- MODULE ProcessProofs -----------------------------
(***************************************************************************)
(* What load_config() makes of every environment and rows_to_desired() of  *)
(* every table, and the life of the process of Process: for any number of  *)
(* groups, rows and requests.                                              *)
(***************************************************************************)
EXTENDS Process, SequenceTheorems, WellFoundedInduction, TLAPS

\* Induction, on a set: the least number outside of it has a predecessor in it.
LEMMA SetInduction ==
    ASSUME NEW S, 0 \in S, \A n \in Nat : n \in S => n + 1 \in S
    PROVE  Nat \subseteq S
<1>. SUFFICES ASSUME Nat \ S # {} PROVE FALSE
  OBVIOUS
<1>1. PICK n \in Nat \ S : \A m \in Nat \ S : ~ (<<m, n>> \in OpToRel(<, Nat))
  <2>. DEFINE T == Nat \ S
  <2>1. T # {} /\ T \subseteq Nat
    OBVIOUS
  <2>. HIDE DEF T
  <2>2. \E n \in T : \A m \in T : ~ (<<m, n>> \in OpToRel(<, Nat))
    BY <2>1, NatLessThanWellFounded, WFMin
  <2>. QED  BY <2>2 DEF T
<1>2. n # 0 /\ n - 1 \in Nat /\ (n - 1) + 1 = n
  OBVIOUS
<1>3. n - 1 \notin S
  BY <1>2
<1>4. <<n - 1, n>> \in OpToRel(<, Nat)
  BY <1>2 DEF OpToRel
<1>. QED  BY <1>1, <1>2, <1>3, <1>4

-----------------------------------------------------------------------------
(* _parse_groups.                                                          *)

NothingScanned == [groups |-> << >>, seen_missing |-> FALSE, error |-> FALSE]

\* The recursion equation of the pass over the indices up to n.
IsPass(f, entries, n) ==
    f = [i \in 0..n |-> IF i = 0 THEN NothingScanned
                        ELSE ScanIndex(f[i - 1], i, entries[i])]

\* A pass can be made one index longer.
LEMMA PassGoesOn ==
    ASSUME NEW entries, NEW n \in Nat, NEW f, IsPass(f, entries, n)
    PROVE  \E g : IsPass(g, entries, n + 1)
<1>. DEFINE g == [i \in 0..(n + 1) |->
                    IF i = n + 1 THEN ScanIndex(f[n], n + 1, entries[n + 1]) ELSE f[i]]
<1>1. \A i \in 0..n : f[i] = IF i = 0 THEN NothingScanned
                             ELSE ScanIndex(f[i - 1], i, entries[i])
  BY DEF IsPass
<1>2. \A i \in 0..(n + 1) : g[i] = IF i = 0 THEN NothingScanned
                                   ELSE ScanIndex(g[i - 1], i, entries[i])
  <2>. SUFFICES ASSUME NEW i \in 0..(n + 1)
                PROVE  g[i] = IF i = 0 THEN NothingScanned
                              ELSE ScanIndex(g[i - 1], i, entries[i])
    OBVIOUS
  <2>1. CASE i = n + 1
    BY <2>1
  <2>2. CASE i \in 0..n /\ i # 0
    <3>1. g[i] = f[i] /\ g[i - 1] = f[i - 1]
      BY <2>2
    <3>. QED  BY <1>1, <2>2, <3>1
  <2>3. CASE i = 0
    BY <1>1, <2>3
  <2>. QED  BY <2>1, <2>2, <2>3
<1>3. g = [i \in 0..(n + 1) |-> g[i]]
  OBVIOUS
<1>. HIDE DEF g
<1>4. IsPass(g, entries, n + 1)
  BY <1>2, <1>3 DEF IsPass
<1>. QED  BY <1>4

\* So there is one over any number of indices, and Pass is one.
LEMMA PassExists == ASSUME NEW entries PROVE IsPass(Pass(entries), entries, MaxGroupIndex)
<1>. DEFINE S == {n \in Nat : \E f : IsPass(f, entries, n)}
<1>1. 0 \in S
  <2>1. IsPass([i \in 0..0 |-> NothingScanned], entries, 0)
    BY DEF IsPass
  <2>. QED  BY <2>1
<1>2. \A n \in Nat : n \in S => n + 1 \in S
  BY PassGoesOn
<1>. HIDE DEF S
<1>3. Nat \subseteq S
  BY <1>1, <1>2, SetInduction
<1>4. \E f : IsPass(f, entries, MaxGroupIndex)
  BY <1>3, EnvConfigAssumption DEF S
<1>5. Pass(entries) = CHOOSE f : IsPass(f, entries, MaxGroupIndex)
  BY DEF Pass, IsPass, NothingScanned
<1>. QED  BY <1>4, <1>5

\* The first k of n indices are complete, the rest is not there.
Shape(entries, n, k) ==
    /\ \A i \in 1..k : entries[i].creds = "all" /\ entries[i].limit # "bad"
    /\ \A i \in (k + 1)..n : entries[i].creds = "none"

Scans == [groups : Seq(Groups), seen_missing : BOOLEAN, error : BOOLEAN]

GroupsUpTo(entries, k) == [i \in 1..k |-> Group(i, entries[i])]

\* What the pass knows after n indices: there is an error exactly when they have no such
\* shape, and else the groups are those of the complete ones.
ScanSays(entries, n, scan) ==
    /\ scan \in Scans
    /\ scan.error => \A k \in 0..n : ~ Shape(entries, n, k)
    /\ ~ scan.error =>
         \E k \in 0..n : /\ Shape(entries, n, k)
                         /\ scan.groups = GroupsUpTo(entries, k)
                         /\ scan.seen_missing <=> k < n

\* A group that is parsed.
LEMMA GroupIsAGroup ==
    ASSUME NEW n \in Indices, NEW entry \in Entries
    PROVE  Group(n, entry) \in Groups
BY DEF Group, Groups, Entries

\* One index more, case by case.
LEMMA ScanIndexIs ==
    ASSUME NEW n \in Indices, NEW entry \in Entries, NEW scan \in Scans
    PROVE  LET next == ScanIndex(scan, n, entry)
               bad == entry.creds = "some" \/ scan.seen_missing \/ entry.limit = "bad"
           IN  /\ next \in Scans
               /\ scan.error => next = scan
               /\ ~ scan.error /\ entry.creds = "none" =>
                    next.seen_missing /\ ~ next.error /\ next.groups = scan.groups
               /\ ~ scan.error /\ entry.creds # "none" /\ bad => next.error
               /\ ~ scan.error /\ entry.creds # "none" /\ ~ bad =>
                    /\ ~ next.error /\ ~ next.seen_missing
                    /\ next.groups = Append(scan.groups, Group(n, entry))
<1>. DEFINE bad == entry.creds = "some" \/ scan.seen_missing \/ entry.limit = "bad"
<1>1. CASE scan.error
  <2>1. ScanIndex(scan, n, entry) = scan
    BY <1>1 DEF ScanIndex
  <2>. QED  BY <1>1, <2>1
<1>2. CASE ~ scan.error /\ entry.creds = "none"
  <2>1. ScanIndex(scan, n, entry) = [scan EXCEPT !.seen_missing = TRUE]
    BY <1>2 DEF ScanIndex
  <2>. QED  BY <1>2, <2>1 DEF Scans
<1>3. CASE ~ scan.error /\ entry.creds # "none" /\ bad
  <2>1. ScanIndex(scan, n, entry) = [scan EXCEPT !.error = TRUE]
    BY <1>3 DEF ScanIndex
  <2>. QED  BY <1>3, <2>1 DEF Scans
<1>4. CASE ~ scan.error /\ entry.creds # "none" /\ ~ bad
  <2>1. ScanIndex(scan, n, entry)
          = [scan EXCEPT !.groups = Append(scan.groups, Group(n, entry))]
    BY <1>4 DEF ScanIndex
  <2>2. Append(scan.groups, Group(n, entry)) \in Seq(Groups)
    BY GroupIsAGroup, AppendProperties DEF Scans
  <2>. QED  BY <1>4, <2>1, <2>2 DEF Scans
<1>. QED  BY <1>1, <1>2, <1>3, <1>4

\* The groups of one index more.
LEMMA OneGroupMore ==
    ASSUME NEW entries \in [Indices -> Entries], NEW n \in Nat, n + 1 \in Indices
    PROVE  Append(GroupsUpTo(entries, n), Group(n + 1, entries[n + 1]))
             = GroupsUpTo(entries, n + 1)
<1>. DEFINE old == GroupsUpTo(entries, n)
            new == Append(old, Group(n + 1, entries[n + 1]))
<1>1. old \in Seq(Groups) /\ Len(old) = n /\ Group(n + 1, entries[n + 1]) \in Groups
  <2>1. \A i \in 1..(n + 1) : i \in Indices
    BY EnvConfigAssumption DEF Indices
  <2>2. \A i \in 1..(n + 1) : Group(i, entries[i]) \in Groups
    BY <2>1, GroupIsAGroup
  <2>3. old \in [1..n -> Groups]
    BY <2>2 DEF GroupsUpTo
  <2>. QED  BY <2>2, <2>3, IsASeq, LenProperties
<1>2. /\ new \in Seq(Groups) /\ Len(new) = n + 1
      /\ \A i \in 1..n : new[i] = old[i]
      /\ new[n + 1] = Group(n + 1, entries[n + 1])
  BY <1>1, AppendProperties
<1>3. new = [i \in 1..(n + 1) |-> new[i]]
  BY <1>2, LenProperties
<1>4. \A i \in 1..(n + 1) : new[i] = Group(i, entries[i])
  BY <1>2 DEF GroupsUpTo
<1>. HIDE DEF new
<1>5. new = GroupsUpTo(entries, n + 1)
  BY <1>3, <1>4 DEF GroupsUpTo
<1>. QED  BY <1>5 DEF new

\* What is said of a pass stays true from index to index.
LEMMA ScanStep ==
    ASSUME NEW entries \in [Indices -> Entries], NEW n \in Nat, n + 1 \in Indices,
           NEW scan, ScanSays(entries, n, scan)
    PROVE  ScanSays(entries, n + 1, ScanIndex(scan, n + 1, entries[n + 1]))
<1>. DEFINE entry == entries[n + 1]
            next == ScanIndex(scan, n + 1, entry)
            bad == entry.creds = "some" \/ scan.seen_missing \/ entry.limit = "bad"
<1>1. entry \in Entries /\ scan \in Scans
  BY DEF ScanSays
<1>2. /\ next \in Scans
      /\ scan.error => next = scan
      /\ ~ scan.error /\ entry.creds = "none" =>
           next.seen_missing /\ ~ next.error /\ next.groups = scan.groups
      /\ ~ scan.error /\ entry.creds # "none" /\ bad => next.error
      /\ ~ scan.error /\ entry.creds # "none" /\ ~ bad =>
           /\ ~ next.error /\ ~ next.seen_missing
           /\ next.groups = Append(scan.groups, Group(n + 1, entry))
  BY <1>1, ScanIndexIs
<1>3. entry.creds \in {"none", "some", "all"}
  BY <1>1 DEF Entries
<1>. HIDE DEF next
<1>4. \A k \in 0..(n + 1) : Shape(entries, n + 1, k) =>
        \/ k \in 0..n /\ Shape(entries, n, k) /\ entry.creds = "none"
        \/ k = n + 1 /\ Shape(entries, n, n) /\ entry.creds = "all" /\ entry.limit # "bad"
  BY DEF Shape
<1>5. ASSUME scan.error PROVE ScanSays(entries, n + 1, next)
  <2>1. \A k \in 0..n : ~ Shape(entries, n, k)
    BY <1>5 DEF ScanSays
  <2>. QED  BY <1>2, <1>4, <1>5, <2>1 DEF ScanSays
<1>6. ASSUME ~ scan.error PROVE ScanSays(entries, n + 1, next)
  <2>1. PICK k \in 0..n : /\ Shape(entries, n, k)
                          /\ scan.groups = GroupsUpTo(entries, k)
                          /\ scan.seen_missing <=> k < n
    BY <1>6 DEF ScanSays
  <2>2. CASE entry.creds = "none"
    <3>1. Shape(entries, n + 1, k) /\ k \in 0..(n + 1) /\ k < n + 1
      BY <2>1, <2>2 DEF Shape
    <3>. QED  BY <1>2, <1>6, <2>1, <2>2, <3>1 DEF ScanSays
  <2>3. CASE entry.creds # "none" /\ bad
    <3>1. next.error
      BY <1>2, <1>6, <2>3
    <3>2. ASSUME NEW j \in 0..(n + 1), Shape(entries, n + 1, j) PROVE FALSE
      <4>1. Shape(entries, n, n) /\ entry.creds = "all" /\ entry.limit # "bad"
        BY <1>4, <2>3, <3>2
      <4>2. k < n
        BY <2>1, <2>3, <4>1
      <4>3. entries[k + 1].creds = "none" /\ entries[k + 1].creds = "all"
        BY <2>1, <4>1, <4>2 DEF Shape
      <4>. QED  BY <4>3
    <3>. QED  BY <1>2, <3>1, <3>2 DEF ScanSays
  <2>4. CASE entry.creds # "none" /\ ~ bad
    <3>1. k = n
      BY <2>1, <2>4
    <3>2. Shape(entries, n + 1, n + 1)
      BY <1>3, <2>1, <2>4, <3>1 DEF Shape
    <3>3. next.groups = GroupsUpTo(entries, n + 1)
      <4>1. next.groups = Append(GroupsUpTo(entries, n), Group(n + 1, entry))
        BY <1>2, <1>6, <2>1, <2>4, <3>1
      <4>2. Append(GroupsUpTo(entries, n), Group(n + 1, entry)) = GroupsUpTo(entries, n + 1)
        BY OneGroupMore
      <4>. QED  BY <4>1, <4>2
    <3>. QED  BY <1>2, <1>6, <2>4, <3>2, <3>3 DEF ScanSays
  <2>. QED  BY <2>2, <2>3, <2>4
<1>. QED  BY <1>5, <1>6 DEF next

\* The whole pass.
LEMMA ScanIs ==
    ASSUME NEW entries \in [Indices -> Entries]
    PROVE  ScanSays(entries, MaxGroupIndex, Scan(entries))
<1>. DEFINE scan == Pass(entries)
            S == {n \in Nat : n <= MaxGroupIndex => ScanSays(entries, n, scan[n])}
<1>0. /\ MaxGroupIndex \in Nat
      /\ \A i \in 0..MaxGroupIndex :
           scan[i] = IF i = 0 THEN NothingScanned ELSE ScanIndex(scan[i - 1], i, entries[i])
  <2>1. IsPass(scan, entries, MaxGroupIndex)
    BY PassExists
  <2>. HIDE DEF scan
  <2>. QED  BY <2>1, EnvConfigAssumption DEF IsPass
<1>. HIDE DEF scan
<1>1. 0 \in S
  <2>1. scan[0] = NothingScanned
    BY <1>0
  <2>2. NothingScanned \in Scans /\ GroupsUpTo(entries, 0) = << >>
    BY EmptySeq DEF NothingScanned, Scans, GroupsUpTo
  <2>3. Shape(entries, 0, 0)
    BY DEF Shape
  <2>4. ScanSays(entries, 0, NothingScanned)
    BY <2>2, <2>3 DEF ScanSays, NothingScanned
  <2>. QED  BY <2>1, <2>4
<1>2. \A n \in Nat : n \in S => n + 1 \in S
  <2>. SUFFICES ASSUME NEW n \in Nat, n \in S, n + 1 <= MaxGroupIndex
                PROVE  ScanSays(entries, n + 1, scan[n + 1])
    OBVIOUS
  <2>1. n + 1 \in Indices /\ n <= MaxGroupIndex
    BY <1>0 DEF Indices
  <2>2. scan[n + 1] = ScanIndex(scan[n], n + 1, entries[n + 1])
    BY <1>0, <2>1 DEF Indices
  <2>. QED  BY <2>1, <2>2, ScanStep
<1>. HIDE DEF S
<1>3. MaxGroupIndex \in S
  BY <1>0, <1>1, <1>2, SetInduction
<1>. QED  BY <1>0, <1>3 DEF S, Scan, scan

\* The scan's groups and the variables' names agree on what is a duplicate.
LEMMA ParseGroupsIs ==
    ASSUME NEW entries \in [Indices -> Entries]
    PROVE  /\ ParseGroups(entries) # ConfigError <=> WellNumbered(entries)
           /\ ParseGroups(entries) # ConfigError =>
                \E k \in Indices : /\ Complete(entries) = 1..k
                                   /\ ParseGroups(entries) = GroupsUpTo(entries, k)
                                   /\ ParseGroups(entries) \in Seq(Groups)
                                   /\ Len(ParseGroups(entries)) = k
<1>. DEFINE scan == Scan(entries)
<1>0. /\ MaxGroupIndex \in Nat /\ ConfigError \notin Seq(Groups)
      /\ ScanSays(entries, MaxGroupIndex, scan)
      /\ \A n \in Indices : entries[n].creds \in {"none", "some", "all"}
  BY ScanIs, EnvConfigAssumption DEF Entries
<1>1. ParseGroups(entries) = IF scan.error \/ scan.groups = << >> \/ DuplicateName(scan.groups)
                             THEN ConfigError ELSE scan.groups
  BY DEF ParseGroups
<1>. HIDE DEF scan
<1>2. \A k \in 0..MaxGroupIndex :
        Complete(entries) = 1..k /\ (\A n \in Indices \ Complete(entries) : entries[n].creds = "none")
          /\ (\A n \in Complete(entries) : entries[n].limit # "bad")
          <=> Shape(entries, MaxGroupIndex, k)
  <2>. SUFFICES ASSUME NEW k \in 0..MaxGroupIndex
                PROVE  /\ Complete(entries) = 1..k
                       /\ \A n \in Indices \ Complete(entries) : entries[n].creds = "none"
                       /\ \A n \in Complete(entries) : entries[n].limit # "bad"
                       <=> Shape(entries, MaxGroupIndex, k)
    OBVIOUS
  <2>1. Indices = (1..k) \cup ((k + 1)..MaxGroupIndex) /\ (1..k) \cap ((k + 1)..MaxGroupIndex) = {}
    BY <1>0 DEF Indices
  <2>. QED  BY <2>1 DEF Shape, Complete
<1>3. CASE scan.error
  <2>1. ParseGroups(entries) = ConfigError
    BY <1>1, <1>3
  <2>2. \A k \in 0..MaxGroupIndex : ~ Shape(entries, MaxGroupIndex, k)
    BY <1>0, <1>3 DEF ScanSays
  <2>3. Indices \subseteq 0..MaxGroupIndex
    BY <1>0 DEF Indices
  <2>. QED  BY <1>2, <2>1, <2>2, <2>3 DEF WellNumbered
<1>4. CASE ~ scan.error
  <2>1. PICK k \in 0..MaxGroupIndex : /\ Shape(entries, MaxGroupIndex, k)
                                      /\ scan.groups = GroupsUpTo(entries, k)
    BY <1>0, <1>4 DEF ScanSays
  <2>2. /\ scan.groups \in Seq(Groups) /\ Len(scan.groups) = k
        /\ DOMAIN scan.groups = 1..k
        /\ scan.groups = << >> <=> k = 0
        /\ \A n \in 1..k : scan.groups[n] = Group(n, entries[n])
    <3>1. scan.groups \in Seq(Groups)
      BY <1>0 DEF ScanSays, Scans
    <3>2. DOMAIN scan.groups = 1..k /\ \A n \in 1..k : scan.groups[n] = Group(n, entries[n])
      BY <2>1 DEF GroupsUpTo
    <3>3. DOMAIN scan.groups = 1..Len(scan.groups) /\ Len(scan.groups) \in Nat
      BY <3>1, LenProperties
    <3>4. Len(scan.groups) = k
      BY <1>0, <3>2, <3>3
    <3>. QED  BY <3>1, <3>2, <3>4, EmptySeq
  <2>3. Complete(entries) = 1..k
        /\ (\A n \in Indices \ Complete(entries) : entries[n].creds = "none")
        /\ (\A n \in Complete(entries) : entries[n].limit # "bad")
    BY <1>2, <2>1
  <2>4. DuplicateName(scan.groups)
          <=> ~ \A m, n \in Complete(entries) :
                  m # n => Group(m, entries[m]).name # Group(n, entries[n]).name
    BY <2>2, <2>3 DEF DuplicateName
  <2>5. k \in Indices <=> k # 0
    BY <1>0 DEF Indices
  <2>6. (\E j \in Indices : Complete(entries) = 1..j) <=> k # 0
    <3>1. ASSUME k = 0, NEW j \in Indices, 1..k = 1..j PROVE FALSE
      BY <1>0, <3>1 DEF Indices
    <3>. QED  BY <2>3, <2>5, <3>1
  <2>7. WellNumbered(entries) <=> k # 0 /\ ~ DuplicateName(scan.groups)
    BY <2>3, <2>4, <2>6 DEF WellNumbered
  <2>8. ParseGroups(entries) # ConfigError <=> k # 0 /\ ~ DuplicateName(scan.groups)
    BY <1>0, <1>1, <1>4, <2>2
  <2>9. ParseGroups(entries) # ConfigError => ParseGroups(entries) = scan.groups
    BY <1>1
  <2>. QED  BY <2>1, <2>2, <2>3, <2>5, <2>7, <2>8, <2>9
<1>. QED  BY <1>3, <1>4

\* The whole configuration.
LEMMA LoadConfigIs ==
    ASSUME NEW env \in Environs
    PROVE  /\ LoadConfig(env) # ConfigError <=> WellConfigured(env)
           /\ LoadConfig(env) # ConfigError =>
                /\ LoadConfig(env) \in Configs
                /\ LoadConfig(env).source = env.source
                /\ env.source = "env" =>
                     \E k \in Indices :
                        /\ Complete(env.entries) = 1..k
                        /\ Len(LoadConfig(env).groups) = k
                        /\ LoadConfig(env).groups = GroupsUpTo(env.entries, k)
<1>. DEFINE result == [source |-> env.source, admin_ui |-> env.admin_ui,
                       groups |-> GroupsOf(env)]
            refused == \/ \E s \in Settings : ~ Acceptable(env, s)
                       \/ env.source = "other"
                       \/ env.source = "database" /\ env.admin_ui /\ ~ env.password
                       \/ GroupsOf(env) = ConfigError
<1>1. LoadConfig(env) = IF refused THEN ConfigError ELSE result
  BY DEF LoadConfig
<1>2. /\ env.source \in {"env", "database", "other"}
      /\ env.admin_ui \in BOOLEAN /\ env.password \in BOOLEAN
      /\ env.entries \in [Indices -> Entries]
  BY DEF Environs
<1>3. env.source = "database" => GroupsOf(env) = << >> /\ << >> \in Seq(Groups)
  BY EmptySeq DEF GroupsOf
<1>4. env.source = "env" => GroupsOf(env) = ParseGroups(env.entries)
  BY DEF GroupsOf
<1>5. ~ refused => /\ result \in Configs
                   /\ env.source = "env" =>
                        \E k \in Indices :
                           /\ Complete(env.entries) = 1..k
                           /\ Len(GroupsOf(env)) = k
                           /\ GroupsOf(env) = GroupsUpTo(env.entries, k)
  <2>. SUFFICES ASSUME ~ refused
                PROVE  /\ result \in Configs
                       /\ env.source = "env" =>
                            \E k \in Indices :
                               /\ Complete(env.entries) = 1..k
                               /\ Len(GroupsOf(env)) = k
                               /\ GroupsOf(env) = GroupsUpTo(env.entries, k)
    OBVIOUS
  <2>1. env.source \in {"env", "database"} /\ GroupsOf(env) # ConfigError
    BY <1>2
  <2>2. GroupsOf(env) \in Seq(Groups)
    BY <1>2, <1>3, <1>4, <2>1, ParseGroupsIs
  <2>. QED  BY <1>2, <1>4, <2>1, <2>2, ParseGroupsIs DEF Configs
<1>6. ConfigError \notin Seq(Groups) \cup Configs
  BY EnvConfigAssumption
<1>7. refused <=> ~ WellConfigured(env)
  <2>1. CASE env.source = "env"
    BY <1>2, <1>4, <2>1, ParseGroupsIs DEF WellConfigured
  <2>2. CASE env.source = "database"
    BY <1>2, <1>3, <1>6, <2>2 DEF WellConfigured
  <2>3. CASE env.source = "other"
    BY <2>3 DEF WellConfigured
  <2>. QED  BY <1>2, <2>1, <2>2, <2>3
<1>8. result.source = env.source /\ result.groups = GroupsOf(env)
  OBVIOUS
<1>. HIDE DEF result, refused
<1>. QED  BY <1>1, <1>5, <1>6, <1>7, <1>8

-----------------------------------------------------------------------------
(* rows_to_desired.                                                        *)

\* The recursion equation of the pass over the first n rows.
IsRowPass(f, rows, n) ==
    f = [i \in 0..n |-> IF i = 0 THEN << >> ELSE MapRow(f[i - 1], i, rows[i])]

\* A pass can be made one row longer.
LEMMA RowPassGoesOn ==
    ASSUME NEW rows, NEW n \in Nat, NEW f, IsRowPass(f, rows, n)
    PROVE  \E g : IsRowPass(g, rows, n + 1)
<1>. DEFINE g == [i \in 0..(n + 1) |->
                    IF i = n + 1 THEN MapRow(f[n], n + 1, rows[n + 1]) ELSE f[i]]
<1>1. \A i \in 0..n : f[i] = IF i = 0 THEN << >> ELSE MapRow(f[i - 1], i, rows[i])
  BY DEF IsRowPass
<1>2. \A i \in 0..(n + 1) : g[i] = IF i = 0 THEN << >> ELSE MapRow(g[i - 1], i, rows[i])
  <2>. SUFFICES ASSUME NEW i \in 0..(n + 1)
                PROVE  g[i] = IF i = 0 THEN << >> ELSE MapRow(g[i - 1], i, rows[i])
    OBVIOUS
  <2>1. CASE i = n + 1
    BY <2>1
  <2>2. CASE i \in 0..n /\ i # 0
    <3>1. g[i] = f[i] /\ g[i - 1] = f[i - 1]
      BY <2>2
    <3>. QED  BY <1>1, <2>2, <3>1
  <2>3. CASE i = 0
    BY <1>1, <2>3
  <2>. QED  BY <2>1, <2>2, <2>3
<1>3. g = [i \in 0..(n + 1) |-> g[i]]
  OBVIOUS
<1>. HIDE DEF g
<1>4. IsRowPass(g, rows, n + 1)
  BY <1>2, <1>3 DEF IsRowPass
<1>. QED  BY <1>4

\* So there is one over all rows, and DesiredSoFar is one.
LEMMA RowPassExists ==
    ASSUME NEW rows, Len(rows) \in Nat
    PROVE  IsRowPass(DesiredSoFar(rows), rows, Len(rows))
<1>. DEFINE S == {n \in Nat : \E f : IsRowPass(f, rows, n)}
<1>1. 0 \in S
  <2>1. IsRowPass([i \in 0..0 |-> << >>], rows, 0)
    BY DEF IsRowPass
  <2>. QED  BY <2>1
<1>2. \A n \in Nat : n \in S => n + 1 \in S
  BY RowPassGoesOn
<1>. HIDE DEF S
<1>3. Nat \subseteq S
  BY <1>1, <1>2, SetInduction
<1>4. \E f : IsRowPass(f, rows, Len(rows))
  BY <1>3 DEF S
<1>5. DesiredSoFar(rows) = CHOOSE f : IsRowPass(f, rows, Len(rows))
  BY DEF DesiredSoFar, IsRowPass
<1>. QED  BY <1>4, <1>5

\* The first n rows are as WellFilled wants all of them.
FilledUpTo(rows, n) ==
    /\ \A i \in 1..n : ValidFields(rows[i])
    /\ \A i, j \in 1..n :
         rows[i].enabled /\ rows[j].enabled /\ i # j => rows[i].name # rows[j].name

\* What is known after n rows: they are refused exactly when they are not so, and else
\* the groups are those of the enabled ones, in their order.
RowsSay(rows, n, d) ==
    /\ d = RowsRefused <=> ~ FilledUpTo(rows, n)
    /\ d # RowsRefused =>
         /\ d \in Seq(DesiredGroups)
         /\ \A k \in 1..Len(d) : \E i \in 1..n : rows[i].enabled /\ d[k] = RowGroup(i, rows[i])
         /\ \A i \in 1..n : rows[i].enabled => \E k \in 1..Len(d) : d[k] = RowGroup(i, rows[i])
         /\ \A k, l \in 1..Len(d) : k < l => d[k].index < d[l].index

\* A desired group.
LEMMA RowGroupIs ==
    ASSUME NEW i \in Nat, NEW row \in Rows
    PROVE  /\ RowGroup(i, row) \in DesiredGroups
           /\ RowGroup(i, row).index = i /\ RowGroup(i, row).name = row.name
BY DEF RowGroup, DesiredGroups, Rows

\* What is said of the rows stays true from row to row.
LEMMA MapRowStep ==
    ASSUME NEW rows \in Seq(Rows), NEW n \in Nat, n + 1 \in 1..Len(rows),
           NEW d, RowsSay(rows, n, d)
    PROVE  RowsSay(rows, n + 1, MapRow(d, n + 1, rows[n + 1]))
<1>. DEFINE row == rows[n + 1]
            next == MapRow(d, n + 1, row)
            group == RowGroup(n + 1, row)
<1>1. /\ \A i \in 1..(n + 1) : rows[i] \in Rows
      /\ 1..(n + 1) = (1..n) \cup {n + 1}
  BY ElementOfSeq, LenProperties
<1>2. /\ \A i \in 1..(n + 1) : /\ RowGroup(i, rows[i]) \in DesiredGroups
                               /\ RowGroup(i, rows[i]).index = i
                               /\ RowGroup(i, rows[i]).name = rows[i].name
  BY <1>1, RowGroupIs
<1>3. RowsRefused \notin Seq(DesiredGroups)
  BY GroupTableAssumption
<1>4. FilledUpTo(rows, n + 1) <=>
        /\ FilledUpTo(rows, n) /\ ValidFields(row)
        /\ row.enabled => \A i \in 1..n : rows[i].enabled => rows[i].name # row.name
  BY <1>1 DEF FilledUpTo
<1>5. ASSUME d = RowsRefused PROVE RowsSay(rows, n + 1, next)
  BY <1>4, <1>5 DEF RowsSay, MapRow
<1>6. ASSUME d # RowsRefused, ~ ValidFields(row) PROVE RowsSay(rows, n + 1, next)
  BY <1>4, <1>6 DEF RowsSay, MapRow
<1>7. ASSUME d # RowsRefused, ValidFields(row), ~ row.enabled
      PROVE  RowsSay(rows, n + 1, next)
  <2>1. next = d
    BY <1>7 DEF MapRow
  <2>2. /\ d \in Seq(DesiredGroups) /\ FilledUpTo(rows, n)
        /\ \A k \in 1..Len(d) : \E i \in 1..n : rows[i].enabled /\ d[k] = RowGroup(i, rows[i])
        /\ \A i \in 1..n : rows[i].enabled => \E k \in 1..Len(d) : d[k] = RowGroup(i, rows[i])
        /\ \A k, l \in 1..Len(d) : k < l => d[k].index < d[l].index
    BY <1>7 DEF RowsSay
  <2>3. FilledUpTo(rows, n + 1)
    BY <1>4, <1>7, <2>2
  <2>4. \A i \in 1..(n + 1) : rows[i].enabled => i \in 1..n
    BY <1>1, <1>7
  <2>5. \A i \in 1..n : i \in 1..(n + 1)
    OBVIOUS
  <2>. HIDE DEF next
  <2>. QED  BY <1>7, <2>1, <2>2, <2>3, <2>4, <2>5 DEF RowsSay
<1>8. ASSUME d # RowsRefused, ValidFields(row), row.enabled
      PROVE  RowsSay(rows, n + 1, next)
  <2>1. /\ d \in Seq(DesiredGroups) /\ FilledUpTo(rows, n)
        /\ \A k \in 1..Len(d) : \E i \in 1..n : rows[i].enabled /\ d[k] = RowGroup(i, rows[i])
        /\ \A i \in 1..n : rows[i].enabled => \E k \in 1..Len(d) : d[k] = RowGroup(i, rows[i])
        /\ \A k, l \in 1..Len(d) : k < l => d[k].index < d[l].index
    BY <1>8 DEF RowsSay
  <2>2. DOMAIN d = 1..Len(d) /\ Len(d) \in Nat
    BY <2>1, LenProperties
  <2>3. Taken(d, row.name) <=> \E i \in 1..n : rows[i].enabled /\ rows[i].name = row.name
    <3>1. Taken(d, row.name) <=> \E k \in 1..Len(d) : d[k].name = row.name
      BY <2>2 DEF Taken, Range
    <3>2. ASSUME NEW k \in 1..Len(d), d[k].name = row.name
          PROVE  \E i \in 1..n : rows[i].enabled /\ rows[i].name = row.name
      <4>1. PICK i \in 1..n : rows[i].enabled /\ d[k] = RowGroup(i, rows[i])
        BY <2>1
      <4>2. RowGroup(i, rows[i]).name = rows[i].name
        BY <1>1, <1>2
      <4>. QED  BY <3>2, <4>1, <4>2
    <3>3. ASSUME NEW i \in 1..n, rows[i].enabled, rows[i].name = row.name
          PROVE  \E k \in 1..Len(d) : d[k].name = row.name
      <4>1. PICK k \in 1..Len(d) : d[k] = RowGroup(i, rows[i])
        BY <2>1, <3>3
      <4>2. RowGroup(i, rows[i]).name = rows[i].name
        BY <1>1, <1>2
      <4>. QED  BY <3>3, <4>1, <4>2
    <3>. QED  BY <3>1, <3>2, <3>3
  <2>4. CASE Taken(d, row.name)
    <3>1. next = RowsRefused
      BY <1>8, <2>4 DEF MapRow
    <3>. HIDE DEF next
    <3>. QED  BY <1>4, <1>8, <2>3, <2>4, <3>1 DEF RowsSay
  <2>5. CASE ~ Taken(d, row.name)
    <3>1. next = Append(d, group)
      BY <1>8, <2>5 DEF MapRow
    <3>2. group \in DesiredGroups /\ group.index = n + 1
      BY <1>2
    <3>3. /\ next \in Seq(DesiredGroups) /\ Len(next) = Len(d) + 1
          /\ \A k \in 1..Len(d) : next[k] = d[k]
          /\ next[Len(d) + 1] = group
      <4>. HIDE DEF next, group
      <4>. QED  BY <2>1, <3>1, <3>2, AppendProperties
    <3>. HIDE DEF next
    <3>4. FilledUpTo(rows, n + 1) /\ next # RowsRefused
      BY <1>3, <1>4, <1>8, <2>1, <2>3, <2>5, <3>3
    <3>5. \A k \in 1..Len(next) :
            \E i \in 1..(n + 1) : rows[i].enabled /\ next[k] = RowGroup(i, rows[i])
      <4>. SUFFICES ASSUME NEW k \in 1..Len(next)
                    PROVE  \E i \in 1..(n + 1) :
                             rows[i].enabled /\ next[k] = RowGroup(i, rows[i])
        OBVIOUS
      <4>1. CASE k \in 1..Len(d)
        BY <1>1, <2>1, <3>3, <4>1
      <4>2. CASE k = Len(d) + 1
        BY <1>1, <1>8, <3>3, <4>2
      <4>. QED  BY <2>2, <3>3, <4>1, <4>2
    <3>6. \A i \in 1..(n + 1) :
            rows[i].enabled => \E k \in 1..Len(next) : next[k] = RowGroup(i, rows[i])
      <4>. SUFFICES ASSUME NEW i \in 1..(n + 1), rows[i].enabled
                    PROVE  \E k \in 1..Len(next) : next[k] = RowGroup(i, rows[i])
        OBVIOUS
      <4>1. CASE i \in 1..n
        <5>1. PICK k \in 1..Len(d) : d[k] = RowGroup(i, rows[i])
          BY <2>1, <4>1
        <5>2. k \in 1..Len(next) /\ next[k] = d[k]
          BY <2>2, <3>3
        <5>. QED  BY <5>1, <5>2
      <4>2. CASE i = n + 1
        <5>1. Len(d) + 1 \in 1..Len(next)
          BY <2>2, <3>3
        <5>. QED  BY <3>3, <4>2, <5>1
      <4>. QED  BY <1>1, <4>1, <4>2
    <3>7. \A k, l \in 1..Len(next) : k < l => next[k].index < next[l].index
      <4>. SUFFICES ASSUME NEW k \in 1..Len(next), NEW l \in 1..Len(next), k < l
                    PROVE  next[k].index < next[l].index
        OBVIOUS
      <4>1. k \in 1..Len(d) /\ next[k] = d[k]
        BY <2>2, <3>3
      <4>2. CASE l \in 1..Len(d)
        BY <2>1, <3>3, <4>1, <4>2
      <4>3. CASE l = Len(d) + 1
        <5>1. PICK i \in 1..n : d[k] = RowGroup(i, rows[i])
          BY <2>1, <4>1
        <5>2. d[k].index = i
          BY <1>1, <1>2, <5>1
        <5>. QED  BY <3>2, <3>3, <4>1, <4>3, <5>2
      <4>. QED  BY <2>2, <3>3, <4>2, <4>3
    <3>. HIDE DEF group
    <3>. QED  BY <3>3, <3>4, <3>5, <3>6, <3>7 DEF RowsSay
  <2>. QED  BY <2>4, <2>5
<1>. HIDE DEF next
<1>9. RowsSay(rows, n + 1, next)
  BY <1>5, <1>6, <1>7, <1>8
<1>. QED  BY <1>9 DEF next

\* The whole table.
LEMMA RowsToDesiredIs ==
    ASSUME NEW rows \in Seq(Rows)
    PROVE  RowsSay(rows, Len(rows), RowsToDesired(rows))
<1>. DEFINE d == DesiredSoFar(rows)
            S == {n \in Nat : n <= Len(rows) => RowsSay(rows, n, d[n])}
<1>0. /\ Len(rows) \in Nat
      /\ \A i \in 0..Len(rows) : d[i] = IF i = 0 THEN << >> ELSE MapRow(d[i - 1], i, rows[i])
  <2>1. Len(rows) \in Nat
    BY LenProperties
  <2>2. IsRowPass(d, rows, Len(rows))
    BY <2>1, RowPassExists
  <2>. HIDE DEF d
  <2>. QED  BY <2>1, <2>2 DEF IsRowPass
<1>. HIDE DEF d
<1>1. 0 \in S
  <2>1. d[0] = << >> /\ << >> \in Seq(DesiredGroups) /\ Len(<< >>) = 0
    BY <1>0, EmptySeq
  <2>2. RowsSay(rows, 0, d[0])
    <3>1. FilledUpTo(rows, 0)
      BY DEF FilledUpTo
    <3>2. d[0] # RowsRefused
      BY <2>1, GroupTableAssumption
    <3>3. 1..Len(d[0]) = {} /\ 1..0 = {}
      BY <2>1
    <3>. QED  BY <2>1, <3>1, <3>2, <3>3 DEF RowsSay
  <2>. QED  BY <2>2
<1>2. \A n \in Nat : n \in S => n + 1 \in S
  <2>. SUFFICES ASSUME NEW n \in Nat, n \in S, n + 1 <= Len(rows)
                PROVE  RowsSay(rows, n + 1, d[n + 1])
    OBVIOUS
  <2>1. n + 1 \in 1..Len(rows) /\ n <= Len(rows)
    BY <1>0
  <2>2. d[n + 1] = MapRow(d[n], n + 1, rows[n + 1])
    BY <1>0, <2>1
  <2>. QED  BY <2>1, <2>2, MapRowStep
<1>. HIDE DEF S
<1>3. Len(rows) \in S
  BY <1>0, <1>1, <1>2, SetInduction
<1>. QED  BY <1>0, <1>3 DEF S, RowsToDesired, d

-----------------------------------------------------------------------------
(* The life of the process: what holds wherever the main coroutine is.     *)

Statuses == {"pending", "ok", "failed", "cancelled"}

\* What was found, what was made of it, and the types of the rest.
Known ==
    /\ [environ |-> environ, table |-> table] \in Started
    /\ config \in {NotLoaded, ConfigError} \cup Configs
    /\ config # NotLoaded => config = LoadConfig(environ)
    /\ desired \in {NotLoaded, RowsRefused} \cup Seq(DesiredGroups)
    /\ desired # NotLoaded => desired = RowsToDesired(table)
    /\ exit_code \in {0, 1}
    /\ \A g \in Clients : connects[g] \in Statuses
    /\ disconnected \subseteq Clients
    /\ sweeper \in BOOLEAN /\ listening \in BOOLEAN
    /\ repo \in {"none", "open", "closed"}
    /\ loop \in {"none", "running", "cancelling", "done"}
    /\ requests \in 0..MaxRequests
    /\ interrupted \in {"none", "start", "service"}
    /\ todo \in Seq(Parts)

\* No database, no loop and no admin UI; so it is in environment mode throughout.
NoService ==
    /\ desired = NotLoaded /\ repo = "none" /\ loop = "none"
    /\ listening = FALSE /\ requests = 0

Untouched == disconnected = {} /\ interrupted = "none"

NotBegun == NoService /\ Untouched /\ Clients = {} /\ sweeper = FALSE

AtLoad == main = "load" /\ config = NotLoaded /\ NotBegun

Refused == main = "exited" /\ config = ConfigError /\ exit_code = 1 /\ NotBegun

\* Environment mode.  All clients are connected once it serves, and all are
\* disconnected when it ends with 0.
AllConnectedIn(S) == \A g \in Clients : connects[g] = "ok" /\ g \in S

InEnv ==
    /\ config \in Configs /\ config.source = "env" /\ NoService
    /\ Clients = DOMAIN config.groups
    /\ \/ main = "connecting" /\ Untouched
       \/ main = "serving" /\ Untouched /\ sweeper /\ AllConnectedIn(Clients)
       \/ main \in {"ending", "exited"} /\ exit_code = 1
       \/ /\ main \in {"ending", "exited"} /\ exit_code = 0 /\ interrupted = "service"
          /\ AllConnectedIn(disconnected)
       \/ main = "exited" /\ exit_code = 0 /\ interrupted = "start"
    /\ main = "ending" => todo \in Seq({"close_dify"})

\* Database mode until it serves.
Opening ==
    /\ main \in {"opening", "listing"}
    /\ Untouched /\ Clients = {} /\ desired = NotLoaded
    /\ repo = (IF main = "opening" THEN "none" ELSE "open")
    /\ loop = "none" /\ listening = FALSE /\ requests = 0

Serving ==
    /\ main \in {"binding", "serving"}
    /\ Untouched /\ desired \in Seq(DesiredGroups) /\ Clients = DOMAIN desired
    /\ sweeper /\ repo = "open" /\ loop = "running"
    /\ listening \in BOOLEAN /\ (listening <=> main = "serving" /\ config.admin_ui)
    /\ requests > 0 => listening
    /\ main = "binding" => config.admin_ui

\* A failure before it serves: the database and the Dify client are closed.
Failed ==
    /\ main = "ending" /\ exit_code = 1
    /\ Untouched /\ listening = FALSE /\ requests = 0
    /\ loop \in {"none", "running"} /\ (loop = "running" => sweeper)
    /\ loop # "none" => repo # "none"
    /\ todo \in Seq({"close_dify", "close_repo"})

\* The parts of a stop in service, and that t is the last k of them.
Order == [i \in 1..5 |->
    IF i = 1 THEN "await_loop" ELSE IF i = 2 THEN "stop_admin"
    ELSE IF i = 3 THEN "shutdown_manager" ELSE IF i = 4 THEN "close_repo" ELSE "close_dify"]

IsRest(t, k) ==
    t \in Seq(Parts) /\ Len(t) = k /\ \A i \in 1..k : t[i] = Order[i + (5 - k)]

\* All of them but "stop_admin".
IsRestWithoutAdmin(t) ==
    /\ t \in Seq(Parts) /\ Len(t) = 4
    /\ t[1] = "await_loop" /\ \A i \in 2..4 : t[i] = Order[i + 1]

\* Every connect is over, and what came of it is disconnected.
Settled ==
    \A g \in Clients :
        \/ connects[g] \in {"ok", "cancelled"} /\ g \in disconnected
        \/ connects[g] = "failed"

Quiet == listening = FALSE /\ requests = 0

Stopping ==
    /\ main = "ending" /\ exit_code = 0 /\ interrupted = "service" /\ sweeper
    /\ loop \in {"cancelling", "done"}
    /\ \/ /\ IsRest(todo, 5) \/ (IsRestWithoutAdmin(todo) /\ Quiet)
          /\ disconnected = {} /\ repo = "open"
       \/ /\ IsRest(todo, 4) /\ loop = "done" /\ disconnected = {} /\ repo = "open"
       \/ /\ IsRest(todo, 3) /\ loop = "done" /\ disconnected = {} /\ repo = "open" /\ Quiet
       \/ /\ IsRest(todo, 2) /\ loop = "done" /\ Settled /\ repo = "open" /\ Quiet
       \/ /\ IsRest(todo, 1) \/ IsRest(todo, 0)
          /\ loop = "done" /\ Settled /\ repo = "closed" /\ Quiet

\* The process is gone: a stop in service was finished, or it failed or was interrupted
\* before.
Gone ==
    /\ main = "exited" /\ listening = FALSE /\ requests = 0
    /\ loop \in {"none", "done"} /\ (loop = "done" => sweeper)
    /\ \/ exit_code = 1 /\ disconnected = {}
       \/ exit_code = 0 /\ interrupted = "start" /\ disconnected = {}
       \/ exit_code = 0 /\ interrupted = "service" /\ Settled /\ repo = "closed"

InDb ==
    /\ config \in Configs /\ config.source = "database"
    /\ Opening \/ Serving \/ Failed \/ Stopping \/ Gone

IInv == Known /\ (AtLoad \/ Refused \/ InEnv \/ InDb)

-----------------------------------------------------------------------------
\* Where each step can be taken.
LEMMA Guards ==
    /\ LoadRefused \/ LoadAccepted => main = "load"
    /\ AllConnected \/ OneFailed => main = "connecting"
    /\ OpenRepo => main = "opening"
    /\ DatabaseFails => main \in {"opening", "listing"}
    /\ RowsAreRefused \/ StartGroups => main = "listing"
    /\ StartAdmin \/ PortTaken => main = "binding"
    /\ LoopAwaited => Turn("await_loop")
    /\ StopListening \/ AdminStopped => Turn("stop_admin")
    /\ ShutdownManager => Turn("shutdown_manager")
    /\ CloseRepo => Turn("close_repo")
    /\ CloseDify => Turn("close_dify")
    /\ CleanupEnds => main = "ending" /\ todo = << >>
    /\ LoopCancelled => loop = "cancelling"
    /\ InterruptStart => /\ interrupted = "none"
                         /\ main \in {"connecting", "opening", "listing", "binding", "ending"}
    /\ InterruptEnv => main = "serving" /\ config.source # "database" /\ interrupted = "none"
    /\ InterruptDatabase => main = "serving" /\ config.source = "database" /\ interrupted = "none"
    /\ RequestArrives => listening
    /\ RequestEnds => requests > 0
    /\ \A g \in Clients : ConnectEnds(g) => main # "exited" /\ connects[g] = "pending"
    /\ \A part : Turn(part) => main = "ending" /\ todo # << >> /\ Head(todo) = part
<1>1. /\ LoadRefused \/ LoadAccepted => main = "load"
      /\ AllConnected \/ OneFailed => main = "connecting"
      /\ OpenRepo => main = "opening"
      /\ DatabaseFails => main \in {"opening", "listing"}
  BY DEF LoadRefused, LoadAccepted, AllConnected, OneFailed, OpenRepo, DatabaseFails
<1>2. /\ RowsAreRefused \/ StartGroups => main = "listing"
      /\ StartAdmin \/ PortTaken => main = "binding"
  BY DEF RowsAreRefused, StartGroups, RowsAccepted, StartAdmin, PortTaken
<1>3. /\ LoopAwaited => Turn("await_loop")
      /\ StopListening \/ AdminStopped => Turn("stop_admin")
      /\ ShutdownManager => Turn("shutdown_manager")
  BY DEF LoopAwaited, StopListening, AdminStopped, ShutdownManager
<1>4. /\ CloseRepo => Turn("close_repo")
      /\ CloseDify => Turn("close_dify")
      /\ CleanupEnds => main = "ending" /\ todo = << >>
      /\ LoopCancelled => loop = "cancelling"
  BY DEF CloseRepo, CloseDify, CleanupEnds, LoopCancelled
<1>5. /\ InterruptStart => /\ interrupted = "none"
                           /\ main \in {"connecting", "opening", "listing", "binding", "ending"}
      /\ InterruptEnv => main = "serving" /\ config.source # "database" /\ interrupted = "none"
      /\ InterruptDatabase =>
           main = "serving" /\ config.source = "database" /\ interrupted = "none"
  BY DEF InterruptStart, InterruptEnv, InterruptDatabase, InDatabase
<1>6. /\ RequestArrives => listening
      /\ RequestEnds => requests > 0
      /\ \A g \in Clients : ConnectEnds(g) => main # "exited" /\ connects[g] = "pending"
      /\ \A part : Turn(part) => main = "ending" /\ todo # << >> /\ Head(todo) = part
  BY DEF RequestArrives, RequestEnds, ConnectEnds, Turn
<1>. QED  BY <1>1, <1>2, <1>3, <1>4, <1>5, <1>6

\* A connect ends: nothing else changes, and what was over stays so.
LEMMA ConnectEndsKeeps ==
    ASSUME Known, NEW g \in Clients, ConnectEnds(g)
    PROVE  /\ Known' /\ Clients' = Clients
           /\ UNCHANGED <<environ, table, config, desired, main, todo, exit_code, disconnected,
                          sweeper, repo, loop, listening, requests, interrupted>>
           /\ Settled => Settled'
           /\ \A S : AllConnectedIn(S) => AllConnectedIn(S)'
<1>1. UNCHANGED <<environ, table, config, desired, main, todo, exit_code, disconnected,
                  sweeper, repo, loop, listening, requests, interrupted>>
  BY DEF ConnectEnds, found, background
<1>2. PICK outcome \in {"ok", "failed"} : connects' = [connects EXCEPT ![g] = outcome]
  BY DEF ConnectEnds
<1>3. /\ Clients' = Clients
      /\ \A h \in Clients : connects'[h] = IF h = g THEN outcome ELSE connects[h]
  BY <1>2 DEF Clients
<1>4. connects[g] = "pending"
  BY DEF ConnectEnds
<1>5. Known'
  BY <1>1, <1>3 DEF Known, Statuses
<1>6. Settled => Settled'
  BY <1>1, <1>3, <1>4 DEF Settled
<1>7. \A S : AllConnectedIn(S) => AllConnectedIn(S)'
  BY <1>3, <1>4 DEF AllConnectedIn
<1>. QED  BY <1>1, <1>3, <1>5, <1>6, <1>7

\* The end of the process.
LEMMA ExitIs ==
    ASSUME Known, NEW code \in {0, 1}, Exit(code),
           UNCHANGED <<environ, table, config, desired, connects, disconnected, sweeper, repo,
                       listening>>,
           interrupted' \in {"none", "start", "service"}
    PROVE  /\ Known' /\ Clients' = Clients
           /\ main' = "exited" /\ exit_code' = code /\ requests' = 0
           /\ loop' \in {"none", "done"} /\ (loop' = "none" <=> loop = "none")
<1>1. main' = "exited" /\ exit_code' = code /\ requests' = 0 /\ todo' = << >>
      /\ loop' = IF loop = "none" THEN "none" ELSE "done"
  BY DEF Exit
<1>2. << >> \in Seq(Parts) /\ 0 \in 0..MaxRequests
  BY EmptySeq, ProcessAssumption
<1>. QED  BY <1>1, <1>2 DEF Known, Clients

\* A step of the cleanup: t is not empty, and its parts are those of a set.
LEMMA TailIs ==
    ASSUME NEW S, NEW t \in Seq(S), t # << >>
    PROVE  /\ Head(t) = t[1] /\ Head(t) \in S
           /\ Tail(t) \in Seq(S)
           /\ Len(t) \in Nat /\ Len(t) >= 1 /\ Len(Tail(t)) = Len(t) - 1
           /\ \A i \in 1..(Len(t) - 1) : Tail(t)[i] = t[i + 1]
<1>1. Len(t) \in Nat \ {0}
  BY EmptySeq
<1>2. Head(t) = t[1] /\ t[1] \in S
  BY <1>1, ElementOfSeq, HeadTailProperties
<1>. QED  BY <1>1, <1>2, HeadTailProperties

\* What is in a concatenation, and where.
LEMMA ConcatIs ==
    ASSUME NEW S, NEW s \in Seq(S), NEW t \in Seq(S)
    PROVE  /\ s \o t \in Seq(S) /\ Len(s \o t) = Len(s) + Len(t)
           /\ \A i \in 1..Len(s) : (s \o t)[i] = s[i]
           /\ \A i \in 1..Len(t) : (s \o t)[i + Len(s)] = t[i]
<1>1. Len(s) \in Nat /\ Len(t) \in Nat
  BY LenProperties
<1>2. \A i \in 1..(Len(s) + Len(t)) : (s \o t)[i] = IF i <= Len(s) THEN s[i] ELSE t[i - Len(s)]
  BY ConcatProperties
<1>3. \A i \in 1..Len(t) : /\ i + Len(s) \in 1..(Len(s) + Len(t)) /\ ~ (i + Len(s) <= Len(s))
                           /\ (i + Len(s)) - Len(s) = i
  BY <1>1
<1>4. \A i \in 1..Len(t) : (s \o t)[i + Len(s)] = t[(i + Len(s)) - Len(s)]
  BY <1>2, <1>3
<1>5. \A i \in 1..Len(s) : (s \o t)[i] = s[i]
  BY <1>1, <1>2
<1>. QED  BY <1>3, <1>4, <1>5, ConcatProperties

\* The order of a stop in service, part by part.
LEMMA StopOrderIs ==
    /\ config.admin_ui => IsRest(StopOrder, 5)
    /\ ~ config.admin_ui => IsRestWithoutAdmin(StopOrder)
<1>1. /\ <<"await_loop">> \in Seq(Parts) /\ <<"stop_admin">> \in Seq(Parts)
      /\ <<"shutdown_manager", "close_repo", "close_dify">> \in Seq(Parts)
  BY DEF Parts
<1>2. PICK first \in Seq(Parts) : first = <<"await_loop">>
  BY <1>1
<1>3. PICK admin \in Seq(Parts) : admin = <<"stop_admin">>
  BY <1>1
<1>4. PICK last \in Seq(Parts) : last = <<"shutdown_manager", "close_repo", "close_dify">>
  BY <1>1
<1>5. Len(first) = 1 /\ Len(admin) = 1 /\ Len(last) = 3
  BY <1>2, <1>3, <1>4
<1>6. /\ first[1] = "await_loop" /\ admin[1] = "stop_admin"
      /\ last[1] = "shutdown_manager" /\ last[2] = "close_repo" /\ last[3] = "close_dify"
  BY <1>2, <1>3, <1>4
<1>7. StopOrder = (first \o (IF config.admin_ui THEN admin ELSE << >>)) \o last
  BY <1>2, <1>3, <1>4 DEF StopOrder
<1>8. CASE config.admin_ui
  <2>1. PICK front : front = first \o admin
    OBVIOUS
  <2>2. /\ first \o admin \in Seq(Parts) /\ Len(first \o admin) = Len(first) + Len(admin)
        /\ \A i \in 1..Len(first) : (first \o admin)[i] = first[i]
        /\ \A i \in 1..Len(admin) : (first \o admin)[i + Len(first)] = admin[i]
    BY ConcatIs
  <2>3. /\ front \in Seq(Parts) /\ Len(front) = 2
        /\ front[1] = "await_loop" /\ front[1 + 1] = "stop_admin"
    BY <1>5, <1>6, <2>1, <2>2
  <2>4. front \in Seq(Parts)
    BY <2>3
  <2>5. PICK t : t = front \o last
    OBVIOUS
  <2>6. /\ front \o last \in Seq(Parts) /\ Len(front \o last) = Len(front) + Len(last)
        /\ \A i \in 1..Len(front) : (front \o last)[i] = front[i]
        /\ \A i \in 1..Len(last) : (front \o last)[i + Len(front)] = last[i]
    BY <2>4, ConcatIs
  <2>7. /\ t \in Seq(Parts) /\ Len(t) = 5
        /\ t[1] = "await_loop" /\ t[2] = "stop_admin" /\ t[1 + 2] = "shutdown_manager"
        /\ t[2 + 2] = "close_repo" /\ t[3 + 2] = "close_dify"
    BY <1>5, <1>6, <2>3, <2>5, <2>6
  <2>8. IsRest(t, 5)
    BY <2>7 DEF IsRest, Order
  <2>. QED  BY <1>7, <1>8, <2>1, <2>5, <2>8
<1>9. CASE ~ config.admin_ui
  <2>1. PICK t : t = first \o last
    OBVIOUS
  <2>2. first \o << >> = first
    BY ConcatEmptySeq
  <2>3. StopOrder = t
    BY <1>7, <1>9, <2>1, <2>2
  <2>4. /\ first \o last \in Seq(Parts) /\ Len(first \o last) = Len(first) + Len(last)
        /\ \A i \in 1..Len(first) : (first \o last)[i] = first[i]
        /\ \A i \in 1..Len(last) : (first \o last)[i + Len(first)] = last[i]
    BY ConcatIs
  <2>5. /\ t \in Seq(Parts) /\ Len(t) = 4
        /\ t[1] = "await_loop" /\ t[1 + 1] = "shutdown_manager"
        /\ t[2 + 1] = "close_repo" /\ t[3 + 1] = "close_dify"
    BY <1>5, <1>6, <2>1, <2>4
  <2>6. IsRestWithoutAdmin(t)
    BY <2>5 DEF IsRestWithoutAdmin, Order
  <2>. QED  BY <1>9, <2>3, <2>6
<1>. QED  BY <1>8, <1>9

\* What is left of a stop after its next part.
LEMMA RestIs ==
    ASSUME NEW t
    PROVE  /\ \A k \in 1..5 : IsRest(t, k) =>
                t # << >> /\ Head(t) = Order[6 - k] /\ IsRest(Tail(t), k - 1)
           /\ IsRestWithoutAdmin(t) =>
                t # << >> /\ Head(t) = "await_loop" /\ IsRest(Tail(t), 3)
           /\ IsRest(t, 0) => t = << >>
<1>1. ASSUME NEW k \in 1..5, IsRest(t, k)
      PROVE  t # << >> /\ Head(t) = Order[6 - k] /\ IsRest(Tail(t), k - 1)
  <2>1. t \in Seq(Parts) /\ Len(t) = k /\ \A i \in 1..k : t[i] = Order[i + (5 - k)]
    BY <1>1 DEF IsRest
  <2>2. t # << >>
    BY <2>1, EmptySeq
  <2>3. /\ Head(t) = t[1] /\ Tail(t) \in Seq(Parts) /\ Len(Tail(t)) = Len(t) - 1
        /\ \A i \in 1..(Len(t) - 1) : Tail(t)[i] = t[i + 1]
    BY <2>1, <2>2, TailIs
  <2>4. t[1] = Order[1 + (5 - k)] /\ 1 + (5 - k) = 6 - k
    BY <2>1
  <2>5. \A i \in 1..(k - 1) : /\ i \in 1..(Len(t) - 1) /\ i + 1 \in 1..k
                              /\ (i + 1) + (5 - k) = i + (5 - (k - 1))
    BY <2>1
  <2>6. \A i \in 1..(k - 1) : Tail(t)[i] = Order[i + (5 - (k - 1))]
    BY <2>1, <2>3, <2>5
  <2>. QED  BY <2>1, <2>2, <2>3, <2>4, <2>6 DEF IsRest
<1>2. ASSUME IsRestWithoutAdmin(t)
      PROVE  t # << >> /\ Head(t) = "await_loop" /\ IsRest(Tail(t), 3)
  <2>1. t \in Seq(Parts) /\ Len(t) = 4
    BY <1>2 DEF IsRestWithoutAdmin
  <2>2. t[1] = "await_loop" /\ \A i \in 2..4 : t[i] = Order[i + 1]
    BY <1>2 DEF IsRestWithoutAdmin
  <2>3. t # << >>
    BY <2>1, EmptySeq
  <2>4. /\ Head(t) = t[1] /\ Tail(t) \in Seq(Parts) /\ Len(Tail(t)) = Len(t) - 1
        /\ \A i \in 1..(Len(t) - 1) : Tail(t)[i] = t[i + 1]
    BY <2>1, <2>3, TailIs
  <2>5. \A i \in 1..3 : i \in 1..(Len(t) - 1) /\ i + 1 \in 2..4 /\ (i + 1) + 1 = i + (5 - 3)
    BY <2>1
  <2>6. \A i \in 1..3 : Tail(t)[i] = Order[i + (5 - 3)]
    BY <2>2, <2>4, <2>5
  <2>7. Len(Tail(t)) = 3
    BY <2>1, <2>4
  <2>8. IsRest(Tail(t), 3)
    BY <2>4, <2>6, <2>7 DEF IsRest
  <2>. QED  BY <2>2, <2>3, <2>4, <2>8
<1>3. IsRest(t, 0) => t = << >>
  BY EmptySeq DEF IsRest
<1>. QED  BY <1>1, <1>2, <1>3

\* The order itself.
LEMMA OrderIs ==
    /\ Order[1] = "await_loop" /\ Order[2] = "stop_admin" /\ Order[3] = "shutdown_manager"
    /\ Order[4] = "close_repo" /\ Order[5] = "close_dify"
BY DEF Order

\* The cleanup after a failure.
LEMMA CleanupIs ==
    /\ <<"close_dify">> \in Seq({"close_dify"}) /\ <<"close_dify">> \in Seq(Parts)
    /\ <<"close_dify", "close_repo">> \in Seq({"close_dify", "close_repo"})
    /\ <<"close_dify", "close_repo">> \in Seq(Parts)
BY DEF Parts

-----------------------------------------------------------------------------
\* The process finds what it may find.
LEMMA InitIInv == Init => IInv
<1>. SUFFICES ASSUME Init PROVE IInv
  OBVIOUS
<1>1. PICK start \in Started : environ = start.environ /\ table = start.table
  BY DEF Init
<1>2. [environ |-> environ, table |-> table] \in Started
  <2>1. start \in [environ : Environs, table : Seq(Rows)]
    BY ProcessAssumption
  <2>2. start = [environ |-> start.environ, table |-> start.table]
    BY <2>1
  <2>. QED  BY <1>1, <2>2
<1>3. Clients = {} /\ << >> \in Seq(Parts) /\ 0 \in 0..MaxRequests
  BY EmptySeq, ProcessAssumption DEF Init, Clients
<1>4. Known
  BY <1>2, <1>3 DEF Init, Known
<1>5. AtLoad
  BY <1>3 DEF Init, AtLoad, NotBegun, NoService, Untouched
<1>. QED  BY <1>4, <1>5 DEF IInv

\* What was found is an environment and a table.
LEMMA FoundIs ==
    ASSUME Known
    PROVE  environ \in Environs /\ table \in Seq(Rows) /\ IsTable(table)
<1>1. [environ |-> environ, table |-> table] \in Started
  BY DEF Known
<1>2. [environ |-> environ, table |-> table] \in [environ : Environs, table : Seq(Rows)]
  BY <1>1, ProcessAssumption
<1>3. IsTable([environ |-> environ, table |-> table].table)
  BY <1>1, ProcessAssumption
<1>. QED  BY <1>2, <1>3

\* load_config() refuses, or it goes on in one of the two modes.
LEMMA LoadIInv == ASSUME Known, AtLoad, LoadRefused \/ LoadAccepted PROVE IInv'
<1>1. environ \in Environs /\ NotBegun
  BY FoundIs DEF AtLoad
<1>2. CASE LoadRefused
  <2>1. config' = LoadConfig(environ) /\ config' = ConfigError /\ Exit(1)
        /\ UNCHANGED <<environ, table, desired, connects, disconnected, sweeper, repo, listening,
                       interrupted>>
    BY <1>2 DEF LoadRefused, found
  <2>2. main' = "exited" /\ exit_code' = 1 /\ requests' = 0 /\ todo' = << >> /\ loop' = "none"
    BY <1>1, <2>1 DEF Exit, NotBegun, NoService
  <2>3. << >> \in Seq(Parts) /\ 0 \in 0..MaxRequests
    BY EmptySeq, ProcessAssumption
  <2>4. Known'
    BY <2>1, <2>2, <2>3 DEF Known, Clients
  <2>5. Refused'
    BY <1>1, <2>1, <2>2 DEF Refused, NotBegun, NoService, Untouched, Clients
  <2>. QED  BY <2>4, <2>5 DEF IInv
<1>3. CASE LoadAccepted
  <2>1. /\ config' = LoadConfig(environ) /\ config' # ConfigError
        /\ main' = IF config'.source = "database" THEN "opening" ELSE "connecting"
        /\ connects' = [g \in DOMAIN config'.groups |-> "pending"]
        /\ UNCHANGED <<environ, table, desired, todo, exit_code, disconnected, sweeper, repo, loop,
                       listening, requests, interrupted>>
    BY <1>3 DEF LoadAccepted, found, background
  <2>2. config' \in Configs /\ config'.source = environ.source
    BY <1>1, <2>1, LoadConfigIs
  <2>3. config'.source \in {"env", "database"}
    BY <2>2 DEF Configs
  <2>4. Clients' = DOMAIN config'.groups /\ (\A g \in Clients' : connects'[g] = "pending")
    BY <2>1 DEF Clients
  <2>5. Known'
    BY <1>1, <2>1, <2>2, <2>4 DEF Known, Statuses, NotBegun, Untouched
  <2>6. CASE config'.source = "env"
    <3>1. InEnv'
      BY <1>1, <2>1, <2>2, <2>4, <2>6 DEF InEnv, NotBegun, NoService, Untouched
    <3>. QED  BY <2>5, <3>1 DEF IInv
  <2>7. CASE config'.source = "database"
    <3>1. config'.groups = << >>
      <4>1. config' = [source |-> environ.source, admin_ui |-> environ.admin_ui,
                       groups |-> GroupsOf(environ)]
        BY <2>1 DEF LoadConfig
      <4>2. environ.source = "database"
        BY <2>2, <2>7
      <4>. QED  BY <4>1, <4>2 DEF GroupsOf
    <3>2. Clients' = {}
      BY <2>4, <3>1
    <3>3. Opening'
      BY <1>1, <2>1, <2>7, <3>2 DEF Opening, NotBegun, NoService, Untouched
    <3>. QED  BY <2>2, <2>5, <2>7, <3>3 DEF IInv, InDb
  <2>. QED  BY <2>3, <2>6, <2>7
<1>. QED  BY <1>2, <1>3

\* A step in environment mode.
LEMMA EnvIInv == ASSUME Known, InEnv, Next PROVE Known' /\ InEnv'
<1>1. /\ loop = "none" /\ listening = FALSE /\ requests = 0
      /\ config \in Configs /\ config.source = "env" /\ config.source # "database"
      /\ main \in {"connecting", "serving", "ending", "exited"}
  BY DEF InEnv, NoService
<1>2. main = "ending" => todo = << >> \/ Head(todo) = "close_dify"
  BY TailIs DEF InEnv
<1>3. \/ \E g \in Clients : ConnectEnds(g)
      \/ AllConnected \/ OneFailed \/ InterruptStart \/ InterruptEnv \/ CloseDify \/ CleanupEnds
  BY <1>1, <1>2, Guards DEF Next, MainStep, StartStep, StopStep, Interrupt
<1>4. ASSUME NEW g \in Clients, ConnectEnds(g) PROVE Known' /\ InEnv'
  <2>1. /\ Known' /\ Clients' = Clients
        /\ UNCHANGED <<environ, table, config, desired, main, todo, exit_code, disconnected,
                       sweeper, repo, loop, listening, requests, interrupted>>
        /\ \A S : AllConnectedIn(S) => AllConnectedIn(S)'
    BY <1>4, ConnectEndsKeeps
  <2>2. AllConnectedIn(Clients) => AllConnectedIn(Clients)'
    BY <2>1 DEF AllConnectedIn
  <2>3. AllConnectedIn(disconnected) => AllConnectedIn(disconnected)'
    BY <2>1 DEF AllConnectedIn
  <2>4. InEnv'
    BY <2>1, <2>2, <2>3 DEF InEnv, NoService, Untouched
  <2>. QED  BY <2>1, <2>4
<1>5. CASE AllConnected
  <2>1. /\ main = "connecting" /\ main' = "serving" /\ sweeper' = TRUE
        /\ \A g \in Clients : connects[g] = "ok"
        /\ UNCHANGED <<environ, table, config, desired, todo, exit_code, connects, disconnected,
                       repo, loop, listening, requests, interrupted>>
    BY <1>5 DEF AllConnected, found
  <2>2. Known'
    BY <2>1 DEF Known, Clients
  <2>3. InEnv'
    BY <2>1 DEF InEnv, NoService, Untouched, AllConnectedIn, Clients
  <2>. QED  BY <2>2, <2>3
<1>6. CASE OneFailed
  <2>1. /\ main' = "ending" /\ exit_code' = 1 /\ todo' = <<"close_dify">>
        /\ UNCHANGED <<environ, table, config, desired, connects, disconnected, sweeper, repo,
                       loop, listening, requests, interrupted>>
    BY <1>1, <1>6 DEF OneFailed, Failing, InDatabase, found, background
  <2>2. Known'
    BY <2>1, CleanupIs DEF Known, Clients
  <2>3. InEnv'
    BY <2>1, CleanupIs DEF InEnv, NoService, Clients
  <2>. QED  BY <2>2, <2>3
<1>7. CASE InterruptStart
  <2>1. /\ Exit(0) /\ interrupted' = "start"
        /\ UNCHANGED <<environ, table, config, desired, connects, disconnected, sweeper, repo,
                       listening>>
    BY <1>7 DEF InterruptStart, found
  <2>2. /\ Known' /\ Clients' = Clients
        /\ main' = "exited" /\ exit_code' = 0 /\ requests' = 0 /\ loop' = "none"
    BY <1>1, <2>1, ExitIs
  <2>3. InEnv'
    BY <2>1, <2>2 DEF InEnv, NoService
  <2>. QED  BY <2>2, <2>3
<1>8. CASE InterruptEnv
  <2>1. /\ main = "serving" /\ interrupted' = "service"
        /\ UNCHANGED <<environ, table, config, desired, connects, sweeper, repo, loop, listening,
                       requests>>
        /\ \/ /\ disconnected' = Clients
              /\ main' = "ending" /\ todo' = <<"close_dify">> /\ exit_code' = 0
           \/ /\ disconnected' \subseteq Clients
              /\ main' = "ending" /\ todo' = <<"close_dify">> /\ exit_code' = 1
    BY <1>1, <1>8 DEF InterruptEnv, Failing, InDatabase, found, background
  <2>2. Known'
    BY <2>1, CleanupIs DEF Known, Clients
  <2>3. AllConnectedIn(Clients)
    BY <2>1 DEF InEnv
  <2>4. disconnected' = Clients => AllConnectedIn(disconnected)'
    BY <2>1, <2>3 DEF AllConnectedIn, Clients
  <2>5. InEnv'
    BY <2>1, <2>4, CleanupIs DEF InEnv, NoService, Clients
  <2>. QED  BY <2>2, <2>5
<1>9. CASE CloseDify
  <2>1. /\ main = "ending" /\ todo # << >> /\ todo' = Tail(todo)
        /\ UNCHANGED <<environ, table, config, desired, main, exit_code, connects, disconnected,
                       sweeper, repo, loop, listening, requests, interrupted>>
    BY <1>9 DEF CloseDify, Turn, Proceed, found, background
  <2>2. todo' \in Seq({"close_dify"}) /\ todo' \in Seq(Parts)
    BY <2>1, TailIs DEF InEnv, Known
  <2>3. Known'
    BY <2>1, <2>2 DEF Known, Clients
  <2>4. InEnv'
    BY <2>1, <2>2 DEF InEnv, NoService, AllConnectedIn, Clients
  <2>. QED  BY <2>3, <2>4
<1>10. CASE CleanupEnds
  <2>1. /\ main = "ending" /\ Exit(exit_code)
        /\ UNCHANGED <<environ, table, config, desired, connects, disconnected, sweeper, repo,
                       listening, interrupted>>
    BY <1>10 DEF CleanupEnds, found
  <2>2. exit_code \in {0, 1} /\ interrupted \in {"none", "start", "service"}
    BY DEF Known
  <2>3. /\ Known' /\ Clients' = Clients
        /\ main' = "exited" /\ exit_code' = exit_code /\ requests' = 0 /\ loop' = "none"
    BY <1>1, <2>1, <2>2, ExitIs
  <2>4. AllConnectedIn(disconnected) => AllConnectedIn(disconnected)'
    BY <2>1, <2>3 DEF AllConnectedIn
  <2>5. InEnv'
    BY <2>1, <2>3, <2>4 DEF InEnv, NoService
  <2>. QED  BY <2>3, <2>5
<1>. QED  BY <1>3, <1>4, <1>5, <1>6, <1>7, <1>8, <1>9, <1>10

\* A step in database mode before there are groups.
LEMMA OpeningIInv ==
    ASSUME Known, config \in Configs, config.source = "database", Opening, Next
    PROVE  Known' /\ InDb'
<1>1. /\ loop = "none" /\ listening = FALSE /\ requests = 0 /\ Clients = {}
      /\ main \in {"opening", "listing"} /\ interrupted = "none" /\ disconnected = {}
  BY DEF Opening, Untouched
<1>2. OpenRepo \/ DatabaseFails \/ RowsAreRefused \/ StartGroups \/ InterruptStart
  BY <1>1, Guards DEF Next, MainStep, StartStep, StopStep, Interrupt
<1>3. CASE OpenRepo
  <2>1. /\ repo' = "open" /\ main' = "listing"
        /\ UNCHANGED <<environ, table, config, desired, todo, exit_code, connects, disconnected,
                       sweeper, loop, listening, requests, interrupted>>
    BY <1>3 DEF OpenRepo, found
  <2>2. Known'
    BY <2>1 DEF Known, Clients
  <2>3. Opening'
    BY <2>1 DEF Opening, Untouched, Clients
  <2>. QED  BY <2>1, <2>2, <2>3 DEF InDb
<1>4. CASE DatabaseFails \/ RowsAreRefused
  <2>1. /\ main' = "ending" /\ exit_code' = 1 /\ todo' = <<"close_dify", "close_repo">>
        /\ UNCHANGED <<environ, table, config, connects, disconnected, sweeper, repo, loop,
                       listening, requests, interrupted>>
        /\ \/ desired' = desired
           \/ desired' = RowsToDesired(table) /\ desired' = RowsRefused
    BY <1>4 DEF DatabaseFails, RowsAreRefused, Failing, InDatabase, found, background
  <2>2. Known'
    BY <2>1, CleanupIs DEF Known, Clients
  <2>3. Failed'
    BY <1>1, <2>1, CleanupIs DEF Failed, Untouched
  <2>. QED  BY <2>1, <2>2, <2>3 DEF InDb
<1>5. CASE StartGroups
  <2>1. /\ desired' = RowsToDesired(table) /\ desired' # RowsRefused
        /\ connects' = [g \in DOMAIN desired' |-> "pending"]
        /\ main = "listing" /\ main' = IF config.admin_ui THEN "binding" ELSE "serving"
        /\ sweeper' = TRUE /\ loop' = "running"
        /\ UNCHANGED <<environ, table, config, todo, exit_code, disconnected, repo, listening,
                       requests, interrupted>>
    BY <1>5 DEF StartGroups, RowsAccepted, found
  <2>2. desired' \in Seq(DesiredGroups)
    BY <2>1, FoundIs, RowsToDesiredIs DEF RowsSay
  <2>3. Clients' = DOMAIN desired' /\ (\A g \in Clients' : connects'[g] = "pending")
    BY <2>1 DEF Clients
  <2>4. Known'
    BY <1>1, <2>1, <2>2, <2>3 DEF Known, Statuses
  <2>5. config.admin_ui \in BOOLEAN
    BY DEF Configs
  <2>6. repo = "open"
    BY <2>1 DEF Opening
  <2>7. /\ main' \in {"binding", "serving"} /\ (main' = "binding" <=> config'.admin_ui)
        /\ listening' = FALSE /\ ~ (requests' > 0)
    BY <1>1, <2>1, <2>5
  <2>8. Untouched' /\ sweeper' /\ repo' = "open" /\ loop' = "running"
    BY <1>1, <2>1, <2>6 DEF Untouched
  <2>9. listening' \in BOOLEAN /\ (listening' <=> main' = "serving" /\ config'.admin_ui)
    BY <2>7
  <2>10. Serving'
    BY <2>2, <2>3, <2>7, <2>8, <2>9, Zenon DEF Serving
  <2>. QED  BY <2>1, <2>4, <2>10 DEF InDb
<1>6. CASE InterruptStart
  <2>1. /\ Exit(0) /\ interrupted' = "start"
        /\ UNCHANGED <<environ, table, config, desired, connects, disconnected, sweeper, repo,
                       listening>>
    BY <1>6 DEF InterruptStart, found
  <2>2. /\ Known' /\ Clients' = Clients
        /\ main' = "exited" /\ exit_code' = 0 /\ requests' = 0 /\ loop' = "none"
    BY <1>1, <2>1, ExitIs
  <2>3. Gone'
    BY <1>1, <2>1, <2>2 DEF Gone
  <2>. QED  BY <2>1, <2>2, <2>3 DEF InDb
<1>. QED  BY <1>2, <1>3, <1>4, <1>5, <1>6

\* A step in database mode in service.
LEMMA ServingIInv ==
    ASSUME Known, config \in Configs, config.source = "database", Serving, Next
    PROVE  Known' /\ InDb'
<1>1. /\ loop = "running" /\ repo = "open" /\ sweeper
      /\ main \in {"binding", "serving"} /\ interrupted = "none" /\ disconnected = {}
      /\ config.admin_ui \in BOOLEAN /\ requests \in 0..MaxRequests
      /\ main = "binding" => listening = FALSE /\ requests = 0 /\ config.admin_ui
      /\ ~ config.admin_ui => listening = FALSE /\ requests = 0
      /\ main = "serving" /\ config.admin_ui => listening = TRUE
  <2>1. requests \in 0..MaxRequests /\ config.admin_ui \in BOOLEAN /\ MaxRequests \in Nat
    BY ProcessAssumption DEF Known, Configs
  <2>. QED  BY <2>1 DEF Serving, Untouched
<1>2. \/ \E g \in Clients : ConnectEnds(g)
      \/ StartAdmin \/ PortTaken \/ RequestArrives \/ RequestEnds
      \/ InterruptStart \/ InterruptDatabase
  BY <1>1, Guards DEF Next, MainStep, StartStep, StopStep, Interrupt
<1>3. ASSUME NEW g \in Clients, ConnectEnds(g) PROVE Known' /\ InDb'
  <2>1. /\ Known' /\ Clients' = Clients
        /\ UNCHANGED <<environ, table, config, desired, main, todo, exit_code, disconnected,
                       sweeper, repo, loop, listening, requests, interrupted>>
    BY <1>3, ConnectEndsKeeps
  <2>2. Serving'
    BY <2>1 DEF Serving, Untouched
  <2>. QED  BY <2>1, <2>2 DEF InDb
<1>4. CASE StartAdmin
  <2>1. /\ main = "binding" /\ main' = "serving" /\ listening' = TRUE
        /\ UNCHANGED <<environ, table, config, desired, todo, exit_code, connects, disconnected,
                       sweeper, repo, loop, requests, interrupted>>
    BY <1>4 DEF StartAdmin, found
  <2>2. Known'
    BY <2>1 DEF Known, Clients
  <2>3. Serving'
    BY <1>1, <2>1 DEF Serving, Untouched, Clients
  <2>. QED  BY <2>1, <2>2, <2>3 DEF InDb
<1>5. CASE PortTaken
  <2>1. /\ main = "binding"
        /\ main' = "ending" /\ exit_code' = 1 /\ todo' = <<"close_dify", "close_repo">>
        /\ UNCHANGED <<environ, table, config, desired, connects, disconnected, sweeper, repo,
                       loop, listening, requests, interrupted>>
    BY <1>5 DEF PortTaken, Failing, InDatabase, found, background
  <2>2. Known'
    BY <2>1, CleanupIs DEF Known, Clients
  <2>3. Failed'
    BY <1>1, <2>1, CleanupIs DEF Failed, Untouched
  <2>. QED  BY <2>1, <2>2, <2>3 DEF InDb
<1>6. CASE RequestArrives \/ RequestEnds
  <2>1. /\ requests' \in 0..MaxRequests /\ (requests' > 0 => listening)
        /\ UNCHANGED <<environ, table, config, desired, main, todo, exit_code, connects,
                       disconnected, sweeper, repo, loop, listening, interrupted>>
    <3>1. requests \in 0..MaxRequests /\ MaxRequests \in Nat /\ (requests > 0 => listening)
      BY <1>1, ProcessAssumption DEF Serving
    <3>. QED  BY <1>6, <3>1 DEF RequestArrives, RequestEnds, found
  <2>2. Known'
    BY <2>1 DEF Known, Clients
  <2>3. Serving'
    BY <2>1 DEF Serving, Untouched, Clients
  <2>. QED  BY <2>1, <2>2, <2>3 DEF InDb
<1>7. CASE InterruptStart
  <2>1. /\ Exit(0) /\ interrupted' = "start" /\ main = "binding"
        /\ UNCHANGED <<environ, table, config, desired, connects, disconnected, sweeper, repo,
                       listening>>
    BY <1>1, <1>7 DEF InterruptStart, found
  <2>2. /\ Known' /\ Clients' = Clients
        /\ main' = "exited" /\ exit_code' = 0 /\ requests' = 0 /\ loop' = "done"
    BY <1>1, <2>1, ExitIs
  <2>3. Gone'
    BY <1>1, <2>1, <2>2 DEF Gone
  <2>. QED  BY <2>1, <2>2, <2>3 DEF InDb
<1>8. CASE InterruptDatabase
  <2>1. /\ main = "serving" /\ interrupted' = "service" /\ main' = "ending"
        /\ todo' = StopOrder /\ exit_code' = 0 /\ loop' = "cancelling"
        /\ UNCHANGED <<environ, table, config, desired, connects, disconnected, sweeper, repo,
                       listening, requests>>
    BY <1>8 DEF InterruptDatabase, found
  <2>2. /\ config.admin_ui => IsRest(todo', 5)
        /\ ~ config.admin_ui => IsRestWithoutAdmin(todo') /\ Quiet'
    BY <1>1, <2>1, StopOrderIs DEF Quiet
  <2>3. todo' \in Seq(Parts)
    BY <1>1, <2>2 DEF IsRest, IsRestWithoutAdmin
  <2>4. Known'
    BY <2>1, <2>3 DEF Known, Clients
  <2>5. Stopping'
    BY <1>1, <2>1, <2>2 DEF Stopping
  <2>. QED  BY <2>1, <2>4, <2>5 DEF InDb
<1>. QED  BY <1>2, <1>3, <1>4, <1>5, <1>6, <1>7, <1>8

\* A step of the cleanup after a failure.
LEMMA FailedIInv ==
    ASSUME Known, config \in Configs, config.source = "database", Failed, Next
    PROVE  Known' /\ InDb'
<1>1. /\ loop \in {"none", "running"} /\ listening = FALSE /\ requests = 0
      /\ main = "ending" /\ exit_code = 1 /\ interrupted = "none" /\ disconnected = {}
      /\ todo # << >> => Head(todo) \in {"close_dify", "close_repo"}
  BY TailIs DEF Failed, Untouched
<1>2. \/ \E g \in Clients : ConnectEnds(g)
      \/ CloseRepo \/ CloseDify \/ CleanupEnds \/ InterruptStart
  BY <1>1, Guards DEF Next, MainStep, StartStep, StopStep, Interrupt
<1>3. ASSUME NEW g \in Clients, ConnectEnds(g) PROVE Known' /\ InDb'
  <2>1. /\ Known' /\ Clients' = Clients
        /\ UNCHANGED <<environ, table, config, desired, main, todo, exit_code, disconnected,
                       sweeper, repo, loop, listening, requests, interrupted>>
    BY <1>3, ConnectEndsKeeps
  <2>2. Failed'
    BY <2>1 DEF Failed, Untouched
  <2>. QED  BY <2>1, <2>2 DEF InDb
<1>4. CASE CloseRepo \/ CloseDify
  <2>1. /\ todo # << >> /\ todo' = Tail(todo) /\ main' = main
        /\ \/ repo' = repo
           \/ repo' = "closed" /\ repo = "open"
        /\ UNCHANGED <<environ, table, config, desired, exit_code, connects, disconnected,
                       sweeper, loop, listening, requests, interrupted>>
    BY <1>4 DEF CloseRepo, CloseDify, Turn, Proceed, found, background
  <2>2. todo' \in Seq({"close_dify", "close_repo"}) /\ todo' \in Seq(Parts)
    BY <2>1, TailIs DEF Failed, Known
  <2>3. Known'
    BY <2>1, <2>2 DEF Known, Clients
  <2>4. Failed'
    BY <2>1, <2>2 DEF Failed, Untouched
  <2>. QED  BY <2>1, <2>3, <2>4 DEF InDb
<1>5. CASE CleanupEnds
  <2>1. /\ Exit(1)
        /\ UNCHANGED <<environ, table, config, desired, connects, disconnected, sweeper, repo,
                       listening, interrupted>>
    BY <1>1, <1>5 DEF CleanupEnds, found
  <2>2. /\ Known' /\ Clients' = Clients
        /\ main' = "exited" /\ exit_code' = 1 /\ requests' = 0
        /\ loop' \in {"none", "done"} /\ (loop' = "none" <=> loop = "none")
    BY <1>1, <2>1, ExitIs
  <2>3. Gone'
    BY <1>1, <2>1, <2>2 DEF Gone, Failed
  <2>. QED  BY <2>1, <2>2, <2>3 DEF InDb
<1>6. CASE InterruptStart
  <2>1. /\ Exit(0) /\ interrupted' = "start"
        /\ UNCHANGED <<environ, table, config, desired, connects, disconnected, sweeper, repo,
                       listening>>
    BY <1>6 DEF InterruptStart, found
  <2>2. /\ Known' /\ Clients' = Clients
        /\ main' = "exited" /\ exit_code' = 0 /\ requests' = 0
        /\ loop' \in {"none", "done"} /\ (loop' = "none" <=> loop = "none")
    BY <2>1, ExitIs
  <2>3. Gone'
    BY <1>1, <2>1, <2>2 DEF Gone, Failed
  <2>. QED  BY <2>1, <2>2, <2>3 DEF InDb
<1>. QED  BY <1>2, <1>3, <1>4, <1>5, <1>6

\* A step of a stop in service.
LEMMA StoppingIInv ==
    ASSUME Known, config \in Configs, config.source = "database", Stopping, Next
    PROVE  Known' /\ InDb'
<1>1. /\ main = "ending" /\ exit_code = 0 /\ interrupted = "service" /\ sweeper
      /\ loop \in {"cancelling", "done"}
  BY DEF Stopping
<1>2. /\ IsRest(todo, 5) \/ IsRestWithoutAdmin(todo) =>
           todo # << >> /\ Head(todo) = "await_loop"
      /\ IsRest(todo, 4) => todo # << >> /\ Head(todo) = "stop_admin"
      /\ IsRest(todo, 3) => todo # << >> /\ Head(todo) = "shutdown_manager"
      /\ IsRest(todo, 2) => todo # << >> /\ Head(todo) = "close_repo"
      /\ IsRest(todo, 1) => todo # << >> /\ Head(todo) = "close_dify"
      /\ IsRest(todo, 0) => todo = << >>
  BY RestIs, OrderIs
<1>3. /\ IsRest(todo, 5) => IsRest(Tail(todo), 4)
      /\ IsRest(todo, 4) \/ IsRestWithoutAdmin(todo) => IsRest(Tail(todo), 3)
      /\ IsRest(todo, 3) => IsRest(Tail(todo), 2)
      /\ IsRest(todo, 2) => IsRest(Tail(todo), 1)
      /\ IsRest(todo, 1) => IsRest(Tail(todo), 0)
  BY RestIs
<1>4. /\ Turn("await_loop") =>
           /\ IsRest(todo, 5) \/ (IsRestWithoutAdmin(todo) /\ Quiet)
           /\ disconnected = {} /\ repo = "open"
      /\ Turn("stop_admin") =>
           IsRest(todo, 4) /\ loop = "done" /\ disconnected = {} /\ repo = "open"
      /\ Turn("shutdown_manager") =>
           IsRest(todo, 3) /\ loop = "done" /\ disconnected = {} /\ repo = "open" /\ Quiet
      /\ Turn("close_repo") =>
           IsRest(todo, 2) /\ loop = "done" /\ Settled /\ repo = "open" /\ Quiet
      /\ Turn("close_dify") =>
           IsRest(todo, 1) /\ loop = "done" /\ Settled /\ repo = "closed" /\ Quiet
      /\ todo = << >> =>
           IsRest(todo, 0) /\ loop = "done" /\ Settled /\ repo = "closed" /\ Quiet
  BY <1>2 DEF Stopping, Turn
<1>5. /\ \A k \in 0..5 : IsRest(Tail(todo), k) => Tail(todo) \in Seq(Parts)
      /\ todo \in Seq(Parts)
  BY DEF IsRest, Known
<1>6. \/ \E g \in Clients : ConnectEnds(g)
      \/ RequestArrives \/ RequestEnds \/ LoopCancelled \/ LoopAwaited
      \/ StopListening \/ AdminStopped \/ ShutdownManager \/ CloseRepo
      \/ CloseDify \/ CleanupEnds
  BY <1>1, Guards DEF Next, MainStep, StartStep, StopStep, Interrupt
<1>7. ASSUME NEW g \in Clients, ConnectEnds(g) PROVE Known' /\ InDb'
  <2>1. /\ Known' /\ Clients' = Clients
        /\ UNCHANGED <<environ, table, config, desired, main, todo, exit_code, disconnected,
                       sweeper, repo, loop, listening, requests, interrupted>>
        /\ Settled => Settled'
    BY <1>7, ConnectEndsKeeps
  <2>2. Stopping'
    BY <2>1 DEF Stopping, Quiet
  <2>. QED  BY <2>1, <2>2 DEF InDb
<1>8. CASE RequestArrives \/ RequestEnds
  <2>1. requests \in 0..MaxRequests /\ MaxRequests \in Nat
    BY ProcessAssumption DEF Known
  <2>2. /\ requests' \in 0..MaxRequests
        /\ ~ Quiet
        /\ UNCHANGED <<environ, table, config, desired, main, todo, exit_code, connects,
                       disconnected, sweeper, repo, loop, listening, interrupted>>
    BY <1>8, <2>1 DEF RequestArrives, RequestEnds, Quiet, found
  <2>3. Known'
    BY <2>2 DEF Known, Clients
  <2>4. Stopping'
    BY <2>2 DEF Stopping
  <2>. QED  BY <2>2, <2>3, <2>4 DEF InDb
<1>9. CASE LoopCancelled
  <2>1. /\ loop = "cancelling" /\ loop' = "done"
        /\ UNCHANGED <<environ, table, config, desired, main, todo, exit_code, connects,
                       disconnected, sweeper, repo, listening, requests, interrupted>>
    BY <1>9 DEF LoopCancelled, found
  <2>2. Known'
    BY <2>1 DEF Known, Clients
  <2>3. Stopping'
    BY <2>1 DEF Stopping, Quiet
  <2>. QED  BY <2>1, <2>2, <2>3 DEF InDb
<1>10. CASE LoopAwaited
  <2>1. /\ Turn("await_loop") /\ loop = "done" /\ todo' = Tail(todo)
        /\ UNCHANGED <<environ, table, config, desired, main, exit_code, connects, disconnected,
                       sweeper, repo, loop, listening, requests, interrupted>>
    BY <1>10 DEF LoopAwaited, Proceed, found, background
  <2>2. IsRest(todo', 4) \/ (IsRest(todo', 3) /\ Quiet')
    BY <1>3, <1>4, <2>1 DEF Quiet
  <2>3. Known'
    BY <1>5, <2>1, <2>2 DEF Known, Clients
  <2>4. Stopping'
    BY <1>1, <1>4, <2>1, <2>2 DEF Stopping
  <2>. QED  BY <2>1, <2>3, <2>4 DEF InDb
<1>11. CASE StopListening
  <2>1. /\ Turn("stop_admin") /\ listening' = FALSE
        /\ UNCHANGED <<environ, table, config, desired, main, todo, exit_code, connects,
                       disconnected, sweeper, repo, loop, requests, interrupted>>
    BY <1>11 DEF StopListening, found
  <2>2. Known'
    BY <2>1 DEF Known, Clients
  <2>3. Stopping'
    BY <1>1, <1>4, <2>1 DEF Stopping
  <2>. QED  BY <2>1, <2>2, <2>3 DEF InDb
<1>12. CASE AdminStopped
  <2>1. /\ Turn("stop_admin") /\ ~ listening /\ requests' = 0 /\ todo' = Tail(todo)
        /\ UNCHANGED <<environ, table, config, desired, main, exit_code, connects, disconnected,
                       sweeper, repo, loop, listening, interrupted>>
    BY <1>12 DEF AdminStopped, Proceed, found
  <2>2. IsRest(todo', 3) /\ 0 \in 0..MaxRequests
    BY <1>3, <1>4, <2>1, ProcessAssumption
  <2>3. Known'
    BY <1>5, <2>1, <2>2 DEF Known, Clients
  <2>4. Quiet'
    BY <2>1 DEF Quiet, Known
  <2>5. Stopping'
    BY <1>1, <1>4, <2>1, <2>2, <2>4 DEF Stopping
  <2>. QED  BY <2>1, <2>3, <2>5 DEF InDb
<1>13. CASE ShutdownManager
  <2>1. /\ Turn("shutdown_manager") /\ todo' = Tail(todo)
        /\ connects' = [g \in Clients |->
                          IF connects[g] = "pending" THEN "cancelled" ELSE connects[g]]
        /\ disconnected' = {g \in Clients : connects[g] # "failed"}
        /\ UNCHANGED <<environ, table, config, desired, main, exit_code, sweeper, repo, loop,
                       listening, requests, interrupted>>
    BY <1>13 DEF ShutdownManager, Proceed, found, background
  <2>2. /\ Clients' = Clients /\ disconnected' \subseteq Clients
        /\ \A g \in Clients :
             connects'[g] = IF connects[g] = "pending" THEN "cancelled" ELSE connects[g]
    BY <2>1 DEF Clients
  <2>3. \A g \in Clients : connects[g] \in Statuses
    BY DEF Known
  <2>4. IsRest(todo', 2)
    BY <1>3, <1>4, <2>1
  <2>5. Known'
    BY <1>5, <2>1, <2>2, <2>3, <2>4 DEF Known, Statuses
  <2>6. Settled'
    BY <2>1, <2>2, <2>3 DEF Settled, Statuses
  <2>7. Stopping'
    BY <1>1, <1>4, <2>1, <2>4, <2>6 DEF Stopping, Quiet
  <2>. QED  BY <2>1, <2>5, <2>7 DEF InDb
<1>14. CASE CloseRepo
  <2>1. /\ Turn("close_repo") /\ todo' = Tail(todo)
        /\ repo' = IF repo = "open" THEN "closed" ELSE repo
        /\ UNCHANGED <<environ, table, config, desired, main, exit_code, connects, disconnected,
                       sweeper, loop, listening, requests, interrupted>>
    BY <1>14 DEF CloseRepo, Proceed, found
  <2>2. IsRest(todo', 1) /\ repo' = "closed"
    BY <1>3, <1>4, <2>1
  <2>3. Known'
    BY <1>5, <2>1, <2>2 DEF Known, Clients
  <2>4. Stopping'
    BY <1>1, <1>4, <2>1, <2>2 DEF Stopping, Settled, Quiet, Clients
  <2>. QED  BY <2>1, <2>3, <2>4 DEF InDb
<1>15. CASE CloseDify
  <2>1. /\ Turn("close_dify") /\ todo' = Tail(todo)
        /\ UNCHANGED <<environ, table, config, desired, main, exit_code, connects, disconnected,
                       sweeper, repo, loop, listening, requests, interrupted>>
    BY <1>15 DEF CloseDify, Proceed, found, background
  <2>2. IsRest(todo', 0)
    BY <1>3, <1>4, <2>1
  <2>3. Known'
    BY <1>5, <2>1, <2>2 DEF Known, Clients
  <2>4. Stopping'
    BY <1>1, <1>4, <2>1, <2>2 DEF Stopping, Settled, Quiet, Clients
  <2>. QED  BY <2>1, <2>3, <2>4 DEF InDb
<1>16. CASE CleanupEnds
  <2>1. /\ todo = << >> /\ Exit(0)
        /\ UNCHANGED <<environ, table, config, desired, connects, disconnected, sweeper, repo,
                       listening, interrupted>>
    BY <1>1, <1>16 DEF CleanupEnds, found
  <2>2. /\ Known' /\ Clients' = Clients
        /\ main' = "exited" /\ exit_code' = 0 /\ requests' = 0
        /\ loop' \in {"none", "done"} /\ (loop' = "none" <=> loop = "none")
    BY <1>1, <2>1, ExitIs
  <2>3. Settled'
    BY <1>4, <2>1, <2>2 DEF Settled
  <2>4. Gone'
    BY <1>1, <1>4, <2>1, <2>2, <2>3 DEF Gone, Quiet
  <2>. QED  BY <2>1, <2>2, <2>4 DEF InDb
<1>. QED  BY <1>6, <1>7, <1>8, <1>9, <1>10, <1>11, <1>12, <1>13, <1>14, <1>15, <1>16

\* Nothing that is gone or refused does anything.
LEMMA NothingAfterExit ==
    ASSUME main = "exited", loop # "cancelling", listening = FALSE, requests = 0, Next
    PROVE  FALSE
BY Guards DEF Next, MainStep, StartStep, StopStep, Interrupt

\* Every step keeps the inductive invariant.
LEMMA NextIInv == IInv /\ [Next]_vars => IInv'
<1>. SUFFICES ASSUME IInv, [Next]_vars PROVE IInv'
  OBVIOUS
<1>1. Known
  BY DEF IInv
<1>2. ASSUME UNCHANGED vars PROVE IInv'
  <2>1. UNCHANGED <<environ, table, config, desired, main, todo, exit_code, connects,
                    disconnected, sweeper, repo, loop, listening, requests, interrupted>>
    BY <1>2 DEF vars
  <2>2. Known' /\ Clients' = Clients /\ (Settled => Settled') /\ (Untouched => Untouched')
    BY <1>1, <2>1 DEF Known, Clients, Settled, Untouched
  <2>3. (NoService => NoService') /\ (Quiet => Quiet')
        /\ (AllConnectedIn(Clients) => AllConnectedIn(Clients)')
        /\ (AllConnectedIn(disconnected) => AllConnectedIn(disconnected)')
    BY <2>1, <2>2 DEF NoService, Quiet, AllConnectedIn
  <2>4. (AtLoad => AtLoad') /\ (Refused => Refused') /\ (InEnv => InEnv')
    BY <2>1, <2>2, <2>3 DEF AtLoad, Refused, NotBegun, InEnv
  <2>5. (Opening => Opening') /\ (Serving => Serving') /\ (Failed => Failed')
    BY <2>1, <2>2 DEF Opening, Serving, Failed
  <2>6. (Stopping => Stopping') /\ (Gone => Gone')
    BY <2>1, <2>2, <2>3 DEF Stopping, Gone
  <2>7. InDb => InDb'
    BY <2>1, <2>5, <2>6 DEF InDb
  <2>. QED  BY <2>2, <2>4, <2>7 DEF IInv
<1>3. ASSUME Next, AtLoad PROVE IInv'
  <2>1. /\ main = "load" /\ loop = "none" /\ listening = FALSE /\ requests = 0 /\ Clients = {}
    BY <1>3 DEF AtLoad, NotBegun, NoService
  <2>2. LoadRefused \/ LoadAccepted
    BY <1>3, <2>1, Guards DEF Next, MainStep, StartStep, StopStep, Interrupt
  <2>. QED  BY <1>1, <1>3, <2>2, LoadIInv
<1>4. ASSUME Next, Refused PROVE IInv'
  <2>1. main = "exited" /\ loop # "cancelling" /\ listening = FALSE /\ requests = 0
    BY <1>4 DEF Refused, NotBegun, NoService
  <2>. QED  BY <1>4, <2>1, NothingAfterExit
<1>5. ASSUME Next, InEnv PROVE IInv'
  BY <1>1, <1>5, EnvIInv DEF IInv
<1>6. ASSUME Next, InDb PROVE IInv'
  <2>1. config \in Configs /\ config.source = "database"
    BY <1>6 DEF InDb
  <2>2. CASE Gone
    <3>1. main = "exited" /\ loop # "cancelling" /\ listening = FALSE /\ requests = 0
      BY <2>2 DEF Gone
    <3>. QED  BY <1>6, <3>1, NothingAfterExit
  <2>3. CASE Opening \/ Serving \/ Failed \/ Stopping
    BY <1>1, <1>6, <2>1, <2>3, OpeningIInv, ServingIInv, FailedIInv, StoppingIInv DEF IInv
  <2>. QED  BY <1>6, <2>2, <2>3 DEF InDb
<1>. QED  BY <1>2, <1>3, <1>4, <1>5, <1>6 DEF IInv

\* The inductive invariant holds.
THEOREM Invariance == Spec => []IInv
<1>. QED  BY InitIInv, NextIInv, PTL DEF Spec

-----------------------------------------------------------------------------
(* What the runs check.                                                    *)

LEMMA TypesHold == IInv => TypeOK
<1>. SUFFICES ASSUME IInv PROVE TypeOK
  OBVIOUS
<1>1. Known
  BY DEF IInv
<1>2. Range(todo) \subseteq Parts
  <2>1. todo \in Seq(Parts)
    BY <1>1 DEF Known
  <2>2. \A i \in DOMAIN todo : todo[i] \in Parts
    BY <2>1, ElementOfSeq, LenProperties
  <2>. QED  BY <2>2 DEF Range
<1>3. Range(connects) \subseteq {"pending", "ok", "failed", "cancelled"}
  BY <1>1 DEF Known, Range, Clients, Statuses
<1>4. /\ main \in {"load", "connecting", "opening", "listing", "binding", "serving", "ending",
                   "exited"}
      /\ loop # "none" => sweeper
      /\ listening => repo # "none" /\ loop # "none"
  <2>1. CASE AtLoad \/ Refused
    BY <2>1 DEF AtLoad, Refused, NotBegun, NoService
  <2>2. CASE InEnv
    BY <2>2 DEF InEnv, NoService
  <2>3. CASE InDb
    <3>1. CASE Opening
      BY <3>1 DEF Opening
    <3>2. CASE Serving
      BY <3>2 DEF Serving
    <3>3. CASE Failed
      BY <3>3 DEF Failed
    <3>4. CASE Stopping
      BY <3>4 DEF Stopping, Quiet
    <3>5. CASE Gone
      BY <3>5 DEF Gone
    <3>. QED  BY <2>3, <3>1, <3>2, <3>3, <3>4, <3>5 DEF InDb
  <2>. QED  BY <2>1, <2>2, <2>3 DEF IInv
<1>. QED  BY <1>1, <1>2, <1>3, <1>4 DEF TypeOK, Known

\* Every variable has its type, and the admin UI listens only over a repository and a
\* loop that exist.
THEOREM TypeCorrect == Spec => []TypeOK
<1>. QED  BY Invariance, TypesHold, PTL

LEMMA ConfigHolds == IInv => ConfigIsWhatWasWritten
<1>. SUFFICES ASSUME IInv, config # NotLoaded
              PROVE  /\ config # ConfigError <=> WellConfigured(environ)
                     /\ config # ConfigError /\ ~ InDatabase =>
                          /\ Complete(environ.entries) = 1..Len(config.groups)
                          /\ config.groups = [n \in 1..Len(config.groups) |->
                                                Group(n, environ.entries[n])]
  BY DEF ConfigIsWhatWasWritten
<1>1. config = LoadConfig(environ) /\ environ \in Environs
  BY FoundIs DEF IInv, Known
<1>2. config # ConfigError <=> WellConfigured(environ)
  BY <1>1, LoadConfigIs
<1>3. ASSUME config # ConfigError, ~ InDatabase
      PROVE  /\ Complete(environ.entries) = 1..Len(config.groups)
             /\ config.groups = [n \in 1..Len(config.groups) |-> Group(n, environ.entries[n])]
  <2>1. config \in Configs /\ config.source = environ.source
    BY <1>1, <1>3, LoadConfigIs
  <2>2. environ.source = "env"
    BY <1>3, <2>1 DEF Configs, InDatabase
  <2>3. PICK k \in Indices : /\ Complete(environ.entries) = 1..k
                             /\ Len(config.groups) = k
                             /\ config.groups = GroupsUpTo(environ.entries, k)
    BY <1>1, <1>3, <2>2, LoadConfigIs
  <2>. QED  BY <2>3 DEF GroupsUpTo
<1>. QED  BY <1>2, <1>3

\* What load_config() makes of the variables: it fails on every gap, incomplete group,
\* duplicate name or bad setting and on nothing else, and the groups are those of the
\* variables in their order, however many there may be.
THEOREM ConfigurationIsAsWritten == Spec => []ConfigIsWhatWasWritten
<1>. QED  BY Invariance, ConfigHolds, PTL

LEMMA DesiredHolds == IInv => DesiredIsWhatIsStored
<1>. SUFFICES ASSUME IInv, desired # NotLoaded
              PROVE  /\ desired # RowsRefused <=> WellFilled(table)
                     /\ desired # RowsRefused =>
                          /\ Range(desired) = {RowGroup(i, table[i]) : i \in EnabledRows(table)}
                          /\ \A i, j \in DOMAIN desired : i < j => desired[i].index < desired[j].index
  BY DEF DesiredIsWhatIsStored
<1>1. desired = RowsToDesired(table) /\ table \in Seq(Rows)
  BY FoundIs DEF IInv, Known
<1>2. RowsSay(table, Len(table), desired)
  BY <1>1, RowsToDesiredIs
<1>3. DOMAIN table = 1..Len(table)
  BY <1>1, LenProperties
<1>4. FilledUpTo(table, Len(table)) <=> WellFilled(table)
  BY <1>3 DEF FilledUpTo, WellFilled, EnabledRows
<1>5. desired # RowsRefused <=> WellFilled(table)
  BY <1>2, <1>4 DEF RowsSay
<1>6. ASSUME desired # RowsRefused
      PROVE  /\ Range(desired) = {RowGroup(i, table[i]) : i \in EnabledRows(table)}
             /\ \A i, j \in DOMAIN desired : i < j => desired[i].index < desired[j].index
  <2>1. /\ desired \in Seq(DesiredGroups)
        /\ \A k \in 1..Len(desired) :
             \E i \in 1..Len(table) : table[i].enabled /\ desired[k] = RowGroup(i, table[i])
        /\ \A i \in 1..Len(table) : table[i].enabled =>
             \E k \in 1..Len(desired) : desired[k] = RowGroup(i, table[i])
        /\ \A k, l \in 1..Len(desired) : k < l => desired[k].index < desired[l].index
    BY <1>2, <1>6 DEF RowsSay
  <2>2. DOMAIN desired = 1..Len(desired)
    BY <2>1, LenProperties
  <2>3. EnabledRows(table) = {i \in 1..Len(table) : table[i].enabled}
    BY <1>3 DEF EnabledRows
  <2>4. Range(desired) = {RowGroup(i, table[i]) : i \in EnabledRows(table)}
    <3>1. \A i : i \in EnabledRows(table) <=> i \in 1..Len(table) /\ table[i].enabled
      BY <2>3
    <3>2. ASSUME NEW g \in Range(desired) PROVE \E i \in EnabledRows(table) : g = RowGroup(i, table[i])
      <4>1. PICK k \in 1..Len(desired) : g = desired[k]
        BY <2>2 DEF Range
      <4>2. PICK i \in 1..Len(table) : table[i].enabled /\ desired[k] = RowGroup(i, table[i])
        BY <2>1
      <4>. QED  BY <3>1, <4>1, <4>2
    <3>3. ASSUME NEW i \in EnabledRows(table) PROVE RowGroup(i, table[i]) \in Range(desired)
      <4>1. PICK k \in 1..Len(desired) : desired[k] = RowGroup(i, table[i])
        BY <2>1, <3>1
      <4>. QED  BY <2>2, <4>1 DEF Range
    <3>. QED  BY <3>2, <3>3
  <2>. QED  BY <2>1, <2>2, <2>4
<1>. QED  BY <1>5, <1>6

\* What rows_to_desired() makes of the table: the enabled rows, in order and each once,
\* unless a row is invalid or two of them share a name, however many rows there are.
THEOREM RowsAreAsStored == Spec => []DesiredIsWhatIsStored
<1>. QED  BY Invariance, DesiredHolds, PTL

LEMMA ServingHolds == IInv => ServingIsWhole
<1>. SUFFICES ASSUME IInv, main = "serving"
              PROVE  /\ sweeper
                     /\ IF InDatabase
                        THEN /\ repo = "open" /\ loop = "running" /\ listening = config.admin_ui
                             /\ Clients = DOMAIN desired
                        ELSE /\ Len(config.groups) > 0
                             /\ \A g \in DOMAIN config.groups : connects[g] = "ok"
  BY DEF ServingIsWhole
<1>1. InEnv \/ InDb
  BY DEF IInv, AtLoad, Refused
<1>2. CASE InEnv
  <2>1. /\ config \in Configs /\ config.source = "env"
        /\ sweeper /\ AllConnectedIn(Clients) /\ Clients = DOMAIN config.groups
    BY <1>2 DEF InEnv
  <2>2. config = LoadConfig(environ) /\ config # ConfigError /\ environ \in Environs
    BY <2>1, FoundIs, EnvConfigAssumption, ProcessAssumption DEF IInv, Known
  <2>3. PICK k \in Indices : Len(config.groups) = k
    BY <2>1, <2>2, LoadConfigIs
  <2>4. Len(config.groups) > 0
    BY <2>3, EnvConfigAssumption DEF Indices
  <2>. QED  BY <2>1, <2>4 DEF InDatabase, AllConnectedIn
<1>3. CASE InDb
  <2>1. config \in Configs /\ config.source = "database" /\ Serving
    BY <1>3 DEF InDb, Opening, Failed, Stopping, Gone
  <2>2. config.admin_ui \in BOOLEAN
    BY <2>1 DEF Configs
  <2>3. listening \in BOOLEAN /\ (listening <=> config.admin_ui)
    BY <2>1 DEF Serving
  <2>4. listening = config.admin_ui
    BY <2>2, <2>3
  <2>5. sweeper /\ repo = "open" /\ loop = "running" /\ Clients = DOMAIN desired
    BY <2>1 DEF Serving
  <2>. QED  BY <2>1, <2>4, <2>5 DEF InDatabase
<1>. QED  BY <1>1, <1>2, <1>3

\* main() is up only with everything the configuration asks for: in environment mode
\* every group connected, in database mode the repository, the loop and the admin UI.
THEOREM ServiceIsWhole == Spec => []ServingIsWhole
<1>. QED  BY Invariance, ServingHolds, PTL

LEMMA EndsHold == IInv => NothingUsedAfterItsEnd /\ ZeroMeansCleanStop
<1>. SUFFICES ASSUME IInv PROVE NothingUsedAfterItsEnd /\ ZeroMeansCleanStop
  OBVIOUS
<1>1. requests \in 0..MaxRequests
  BY DEF IInv, Known
<1>2. CASE AtLoad \/ Refused
  BY <1>2 DEF AtLoad, Refused, NotBegun, NoService, Untouched, NothingUsedAfterItsEnd,
              ZeroMeansCleanStop
<1>3. CASE InEnv
  <2>1. NothingUsedAfterItsEnd
    BY <1>3 DEF InEnv, NoService, NothingUsedAfterItsEnd
  <2>2. ASSUME main = "exited", exit_code = 0
        PROVE  /\ interrupted # "none"
               /\ interrupted = "service" => AllConnectedIn(disconnected)
    BY <1>3, <2>2 DEF InEnv
  <2>3. ZeroMeansCleanStop
    BY <1>3, <2>2 DEF InEnv, NoService, AllConnectedIn, ZeroMeansCleanStop
  <2>. QED  BY <2>1, <2>3
<1>4. CASE InDb
  <2>1. CASE Opening
    BY <2>1 DEF Opening, Untouched, NothingUsedAfterItsEnd, ZeroMeansCleanStop
  <2>2. CASE Serving
    BY <2>2 DEF Serving, Untouched, NothingUsedAfterItsEnd, ZeroMeansCleanStop
  <2>3. CASE Failed
    BY <2>3 DEF Failed, Untouched, NothingUsedAfterItsEnd, ZeroMeansCleanStop
  <2>4. CASE Stopping
    BY <1>1, <2>4 DEF Stopping, Quiet, NothingUsedAfterItsEnd, ZeroMeansCleanStop
  <2>5. CASE Gone
    BY <2>5 DEF Gone, Settled, NothingUsedAfterItsEnd, ZeroMeansCleanStop
  <2>. QED  BY <1>4, <2>1, <2>2, <2>3, <2>4, <2>5 DEF InDb
<1>. QED  BY <1>2, <1>3, <1>4 DEF IInv

\* The order of the stop: no request finds the repository closed, and no loop is there
\* to start clients once they are disconnected.
THEOREM StopsInOrder == Spec => []NothingUsedAfterItsEnd
<1>. QED  BY Invariance, EndsHold, PTL

\* Exit code 0 after a stop in service means that every client is disconnected and
\* nothing is left open; without an interrupt there is no exit code 0.
THEOREM ExitCodesAreRight == Spec => []ZeroMeansCleanStop
<1>. QED  BY Invariance, EndsHold, PTL

=============================================================================
