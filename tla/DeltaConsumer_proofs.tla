------------------------ MODULE DeltaConsumer_proofs ------------------------
(***************************************************************************)
(* A consumer's state is never older than the version it believes it has,  *)
(* and is exact at the newest one, for every set of documents, every line  *)
(* of commits and every way the host hands them over.                      *)
(***************************************************************************)
EXTENDS DeltaConsumer, Projection_proofs

\* An own part is never Descendant, and a projection has exactly the own parts.
LEMMA ProjectionParts ==
    ASSUME NEW n PROVE DOMAIN Proj(n) = OwnParts
  BY DEF Proj, OwnParts

\* The log has a last entry, and every entry its type.
LEMMA LogFacts ==
    ASSUME TypeOK
    PROVE  /\ Len(log) \in Nat
           /\ DOMAIN log = 1..Len(log)
           /\ Latest \in DOMAIN log
           /\ \A i \in DOMAIN log : log[i] \in Entry
<1>1. log \in Seq(Entry)
  BY DEF TypeOK
<1>2. Len(log) \in Nat /\ DOMAIN log = 1..Len(log)
  BY <1>1
<1>3. \A i \in DOMAIN log : log[i] \in Entry
  BY <1>1
<1>4. DOMAIN log # {}
  BY DEF TypeOK
<1> QED
  BY <1>2, <1>3, <1>4 DEF Latest

\* The fields of an entry have their types.
LEMMA EntryFacts ==
    ASSUME NEW entry \in Entry
    PROVE  /\ entry.version \in Version
           /\ entry.version.domain \in 1..MaxDomain
           /\ entry.version.revision \in 1..MaxRevision
           /\ entry.version = [domain   |-> entry.version.domain,
                               revision |-> entry.version.revision]
           /\ IsDocument(entry.doc)
<1>1. entry.version \in Version /\ entry.doc \in Publishable \cup {NoRecords}
  BY DEF Entry
<1>2. IsDocument(NoRecords)
  BY DEF IsDocument, IsMap, NoRecords
<1> QED
  BY <1>1, <1>2, ConsumerAssumption DEF Version

\* Domains and revisions are compared as numbers.
LEMMA NaturalVersions ==
    \A e \in Entry : e.version.domain \in Nat /\ e.version.revision \in Nat
<1> SUFFICES ASSUME NEW e \in Entry
             PROVE  e.version.domain \in Nat /\ e.version.revision \in Nat
  OBVIOUS
<1>1. e.version.domain \in 1..MaxDomain /\ e.version.revision \in 1..MaxRevision
  BY EntryFacts
<1>2. MaxDomain \in Nat /\ MaxRevision \in Nat
  BY ConsumerAssumption
<1> QED
  BY <1>1, <1>2

-----------------------------------------------------------------------------
\* The two steps that only append to the log.
Appends(entry) ==
    /\ entry \in Entry
    /\ log' = Append(log, entry)
    /\ \/ entry.version.domain > log[Latest].version.domain
       \/ /\ entry.version.domain = log[Latest].version.domain
          /\ entry.version.revision > log[Latest].version.revision
    /\ UNCHANGED <<at, mirror, pulled>>

LEMMA PublishAppends ==
    ASSUME TypeOK, NEW doc \in Publishable, Publish(doc)
    PROVE  \E entry : Appends(entry)
<1> DEFINE last == log[Latest].version
           next == [last EXCEPT !.revision = @ + 1]
           entry == [version |-> next, doc |-> doc]
<1>1. last.domain \in 1..MaxDomain /\ last.revision \in 1..MaxRevision
  BY LogFacts, EntryFacts
<1>2. last = [domain |-> last.domain, revision |-> last.revision]
  BY LogFacts, EntryFacts
<1>3. last.revision < MaxRevision
  BY DEF Publish
<1>4. next = [domain |-> last.domain, revision |-> last.revision + 1]
  BY <1>2
<1>5. next \in Version
  BY <1>1, <1>3, <1>4, ConsumerAssumption DEF Version
<1>6. entry \in Entry
  BY <1>5 DEF Entry
<1>7. entry.version.domain = last.domain
      /\ entry.version.revision > last.revision
  BY <1>1, <1>4
<1>8. Appends(entry)
  BY <1>6, <1>7 DEF Appends, Publish
<1> QED
  BY <1>8

LEMMA StartDomainAppends ==
    ASSUME TypeOK, StartDomain
    PROVE  \E entry : Appends(entry)
<1> DEFINE last == log[Latest].version
           next == [domain |-> last.domain + 1, revision |-> 1]
           entry == [version |-> next, doc |-> NoRecords]
<1>1. last.domain \in 1..MaxDomain /\ last.domain < MaxDomain
  BY LogFacts, EntryFacts DEF StartDomain
<1>2. next \in Version
  BY <1>1, ConsumerAssumption DEF Version
<1>3. entry \in Entry
  BY <1>2 DEF Entry
<1>4. entry.version.domain > last.domain
  BY <1>1
<1>5. Appends(entry)
  BY <1>3, <1>4 DEF Appends, StartDomain
<1> QED
  BY <1>5

-----------------------------------------------------------------------------
\* Never being stale is not inductive on its own: that a version names one
\* snapshot of the log is what ties the version the consumer holds to the
\* delta it compares it with.
Inv ==
    /\ TypeOK
    /\ VersionsOrdered
    /\ MirrorNeverStale
    /\ SubtreesNeverStale

LEMMA InitInv == Init => Inv
<1> SUFFICES ASSUME Init PROVE Inv
  OBVIOUS
<1> DEFINE first ==
      [version |-> [domain |-> 1, revision |-> 1], doc |-> NoRecords]
<1>1. first \in Entry
  BY ConsumerAssumption DEF Entry, Version
<1>2. log = <<first>> /\ DOMAIN log = {1} /\ log[1] = first
  BY DEF Init
<1>3. log \in Seq(Entry)
  BY <1>1, <1>2
<1>4. TypeOK
  BY <1>2, <1>3 DEF TypeOK, Init, NoRecords
<1>5. VersionsOrdered
  BY <1>2 DEF VersionsOrdered
<1>6. 1 \in Ahead
  BY <1>2 DEF Ahead, SameDomain, Init
<1>7. MirrorNeverStale
  BY <1>2, <1>6 DEF MirrorNeverStale, Init, NoRecords
<1>8. SubtreesNeverStale
  <2>1. IsDocument(log[1].doc)
    BY <1>2, <1>4, LogFacts, EntryFacts
  <2>2. ASSUME NEW x \in Address
        PROVE  SubtreeEq(log[pulled[x]].doc, log[1].doc, x)
    BY <2>1, SubtreeEqReflexive DEF Init
  <2> QED
    BY <1>6, <2>2 DEF SubtreesNeverStale
<1> QED
  BY <1>4, <1>5, <1>7, <1>8 DEF Inv

-----------------------------------------------------------------------------
\* Appending moves no entry.
LEMMA AppendKeeps ==
    ASSUME TypeOK, NEW entry, Appends(entry)
    PROVE  /\ log' \in Seq(Entry)
           /\ Len(log') = Len(log) + 1
           /\ DOMAIN log' = 1..(Len(log) + 1)
           /\ \A i \in DOMAIN log : i \in DOMAIN log' /\ log'[i] = log[i]
           /\ log'[Len(log) + 1] = entry
<1>1. log \in Seq(Entry) /\ entry \in Entry /\ log' = Append(log, entry)
  BY DEF TypeOK, Appends
<1>2. log' \in Seq(Entry) /\ Len(log') = Len(log) + 1
  BY <1>1
<1>3. DOMAIN log' = 1..(Len(log) + 1)
  BY <1>2, LogFacts
<1>4. \A i \in 1..Len(log) : log'[i] = log[i]
  BY <1>1
<1>5. log'[Len(log) + 1] = entry
  BY <1>1
<1> QED
  BY <1>2, <1>3, <1>4, <1>5, LogFacts

LEMMA AppendInv ==
    ASSUME Inv, NEW entry, Appends(entry)
    PROVE  Inv'
<1> USE DEF Inv
<1>1. UNCHANGED <<at, mirror, pulled>>
  BY DEF Appends
<1>2. TypeOK'
  <2>1. log' \in Seq(Entry)
    BY AppendKeeps
  <2>2. \E i \in DOMAIN log' : at' = log'[i].version
    BY <1>1, AppendKeeps DEF TypeOK
  <2>3. pulled' \in [Address -> DOMAIN log']
    BY <1>1, AppendKeeps DEF TypeOK
  <2> QED
    BY <1>1, <2>1, <2>2, <2>3 DEF TypeOK
<1>3. VersionsOrdered'
  <2> SUFFICES ASSUME NEW i \in DOMAIN log', NEW j \in DOMAIN log', i < j
               PROVE  \/ log'[i].version.domain < log'[j].version.domain
                      \/ /\ log'[i].version.domain = log'[j].version.domain
                         /\ log'[i].version.revision < log'[j].version.revision
    BY DEF VersionsOrdered, SameDomain
  <2>1. CASE j \in DOMAIN log
    <3>1. i \in DOMAIN log
      BY <2>1, LogFacts, AppendKeeps
    <3> QED
      BY <2>1, <3>1, AppendKeeps DEF VersionsOrdered, SameDomain
  <2>2. CASE j \notin DOMAIN log
    <3>1. j = Len(log) + 1 /\ i \in DOMAIN log
      BY <2>2, LogFacts, AppendKeeps
    <3>2. log'[j] = entry /\ log'[i] = log[i]
      BY <3>1, AppendKeeps
    <3>3. Latest \in DOMAIN log /\ (i = Latest \/ i < Latest)
      BY <3>1, LogFacts DEF Latest
    <3>4. i < Latest =>
            \/ log[i].version.domain < log[Latest].version.domain
            \/ /\ log[i].version.domain = log[Latest].version.domain
               /\ log[i].version.revision < log[Latest].version.revision
      BY <3>1, <3>3 DEF VersionsOrdered, SameDomain
    <3>5. \A e \in Entry : e.version.domain \in Nat /\ e.version.revision \in Nat
      BY NaturalVersions
    <3>6. log[i] \in Entry /\ log[Latest] \in Entry /\ entry \in Entry
      BY <3>1, <3>3, LogFacts DEF Appends
    <3>7. \/ entry.version.domain > log[Latest].version.domain
          \/ /\ entry.version.domain = log[Latest].version.domain
             /\ entry.version.revision > log[Latest].version.revision
      BY DEF Appends
    <3>8. \/ log[i].version.domain < entry.version.domain
          \/ /\ log[i].version.domain = entry.version.domain
             /\ log[i].version.revision < entry.version.revision
      BY <3>3, <3>4, <3>5, <3>6, <3>7
    <3> QED
      BY <3>2, <3>8
  <2> QED
    BY <2>1, <2>2
<1>4. Ahead \subseteq Ahead'
  <2> SUFFICES ASSUME NEW j \in Ahead PROVE j \in Ahead'
    OBVIOUS
  <2>1. PICK i \in 1..j : log[i].version = at /\ SameDomain(i, j)
    BY DEF Ahead
  <2>2. i \in DOMAIN log /\ j \in DOMAIN log
    BY <2>1, LogFacts DEF Ahead
  <2>3. log'[i] = log[i] /\ log'[j] = log[j] /\ j \in DOMAIN log'
    BY <2>2, AppendKeeps
  <2> QED
    BY <1>1, <2>1, <2>3 DEF Ahead, SameDomain
<1>5. \A j \in Ahead : log'[j] = log[j]
  BY AppendKeeps DEF Ahead
<1>6. MirrorNeverStale'
  BY <1>1, <1>4, <1>5 DEF MirrorNeverStale
<1>7. SubtreesNeverStale'
  <2>1. \A x \in Address : log'[pulled[x]] = log[pulled[x]]
    BY AppendKeeps DEF TypeOK
  <2> QED
    BY <1>1, <1>4, <1>5, <2>1 DEF SubtreesNeverStale
<1> QED
  BY <1>2, <1>3, <1>6, <1>7

-----------------------------------------------------------------------------
\* A rebuild makes the consumer exact at the snapshot it reads.
LEMMA RebuildInv ==
    ASSUME Inv, NEW r \in DOMAIN log, Rebuild(r)
    PROVE  Inv'
<1> USE DEF Inv
<1>1. /\ UNCHANGED log
      /\ at' = log[r].version
      /\ mirror' = Mirrored(log[r].doc)
      /\ pulled' = [x \in Address |-> r]
  BY DEF Rebuild
<1>2. IsDocument(log[r].doc)
  BY LogFacts, EntryFacts
<1>3. TypeOK'
  <2>1. DOMAIN mirror' \subseteq Address
    BY <1>1, <1>2 DEF Mirrored, IsDocument, IsMap
  <2>2. \A x \in DOMAIN mirror' : DOMAIN mirror'[x] = OwnParts
    BY <1>1, ProjectionParts DEF Mirrored
  <2> QED
    BY <1>1, <2>1, <2>2 DEF TypeOK
<1>4. VersionsOrdered'
  BY <1>1 DEF VersionsOrdered, SameDomain
<1>5. r \in Ahead'
  BY <1>1, LogFacts DEF Ahead, SameDomain
<1>6. MirrorNeverStale'
  BY <1>1, <1>5 DEF MirrorNeverStale, Mirrored
<1>7. SubtreesNeverStale'
  <2>1. \A x \in Address : SubtreeEq(log[r].doc, log[r].doc, x)
    BY <1>2, SubtreeEqReflexive
  <2> QED
    BY <1>1, <1>5, <2>1 DEF SubtreesNeverStale
<1> QED
  BY <1>3, <1>4, <1>6, <1>7

-----------------------------------------------------------------------------
\* A version names one snapshot of the log.
LEMMA VersionNamesOne ==
    ASSUME TypeOK, VersionsOrdered, NEW i \in DOMAIN log, NEW j \in DOMAIN log,
           log[i].version = log[j].version
    PROVE  i = j
<1>1. i \in Nat /\ j \in Nat
  BY LogFacts
<1>2. \A e \in Entry : e.version.domain \in Nat /\ e.version.revision \in Nat
  BY NaturalVersions
<1>3. log[i] \in Entry /\ log[j] \in Entry
  BY LogFacts
<1>4. ~ (i < j)
  BY <1>2, <1>3 DEF VersionsOrdered
<1>5. ~ (j < i)
  BY <1>2, <1>3 DEF VersionsOrdered
<1> QED
  BY <1>1, <1>4, <1>5

\* So the snapshots ahead of the consumer are those from one index on.
LEMMA AheadIs ==
    ASSUME TypeOK, VersionsOrdered, NEW i \in DOMAIN log, at = log[i].version
    PROVE  Ahead = {j \in DOMAIN log : i <= j /\ SameDomain(i, j)}
<1>1. ASSUME NEW j \in Ahead
      PROVE  j \in DOMAIN log /\ i <= j /\ SameDomain(i, j)
  <2>1. PICK h \in 1..j : log[h].version = at /\ SameDomain(h, j)
    BY <1>1 DEF Ahead
  <2>2. j \in DOMAIN log /\ h \in DOMAIN log
    BY <1>1, <2>1, LogFacts DEF Ahead
  <2>3. h = i
    BY <2>1, <2>2, VersionNamesOne
  <2> QED
    BY <2>1, <2>2, <2>3, LogFacts
<1>2. ASSUME NEW j \in DOMAIN log, i <= j, SameDomain(i, j)
      PROVE  j \in Ahead
  <2>1. i \in 1..j
    BY <1>2, LogFacts
  <2> QED
    BY <1>2, <2>1 DEF Ahead
<1> QED
  BY <1>1, <1>2

\* Applying a delta moves the consumer one snapshot on: of what it could be
\* reading before, only the snapshot the delta starts from is left behind.
LEMMA ApplyMovesOn ==
    ASSUME Inv, NEW k \in DOMAIN log, NEW r \in DOMAIN log, Apply(k, r)
    PROVE  /\ k - 1 \in DOMAIN log
           /\ log' = log
           /\ at' = log[k].version
           /\ k \in Ahead' /\ r \in Ahead'
           /\ \A j \in Ahead : j = k - 1 \/ j \in Ahead'
<1> USE DEF Inv
<1>1. k - 1 \in DOMAIN log /\ k - 1 \in Nat /\ k \in Nat
  BY LogFacts DEF Apply, Receive, IsCommit
<1>2. /\ log' = log
      /\ at' = log[k].version
      /\ at = log[k - 1].version
      /\ SameDomain(k - 1, k) /\ SameDomain(k, r)
      /\ k <= r
  BY LogFacts DEF Apply, Receive, IsCommit, AppliesTo, Delta, Latest
<1>3. Ahead = {j \in DOMAIN log : k - 1 <= j /\ SameDomain(k - 1, j)}
  BY <1>1, <1>2, AheadIs
<1>4. ASSUME NEW j \in DOMAIN log, k <= j, SameDomain(k, j)
      PROVE  j \in Ahead'
  <2>1. k \in 1..j
    BY <1>4, LogFacts
  <2> QED
    BY <1>2, <1>4, <2>1 DEF Ahead, SameDomain
<1>5. k \in Ahead' /\ r \in Ahead'
  BY <1>1, <1>2, <1>4 DEF SameDomain
<1>6. ASSUME NEW j \in Ahead, j # k - 1
      PROVE  j \in Ahead'
  <2>1. j \in DOMAIN log /\ k - 1 <= j /\ SameDomain(k - 1, j)
    BY <1>3
  <2>2. j \in Nat
    BY <2>1, LogFacts
  <2>3. k <= j
    BY <1>1, <1>6, <2>1, <2>2
  <2>4. SameDomain(k, j)
    BY <1>2, <2>1 DEF SameDomain
  <2> QED
    BY <1>4, <2>1, <2>3, <2>4
<1> QED
  BY <1>1, <1>2, <1>5, <1>6

\* The walk re-reads what the delta names and keeps the rest.
LEMMA WalkReads ==
    ASSUME Inv, NEW k \in DOMAIN log, NEW r \in DOMAIN log, Apply(k, r)
    PROVE  /\ DOMAIN mirror' = (DOMAIN mirror \ DOMAIN Delta(k).diffs)
                                  \cup (DOMAIN Delta(k).diffs \cap DOMAIN log[r].doc)
           /\ \A x \in DOMAIN mirror' :
                IF x \in DOMAIN Delta(k).diffs
                THEN /\ DOMAIN mirror'[x] = OwnParts
                     /\ \A p \in OwnParts :
                          mirror'[x][p] = IF p \in Named(Delta(k).diffs, x)
                                          THEN Proj(log[r].doc[x])[p]
                                          ELSE mirror[x][p]
                ELSE x \in DOMAIN mirror /\ mirror'[x] = mirror[x]
           /\ pulled' = [x \in Address |->
                            IF x \in DOMAIN Delta(k).diffs THEN r ELSE pulled[x]]
<1>1. Walk(Delta(k).diffs, r)
  BY DEF Apply
<1> QED
  BY <1>1 DEF Walk, Pulls

\* What it re-reads is what the membership law says changed.
LEMMA DeltaNames ==
    ASSUME NEW k
    PROVE  Delta(k).diffs = DiffsBetween(log[k - 1].doc, log[k].doc)
  BY DEF Delta

LEMMA ApplyTypeOK ==
    ASSUME Inv, NEW k \in DOMAIN log, NEW r \in DOMAIN log, Apply(k, r)
    PROVE  TypeOK' /\ VersionsOrdered'
<1> USE DEF Inv
<1> DEFINE diffs == Delta(k).diffs
<1>1. log' = log /\ at' = log[k].version
  BY ApplyMovesOn
<1>2. DOMAIN mirror' \subseteq Address
  <2>1. IsDocument(log[r].doc)
    BY LogFacts, EntryFacts
  <2>2. DOMAIN log[r].doc \subseteq Address
    BY <2>1 DEF IsDocument, IsMap
  <2>3. DOMAIN mirror' = (DOMAIN mirror \ DOMAIN diffs)
                           \cup (DOMAIN diffs \cap DOMAIN log[r].doc)
    BY WalkReads
  <2>4. DOMAIN mirror \subseteq Address
    BY DEF TypeOK
  <2> QED
    BY <2>2, <2>3, <2>4
<1>3. \A x \in DOMAIN mirror' : DOMAIN mirror'[x] = OwnParts
  BY WalkReads DEF TypeOK
<1>4. pulled' \in [Address -> DOMAIN log]
  <2>1. pulled' = [x \in Address |-> IF x \in DOMAIN diffs THEN r ELSE pulled[x]]
    BY WalkReads
  <2> QED
    BY <2>1 DEF TypeOK
<1>5. TypeOK'
  BY <1>1, <1>2, <1>3, <1>4 DEF TypeOK
<1>6. VersionsOrdered'
  BY <1>1 DEF VersionsOrdered, SameDomain
<1> QED
  BY <1>5, <1>6

\* A part that was held and not named is, in the snapshot the delta leads to,
\* what it was in the one it starts from.
LEMMA ApplyMirror ==
    ASSUME Inv, NEW k \in DOMAIN log, NEW r \in DOMAIN log, Apply(k, r)
    PROVE  MirrorNeverStale'
<1> USE DEF Inv
<1> DEFINE before == log[k - 1].doc
           after  == log[k].doc
           diffs  == Delta(k).diffs
           Says(j, x, p) ==
             \/ x \notin DOMAIN mirror' /\ x \notin DOMAIN log[j].doc
             \/ /\ x \in DOMAIN mirror' \cap DOMAIN log[j].doc
                /\ mirror'[x][p] = Proj(log[j].doc[x])[p]
<1>1. log' = log /\ k \in Ahead' /\ r \in Ahead'
  BY ApplyMovesOn
<1>2. \A j \in Ahead : j = k - 1 \/ j \in Ahead'
  BY ApplyMovesOn
<1>3. DOMAIN mirror' = (DOMAIN mirror \ DOMAIN diffs)
                         \cup (DOMAIN diffs \cap DOMAIN log[r].doc)
  BY WalkReads
<1>4. ASSUME NEW x \in Address, NEW p \in OwnParts
      PROVE  \E j \in Ahead' : Says(j, x, p)
  <2>1. PICK old \in Ahead :
          \/ x \notin DOMAIN mirror /\ x \notin DOMAIN log[old].doc
          \/ /\ x \in DOMAIN mirror \cap DOMAIN log[old].doc
             /\ mirror[x][p] = Proj(log[old].doc[x])[p]
    BY DEF MirrorNeverStale
  <2>2. CASE x \in DOMAIN diffs /\ x \notin DOMAIN log[r].doc
    <3>1. x \notin DOMAIN mirror'
      BY <1>3, <2>2
    <3> QED
      BY <1>1, <2>2, <3>1
  <2>3. CASE x \in DOMAIN diffs /\ x \in DOMAIN log[r].doc /\ p \in Named(diffs, x)
    <3>1. x \in DOMAIN mirror' /\ mirror'[x][p] = Proj(log[r].doc[x])[p]
      BY <2>3, WalkReads
    <3> QED
      BY <1>1, <2>3, <3>1
  <2>4. CASE x \in DOMAIN diffs /\ x \in DOMAIN log[r].doc /\ p \notin Named(diffs, x)
    <3>1. x \in DOMAIN mirror'
      BY <1>3, <2>4
    <3>2. x \in DOMAIN mirror' /\ mirror'[x][p] = mirror[x][p]
      BY <2>4, <3>1, WalkReads
    <3>3. x \in DOMAIN mirror /\ diffs[x] # {} /\ p \notin diffs[x]
      BY <2>4 DEF Named
    <3>4. x \in DOMAIN log[old].doc /\ mirror[x][p] = Proj(log[old].doc[x])[p]
      BY <2>1, <3>3
    <3>5. CASE old \in Ahead'
      BY <3>2, <3>4, <3>5
    <3>6. CASE old = k - 1
      <4>1. x \in DOMAIN before
        BY <3>4, <3>6
      <4>2. x \in DOMAIN after
        BY <3>3, <4>1, DeltaNames, CreatedAndRetired
      <4>3. PartEq(before[x], after[x], p)
        BY <3>3, <4>1, <4>2, DeltaNames, UnnamedPart
      <4>4. mirror'[x][p] = Proj(after[x])[p]
        BY <3>2, <3>4, <3>6, <4>3 DEF PartEq
      <4> QED
        BY <1>1, <3>2, <4>2, <4>4
    <3> QED
      BY <1>2, <3>5, <3>6
  <2>5. CASE x \notin DOMAIN diffs
    <3>1. /\ x \in DOMAIN mirror' <=> x \in DOMAIN mirror
          /\ x \in DOMAIN mirror => mirror'[x] = mirror[x]
      BY <2>5, WalkReads
    <3>2. CASE old \in Ahead'
      BY <2>1, <3>1, <3>2
    <3>3. CASE old = k - 1
      <4>1. Agrees(before, after, x)
        BY <2>5, DeltaNames, UnnamedAgrees
      <4>2. /\ x \in DOMAIN before <=> x \in DOMAIN after
            /\ x \in DOMAIN before => Proj(before[x]) = Proj(after[x])
        BY <4>1 DEF Agrees, OwnEq
      <4>3. Says(k, x, p)
        BY <2>1, <3>1, <3>3, <4>2
      <4> QED
        BY <1>1, <4>3
    <3> QED
      BY <1>2, <3>2, <3>3
  <2> QED
    BY <2>2, <2>3, <2>4, <2>5
<1> QED
  BY <1>1, <1>4 DEF MirrorNeverStale

\* A subtree that no entry names is the same in the two snapshots.
LEMMA ApplySubtrees ==
    ASSUME Inv, NEW k \in DOMAIN log, NEW r \in DOMAIN log, Apply(k, r)
    PROVE  SubtreesNeverStale'
<1> USE DEF Inv
<1> DEFINE before == log[k - 1].doc
           after  == log[k].doc
           diffs  == Delta(k).diffs
<1>1. log' = log /\ k \in Ahead' /\ r \in Ahead'
  BY ApplyMovesOn
<1>2. \A j \in Ahead : j = k - 1 \/ j \in Ahead'
  BY ApplyMovesOn
<1>3. pulled' = [x \in Address |-> IF x \in DOMAIN diffs THEN r ELSE pulled[x]]
  BY WalkReads
<1>4. ASSUME NEW x \in Address
      PROVE  \E j \in Ahead' : SubtreeEq(log[pulled'[x]].doc, log[j].doc, x)
  <2>1. CASE x \in DOMAIN diffs
    <3>1. IsDocument(log[r].doc)
      BY LogFacts, EntryFacts
    <3>2. SubtreeEq(log[r].doc, log[r].doc, x)
      BY <3>1, SubtreeEqReflexive
    <3> QED
      BY <1>1, <1>3, <2>1, <3>2
  <2>2. CASE x \notin DOMAIN diffs
    <3>1. PICK old \in Ahead : SubtreeEq(log[pulled[x]].doc, log[old].doc, x)
      BY DEF SubtreesNeverStale
    <3>2. pulled'[x] = pulled[x]
      BY <1>3, <2>2
    <3>3. CASE old \in Ahead'
      BY <3>1, <3>2, <3>3
    <3>4. CASE old = k - 1
      <4>1. SubtreeEq(before, after, x)
        BY <2>2, DeltaNames, UnnamedSubtree
      <4>2. SubtreeEq(log[pulled[x]].doc, after, x)
        BY <3>1, <3>4, <4>1, SubtreeEqTransitive
      <4> QED
        BY <1>1, <3>2, <4>2
    <3> QED
      BY <1>2, <3>3, <3>4
  <2> QED
    BY <2>1, <2>2
<1> QED
  BY <1>1, <1>4 DEF SubtreesNeverStale

-----------------------------------------------------------------------------
LEMMA StepInv == Inv /\ [Next]_vars => Inv'
<1> SUFFICES ASSUME Inv, [Next]_vars PROVE Inv'
  OBVIOUS
<1>0. TypeOK
  BY DEF Inv
<1>1. ASSUME NEW doc \in Publishable, Publish(doc) PROVE Inv'
  BY <1>0, <1>1, PublishAppends, AppendInv
<1>2. ASSUME StartDomain PROVE Inv'
  BY <1>0, <1>2, StartDomainAppends, AppendInv
<1>3. ASSUME NEW k \in DOMAIN log, NEW r \in DOMAIN log, Apply(k, r) PROVE Inv'
  <2>1. TypeOK' /\ VersionsOrdered'
    BY <1>3, ApplyTypeOK
  <2>2. MirrorNeverStale'
    BY <1>3, ApplyMirror
  <2>3. SubtreesNeverStale'
    BY <1>3, ApplySubtrees
  <2> QED
    BY <2>1, <2>2, <2>3 DEF Inv
<1>4. ASSUME NEW k \in DOMAIN log, NEW r \in DOMAIN log, Reject(k, r) PROVE Inv'
  BY <1>4, RebuildInv DEF Reject
<1>5. ASSUME NEW r \in DOMAIN log, Render(r) PROVE Inv'
  BY <1>5, RebuildInv DEF Render
<1>6. ASSUME UNCHANGED vars PROVE Inv'
  <2>1. log' = log /\ at' = at /\ mirror' = mirror /\ pulled' = pulled
    BY <1>6 DEF vars
  <2>2. TypeOK' /\ VersionsOrdered'
    BY <2>1 DEF Inv, TypeOK, VersionsOrdered, SameDomain
  <2>3. Ahead' = Ahead
    BY <2>1 DEF Ahead, SameDomain
  <2>4. MirrorNeverStale'
    BY <2>1, <2>3 DEF Inv, MirrorNeverStale
  <2>5. SubtreesNeverStale'
    BY <2>1, <2>3 DEF Inv, SubtreesNeverStale
  <2> QED
    BY <2>2, <2>4, <2>5 DEF Inv
<1> QED
  BY <1>1, <1>2, <1>3, <1>4, <1>5, <1>6 DEF Next

LEMMA Invariance == Spec => []Inv
<1>1. Init => Inv
  BY InitInv
<1>2. Inv /\ [Next]_vars => Inv'
  BY StepInv
<1> QED
  BY <1>1, <1>2, PTL DEF Spec

\* At the newest version nothing is ahead but the newest snapshot.
LEMMA ExactAtLatest == Inv => CaughtUpIsExact
<1> SUFFICES ASSUME Inv, at = log[Latest].version
             PROVE  /\ DOMAIN mirror = DOMAIN log[Latest].doc
                    /\ \A x \in DOMAIN mirror : \A p \in OwnParts :
                          mirror[x][p] = Proj(log[Latest].doc[x])[p]
                    /\ \A x \in Address :
                          SubtreeEq(log[pulled[x]].doc, log[Latest].doc, x)
  BY DEF CaughtUpIsExact
<1>0. TypeOK /\ VersionsOrdered /\ MirrorNeverStale /\ SubtreesNeverStale
  BY DEF Inv
<1>1. Latest \in DOMAIN log /\ \A j \in DOMAIN log : j <= Latest
  BY <1>0, LogFacts DEF Latest
<1>2. Ahead = {j \in DOMAIN log : Latest <= j /\ SameDomain(Latest, j)}
  BY <1>0, <1>1, AheadIs
<1>3. \A j \in Ahead : j = Latest
  BY <1>0, <1>1, <1>2, LogFacts
<1>4. ASSUME NEW x \in Address, NEW p \in OwnParts
      PROVE  \/ x \notin DOMAIN mirror /\ x \notin DOMAIN log[Latest].doc
             \/ /\ x \in DOMAIN mirror \cap DOMAIN log[Latest].doc
                /\ mirror[x][p] = Proj(log[Latest].doc[x])[p]
  BY <1>0, <1>3 DEF MirrorNeverStale
<1>5. DOMAIN mirror \subseteq Address /\ DOMAIN log[Latest].doc \subseteq Address
  <2>1. IsDocument(log[Latest].doc)
    BY <1>0, <1>1, LogFacts, EntryFacts
  <2> QED
    BY <1>0, <2>1 DEF TypeOK, IsDocument, IsMap
<1>6. DOMAIN mirror = DOMAIN log[Latest].doc
  <2>1. "Structure" \in OwnParts
    BY DEF OwnParts
  <2> QED
    BY <1>4, <1>5, <2>1
<1>7. \A x \in Address : SubtreeEq(log[pulled[x]].doc, log[Latest].doc, x)
  BY <1>0, <1>3 DEF SubtreesNeverStale
<1> QED
  BY <1>4, <1>5, <1>6, <1>7

-----------------------------------------------------------------------------
\* The log holds what a producer may publish, the consumer a published version
\* and whole records (svg.rs, the element of an address; delta.rs, Delta).
THEOREM TypeCorrect == Spec => []TypeOK
<1>1. Inv => TypeOK
  BY DEF Inv
<1> QED
  BY <1>1, Invariance, PTL

\* However commits are lost, repeated, delayed or reordered, no part of a
\* record that the consumer holds is older than the version it shows, because
\* Delta::applies_to (delta.rs) compares domain and revision with it.
THEOREM MirrorSafe == Spec => []MirrorNeverStale
<1>1. Inv => MirrorNeverStale
  BY DEF Inv
<1> QED
  BY <1>1, Invariance, PTL

\* Nor is any subtree it has materialised, because every parent above a change
\* is named (diffs_between and subtree_eq, delta.rs).
THEOREM SubtreesSafe == Spec => []SubtreesNeverStale
<1>1. Inv => SubtreesNeverStale
  BY DEF Inv
<1> QED
  BY <1>1, Invariance, PTL

\* A consumer at the newest version holds exactly the newest document, the same
\* as one that ignores every delta (the rule the backends' tests hold patching
\* to: patch equals render).
THEOREM CaughtUpExact == Spec => []CaughtUpIsExact
  BY ExactAtLatest, Invariance, PTL
=============================================================================
