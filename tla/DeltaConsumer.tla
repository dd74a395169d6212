--------------------------- MODULE DeltaConsumer ---------------------------
(***************************************************************************)
(* A consumer that keeps its own state up to date from deltas.             *)
(*                                                                         *)
(* One producer publishes a line of snapshots, and starts a fresh domain   *)
(* when anything but the document changes or its revisions run out.  The   *)
(* consumer is handed commits by a host that may lose, repeat, delay and   *)
(* reorder them.  It makes the one comparison the contract asks for: a     *)
(* delta that applies is walked, entry by entry, re-reading each address   *)
(* in the snapshot at hand, which may already be newer than the delta; any *)
(* other one is answered by a rebuild.                                     *)
(*                                                                         *)
(* The consumer keeps two things, as the contract's two readings of a      *)
(* delta do.  mirror holds the own parts of each record and is updated     *)
(* part by part.  pulled is a parent-linked structure, rebuilt from the    *)
(* named address down: it remembers which snapshot each address was last   *)
(* materialised from.                                                      *)
(***************************************************************************)
EXTENDS Projection

CONSTANTS
    Publishable,      \* the documents the producer may publish
    MaxRevision,      \* bound and limit: the largest revision of a domain
    MaxDomain,        \* bound: domains are opaque, numbered as they start
    MaxLog            \* bound: snapshots published

VARIABLES
    log,              \* Seq of published snapshots: [version, doc]
    at,               \* the version the consumer believes it shows
    mirror,           \* map from address to the parts the consumer holds
    pulled            \* for each address, the snapshot it was pulled from

vars == <<log, at, mirror, pulled>>

ASSUME ConsumerAssumption ==
    /\ MaxRevision \in Nat \ {0}
    /\ MaxDomain \in Nat \ {0}
    /\ \A doc \in Publishable : IsDocument(doc)

Version == [domain : 1..MaxDomain, revision : 1..MaxRevision]

NoRecords == [x \in {} |-> {}]

Latest == Len(log)

\* Snapshots of one session: those of the domain of the i-th.
SameDomain(i, j) == log[i].version.domain = log[j].version.domain

\* There is a commit from the snapshot before the k-th.
IsCommit(k) == k \in DOMAIN log \ {1} /\ SameDomain(k - 1, k)

\* The delta of the k-th commit.
Delta(k) ==
    [before |-> log[k - 1].version,
     after  |-> log[k].version,
     diffs  |-> DiffsBetween(log[k - 1].doc, log[k].doc)]

\* Mutant: revisions are compared without their domain.
AppliesToRevision(delta, version) == delta.before.revision = version.revision

\* Delta::applies_to
AppliesTo(delta, version) == delta.before = version

-----------------------------------------------------------------------------
\* What a consumer materialises from one snapshot alone.
Mirrored(doc) == [x \in DOMAIN doc |-> Proj(doc[x])]

\* Mutant: an entry without parts is taken to be about nothing.
NamedUnlessEmpty(diffs, x) ==
    IF x \in DOMAIN mirror THEN diffs[x] \cap OwnParts ELSE OwnParts

\* The parts to re-read of an entry that is live in the snapshot at hand: the
\* named ones of a record already held, and all of them of one that is new to
\* the consumer or that was retired and came back.
Named(diffs, x) ==
    IF x \in DOMAIN mirror /\ diffs[x] # {}
    THEN diffs[x] \cap OwnParts
    ELSE OwnParts

\* Mutant: Descendant entries are skipped when materialising subtrees.
PulledByOwnParts(diffs, x) == x \in DOMAIN diffs /\ diffs[x] # {"Descendant"}

\* Any entry, with any part, re-materialises the subtree at its address.
Pulls(diffs, x) == x \in DOMAIN diffs

Walk(diffs, r) ==
    LET doc == log[r].doc
        Reread(x) ==
            [p \in OwnParts |->
                IF p \in Named(diffs, x) THEN Proj(doc[x])[p] ELSE mirror[x][p]]
    IN  /\ mirror' =
             [x \in (DOMAIN mirror \ DOMAIN diffs)
                    \cup (DOMAIN diffs \cap DOMAIN doc) |->
                IF x \in DOMAIN diffs THEN Reread(x) ELSE mirror[x]]
        /\ pulled' =
             [x \in Address |-> IF Pulls(diffs, x) THEN r ELSE pulled[x]]

Rebuild(r) ==
    /\ at' = log[r].version
    /\ mirror' = Mirrored(log[r].doc)
    /\ pulled' = [x \in Address |-> r]
    /\ UNCHANGED log

-----------------------------------------------------------------------------
Init ==
    /\ log = <<[version |-> [domain |-> 1, revision |-> 1],
                doc     |-> NoRecords]>>
    /\ at = log[1].version
    /\ mirror = NoRecords
    /\ pulled = [x \in Address |-> 1]

\* Mutant: the revision is incremented without looking at the limit.
PublishUnchecked(doc) ==
    /\ Latest < MaxLog
    /\ log' = Append(log,
                [version |-> [log[Latest].version EXCEPT !.revision = @ + 1],
                 doc     |-> doc])
    /\ UNCHANGED <<at, mirror, pulled>>

\* A commit is published.  The document may be the one before it: then only
\* boxes moved, and the delta has no entries.
Publish(doc) ==
    /\ Latest < MaxLog
    /\ log[Latest].version.revision < MaxRevision
    /\ log' = Append(log,
                [version |-> [log[Latest].version EXCEPT !.revision = @ + 1],
                 doc     |-> doc])
    /\ UNCHANGED <<at, mirror, pulled>>

\* The producer starts again from an empty snapshot in a fresh domain.
StartDomain ==
    /\ Latest < MaxLog
    /\ log[Latest].version.domain < MaxDomain
    /\ log' = Append(log,
                [version |-> [domain   |-> log[Latest].version.domain + 1,
                              revision |-> 1],
                 doc     |-> NoRecords])
    /\ UNCHANGED <<at, mirror, pulled>>

\* The consumer is handed the k-th commit, and the r-th snapshot to read.
Receive(k, r) ==
    /\ IsCommit(k)
    /\ r \in k..Latest
    /\ SameDomain(k, r)

Apply(k, r) ==
    /\ Receive(k, r)
    /\ AppliesTo(Delta(k), at)
    /\ at' = Delta(k).after
    /\ Walk(Delta(k).diffs, r)
    /\ UNCHANGED log

\* Mutant: a delta that does not apply is dropped, without a rebuild.
RejectSilently(k, r) ==
    /\ Receive(k, r)
    /\ ~ AppliesTo(Delta(k), at)
    /\ UNCHANGED vars

\* A stale, skipped, wrong-domain or replayed delta.
Reject(k, r) ==
    /\ Receive(k, r)
    /\ ~ AppliesTo(Delta(k), at)
    /\ Rebuild(r)

\* The consumer renders a snapshot it was handed without reading a delta.
Render(r) == r \in DOMAIN log /\ Rebuild(r)

Next ==
    \/ \E doc \in Publishable : Publish(doc)
    \/ StartDomain
    \/ \E k, r \in DOMAIN log : Apply(k, r)
    \/ \E k, r \in DOMAIN log : Reject(k, r)
    \/ \E r \in DOMAIN log : Render(r)

Spec == Init /\ [][Next]_vars

\* The host hands over the newest commit, or the newest snapshot where the
\* domain has no commit yet, and does so again for as long as it can.
HandOverLatest ==
    \/ Apply(Latest, Latest)
    \/ Reject(Latest, Latest)
    \/ ~ IsCommit(Latest) /\ Render(Latest)

FairSpec == Spec /\ WF_vars(HandOverLatest)

-----------------------------------------------------------------------------
Entry == [version : Version, doc : Publishable \cup {NoRecords}]

\* The log is what a producer publishes, no revision past the limit; the
\* consumer holds a published version and records with all of their parts.
TypeOK ==
    /\ log \in Seq(Entry)
    /\ \E i \in DOMAIN log : at = log[i].version
    /\ DOMAIN mirror \subseteq Address
    /\ \A x \in DOMAIN mirror : DOMAIN mirror[x] = OwnParts
    /\ pulled \in [Address -> DOMAIN log]

\* Later snapshots have later versions: a domain is never returned to and a
\* revision never repeated, so a version names one snapshot.
VersionsOrdered ==
    \A i, j \in DOMAIN log :
        i < j => \/ log[i].version.domain < log[j].version.domain
                 \/ /\ SameDomain(i, j)
                    /\ log[i].version.revision < log[j].version.revision

\* The snapshots the consumer may be reading: from the one whose version it
\* holds on, within its domain.
Ahead ==
    {j \in DOMAIN log : \E i \in 1..j : log[i].version = at /\ SameDomain(i, j)}

\* Every part the consumer holds, and every absence, is what some snapshot
\* from its own version on says: a part may be newer than the version, never
\* older, whatever was lost, repeated or reordered.
MirrorNeverStale ==
    \A x \in Address : \A p \in OwnParts : \E j \in Ahead :
        \/ x \notin DOMAIN mirror /\ x \notin DOMAIN log[j].doc
        \/ /\ x \in DOMAIN mirror \cap DOMAIN log[j].doc
           /\ mirror[x][p] = Proj(log[j].doc[x])[p]

\* So is every subtree of a parent-linked consumer.
SubtreesNeverStale ==
    \A x \in Address : \E j \in Ahead :
        SubtreeEq(log[pulled[x]].doc, log[j].doc, x)

\* A consumer at the newest version holds exactly what a rebuild from the
\* newest snapshot would give it (composition-ir.md 2: ignoring every delta
\* reaches the same state).
CaughtUpIsExact ==
    at = log[Latest].version =>
        /\ DOMAIN mirror = DOMAIN log[Latest].doc
        /\ \A x \in DOMAIN mirror : \A p \in OwnParts :
              mirror[x][p] = Proj(log[Latest].doc[x])[p]
        /\ \A x \in Address :
              SubtreeEq(log[pulled[x]].doc, log[Latest].doc, x)

\* A consumer that is handed the newest commit for as long as there is one
\* catches up, and does so again after whatever it missed or saw twice.
CatchesUp == []<>(at = log[Latest].version)
=============================================================================
