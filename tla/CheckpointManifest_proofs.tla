---------------------- MODULE CheckpointManifest_proofs ----------------------
(***************************************************************************)
(* Lemmas about the checkpoint manifest: which line load() lets win, and   *)
(* what an append, whole or cut, does to the lines it reads.               *)
(***************************************************************************)
EXTENDS CheckpointManifest, SequenceTheorems, WellFoundedInduction, TLAPS

\* A non-empty set of numbers has a least one,
LEMMA LeastOfNat ==
  ASSUME NEW S, S \subseteq Nat, S # {}
  PROVE  \E x \in S : \A y \in S : x <= y
<1> DEFINE R == OpToRel(<, Nat)
<1>1. PICK x \in S : \A y \in S : ~ (<<y, x>> \in R)
  <2>1. IsWellFoundedOn(R, Nat)
    BY NatLessThanWellFounded
  <2> HIDE DEF R
  <2> QED  BY <2>1, WFMin
<1>2. ASSUME NEW y \in S PROVE x <= y
  <2> SUFFICES ASSUME y < x PROVE FALSE
    OBVIOUS
  <2>1. <<y, x>> \in R
    BY DEF OpToRel
  <2> QED  BY <1>1, <2>1
<1> QED  BY <1>2

\* and a non-empty set of line numbers a last one.
LEMMA LastExists ==
  ASSUME NEW n \in Nat, NEW S, S \subseteq 1..n, S # {}
  PROVE  \E m \in S : \A j \in S : j <= m
<1> DEFINE T == {n - i : i \in S}
<1>0. \A i \in S : i \in Nat /\ i <= n
  OBVIOUS
<1>1. T \subseteq Nat /\ T # {}
  <2>1. \A i \in S : n - i \in Nat
    BY <1>0
  <2>2. PICK i \in S : TRUE
    OBVIOUS
  <2>3. n - i \in T
    BY <2>2
  <2> QED  BY <2>1, <2>3
<1>2. PICK x \in T : \A y \in T : x <= y
  <2> HIDE DEF T
  <2> QED  BY <1>1, LeastOfNat
<1>3. PICK m \in S : x = n - m
  OBVIOUS
<1>4. \A j \in S : j <= m
  <2> SUFFICES ASSUME NEW j \in S PROVE j <= m
    OBVIOUS
  <2>1. n - m <= n - j
    BY <1>2, <1>3
  <2>2. m \in Nat /\ j \in Nat
    BY <1>0
  <2> HIDE DEF T
  <2> QED  BY <2>1, <2>2
<1> QED  BY <1>3, <1>4

\* The line whose offset a resume truncates to is the last committed line.
LEMMA LastCommitIsLast ==
  ASSUME NEW E, NEW m \in Manifests(E), NEW f, CommitLinesOf(m, f) # {}
  PROVE  /\ LastCommitLine(m, f) \in CommitLinesOf(m, f)
         /\ \A j \in CommitLinesOf(m, f) : j <= LastCommitLine(m, f)
<1>1. CommitLinesOf(m, f) \subseteq 1..Len(m.lines) /\ Len(m.lines) \in Nat
  BY DEF CommitLinesOf, CommitLines, Manifests
<1>2. \E i \in CommitLinesOf(m, f) : \A j \in CommitLinesOf(m, f) : j <= i
  BY <1>1, LastExists
<1> QED  BY <1>2 DEF LastCommitLine

\* Two manifests with the same committed lines.
SameCommits(m1, m2) ==
    /\ CommitLines(m1) = CommitLines(m2)
    /\ \A i \in CommitLines(m1) : m1.lines[i] = m2.lines[i]

\* What load() makes of a manifest depends on its committed lines alone.
LEMMA SameCommitsLoad ==
  ASSUME NEW E, NEW m1 \in Manifests(E), NEW m2, SameCommits(m1, m2)
  PROVE  /\ Commits(m1) = Commits(m2)
         /\ CommittedIds(m1) = CommittedIds(m2)
         /\ \A f : CommitLinesOf(m1, f) = CommitLinesOf(m2, f)
         /\ \A f : CommittedOffset(m1, f) = CommittedOffset(m2, f)
<1>1. Commits(m1) = Commits(m2) /\ CommittedIds(m1) = CommittedIds(m2)
  BY DEF SameCommits, Commits, CommittedIds
<1>2. \A f : CommitLinesOf(m1, f) = CommitLinesOf(m2, f)
  BY DEF SameCommits, CommitLinesOf
<1>3. ASSUME NEW f PROVE CommittedOffset(m1, f) = CommittedOffset(m2, f)
  <2>1. CASE CommitLinesOf(m1, f) = {}
    BY <2>1, <1>2 DEF CommittedOffset
  <2>2. CASE CommitLinesOf(m1, f) # {}
    <3>1. LastCommitLine(m1, f) = LastCommitLine(m2, f)
      BY <1>2 DEF LastCommitLine
    <3>2. \A i \in CommitLines(m1) : m1.lines[i] = m2.lines[i]
      BY DEF SameCommits
    <3>3. LastCommitLine(m1, f) \in CommitLines(m1)
      BY <2>2, LastCommitIsLast DEF CommitLinesOf
    <3> QED  BY <2>2, <1>2, <3>1, <3>2, <3>3 DEF CommittedOffset
  <2> QED  BY <2>1, <2>2
<1> QED  BY <1>1, <1>2, <1>3

\* An append to a manifest of whole lines terminates it and changes no other
\* line.
LEMMA AppendedLines ==
  ASSUME NEW E, NEW m \in Manifests(E), NEW e \in E, WholeLines(m)
  PROVE  /\ AppendEntry(m, e) \in Manifests(E)
         /\ AppendEntry(m, e).terminated
         /\ m.terminated => AppendEntry(m, e).lines = Append(m.lines, e)
         /\ ~m.terminated => AppendEntry(m, e).lines = m.lines
<1>1. m.lines \in Seq(E) /\ m.terminated \in BOOLEAN
  BY DEF Manifests
<1>2. ASSUME ~m.terminated PROVE GlueTo(m.lines) = m.lines
  BY <1>1, <1>2 DEF GlueTo, WholeLines
<1>3. CASE m.terminated
  BY <1>1, <1>3, AppendProperties DEF AppendEntry, Manifests
<1>4. CASE ~m.terminated
  BY <1>1, <1>2, <1>4 DEF AppendEntry, Manifests
<1> QED  BY <1>3, <1>4

\* The same of an append that a crash cuts before the entry is complete, except
\* that the last line is left unterminated.
LEMMA TornLines ==
  ASSUME NEW E, NEW m \in Manifests(E), NEW e \in E, Junk \in E, WholeLines(m)
  PROVE  LET torn == PartialAppend(m, e, "torn")
         IN  /\ torn \in Manifests(E)
             /\ WholeLines(torn)
             /\ SameCommits(m, torn)
<1>1. m.lines \in Seq(E) /\ m.terminated \in BOOLEAN
  BY DEF Manifests
<1> DEFINE torn == PartialAppend(m, e, "torn")
<1>2. CASE m.terminated
  <2>1. torn.lines = Append(m.lines, Junk) /\ torn.terminated = FALSE
    BY <1>2 DEF PartialAppend
  <2> QED
    BY <1>1, <2>1, AppendProperties DEF Manifests, WholeLines, SameCommits, CommitLines, Junk, PartialAppend
<1>3. CASE ~m.terminated
  <2>1. GlueTo(m.lines) = m.lines
    BY <1>1, <1>3 DEF GlueTo, WholeLines
  <2>2. torn.lines = m.lines /\ torn.terminated = FALSE
    BY <1>3, <2>1 DEF PartialAppend
  <2> QED
    BY <1>1, <1>3, <2>2 DEF Manifests, WholeLines, SameCommits, CommitLines, PartialAppend
<1> QED  BY <1>2, <1>3

\* Appending what is not a committed line leaves the committed lines alone.
LEMMA OtherEntryAppended ==
  ASSUME NEW E, NEW m \in Manifests(E), NEW e \in E, WholeLines(m), e.type # "committed"
  PROVE  SameCommits(m, AppendEntry(m, e))
<1>1. m.lines \in Seq(E) /\ m.terminated \in BOOLEAN
  BY DEF Manifests
<1>2. CASE m.terminated
  <2>1. AppendEntry(m, e).lines = Append(m.lines, e)
    BY <1>2, AppendedLines
  <2> QED  BY <1>1, <2>1, AppendProperties DEF SameCommits, CommitLines
<1>3. CASE ~m.terminated
  <2>1. AppendEntry(m, e).lines = m.lines
    BY <1>3, AppendedLines
  <2> QED  BY <2>1 DEF SameCommits, CommitLines
<1> QED  BY <1>2, <1>3

\* Appending a committed line to a terminated manifest adds that line, and from
\* then on its file is truncated to its offset.
LEMMA CommitAppended ==
  ASSUME NEW E, NEW m \in Manifests(E), NEW e \in E, m.terminated, e.type = "committed"
  PROVE  LET after == AppendEntry(m, e)
             n     == Len(m.lines) + 1
         IN  /\ CommitLines(after) = CommitLines(m) \cup {n}
             /\ n \notin CommitLines(m)
             /\ \A i \in CommitLines(m) : after.lines[i] = m.lines[i]
             /\ after.lines[n] = e
             /\ CommittedOffset(after, e.file) = e.offset
<1> DEFINE after == AppendEntry(m, e)
           n == Len(m.lines) + 1
<1>1. m.lines \in Seq(E) /\ Len(m.lines) \in Nat
  BY DEF Manifests
<1>2. after.lines = Append(m.lines, e)
  BY DEF AppendEntry
<1>3. /\ DOMAIN after.lines = DOMAIN m.lines \cup {n}
      /\ n \notin DOMAIN m.lines
      /\ \A i \in DOMAIN m.lines : after.lines[i] = m.lines[i]
      /\ after.lines[n] = e
  BY <1>1, <1>2, AppendProperties
<1>4. /\ CommitLines(after) = CommitLines(m) \cup {n}
      /\ n \notin CommitLines(m)
  BY <1>3 DEF CommitLines
<1>5. after \in Manifests(E)
  BY <1>1, <1>2, AppendProperties DEF Manifests, AppendEntry
<1>6. n \in CommitLinesOf(after, e.file)
  BY <1>3, <1>4 DEF CommitLinesOf
<1>7. LastCommitLine(after, e.file) = n
  <2>1. \A j \in CommitLinesOf(after, e.file) : j \in 1..n
    BY <1>1, <1>3 DEF CommitLinesOf, CommitLines
  <2> QED  BY <1>5, <1>6, <2>1, LastCommitIsLast
<1> QED  BY <1>3, <1>4, <1>6, <1>7 DEF CommittedOffset, CommitLines

\* The committed lines of a manifest are in every manifest with the same ones,
LEMMA SameCommitsKept ==
  ASSUME NEW m1, NEW m2, SameCommits(m1, m2)
  PROVE  Commits(m1) \subseteq Commits(m2)
BY DEF SameCommits, Commits

\* and in the one that an append to a terminated manifest makes.
LEMMA AppendKeepsCommits ==
  ASSUME NEW E, NEW m \in Manifests(E), NEW e \in E, m.terminated
  PROVE  Commits(m) \subseteq Commits(AppendEntry(m, e))
<1>1. m.lines \in Seq(E)
  BY DEF Manifests
<1>2. AppendEntry(m, e).lines = Append(m.lines, e)
  BY DEF AppendEntry
<1>3. \A i \in DOMAIN m.lines : /\ i \in DOMAIN Append(m.lines, e)
                               /\ Append(m.lines, e)[i] = m.lines[i]
  BY <1>1, AppendProperties
<1> QED  BY <1>2, <1>3 DEF Commits, CommitLines

\* A commit appended for one file leaves what is committed of the others as it is.
LEMMA OtherFilesKept ==
  ASSUME NEW E, NEW m \in Manifests(E), NEW e \in E, m.terminated, e.type = "committed",
         NEW f, f # e.file
  PROVE  /\ CommitLinesOf(AppendEntry(m, e), f) = CommitLinesOf(m, f)
         /\ CommittedOffset(AppendEntry(m, e), f) = CommittedOffset(m, f)
<1> DEFINE after == AppendEntry(m, e)
           n     == Len(m.lines) + 1
<1>1. /\ CommitLines(after) = CommitLines(m) \cup {n}
      /\ \A i \in CommitLines(m) : after.lines[i] = m.lines[i]
      /\ after.lines[n] = e
  BY CommitAppended
<1> HIDE DEF after, n
<1>2. CommitLinesOf(after, f) = CommitLinesOf(m, f)
  BY <1>1 DEF CommitLinesOf
<1>3. CASE CommitLinesOf(m, f) = {}
  BY <1>2, <1>3 DEF CommittedOffset, after
<1>4. CASE CommitLinesOf(m, f) # {}
  <2>1. LastCommitLine(after, f) = LastCommitLine(m, f)
    BY <1>2 DEF LastCommitLine
  <2>2. LastCommitLine(m, f) \in CommitLines(m)
    BY <1>4, LastCommitIsLast DEF CommitLinesOf
  <2>3. CommittedOffset(after, f) = CommittedOffset(m, f)
    BY <1>1, <1>2, <1>4, <2>1, <2>2 DEF CommittedOffset
  <2> QED  BY <1>2, <2>3 DEF after
<1> QED  BY <1>3, <1>4, <1>2 DEF after

\* An append, whole or cut, keeps a manifest well typed, whatever its last line.
LEMMA AppendTyped ==
  ASSUME NEW E, NEW m \in Manifests(E), NEW e \in E, Junk \in E
  PROVE  /\ AppendEntry(m, e) \in Manifests(E)
         /\ \A cut : PartialAppend(m, e, cut) \in Manifests(E)
<1>1. m.lines \in Seq(E)
  BY DEF Manifests
<1>2. Append(m.lines, e) \in Seq(E) /\ Append(m.lines, Junk) \in Seq(E)
  BY <1>1
<1>3. GlueTo(m.lines) \in Seq(E)
  <2>1. CASE m.lines = <<>>
    <3>1. GlueTo(m.lines) = m.lines
      BY <2>1 DEF GlueTo
    <3> QED  BY <1>1, <3>1
  <2>2. CASE m.lines # <<>>
    <3>1. Len(m.lines) \in 1..Len(m.lines)
      BY <1>1, <2>2, EmptySeq
    <3> QED  BY <1>1, <3>1, ExceptSeq DEF GlueTo
  <2> QED  BY <2>1, <2>2
<1> QED  BY <1>2, <1>3 DEF AppendEntry, PartialAppend, Manifests

\* A committed line found after an append, whole or cut, was there before it, or
\* is the entry appended.
LEMMA CommitsAfterAppend ==
  ASSUME NEW E, NEW m \in Manifests(E), NEW e, NEW after,
         \/ after = AppendEntry(m, e)
         \/ \E cut : after = PartialAppend(m, e, cut)
  PROVE  \A i \in CommitLines(after) :
            \/ i \in CommitLines(m) /\ after.lines[i] = m.lines[i]
            \/ i = Len(m.lines) + 1 /\ after.lines[i] = e
<1>1. m.lines \in Seq(E) /\ Len(m.lines) \in Nat /\ DOMAIN m.lines = 1..Len(m.lines)
  BY DEF Manifests
<1>2. ASSUME NEW x, after.lines = Append(m.lines, x), x \in {e, Junk}
      PROVE  \A i \in CommitLines(after) :
                \/ i \in CommitLines(m) /\ after.lines[i] = m.lines[i]
                \/ i = Len(m.lines) + 1 /\ after.lines[i] = e
  <2>1. \A i \in DOMAIN after.lines :
           \/ i \in DOMAIN m.lines /\ after.lines[i] = m.lines[i]
           \/ i = Len(m.lines) + 1 /\ after.lines[i] = x
    BY <1>1, <1>2
  <2> QED  BY <1>2, <2>1 DEF CommitLines, Junk
<1>3. ASSUME after.lines = GlueTo(m.lines)
      PROVE  \A i \in CommitLines(after) : i \in CommitLines(m) /\ after.lines[i] = m.lines[i]
  <2>1. /\ DOMAIN after.lines = DOMAIN m.lines
        /\ \A i \in DOMAIN m.lines :
              after.lines[i] = IF i = Len(m.lines) THEN Junk ELSE m.lines[i]
    BY <1>1, <1>3 DEF GlueTo
  <2> QED  BY <2>1 DEF CommitLines, Junk
<1>4. CASE m.terminated
  <2>1. \E x \in {e, Junk} : after.lines = Append(m.lines, x)
    BY <1>4 DEF AppendEntry, PartialAppend
  <2> QED  BY <1>2, <2>1
<1>5. CASE ~m.terminated
  <2>1. after.lines = GlueTo(m.lines)
    BY <1>5 DEF AppendEntry, PartialAppend
  <2> QED  BY <1>3, <2>1
<1> QED  BY <1>4, <1>5

\* A truncated file has the length it was truncated to.
LEMMA TruncatedType ==
  ASSUME NEW C, NEW s \in Seq(C), NEW n \in Nat, Hole \in C
  PROVE  TruncateTo(s, n) \in Seq(C) /\ Len(TruncateTo(s, n)) = n
<1>1. TruncateTo(s, n) \in [1..n -> C]
  BY DEF TruncateTo
<1> QED  BY <1>1
=============================================================================
