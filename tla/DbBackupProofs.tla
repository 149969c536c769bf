---------------------------- MODULE DbBackupProofs ----------------------------
(***************************************************************************)
(* The properties of db_backup.sh for every MAX_BKUP, every number of runs *)
(* and every overlap.                                                      *)
(*                                                                         *)
(* NewestKept is not inductive: a run deletes what it listed earlier, so   *)
(* the promise has to hold of the listed files already.  KeepInv says so,  *)
(* and the step that deletes archive g is safe for an older archive r      *)
(* because the MAX_BKUP archives newer than g are newer than r as well.    *)
(*                                                                         *)
(* RotationBounds rests on UnlistedFew, that a listing leaves out MAX_BKUP *)
(* files at most, and on SparedInv, which allows for the runs that fail    *)
(* before they have deleted what they listed.  AloneInv serves the two     *)
(* properties of runs that do not overlap.                                 *)
(***************************************************************************)
EXTENDS DbBackup, FiniteSetTheorems, TLAPS

\* Archive r is deleted, or some run is about to delete it.
Given(r) ==
  \/ archive[r] = "removed"
  \/ \E q \in Stamps : [kind |-> "archive", stamp |-> r] \in doomed[q]

KeepInv ==
  /\ TypeOK
  /\ \A r \in Stamps : Given(r) => Cardinality(NewerArchives(r)) >= MaxBkup

-----------------------------------------------------------------------------
(* Facts about sets of archives.                                             *)

LEMMA ArchivesFinite ==
  /\ IsFiniteSet(Archives)
  /\ \A r \in Stamps : /\ IsFiniteSet(NewerArchives(r))
                       /\ Cardinality(NewerArchives(r)) \in Nat
<1>1. IsFiniteSet(Stamps)
  BY FS_Interval, BackupAssumption DEF Stamps
<1>2. IsFiniteSet(Archives)
  BY <1>1, FS_Subset DEF Archives
<1>3. ASSUME NEW r \in Stamps
      PROVE  /\ IsFiniteSet(NewerArchives(r))
             /\ Cardinality(NewerArchives(r)) \in Nat
  BY <1>2, FS_Subset, FS_CardinalityType DEF NewerArchives
<1> QED
  BY <1>2, <1>3

\* The files that sort before an archive are the newer archives.
LEMMA NewerFiles ==
  ASSUME NEW r \in Stamps
  PROVE  LET f == [kind |-> "archive", stamp |-> r]
         IN  Cardinality({g \in Backups : Newer(g, f)})
               <= Cardinality(NewerArchives(r))
<1> DEFINE f == [kind |-> "archive", stamp |-> r]
           S == {g \in Backups : Newer(g, f)}
           T == NewerArchives(r)
           m == [g \in S |-> g.stamp]
<1>1. ASSUME NEW g \in S PROVE g.kind = "archive" /\ g.stamp \in T
  BY DEF Newer, Backups, NewerArchives
<1>2. m \in [S -> T]
  BY <1>1
<1>3. ASSUME NEW g \in S, NEW h \in S, m[g] = m[h] PROVE g = h
  <2>1. g.stamp = h.stamp /\ g.kind = h.kind
    BY <1>1, <1>3
  <2>2. g \in [kind : {"archive", "dump"}, stamp : Stamps]
    BY DEF Backups, Archives, Dumps
  <2>3. h \in [kind : {"archive", "dump"}, stamp : Stamps]
    BY DEF Backups, Archives, Dumps
  <2> QED
    BY <2>1, <2>2, <2>3
<1>4. m \in Injection(S, T)
  BY <1>2, <1>3 DEF Injection, IsInjective
<1>5. IsFiniteSet(T)
  BY ArchivesFinite
<1> HIDE DEF m, S, T
<1>6. Cardinality(S) <= Cardinality(T)
  BY <1>4, <1>5, FS_Injection
<1> QED
  BY <1>6 DEF S, T

\* Adding archives does no harm.
LEMMA ArchivesGrow ==
  ASSUME NEW r \in Stamps, Archives \subseteq Archives',
         Cardinality(NewerArchives(r)) >= MaxBkup
  PROVE  Cardinality(NewerArchives(r)') >= MaxBkup
<1>1. IsFiniteSet(NewerArchives(r)') /\ Cardinality(NewerArchives(r)') \in Nat
  <2>1. IsFiniteSet(Stamps)
    BY FS_Interval, BackupAssumption DEF Stamps
  <2>2. NewerArchives(r)' \subseteq Stamps
    BY DEF NewerArchives, Archives
  <2> QED
    BY <2>1, <2>2, FS_Subset, FS_CardinalityType
<1>2. NewerArchives(r) \subseteq NewerArchives(r)'
  BY DEF NewerArchives
<1>3. Cardinality(NewerArchives(r)) <= Cardinality(NewerArchives(r)')
  BY <1>1, <1>2, FS_Subset
<1> QED
  BY <1>1, <1>3, ArchivesFinite, BackupAssumption

-----------------------------------------------------------------------------

LEMMA KeepInit == Init => KeepInv
<1> SUFFICES ASSUME Init PROVE KeepInv
  OBVIOUS
<1>1. TypeOK
  BY DEF Init, TypeOK, Steps, DumpStates, ArchiveStates
<1>2. \A r \in Stamps : ~Given(r)
  BY DEF Init, Given
<1> QED
  BY <1>1, <1>2 DEF KeepInv

LEMMA TypeStep == TypeOK /\ [Next]_vars => TypeOK'
<1> SUFFICES ASSUME TypeOK, [Next]_vars PROVE TypeOK'
  OBVIOUS
<1> USE DEF TypeOK, Goto, Steps, DumpStates, ArchiveStates
<1>1. ASSUME NEW r \in Stamps, StartRun(r) PROVE TypeOK'
  BY <1>1 DEF StartRun
<1>2. ASSUME NEW r \in Stamps, BeginDump(r) PROVE TypeOK'
  BY <1>2 DEF BeginDump
<1>3. ASSUME NEW r \in Stamps, EndDump(r) PROVE TypeOK'
  BY <1>3 DEF EndDump
<1>4. ASSUME NEW r \in Stamps, BeginTar(r) PROVE TypeOK'
  BY <1>4 DEF BeginTar
<1>5. ASSUME NEW r \in Stamps, EndTar(r) PROVE TypeOK'
  BY <1>5 DEF EndTar
<1>6. ASSUME NEW r \in Stamps, TarFails(r) PROVE TypeOK'
  BY <1>6 DEF TarFails
<1>7. ASSUME NEW r \in Stamps, ListOld(r) PROVE TypeOK'
  <2>1. Backups \subseteq File
    BY DEF Backups, File, Archives, Dumps
  <2> QED
    BY <1>7, <2>1 DEF ListOld
<1>8. ASSUME NEW r \in Stamps, RemoveOld(r) PROVE TypeOK'
  <2>1. PICK f \in doomed[r] :
          /\ doomed' = [doomed EXCEPT ![r] = @ \ {f}]
          /\ IF f.kind = "archive"
             THEN archive' = [archive EXCEPT ![f.stamp] = "removed"] /\ UNCHANGED dump
             ELSE dump' = [dump EXCEPT ![f.stamp] = "none"] /\ UNCHANGED archive
    BY <1>8 DEF RemoveOld
  <2> QED
    BY <1>8, <2>1 DEF RemoveOld
<1>9. ASSUME NEW r \in Stamps, AllDone(r) PROVE TypeOK'
  BY <1>9 DEF AllDone
<1>10. ASSUME NEW r \in Stamps, RunFails(r) PROVE TypeOK'
  BY <1>10 DEF RunFails
<1>11. CASE UNCHANGED vars
  BY <1>11 DEF vars
<1> QED
  BY <1>1, <1>2, <1>3, <1>4, <1>5, <1>6, <1>7, <1>8, <1>9, <1>10, <1>11 DEF Next

\* Every step but listing and deleting: no archive goes and nothing is listed.
LEMMA NothingNewGiven ==
  ASSUME KeepInv, Archives \subseteq Archives',
         \A r \in Stamps : archive'[r] = "removed" => archive[r] = "removed",
         \A q \in Stamps : doomed'[q] \subseteq doomed[q],
         NEW r \in Stamps, Given(r)'
  PROVE  Cardinality(NewerArchives(r)') >= MaxBkup
<1>1. Given(r)
  BY DEF Given
<1> QED
  BY <1>1, ArchivesGrow DEF KeepInv

LEMMA ListKeeps ==
  ASSUME KeepInv, NEW q \in Stamps, ListOld(q), NEW r \in Stamps, Given(r)'
  PROVE  Cardinality(NewerArchives(r)') >= MaxBkup
<1> DEFINE f == [kind |-> "archive", stamp |-> r]
<1>1. NewerArchives(r)' = NewerArchives(r)
  BY DEF ListOld, NewerArchives, Archives
<1>2. CASE Given(r)
  BY <1>1, <1>2 DEF KeepInv
<1>3. CASE ~Given(r)
  <2>1. f \in doomed'[q]
    BY <1>3 DEF Given, ListOld, KeepInv, TypeOK
  <2>2. Cardinality({g \in Backups : Newer(g, f)}) >= MaxBkup
    BY <2>1 DEF ListOld, KeepInv, TypeOK
  <2>3. IsFiniteSet({g \in Backups : Newer(g, f)})
    <3> DEFINE S == {g \in Backups : Newer(g, f)}
               m == [g \in S |-> g.stamp]
    <3>1. ASSUME NEW g \in S PROVE g.stamp \in Archives /\ g.kind = "archive"
      BY DEF Newer, Backups
    <3>2. ASSUME NEW g \in S, NEW h \in S, m[g] = m[h] PROVE g = h
      BY <3>1, <3>2 DEF Backups
    <3>3. m \in Injection(S, Archives)
      BY <3>1, <3>2 DEF Injection, IsInjective
    <3> HIDE DEF m, S
    <3>4. IsFiniteSet(S)
      BY <3>3, ArchivesFinite, FS_Injection
    <3> QED
      BY <3>4 DEF S
  <2>4. Cardinality({g \in Backups : Newer(g, f)}) \in Nat
    BY <2>3, FS_CardinalityType
  <2>5. Cardinality({g \in Backups : Newer(g, f)}) <= Cardinality(NewerArchives(r))
    BY NewerFiles
  <2>6. Cardinality(NewerArchives(r)) \in Nat
    BY ArchivesFinite
  <2> QED
    BY <1>1, <2>2, <2>4, <2>5, <2>6, BackupAssumption
<1> QED
  BY <1>2, <1>3

\* Deleting archive g: what is newer than g stays.
LEMMA RemoveKeeps ==
  ASSUME KeepInv, NEW q \in Stamps, RemoveOld(q), NEW r \in Stamps, Given(r)'
  PROVE  Cardinality(NewerArchives(r)') >= MaxBkup
<1>1. PICK f \in doomed[q] :
        /\ doomed' = [doomed EXCEPT ![q] = @ \ {f}]
        /\ IF f.kind = "archive"
           THEN archive' = [archive EXCEPT ![f.stamp] = "removed"] /\ UNCHANGED dump
           ELSE dump' = [dump EXCEPT ![f.stamp] = "none"] /\ UNCHANGED archive
  BY DEF RemoveOld
<1>2. f \in File
  BY DEF KeepInv, TypeOK
<1>3. CASE f.kind = "dump"
  <2>1. archive' = archive
    BY <1>1, <1>3
  <2> QED
    BY <1>1, <2>1, NothingNewGiven DEF Archives, KeepInv, TypeOK
<1>4. CASE f.kind = "archive"
  <2> DEFINE g == f.stamp
  <2>1. g \in Stamps /\ f = [kind |-> "archive", stamp |-> g]
    BY <1>2, <1>4 DEF File
  <2>2. archive' = [archive EXCEPT ![g] = "removed"]
    BY <1>1, <1>4
  <2>3. Archives' = Archives \ {g}
    BY <2>1, <2>2 DEF Archives, KeepInv, TypeOK
  <2>4. Given(g) /\ Given(r)
    BY <1>1, <2>1, <2>2 DEF Given, KeepInv, TypeOK
  <2>5. Cardinality(NewerArchives(g)) >= MaxBkup /\ Cardinality(NewerArchives(r)) >= MaxBkup
    BY <2>1, <2>4 DEF KeepInv
  <2>6. r \in Nat /\ g \in Nat /\ \A s \in Stamps : s \in Nat
    BY <2>1 DEF Stamps
  <2>7. CASE g > r
    <3>1. NewerArchives(g) \subseteq NewerArchives(r)'
      <4> SUFFICES ASSUME NEW s \in Archives, s > g
                   PROVE  s \in Archives' /\ s > r
        BY DEF NewerArchives
      <4>1. s \in Nat /\ g \in Nat /\ r \in Nat
        BY <2>6 DEF Archives
      <4>2. s # g /\ s > r
        BY <4>1, <2>7
      <4> QED
        BY <2>3, <4>2
    <3>2. IsFiniteSet(NewerArchives(r)')
      BY <2>3, ArchivesFinite, FS_Subset DEF NewerArchives
    <3>3. Cardinality(NewerArchives(g)) <= Cardinality(NewerArchives(r)')
      BY <3>1, <3>2, FS_Subset
    <3>4. Cardinality(NewerArchives(r)') \in Nat /\ Cardinality(NewerArchives(g)) \in Nat
      BY <2>1, <3>2, ArchivesFinite, FS_CardinalityType
    <3> QED
      BY <2>5, <3>3, <3>4, BackupAssumption
  <2>8. CASE ~(g > r)
    <3>1. NewerArchives(r)' = NewerArchives(r)
      BY <2>3, <2>6, <2>8 DEF NewerArchives
    <3> QED
      BY <2>5, <3>1
  <2> QED
    BY <2>7, <2>8
<1> QED
  BY <1>2, <1>3, <1>4 DEF File

LEMMA KeepStep == KeepInv /\ [Next]_vars => KeepInv'
<1> SUFFICES ASSUME KeepInv, [Next]_vars PROVE KeepInv'
  OBVIOUS
<1>1. TypeOK'
  BY TypeStep DEF KeepInv
<1> SUFFICES ASSUME NEW r \in Stamps, Given(r)'
             PROVE  Cardinality(NewerArchives(r)') >= MaxBkup
  BY <1>1 DEF KeepInv
<1> DEFINE Quiet == /\ Archives \subseteq Archives'
                    /\ \A s \in Stamps : archive'[s] = "removed" => archive[s] = "removed"
                    /\ \A s \in Stamps : doomed'[s] \subseteq doomed[s]
<1>2. Quiet => Cardinality(NewerArchives(r)') >= MaxBkup
  BY NothingNewGiven
<1>3. ASSUME NEW q \in Stamps, ListOld(q)
      PROVE  Cardinality(NewerArchives(r)') >= MaxBkup
  BY <1>3, ListKeeps
<1>4. ASSUME NEW q \in Stamps, RemoveOld(q)
      PROVE  Cardinality(NewerArchives(r)') >= MaxBkup
  BY <1>4, RemoveKeeps
<1> USE DEF KeepInv, TypeOK, Archives
<1>5. ASSUME NEW q \in Stamps,
             StartRun(q) \/ BeginDump(q) \/ EndDump(q) \/ TarFails(q) \/ AllDone(q)
      PROVE  Quiet
  BY <1>5 DEF StartRun, BeginDump, EndDump, TarFails, AllDone
<1>6. ASSUME NEW q \in Stamps, BeginTar(q) PROVE Quiet
  BY <1>6 DEF BeginTar
<1>7. ASSUME NEW q \in Stamps, EndTar(q) PROVE Quiet
  BY <1>7 DEF EndTar
<1>8. ASSUME NEW q \in Stamps, RunFails(q) PROVE Quiet
  BY <1>8 DEF RunFails
<1>9. CASE UNCHANGED vars
  BY <1>2, <1>9 DEF vars
<1> QED
  BY <1>2, <1>3, <1>4, <1>5, <1>6, <1>7, <1>8, <1>9 DEF Next

-----------------------------------------------------------------------------
(* How much the rotation leaves: no more files than MAX_BKUP sort before the *)
(* ones a run does not list, for a file's place in the order is its own.     *)

LEMMA BackupsFinite ==
  /\ Backups \subseteq File
  /\ IsFiniteSet(File)
  /\ \A S \in SUBSET File : IsFiniteSet(S) /\ Cardinality(S) \in Nat
<1>1. Backups \subseteq File
  BY DEF Backups, File, Archives, Dumps
<1>2. IsFiniteSet(Stamps)
  BY FS_Interval, BackupAssumption DEF Stamps
<1>3. IsFiniteSet(File)
  <2> DEFINE A == [kind : {"archive"}, stamp : Stamps]
             D == [kind : {"dump"}, stamp : Stamps]
             a == [f \in A |-> f.stamp]
             d == [f \in D |-> f.stamp]
  <2>1. a \in Injection(A, Stamps) /\ d \in Injection(D, Stamps)
    BY DEF Injection, IsInjective
  <2>2. File = A \union D
    BY DEF File
  <2> HIDE DEF A, D, a, d
  <2>3. IsFiniteSet(A) /\ IsFiniteSet(D)
    BY <2>1, <1>2, FS_Injection
  <2> QED
    BY <2>2, <2>3, FS_Union
<1> QED
  BY <1>1, <1>3, FS_Subset, FS_CardinalityType

\* What `tail -n +$((MAX_BKUP + 1))` leaves out of the list.
Place(f) == Cardinality({g \in Backups : Newer(g, f)})
Unlisted == {f \in Backups : ~(Place(f) >= MaxBkup)}

LEMMA PlacesDiffer ==
  ASSUME NEW f \in Backups, NEW h \in Backups, Newer(f, h)
  PROVE  Place(f) < Place(h)
<1> DEFINE F == {g \in Backups : Newer(g, f)}
           H == {g \in Backups : Newer(g, h)}
<1>1. \A g \in Backups : g \in File /\ g.stamp \in Nat /\ g.kind \in {"archive", "dump"}
  BY BackupsFinite DEF File, Stamps
<1>2. F \subseteq H
  BY <1>1 DEF Newer
<1>3. f \in H /\ f \notin F
  BY <1>1 DEF Newer
<1>4. IsFiniteSet(H)
  BY BackupsFinite
<1> HIDE DEF F, H
<1>5. Cardinality(F) <= Cardinality(H) /\ Cardinality(F) # Cardinality(H)
  BY <1>2, <1>3, <1>4, FS_Subset
<1>6. Cardinality(F) \in Nat /\ Cardinality(H) \in Nat
  BY <1>2, <1>4, FS_Subset, FS_CardinalityType
<1> QED
  BY <1>5, <1>6 DEF F, H, Place

LEMMA UnlistedFew == Cardinality(Unlisted) <= MaxBkup
<1> DEFINE m == [f \in Unlisted |-> Place(f)]
           N == 0 .. (MaxBkup - 1)
<1>1. \A f \in Backups : Place(f) \in Nat
  BY BackupsFinite DEF Place
<1>2. ASSUME NEW f \in Unlisted PROVE Place(f) \in N
  BY <1>1, BackupAssumption DEF Unlisted
<1>3. ASSUME NEW f \in Unlisted, NEW h \in Unlisted, m[f] = m[h] PROVE f = h
  <2>1. f \in Backups /\ h \in Backups /\ Place(f) = Place(h)
    BY <1>3 DEF Unlisted
  <2>2. ~Newer(f, h) /\ ~Newer(h, f)
    BY <2>1, <1>1, PlacesDiffer
  <2>3. f \in File /\ h \in File
    BY <2>1, BackupsFinite
  <2>4. f.stamp \in Nat /\ h.stamp \in Nat
    BY <2>3 DEF File, Stamps
  <2>5. f.kind = h.kind /\ f.stamp = h.stamp
    BY <2>2, <2>3, <2>4 DEF Newer, File
  <2> QED
    BY <2>3, <2>5 DEF File
<1>4. m \in Injection(Unlisted, N)
  BY <1>2, <1>3 DEF Injection, IsInjective
<1>5. IsFiniteSet(N) /\ Cardinality(N) = MaxBkup
  BY FS_Interval, BackupAssumption
<1> HIDE DEF m, N
<1>6. Cardinality(Unlisted) <= Cardinality(N)
  BY <1>4, <1>5, FS_Injection
<1> QED
  BY <1>5, <1>6

\* rm -f of one file.
Gone(f) ==
  IF f.kind = "archive"
  THEN archive' = [archive EXCEPT ![f.stamp] = "removed"] /\ UNCHANGED dump
  ELSE dump' = [dump EXCEPT ![f.stamp] = "none"] /\ UNCHANGED archive

LEMMA GoneIsGone ==
  ASSUME TypeOK, NEW f \in File, Gone(f)
  PROVE  Backups' = Backups \ {f}
<1>1. CASE f.kind = "archive"
  <2>1. Archives' = Archives \ {f.stamp} /\ Dumps' = Dumps
    BY <1>1 DEF Gone, TypeOK, File, Archives, Dumps
  <2> QED
    BY <1>1, <2>1 DEF Backups, File
<1>2. CASE f.kind = "dump"
  <2>1. Archives' = Archives /\ Dumps' = Dumps \ {f.stamp}
    BY <1>2 DEF Gone, TypeOK, File, Archives, Dumps
  <2> QED
    BY <1>2, <2>1 DEF Backups, File
<1> QED
  BY <1>1, <1>2 DEF File

\* Deleting a listed file, or ending with none left, changes nothing of what
\* the list left out.
LEMMA CleanUpKeeps ==
  ASSUME TypeOK, NEW q \in Stamps, RemoveOld(q) \/ AllDone(q)
  PROVE  Backups' \ doomed'[q] = Backups \ doomed[q]
<1>1. CASE AllDone(q)
  BY <1>1 DEF AllDone, Backups, Archives, Dumps
<1>2. CASE RemoveOld(q)
  <2>1. PICK f \in doomed[q] : doomed' = [doomed EXCEPT ![q] = @ \ {f}] /\ Gone(f)
    BY <1>2 DEF RemoveOld, Gone
  <2>2. f \in File
    BY DEF TypeOK
  <2>3. Backups' = Backups \ {f}
    BY <2>1, <2>2, GoneIsGone
  <2>4. doomed'[q] = doomed[q] \ {f}
    BY <2>1 DEF TypeOK
  <2> QED
    BY <2>1, <2>3, <2>4
<1> QED
  BY <1>1, <1>2

-----------------------------------------------------------------------------
(* Runs that do not overlap.  A run at work is the last one, so no other run *)
(* writes or deletes between its listing and its end.                        *)

Alone ==
  /\ \A q \in Stamps : doomed[q] # {} => pc[q] = "clean"
  /\ ~overlap => \A q \in Stamps : pc[q] \in AtWork
                     => \A p \in Stamps : p > q => pc[p] = "none"

Full ==
  ~overlap => \A r \in Stamps :
    /\ pc[r] = "dump" => dump[r] = "partial"
    /\ pc[r] \in {"tar", "packing"} => dump[r] = "whole"
    /\ archive[r] # "hollow"

Last(r) == \A q \in Stamps : q > r => pc[q] = "none"

\* From its listing on, the last run leaves at most MAX_BKUP files.
Few ==
  ~overlap => \A r \in Stamps :
    pc[r] \in {"clean", "done"} /\ Last(r)
      => Cardinality(Backups \ doomed[r]) <= MaxBkup

AloneInv == TypeOK /\ Alone /\ Full /\ Few

LEMMA OneAtWork ==
  ASSUME Alone, ~overlap, NEW q \in Stamps, NEW r \in Stamps,
         pc[q] \in AtWork, pc[r] # "none", r = q \/ Last(r) \/ pc[r] \in AtWork
  PROVE  q = r
<1>1. q \in Nat /\ r \in Nat
  BY DEF Stamps
<1>2. ~(r > q) /\ ~(q > r)
  BY DEF Alone, Last, AtWork
<1> QED
  BY <1>1, <1>2

LEMMA AloneInit == Init => AloneInv
<1> SUFFICES ASSUME Init PROVE AloneInv
  OBVIOUS
<1>1. TypeOK
  BY KeepInit DEF KeepInv
<1> QED
  BY <1>1 DEF Init, AloneInv, Alone, Full, Few, AtWork

LEMMA AloneStep == TypeOK /\ Alone /\ [Next]_vars => Alone'
<1> SUFFICES ASSUME TypeOK, Alone, [Next]_vars PROVE Alone'
  OBVIOUS
<1> USE DEF TypeOK, Alone, Goto, AtWork
<1>1. ASSUME NEW r \in Stamps, StartRun(r) PROVE Alone'
  <2>1. \A p \in Stamps : p \in Nat
    BY DEF Stamps
  <2> QED
    BY <1>1, <2>1 DEF StartRun, Steps
<1>2. ASSUME NEW r \in Stamps, BeginDump(r) \/ EndDump(r) \/ BeginTar(r) PROVE Alone'
  BY <1>2 DEF BeginDump, EndDump, BeginTar
<1>3. ASSUME NEW r \in Stamps, EndTar(r) \/ TarFails(r) PROVE Alone'
  BY <1>3 DEF EndTar, TarFails
<1>4. ASSUME NEW r \in Stamps, ListOld(r) PROVE Alone'
  BY <1>4 DEF ListOld
<1>5. ASSUME NEW r \in Stamps, RemoveOld(r) PROVE Alone'
  BY <1>5 DEF RemoveOld
<1>6. ASSUME NEW r \in Stamps, AllDone(r) PROVE Alone'
  BY <1>6 DEF AllDone
<1>7. ASSUME NEW r \in Stamps, RunFails(r) PROVE Alone'
  BY <1>7 DEF RunFails
<1>8. CASE UNCHANGED vars
  BY <1>8 DEF vars
<1> QED
  BY <1>1, <1>2, <1>3, <1>4, <1>5, <1>6, <1>7, <1>8 DEF Next

LEMMA FullStep == TypeOK /\ Alone /\ Full /\ [Next]_vars => Full'
<1> SUFFICES ASSUME TypeOK, Alone, Full, [Next]_vars PROVE Full'
  OBVIOUS
<1> USE DEF TypeOK, Full, Goto
<1>1. ASSUME NEW r \in Stamps, StartRun(r) \/ BeginDump(r) PROVE Full'
  BY <1>1 DEF StartRun, BeginDump
<1>2. ASSUME NEW r \in Stamps, EndDump(r) \/ BeginTar(r) PROVE Full'
  BY <1>2 DEF EndDump, BeginTar
<1>3. ASSUME NEW r \in Stamps, EndTar(r) \/ TarFails(r) PROVE Full'
  BY <1>3 DEF EndTar, TarFails
<1>4. ASSUME NEW r \in Stamps, ListOld(r) \/ AllDone(r) \/ RunFails(r) PROVE Full'
  BY <1>4 DEF ListOld, AllDone, RunFails
<1>5. ASSUME NEW q \in Stamps, RemoveOld(q) PROVE Full'
  <2> SUFFICES ASSUME ~overlap, NEW r \in Stamps
               PROVE  /\ pc'[r] = "dump" => dump'[r] = "partial"
                      /\ pc'[r] \in {"tar", "packing"} => dump'[r] = "whole"
                      /\ archive'[r] # "hollow"
    BY <1>5 DEF RemoveOld
  <2>1. pc' = pc /\ pc[q] = "clean"
    BY <1>5 DEF RemoveOld
  <2>2. pc[r] \notin {"dump", "tar", "packing"}
    BY <2>1, OneAtWork DEF AtWork
  <2>3. archive'[r] # "hollow"
    BY <1>5 DEF RemoveOld, File
  <2> QED
    BY <2>1, <2>2, <2>3
<1>6. CASE UNCHANGED vars
  BY <1>6 DEF vars
<1> QED
  BY <1>1, <1>2, <1>3, <1>4, <1>5, <1>6 DEF Next

LEMMA FewStep == TypeOK /\ Alone /\ Few /\ [Next]_vars => Few'
<1> SUFFICES ASSUME TypeOK, Alone, Few, [Next]_vars,
                    ~overlap', NEW r \in Stamps,
                    pc'[r] \in {"clean", "done"}, Last(r)'
             PROVE  Cardinality(Backups' \ doomed'[r]) <= MaxBkup
  BY DEF Few
<1>1. ~overlap
  BY DEF Next, StartRun, BeginDump, EndDump, BeginTar, EndTar, TarFails,
         ListOld, RemoveOld, AllDone, RunFails, vars
<1>2. CASE UNCHANGED vars
  <2>1. Last(r) /\ pc[r] \in {"clean", "done"}
    BY <1>2 DEF vars, Last
  <2>2. Backups' = Backups /\ doomed' = doomed
    BY <1>2 DEF vars, Backups, Archives, Dumps
  <2> QED
    BY <1>1, <2>1, <2>2 DEF Few
<1>3. ASSUME NEW q \in Stamps, StartRun(q) PROVE FALSE
  <2>1. q # r /\ pc[r] # "none"
    BY <1>3 DEF StartRun, Goto, TypeOK
  <2>2. q > r
    <3>1. q \in Nat /\ r \in Nat
      BY DEF Stamps
    <3> QED
      BY <1>3, <2>1, <3>1 DEF StartRun
  <2> QED
    BY <1>3, <2>2 DEF StartRun, Goto, TypeOK, Last
\* Any other step is one of the run at work, and that is the last one.
<1>4. ASSUME NEW q \in Stamps, pc[q] \in AtWork, pc'[q] # "none",
             \A p \in Stamps \ {q} : pc'[p] = pc[p]
      PROVE  q = r /\ Last(r)
  <2>1. Last(r)
    BY <1>4 DEF Last, AtWork
  <2>2. pc[r] # "none"
    BY <1>4 DEF AtWork
  <2> QED
    BY <1>1, <1>4, <2>1, <2>2, OneAtWork
<1>5. ASSUME NEW q \in Stamps,
             \/ BeginDump(q) \/ EndDump(q) \/ BeginTar(q)
             \/ EndTar(q) \/ TarFails(q) \/ RunFails(q)
      PROVE  FALSE
  <2>1. pc[q] \in AtWork /\ pc'[q] \notin {"none", "clean", "done"}
           /\ \A p \in Stamps \ {q} : pc'[p] = pc[p]
    BY <1>5 DEF BeginDump, EndDump, BeginTar, EndTar, TarFails, RunFails,
                Goto, TypeOK, AtWork
  <2> QED
    BY <1>4, <2>1
<1>6. ASSUME NEW q \in Stamps, ListOld(q)
      PROVE  Cardinality(Backups' \ doomed'[r]) <= MaxBkup
  <2>1. pc[q] \in AtWork /\ pc'[q] # "none" /\ \A p \in Stamps \ {q} : pc'[p] = pc[p]
    BY <1>6 DEF ListOld, Goto, TypeOK, AtWork
  <2>2. q = r
    BY <1>4, <2>1
  <2>3. Backups' = Backups
    BY <1>6 DEF ListOld, Backups, Archives, Dumps
  <2>4. doomed'[r] = {f \in Backups : Place(f) >= MaxBkup}
    BY <1>6, <2>2 DEF ListOld, TypeOK, Place
  <2>5. Backups' \ doomed'[r] = Unlisted
    BY <2>3, <2>4 DEF Unlisted
  <2> QED
    BY <2>5, UnlistedFew
<1>7. ASSUME NEW q \in Stamps, RemoveOld(q) \/ AllDone(q)
      PROVE  Cardinality(Backups' \ doomed'[r]) <= MaxBkup
  <2>1. pc[q] = "clean" /\ pc'[q] # "none" /\ \A p \in Stamps \ {q} : pc'[p] = pc[p]
    BY <1>7 DEF RemoveOld, AllDone, Goto, TypeOK
  <2>2. q = r /\ Last(r)
    BY <1>4, <2>1 DEF AtWork
  <2>3. Backups' \ doomed'[r] = Backups \ doomed[r]
    BY <1>7, <2>2, CleanUpKeeps
  <2> QED
    BY <1>1, <2>1, <2>2, <2>3 DEF Few
<1> QED
  BY <1>2, <1>3, <1>5, <1>6, <1>7 DEF Next

-----------------------------------------------------------------------------
(* Runs that overlap.  A run that fails in its deletions spares the rest of  *)
(* its list, so the bound has to hold whichever runs X are still to fail:    *)
(* the files of the others, less what those have listed, are few.  It does,  *)
(* because the failure takes the files of the run itself out of the count,   *)
(* and before the run listed there were few without them.                    *)

\* Files of the runs outside X that have listed, and that none of them listed.
Spared(X) ==
  {f \in Backups : /\ f.stamp \notin X
                   /\ pc[f.stamp] \in {"clean", "done"}
                   /\ \A q \in Stamps \ X : f \notin doomed[q]}

SparedInv ==
  /\ TypeOK
  /\ \A q \in Stamps : doomed[q] # {} => pc[q] = "clean"
  /\ \A X \in SUBSET Stamps : Cardinality(Spared(X)) <= MaxBkup

LEMMA SmallerIsFew ==
  ASSUME NEW S \in SUBSET File, NEW T \in SUBSET S, Cardinality(S) <= MaxBkup
  PROVE  Cardinality(T) <= MaxBkup
<1>1. IsFiniteSet(S) /\ Cardinality(S) \in Nat /\ Cardinality(T) \in Nat
  BY BackupsFinite
<1>2. Cardinality(T) <= Cardinality(S)
  BY <1>1, FS_Subset
<1> QED
  BY <1>1, <1>2, BackupAssumption

LEMMA SparedStep == SparedInv /\ [Next]_vars => SparedInv'
<1> SUFFICES ASSUME SparedInv, [Next]_vars PROVE SparedInv'
  OBVIOUS
<1>1. TypeOK /\ TypeOK'
  BY TypeStep DEF SparedInv
<1>2. \A q \in Stamps : doomed'[q] # {} => pc'[q] = "clean"
  <2> USE <1>1 DEF TypeOK, SparedInv, Goto
  <2>0. ASSUME NEW r \in Stamps, StartRun(r)
        PROVE  \A q \in Stamps : doomed'[q] # {} => pc'[q] = "clean"
    <3>1. r \in Nat
      BY DEF Stamps
    <3>2. pc[r] = "none"
      BY <2>0, <3>1 DEF StartRun
    <3> QED
      BY <2>0, <3>2 DEF StartRun
  <2>1. ASSUME NEW r \in Stamps, BeginDump(r) \/ EndDump(r) \/ BeginTar(r)
        PROVE  \A q \in Stamps : doomed'[q] # {} => pc'[q] = "clean"
    BY <2>1 DEF BeginDump, EndDump, BeginTar
  <2>2. ASSUME NEW r \in Stamps, EndTar(r) \/ TarFails(r) \/ ListOld(r)
        PROVE  \A q \in Stamps : doomed'[q] # {} => pc'[q] = "clean"
    BY <2>2 DEF EndTar, TarFails, ListOld
  <2>3. ASSUME NEW r \in Stamps, RemoveOld(r) \/ AllDone(r) \/ RunFails(r)
        PROVE  \A q \in Stamps : doomed'[q] # {} => pc'[q] = "clean"
    BY <2>3 DEF RemoveOld, AllDone, RunFails
  <2> QED
    BY <2>0, <2>1, <2>2, <2>3 DEF Next, vars
<1> SUFFICES ASSUME NEW X \in SUBSET Stamps
             PROVE  Cardinality(Spared(X)') <= MaxBkup
  BY <1>1, <1>2 DEF SparedInv
<1>3. \A Y \in SUBSET Stamps : /\ Spared(Y) \in SUBSET File
                               /\ Cardinality(Spared(Y)) <= MaxBkup
  BY BackupsFinite DEF Spared, SparedInv
<1>4. ASSUME NEW Y \in SUBSET Stamps, Spared(X)' \subseteq Spared(Y)
      PROVE  Cardinality(Spared(X)') <= MaxBkup
  BY <1>3, <1>4, SmallerIsFew
\* Before they list, runs write files that do not count yet.
<1>5. ASSUME NEW r \in Stamps,
             \/ StartRun(r) \/ BeginDump(r) \/ EndDump(r) \/ BeginTar(r)
             \/ EndTar(r) \/ TarFails(r)
      PROVE  Spared(X)' \subseteq Spared(X)
  <2>1. doomed' = doomed /\ pc'[r] \notin {"clean", "done"}
           /\ \A p \in Stamps \ {r} : /\ pc'[p] = pc[p]
                                      /\ dump'[p] = dump[p]
                                      /\ archive'[p] = archive[p]
    BY <1>1, <1>5 DEF StartRun, BeginDump, EndDump, BeginTar, EndTar, TarFails,
                      Goto, TypeOK
  <2> SUFFICES ASSUME NEW f \in Spared(X)' PROVE f \in Spared(X)
    OBVIOUS
  <2>2. f \in File /\ f \in Backups' /\ f.stamp \in Stamps
    BY DEF Spared, Backups, File, Archives, Dumps
  <2>3. f.stamp # r
    BY <2>1 DEF Spared
  <2>4. f \in Backups
    BY <2>1, <2>2, <2>3 DEF Backups, Archives, Dumps
  <2> QED
    BY <2>1, <2>2, <2>3, <2>4 DEF Spared
<1>6. ASSUME NEW r \in Stamps, ListOld(r) PROVE Cardinality(Spared(X)') <= MaxBkup
  <2>1. Backups' = Backups
    BY <1>6 DEF ListOld, Backups, Archives, Dumps
  <2>2. doomed'[r] = {f \in Backups : Place(f) >= MaxBkup}
           /\ \A p \in Stamps \ {r} : pc'[p] = pc[p] /\ doomed'[p] = doomed[p]
    BY <1>1, <1>6 DEF ListOld, Goto, TypeOK, Place
  <2>3. CASE r \in X
    <3>1. \A f \in Backups : f.stamp \in Stamps
      BY DEF Backups, Archives, Dumps
    <3>2. Spared(X)' \subseteq Spared(X)
      BY <2>1, <2>2, <2>3, <3>1 DEF Spared
    <3> QED
      BY <1>4, <3>2
  <2>4. CASE r \notin X
    <3>1. Spared(X)' \subseteq Unlisted
      BY <2>1, <2>2, <2>4 DEF Spared, Unlisted
    <3>2. Unlisted \in SUBSET File
      BY BackupsFinite DEF Unlisted
    <3> QED
      BY <3>1, <3>2, UnlistedFew, SmallerIsFew
  <2> QED
    BY <2>3, <2>4
<1>7. ASSUME NEW r \in Stamps, RemoveOld(r) PROVE Spared(X)' \subseteq Spared(X)
  <2>1. PICK g \in doomed[r] : doomed' = [doomed EXCEPT ![r] = @ \ {g}] /\ Gone(g)
    BY <1>7 DEF RemoveOld, Gone
  <2>2. g \in File
    BY <1>1 DEF TypeOK
  <2>3. Backups' = Backups \ {g} /\ pc' = pc
    BY <1>1, <1>7, <2>1, <2>2, GoneIsGone DEF RemoveOld
  <2>4. \A q \in Stamps : doomed[q] \subseteq doomed'[q] \union {g}
    BY <1>1, <2>1 DEF TypeOK
  <2> QED
    BY <2>3, <2>4 DEF Spared
<1>8. ASSUME NEW r \in Stamps, AllDone(r) PROVE Spared(X)' \subseteq Spared(X)
  <2>1. Backups' = Backups /\ doomed' = doomed /\ pc[r] = "clean"
           /\ \A p \in Stamps \ {r} : pc'[p] = pc[p]
    BY <1>1, <1>8 DEF AllDone, Backups, Archives, Dumps, Goto, TypeOK
  <2>2. \A f \in Backups : f.stamp \in Stamps
    BY DEF Backups, Archives, Dumps
  <2> QED
    BY <2>1, <2>2 DEF Spared
<1>9. ASSUME NEW r \in Stamps, RunFails(r)
      PROVE  Spared(X)' \subseteq Spared(X \union {r})
  <2>1. Backups' = Backups /\ pc'[r] = "failed"
           /\ \A p \in Stamps \ {r} : pc'[p] = pc[p] /\ doomed'[p] = doomed[p]
    BY <1>1, <1>9 DEF RunFails, Backups, Archives, Dumps, Goto, TypeOK
  <2>2. \A f \in Backups : f.stamp \in Stamps
    BY DEF Backups, Archives, Dumps
  <2> QED
    BY <2>1, <2>2 DEF Spared
<1>10. CASE UNCHANGED vars
  <2>1. Spared(X)' = Spared(X)
    BY <1>10 DEF vars, Spared, Backups, Archives, Dumps
  <2> QED
    BY <1>4, <2>1
<1>11. ASSUME NEW r \in Stamps,
              \/ StartRun(r) \/ BeginDump(r) \/ EndDump(r) \/ BeginTar(r)
              \/ EndTar(r) \/ TarFails(r) \/ RemoveOld(r) \/ AllDone(r)
       PROVE  Cardinality(Spared(X)') <= MaxBkup
  BY <1>4, <1>5, <1>7, <1>8, <1>11
<1>12. ASSUME NEW r \in Stamps, RunFails(r)
       PROVE  Cardinality(Spared(X)') <= MaxBkup
  <2>1. X \union {r} \in SUBSET Stamps
    OBVIOUS
  <2>2. Spared(X)' \subseteq Spared(X \union {r})
    BY <1>9, <1>12
  <2> QED
    BY <1>4, <2>1, <2>2
<1> QED
  BY <1>6, <1>10, <1>11, <1>12 DEF Next

-----------------------------------------------------------------------------

\* The states of db_backup.sh are the ones the model declares.
THEOREM BackupTypeCorrect == Spec => []TypeOK
<1>1. Init => TypeOK
  BY KeepInit DEF KeepInv
<1> QED
  BY <1>1, TypeStep, PTL DEF Spec

\* rotate_bkups: no interleaving of runs, failures and kills deletes one of the
\* MAX_BKUP newest archives.
THEOREM RotationKeepsNewest == Spec => []NewestKept
<1>1. KeepInv => NewestKept
  BY DEF KeepInv, NewestKept, Given
<1> QED
  BY <1>1, KeepInit, KeepStep, PTL DEF Spec

\* rotate_bkups: however runs overlap, fail or are killed, once none is at work
\* the runs that ended well have left at most MAX_BKUP files.
THEOREM RotationLeavesFew == Spec => []RotationBounds
<1>1. Init => SparedInv
  <2> SUFFICES ASSUME Init PROVE SparedInv
    OBVIOUS
  <2>1. TypeOK
    BY KeepInit DEF KeepInv
  <2>2. \A X \in SUBSET Stamps : Spared(X) = {}
    BY DEF Init, Spared, Backups, Archives, Dumps
  <2>3. Cardinality({}) <= MaxBkup
    BY FS_EmptySet, BackupAssumption
  <2> QED
    BY <2>1, <2>2, <2>3 DEF SparedInv, Init
<1>2. SparedInv => RotationBounds
  <2> SUFFICES ASSUME SparedInv, \A r \in Stamps : pc[r] \notin AtWork
               PROVE  Cardinality({f \in Backups : pc[f.stamp] = "done"}) <= MaxBkup
    BY DEF RotationBounds
  <2>1. \A q \in Stamps : doomed[q] = {}
    BY DEF SparedInv, AtWork
  <2>2. {f \in Backups : pc[f.stamp] = "done"} \subseteq Spared({})
    BY <2>1 DEF Spared
  <2>3. Spared({}) \in SUBSET File /\ Cardinality(Spared({})) <= MaxBkup
    BY BackupsFinite DEF Spared, SparedInv
  <2> QED
    BY <2>2, <2>3, SmallerIsFew
<1> QED
  BY <1>1, <1>2, SparedStep, PTL DEF Spec

\* Runs that do not overlap: tar always finds the dump it packs.
THEOREM AloneNothingHollow == Spec => []NothingHollow
<1>1. AloneInv /\ [Next]_vars => AloneInv'
  BY TypeStep, AloneStep, FullStep, FewStep DEF AloneInv
<1>2. AloneInv => NothingHollow
  BY DEF AloneInv, Full, NothingHollow
<1> QED
  BY <1>1, <1>2, AloneInit, PTL DEF Spec

\* Runs that do not overlap: the last one that ends well leaves MAX_BKUP files
\* in all, what failed runs left behind included.
THEOREM AloneLeavesFew == Spec => []LeftoversCounted
<1>1. AloneInv /\ [Next]_vars => AloneInv'
  BY TypeStep, AloneStep, FullStep, FewStep DEF AloneInv
<1>2. AloneInv => LeftoversCounted
  <2> SUFFICES ASSUME AloneInv, ~overlap, NEW r \in Stamps, pc[r] = "done", Last(r)
               PROVE  Cardinality(Backups) <= MaxBkup
    BY DEF LeftoversCounted, Last
  <2>1. doomed[r] = {}
    BY DEF AloneInv, Alone
  <2>2. Backups \ doomed[r] = Backups
    BY <2>1
  <2> QED
    BY <2>2 DEF AloneInv, Few
<1> QED
  BY <1>1, <1>2, AloneInit, PTL DEF Spec

\* Runs that do not overlap: only a truncated archive takes the place of one that
\* can be restored.  While tar has left none behind, MAX_BKUP newer archives with
\* their dumps are there for each one that was deleted.
OnlyTruncatedCounts ==
  ~overlap /\ (\A q \in Stamps : archive[q] # "truncated")
    => \A r \in Stamps :
         archive[r] = "removed" => Cardinality({q \in Restorable : q > r}) >= MaxBkup

THEOREM AloneRestorable == Spec => []OnlyTruncatedCounts
<1>1. TypeOK /\ NewestKept /\ NothingHollow => OnlyTruncatedCounts
  <2> SUFFICES ASSUME TypeOK, NewestKept, NothingHollow, ~overlap,
                      \A q \in Stamps : archive[q] # "truncated",
                      NEW r \in Stamps, archive[r] = "removed"
               PROVE  Cardinality({q \in Restorable : q > r}) >= MaxBkup
    BY DEF OnlyTruncatedCounts
  <2>1. \A q \in Stamps : archive[q] \in {"none", "removed", "whole"}
    BY DEF TypeOK, ArchiveStates, NothingHollow
  <2>2. Archives = Restorable
    BY <2>1 DEF Archives, Restorable
  <2>3. {q \in Restorable : q > r} = NewerArchives(r)
    BY <2>2 DEF NewerArchives
  <2> QED
    BY <2>3 DEF NewestKept
<1> QED
  BY <1>1, BackupTypeCorrect, RotationKeepsNewest, AloneNothingHollow, PTL


=============================================================================
