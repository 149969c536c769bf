------------------------------- MODULE DbBackup -------------------------------
(***************************************************************************)
(* db_backup.sh, the script cron starts every day on the controller and an *)
(* administrator may start by hand: dump the databases into a directory    *)
(* named after the start time, pack that directory, then delete all but    *)
(* the newest MAX_BKUP files that `find -name "onecloud*.gz"` lists.       *)
(*                                                                         *)
(* There is no lock, so runs overlap, and the rotation looks at the whole  *)
(* backup directory: it sees the dumps other runs are writing, and those   *)
(* that failed runs left behind, as if they were backups.  The script runs *)
(* under `set -e -o pipefail`, which ends a run at the first command that  *)
(* fails, with one exception: `tar ... && rm -rf ...` may fail in its tar. *)
(*                                                                         *)
(* A run is named by its time stamp, the number of the run.                *)
(***************************************************************************)
EXTENDS Naturals, FiniteSets

CONSTANTS
  MaxBkup,  \* MAX_BKUP
  Runs      \* bound: how often the script is started

ASSUME BackupAssumption ==
  /\ MaxBkup \in Nat
  /\ Runs \in Nat

VARIABLES
  pc,       \* next step of each run
  dump,     \* $BKUP_PATH/onecloud.sql.$BKUP_DATE.gz of each run
  archive,  \* onecloud.bkup.$BKUP_DATE.tar.gz of each run
  doomed,   \* old_bkups of each run: the listed files it has yet to delete
  overlap   \* somebody starts the script by hand, at any time, beside cron

vars == <<pc, dump, archive, doomed, overlap>>

Stamps == 1 .. Runs
Steps == {"none", "init", "dump", "tar", "packing", "list", "clean", "done",
          "failed"}
AtWork == {"init", "dump", "tar", "packing", "list", "clean"}

\* An archive that tar began and has not finished, or failed to finish, is
\* truncated; one packed when its dump was gone is hollow; "removed" is
\* history: there is no such file any more.
DumpStates == {"none", "partial", "whole"}
ArchiveStates == {"none", "truncated", "hollow", "whole", "removed"}

File == [kind : {"archive", "dump"}, stamp : Stamps]
Archives == {r \in Stamps : archive[r] \notin {"none", "removed"}}
Dumps == {r \in Stamps : dump[r] # "none"}
Backups == [kind : {"archive"}, stamp : Archives]
             \union [kind : {"dump"}, stamp : Dumps]

\* The order of `sort --reverse` on the paths: "onecloud.bkup.*" sorts after
\* "<stamp>/onecloud.sql.*", so archives are listed first, newest first.
Newer(f, g) ==
  \/ f.kind = "archive" /\ g.kind = "dump"
  \/ f.kind = g.kind /\ f.stamp > g.stamp

Init ==
  /\ pc = [r \in Stamps |-> "none"]
  /\ dump = [r \in Stamps |-> "none"]
  /\ archive = [r \in Stamps |-> "none"]
  /\ doomed = [r \in Stamps |-> {}]
  /\ overlap \in BOOLEAN

Goto(r, step) == pc' = [pc EXCEPT ![r] = step]

\* Slip: cron starts a run while the last one is still at work.
StartRunAnyTime(r) ==
  /\ \A q \in Stamps : q < r <=> pc[q] # "none"
  /\ Goto(r, "init") /\ UNCHANGED <<dump, archive, doomed, overlap>>

\* The script starts; a start time is not used twice.
StartRun(r) ==
  /\ \A q \in Stamps : q < r <=> pc[q] # "none"
  /\ overlap \/ \A q \in Stamps : pc[q] \notin AtWork
  /\ Goto(r, "init")
  /\ UNCHANGED <<dump, archive, doomed, overlap>>

\* init_db, backup_k8s and backup_etcd passed: the shell creates the output
\* file, then mysqldump runs.
BeginDump(r) ==
  /\ pc[r] = "init"
  /\ dump' = [dump EXCEPT ![r] = "partial"]
  /\ Goto(r, "dump")
  /\ UNCHANGED <<archive, doomed, overlap>>

\* Slip: a deleted dump is marked the way a deleted archive is.
EndDumpMarked(r) ==
  /\ pc[r] = "dump"
  /\ dump' = [dump EXCEPT ![r] = IF @ = "partial" THEN "whole" ELSE "removed"]
  /\ Goto(r, "tar") /\ UNCHANGED <<archive, doomed, overlap>>

\* A dump that another run deleted meanwhile goes to an unlinked file.
EndDump(r) ==
  /\ pc[r] = "dump"
  /\ dump' = [dump EXCEPT ![r] = IF @ = "partial" THEN "whole" ELSE "none"]
  /\ Goto(r, "tar")
  /\ UNCHANGED <<archive, doomed, overlap>>

BeginTar(r) ==
  /\ pc[r] = "tar"
  /\ archive' = [archive EXCEPT ![r] = "truncated"]
  /\ Goto(r, "packing")
  /\ UNCHANGED <<dump, doomed, overlap>>

\* tar succeeds and `rm -rf` follows.  The `ls` of the archive fails when
\* another run has deleted it, which ends this run.
EndTar(r) ==
  /\ pc[r] = "packing"
  /\ LET packed == IF dump[r] = "whole" THEN "whole" ELSE "hollow" IN
     archive' = [archive EXCEPT ![r] = IF @ = "removed" THEN @ ELSE packed]
  /\ dump' = [dump EXCEPT ![r] = "none"]
  /\ Goto(r, IF archive[r] = "removed" THEN "failed" ELSE "list")
  /\ UNCHANGED <<doomed, overlap>>

\* tar fails, say on a full disk.  Left of &&, it does not end the script.
TarFails(r) ==
  /\ pc[r] = "packing"
  /\ archive[r] # "removed"
  /\ Goto(r, "list")
  /\ UNCHANGED <<dump, archive, doomed, overlap>>

\* Slips: the list is cut one too early, or one too late; only archives are
\* listed.
ListOldTooMany(r) ==
  /\ pc[r] = "list"
  /\ doomed' = [doomed EXCEPT ![r] =
       {f \in Backups : Cardinality({g \in Backups : Newer(g, f)}) + 1 >= MaxBkup}]
  /\ Goto(r, "clean") /\ UNCHANGED <<dump, archive, overlap>>
ListOldTooFew(r) ==
  /\ pc[r] = "list"
  /\ doomed' = [doomed EXCEPT ![r] =
       {f \in Backups : Cardinality({g \in Backups : Newer(g, f)}) > MaxBkup}]
  /\ Goto(r, "clean") /\ UNCHANGED <<dump, archive, overlap>>
ListOldArchives(r) ==
  /\ pc[r] = "list"
  /\ doomed' = [doomed EXCEPT ![r] =
       {f \in Backups : f.kind = "archive"
                          /\ Cardinality({q \in Archives : q > f.stamp}) >= MaxBkup}]
  /\ Goto(r, "clean") /\ UNCHANGED <<dump, archive, overlap>>

\* find | sort --reverse | tail -n +$((MAX_BKUP + 1))
ListOld(r) ==
  /\ pc[r] = "list"
  /\ doomed' = [doomed EXCEPT ![r] =
       {f \in Backups : Cardinality({g \in Backups : Newer(g, f)}) >= MaxBkup}]
  /\ Goto(r, "clean")
  /\ UNCHANGED <<dump, archive, overlap>>

\* rm -f deletes the listed files one by one and ignores a missing one.
RemoveOld(r) ==
  /\ pc[r] = "clean"
  /\ \E f \in doomed[r] :
       /\ doomed' = [doomed EXCEPT ![r] = @ \ {f}]
       /\ IF f.kind = "archive"
          THEN /\ archive' = [archive EXCEPT ![f.stamp] = "removed"]
               /\ UNCHANGED dump
          ELSE /\ dump' = [dump EXCEPT ![f.stamp] = "none"]
               /\ UNCHANGED archive
  /\ UNCHANGED <<pc, overlap>>

AllDone(r) ==
  /\ pc[r] = "clean"
  /\ doomed[r] = {}
  /\ Goto(r, "done")
  /\ UNCHANGED <<dump, archive, doomed, overlap>>

\* A command fails (set -e), the disk is too full to begin, the script is
\* killed: the run ends and leaves what it has written where it is.
RunFails(r) ==
  /\ pc[r] \in AtWork
  /\ Goto(r, "failed")
  /\ doomed' = [doomed EXCEPT ![r] = {}]
  /\ UNCHANGED <<dump, archive, overlap>>

Next == \E r \in Stamps :
  \/ StartRun(r)
  \/ BeginDump(r)
  \/ EndDump(r)
  \/ BeginTar(r)
  \/ EndTar(r)
  \/ TarFails(r)
  \/ ListOld(r)
  \/ RemoveOld(r)
  \/ AllDone(r)
  \/ RunFails(r)

Spec == Init /\ [][Next]_vars

-----------------------------------------------------------------------------

TypeOK ==
  /\ pc \in [Stamps -> Steps]
  /\ dump \in [Stamps -> DumpStates]
  /\ archive \in [Stamps -> ArchiveStates]
  /\ doomed \in [Stamps -> SUBSET File]
  /\ overlap \in BOOLEAN

NewerArchives(r) == {q \in Archives : q > r}

\* However runs overlap, fail or are killed, no archive is deleted that is one
\* of the MAX_BKUP newest: MAX_BKUP newer ones are still there, now, not only
\* when some run listed them.
NewestKept ==
  \A r \in Stamps :
    archive[r] = "removed" => Cardinality(NewerArchives(r)) >= MaxBkup

\* When no run is at work, the runs that ended well have left at most MAX_BKUP
\* files: whichever listed last saw the files of all the others.
RotationBounds ==
  (\A r \in Stamps : pc[r] \notin AtWork)
    => Cardinality({f \in Backups : pc[f.stamp] = "done"}) <= MaxBkup

\* Runs that do not overlap: when the last one ends well, what failed runs have
\* left behind counts against MAX_BKUP too.
LeftoversCounted ==
  ~overlap => \A r \in Stamps :
    /\ pc[r] = "done"
    /\ \A q \in Stamps : q > r => pc[q] = "none"
    => Cardinality(Backups) <= MaxBkup

\* Runs that do not overlap: a finished archive holds its dump, because no
\* rotation sees a dump that is still needed.
NothingHollow == ~overlap => \A r \in Stamps : archive[r] # "hollow"

\* --max-backups, "how many backups to keep": where runs do not overlap, a backup
\* that can be restored is only given up for MAX_BKUP newer ones that can.
Restorable == {r \in Stamps : archive[r] = "whole"}
RestorableKept ==
  [][\A r \in Restorable :
       archive'[r] = "removed" /\ ~overlap
         => Cardinality({q \in Restorable' : q > r}) >= MaxBkup]_vars

=============================================================================
