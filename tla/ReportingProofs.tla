--------------------------- MODULE ReportingProofs ---------------------------
(***************************************************************************)
(* Proofs about Logger and Reporting, for any threads, maximal size of the *)
(* file, clock and counters.                                               *)
(***************************************************************************)
EXTENDS Reporting, FiniteSetTheorems, TLAPS

Rotating == {"rename", "compress", "remove", "reopen"}
Labels == {"idle", "rotate", "save", "write"} \cup Rotating

\* m_fileMutex is held by the thread that rotates the file, which is closed and
\* disabled meanwhile; a process that is down has no thread in log.
LockInv ==
    /\ pc \in [Threads -> Labels] /\ owner \in Threads \cup {NoThread}
    /\ running \in BOOLEAN /\ isOpen \in BOOLEAN /\ enabled \in BOOLEAN /\ denied \in BOOLEAN
    /\ \A t \in Threads : pc[t] \in Rotating <=> owner = t
    /\ ~running => owner = NoThread /\ ~isOpen /\ \A t \in Threads : pc[t] = "idle"
    /\ owner # NoThread => ~isOpen /\ ~enabled
    /\ running /\ owner = NoThread => isOpen = enabled /\ (isOpen \/ denied)

ClockInv == now \in Nat /\ stamp \in [Threads -> Nat]

\* Where the lines of a rotation are: in the renamed file until it is removed,
\* and by then in the archive.  The names are new unless two rotations clash.
RotationInv ==
    \A t \in Threads :
        /\ pc[t] \in {"compress", "remove"} => Rotated(stamp[t]) \in DOMAIN disk
        /\ pc[t] \in {"compress", "remove", "reopen"} => LogPath \notin DOMAIN disk
        /\ pc[t] = "compress" /\ ~clash => Archive(stamp[t]) \notin DOMAIN disk
        /\ pc[t] = "remove" /\ ~clash /\ ~cut =>
              /\ Archive(stamp[t]) \in DOMAIN disk
              /\ disk[Archive(stamp[t])] = disk[Rotated(stamp[t])]

Stored(x) == \E path \in DOMAIN disk : x \in disk[path]

LinesInv ==
    /\ clash \in BOOLEAN /\ cut \in BOOLEAN
    /\ isOpen => LogPath \in DOMAIN disk
    /\ ~clash /\ ~cut => \A x \in written : Stored(x)

\* Threads that found the file below its maximal size and may still write.
Writers == {t \in Threads : pc[t] \in {"save", "write"}}

\* Each of them still has its line in the bound.
SizeInv ==
    LogPath \in DOMAIN disk =>
        /\ IsFiniteSet(disk[LogPath])
        /\ Cardinality(disk[LogPath]) + Cardinality(Writers)
              <= Threshold - 1 + Cardinality(Threads)

KeptInv == LockInv /\ ClockInv /\ RotationInv /\ LinesInv

-----------------------------------------------------------------------------
(* The lock.                                                               *)

\* At first there is no process.
LEMMA LockInit == Init => LockInv
BY LoggerAssumption, ZenonT(30) DEF Init, LockInv, Labels, Rotating

\* No step of log, of a rotation or of the process breaks it.
LEMMA LockStep == LockInv /\ [Next]_vars => LockInv'
<1> SUFFICES ASSUME LockInv, [Next]_vars PROVE LockInv'
  OBVIOUS
<1> USE LoggerAssumption DEF LockInv, threadVars, fileVars, observerVars
<1>1. ASSUME NEW t \in Threads, log(t) PROVE LockInv'
  BY <1>1 DEF log, Goto, Labels, Rotating
<1>2. ASSUME NEW t \in Threads, SaveLogEntry(t) PROVE LockInv'
  BY <1>2 DEF SaveLogEntry, Goto, Done, Labels, Rotating
<1>3. ASSUME NEW t \in Threads, WriteLine(t) PROVE LockInv'
  BY <1>3 DEF WriteLine, Goto, Done, Labels, Rotating
<1>4. ASSUME NEW t \in Threads, CloseCurrent(t) PROVE LockInv'
  BY <1>4, Zenon DEF CloseCurrent, Goto, Labels, Rotating
<1>5. ASSUME NEW t \in Threads, RenameToStamp(t) PROVE LockInv'
  BY <1>5 DEF RenameToStamp, Goto, Labels, Rotating
<1>6. ASSUME NEW t \in Threads, compressFileGzip(t) PROVE LockInv'
  <2>1. /\ pc[t] = "compress" /\ \E l \in {"reopen", "remove"} : Goto(t, l)
        /\ UNCHANGED <<running, owner, isOpen, enabled, denied>>
    BY <1>6 DEF compressFileGzip
  <2> QED
    BY <2>1 DEF Goto, Labels, Rotating
<1>7. ASSUME NEW t \in Threads, RemoveRotated(t) PROVE LockInv'
  BY <1>7 DEF RemoveRotated, Goto, Labels, Rotating
<1>8. ASSUME NEW t \in Threads, Reopen(t) PROVE LockInv'
  BY <1>8, Zenon DEF Reopen, openLogFile, Goto, Labels, Rotating
<1>9. CASE Start
  BY <1>9, Zenon DEF Start, openLogFile, Labels, Rotating
<1>10. CASE closeLogFile \/ Crash
  <2>1. /\ ~running' /\ owner' = NoThread /\ isOpen' = FALSE /\ enabled' = FALSE /\ UNCHANGED denied
        /\ pc' = [t \in Threads |-> "idle"]
    BY <1>10 DEF closeLogFile, Crash, Down
  <2>2. running' = FALSE
    BY <1>10 DEF closeLogFile, Crash, Down
  <2> QED
    BY <2>1, <2>2, Zenon DEF Labels, Rotating
<1>11. CASE Tick
  BY <1>11 DEF Tick
<1>12. CASE UNCHANGED vars
  BY <1>12 DEF vars
<1> QED
  BY <1>1, <1>2, <1>3, <1>4, <1>5, <1>6, <1>7, <1>8, <1>9, <1>10, <1>11, <1>12 DEF Next, Step

\* The time in a rotation's names is one that the clock has shown.
LEMMA ClockStep == ClockInv /\ [Next]_vars => ClockInv'
<1> SUFFICES ASSUME ClockInv, [Next]_vars PROVE ClockInv'
  OBVIOUS
<1>1. CASE Tick
  BY <1>1 DEF ClockInv, Tick, threadVars
<1>2. ASSUME NEW t \in Threads, log(t) \/ Step(t) PROVE ClockInv'
  <2>1. UNCHANGED now /\ (UNCHANGED stamp \/ \E s \in {0, now} : stamp' = [stamp EXCEPT ![t] = s])
    BY <1>2 DEF log, Step, SaveLogEntry, WriteLine, CloseCurrent, RenameToStamp,
                compressFileGzip, RemoveRotated, Reopen
  <2> QED
    BY <2>1 DEF ClockInv
<1>3. CASE Start \/ closeLogFile \/ Crash
  BY <1>3 DEF ClockInv, Start, closeLogFile, Crash, Down, threadVars
<1> QED
  BY <1>1, <1>2, <1>3 DEF Next, vars, threadVars, ClockInv

-----------------------------------------------------------------------------
(* The lines.                                                              *)

\* The paths of the three kinds of files differ, and those of two seconds.
LEMMA Paths ==
    ASSUME NEW r, NEW s
    PROVE  /\ Rotated(r) # Archive(s) /\ Rotated(r) # LogPath /\ Archive(r) # LogPath
BY DEF Rotated, Archive, LogPath

\* What the operations on files do.
LEMMA PutFile ==
    ASSUME NEW path, NEW content
    PROVE  /\ DOMAIN Put(path, content) = DOMAIN disk \cup {path}
           /\ Put(path, content)[path] = content
           /\ \A p \in DOMAIN disk \ {path} : Put(path, content)[p] = disk[p]
BY DEF Put


\* A removal.
LEMMA RemoveFile ==
    ASSUME NEW path
    PROVE  /\ DOMAIN Without({path}) = DOMAIN disk \ {path}
           /\ \A p \in DOMAIN disk \ {path} : Without({path})[p] = disk[p]
BY DEF Without, Restrict

\* Appending creates the file where there is none, and changes no file.
LEMMA AppendFile ==
    /\ DOMAIN Appending = DOMAIN disk \cup {LogPath}
    /\ \A p \in DOMAIN disk : Appending[p] = disk[p]
<1>1. CASE LogPath \in DOMAIN disk
  <2>1. DOMAIN disk = DOMAIN disk \cup {LogPath}
    BY <1>1
  <2> QED
    BY <1>1, <2>1 DEF Appending
<1>2. CASE LogPath \notin DOMAIN disk
  <2>1. Appending = Put(LogPath, {})
    BY <1>2 DEF Appending
  <2>2. \A p \in DOMAIN disk : p # LogPath
    BY <1>2
  <2> QED
    BY <2>1, <2>2 DEF Put
<1> QED
  BY <1>1, <1>2

\* At first nothing is written.
LEMMA KeptInit == Init => KeptInv
<1> SUFFICES ASSUME Init PROVE KeptInv
  OBVIOUS
<1>1. ClockInv
  BY DEF Init, ClockInv
<1>2. RotationInv /\ LinesInv
  BY Zenon DEF Init, RotationInv, LinesInv
<1> QED
  BY <1>1, <1>2, LockInit DEF KeptInv

\* A step that leaves the rotations, the files and the lines alone, and where
\* no thread joins a rotation.
LEMMA QuietStep ==
    ASSUME KeptInv, LockInv', ClockInv', UNCHANGED <<stamp, disk, written, clash, cut>>,
           isOpen' => isOpen,
           \A t \in Threads : pc'[t] \in {"compress", "remove", "reopen"} => pc'[t] = pc[t]
    PROVE  KeptInv'
BY DEF KeptInv, RotationInv, LinesInv, Stored

\* openLogFile loses nothing, and no thread is in a rotation after it.
LEMMA OpenStep ==
    ASSUME KeptInv, LockInv', ClockInv', openLogFile, UNCHANGED <<written, clash, cut>>, owner' = NoThread
    PROVE  KeptInv'
<1>1. RotationInv'
  BY LoggerAssumption DEF LockInv, RotationInv, Rotating
<1>2. LinesInv'
  <2>1. CASE disk' = Appending
    <3>1. LogPath \in DOMAIN disk' /\ \A x : Stored(x) => Stored(x)'
      BY <2>1, AppendFile DEF Stored
    <3> QED
      BY <3>1 DEF KeptInv, LinesInv
  <2>2. CASE UNCHANGED <<isOpen, disk>>
    BY <2>2 DEF KeptInv, LinesInv, Stored
  <2> QED
    BY <2>1, <2>2 DEF openLogFile
<1> QED
  BY <1>1, <1>2 DEF KeptInv

\* No step loses a line that was written.
LEMMA KeptStep == KeptInv /\ [Next]_vars => KeptInv'
<1> SUFFICES ASSUME KeptInv, [Next]_vars PROVE KeptInv'
  OBVIOUS
<1> USE LoggerAssumption DEF threadVars, fileVars, observerVars
<1>0. LockInv /\ LockInv' /\ ClockInv /\ ClockInv'
  BY LockStep, ClockStep, SMTT(30) DEF KeptInv
<1>1. ASSUME NEW t \in Threads, log(t) PROVE KeptInv'
  BY <1>0, <1>1, QuietStep, SMTT(30) DEF log, Goto, LockInv
<1>2. ASSUME NEW t \in Threads, SaveLogEntry(t) PROVE KeptInv'
  BY <1>0, <1>2, QuietStep, SMTT(30) DEF SaveLogEntry, Goto, Done, LockInv
<1>3. ASSUME NEW t \in Threads, WriteLine(t) PROVE KeptInv'
  <2>1. pc' = [pc EXCEPT ![t] = "idle"] /\ UNCHANGED <<stamp, clash, cut, isOpen>> /\ owner = NoThread
    BY <1>3 DEF WriteLine, Done, Goto
  <2>2. CASE UNCHANGED <<disk, written>>
    BY <1>0, <2>1, <2>2, QuietStep DEF LockInv
  <2>3. CASE /\ isOpen /\ disk' = Put(LogPath, disk[LogPath] \cup {line[t]})
             /\ written' = written \cup {line[t]}
    <3>1. RotationInv'
      BY <1>0, <1>3, <2>1, SMTT(30) DEF LockInv, RotationInv, Rotating, WriteLine
    <3> DEFINE content == disk[LogPath] \cup {line[t]}
    <3>2. /\ DOMAIN disk' = DOMAIN disk \cup {LogPath} /\ disk'[LogPath] = content
          /\ \A p \in DOMAIN disk \ {LogPath} : disk'[p] = disk[p]
      <4> HIDE DEF content
      <4> QED
        BY <2>3, PutFile DEF content
    <3>3. ASSUME NEW x, Stored(x) \/ x = line[t] PROVE Stored(x)'
      BY <3>2, <3>3 DEF Stored
    <3>4. LogPath \in DOMAIN disk'
      BY <3>2
    <3>5. LinesInv'
      <4> HIDE DEF content
      <4> QED
        BY <2>1, <2>3, <3>3, <3>4, SMTT(30) DEF KeptInv, LinesInv
    <3> QED
      BY <1>0, <3>1, <3>5, SMTT(30) DEF KeptInv
  <2> QED
    BY <1>3, <2>2, <2>3 DEF WriteLine
<1>4. ASSUME NEW t \in Threads, CloseCurrent(t) PROVE KeptInv'
  BY <1>0, <1>4, QuietStep DEF CloseCurrent, Goto, LockInv
<1>5. ASSUME NEW t \in Threads, RenameToStamp(t) PROVE KeptInv'
  <2>1. CASE LogPath \notin DOMAIN disk
    <3>1. pc' = [pc EXCEPT ![t] = "reopen"] /\ UNCHANGED <<disk, clash, stamp, written, cut, isOpen>>
      BY <1>5, <2>1 DEF RenameToStamp, Goto
    <3> QED
      BY <1>0, <2>1, <3>1 DEF KeptInv, LockInv, RotationInv, LinesInv, Stored
  <2>2. CASE LogPath \in DOMAIN disk
    <3> DEFINE r == Rotated(now)
    <3>1. /\ pc[t] = "rename" /\ pc' = [pc EXCEPT ![t] = "compress"]
          /\ disk' = Moved(LogPath, r) /\ stamp' = [stamp EXCEPT ![t] = now]
          /\ clash' = (clash \/ {r, Archive(now)} \cap DOMAIN disk # {})
          /\ UNCHANGED <<written, cut, isOpen>>
      BY <1>5, <2>2 DEF RenameToStamp, Goto
    <3>2. r # LogPath /\ r # Archive(now) /\ Archive(now) # LogPath
      BY Paths
    <3> HIDE DEF r
    <3>3. /\ DOMAIN disk' = (DOMAIN disk \ {LogPath}) \cup {r} /\ disk'[r] = disk[LogPath]
          /\ \A p \in DOMAIN disk \ {LogPath, r} : disk'[p] = disk[p]
      BY <3>1, <3>2 DEF Moved
    <3>4. \A u \in Threads : u # t => pc'[u] \notin Rotating
      BY <1>0, <3>1 DEF LockInv, Rotating
    <3>5. RotationInv'
      <4>1. Rotated(stamp'[t]) = r /\ Archive(stamp'[t]) = Archive(now) /\ pc'[t] = "compress"
        BY <1>0, <3>1 DEF LockInv, ClockInv, r
      <4>2. ~clash' => Archive(now) \notin DOMAIN disk'
        BY <3>1, <3>2, <3>3, Zenon
      <4> QED
        BY <3>2, <3>3, <3>4, <4>1, <4>2, SMTT(30) DEF RotationInv, Rotating
    <3>6. ASSUME NEW x, Stored(x), ~clash' PROVE Stored(x)'
      BY <2>2, <3>1, <3>3, <3>6, ZenonT(30) DEF Stored, KeptInv, LinesInv
    <3>7. LinesInv'
      BY <1>0, <3>1, <3>6 DEF KeptInv, LinesInv, LockInv, Rotating
    <3> QED
      BY <1>0, <3>5, <3>7 DEF KeptInv
  <2> QED
    BY <2>1, <2>2, SMTT(30)
<1>6. ASSUME NEW t \in Threads, compressFileGzip(t) PROVE KeptInv'
  <2> DEFINE a == Archive(stamp[t])
  <2>1. /\ pc[t] = "compress" /\ UNCHANGED <<stamp, isOpen, written, clash>>
        /\ \A u \in Threads : u # t => pc'[u] \notin Rotating
    BY <1>0, <1>6, SMTT(30) DEF compressFileGzip, LockInv, Rotating, Goto
  <2>2. /\ Rotated(stamp[t]) \in DOMAIN disk /\ LogPath \notin DOMAIN disk
        /\ ~clash => a \notin DOMAIN disk
    BY <2>1 DEF KeptInv, RotationInv
  <2>3. a # LogPath /\ a # Rotated(stamp[t])
    BY Paths, SMTT(30)
  <2> HIDE DEF a
  <2>4. CASE UNCHANGED <<disk, cut>> /\ pc' = [pc EXCEPT ![t] = "reopen"]
    BY <1>0, <2>1, <2>2, <2>4 DEF KeptInv, LockInv, RotationInv, LinesInv, Stored, Rotating
  <2>5. ASSUME NEW content, disk' = Put(a, content)
        PROVE  /\ DOMAIN disk' = DOMAIN disk \cup {a} /\ disk'[a] = content
               /\ \A p \in DOMAIN disk \ {a} : disk'[p] = disk[p]
    BY <2>5, SMTT(30) DEF Put
  <2>6. ASSUME NEW content, disk' = Put(a, content), cut => cut', cut' \in BOOLEAN PROVE LinesInv'
    <3>1. ASSUME NEW x, Stored(x), ~clash PROVE Stored(x)'
      BY <2>2, <2>5, <2>6, <3>1, SMTT(30) DEF Stored
    <3> QED
      BY <1>0, <2>1, <2>6, <3>1, SMTT(30) DEF KeptInv, LinesInv, LockInv, Rotating
  <2>7. CASE disk' = Put(a, {}) /\ UNCHANGED cut /\ pc' = [pc EXCEPT ![t] = "reopen"]
    <3>1. RotationInv'
      BY <1>0, <2>1, <2>2, <2>3, <2>5, <2>7, SMTT(30) DEF LockInv, RotationInv, Rotating
    <3> QED
      BY <1>0, <2>6, <2>7, <3>1, SMTT(30) DEF KeptInv, LinesInv
  <2>8. CASE /\ disk' = Put(a, disk[Rotated(stamp[t])]) /\ UNCHANGED cut
             /\ pc' = [pc EXCEPT ![t] = "remove"]
    <3>1. RotationInv'
      BY <1>0, <2>1, <2>2, <2>3, <2>5, <2>8, SMTT(30) DEF LockInv, RotationInv, Rotating, a
    <3> QED
      BY <1>0, <2>6, <2>8, <3>1, SMTT(30) DEF KeptInv, LinesInv
  <2>9. CASE disk' = Put(a, {}) /\ cut' = TRUE /\ pc' = [pc EXCEPT ![t] = "remove"]
    <3>1. RotationInv'
      BY <1>0, <2>1, <2>2, <2>3, <2>5, <2>9, SMTT(30) DEF LockInv, RotationInv, Rotating
    <3> QED
      BY <1>0, <2>6, <2>9, <3>1, SMTT(30) DEF KeptInv, LinesInv
  <2> QED
    BY <1>6, <2>4, <2>7, <2>8, <2>9, ZenonT(60) DEF compressFileGzip, Goto, a
<1>7. ASSUME NEW t \in Threads, RemoveRotated(t) PROVE KeptInv'
  <2> DEFINE r == Rotated(stamp[t])
             a == Archive(stamp[t])
  <2>1. /\ pc[t] = "remove" /\ pc' = [pc EXCEPT ![t] = "reopen"] /\ disk' = Without({r})
        /\ UNCHANGED <<stamp, isOpen, written, clash, cut>>
    BY <1>7, SMTT(30) DEF RemoveRotated, Goto
  <2>2. /\ LogPath \notin DOMAIN disk
        /\ ~clash /\ ~cut => a \in DOMAIN disk /\ disk[a] = disk[r]
    BY <2>1 DEF KeptInv, RotationInv
  <2>3. a # r
    BY Paths
  <2> HIDE DEF a, r
  <2>4. DOMAIN disk' = DOMAIN disk \ {r} /\ \A p \in DOMAIN disk \ {r} : disk'[p] = disk[p]
    BY <2>1, RemoveFile, Zenon
  <2>5. ASSUME NEW x, Stored(x), ~clash, ~cut PROVE Stored(x)'
    BY <2>2, <2>3, <2>4, <2>5, SMTT(30) DEF Stored
  <2>6. RotationInv'
    BY <1>0, <2>1, <2>2, <2>4, SMTT(30) DEF LockInv, RotationInv, Rotating
  <2>7. LinesInv'
    BY <1>0, <2>1, <2>5 DEF KeptInv, LinesInv, LockInv, Rotating
  <2> QED
    BY <1>0, <2>6, <2>7 DEF KeptInv
<1>8. ASSUME NEW t \in Threads, Reopen(t) PROVE KeptInv'
  BY <1>0, <1>8, OpenStep, SMTT(30) DEF Reopen
<1>9. CASE Start
  BY <1>0, <1>9, OpenStep DEF Start, LockInv
<1>10. CASE closeLogFile \/ Crash
  BY <1>0, <1>10, Zenon DEF closeLogFile, Crash, Down, KeptInv, RotationInv, LinesInv, Stored
<1>11. CASE Tick
  BY <1>0, <1>11, QuietStep, SMTT(30) DEF Tick
<1>12. CASE UNCHANGED vars
  BY <1>0, <1>12, QuietStep, SMTT(30) DEF vars
<1> QED
  BY <1>1, <1>2, <1>3, <1>4, <1>5, <1>6, <1>7, <1>8, <1>9, <1>10, <1>11, <1>12, SMTT(30) DEF Next, Step

-----------------------------------------------------------------------------
(* The size of the file.                                                   *)

\* The writers are some of the threads.
LEMMA WritersFinite ==
    /\ IsFiniteSet(Writers) /\ Cardinality(Writers) \in Nat
    /\ Cardinality(Threads) \in Nat /\ Cardinality(Writers) <= Cardinality(Threads)
BY LoggerAssumption, FS_Subset, FS_CardinalityType DEF Writers

\* A line makes the file grow by at most one.
LEMMA OneLine ==
    ASSUME NEW old, NEW x, IsFiniteSet(old)
    PROVE  /\ IsFiniteSet(old \cup {x}) /\ Cardinality(old \cup {x}) \in Nat
           /\ Cardinality(old) \in Nat /\ Cardinality(old \cup {x}) <= Cardinality(old) + 1
<1>1. IsFiniteSet(old \cup {x}) /\ Cardinality(old) \in Nat
  BY FS_AddElement, FS_CardinalityType
<1>2. Cardinality(old \cup {x}) = IF x \in old THEN Cardinality(old) ELSE Cardinality(old) + 1
  BY FS_AddElement
<1> QED
  BY <1>1, <1>2

\* A new file leaves room for every thread.
LEMMA NewFile ==
    ASSUME LogPath \in DOMAIN disk' => disk'[LogPath] = {} PROVE SizeInv'
<1>1. Cardinality(Writers') \in Nat /\ Cardinality(Writers') <= Cardinality(Threads)
  BY FS_Subset, FS_CardinalityType, LoggerAssumption DEF Writers
<1>2. LogPath \in DOMAIN disk' => IsFiniteSet(disk'[LogPath]) /\ Cardinality(disk'[LogPath]) = 0
  BY FS_EmptySet, Zenon
<1>3. 0 + Cardinality(Writers') <= Threshold - 1 + Cardinality(Threads)
  BY <1>1, WritersFinite, LoggerAssumption, SMTT(30)
<1> QED
  BY <1>2, <1>3, SMTT(30) DEF SizeInv

\* A file that stays as it is, when no thread becomes a writer.
LEMMA NoNewWriter ==
    ASSUME SizeInv, Writers' \subseteq Writers,
           LogPath \in DOMAIN disk' => LogPath \in DOMAIN disk /\ disk'[LogPath] = disk[LogPath]
    PROVE  SizeInv'
<1>1. /\ Cardinality(Writers') \in Nat /\ Cardinality(Writers) \in Nat
      /\ Cardinality(Writers') <= Cardinality(Writers)
  BY WritersFinite, FS_Subset, FS_CardinalityType, SMTT(30)
<1>2. ASSUME LogPath \in DOMAIN disk' PROVE Cardinality(disk[LogPath]) \in Nat
  BY <1>2, FS_CardinalityType, SMTT(30) DEF SizeInv
<1> QED
  BY <1>1, <1>2, WritersFinite, LoggerAssumption, SMTT(30) DEF SizeInv

\* No step makes the file outgrow the bound.
LEMMA SizeStep == KeptInv /\ SizeInv /\ [Next]_vars => SizeInv'
<1> SUFFICES ASSUME KeptInv, SizeInv, [Next]_vars PROVE SizeInv'
  OBVIOUS
<1> USE LoggerAssumption DEF threadVars, fileVars, observerVars
<1>0. LockInv
  BY DEF KeptInv
<1>1. ASSUME NEW t \in Threads, log(t) PROVE SizeInv'
  <2>1. UNCHANGED disk /\ pc' = [pc EXCEPT ![t] = IF shouldRotate THEN "rotate" ELSE "save"]
    BY <1>1 DEF log, Goto
  <2>2. CASE shouldRotate
    <3>1. Writers' \subseteq Writers
      BY <1>0, <2>1, <2>2 DEF LockInv, Writers
    <3> QED
      BY <2>1, <3>1, NoNewWriter
  <2>3. CASE ~shouldRotate
    <3>1. CASE LogPath \notin DOMAIN disk
      BY <2>1, <3>1, SMTT(30) DEF SizeInv
    <3>2. CASE LogPath \in DOMAIN disk
      <4>1. IsFiniteSet(disk[LogPath]) /\ Cardinality(disk[LogPath]) \in Nat
        BY <3>2, FS_CardinalityType, SMTT(30) DEF SizeInv
      <4>2. Cardinality(disk[LogPath]) <= Threshold - 1
        BY <2>3, <3>2, <4>1, SMTT(30) DEF shouldRotate
      <4>3. Cardinality(Writers') \in Nat /\ Cardinality(Writers') <= Cardinality(Threads)
        BY FS_Subset, FS_CardinalityType DEF Writers
      <4> QED
        BY <2>1, <3>2, <4>1, <4>2, <4>3, WritersFinite, SMTT(30) DEF SizeInv
    <3> QED
      BY <3>1, <3>2, SMTT(30)
  <2> QED
    BY <2>2, <2>3
<1>2. ASSUME NEW t \in Threads, SaveLogEntry(t) PROVE SizeInv'
  <2>1. UNCHANGED disk /\ Writers' \subseteq Writers
    BY <1>0, <1>2, SMTT(30) DEF SaveLogEntry, Goto, Done, LockInv, Writers
  <2> QED
    BY <2>1, NoNewWriter
<1>3. ASSUME NEW t \in Threads, WriteLine(t) PROVE SizeInv'
  <2>1. pc[t] = "write" /\ pc' = [pc EXCEPT ![t] = "idle"]
    BY <1>3 DEF WriteLine, Done, Goto
  <2>2. Writers' = Writers \ {t} /\ t \in Writers
    BY <1>0, <2>1 DEF LockInv, Writers
  <2>3. CASE UNCHANGED disk
    BY <2>2, <2>3, NoNewWriter, SMTT(30)
  <2>4. CASE isOpen /\ disk' = Put(LogPath, disk[LogPath] \cup {line[t]})
    <3> DEFINE old == disk[LogPath]
               new == old \cup {line[t]}
    <3>1. LogPath \in DOMAIN disk /\ LogPath \in DOMAIN disk'
      BY <2>4, Zenon DEF KeptInv, LinesInv, Put
    <3>2. disk'[LogPath] = new
      BY <2>4 DEF Put
    <3>3. IsFiniteSet(old) /\ Cardinality(old) + Cardinality(Writers) <= Threshold - 1 + Cardinality(Threads)
      BY <3>1 DEF SizeInv
    <3> HIDE DEF old
    <3>4. /\ IsFiniteSet(new) /\ Cardinality(new) \in Nat /\ Cardinality(old) \in Nat
          /\ Cardinality(new) <= Cardinality(old) + 1
      BY <3>3, OneLine, Zenon
    <3>5. Cardinality(Writers') = Cardinality(Writers) - 1
      BY <2>2, WritersFinite, FS_RemoveElement, ZenonT(60)
    <3> HIDE DEF new
    <3> QED
      BY <3>2, <3>3, <3>4, <3>5, WritersFinite, SMTT(30) DEF SizeInv
  <2> QED
    BY <1>3, <2>3, <2>4, SMTT(30) DEF WriteLine
<1>4. ASSUME NEW t \in Threads, CloseCurrent(t) PROVE SizeInv'
  <2>1. UNCHANGED disk /\ Writers' \subseteq Writers
    BY <1>0, <1>4, SMTT(30) DEF CloseCurrent, Goto, LockInv, Writers
  <2> QED
    BY <2>1, NoNewWriter
<1>5. ASSUME NEW t \in Threads, RenameToStamp(t) PROVE SizeInv'
  <2>1. LogPath \notin DOMAIN disk'
    BY <1>5, Paths, SMTT(30) DEF RenameToStamp, Moved
  <2> QED
    BY <2>1, SMTT(30) DEF SizeInv
<1>6. ASSUME NEW t \in Threads, compressFileGzip(t) PROVE SizeInv'
  <2>1. LogPath \notin DOMAIN disk
    BY <1>6, SMTT(30) DEF compressFileGzip, KeptInv, RotationInv
  <2>2. LogPath \notin DOMAIN disk'
    BY <1>6, <2>1, Paths, SMTT(30) DEF compressFileGzip, Put
  <2> QED
    BY <2>2 DEF SizeInv
<1>7. ASSUME NEW t \in Threads, RemoveRotated(t) PROVE SizeInv'
  <2>1. LogPath \notin DOMAIN disk
    BY <1>7, SMTT(30) DEF RemoveRotated, KeptInv, RotationInv
  <2>2. LogPath \notin DOMAIN disk'
    BY <1>7, <2>1 DEF RemoveRotated, Without, Restrict
  <2> QED
    BY <2>2 DEF SizeInv
<1>8. ASSUME NEW t \in Threads, Reopen(t) PROVE SizeInv'
  <2>1. LogPath \notin DOMAIN disk
    BY <1>8 DEF Reopen, KeptInv, RotationInv
  <2>2. LogPath \in DOMAIN disk' => disk'[LogPath] = {}
    BY <1>8, <2>1 DEF Reopen, openLogFile, Appending, Put
  <2> QED
    BY <2>2, NewFile, SMTT(30)
<1>9. CASE Start
  <2>1. UNCHANGED pc /\ (UNCHANGED disk \/ disk' = Appending)
    BY <1>9, SMTT(30) DEF Start, openLogFile
  <2>2. CASE LogPath \in DOMAIN disk
    <3>1. UNCHANGED disk
      BY <2>1, <2>2, SMTT(30) DEF Appending
    <3> QED
      BY <2>1, <3>1 DEF SizeInv, Writers
  <2>3. CASE LogPath \notin DOMAIN disk
    <3>1. LogPath \in DOMAIN disk' => disk'[LogPath] = {}
      BY <2>1, <2>3 DEF Appending, Put
    <3> QED
      BY <3>1, NewFile
  <2> QED
    BY <2>2, <2>3, SMTT(30)
<1>10. CASE closeLogFile \/ Crash
  <2>1. UNCHANGED disk /\ Writers' \subseteq Writers
    BY <1>10 DEF closeLogFile, Crash, Down, Writers
  <2> QED
    BY <2>1, NoNewWriter, SMTT(30)
<1>11. CASE Tick \/ UNCHANGED vars
  BY <1>11, Zenon DEF Tick, vars, SizeInv, Writers
<1> QED
  BY <1>1, <1>2, <1>3, <1>4, <1>5, <1>6, <1>7, <1>8, <1>9, <1>10, <1>11, SMTT(30) DEF Next, Step

-----------------------------------------------------------------------------
(* The properties of the log file.                                         *)

LoggerInv == KeptInv /\ SizeInv

\* The inductive invariant of the log file holds at first.
LEMMA LoggerInit == Init => LoggerInv
<1>1. Init => SizeInv
  BY DEF Init, SizeInv
<1> QED
  BY <1>1, KeptInit, SMTT(30) DEF LoggerInv

\* Every step keeps it.
LEMMA LoggerStep == LoggerInv /\ [Next]_vars => LoggerInv'
BY KeptStep, SizeStep DEF LoggerInv

\* What the invariant says about the properties.
LEMMA LoggerProperties == LoggerInv => FileUsable /\ LinesKept /\ SizeBound
<1> SUFFICES ASSUME LoggerInv PROVE FileUsable /\ LinesKept /\ SizeBound
  OBVIOUS
<1>1. FileUsable
  BY LoggerAssumption DEF LoggerInv, KeptInv, LockInv, FileUsable
<1>2. LinesKept
  <2>1. ASSUME NEW x, Stored(x) PROVE x \in Contents
    BY <2>1, SMTT(30) DEF Stored, Contents, Range
  <2> QED
    BY <2>1 DEF LinesKept, LoggerInv, KeptInv, LinesInv
<1>3. SizeBound
  <2>1. ASSUME LogPath \in DOMAIN disk PROVE Cardinality(disk[LogPath]) \in Nat
    BY <2>1, FS_CardinalityType, SMTT(30) DEF LoggerInv, SizeInv
  <2> QED
    BY <2>1, WritersFinite, LoggerAssumption, SMTT(30) DEF SizeBound, LoggerInv, SizeInv
<1> QED
  BY <1>1, <1>2, <1>3

\* A step of the composition is one of the log file, or leaves it alone.
LEMMA LogFileStep == [ReportingNext]_reportingVars => [Next]_vars
<1> SUFFICES ASSUME [ReportingNext]_reportingVars PROVE [Next]_vars
  OBVIOUS
<1>1. CASE EndedByRace
  BY <1>1 DEF EndedByRace, Next, Crash
<1>2. CASE Run \/ Shutdown \/ Killed
  BY <1>2 DEF Run, Shutdown, Killed, Next
<1>3. ASSUME NEW t \in Threads, Log(t) \/ LogStep(t) PROVE Next
  BY <1>3 DEF Log, LogStep, Next
<1>4. ASSUME NEW t \in Threads, CountStep(t) \/ \E c \in Counters : Count(t, c) PROVE UNCHANGED vars
  BY <1>4 DEF CountStep, Count
<1>5. CASE UNCHANGED reportingVars
  BY <1>5 DEF reportingVars
<1> QED
  BY <1>1, <1>2, <1>3, <1>4, <1>5, SMTT(30) DEF ReportingNext

\* So the invariant of the log file holds in the composition.
LEMMA LogFileInvariant == ReportingSpec => []LoggerInv
<1>1. ReportingInit => LoggerInv
  BY LoggerInit DEF ReportingInit
<1>2. LoggerInv /\ [ReportingNext]_reportingVars => LoggerInv'
  BY LoggerStep, LogFileStep
<1> QED
  BY <1>1, <1>2, PTL DEF ReportingSpec

\* Outside a rotation the file is open and enabled unless opening it failed
\* (log, logRotation, openLogFile), for any number of threads and lines.
THEOREM Usable == ReportingSpec => []FileUsable
BY LogFileInvariant, LoggerProperties, PTL

\* A rotation loses no line, at whatever step it fails or the process is killed,
\* unless two fall into one second or an archive is cut (logRotation,
\* compressFileGzip).
THEOREM Kept == ReportingSpec => []LinesKept
BY LogFileInvariant, LoggerProperties, PTL

\* The file outgrows its maximal size by less than a line per thread
\* (shouldRotate).
THEOREM Bounded == ReportingSpec => []SizeBound
BY LogFileInvariant, LoggerProperties, PTL

-----------------------------------------------------------------------------
(* The counters.                                                           *)

\* The threads that count for c and have not incremented yet.
InFlight(c) == {t \in Threads : counting[t] = c}

CountTypes ==
    /\ at \in [Threads -> {"idle", "add", "insert", "increment"}]
    /\ counting \in [Threads -> Counters \cup {NoCounter}]
    /\ value \in [Counters -> Nat] /\ calls \in [Counters -> Nat] /\ raced \in BOOLEAN
    /\ \A t \in Threads : at[t] = "idle" <=> counting[t] = NoCounter

\* Every call is in its counter or on its way to it.
CallsInv == \A c \in Counters : calls[c] = value[c] + Cardinality(InFlight(c))

\* What is counted is in the map, unless the threads raced on it.
EntriesInv ==
    ~raced => /\ \A c \in Counters : value[c] > 0 => c \in entries
              /\ \A t \in Threads : at[t] = "increment" => counting[t] \in entries

CountInv == CountTypes /\ CallsInv /\ EntriesInv

\* A new process has counted nothing, and nobody counts.
LEMMA CountFresh ==
    /\ Traffic!TrafficInit => CountInv
    /\ Traffic!TrafficRestart => CountInv'
<1> USE LoggerAssumption, ReportingAssumption
<1>1. ASSUME Traffic!TrafficInit PROVE CountInv
  <2>1. CountTypes
    BY <1>1, Zenon DEF Traffic!TrafficInit, CountTypes
  <2>4. EntriesInv
    BY <1>1 DEF Traffic!TrafficInit, EntriesInv
  <2>2. ASSUME NEW c \in Counters PROVE InFlight(c) = {}
    BY <1>1 DEF Traffic!TrafficInit, InFlight
  <2>3. \A c \in Counters : Cardinality(InFlight(c)) = 0
    BY <2>2, FS_EmptySet, Zenon
  <2> QED
    BY <1>1, <2>1, <2>3, <2>4 DEF CountInv, CallsInv, Traffic!TrafficInit
<1>2. ASSUME Traffic!TrafficRestart PROVE CountInv'
  <2>1. CountTypes'
    BY <1>2, Zenon DEF Traffic!TrafficRestart, CountTypes
  <2>4. EntriesInv'
    BY <1>2 DEF Traffic!TrafficRestart, EntriesInv
  <2>2. ASSUME NEW c \in Counters PROVE InFlight(c)' = {}
    BY <1>2 DEF Traffic!TrafficRestart, InFlight
  <2>3. \A c \in Counters : Cardinality(InFlight(c)') = 0
    BY <2>2, FS_EmptySet, ZenonT(60)
  <2> QED
    BY <1>2, <2>1, <2>3, <2>4, SMTT(30) DEF CountInv, CallsInv, Traffic!TrafficRestart
<1> QED
  BY <1>1, <1>2, SMTT(30)

\* The threads that count for c are some of the threads.
LEMMA FlightFinite ==
    ASSUME NEW c PROVE IsFiniteSet(InFlight(c)) /\ Cardinality(InFlight(c)) \in Nat
BY LoggerAssumption, FS_Subset, FS_CardinalityType, SMTT(30) DEF InFlight

\* Taking one element out of a finite set.
LEMMA OneLess ==
    ASSUME NEW S, NEW x \in S, IsFiniteSet(S)
    PROVE  Cardinality(S \ {x}) = Cardinality(S) - 1
BY FS_RemoveElement, FS_CardinalityType, SMTT(30)

\* A step of a thread that counts.
LEMMA CountThreadStep ==
    ASSUME CountInv, NEW t \in Threads,
           Traffic!CountStep(t) \/ \E c \in Counters : Traffic!Find(t, c)
    PROVE  CountInv'
<1> USE LoggerAssumption, ReportingAssumption DEF CountInv, CountTypes, Traffic!At
<1>1. ASSUME NEW c \in Counters, Traffic!Find(t, c) PROVE CountInv'
  <2>1. CountTypes'
    BY <1>1, SMTT(30) DEF Traffic!Find
  <2>2. EntriesInv'
    BY <1>1, SMTT(30) DEF Traffic!Find, EntriesInv
  <2>3. t \notin InFlight(c) /\ InFlight(c)' = InFlight(c) \cup {t}
    BY <1>1 DEF Traffic!Find, InFlight
  <2>4. Cardinality(InFlight(c)') = Cardinality(InFlight(c)) + 1
    BY <2>3, FlightFinite, FS_AddElement, ZenonT(60)
  <2>5. \A d \in Counters \ {c} : InFlight(d)' = InFlight(d)
    BY <1>1, SMTT(30) DEF Traffic!Find, InFlight
  <2>6. calls'[c] = calls[c] + 1 /\ UNCHANGED value /\ \A d \in Counters \ {c} : calls'[d] = calls[d]
    BY <1>1, SMTT(30) DEF Traffic!Find
  <2>7. CallsInv'
    BY <2>4, <2>5, <2>6, FlightFinite, SMTT(30) DEF CallsInv
  <2> QED
    BY <2>1, <2>2, <2>7, SMTT(30)
<1>2. CASE Traffic!Add(t) \/ Traffic!Insert(t)
  <2>1. UNCHANGED <<counting, value, calls>>
    BY <1>2 DEF Traffic!Add, Traffic!Insert
  <2>2. CountTypes'
    BY <1>2, Zenon DEF Traffic!Add, Traffic!Insert
  <2>3. EntriesInv'
    BY <1>2, ZenonT(60) DEF Traffic!Add, Traffic!Insert, EntriesInv
  <2> QED
    BY <2>1, <2>2, <2>3, SMTT(30) DEF CallsInv, InFlight
<1>3. CASE Traffic!Increment(t)
  <2>1. PICK c \in Counters : c = counting[t] /\ at[t] = "increment"
    BY <1>3, SMTT(30) DEF Traffic!Increment
  <2>2. CountTypes'
    BY <1>3, <2>1, SMTT(30) DEF Traffic!Increment
  <2>3. EntriesInv'
    BY <1>3, <2>1, SMTT(30) DEF Traffic!Increment, EntriesInv
  <2>4. t \in InFlight(c) /\ InFlight(c)' = InFlight(c) \ {t}
    BY <1>3, <2>1, SMTT(30) DEF Traffic!Increment, InFlight
  <2>5. \A d \in Counters \ {c} : InFlight(d)' = InFlight(d)
    BY <1>3, <2>1, SMTT(30) DEF Traffic!Increment, InFlight
  <2>6. value'[c] = value[c] + 1 /\ UNCHANGED calls /\ \A d \in Counters \ {c} : value'[d] = value[d]
    BY <1>3, <2>1 DEF Traffic!Increment
  <2>7. Cardinality(InFlight(c)') = Cardinality(InFlight(c)) - 1
    <3>1. Cardinality(InFlight(c) \ {t}) = Cardinality(InFlight(c)) - 1
      BY <2>4, FlightFinite, OneLess, SMTT(30)
    <3> QED
      BY <2>4, <3>1, Zenon
  <2>8. CallsInv'
    <3>1. calls'[c] = value'[c] + Cardinality(InFlight(c)')
      BY <2>6, <2>7, FlightFinite, SMTT(30) DEF CallsInv
    <3>2. \A d \in Counters \ {c} : calls'[d] = value'[d] + Cardinality(InFlight(d)')
      BY <2>5, <2>6 DEF CallsInv
    <3> QED
      BY <3>1, <3>2, SMTT(30) DEF CallsInv
  <2> QED
    BY <2>2, <2>3, <2>8
<1> QED
  BY <1>1, <1>2, <1>3, SMTT(30) DEF Traffic!CountStep

\* No step of the composition breaks the counters' invariant.
LEMMA CountStepKeeps == CountInv /\ [ReportingNext]_reportingVars => CountInv'
<1> SUFFICES ASSUME CountInv, [ReportingNext]_reportingVars PROVE CountInv'
  OBVIOUS
<1>1. CASE Shutdown \/ Killed \/ EndedByRace
  BY <1>1, CountFresh DEF Shutdown, Killed, EndedByRace
<1>2. ASSUME NEW t \in Threads, CountStep(t) \/ \E c \in Counters : Count(t, c) PROVE CountInv'
  BY <1>2, CountThreadStep, SMTT(30) DEF CountStep, Count
<1>3. ASSUME UNCHANGED trafficVars PROVE CountInv'
  BY <1>3 DEF trafficVars, CountInv, CountTypes, CallsInv, EntriesInv, InFlight
<1> QED
  BY <1>1, <1>2, <1>3 DEF ReportingNext, reportingVars, Run, Log, LogStep

\* When no thread counts, the counters tell exactly what was counted, also when
\* two threads created a counter together, unless they raced on the map
\* (incrementMessage, incrementError, incrementReconnection).
THEOREM Exact == ReportingSpec => []CountsExact
<1>1. CountInv => CountsExact
  <2> SUFFICES ASSUME CountInv, \A t \in Threads : at[t] = "idle", ~raced, NEW c \in Counters
               PROVE  Traffic!getCount(c) = calls[c]
    BY DEF CountsExact
  <2>1. InFlight(c) = {}
    BY ReportingAssumption DEF CountInv, CountTypes, InFlight
  <2>2. Cardinality(InFlight(c)) = 0
    BY <2>1, FS_EmptySet, Zenon
  <2> QED
    BY <2>2 DEF CountInv, CountTypes, CallsInv, EntriesInv, Traffic!getCount
<1>2. ReportingInit => CountInv
  BY CountFresh DEF ReportingInit
<1> QED
  BY <1>1, <1>2, CountStepKeeps, PTL DEF ReportingSpec
=============================================================================
