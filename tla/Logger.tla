------------------------------- MODULE Logger -------------------------------
(***************************************************************************)
(* The server's log file (logger.cpp): threads append a line each, the one *)
(* that finds the file at its maximal size renames it, compresses it into  *)
(* an archive named after the second and starts a new file.  m_fileMutex   *)
(* covers a rotation and a write; neither shouldRotate nor the test of     *)
(* m_fileEnabled takes it.                                                 *)
(*                                                                         *)
(* A file is the set of its lines, its size their number.  Files survive a *)
(* crash and a restart; every call to the file system can fail.            *)
(***************************************************************************)
EXTENDS Naturals, FiniteSets, Functions

CONSTANTS Threads,   \* workers, the event loop and the main thread
          NoThread,
          Threshold, \* getMaxLogSize, in lines
          MaxLines,  \* bound: calls to log
          MaxTime    \* bound: seconds that pass

ASSUME LoggerAssumption ==
    /\ NoThread \notin Threads /\ IsFiniteSet(Threads)
    /\ Threshold \in Nat \ {0} /\ MaxLines \in Nat /\ MaxTime \in Nat

VARIABLES running,   \* the process is up
          now,       \* m_clock, in seconds
          lines,     \* calls to log so far
          pc,        \* where each thread is in log
          line,      \* the line it logs
          stamp,     \* the second in the name of its rotation's archive
          owner,     \* who holds m_fileMutex
          isOpen,    \* m_logFile.is_open()
          bad,       \* a write to m_logFile has failed
          enabled,   \* m_fileEnabled
          disk       \* the files: from their paths to their lines

\* Observers.
VARIABLES written,   \* lines that reached the file
          clash,     \* an archive took a name that was in use
          cut,       \* an archive was closed incomplete
          denied     \* openLogFile has failed since the last time it did not

threadVars == <<pc, line, stamp>>
fileVars == <<owner, isOpen, bad, enabled>>
observerVars == <<written, clash, cut, denied>>
vars == <<running, now, lines, threadVars, fileVars, disk, observerVars>>

LogPath == <<"log", 0>>
Rotated(s) == <<"rotated", s>>
Archive(s) == <<"gz", s>>

Put(path, content) ==
    [p \in DOMAIN disk \cup {path} |-> IF p = path THEN content ELSE disk[p]]
Moved(from, to) ==
    [p \in (DOMAIN disk \ {from}) \cup {to} |-> IF p = to THEN disk[from] ELSE disk[p]]
Without(paths) == Restrict(disk, DOMAIN disk \ paths)

Init ==
    /\ running = FALSE /\ now = 0 /\ lines = 0
    /\ pc = [t \in Threads |-> "idle"] /\ line = [t \in Threads |-> 0]
    /\ stamp = [t \in Threads |-> 0]
    /\ owner = NoThread /\ isOpen = FALSE /\ bad = FALSE /\ enabled = FALSE
    /\ disk = [path \in {} |-> {}]
    /\ written = {} /\ clash = FALSE /\ cut = FALSE /\ denied = FALSE

Goto(t, label) == pc' = [pc EXCEPT ![t] = label]
Done(t) == Goto(t, "idle") /\ line' = [line EXCEPT ![t] = 0]

-----------------------------------------------------------------------------
(* The steps of log.                                                       *)

\* A mutant: a file of exactly the maximal size is not rotated.
RotatesAbove == LogPath \in DOMAIN disk /\ Cardinality(disk[LogPath]) > Threshold

\* file_size throws when the file is not there, and the answer is false.
shouldRotate == LogPath \in DOMAIN disk /\ Cardinality(disk[LogPath]) >= Threshold

log(t) ==
    /\ running /\ pc[t] = "idle" /\ lines < MaxLines
    /\ lines' = lines + 1
    /\ line' = [line EXCEPT ![t] = lines + 1]
    /\ Goto(t, IF shouldRotate THEN "rotate" ELSE "save")
    /\ UNCHANGED <<running, now, stamp, fileVars, disk, observerVars>>

\* saveLogEntry succeeds, or throws and is caught; then m_fileEnabled is read.
SaveLogEntry(t) ==
    /\ pc[t] = "save"
    /\ IF enabled THEN Goto(t, "write") /\ UNCHANGED line ELSE Done(t)
    /\ UNCHANGED <<running, now, lines, stamp, fileVars, disk, observerVars>>

\* Under the mutex: a stream that is closed or has failed takes nothing and does
\* not throw.
WriteLine(t) ==
    /\ pc[t] = "write" /\ owner = NoThread
    /\ \/ /\ isOpen /\ ~bad
          /\ disk' = Put(LogPath, disk[LogPath] \cup {line[t]})
          /\ written' = written \cup {line[t]}
          /\ UNCHANGED bad
       \/ /\ bad' = TRUE
          /\ UNCHANGED <<disk, written>>
    /\ Done(t)
    /\ UNCHANGED <<running, now, lines, stamp, owner, isOpen, enabled, clash, cut, denied>>

-----------------------------------------------------------------------------
(* logRotation.  What it throws leaves log, which is noexcept: the process *)
(* is terminated (Crash, below).                                           *)

CloseCurrent(t) ==
    /\ pc[t] = "rotate" /\ owner = NoThread
    /\ owner' = t
    /\ isOpen' = FALSE
    /\ enabled' = (enabled /\ ~isOpen)
    /\ Goto(t, "rename")
    /\ UNCHANGED <<running, now, lines, line, stamp, bad, disk, observerVars>>

RenameToStamp(t) ==
    /\ pc[t] = "rename"
    /\ IF LogPath \in DOMAIN disk
       THEN /\ disk' = Moved(LogPath, Rotated(now))
            /\ clash' = (clash \/ {Rotated(now), Archive(now)} \cap DOMAIN disk # {})
            /\ stamp' = [stamp EXCEPT ![t] = now]
            /\ Goto(t, "compress")
       ELSE Goto(t, "reopen") /\ UNCHANGED <<disk, clash, stamp>>
    /\ UNCHANGED <<running, now, lines, line, fileVars, written, cut, denied>>

\* A mutant: the rotated file is removed whether or not it was compressed.
RemoveAnyway(t) ==
    /\ pc[t] = "compress"
    /\ \E content \in {disk[Rotated(stamp[t])], {}} :
          disk' = Put(Archive(stamp[t]), content)
    /\ Goto(t, "remove")
    /\ UNCHANGED <<running, now, lines, line, stamp, fileVars, observerVars>>

\* Reading or opening fails, or a write does and leaves a part of the archive;
\* or it reports success, for an archive that is complete or, since neither
\* fread's nor gzclose's error is looked at, for a part of one.
compressFileGzip(t) ==
    /\ pc[t] = "compress"
    /\ \/ /\ Goto(t, "reopen")
          /\ disk' \in {disk, Put(Archive(stamp[t]), {})}
          /\ UNCHANGED cut
       \/ /\ Goto(t, "remove")
          /\ disk' = Put(Archive(stamp[t]), disk[Rotated(stamp[t])])
          /\ UNCHANGED cut
       \/ /\ Goto(t, "remove")
          /\ disk' = Put(Archive(stamp[t]), {})
          /\ cut' = TRUE
    /\ UNCHANGED <<running, now, lines, line, stamp, fileVars, written, clash, denied>>

RemoveRotated(t) ==
    /\ pc[t] = "remove"
    /\ disk' = Without({Rotated(stamp[t])})
    /\ Goto(t, "reopen")
    /\ UNCHANGED <<running, now, lines, line, stamp, fileVars, observerVars>>

\* In append mode: what is in the file stays.
Appending == IF LogPath \in DOMAIN disk THEN disk ELSE Put(LogPath, {})

openLogFile ==
    \/ /\ isOpen' = TRUE /\ bad' = FALSE /\ enabled' = TRUE /\ denied' = FALSE
       /\ disk' = Appending
    \/ /\ enabled' = FALSE /\ denied' = TRUE
       /\ UNCHANGED <<isOpen, bad, disk>>

\* A mutant: the file is reopened by a function that takes the mutex again.
ReopenLocks(t) ==
    /\ pc[t] = "reopen" /\ owner = NoThread
    /\ openLogFile
    /\ Goto(t, "save")
    /\ UNCHANGED <<running, now, lines, line, stamp, owner, written, clash, cut>>

\* A mutant: the file is reopened but not enabled.
ReopenDisabled(t) ==
    /\ pc[t] = "reopen"
    /\ isOpen' = TRUE /\ bad' = FALSE /\ denied' = FALSE
    /\ disk' = Appending
    /\ owner' = NoThread
    /\ Goto(t, "save")
    /\ UNCHANGED <<running, now, lines, line, stamp, enabled, written, clash, cut>>

Reopen(t) ==
    /\ pc[t] = "reopen"
    /\ openLogFile
    /\ owner' = NoThread
    /\ Goto(t, "save")
    /\ stamp' = [stamp EXCEPT ![t] = 0]
    /\ UNCHANGED <<running, now, lines, line, written, clash, cut>>

-----------------------------------------------------------------------------
(* The process.                                                            *)

\* main opens the file before there are threads.
Start ==
    /\ ~running
    /\ running' = TRUE
    /\ openLogFile
    /\ UNCHANGED <<now, lines, threadVars, owner, written, clash, cut>>

Down ==
    /\ running' = FALSE /\ owner' = NoThread
    /\ isOpen' = FALSE /\ bad' = FALSE /\ enabled' = FALSE
    /\ pc' = [t \in Threads |-> "idle"] /\ line' = [t \in Threads |-> 0]
    /\ stamp' = [t \in Threads |-> 0]
    /\ UNCHANGED <<now, lines, disk, observerVars>>

\* ~Server has joined the workers and calls closeLogFile (by then main's try
\* block has destroyed the Logger, see NoTaskAfterServices in ThreadPool: the
\* file is closed either way).
closeLogFile ==
    /\ running /\ \A t \in Threads : pc[t] = "idle"
    /\ Down

\* The process is killed, or a rotation throws.
Crash == running /\ Down

Tick ==
    /\ now < MaxTime
    /\ now' = now + 1
    /\ UNCHANGED <<running, lines, threadVars, fileVars, disk, observerVars>>

Step(t) ==
    \/ SaveLogEntry(t) \/ WriteLine(t) \/ CloseCurrent(t) \/ RenameToStamp(t)
    \/ compressFileGzip(t) \/ RemoveRotated(t) \/ Reopen(t)

Next ==
    \/ Start \/ closeLogFile \/ Crash \/ Tick
    \/ \E t \in Threads : log(t) \/ Step(t)

\* A thread inside log is scheduled.
Spec == Init /\ [][Next]_vars /\ \A t \in Threads : WF_vars(Step(t))

-----------------------------------------------------------------------------
(* Properties.                                                             *)

Contents == UNION Range(disk)

\* Rotation loses no line of the log: whatever was written is in the file, in a
\* rotated file or in an archive, in the middle of a rotation, after any failure
\* it reports and after a crash at any step, unless two rotations fall into one
\* second (the second takes the names of the first) or an archive is closed
\* incomplete (compressFileGzip does not look at gzclose).  The report says that
\* compressed files "are kept for backup".
LinesKept == clash \/ cut \/ written \subseteq Contents

\* The file does not outgrow its maximal size by more than the lines of the
\* other threads: all of them may have found it one line short (shouldRotate
\* runs without the mutex).
SizeBound ==
    LogPath \in DOMAIN disk =>
        Cardinality(disk[LogPath]) <= Threshold - 1 + Cardinality(Threads)

\* Outside a rotation the file is open and enabled, so that no line is left out,
\* unless the last attempt to open it failed; only the rotating thread ever
\* works on a closed file (log, logRotation, openLogFile).
FileUsable ==
    running /\ owner = NoThread => isOpen = enabled /\ (isOpen \/ denied)

\* A call to log returns (or the process ends): no thread waits for ever for
\* m_fileMutex.
LogReturns == \A t \in Threads : pc[t] # "idle" ~> pc[t] = "idle"
=============================================================================
