----------------------------- MODULE Reporting ------------------------------
(***************************************************************************)
(* The two services every handler of the server calls: a thread counts a   *)
(* message (TrafficReporter) or logs a line (Logger).  They share the      *)
(* threads and the fate of the process: it takes down a rotation that is   *)
(* in progress and the counters, and the log file is what remains.         *)
(***************************************************************************)
EXTENDS Logger

CONSTANTS Counters, NoCounter, MaxCalls

ASSUME ReportingAssumption == NoCounter \notin Counters /\ MaxCalls \in Nat

VARIABLES at, counting, entries, value, calls, raced

Traffic == INSTANCE TrafficReporter

trafficVars == <<at, counting, entries, value, calls, raced>>
reportingVars == <<vars, trafficVars>>

ReportingInit == Init /\ Traffic!TrafficInit

\* Handlers.
Log(t) == at[t] = "idle" /\ log(t) /\ UNCHANGED trafficVars
Count(t, c) == running /\ pc[t] = "idle" /\ Traffic!Find(t, c) /\ UNCHANGED vars
LogStep(t) == Step(t) /\ UNCHANGED trafficVars
CountStep(t) == Traffic!CountStep(t) /\ UNCHANGED vars

\* The process.
Run == (Start \/ Tick) /\ UNCHANGED trafficVars
Shutdown == (\A t \in Threads : at[t] = "idle") /\ closeLogFile /\ Traffic!TrafficRestart
Killed == Crash /\ Traffic!TrafficRestart
EndedByRace == running /\ (\E t \in Threads : Traffic!Ends(t)) /\ Down /\ Traffic!TrafficRestart

ReportingNext ==
    \/ Run \/ Shutdown \/ Killed \/ EndedByRace
    \/ \E t \in Threads :
          \/ Log(t) \/ LogStep(t) \/ CountStep(t)
          \/ \E c \in Counters : Count(t, c)

\* A thread inside log is scheduled.
ReportingSpec ==
    ReportingInit /\ [][ReportingNext]_reportingVars /\ \A t \in Threads : WF_reportingVars(LogStep(t))

-----------------------------------------------------------------------------
(* Properties.                                                             *)

\* The counters tell what was counted: when no thread is counting, the count of
\* each label is the number of calls for it in this process, also when two
\* threads create a counter together, unless they raced on the map itself
\* ("no need for mutex", says incrementMessage, but std::map does need one).
CountsExact ==
    (\A t \in Threads : at[t] = "idle") /\ ~raced =>
        \A c \in Counters : Traffic!getCount(c) = calls[c]
=============================================================================
