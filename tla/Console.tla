-------------------------------- MODULE Console --------------------------------
(***************************************************************************)
(* What one ncn-api process (backend/main.go) measures, is told and writes *)
(* down: the measurements of Measurements, the documents of Documents, and *)
(* the watchers and notices of Watchers.  Their jobs and handlers share    *)
(* nothing but the process, and take turns in any order; a restart is the  *)
(* restart of all of them.                                                 *)
(***************************************************************************)
EXTENDS Measurements, Documents, Watchers

otherThanMeasures == <<documentVars, noticeVars, watcherVars>>
otherThanDocuments == <<measureVars, noticeVars, watcherVars>>
otherThanNotices == <<measureVars, documentVars>>

ConsoleInit == MeasureInit /\ DocumentsInit /\ NoticesInit /\ WatchersInit

Measuring == MeasureSamples \/ MeasureWork
Writing == WikiEvents \/ WikiWork \/ BillingEvents \/ monthPasses \/ IncidentEvents \/ AIEvents
Paging == OncallEvents \/ OncallWork \/ ReplWork
Watching == RpkiEvents \/ RpkiWork \/ TickerEvents \/ TickerWork \/ HijackEvents \/ HijackWork

ConsoleRestart == MeasureRestart /\ DocumentsRestart /\ WatchersRestart

ConsoleNext ==
    \/ Measuring /\ UNCHANGED otherThanMeasures
    \/ Writing /\ UNCHANGED otherThanDocuments
    \/ Paging /\ UNCHANGED <<otherThanNotices, watcherVars>>
    \/ Watching /\ UNCHANGED otherThanNotices
    \/ ConsoleRestart

ConsoleSpec ==
    ConsoleInit /\ [][ConsoleNext]_<<measureVars, documentVars, noticeVars, watcherVars>>

------------------------------------------------------------------------------
(* What the console took in is there: every sample of a finished day is    *)
(* counted in its row, whenever flushes and the change of day fall, every  *)
(* text saved in the wiki is the page or in its history, and the poll      *)
(* interval an operator chose is the ticker's, whichever change signalled. *)
NothingIsLost == FinishedDaysAreWhole /\ EditsAreKept /\ IntervalIsAdopted
==============================================================================
