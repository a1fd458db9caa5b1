------------------------------ MODULE Monitor ------------------------------
(***************************************************************************)
(* The endless-loop monitor of a worker (rskynet-core/src/monitor.rs, the  *)
(* loop around it in start.rs).  The worker brackets every poll with       *)
(* stores to a version and to a route kept under a sequence lock; the      *)
(* monitor thread looks every few seconds and reports a poll it finds      *)
(* unchanged.  Each load and each store is a step.                         *)
(*                                                                         *)
(* The n-th poll goes from source n to destination n; 0 is "nobody".       *)
(***************************************************************************)
EXTENDS Integers, Sequences

CONSTANT MnPolls     \* bound: polls of the worker

ASSUME MnAssumption == MnPolls \in Nat

VARIABLES
  mnVersion, mnSeq, mnSource, mnDestination,   \* the shared words
  mnWorker,    \* [n: the poll, at: the next step of MnScript]
  mnChecker,   \* [pc, before, seq, route, after]
  mnChecked,   \* the version the last check saw
  mnOpen,      \* history: the poll under way when the last check ended, or 0
  mnReport     \* what the last report said: [route, version, was]

mnVars == <<mnVersion, mnSeq, mnSource, mnDestination, mnWorker, mnChecker, mnChecked,
            mnOpen, mnReport>>

\* Mutant: the version moves after the route has been published.
MnScriptLate == <<"odd", "source", "destination", "even", "version", "poll",
                  "odd", "clear_source", "clear_destination", "even", "version">>
\* begin, the poll itself, finish.
MnScript == <<"version", "odd", "source", "destination", "even", "poll",
              "odd", "clear_source", "clear_destination", "even", "version">>

MnStepIs(s) == mnWorker.n > 0 /\ MnScript[mnWorker.at] = s

\* A poll is under way from the first store of begin to the last of finish.
MnUnderWay == IF mnWorker.at = 1 THEN 0 ELSE mnWorker.n

MnQuiet == [pc |-> "rest", before |-> 0, seq |-> 0, route |-> <<0, 0>>, after |-> 0]
MnNothing == [route |-> <<0, 0>>, version |-> 0, was |-> 0]

MnInit ==
  /\ mnVersion = 0 /\ mnSeq = 0 /\ mnSource = 0 /\ mnDestination = 0
  /\ mnWorker = [n |-> 1, at |-> 1]
  /\ mnChecker = MnQuiet
  /\ mnChecked = 0
  /\ mnOpen = 0
  /\ mnReport = MnNothing

MnBeside == <<mnChecker, mnChecked, mnOpen, mnReport>>

MnWork ==
  /\ mnWorker.n <= MnPolls
  /\ mnVersion' = IF MnStepIs("version") THEN mnVersion + 1 ELSE mnVersion
  /\ mnSeq' = IF MnStepIs("odd") \/ MnStepIs("even") THEN mnSeq + 1 ELSE mnSeq
  /\ mnSource' = IF MnStepIs("source") THEN mnWorker.n
                 ELSE IF MnStepIs("clear_source") THEN 0 ELSE mnSource
  /\ mnDestination' = IF MnStepIs("destination") THEN mnWorker.n
                      ELSE IF MnStepIs("clear_destination") THEN 0 ELSE mnDestination
  /\ mnWorker' = IF mnWorker.at = Len(MnScript) THEN [n |-> mnWorker.n + 1, at |-> 1]
                 ELSE [mnWorker EXCEPT !.at = @ + 1]
  /\ UNCHANGED MnBeside

-----------------------------------------------------------------------------
(* check and read_route *)
MnShared == <<mnVersion, mnSeq, mnSource, mnDestination, mnWorker>>

MnTo(pc, field, value) ==
  mnChecker' = [mnChecker EXCEPT !.pc = pc, ![field] = value]

MnCheck ==
  /\ mnChecker.pc = "rest"
  /\ MnTo("seq", "before", mnVersion)
  /\ UNCHANGED <<MnShared, mnChecked, mnOpen, mnReport>>
\* An odd sequence number means a writer is in between: look again.
MnLoadSeq ==
  /\ mnChecker.pc = "seq"
  /\ mnSeq % 2 = 0
  /\ MnTo("source", "seq", mnSeq)
  /\ UNCHANGED <<MnShared, mnChecked, mnOpen, mnReport>>
MnLoadSource ==
  /\ mnChecker.pc = "source"
  /\ MnTo("destination", "route", <<mnSource, 0>>)
  /\ UNCHANGED <<MnShared, mnChecked, mnOpen, mnReport>>
MnLoadDestination ==
  /\ mnChecker.pc = "destination"
  /\ MnTo("confirm", "route", <<mnChecker.route[1], mnDestination>>)
  /\ UNCHANGED <<MnShared, mnChecked, mnOpen, mnReport>>
\* Mutant: the pair is believed without a second look at the sequence number.
MnSameSeqTrusting(seq) == TRUE
MnSameSeq(seq) == mnSeq = seq
MnConfirm ==
  /\ mnChecker.pc = "confirm"
  /\ MnTo(IF MnSameSeq(mnChecker.seq) THEN "after" ELSE "seq", "seq", mnChecker.seq)
  /\ UNCHANGED <<MnShared, mnChecked, mnOpen, mnReport>>
MnLoadAfter ==
  /\ mnChecker.pc = "after"
  /\ MnTo("judge", "after", mnVersion)
  /\ UNCHANGED <<MnShared, mnChecked, mnOpen, mnReport>>

\* Mutant: a version seen for the first time is enough to report.
MnStuckAtOnce(c) == c.before = c.after
MnStuck(c) == c.before = c.after /\ c.after = mnChecked
\* Mutant: the version seen is not kept as the baseline.
MnJudgeForgets ==
  /\ mnChecker.pc = "judge"
  /\ mnReport' = IF MnStuck(mnChecker) /\ mnChecker.route[2] # 0
                 THEN [route |-> mnChecker.route, version |-> mnChecker.after, was |-> mnOpen]
                 ELSE mnReport
  /\ mnOpen' = MnUnderWay
  /\ mnChecker' = MnQuiet
  /\ UNCHANGED <<MnShared, mnChecked>>

\* A version that moved only sets the baseline; the same one again, with
\* somebody on the route, is reported.
MnJudge ==
  /\ mnChecker.pc = "judge"
  /\ mnChecked' = mnChecker.after
  /\ mnReport' = IF MnStuck(mnChecker) /\ mnChecker.route[2] # 0
                 THEN [route |-> mnChecker.route, version |-> mnChecker.after, was |-> mnOpen]
                 ELSE mnReport
  /\ mnOpen' = MnUnderWay
  /\ mnChecker' = MnQuiet
  /\ UNCHANGED MnShared

MnLook == \/ MnCheck \/ MnLoadSeq \/ MnLoadSource \/ MnLoadDestination \/ MnConfirm
          \/ MnLoadAfter \/ MnJudge

MnNext == MnWork \/ MnLook

\* The monitor thread looks again and again until the node stops.
MnFair == WF_mnVars(MnLook)

MnSpec == MnInit /\ [][MnNext]_mnVars /\ MnFair
-----------------------------------------------------------------------------
\* No false alarm: what is reported is one poll's own source and destination,
\* and that poll was already under way when the check before this one ended.
\* A poll that has just begun, or two half-read polls, are never reported.
MnNoFalseAlarm ==
  mnReport # MnNothing =>
    /\ mnReport.route[1] = mnReport.route[2]
    /\ mnReport.route[2] = mnReport.was
    /\ mnReport.version = 2 * mnReport.was - 1

\* No missed loop: a poll that never returns is reported.
MnReported ==
  \A n \in 1 .. MnPolls :
    <>[](mnWorker.n = n /\ MnStepIs("poll")) => <>(mnReport.route = <<n, n>>)
=============================================================================
