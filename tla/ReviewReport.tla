----------------------------- MODULE ReviewReport -----------------------------
(***************************************************************************)
(* The command "review" from its findings to its exit status.  Findings    *)
(* come from the fan-out (ParallelReview) or from the report_findings call *)
(* of a standard session; then internal/review/filter.go has a model name  *)
(* the false ones, resolve.go moves findings to the line their evidence    *)
(* stands on, finding.go drops duplicates, and cmd/rfa prints and exits.   *)
(*                                                                         *)
(* The order of these differs between the two: the parallel review takes   *)
(* its status from what it prints, the standard one from the findings      *)
(* before their lines are resolved.                                        *)
(***************************************************************************)
EXTENDS ParallelReview, SequencesExt

CONSTANTS
  Home(_),     \* the place a finding gets when its evidence is found
  MaxReports,  \* bound on the calls of report_findings
  MaxNamed     \* bound on the findings the filter names, and on those moved

ASSUME ReportAssumption ==
  /\ MaxReports \in Nat /\ MaxNamed \in Nat
  /\ \A list \in Responses : \A i \in DOMAIN list : Home(list[i].place) \in Place

VARIABLES
  how,       \* "parallel" or "standard"
  submitted, \* the payloads of all calls of report_findings
  sink,      \* Sink.Findings: the payload last accepted
  session,   \* the standard session: "running", "ok", or "error" when Run returned one
  named,     \* the ids the filter named
  left,      \* the findings it left
  moved,     \* the findings, by position after the filter, whose line was resolved
  outcome    \* once the command has ended, its exit status and what it printed

reportVars == <<how, submitted, sink, session, named, left, moved, outcome>>

allVars == <<vars, reportVars>>

InitReport ==
  /\ Init
  /\ how \in {"parallel", "standard"}
  /\ submitted = <<>>
  /\ sink = None
  /\ session = "running"
  /\ named = {} /\ left = None /\ moved = {}
  /\ outcome = None

(* The steps of ParallelReview.                                            *)
FanOut == how = "parallel" /\ (Skip \/ Start \/ Finish) /\ UNCHANGED reportVars

FanOutReview(f) == how = "parallel" /\ Review(f) /\ UNCHANGED reportVars

-----------------------------------------------------------------------------
(* A payload of report_findings: its findings, and whether ParseReport can *)
(* make a Report of it.  It cannot when a finding's confidence, its        *)
(* suggested_fix or its pre_existing is not of the type of the field.      *)
Payload == [findings : Responses \cup {<<>>}, parses : BOOLEAN]

(* report_findings.Validate, of what can be wrong with a payload: the      *)
(* severities.  It looks at none of the optional fields of a finding.      *)
Valid(payload) ==
  \A i \in DOMAIN payload.findings : payload.findings[i].severity \in {"high", "medium"}

(* The model calls report_findings, as often as it likes.                  *)
ReportFindings ==
  /\ how = "standard" /\ session = "running" /\ Len(submitted) < MaxReports
  /\ \E payload \in Payload :
       /\ payload.findings = <<>> => payload.parses
       /\ submitted' = Append(submitted, payload)
       /\ sink' = IF Valid(payload) THEN payload ELSE sink
  /\ UNCHANGED <<vars, how, session, named, left, moved, outcome>>

(* Session.Run returns: with an error at any time, without one only after  *)
(* a report (AgentLoop).                                                   *)
SessionEnds ==
  /\ how = "standard" /\ session = "running"
  /\ session' \in {"error"} \cup (IF sink = None THEN {} ELSE {"ok"})
  /\ UNCHANGED <<vars, how, submitted, sink, named, left, moved, outcome>>

(* main has a report, and ParseReport makes no error of it.                *)
Readable == sink # None /\ sink.parses

-----------------------------------------------------------------------------
(* The elements of s at the indices in keep.                               *)
Kept(s, keep) ==
  LET order == Ordered(keep, LAMBDA i, j : i < j)
  IN  [p \in 1 .. Cardinality(keep) |-> s[order[p]]]

(* Mutant of FilterFindings: the ids are taken to count from one.          *)
FilterFindingsFromOne(s, ids) == Kept(s, DOMAIN s \ ids)

(* Finding i has the id i - 1; ids that no finding has are ignored.        *)
FilterFindings(s, ids) == Kept(s, {i \in DOMAIN s : i - 1 \notin ids})

UpTo(n, set) == UNION {kSubset(k, set) : k \in 0 .. n}

ResolveLineNumbers(s, some) ==
  [i \in DOMAIN s |-> IF i \in some THEN [s[i] EXCEPT !.place = Home(@)] ELSE s[i]]

(* Mutant of Filtered: the last of the findings at one place is kept.      *)
FilteredLast(s) ==
  Kept(s, {i \in DOMAIN s : \A j \in (i + 1) .. Len(s) : s[j].place # s[i].place})

(* Report.Filtered: of the findings at one place the first is kept.        *)
Filtered(s) ==
  Kept(s, {i \in DOMAIN s : \A j \in 1 .. (i - 1) : s[j].place # s[i].place})

HasHigh(s) == \E i \in DOMAIN s : s[i].severity = "high"

(* The filter's model names some findings; none if the call fails or its   *)
(* answer does not parse.  A report that main cannot parse is not filtered. *)
Filter ==
  /\ left = None
  /\ \/ how = "parallel" /\ report # None /\ ~report.error
     \/ how = "standard" /\ session # "running" /\ Readable
  /\ LET findings == IF how = "parallel" THEN report.findings ELSE sink.findings
     IN  \E ids \in UpTo(MaxNamed, 0 .. Len(findings)) :
           named' = ids /\ left' = [findings |-> FilterFindings(findings, ids)]
  /\ UNCHANGED <<vars, how, submitted, sink, session, moved, outcome>>

(* Mutant of exitCode: duplicates are not dropped.                         *)
exitCodeOfAll ==
  IF session = "error" THEN 2 ELSE IF Readable /\ HasHigh(left.findings) THEN 1 ELSE 0

(* Without a report, or with one that cannot be parsed, the status is 0.   *)
exitCode ==
  IF session = "error" THEN 2
  ELSE IF Readable /\ HasHigh(Filtered(left.findings)) THEN 1 ELSE 0

(* The parallel review takes its status from what it prints, the standard  *)
(* one from the findings as they were before their lines were resolved.    *)
Status(shown) ==
  IF how = "parallel" THEN IF HasHigh(shown) THEN 1 ELSE 0 ELSE exitCode

(* Which findings have evidence that is found in the diff is left open.    *)
printReport ==
  \E some \in UpTo(MaxNamed, DOMAIN left.findings) :
    LET shown == Filtered(ResolveLineNumbers(left.findings, some))
    IN  /\ moved' = some
        /\ outcome' = [status |-> Status(shown), shown |-> TRUE, printed |-> shown]

Silent(status) ==
  outcome' = [status |-> status, shown |-> FALSE, printed |-> <<>>] /\ UNCHANGED moved

(* The branch of main for --parallel: an outage is fatal.                  *)
PrintParallel ==
  /\ how = "parallel" /\ report # None /\ outcome = None
  /\ IF report.error THEN Silent(1)
     ELSE left # None /\ printReport
  /\ UNCHANGED <<vars, how, submitted, sink, session, named, left>>

(* main after a standard session: printReport says so when there is no     *)
(* report, or none that can be parsed, and shows nothing.                  *)
PrintStandard ==
  /\ how = "standard" /\ session # "running" /\ outcome = None
  /\ IF Readable THEN left # None /\ printReport ELSE Silent(exitCode)
  /\ UNCHANGED <<vars, how, submitted, sink, session, named, left>>

Exited == outcome # None /\ UNCHANGED allVars

NextReport ==
  \/ FanOut \/ (\E f \in Files : FanOutReview(f)) \/ PrintParallel
  \/ ReportFindings \/ SessionEnds \/ PrintStandard
  \/ Filter
  \/ Exited

(* The scheduler runs every goroutine that can run; that a request returns *)
(* and a session ends are assumptions, the latter AgentLoop's result.      *)
ReviewSpec ==
  /\ InitReport /\ [][NextReport]_allVars
  /\ WF_allVars(FanOut) /\ \A f \in Files : WF_allVars(FanOutReview(f))
  /\ WF_allVars(SessionEnds) /\ WF_allVars(Filter \/ PrintParallel \/ PrintStandard)

-----------------------------------------------------------------------------
(* Every variable stays in its type, those of the fan-out included, and    *)
(* no two printed findings share a place.                                  *)
ReportTypeOK ==
  /\ TypeOK
  /\ how \in {"parallel", "standard"} /\ session \in {"running", "ok", "error"}
  /\ submitted \in Seq(Payload)
  /\ sink # None => sink \in Range(submitted) /\ Valid(sink)
  /\ outcome # None =>
       /\ outcome.status \in 0 .. 2
       /\ IsInjective([i \in DOMAIN outcome.printed |-> outcome.printed[i].place])

Printed == outcome # None /\ outcome.shown

(* What was found, before the filter: the sorted findings of the fan-out,  *)
(* or the last report that report_findings did not refuse.                 *)
Accepted == {i \in DOMAIN submitted : Valid(submitted[i])}

Reported == IF how = "parallel" THEN report.findings ELSE submitted[Max(Accepted)].findings

(* The findings the filter left, with the lines they ended up with.        *)
Resolved ==
  LET rest == {i \in DOMAIN Reported : i - 1 \notin named}
      Rest(i) == Cardinality({j \in rest : j <= i})
  IN  {[Reported[i] EXCEPT !.place = IF Rest(i) \in moved THEN Home(@) ELSE @] : i \in rest}

(* Only what the filter named, or another finding at the same place stands *)
(* for, is missing from the printed report, and nothing else is in it.     *)
OnlyNamedRemoved ==
  Printed =>
    /\ Range(outcome.printed) \subseteq Resolved
    /\ \A f \in Resolved : \E g \in Range(outcome.printed) : g.place = f.place

(* In the parallel review a finding is never hidden by a lesser one at the *)
(* place it was moved to.                                                  *)
WorstKept ==
  how = "parallel" /\ Printed =>
    \A f \in Resolved : \E g \in Range(outcome.printed) :
      g.place = f.place /\ Rank(g) <= Rank(f)

(* The gate of a CI job: 0 says that no high finding was printed and that  *)
(* the review ended well, and 1 that one was printed, or an outage.  After *)
(* a parallel review 0 says as well that the report was shown; after a     *)
(* standard one it may be, against main.go:424, that the accepted report   *)
(* could not be parsed, whatever it holds.  Standard reviews some of whose *)
(* findings were moved are left to ExitMatchesReport.                      *)
StatusTrue ==
  outcome # None /\ (how = "standard" => moved = {}) =>
    CASE outcome.status = 0 ->
           /\ ~HasHigh(outcome.printed)
           /\ IF how = "parallel" THEN outcome.shown /\ Succeeded # {}
              ELSE session = "ok" /\ (outcome.shown <=> submitted[Max(Accepted)].parses)
      [] outcome.status = 1 ->
           IF outcome.shown THEN HasHigh(outcome.printed) ELSE how = "parallel" /\ Succeeded = {}
      [] OTHER -> session = "error"

(* "review exits 1 if any high-severity finding exists" (README.md:49): a  *)
(* standard review that ended without error exits with 1 exactly when the  *)
(* report it printed has a high finding.                                   *)
ExitMatchesReport ==
  how = "standard" /\ outcome # None /\ session = "ok" =>
    (outcome.status = 1 <=> HasHigh(outcome.printed))

(* The command always ends, whatever fails: the main loop of the fan-out   *)
(* waits for permits that only its own goroutines return.                  *)
ReviewEnds == <>(outcome # None)
=============================================================================
