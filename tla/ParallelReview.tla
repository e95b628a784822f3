---------------------------- MODULE ParallelReview ----------------------------
(***************************************************************************)
(* The fan-out of internal/review/parallel.go: one model request per       *)
(* changed file, at most Concurrency of them at a time, merged under a     *)
(* mutex and sorted into one report.  ReviewReport adds what cmd/rfa makes *)
(* of it.                                                                  *)
(*                                                                         *)
(* File i is the i-th file of the diff.  A finding is its severity, its    *)
(* place (file, line and title in one), and the file whose review made it, *)
(* which stands for the rest of its text; the places are ordered as        *)
(* sortFindingsStable orders them.  A review may name places of any file:  *)
(* parseFileFindings keeps the file that the model names.                  *)
(***************************************************************************)
EXTENDS Naturals, Sequences, FiniteSets

CONSTANTS
  NFiles,       \* the files of the diff
  parallelFileThreshold, \* fewer reviewable files are not fanned out
  Concurrency,  \* permits of the semaphore
  Responses     \* the lists of findings a model may answer with

Files == 1 .. NFiles

(* parseFileFindings checks no severity: anything but an empty one passes. *)
Severity == {"high", "medium", "critical"}

Place == Nat

ASSUME ReviewAssumption ==
  /\ NFiles \in Nat /\ parallelFileThreshold \in Nat \ {0} /\ Concurrency \in Nat \ {0}
  /\ Responses \subseteq Seq([severity : Severity, place : Place])

Finding == [severity : Severity, place : Place, by : Files]

VARIABLES
  next,      \* the file the main loop is at
  reviewable, \* the files that are not binary, have a path and text in diffByFile
  pc,        \* where the review of each file stands
  response,  \* what the model answered for it
  permits,   \* messages in the channel sem
  merged,    \* allFindings
  attempted, \* files whose review was started
  failed,    \* files whose review failed
  report     \* the findings of the report, once ParallelReview has returned

vars == <<next, reviewable, pc, response, permits, merged, attempted, failed, report>>

None == [none |-> TRUE]   \* no answer, no report, yet

Reply == [ok : BOOLEAN, findings : Seq(Finding)]

Failure == [ok |-> FALSE, findings |-> <<>>]

-----------------------------------------------------------------------------
(* sort.SliceStable by severity rank, then place; the rank of a severity   *)
(* that severityRank does not know is 0, that of "high".                   *)
Rank(f) == IF f.severity = "medium" THEN 1 ELSE 0

(* Mutant of Less: the place is not looked at.                             *)
LessRankOnly(f, g) == Rank(f) < Rank(g)

Less(f, g) == Rank(f) < Rank(g) \/ (Rank(f) = Rank(g) /\ f.place < g.place)

(* The elements of a finite set, each behind those that come Before it.    *)
Ordered(S, Before(_, _)) ==
  [p \in 1 .. Cardinality(S) |-> CHOOSE x \in S : Cardinality({y \in S : Before(y, x)}) = p - 1]

(* Stable: of two that are not Less than each other the first comes first. *)
SortFindingsStable(s) ==
  LET Before(j, i) == Less(s[j], s[i]) \/ (j < i /\ ~Less(s[i], s[j]))
      order == Ordered(DOMAIN s, Before)
  IN  [p \in DOMAIN s |-> s[order[p]]]

-----------------------------------------------------------------------------
(* What parseFileFindings makes of a model's answer for file f.            *)
Parsed(f, list) ==
  [i \in DOMAIN list |-> [severity |-> list[i].severity, place |-> list[i].place, by |-> f]]

(* cmd/rfa calls ParallelReview only past ShouldParallelReview.            *)
Init ==
  /\ next = 1
  /\ reviewable \in {s \in SUBSET Files : Cardinality(s) >= parallelFileThreshold}
  /\ pc = [f \in Files |-> "idle"]
  /\ response = [f \in Files |-> None]
  /\ permits = 0
  /\ merged = <<>>
  /\ attempted = 0
  /\ failed = 0
  /\ report = None

(* The loop passes over a file that it cannot review.                      *)
Skip ==
  /\ next <= NFiles
  /\ next \notin reviewable
  /\ next' = next + 1
  /\ UNCHANGED <<reviewable, pc, response, permits, merged, attempted, failed, report>>

(* Mutant of Start: no permit is waited for.                               *)
StartUnbounded ==
  /\ next <= NFiles
  /\ next \in reviewable
  /\ permits' = permits + 1
  /\ attempted' = attempted + 1
  /\ pc' = [pc EXCEPT ![next] = "calling"]
  /\ next' = next + 1
  /\ UNCHANGED <<reviewable, response, merged, failed, report>>

(* The loop counts the file, waits for a permit and starts its goroutine.  *)
Start ==
  /\ next <= NFiles
  /\ next \in reviewable
  /\ permits < Concurrency
  /\ permits' = permits + 1
  /\ attempted' = attempted + 1
  /\ pc' = [pc EXCEPT ![next] = "calling"]
  /\ next' = next + 1
  /\ UNCHANGED <<reviewable, response, merged, failed, report>>

(* reviewSingleFile returns: the request failed, or was answered.  An      *)
(* answer that does not parse yields no findings.                          *)
CallReturns(f) ==
  /\ pc[f] = "calling"
  /\ \/ response' = [response EXCEPT ![f] = Failure]
     \/ \E list \in Responses \cup {<<>>} :
          response' = [response EXCEPT ![f] = [ok |-> TRUE, findings |-> Parsed(f, list)]]
  /\ pc' = [pc EXCEPT ![f] = "merging"]
  /\ UNCHANGED <<next, reviewable, permits, merged, attempted, failed, report>>

(* Mutant of Merge: the findings replace those merged before.              *)
MergeOverwrites(f) ==
  /\ pc[f] = "merging"
  /\ IF response[f].ok
     THEN merged' = response[f].findings /\ UNCHANGED failed
     ELSE failed' = failed + 1 /\ UNCHANGED merged
  /\ pc' = [pc EXCEPT ![f] = "leaving"]
  /\ UNCHANGED <<next, reviewable, response, permits, attempted, report>>

(* Mutant of Merge: a failed request is made again, as often as it fails.  *)
MergeRetries(f) ==
  /\ pc[f] = "merging"
  /\ IF response[f].ok
     THEN merged' = merged \o response[f].findings /\ pc' = [pc EXCEPT ![f] = "leaving"]
     ELSE pc' = [pc EXCEPT ![f] = "calling"] /\ UNCHANGED merged
  /\ UNCHANGED <<next, reviewable, response, permits, attempted, failed, report>>

(* Under mu.                                                               *)
Merge(f) ==
  /\ pc[f] = "merging"
  /\ IF response[f].ok
     THEN merged' = merged \o response[f].findings /\ UNCHANGED failed
     ELSE failed' = failed + 1 /\ UNCHANGED merged
  /\ pc' = [pc EXCEPT ![f] = "leaving"]
  /\ UNCHANGED <<next, reviewable, response, permits, attempted, report>>

(* The deferred calls: give the permit back, then wg.Done.                 *)
Release(f) ==
  /\ pc[f] = "leaving"
  /\ permits' = permits - 1
  /\ pc' = [pc EXCEPT ![f] = "done"]
  /\ UNCHANGED <<next, reviewable, response, merged, attempted, failed, report>>

AllFailed == attempted > 0 /\ failed = attempted

(* wg.Wait returns and the report is assembled; its reviewed scope is the  *)
(* reviewable files, whatever became of their review.                      *)
Finish ==
  /\ next = NFiles + 1
  /\ report = None
  /\ \A f \in Files : pc[f] \in {"idle", "done"}
  /\ report' = [findings |-> SortFindingsStable(merged), reviewedScope |-> reviewable,
                error |-> AllFailed]
  /\ UNCHANGED <<next, reviewable, pc, response, permits, merged, attempted, failed>>

Terminated == report # None /\ UNCHANGED vars

Review(f) == CallReturns(f) \/ Merge(f) \/ Release(f)

Next ==
  \/ Skip \/ Start \/ Finish
  \/ \E f \in Files : Review(f)
  \/ Terminated

Spec == Init /\ [][Next]_vars

-----------------------------------------------------------------------------
(* Every variable stays in its type.                                       *)
TypeOK ==
  /\ next \in 1 .. (NFiles + 1)
  /\ reviewable \subseteq Files
  /\ pc \in [Files -> {"idle", "calling", "merging", "leaving", "done"}]
  /\ response \in [Files -> Reply \cup {None}]
  /\ permits \in 0 .. Concurrency
  /\ permits = Cardinality({f \in Files : pc[f] \notin {"idle", "done"}})
  /\ merged \in Seq(Finding)
  /\ attempted \in 0 .. NFiles
  /\ failed \in 0 .. attempted
  /\ report \in [findings : Seq(Finding), reviewedScope : SUBSET Files, error : BOOLEAN] \cup {None}

Succeeded == {f \in Files : response[f] # None /\ response[f].ok}

(* All findings as the reviews would give them one after another: finding  *)
(* <<f, k>> is the k-th of file f.                                         *)
InFileOrder ==
  LET found == UNION {{f} \X DOMAIN response[f].findings : f \in Succeeded}
      Before(x, y) == x[1] < y[1] \/ (x[1] = y[1] /\ x[2] < y[2])
      order == Ordered(found, Before)
  IN  [p \in 1 .. Cardinality(found) |-> response[order[p][1]].findings[order[p][2]]]

(* Finding p of s has the rank and the place of one that another review    *)
(* made: of two such findings, Less says nothing.                          *)
Tied(s, p) ==
  \E q \in DOMAIN s :
    s[q].by # s[p].by /\ Rank(s[q]) = Rank(s[p]) /\ s[q].place = s[p].place

(* What is true of "The title tiebreak makes the order fully reproducible" *)
(* (finding.go:76-77): the report depends on what the model answered for   *)
(* each file, not on the order in which the answers came, in the findings  *)
(* it has, in the rank and place at each position, and in all of a finding *)
(* that no other review ties with.  Against that text, findings of several *)
(* reviews that tie do stand in the order of arrival.                      *)
ReproducibleButForTies ==
  report # None =>
    LET settled == SortFindingsStable(InFileOrder)
    IN  /\ Len(report.findings) = Len(settled)
        /\ {report.findings[p] : p \in DOMAIN report.findings} =
             {settled[p] : p \in DOMAIN settled}
        /\ \A p \in DOMAIN settled :
             /\ Rank(report.findings[p]) = Rank(settled[p])
             /\ report.findings[p].place = settled[p].place
             /\ report.findings[p] = settled[p] \/ Tied(settled, p)
=============================================================================
