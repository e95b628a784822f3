# TLA+ models of rfa

This directory holds the formal models of `rfa`, a coding agent with a Review
Mode (read-only) and a Fix Mode. They are translated from the Go source under
`src/`; every definition that models code is mapped to its lines in
`PROJECT.json`. TLC checks the models on small instances; TLAPS proves
their safety properties, and both refinements, for every value of the constants:
turns of every length, any number of files, findings and records, any budget of
turns and attempts.

    tlc -workers 2 -config X.cfg MCM.tla   # a run; the table below lists them
    tlapm M_proofs.tla                     # the proofs about module M, where
        # M is ToolOrchestrator, AgentLoop, FixWorkspace, TranscriptTrace,
        # ReviewReport (and ParallelReview), ModelStream or DiffContext
    tlapm SequenceFolds.tla                # the lemmas about folds

## The system

| component | code | state | operations | correct when |
|---|---|---|---|---|
| agentic loop | `agent/loop.go` | history, turn, reminders left | `Run`, `stopHook`, `compactState` | every request is well formed; the run ends; success means a report |
| compression | `agent/compression.go` | the history; the summary in its first message | `maybeCompress` | tool pairs and recent messages survive; nothing seen is forgotten |
| orchestrator | `agent/orchestrator.go` | goroutines and results of one turn | `RunTools`, `runParallel`, `runOne` | one result per call, in order; effects as if serial |
| permission engine | `permission/engine.go`, `rules.go` | none (mode and policy are fixed) | `VisibleTools`, `Check`, `resolveAsk`, `ClassifyCommand` | Review Mode changes nothing; nothing destructive runs |
| file tools | `tool/builtin/{read,edit,write}.go` | the tree, `ReadState` | `Call` of each | no text the agent has not seen is overwritten |
| `run_command` | `tool/builtin/bash.go` | processes, command records | `Call` | the record is what happened |
| finalizers, sink | `tool/builtin/report.go`, `tool/tool.go` | findings, fix report, command records, changed files | `Validate`, `Call` | the report agrees with what was done |
| fix report | `fix/report.go` | none | `AllPassed`, `ProvedFix` | a verdict means what it says |
| parallel review | `review/parallel.go` | permits, merged findings, counters | `ParallelReview`, `reviewSingleFile` | nothing lost, order invisible, outage reported |
| review report | `review/{finding,filter,resolve}.go` | none | `Filtered`, `FilterFindings`, `ResolveLineNumbers` | nothing but what a filter names is hidden; status and report agree |
| model clients | `model/*.go` | attempt and backoff; blocks of a stream | `doWithRetry`, `aggregateSSE`, `convertMessages` | a cut stream is not taken for an answer; requests alternate roles |
| transcript, viewer | `transcript/store.go`, `trace/*.go` | the JSONL file, offset and sequence of a stream | `Append`, `ParseSession`, `handleStream`, the page | records arrive once, whole and in order, and the end is told |
| context building | `contextmgr/*.go` | none | `ParseUnifiedDiff`, `SplitDiffByFile`, `prioritizedTruncate` | the diff is read as git wrote it; the budget drops the least important |
| verification suggestions | `verify/verifier.go` | none | `Suggest` | pure, a function of which files exist |
| command line | `cmd/rfa/main.go` | none | flags, printing, `exitCode` | exit codes as the README of `rfa` states |

How they interact. `main` starts a `Session`, which builds the context, the
registry of visible tools and the `Loop`. The loop calls a model client, hands
the `tool_use` blocks of the answer to the orchestrator, and appends the one
message it returns. The orchestrator asks the permission engine, which may ask
the person at the terminal, and calls the tools, some of them in goroutines of
their own. Tools share `ReadState` and `Sink` (each under a mutex) and the
working tree (under nothing). The stop hook and the exit code read the sink.
Events of all goroutines go through one callback, serialized by a mutex, to the
terminal and the transcript, which the viewer reads while it is written. With
`--parallel` the loop is not used: `ParallelReview` makes one request per file.

What is hard: goroutines of one batch among each other and against mutating
calls; prompts against output; people who edit the tree while a tool is between
its check and its write; writes that fail half way; history that is cut while
tool pairs must stay together; a model that never stops or never reports;
findings that arrive in any order; and reports that were right when accepted
and are outdated when the session ends. `PROJECT.json` lists these hazards at
their lines.

## The modules

**`ToolTurn`** is the abstract promise for one assistant turn: a call may begin
only when every earlier call of the turn that it does not commute with has been
answered, and each is answered once. Two calls commute when both are
concurrency-safe.

**`ToolOrchestrator`** is `orchestrator.go`. `next` and `last` are `i` and
`j - 1` of `RunTools`; `pc[k]`, `results[k]`, `events[k]` belong to the `runOne`
of slot `k`. `RunParallel`/`RunSerial`/`Join` are the main goroutine; the other
actions are the steps of `runOne` between which other goroutines can run: the
lookup and validation, the permission check, the prompt, the start event, the
call, its end event, and the deferred `recover`. A tool is its *kind*; the
permission engine is what it may decide for that kind (a reader's or writer's
path may be inside the directory or not, so both are possible). The mode, the
`--yes` flag and the terminal are the variable `session`, chosen at the start.
`saw[k]` is a history variable: the mutating calls that had run when call `k`
began.

**`AgentLoop`** is `loop.go` with `compression.go`. A message is its kind and
its number in the transcript. `StartTurn` is the top of the loop up to the
decision to compress: the nudge is part of it. `Compress`/`SkipCompress` are
the summary request and what becomes of it; `StreamCalls`, `StreamStops` and
`StreamFails` are the answer; `ToolsReturn` is a whole turn of the orchestrator
(which `ToolOrchestrator` shows to be one message of paired results). `Request`
is `compactState`, `Cutoff` the index arithmetic of `maybeCompress`. Whether
the token estimate has reached its threshold is left open: every history that
is long enough may or may not be compressed.

**`FixWorkspace`** is a Fix Mode session at its working tree. `EditCheck` and
`WriteCheck` are the tools up to their last look at the file, `WriteOut` and
`WriteFails` the rest; between the two `Meddle` may change the file. The
orchestrator runs mutating calls one at a time, so `call` holds at most one.
`ReportFix` is `Validate` and `Call` of `report_fix` with the comparisons
against the sink; a refused report changes nothing. Of an accepted one `parses`
says whether the typed `Report` can be made of it, which depends on fields that
`Validate` does not look at. `exitCode` is that of
`main.go` for a run whose loop ended without another error. `foreign`,
`touched`, `torn`, `raced` and `stale` are history variables that say what
really happened, which the program does not know.

**`ParallelReview`** is `parallel.go` with the sort of `finding.go`. Each file's
review is a goroutine: the request, the merge under the mutex, the deferred
release of its permit.

**`ReviewReport`** extends it to the whole command `review`: `FanOut` and
`FanOutReview` are the steps of `ParallelReview`, `ReportFindings` and
`SessionEnds` those of a standard session seen from its sink; then come the
model's filter (`Filter`), the lines (`ResolveLineNumbers`; which findings have
evidence that is found is left open, `DiffContext` has the search), the
duplicates (`Filtered`), the printing and the exit status of either branch of
`main`. A report that was accepted may fail to parse (`Payload`, `Readable`):
then nothing is filtered or printed. A finding is its severity, its place, which
stands for file, line and title together, and the file whose review made it,
which stands for the rest; the place may be in any file, since
`parseFileFindings` keeps the file that the model names.

**`WireRequest`** holds messages, `convertMessages` and `toResponsesInput`: what
is dropped, merged and put in which order. **`ModelStream`** extends it to a
conversation. A call is `doWithRetry` (`Request`, `Retry`, the wait and its
cancellation) and then a stream of events, one by one, which may break off with
an error or just end. The aggregation is a fold over the events that have
arrived, for the Messages and the Responses API. The provider sends the blocks
of an answer one after another, which is an assumption on it: the aggregation
goes by index and is modelled so, but events of two blocks never interleave. The
loop is reduced to what it appends between two requests: results, a nudge, a
reminder. Texts are sequences of pieces with white space told apart, times are
in half seconds.

**`LogFeed`** is the abstract promise to somebody who watches a session: a log
that grows until its end is written, a view that is always a beginning of it,
and the word that the session is done for a view that has all of it.
**`TranscriptTrace`** is the program: the records that a session, its loop and
the tools of a batch append, each writer in its own order; `Append` of the store
in three steps under its mutex (part of the line, all of it but the newline,
all); a disk that fails at any byte and the encoder that keeps the error;
`handleStream` with its offset and `Last-Event-ID`; and the page, which loads a
session that has ended and follows one that has not. A page that was told of the
end and a live one that lost its connection are in one state, `"closed"`, as in
`flow.html`, and `Completed` is the label it shows. The run may die at any step.

**`DiffContext`** is git's diff from its lines to everything that is made of it.
`AddFile`, `AddHunk` and `AddLine` build the changes of the tree, `GitDiff` is
what git writes for them (external), and `Build` is `contextmgr.Build`: the
attempts of `RunGitDiff`, `ParseUnifiedDiff` line by line, the split by file for
the session and the parallel review, the list of files and the excerpt within
the budget. `GetFileDiff` is the tool of that name with its cap and its list of
the paths there are. `ResolveLine` is `ResolveLineNumbers` for one finding. The
properties compare all of it with `files`, the tree's own changes.

`M_proofs` holds the theorems about module `M` (see "The proofs"). A sorted
sequence is described by where each element ends up (`Ordered` in
`ParallelReview`), and a filter is the recursive function of **`Filters`**, so
that both can be reasoned about; **`SequenceFolds`** is what is known of filters,
folds and concatenations in general.

`MC*.tla` with the `.cfg` files are the instances for TLC. Operators marked
"Mutant of" in the modules are plausible bugs; each is used in place of the
definition it names to see that a property notices.

## The runs

| run | states | what it shows |
|---|---|---|
| `turn` | 477 thousand | All properties of a turn, for every message of three calls of any kinds, both modes and the three approval policies: `PairedInOrder`, `SerialOrder`, `TraceMatchesResults`, `NoForbiddenCall`, `PromptUndisturbed`, `TurnCompletes`, and the refinement `ImplementsTurn`. |
| `loop` | 40 thousand | Every request is one the providers accept (`RequestAccepted`) and has the newest results whole (`FreshResultsWhole`); the history is a gapless and long enough suffix of the transcript (`HistoryIsRecent`); giving up and spending are as bounded (`GivesUpFairly`); `RunEnds`. |
| `loop_forgets` | violated | `NothingForgotten`, see findings. |
| `fix_session` | 950 thousand | What the agent remembers of its files is current (`ReadStateCurrent`), foreign text is lost only to a race inside a call (`OnlyRacesClobber`), and a report is true when it is accepted (`AcceptedReportTrue`), with two foreign changes at any time and writes that may fail. |
| `fix_stale` | violated | `ZeroMeansVerified` |
| `review` | 174 thousand | The sorted report shows the order of the answers within ties of several reviews only (`ReproducibleButForTies`), only what the filter named or a duplicate stands for goes missing (`OnlyNamedRemoved`), never the worst at a place (`WorstKept`), the exit status is true of what was printed (`StatusTrue`), and the command ends (`ReviewEnds`), for both kinds of review. |
| `review_exit` | violated | `ExitMatchesReport` |
| `stream` | 398 thousand | Pauses are as the server asked (`WaitsAsAsked`), no text is heard twice (`HeardOnce`), a whole answer is taken as it was meant (`AnswerFaithful`), every request is well formed and complete for either API (`WireFaithful`), and attempts run out (`CallEnds`). |
| `stream_cut` | violated | `AnswerWhole` |
| `trace` | 1014 thousand | What is read of the file and shown on the page implements `LogFeed` (`FollowsLog`); the log keeps the frame of a turn (`TurnFramed`), one that shows its end is complete (`NothingMissing`), a page that follows does not stay live behind it (`WatchEnds`), and only a lost connection makes a page call a running session completed (`CompletedButForLoss`). |
| `diff` | 237 thousand | The diff is parsed as git wrote it (`ParsedAsGitWrote`), every file gets its own up to the cap of a tool (`OwnDiff`), the excerpt keeps to budget and priorities (`ShownFits`), evidence is found where it stands (`ResolvedLinesTrue`). |
| `diff_resolve` | violated | `RightLinesKept` |

Bounds. `N = 3` calls give every shape of batch: parallel before serial, serial
before parallel, two in parallel beside one alone; the proofs cover every `N`.
`AgentLoop` has the constants of the source; nine turns reach one compression
with the nudge and all reminders around it, twelve reach two. In `FixWorkspace`
five calls are a read, an edit, a command, a report and one more of any; two
files tell a listed from an unlisted one, two texts an old from a new one, and
two foreign changes can put the first text back. Files and texts are
interchangeable, so the symmetry is sound; the properties checked with it are
invariants and step properties. In `ParallelReview` the threshold is 2 and there
are two permits for three files, where the code has 5 and 4: what matters is
that files outnumber permits. In `ReviewReport` each file has two places that
move onto one another, so that findings can become duplicates, and two reports
may be given; the answers (`MCResponses`) have places of other files, and an
unknown severity that ties with "high". In `ModelStream` the attempts and the
longest wait are those of the code; two requests with up to two blocks between
them make a history with every kind of message, and pauses of 0, of less and of
more than the limit are asked for. In `TranscriptTrace` one turn with two
parallel calls has every kind of record and every interleaving of two writers;
the session is opened at most twice and one connection is lost; one line on its
way at a time is the finest interleaving of server and page. With one turn the
history is never long enough to be compressed, so the notice of that comes up in
the theorems only. In `DiffContext` three files of all kinds share three lines,
among them blank ones and ones that look like a header; sizes are lines, with a
budget and a cap that one file can exceed and three can, and evidence is cut to
two lines of three, where the code keeps ten.

Fairness. `TurnCompletes`, `RunEnds` and `ReviewEnds` assume weak fairness of
each goroutine: Go's scheduler runs what can run, and no action of the code is
ever disabled again by another goroutine while it waits (a permit is taken only
by the loop that waits for it). Three things are assumptions on the world and
not on the code: a tool returns (files are finite and `run_command` has a
timeout of at most 600 s and kills its process group), a prompt is answered
(end of input is a no), and the provider ends its stream. For the last one the
code has no limit once the response has begun (`model/client.go:97-103`), so
`ModelStream` assumes only that a request which has not been answered goes on
(the transport bounds the connection and the wait for headers), and `CallEnds`
says no more than that a stream begins or the call ends. `TranscriptTrace`
assumes nothing of the run, whose process may be killed, and of the disk and the
watcher neither: only the server's polling and the browser's reading and
reconnecting are fair. `CHECK_DEADLOCK FALSE` in `trace` is for the state in
which the run is over and nobody watches.

## The findings

- `loop_forgets`: the second compression of a run drops the first summary. The
  old summary is stripped from the first message before the new one is added,
  and was not part of what the new one was made from.
- `fix_stale`: the verification that exit code 0 stands for may have run before
  the last edit, even before every edit.
- `review_exit`: in a standard review the status is computed from the findings
  before their lines are resolved, the printed report from those after. A high
  finding that was dropped as a duplicate for the status can be printed.
- `stream_cut`: a stream that ends without its last event is an answer, with the
  input of an unfinished call made empty. `AnswerFaithful` shows what holds: a
  whole stream is taken faithfully, and the Responses client takes no part of a
  call.
- `diff_resolve`: a finding with the right line is moved when the same text
  stands higher up in the diff.

Disagreements between the code and its texts that have no run of their own; the
properties that pass are stated so that they are true of the code:

- Ties. `parseFileFindings` keeps the file that the model names and any severity
  that is not empty (`parallel.go:170-190`), and an unknown severity ranks as
  high. Findings of two reviews can therefore tie on rank, file, line and title
  and differ in the rest, and then stand in the order of arrival; behind the
  duplicate filter, which keeps the first, the exit status can depend on it.
  `finding.go:76-78` calls the order "fully reproducible" and the output "stable
  run-to-run". `ReproducibleButForTies` is what holds.
- Reports that do not parse. `report_findings` accepts a `confidence`,
  `suggested_fix` or `pre_existing` of a wrong type (`report.go:56-105`),
  `report_fix` a `baseline_passed` or, when nothing failed, a `residual_risk`
  (`report.go:157-200`). `ParseReport` then fails, nothing is shown but a note
  (`main.go:392-396`, `407-411`), and the status is 0 (`main.go:433`, `439`,
  `444`) although the report has a high finding or a failed verification;
  `main.go:424-425` and `README.md:49` say 1. `StatusTrue` says of 0 that no high
  finding was *printed*, and that the report was not shown only when it did not
  parse. `FixWorkspace` has the fix report's case (`parses` in `exitCode`).
- Completed. A live page that loses its connection closes its source, so that it
  is not connected again, and is labelled completed though the session runs
  (`flow.html:303-310`, `392`). The reconnection with `Last-Event-ID` that
  `server.go:140-142` speaks of takes place only between the last record and
  `done`. `CompletedButForLoss` says that there is no other way to a wrong
  label, and `FollowsLog` speaks of the server's word "done".

Exceptions that the properties name, each a limit of the code:

- A save between the comparison and the write of `edit_file` or `write_file` is
  lost (`raced` in `OnlyRacesClobber`), and a file torn by a failed write need
  not be reported (`torn` in `AcceptedReportTrue`).
- `WorstKept` is for the parallel review: a standard one is not sorted before
  duplicates go.
- A file whose review failed is listed as reviewed as long as another succeeded;
  `StatusTrue` asks for one success only.
- `Lookalike`: a removed line that begins with two dashes and a space, or an
  added one with two pluses, is read as a header (`contextmgr/diff.go:87-94`). It
  misleads the paths and hunks of its own file and of no other, and neither
  diff given out per file. A deleted file is given out by the parallel review
  only, and a diff beyond the cap of a tool by `get_file_diff` only in part.
  What git says of its failure stands in the prompt as the diff when no ref was
  given.
- After a failed append the session stays "running" and its page waits: that is
  the other side of `NothingMissing`.

## The proofs

`ToolOrchestrator_proofs` proves, for every `N \in Nat` (the only assumption),
both modes and all policies. (Each of the sections below names all that its
theorems assume. Every assumption is also evaluated by TLC.)

| theorem | states |
|---|---|
| `TypeCorrect` | `Spec => []TypeOK` |
| `Pairing` | `Spec => []PairedInOrder` |
| `Serializable` | `Spec => []SerialOrder` |
| `Exclusion` | `Spec => []ExclusiveCalls` |
| `ReadOnlyReview` | `Spec => []NoForbiddenCall` |
| `PromptsUndisturbed` | `Spec => PromptUndisturbed` |
| `TraceFaithful` | `Spec => []TraceMatchesResults` |
| `Refinement` | `Spec => ImplementsTurn` |

The argument. None of the properties is inductive by itself: nothing in
`SerialOrder` says which calls can still start. `IndInv` adds the window of the
main goroutine (`WindowInv`: slots before `next` are done, those after `last`
untouched), `BatchInv` (a window of more than one slot holds safe calls only),
`ResultInv` and `EventInv` (what a slot's `pc` says of its result and events),
and `AskInv` (only an unsafe call is put to the user, so that it is alone). The
lemmas follow the code: one for the start of a batch, one for its join, one
each for a call that returns, advances or starts. `StartInd` carries the weight:
a call that starts lies in the window, so every unsafe call that has run lies
before it, and every one before it has run or never will. `ReadOnlyReview` adds
`PermitInv`. `TraceFaithful` adds that the events of a done slot show its
outcome, and `ReturnShown` that this is so whichever way `runOne` returns.
`Refinement` maps `safe`, `active` and `answered` to the safe, the
in-flight and the done slots: launching a batch is one `Begin`, every return
one `Answer`, all else stutters.

`AgentLoop_proofs` proves, from `LoopAssumption` (positive turns, nudge
distance and compression thresholds, and at least two messages sent in full;
the code's are 40, 5, 8, 4 and 6):

| theorem | states |
|---|---|
| `LoopTypeCorrect` | `Spec => []TypeOK` |
| `LoopHistoryIsRecent` | `Spec => []HistoryIsRecent` |
| `LoopRequestAccepted` | `Spec => []RequestAccepted` |
| `LoopFreshResultsWhole` | `Spec => []FreshResultsWhole` |
| `LoopGivesUpFairly` | `Spec => []GivesUpFairly` |

The argument. `RequestAccepted` speaks of the moment of sending only, so
`IndInv` says of every state that the history is linked (calls and results
stand together, but for calls at the very end), recent with respect to the
transcript and whole, and with `PlaceInv` what its last message is and that a
turn is left. Two lemmas about sequences carry it: `HistoryExtends`, a message
that fits its predecessor may be appended to history and transcript, and
`HistoryCut`, what `maybeCompress` leaves is again such a history. The second
is where the cut at an assistant message matters: were the first kept message
`results`, its calls would be gone. Each action is then one use of either, and
`LoopFreshResultsWhole` needs that `keepRecent` is at least 2: a nudge may
stand behind the results.

`LoopGivesUpFairly` needs a second invariant, `FairInv`: how many nudges the
transcript has, given the turn (`NudgeInv`), how many reminders and requests were
spent (`SpendingInv`), and what the loop knew when it gave up (`OutcomeInv`).
The lemma `TallyAppend` says what an append does to a count.

`FixWorkspace_proofs` proves, for any files, texts and commands, any number of
calls and of foreign changes, with and without a failing disk:

| theorem | states |
|---|---|
| `FixTypeCorrect` | `Spec => []TypeOK` |
| `FixReadStateCurrent` | `Spec => []ReadStateCurrent` |
| `FixOnlyRacesClobber` | `Spec => OnlyRacesClobber` |
| `FixAcceptedReportTrue` | `Spec => AcceptedReportTrue` |

The argument. `WorkspaceAssumption` says only that the bounds are numbers and
that the special texts differ from the files' own. `ReadStateCurrent` is
inductive with the type, but the two step properties do not follow from it. What
a tool found out before its write is still true when it writes, unless somebody
interfered (`CallInv`); the sink has every file whose last write did not fail
(`SinkInv`); and a command that ran has a latest run (`LastRunInv`), which is
what `report_fix` looks up (`LastRunIsLast`). `AcceptedReportTrue` then compares
two ways of reading the records: the one lookup of the code with "some run, and
none after it".

`TranscriptTrace_proofs` proves, for any number of turns, calls, lines on the
wire, lost connections and clicks (`TraceAssumption`: the bounds are numbers),
wherever the disk fails and whenever the process dies:

| theorem | states |
|---|---|
| `TraceTypeCorrect` | `FairSpec => []TypeOK` |
| `TraceNothingMissing` | `FairSpec => []NothingMissing` |
| `TraceTurnFramed` | `FairSpec => []TurnFramed` |
| `TraceFollowsLog` | `FairSpec => FollowsLog` |
| `TraceCompletedButForLoss` | `FairSpec => CompletedButForLoss` |

The argument. Fairness is not used. The invariant has a half for each side of
the file. `FileInv`: one writer at a time has the lock, and the unfinished line
is its next record (`LockInv`); tools append in their batch only, and the end
of the session is the last the loop has to say (`QueueInv`), so that nothing
follows it in the log (`EndInv`); and until the disk fails the log has as many
records as were given to `Append` (`CountInv`), which is why a log with an end
lacks none. `ViewInv`: the page shows a beginning of the log (`PageInv`), and
what is on the wire follows what is shown (`StreamInv`), with either the offset
or `Last-Event-ID` saying where a new connection begins. `TraceFollowsLog` maps
`log` to the records whose line is complete, with or without its newline,
`shown` to the entries of the page, and `told` to the word "done" being next on
the wire; the completion of a line is a `Write`, what the page loads or receives
a `ShowMore`, a click a `ShowAnew`, all else stutters. For
`TraceCompletedButForLoss`, a page is closed by that word, by the end record, or
by the list of a session that is over, and each of them has the end from the
file (`NextOnWire`, `EndIsLast`); what remains is `onerror`. For
`TraceTurnFramed` a third part, `FrameInv`, follows the records of a turn
through the queues: the assistant's record before its batch, a tool's start
before its end, the results after all of them.

`ReviewReport_proofs` proves, first about `ParallelReview`, for any number of
files and permits and whatever the models answer (`ReviewAssumption`):

| theorem | states |
|---|---|
| `ReviewTypeCorrect` | `Spec => []TypeOK` |
| `ReportReproducible` | `Spec => []ReproducibleButForTies` |

The argument. `TypeOK` bounds the permits, so `CountInv` counts the goroutines
that have one, those begun and those that failed; `LoopInv` and `ReplyInv` say
which these are. For the order, `MergedInv` says that what is merged *arranges*
the findings of the merged files: each at one position, those of one file in
their own order. This is so after every merge whatever came first
(`ArrangesMore`), and of the order by files (`FileOrderArranges`). The rest is
about sorting: in a finite total order the number of smaller elements is a rank,
one element for each (`Ranking`), which is where a stable sort puts it
(`Sorting`). Two arrangements of the same findings match one to one, and neither
is sorted below the other at any position (`SortedNoLess`), so rank and place
agree there. A finding that no other review ties with stands to all others as it
does in the other arrangement (`UntiedStandsAlike`) and so is sorted to the same
position (`SortedInPlace`, `ArrangedAlike`). Of findings that tie nothing more is
true: they do stand in the order of arrival.

Then, about `ReviewReport`, for both kinds of review, any answers and any number
of reports (`ReportAssumption`: the place a line is resolved to is a
place):

| theorem | states |
|---|---|
| `ReportTypeCorrect` | `ReviewSpec => []ReportTypeOK` |
| `ReportComplete` | `ReviewSpec => []OnlyNamedRemoved` |
| `WorstIsPrinted` | `ReviewSpec => []WorstKept` |
| `ExitStatusTrue` | `ReviewSpec => []StatusTrue` |

The argument. Every step is one of the fan-out, whose invariant is the one above,
or one behind it. `SinkInv` says that the sink has the
last report that was accepted, `FilterInv` that what is left is what the filter
did not name, `OutcomeInv` that what was printed and the status were made of
that. The lemmas are about the three passes over findings: `Keeping`, a filter
keeps those it keeps in their order; `Filtering`, of the findings at one place
the first stays; `Settling`, a finding is moved or not and stays itself.
`WorstIsPrinted` joins them to the sort (`SortedByRank`): the first at a place
is the worst. `ExitStatusTrue` needs `ErrorIsOutage`: an error of the parallel
review means that no request succeeded, a count against a set.

`ModelStream_proofs` proves, for any number of attempts, any longest pause and
anything a server asks for (`StreamAssumption`):

| theorem | states |
|---|---|
| `StreamTypeOK` | `FairSpec => []TypeOK` |
| `StreamWaitsAsAsked` | `FairSpec => WaitsAsAsked` |
| `StreamHeardOnce` | `FairSpec => []HeardOnce` |
| `StreamAnswerFaithful` | `FairSpec => []AnswerFaithful` |
| `StreamWireFaithful` | `FairSpec => []WireFaithful` |

The argument. `WaitsAsAsked` compares a pause with the one before it, so
`BackoffInv` says what the client knows when: while it sends, the pause after
the next failure; while it waits, twice the last pause or what the server asked
for, under the limit. `HeardInv` says that nothing was heard as long as a
request may be made again, and that what was heard is the deltas that have
arrived, each once (`MoreHeard`: one more event adds one more text or none).

The other two are about what folds compute: a client's state after the events of
an answer, and a request made of a history. `SequenceFolds` takes the induction
over sequences once (`SeqInduct`, from `WFMin`: a set of sequences that has the
empty one, and with a sequence each that is longer by one, has all) and makes
equations of it: a fold over `u \o v` goes on from the fold over `u` (`FoldCat`),
a filter and a concatenation of parts distribute over `\o` (`OnlyCat`,
`FlattenCat`), `Count` adds up. The operator of a fold is the parameter `Op` of
that module, which is instantiated once for each fold of the model.

`AnswerFaithful` then is a claim on the fold of the event stream part by part.
A stream that came to its end is the parts of all blocks; each part changes what
the client has of its own block only, and leaves it with the block's text and
its end; so after all parts the client has all blocks, and puts them together
in the order of their indices, as `Meant` does. For a stream that broke off
there is an invariant of the fold over any events, in any order: what the
Responses client holds as a finished call is the call the provider made.

`WireFaithful` is about every request of a conversation. `HistOK` is the
invariant of a history between two rounds: it begins with the prompt, and every
answer is followed by the results of exactly its calls, under ids that are new
(`Below`). A round adds an answer, its results and perhaps a nudge, or a
reminder, and the two conversions are followed through a round: `WireRound`
keeps the request of the Messages API alternating, with each call answered in
the next message (`WireOK`), though messages are merged and empty ones
dropped; `ItemsRound` keeps each item of the Responses API paired with its one
output behind it (`ItemsOK`). That nothing is lost is `HistRound`: the blocks
of the wire, of the items and of the history are the same (`SameCounts`).

`DiffContext_proofs` proves, for any names, texts, priorities and sizes
(`DiffAssumption`: no name is empty, `/dev/null`, twice there, or a text, and the
budget and the caps are positive):

| theorem | states |
|---|---|
| `DiffTypeOK` | `Spec => []TypeOK` |
| `DiffParsedAsGitWrote` | `Spec => []ParsedAsGitWrote` |
| `DiffOwnDiff` | `Spec => []OwnDiff` |
| `DiffShownFits` | `Spec => []ShownFits` |
| `DiffResolvedLinesTrue` | `Spec => []ResolvedLinesTrue` |

The argument. `IInv` says that the files are what git could write (`FilesOK`)
and that the context is what `Build` makes of their diff or of git's complaint
(`BuiltOK`). The rest is what the functions of `Build` compute, again with
`SequenceFolds`. The parser's state after a line, the lines of a hunk, the hunks
of a file, and a file is computed from the state before (`ParseBody`,
`ParseHunks`, `ParseFile`), so that `ParseAll` gives what it makes of any number
of files, those with header lookalikes included: such a line is lost from its
hunk and renames its file, and the next `diff --git` ends the damage. The
splitter takes the diff apart where git put it together (`SplitChunks`), and a
chunk's first `+++` line has its path (`PathOfText`, `PathOfNone`). For
`ShownFits`, a sequence sorted by priority is the chunks ahead of a file's, its
own, and those behind (`Place`); what the greedy choice kept of those ahead is
what it had when it came to the file's own (`NotKept`).

For `ResolvedLinesTrue` the search, which looks for a run of lines hunk by hunk,
is compared with the numbers that the lines of the whole file have. Git leaves
an unchanged line between two hunks (`HunksSpaced`), so a run of consecutive
numbers does not leave the hunk it begins in (`RunStays`), and what the first
hunk that has a run finds first is the first place of all (`FirstRunIs`); the
line at a place among those of one side is found under its number (`KeptPlaces`,
`NumberedIs`). The property has evidence of up to three lines, which TLC
enumerates; the lemma it follows from, `LineResolved`, has any. `OwnDiff`
follows from `SplitChunks`: what the splitter files under a path is what git
wrote, and `GetFileDiff` gives it out or its beginning.

Each passing run also checks the type invariant of its module, but for `loop`,
whose `TypeOK` is proved only.

Only model-checked. All liveness (`TurnCompletes`, `RunEnds`, `ReviewEnds`,
`CallEnds`, `WatchEnds`), because fairness and `ENABLED` are outside the prover.

## Not modelled

Prompts, Markdown, terminal output, flags, the search tools, rule files, the
verification suggestions: text and plain I/O that no other part depends on. The
classifier of command lines: a pure function of their text; `ToolOrchestrator`
takes every class as possible for every command. The token estimate: left open.
The process group and the output cap of `run_command`: inside `os/exec`. The
list of sessions and the sums of the viewer, and a page whose answer to an
earlier click arrives late: `TranscriptTrace` has one session. In `write_file`,
a file that disappears or becomes unreadable between its `Stat` and its
`ReadFile`. In `FixWorkspace`, two runs of one command in the same parallel
batch. In `ModelStream`, the reason an answer stopped for (the clients do not
look at it), headers, schemas and the mock.

## Plan

Done: all components that keep state or that others rely on, the proofs of all
their safety properties, and both refinements. Next: the loop, the orchestrator
and the sink composed, with two runs of one command in a batch.
