----------------------------- MODULE FixWorkspace -----------------------------
(***************************************************************************)
(* A Fix Mode session at its working tree: read_file, edit_file,           *)
(* write_file, run_command and report_fix of internal/tool/builtin over    *)
(* the ReadState and Sink of internal/tool, and the end of the session     *)
(* where cmd/rfa turns the report into an exit code.                       *)
(*                                                                         *)
(* The orchestrator runs mutating tools one at a time, so one tool call is *)
(* in progress at once; the person whose tree it is edits files whenever   *)
(* they like.  A file's text is one of a few contents; "torn" is what a    *)
(* write leaves that failed half way.                                      *)
(***************************************************************************)
EXTENDS Naturals, Sequences, FiniteSets

CONSTANTS
  File,       \* files of the working tree
  Content,    \* texts a file may hold
  Command,    \* verification commands
  Absent,     \* no such file
  None,       \* nothing recorded
  DiskFails,  \* may writing a file fail half way?
  Meddlers,   \* times a file is changed by something other than a write tool
  AgentCalls  \* bound: tool calls the model makes

ASSUME WorkspaceAssumption ==
  /\ Absent \notin Content /\ None \notin Content \cup {Absent, "torn"}
  /\ "torn" \notin Content \cup {Absent}
  /\ DiskFails \in BOOLEAN
  /\ Meddlers \in Nat /\ AgentCalls \in Nat

Text == Content \cup {"torn"}

Claim == [passed : BOOLEAN]

Listed(r) == {c \in Command : r.verification[c] # None}

(* The payload of report_fix: the files it lists, the verdict it claims    *)
(* for each command it lists, whether it has a text for a residual risk,   *)
(* and whether ParseReport can make a Report of it.  It cannot when the    *)
(* baseline_passed of a command is no boolean, or a residual_risk that was *)
(* not asked for is no text.                                               *)
Report ==
  {r \in [files : SUBSET File, verification : [Command -> Claim \cup {None}],
          residualRisk : BOOLEAN, parses : BOOLEAN] :
     r.parses \/ Listed(r) # {} \/ ~r.residualRisk}

VARIABLES
  disk,          \* the working tree
  readState,     \* ReadState: the content last read or written by the agent
  changedFiles,  \* Sink.changedFiles
  commands,      \* Sink.Commands
  fixR,          \* Sink.FixR
  call,          \* the tool call between its checks and its write
  calls,         \* tool calls made
  foreign,       \* history: files changed behind the agent since it last looked
  touched,       \* history: files whose text the write tools have changed
  torn,          \* history: of these, the files whose last write failed half way
  raced,         \* history: the call's file has changed since its checks
  stale,         \* history: commands not run again since the last such change
  meddled,       \* changes made by others
  ended          \* the model has stopped and the loop returned

vars == <<disk, readState, changedFiles, commands, fixR, call, calls,
          foreign, touched, torn, raced, stale, meddled, ended>>

NoCall == [tool |-> None]

Ready == call = NoCall /\ calls < AgentCalls /\ ~ended

-----------------------------------------------------------------------------
Init ==
  /\ disk \in [File -> Content \cup {Absent}]
  /\ readState = [f \in File |-> None]
  /\ changedFiles = {}
  /\ commands = <<>>
  /\ fixR = None
  /\ call = NoCall
  /\ calls = 0
  /\ foreign = {}
  /\ touched = {}
  /\ torn = {}
  /\ raced = FALSE
  /\ stale = {}
  /\ meddled = 0
  /\ ended = FALSE

(* Mutant of ReadFile: an absent file is recorded as read.                 *)
ReadFileAbsent(f) ==
  /\ Ready
  /\ readState' = [readState EXCEPT ![f] = disk[f]]
  /\ foreign' = foreign \ {f}
  /\ calls' = calls + 1
  /\ UNCHANGED <<disk, changedFiles, commands, fixR, call, touched, torn, raced,
                 stale, meddled, ended>>

(* read_file: an absent or unreadable file records nothing.                *)
ReadFile(f) ==
  /\ Ready
  /\ disk[f] # Absent
  /\ readState' = [readState EXCEPT ![f] = disk[f]]
  /\ foreign' = foreign \ {f}
  /\ calls' = calls + 1
  /\ UNCHANGED <<disk, changedFiles, commands, fixR, call, touched, torn, raced,
                 stale, meddled, ended>>

(* edit_file up to its checks: the file was read, and holds the text the   *)
(* agent last saw; the edit computes a different text from it.             *)
EditCheck(f, text) ==
  /\ Ready
  /\ disk[f] # Absent
  /\ readState[f] = disk[f]
  /\ text # disk[f]
  /\ call' = [tool |-> "edit", file |-> f, text |-> text]
  /\ calls' = calls + 1
  /\ UNCHANGED <<disk, readState, changedFiles, commands, fixR, foreign,
                 touched, torn, raced, stale, meddled, ended>>

(* Mutant of WriteCheck: having read the file once is enough.              *)
WriteCheckReadOnce(f, text) ==
  /\ Ready
  /\ disk[f] # Absent => readState[f] # None
  /\ call' = [tool |-> "write", file |-> f, text |-> text]
  /\ calls' = calls + 1
  /\ UNCHANGED <<disk, readState, changedFiles, commands, fixR, foreign,
                 touched, torn, raced, stale, meddled, ended>>

(* write_file up to its checks: a file that is not there needs no read.    *)
WriteCheck(f, text) ==
  /\ Ready
  /\ disk[f] # Absent => readState[f] = disk[f]
  /\ call' = [tool |-> "write", file |-> f, text |-> text]
  /\ calls' = calls + 1
  /\ UNCHANGED <<disk, readState, changedFiles, commands, fixR, foreign,
                 touched, torn, raced, stale, meddled, ended>>

(* Mutant of WriteOut: what was written is not recorded as seen.           *)
WriteOutUnseen ==
  /\ call # NoCall
  /\ disk' = [disk EXCEPT ![call.file] = call.text]
  /\ changedFiles' = changedFiles \cup {call.file}
  /\ touched' = touched \cup {call.file}
  /\ torn' = torn \ {call.file}
  /\ foreign' = foreign \ {call.file}
  /\ stale' = Command
  /\ call' = NoCall
  /\ raced' = FALSE
  /\ UNCHANGED <<readState, commands, fixR, calls, meddled, ended>>

(* The rest of both tools: os.WriteFile, ReadState.Record and              *)
(* RecordChangedFile.  Neither looks at the file again.                    *)
WriteOut ==
  /\ call # NoCall
  /\ disk' = [disk EXCEPT ![call.file] = call.text]
  /\ readState' = [readState EXCEPT ![call.file] = call.text]
  /\ changedFiles' = changedFiles \cup {call.file}
  /\ touched' = touched \cup {call.file}
  /\ torn' = torn \ {call.file}
  /\ foreign' = foreign \ {call.file}
  /\ stale' = Command
  /\ call' = NoCall
  /\ raced' = FALSE
  /\ UNCHANGED <<commands, fixR, calls, meddled, ended>>

(* os.WriteFile truncates before it writes: when it fails the file may be  *)
(* untouched or torn, and the tool records neither.                        *)
WriteFails ==
  /\ DiskFails
  /\ call # NoCall
  /\ \/ UNCHANGED <<disk, touched, torn, foreign, stale>>
     \/ /\ disk' = [disk EXCEPT ![call.file] = "torn"]
        /\ touched' = touched \cup {call.file}
        /\ torn' = torn \cup {call.file}
        /\ foreign' = foreign \cup {call.file}
        /\ stale' = Command
  /\ call' = NoCall
  /\ raced' = FALSE
  /\ UNCHANGED <<readState, changedFiles, commands, fixR, calls, meddled, ended>>

(* run_command: a non-zero exit, a start failure and a timeout are all     *)
(* recorded as not passed.                                                 *)
RunCommand(c, passed) ==
  /\ Ready
  /\ commands' = Append(commands, [command |-> c, passed |-> passed])
  /\ stale' = stale \ {c}
  /\ calls' = calls + 1
  /\ UNCHANGED <<disk, readState, changedFiles, fixR, call, foreign, touched,
                 torn, raced, meddled, ended>>

-----------------------------------------------------------------------------
(* report_fix.                                                             *)

RunsOf(c) == {i \in DOMAIN commands : commands[i].command = c}

(* byCommand: the last record of a command wins.                           *)
LastRun(c) == commands[CHOOSE i \in RunsOf(c) : \A j \in RunsOf(c) : j <= i]

(* Validate: a failed verification needs a residual risk.  The fields that *)
(* need not be there are not looked at otherwise.                          *)
Validate(r) ==
  (\E c \in Listed(r) : ~r.verification[c].passed) => r.residualRisk

(* validateReportedVerification                                            *)
VerificationMatches(r) ==
  \A c \in Listed(r) :
    RunsOf(c) # {} /\ r.verification[c].passed = LastRun(c).passed

(* Mutant of ChangedFilesMatch: the inclusion is the wrong way round.      *)
ChangedFilesSwapped(r) ==
  changedFiles # {} =>
    /\ Listed(r) = {} => r.residualRisk
    /\ r.files \subseteq changedFiles

(* validateReportedChangedFiles                                            *)
ChangedFilesMatch(r) ==
  changedFiles # {} =>
    /\ Listed(r) = {} => r.residualRisk
    /\ changedFiles \subseteq r.files

(* A report that is refused leaves the last accepted one in the sink.      *)
ReportFix(r) ==
  /\ Ready
  /\ Validate(r) /\ VerificationMatches(r) /\ ChangedFilesMatch(r)
  /\ fixR' = r
  /\ calls' = calls + 1
  /\ UNCHANGED <<disk, readState, changedFiles, commands, call, foreign,
                 touched, torn, raced, stale, meddled, ended>>

(* The loop returns: the model has stopped with a report in the sink, or   *)
(* the turns are used up.                                                  *)
Stop ==
  /\ call = NoCall
  /\ ~ended
  /\ fixR # None \/ calls = AgentCalls
  /\ ended' = TRUE
  /\ UNCHANGED <<disk, readState, changedFiles, commands, fixR, call, calls,
                 foreign, touched, torn, raced, stale, meddled>>

-----------------------------------------------------------------------------
(* Somebody else saves, creates or deletes a file: the user in an editor,  *)
(* a formatter, or a mutating run_command the user approved.               *)
Meddle(f) ==
  /\ ~ended
  /\ meddled < Meddlers
  /\ \E text \in (Content \cup {Absent}) \ {disk[f]} : disk' = [disk EXCEPT ![f] = text]
  /\ foreign' = foreign \cup {f}
  /\ raced' = (raced \/ (call # NoCall /\ call.file = f))
  /\ meddled' = meddled + 1
  /\ UNCHANGED <<readState, changedFiles, commands, fixR, call, calls, touched,
                 torn, stale, ended>>

Terminated == ended /\ UNCHANGED vars

Next ==
  \/ \E f \in File : ReadFile(f) \/ Meddle(f)
  \/ \E f \in File, text \in Content : EditCheck(f, text) \/ WriteCheck(f, text)
  \/ WriteOut
  \/ WriteFails
  \/ \E c \in Command, passed \in BOOLEAN : RunCommand(c, passed)
  \/ \E r \in Report : ReportFix(r)
  \/ Stop
  \/ Terminated

Spec == Init /\ [][Next]_vars

-----------------------------------------------------------------------------
(* What cmd/rfa makes of the report.                                       *)

AllPassed(r) ==
  /\ Listed(r) # {}
  /\ \A c \in Listed(r) : r.verification[c].passed

(* Of a session whose loop ended without a run error other than a missing  *)
(* report; any other run error is status 2 too.  A report that cannot be   *)
(* parsed is not asked what passed.                                        *)
exitCode ==
  IF fixR = None THEN 2 ELSE IF fixR.parses /\ ~AllPassed(fixR) THEN 1 ELSE 0

-----------------------------------------------------------------------------
Calls == [tool : {"edit", "write"}, file : File, text : Content]

(* Every variable stays in its type.                                       *)
TypeOK ==
  /\ disk \in [File -> Text \cup {Absent}]
  /\ readState \in [File -> Text \cup {None}]
  /\ changedFiles \subseteq File
  /\ commands \in Seq([command : Command, passed : BOOLEAN])
  /\ fixR \in Report \cup {None}
  /\ call \in Calls \cup {NoCall}
  /\ calls \in 0 .. AgentCalls
  /\ foreign \subseteq File
  /\ torn \subseteq touched /\ touched \subseteq File
  /\ raced \in BOOLEAN
  /\ stale \subseteq Command
  /\ meddled \in 0 .. Meddlers
  /\ ended \in BOOLEAN

(* What the agent remembers of a file it has read or written is what the   *)
(* file holds, unless the file changed behind its back: after its own      *)
(* edits it can go on editing without reading again.                       *)
ReadStateCurrent ==
  \A f \in File : readState[f] # None /\ f \notin foreign => disk[f] = readState[f]

(* "preventing silent clobbering" (edit.go:12-14): text the agent has not  *)
(* seen is replaced only if it came between the checks of the tool and its *)
(* write; any earlier change is noticed, after failed writes too.          *)
OnlyRacesClobber ==
  [][WriteOut /\ disk[call.file] \notin {Absent, readState[call.file], call.text}
       => raced]_vars

(* An accepted report is true when it is accepted: its verdict on a        *)
(* command is that of the command's latest run, so that no failure hides   *)
(* behind an earlier pass, a failure comes with a residual risk, and every *)
(* file that a write tool changed is listed, but for one whose last write  *)
(* failed.                                                                 *)
AcceptedReportTrue ==
  [][fixR' # fixR =>
       /\ \A c \in Listed(fixR') :
            /\ \E i \in RunsOf(c) :
                 /\ \A j \in RunsOf(c) : j <= i
                 /\ commands[i].passed = fixR'.verification[c].passed
            /\ fixR'.verification[c].passed \/ fixR'.residualRisk
       /\ touched \ torn \subseteq fixR'.files]_vars

(* Exit code 0 means that the verification passed on the patch: no file    *)
(* was changed by a write tool after the run that the report relies on.    *)
ZeroMeansVerified ==
  ended /\ exitCode = 0 /\ fixR.parses => Listed(fixR) \cap stale = {}
=============================================================================
