-------------------------- MODULE FixWorkspace_proofs --------------------------
(***************************************************************************)
(* Proofs about FixWorkspace, for any number of files, texts and commands, *)
(* however often the tree is changed by others and however many calls the  *)
(* agent makes, with and without a failing disk.                           *)
(*                                                                         *)
(* The inductive invariant adds to the type what a call between its checks *)
(* and its write still knows of its file, what the sink knows of the files *)
(* that were written, and that every command that ran has a latest run.    *)
(***************************************************************************)
EXTENDS FixWorkspace, TLAPS

(* Until somebody interferes, a pending write meets the text its tool      *)
(* looked at: none at all, or the one the agent has seen.                  *)
CallInv ==
  call # NoCall /\ ~raced => disk[call.file] \in {Absent, readState[call.file]}

(* The sink has every file whose last write did not fail.                  *)
SinkInv == touched \ torn \subseteq changedFiles

(* i is the latest run of c.                                               *)
IsLastRun(i, c) == i \in RunsOf(c) /\ \A j \in RunsOf(c) : j <= i

LastRunInv == \A c \in Command : RunsOf(c) # {} => \E i \in RunsOf(c) : IsLastRun(i, c)

IndInv ==
  /\ TypeOK
  /\ ReadStateCurrent
  /\ CallInv
  /\ SinkInv
  /\ LastRunInv

-----------------------------------------------------------------------------
(* A pending call has a file and a text.                                   *)
LEMMA PendingCall ==
  ASSUME TypeOK, call # NoCall
  PROVE  call.file \in File /\ call.text \in Content
BY DEF TypeOK, Calls

(* What byCommand looks up is the latest run, if the command ran at all.   *)
LEMMA LastRunIsLast ==
  ASSUME LastRunInv, NEW c \in Command, RunsOf(c) # {}
  PROVE  \E i \in RunsOf(c) : IsLastRun(i, c) /\ LastRun(c) = commands[i]
<1>1. \E i \in RunsOf(c) : \A j \in RunsOf(c) : j <= i
  BY DEF LastRunInv, IsLastRun
<1> DEFINE i == CHOOSE i \in RunsOf(c) : \A j \in RunsOf(c) : j <= i
<1>2. i \in RunsOf(c) /\ \A j \in RunsOf(c) : j <= i
  BY <1>1
<1>3. LastRun(c) = commands[i]
  BY DEF LastRun
<1> QED
  BY <1>2, <1>3 DEF IsLastRun

(* The invariant holds of any tree before the first call.                  *)
LEMMA InitInd == Init => IndInv
<1> SUFFICES ASSUME Init  PROVE IndInv
  OBVIOUS
<1> USE WorkspaceAssumption DEF Init
<1>1. TypeOK
  <2>1. disk \in [File -> Text \cup {Absent}] /\ readState \in [File -> Text \cup {None}]
    BY DEF Text
  <2>2. commands \in Seq([command : Command, passed : BOOLEAN])
    OBVIOUS
  <2>3. 0 \in 0 .. AgentCalls /\ 0 \in 0 .. Meddlers
    OBVIOUS
  <2> QED
    BY <2>1, <2>2, <2>3 DEF TypeOK
<1>2. ReadStateCurrent /\ CallInv /\ SinkInv
  BY DEF ReadStateCurrent, CallInv, SinkInv
<1>3. LastRunInv
  BY DEF LastRunInv, RunsOf
<1> QED
  BY <1>1, <1>2, <1>3 DEF IndInv

-----------------------------------------------------------------------------
(* Looking at a file: read_file.                                           *)
LEMMA ReadFileInd == ASSUME IndInv, NEW f \in File, ReadFile(f)  PROVE IndInv'
<1> USE WorkspaceAssumption DEF IndInv, ReadFile, Ready
<1>1. TypeOK'
  BY DEF TypeOK, Text
<1>2. ReadStateCurrent'
  BY DEF ReadStateCurrent, TypeOK
<1>3. CallInv' /\ SinkInv'
  BY DEF CallInv, SinkInv
<1>4. LastRunInv'
  BY DEF LastRunInv, IsLastRun, RunsOf
<1> QED
  BY <1>1, <1>2, <1>3, <1>4

(* The checks of edit_file and of write_file.                              *)
LEMMA CheckInd ==
  ASSUME IndInv, NEW f \in File, NEW text \in Content,
         EditCheck(f, text) \/ WriteCheck(f, text)
  PROVE  IndInv'
<1> USE WorkspaceAssumption DEF IndInv, Ready
<1>1. /\ call' \in Calls /\ call'.file = f
      /\ disk[f] \in {Absent, readState[f]}
      /\ calls < AgentCalls /\ calls' = calls + 1
      /\ UNCHANGED <<disk, readState, changedFiles, commands, fixR, foreign,
                     touched, torn, raced, stale, meddled, ended>>
  BY DEF EditCheck, WriteCheck, Calls
<1>2. TypeOK'
  BY <1>1 DEF TypeOK, Text
<1>3. ReadStateCurrent' /\ CallInv' /\ SinkInv'
  BY <1>1 DEF ReadStateCurrent, CallInv, SinkInv
<1>4. LastRunInv'
  BY <1>1 DEF LastRunInv, IsLastRun, RunsOf
<1> QED
  BY <1>2, <1>3, <1>4

(* A write that succeeds: tree, read state and sink change together.       *)
LEMMA WriteOutInd == ASSUME IndInv, WriteOut  PROVE IndInv'
<1> USE WorkspaceAssumption DEF IndInv, WriteOut
<1>1. call.file \in File /\ call.text \in Content
  BY PendingCall
<1>2. TypeOK'
  BY <1>1 DEF TypeOK, Text
<1>3. ReadStateCurrent'
  BY <1>1 DEF ReadStateCurrent, TypeOK
<1>4. CallInv' /\ SinkInv'
  BY DEF CallInv, SinkInv
<1>5. LastRunInv'
  BY DEF LastRunInv, IsLastRun, RunsOf
<1> QED
  BY <1>2, <1>3, <1>4, <1>5

(* A write that fails, before or after the file was truncated.             *)
LEMMA WriteFailsInd == ASSUME IndInv, WriteFails  PROVE IndInv'
<1> USE WorkspaceAssumption DEF IndInv, WriteFails
<1>1. call.file \in File
  BY PendingCall
<1>2. TypeOK'
  BY <1>1 DEF TypeOK, Text
<1>3. ReadStateCurrent'
  BY <1>1 DEF ReadStateCurrent, TypeOK
<1>4. CallInv' /\ SinkInv'
  BY DEF CallInv, SinkInv
<1>5. LastRunInv'
  BY DEF LastRunInv, IsLastRun, RunsOf
<1> QED
  BY <1>2, <1>3, <1>4, <1>5

(* The newest run of a command is its latest.                              *)
LEMMA RunCommandInd ==
  ASSUME IndInv, NEW c \in Command, NEW passed \in BOOLEAN, RunCommand(c, passed)
  PROVE  IndInv'
<1> USE WorkspaceAssumption DEF IndInv, RunCommand, Ready
<1> DEFINE run == [command |-> c, passed |-> passed]
<1>1. /\ commands \in Seq([command : Command, passed : BOOLEAN])
      /\ run \in [command : Command, passed : BOOLEAN]
      /\ run.command = c
  BY DEF TypeOK
<1>2. commands' = Append(commands, run)
  OBVIOUS
<1> HIDE DEF run
<1>3. /\ commands' \in Seq([command : Command, passed : BOOLEAN])
      /\ Len(commands') = Len(commands) + 1
      /\ commands'[Len(commands) + 1].command = c
      /\ \A i \in 1 .. Len(commands) : commands'[i] = commands[i]
      /\ DOMAIN commands = 1 .. Len(commands) /\ Len(commands) \in Nat
      /\ DOMAIN commands' = 1 .. (Len(commands) + 1)
  BY <1>1, <1>2
<1>4. TypeOK'
  BY <1>3 DEF TypeOK, Text
<1>5. ReadStateCurrent' /\ CallInv' /\ SinkInv'
  BY DEF ReadStateCurrent, CallInv, SinkInv
<1>6. LastRunInv'
  <2> SUFFICES ASSUME NEW d \in Command, RunsOf(d)' # {}
               PROVE  \E i \in RunsOf(d)' : IsLastRun(i, d)'
    BY DEF LastRunInv
  <2>1. CASE d = c
    <3>1. /\ Len(commands) + 1 \in RunsOf(d)'
          /\ \A j \in RunsOf(d)' : j <= Len(commands) + 1
      BY <1>3, <2>1 DEF RunsOf
    <3> QED
      BY <3>1 DEF IsLastRun
  <2>2. CASE d # c
    <3>1. RunsOf(d)' = RunsOf(d)
      BY <1>3, <2>2 DEF RunsOf
    <3> QED
      BY <3>1 DEF LastRunInv, IsLastRun
  <2> QED
    BY <2>1, <2>2
<1> QED
  BY <1>4, <1>5, <1>6

(* Somebody else's change is remembered, by the file and by the call.      *)
LEMMA MeddleInd == ASSUME IndInv, NEW f \in File, Meddle(f)  PROVE IndInv'
<1> USE WorkspaceAssumption DEF IndInv, Meddle
<1>1. PICK text \in Content \cup {Absent} : disk' = [disk EXCEPT ![f] = text]
  OBVIOUS
<1>2. TypeOK'
  <2>1. raced' \in BOOLEAN
    BY Zenon DEF TypeOK
  <2> QED
    BY <1>1, <2>1 DEF TypeOK, Text
<1>3. ReadStateCurrent'
  BY <1>1 DEF ReadStateCurrent, TypeOK
<1>4. CallInv'
  <2>1. call # NoCall => call.file \in File
    BY PendingCall
  <2> QED
    BY <1>1, <2>1 DEF CallInv, TypeOK
<1>5. SinkInv'
  BY DEF SinkInv
<1>6. LastRunInv'
  BY DEF LastRunInv, IsLastRun, RunsOf
<1> QED
  BY <1>2, <1>3, <1>4, <1>5, <1>6

(* Steps that touch neither the tree nor what the agent knows of it.       *)
LEMMA QuietInd ==
  ASSUME IndInv, TypeOK',
         UNCHANGED <<disk, readState, changedFiles, commands, call, foreign,
                     touched, torn, raced>>
  PROVE  IndInv'
<1> USE DEF IndInv
<1>1. ReadStateCurrent' /\ CallInv' /\ SinkInv'
  BY DEF ReadStateCurrent, CallInv, SinkInv
<1>2. LastRunInv'
  BY DEF LastRunInv, IsLastRun, RunsOf
<1> QED
  BY <1>1, <1>2

(* IndInv is inductive.                                                    *)
LEMMA NextInd == IndInv /\ [Next]_vars => IndInv'
<1> SUFFICES ASSUME IndInv, [Next]_vars  PROVE IndInv'
  OBVIOUS
<1> USE WorkspaceAssumption
<1>1. ASSUME NEW f \in File, ReadFile(f)  PROVE IndInv'
  BY <1>1, ReadFileInd
<1>2. ASSUME NEW f \in File, Meddle(f)  PROVE IndInv'
  BY <1>2, MeddleInd
<1>3. ASSUME NEW f \in File, NEW text \in Content, EditCheck(f, text) \/ WriteCheck(f, text)
      PROVE  IndInv'
  BY <1>3, CheckInd
<1>4. CASE WriteOut
  BY <1>4, WriteOutInd
<1>5. CASE WriteFails
  BY <1>5, WriteFailsInd
<1>6. ASSUME NEW c \in Command, NEW passed \in BOOLEAN, RunCommand(c, passed)
      PROVE  IndInv'
  BY <1>6, RunCommandInd
<1>7. ASSUME NEW r \in Report, ReportFix(r)  PROVE IndInv'
  <2>1. TypeOK'
    BY <1>7 DEF IndInv, TypeOK, ReportFix, Ready
  <2> QED
    BY <1>7, <2>1, QuietInd DEF ReportFix
<1>8. CASE Stop
  <2>1. TypeOK'
    BY <1>8 DEF IndInv, TypeOK, Stop
  <2> QED
    BY <1>8, <2>1, QuietInd DEF Stop
<1>9. CASE UNCHANGED vars
  <2>1. TypeOK'
    BY <1>9 DEF IndInv, TypeOK, vars
  <2> QED
    BY <1>9, <2>1, QuietInd DEF vars
<1> QED
  BY <1>1, <1>2, <1>3, <1>4, <1>5, <1>6, <1>7, <1>8, <1>9 DEF Next, Terminated

(* IndInv holds in every state of the session.                             *)
LEMMA Invariance == Spec => []IndInv
BY InitInd, NextInd, PTL DEF Spec

-----------------------------------------------------------------------------
(* Every variable of the session stays in its type.                        *)
THEOREM FixTypeCorrect == Spec => []TypeOK
<1>1. IndInv => TypeOK
  BY DEF IndInv
<1> QED
  BY <1>1, Invariance, PTL

(* ReadState (Record, after read_file, edit_file and write_file) holds the *)
(* text of the file, for every file that nobody else has changed since.    *)
THEOREM FixReadStateCurrent == Spec => []ReadStateCurrent
<1>1. IndInv => ReadStateCurrent
  BY DEF IndInv
<1> QED
  BY <1>1, Invariance, PTL

(* The checks of edit_file and write_file protect text the agent has not   *)
(* seen from everything but a change between check and write.              *)
THEOREM FixOnlyRacesClobber == Spec => OnlyRacesClobber
<1>1. IndInv /\ [Next]_vars =>
        [WriteOut /\ disk[call.file] \notin {Absent, readState[call.file], call.text}
           => raced]_vars
  BY DEF IndInv, CallInv, WriteOut
<1> QED
  BY <1>1, Invariance, PTL DEF Spec, OnlyRacesClobber

(* report_fix accepts only what the records of run_command and of the      *)
(* write tools bear out.                                                   *)
THEOREM FixAcceptedReportTrue == Spec => AcceptedReportTrue
<1> DEFINE Claims(c) == /\ \E i \in RunsOf(c) :
                             /\ \A j \in RunsOf(c) : j <= i
                             /\ commands[i].passed = fixR'.verification[c].passed
                        /\ fixR'.verification[c].passed \/ fixR'.residualRisk
           Truth == /\ \A c \in Listed(fixR') : Claims(c)
                    /\ touched \ torn \subseteq fixR'.files
<1>1. ASSUME IndInv, [Next]_vars, fixR' # fixR  PROVE Truth
  <2>1. PICK r \in Report : ReportFix(r)
    BY <1>1 DEF Next, vars, ReadFile, Meddle, EditCheck, WriteCheck, WriteOut,
                WriteFails, RunCommand, Stop, Terminated
  <2>2. fixR' = r /\ Validate(r) /\ VerificationMatches(r) /\ ChangedFilesMatch(r)
    BY <2>1 DEF ReportFix
  <2>3. ASSUME NEW c \in Listed(r)  PROVE Claims(c)
    <3>1. c \in Command /\ RunsOf(c) # {} /\ r.verification[c].passed = LastRun(c).passed
      BY <2>2 DEF Listed, VerificationMatches
    <3>2. PICK i \in RunsOf(c) : IsLastRun(i, c) /\ LastRun(c) = commands[i]
      BY <1>1, <3>1, LastRunIsLast DEF IndInv
    <3>3. r.verification[c].passed \/ r.residualRisk
      BY <2>2 DEF Validate
    <3> QED
      BY <2>2, <3>1, <3>2, <3>3 DEF IsLastRun
  <2>4. touched \ torn \subseteq r.files
    BY <1>1, <2>2 DEF IndInv, SinkInv, ChangedFilesMatch
  <2> QED
    BY <2>2, <2>3, <2>4
<1>2. IndInv /\ [Next]_vars => [fixR' # fixR => Truth]_vars
  BY <1>1
<1> QED
  BY <1>2, Invariance, PTL DEF Spec, AcceptedReportTrue
=============================================================================
