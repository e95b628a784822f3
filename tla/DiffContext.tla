------------------------------ MODULE DiffContext ------------------------------
(***************************************************************************)
(* What becomes of git's diff: internal/contextmgr parses it, lists the    *)
(* changed files and puts the text within a budget into the first message; *)
(* agent/session.go and review/parallel.go split it by file for            *)
(* get_file_diff and the parallel review; review/resolve.go finds the line *)
(* a finding's evidence stands on.                                         *)
(*                                                                         *)
(* The diff is a sequence of lines, and sizes are counted in lines.  A     *)
(* line is what the parser tells apart, its lead, and the rest of it.  The *)
(* text "mark" stands for file contents that begin with two dashes when    *)
(* removed, or two pluses when added, and a space: in the diff they look   *)
(* like a file header.  "blank" is a line of white space.                  *)
(***************************************************************************)
EXTENDS Naturals, Sequences, FiniteSets, SequencesExt, Filters

CONSTANTS
  Names,     \* the paths the diff may name, in git's order
  Priority,  \* filePriority of each path
  Texts,     \* the contents of lines
  MaxLines,  \* bound on the lines of all hunks
  budget,    \* of truncateDiff
  largeDiffThreshold,
  maxResult,  \* maxResultBytes, the cap on what a tool gives out
  maxEvidence \* how many lines of evidence splitAndNormalize keeps

ASSUME DiffAssumption ==
  /\ Names \in Seq(STRING) /\ IsInjective(Names) /\ {"", "/dev/null"} \cap Range(Names) = {}
  /\ Priority \in [Range(Names) -> 1 .. 3]
  /\ Texts \subseteq STRING /\ Texts \cap Range(Names) = {}
  /\ MaxLines \in Nat /\ budget \in Nat \ {0} /\ largeDiffThreshold \in Nat
  /\ budget <= largeDiffThreshold
  /\ maxResult \in Nat \ {0} /\ maxEvidence \in Nat \ {0}

VARIABLES
  files,    \* what really changed, as git sees it
  built     \* the result of Build, with the diff by file

vars == <<files, built>>

None == [none |-> TRUE]

Line(lead, val) == [lead |-> lead, val |-> val, old |-> 0, new |-> 0]

Size(lines) == Len(lines)

-----------------------------------------------------------------------------
(* What git writes.  A body line is an operation and a text; a context     *)
(* line has a space in front of it and looks like nothing else.            *)
Written(l) ==
  CASE l.op = "-" /\ l.text = "mark" -> Line("---", l.text)
    [] l.op = "+" /\ l.text = "mark" -> Line("+++", l.text)
    [] OTHER -> Line(l.op, l.text)

WrittenHunk(h) ==
  <<[lead |-> "@@", val |-> "", old |-> h.old, new |-> h.new]>>
    \o [k \in DOMAIN h.lines |-> Written(h.lines[k])]

OldName(f) == IF f.kind = "added" THEN "/dev/null" ELSE f.path

NewName(f) == IF f.kind = "deleted" THEN "/dev/null" ELSE f.path

HasHunks(f) == f.kind \in {"modified", "added", "deleted"}

(* A binary file has no header lines, a pure rename or change of mode      *)
(* neither.                                                                *)
WrittenFile(f) ==
  <<Line("diff --git", f.path)>>
    \o (IF f.kind = "binary" THEN <<Line("Binary files", f.path)>> ELSE <<>>)
    \o (IF HasHunks(f) THEN <<Line("---", OldName(f)), Line("+++", NewName(f))>> ELSE <<>>)
    \o FlattenSeq([k \in DOMAIN f.hunks |-> WrittenHunk(f.hunks[k])])

-----------------------------------------------------------------------------
(* ParseUnifiedDiff: one step per line.                                    *)
NoFile == [OldPath |-> "", NewPath |-> "", Hunks |-> <<>>, Binary |-> FALSE]

(* Mutant of FlushHunk: the hunk stays current.                            *)
FlushHunkKeeps(st) ==
  IF st.cur # None /\ st.hunk # None
  THEN [st EXCEPT !.cur.Hunks = Append(@, st.hunk)]
  ELSE st

FlushHunk(st) ==
  IF st.cur # None /\ st.hunk # None
  THEN [st EXCEPT !.cur.Hunks = Append(@, st.hunk), !.hunk = None]
  ELSE st

FlushFile(st) ==
  LET flushed == FlushHunk(st)
  IN  IF flushed.cur # None
      THEN [flushed EXCEPT !.files = Append(@, flushed.cur), !.cur = None]
      ELSE flushed

ParseLine(st, line) ==
  CASE line.lead = "diff --git" -> [FlushFile(st) EXCEPT !.cur = NoFile]
    [] line.lead = "Binary files" /\ st.cur # None -> [st EXCEPT !.cur.Binary = TRUE]
    [] line.lead = "---" /\ st.cur # None -> [st EXCEPT !.cur.OldPath = line.val]
    [] line.lead = "+++" /\ st.cur # None -> [st EXCEPT !.cur.NewPath = line.val]
    [] line.lead = "@@" ->
         [FlushHunk(st) EXCEPT !.hunk = [OldStart |-> line.old, NewStart |-> line.new, Lines |-> <<>>]]
    [] line.lead \in {"+", "-", " "} /\ st.hunk # None -> [st EXCEPT !.hunk.Lines = Append(@, line)]
    [] OTHER -> st

ParseUnifiedDiff(diff) ==
  FlushFile(FoldLeft(ParseLine, [files |-> <<>>, cur |-> None, hunk |-> None], diff)).files

Path(c) == IF c.NewPath \notin {"", "/dev/null"} THEN c.NewPath ELSE c.OldPath

Advances(lead, newSide) == lead # (IF newSide THEN "-" ELSE "+")

SideLine(n, l) == [lineNum |-> n, content |-> l.val, lead |-> l.lead]

(* The lines of a hunk that one side of the change has, with their number  *)
(* there: AddedLines and extractSideLines.                                 *)
SideLines(h, newSide) ==
  LET start == IF newSide THEN h.NewStart ELSE h.OldStart
      has == Select(h.Lines, LAMBDA l : Advances(l.lead, newSide))
  IN  [i \in DOMAIN has |-> SideLine(start + i - 1, has[i])]

AddedLines(c) ==
  Select(FlattenSeq([k \in DOMAIN c.Hunks |-> SideLines(c.Hunks[k], TRUE)]),
            LAMBDA l : l.lead = "+")

-----------------------------------------------------------------------------
(* A chunk begins at each "diff --git" line, and at the first line.        *)
SplitLine(chunks, line) ==
  IF line.lead = "diff --git" \/ chunks = <<>>
  THEN Append(chunks, <<line>>)
  ELSE Front(chunks) \o <<Append(Last(chunks), line)>>

SplitDiffByFile(diff) == FoldLeft(SplitLine, <<>>, diff)

(* Mutant of DiffChunkPath: the last header line is taken.                 *)
DiffChunkPathLast(chunk) ==
  LET named == Select(chunk, LAMBDA l : l.lead = "+++" /\ l.val # "/dev/null")
  IN  IF named = <<>> THEN "" ELSE Last(named).val

DiffChunkPath(chunk) ==
  LET named == Select(chunk, LAMBDA l : l.lead = "+++" /\ l.val # "/dev/null")
  IN  IF named = <<>> THEN "" ELSE Head(named).val

(* buildDiffByFile of the session: a deleted file has no path here.        *)
SessionDiff(chunks) ==
  [p \in {DiffChunkPath(chunks[i]) : i \in DOMAIN chunks} \ {""} |->
     chunks[Max({i \in DOMAIN chunks : DiffChunkPath(chunks[i]) = p})]]

RenderChangedFile(c) ==
  FlattenSeq([k \in DOMAIN c.Hunks |->
    <<[lead |-> "@@", val |-> "", old |-> c.Hunks[k].OldStart, new |-> c.Hunks[k].NewStart]>>
      \o c.Hunks[k].Lines])

(* BuildDiffByFile of the parallel review renders what the chunks lack.    *)
BuildDiffByFile(changed, chunks) ==
  LET byChunk == SessionDiff(chunks)
      Lacks(c) == Path(c) \notin DOMAIN byChunk \cup {""} /\ ~c.Binary
      lacking == Select(changed, Lacks)
  IN  [p \in DOMAIN byChunk \cup {Path(c) : c \in Range(lacking)} |->
         IF p \in DOMAIN byChunk THEN byChunk[p]
         ELSE RenderChangedFile(Head(Select(lacking, LAMBDA c : Path(c) = p)))]

FileLine(path) == Line("FILE", path)

(* What get_file_diff writes for one of the paths.                         *)
Section(diffData, path) ==
  IF path = "" THEN <<>>
  ELSE IF path \in DOMAIN diffData THEN <<FileLine(path)>> \o diffData[path]
  ELSE <<FileLine(path), Line("not found", "")>>

Whole(text) == [text |-> text, cut |-> FALSE]

(* truncate, with the note that it did.                                    *)
Truncate(text) ==
  IF Size(text) <= maxResult THEN Whole(text)
  ELSE [text |-> SubSeq(text, 1, maxResult), cut |-> TRUE]

(* get_file_diff: the paths there are when none is asked for, and the      *)
(* diffs of those that are otherwise, up to the cap of every tool.         *)
GetFileDiff(diffData, paths) ==
  LET text == FlattenSeq([i \in DOMAIN paths |-> Section(diffData, paths[i])])
  IN  IF DOMAIN diffData = {} THEN Whole(<<Line("no diff data", "")>>)
      ELSE IF paths = <<>> THEN [available |-> DOMAIN diffData]
      ELSE IF text = <<>> THEN Whole(<<Line("no matching files", "")>>)
      ELSE Truncate(text)

-----------------------------------------------------------------------------
(* filePriority looks at the first line of a chunk.                        *)
FilePriority(chunk) ==
  IF Head(chunk).lead = "diff --git" THEN Priority[Head(chunk).val] ELSE 1

(* Mutant of SortByPriority: the files stay in git's order.                *)
Unsorted(chunks) == chunks

SortByPriority(chunks) ==
  FlattenSeq([p \in 1 .. 3 |-> Select(chunks, LAMBDA c : FilePriority(c) = p)])

Fits(used, chunk) == used + Size(chunk) <= budget

(* Mutant of SafeSlice: the first chunk whole.                             *)
WholeFirst(chunk) == chunk

(* safeSlice.                                                              *)
SafeSlice(chunk) == SubSeq(chunk, 1, budget)

KeepChunk(kept, chunk) ==
  IF Fits(Size(FlattenSeq(kept)), chunk) THEN Append(kept, chunk) ELSE kept

(* prioritizedTruncate: the chunks kept, with how many were dropped; when  *)
(* none fits, the head of the first.                                       *)
PrioritizedTruncate(diff) ==
  LET entries == SortByPriority(SplitDiffByFile(diff))
      kept == FoldLeft(KeepChunk, <<>>, entries)
  IN  IF kept = <<>>
      THEN [chunks |-> <<SafeSlice(entries[1])>>, dropped |-> Len(entries) - 1, cut |-> TRUE]
      ELSE [chunks |-> kept, dropped |-> Len(entries) - Len(kept), cut |-> FALSE]

TruncateDiff(diff) ==
  IF Size(diff) <= budget
  THEN [chunks |-> <<diff>>, dropped |-> 0, cut |-> FALSE]
  ELSE PrioritizedTruncate(diff)

(* initialUser: the list of changed files, and the diff unless it is large *)
(* or empty.                                                               *)
ListedFile(c) ==
  IF c.Binary THEN [path |-> Path(c), binary |-> TRUE]
  ELSE [path |-> Path(c), hunks |-> Len(c.Hunks), added |-> Len(AddedLines(c)), binary |-> FALSE]

InitialUser(diff, changed) ==
  [listed |-> [i \in DOMAIN changed |-> ListedFile(changed[i])],
   inline |-> IF diff # <<>> /\ Size(diff) <= largeDiffThreshold THEN TruncateDiff(diff) ELSE None]

-----------------------------------------------------------------------------
(* The tree's changes, file by file, hunk by hunk and line by line.        *)
Init ==
  /\ files = <<>>
  /\ built = None

BodyLines == FlattenSeq([i \in DOMAIN files |->
               FlattenSeq([k \in DOMAIN files[i].hunks |-> files[i].hunks[k].lines])])

Changes(h) == \E k \in DOMAIN h.lines : h.lines[k].op # " "

(* The last file is one that git would write: each hunk changes something. *)
Complete ==
  files # <<>> =>
    LET f == Last(files)
    IN  /\ HasHunks(f) => f.hunks # <<>>
        /\ \A k \in DOMAIN f.hunks : Changes(f.hunks[k])

AddFile ==
  /\ built = None /\ Complete /\ Len(files) < Len(Names)
  /\ \E kind \in {"modified", "added", "deleted", "binary", "bare"} :
       /\ kind \in {"modified", "added", "deleted"} => Len(BodyLines) < MaxLines
       /\ files' = Append(files, [path |-> Names[Len(files) + 1], kind |-> kind, hunks |-> <<>>])
  /\ UNCHANGED built

Length(h, newSide) ==
  Len(Select(h.lines, LAMBDA l : l.op # (IF newSide THEN "-" ELSE "+")))

(* Hunks are apart by a line; the side that has no file starts at 0.       *)
AddHunk ==
  /\ built = None /\ files # <<>> /\ HasHunks(Last(files)) /\ Len(BodyLines) < MaxLines
  /\ LET n == Len(files)
         f == files[n]
         Start(newSide, from) ==
           IF f.hunks = <<>> THEN from
           ELSE (IF newSide THEN Last(f.hunks).new ELSE Last(f.hunks).old) + Length(Last(f.hunks), newSide) + 1
         absent == IF f.kind = "added" THEN "old" ELSE IF f.kind = "deleted" THEN "new" ELSE ""
     IN  /\ f.hunks # <<>> => f.kind = "modified" /\ Changes(Last(f.hunks))
         /\ files' = [files EXCEPT ![n].hunks =
              Append(@, [old |-> Start(FALSE, IF absent = "old" THEN 0 ELSE 1),
                         new |-> Start(TRUE, IF absent = "new" THEN 0 ELSE 1), lines |-> <<>>])]
  /\ UNCHANGED built

AddLine ==
  /\ built = None /\ files # <<>> /\ Last(files).hunks # <<>> /\ Len(BodyLines) < MaxLines
  /\ \E text \in Texts, op \in {" ", "+", "-"} :
       /\ op = " " => Len(BodyLines) + 1 < MaxLines \/ Changes(Last(Last(files).hunks))
       /\ Last(files).kind = "added" => op = "+"
       /\ Last(files).kind = "deleted" => op = "-"
       /\ files' = [files EXCEPT ![Len(files)].hunks[Len(Last(files).hunks)].lines =
                      Append(@, [op |-> op, text |-> text])]
  /\ UNCHANGED built

GitDiff == FlattenSeq([i \in DOMAIN files |-> WrittenFile(files[i])])

(* What git said of its failure stands in place of a diff.                 *)
Fatal == <<Line("fatal", "")>>

(* RunGitDiff: the first attempt fails for a ref that is not there, for a  *)
(* repository without a commit, or for want of a repository; a second one  *)
(* is made only without a ref.                                             *)
RunGitDiff(explicit) ==
  LET attempt == {[out |-> GitDiff, err |-> FALSE], [out |-> Fatal, err |-> TRUE]}
  IN  IF explicit THEN attempt
      ELSE {diff \in attempt : \E first, second \in attempt :
              diff = IF first.err /\ ~second.err THEN second ELSE first}

(* Build: without a ref an error is passed over and its text is the diff.  *)
Build ==
  /\ built = None /\ Complete
  /\ \E explicit \in BOOLEAN : \E diff \in RunGitDiff(explicit) :
       IF diff.err /\ explicit THEN built' = [error |-> TRUE]
       ELSE LET changed == ParseUnifiedDiff(diff.out)
                chunks == SplitDiffByFile(diff.out)
            IN  built' = [error |-> FALSE, diff |-> diff.out, changed |-> changed,
                          user |-> InitialUser(diff.out, changed),
                          session |-> SessionDiff(chunks), parallel |-> BuildDiffByFile(changed, chunks)]
  /\ UNCHANGED files

Terminated == built # None /\ UNCHANGED vars

Next == AddFile \/ AddHunk \/ AddLine \/ Build \/ Terminated

Spec == Init /\ [][Next]_vars

-----------------------------------------------------------------------------
(* ResolveLineNumbers for one finding: the first run of lines that equals  *)
(* the evidence without its blank lines, first on the new side of the      *)
(* hunks, then on the old.                                                 *)
MatchConsecutive(sideLines, targets) ==
  {i \in DOMAIN sideLines :
     /\ targets # <<>> /\ i + Len(targets) - 1 <= Len(sideLines)
     /\ \A j \in DOMAIN targets : sideLines[i + j - 1].content = targets[j]}

(* Mutant of SplitAndNormalize: blank lines are part of the evidence.      *)
SplitOnly(evidence) == evidence

SplitAndNormalize(evidence) ==
  LET kept == Select(evidence, LAMBDA t : t # "blank")
  IN  IF Len(kept) > maxEvidence THEN SubSeq(kept, 1, maxEvidence) ELSE kept

ResolveFromHunks(hunks, evidence, newSide) ==
  LET targets == SplitAndNormalize(evidence)
      Found(k) == MatchConsecutive(SideLines(hunks[k], newSide), targets)
      hits == {k \in DOMAIN hunks : Found(k) # {}}   \* the first of them counts
  IN  {SideLines(hunks[k], newSide)[Min(Found(k))].lineNum : k \in {k \in hits : k = Min(hits)}}

ResolveLine(changed, file, evidence, line) ==
  LET known == Select(changed, LAMBDA c : Path(c) = file /\ file # "")
      hunks == Last(known).Hunks
      new == ResolveFromHunks(hunks, evidence, TRUE)
      old == ResolveFromHunks(hunks, evidence, FALSE)
  IN  IF known = <<>> \/ new \cup old = {} THEN line
      ELSE IF new # {} THEN Min(new) ELSE Min(old)

-----------------------------------------------------------------------------
(* What a line or a path can say.                                          *)
Value == Range(Names) \cup Texts \cup {"", "/dev/null"}

(* The built context is an error or has all its parts, and what is shown   *)
(* of the diff stays within the budget.                                    *)
TypeOK ==
  built # None /\ ~built.error =>
       /\ built.changed \in Seq([OldPath : Value, NewPath : Value, Binary : BOOLEAN,
            Hunks : Seq([OldStart : Nat, NewStart : Nat,
                         Lines : Seq([lead : {" ", "+", "-"}, val : Value, old : Nat, new : Nat])])])
       /\ built.user.inline # None => Size(FlattenSeq(built.user.inline.chunks)) <= budget

Parsed == built # None /\ ~built.error /\ built.diff # Fatal

(* A changed line of the file that reads like a header.                    *)
Lookalike(f) ==
  \E k \in DOMAIN f.hunks : \E j \in DOMAIN f.hunks[k].lines :
    Written(f.hunks[k].lines[j]).lead \in {"---", "+++"}

(* Every file git wrote is parsed into one changed file, hunk by hunk and  *)
(* line by line, and no other, unless one of its own lines looks like a    *)
(* header; then only that file is misread.                                 *)
ParsedAsGitWrote ==
  Parsed =>
    /\ Len(built.changed) = Len(files)
    /\ \A i \in DOMAIN files : ~Lookalike(files[i]) =>
         LET f == files[i]
             HunkOf(h) == [OldStart |-> h.old, NewStart |-> h.new,
                           Lines |-> [j \in DOMAIN h.lines |-> Line(h.lines[j].op, h.lines[j].text)]]
         IN  built.changed[i] =
               [OldPath |-> IF HasHunks(f) THEN OldName(f) ELSE "",
                NewPath |-> IF HasHunks(f) THEN NewName(f) ELSE "",
                Binary |-> f.kind = "binary",
                Hunks |-> [k \in DOMAIN f.hunks |-> HunkOf(f.hunks[k])]]

(* The number and text of every line that one side of a file's hunks has.  *)
Numbered(f, newSide) ==
  LET gone == IF newSide THEN "-" ELSE "+"
      Before(h, j) == Cardinality({i \in 1 .. (j - 1) : h.lines[i].op # gone})
      Of(h) == {<<(IF newSide THEN h.new ELSE h.old) + Before(h, j), h.lines[j].text>> :
                  j \in {j \in DOMAIN h.lines : h.lines[j].op # gone}}
  IN  UNION {Of(f.hunks[k]) : k \in DOMAIN f.hunks}

(* The first lines of the evidence that say something.                     *)
Said(evidence) ==
  LET said == Select(evidence, LAMBDA t : t # "blank")
  IN  IF Len(said) > maxEvidence THEN SubSeq(said, 1, maxEvidence) ELSE said

(* Where the evidence really stands.                                       *)
StandsAt(f, newSide, evidence) ==
  {n \in {place[1] : place \in Numbered(f, newSide)} : \A j \in DOMAIN Said(evidence) :
     <<n + j - 1, Said(evidence)[j]>> \in Numbered(f, newSide)}

Evidence == {e \in BoundedSeq(Texts, 3) : Said(e) # <<>>}

HasText(f) == f.kind \in {"modified", "added"}

(* Every file that still has text is given out under its own path with the *)
(* diff git wrote for it, whatever its lines look like: to the parallel    *)
(* review whole, by get_file_diff whole or, when it is beyond the cap, its *)
(* beginning, said to be one; and get_file_diff lists these files and no   *)
(* other.  A deleted file goes to the parallel review only, as its hunks.  *)
OwnDiff ==
  Parsed =>
    /\ \A i \in DOMAIN files :
         LET f == files[i]
             given == GetFileDiff(built.session, <<f.path>>)
             own == <<FileLine(f.path)>> \o WrittenFile(f)
         IN  /\ HasText(f) =>
                  /\ f.path \in DOMAIN built.parallel
                  /\ built.parallel[f.path] = WrittenFile(f)
                  /\ ~given.cut => given.text = own
                  /\ given.cut => Size(own) > maxResult /\ given.text = SubSeq(own, 1, maxResult)
             /\ f.kind = "deleted" /\ ~Lookalike(f) =>
                  /\ f.path \in DOMAIN built.parallel
                  /\ built.parallel[f.path] = SubSeq(WrittenFile(f), 4, Size(WrittenFile(f)))
    /\ (\E i \in DOMAIN files : HasText(files[i])) =>
         GetFileDiff(built.session, <<>>)
           = [available |-> {files[i].path : i \in {i \in DOMAIN files : HasText(files[i])}}]

(* A diff within the budget is shown whole; of one beyond it whole files   *)
(* are, and a file is left out only when it does not fit beside those of   *)
(* its own or a better priority that are shown before it.  Something       *)
(* always is shown, unless the diff is too large to be shown at all.       *)
ShownFits ==
  Parsed /\ files # <<>> /\ Size(GitDiff) <= largeDiffThreshold =>
    LET shown == built.user.inline.chunks
        Shown(i) == WrittenFile(files[i]) \in Range(shown)
        Before(j, i) == \/ Priority[files[j].path] < Priority[files[i].path]
                        \/ Priority[files[j].path] = Priority[files[i].path] /\ j < i
        SizeOf(i) == Size(WrittenFile(files[i]))
        ShownBefore(i) == Select(shown, LAMBDA c : \E j \in DOMAIN files : Before(j, i) /\ c = WrittenFile(files[j]))
    IN  /\ shown # <<>>
        /\ Size(GitDiff) <= budget => shown = <<GitDiff>>
        /\ Size(GitDiff) > budget /\ ~built.user.inline.cut =>
             /\ \A c \in Range(shown) : \E i \in DOMAIN files : c = WrittenFile(files[i])
             /\ Len(shown) + built.user.inline.dropped = Len(files)
             /\ \A i \in DOMAIN files : ~Shown(i) =>
                  SizeOf(i) + Size(FlattenSeq(ShownBefore(i))) > budget
        /\ built.user.inline.cut => \A i \in DOMAIN files : SizeOf(i) > budget

(* A finding's evidence whose first lines stand in the diff gives it the   *)
(* first line they stand on, in the new text if they are there, and its    *)
(* line is kept when they stand nowhere.                                   *)
ResolvedLinesTrue ==
  Parsed =>
    \A i \in DOMAIN files : HasHunks(files[i]) /\ ~Lookalike(files[i]) =>
      \A e \in Evidence :
        LET new == StandsAt(files[i], TRUE, e)
            old == StandsAt(files[i], FALSE, e)
            reported == 5 * MaxLines
        IN  ResolveLine(built.changed, files[i].path, e, reported) =
              IF new # {} THEN Min(new) ELSE IF old # {} THEN Min(old) ELSE reported

(* "This corrects LLM-reported line numbers that are close but off"        *)
(* (resolve.go:9-11): a line reported where its evidence stands is right   *)
(* and stays.                                                              *)
RightLinesKept ==
  Parsed =>
    \A i \in DOMAIN files : HasHunks(files[i]) /\ ~Lookalike(files[i]) =>
      \A e \in Evidence : \A n \in StandsAt(files[i], TRUE, e) :
        ResolveLine(built.changed, files[i].path, e, n) = n
=============================================================================
