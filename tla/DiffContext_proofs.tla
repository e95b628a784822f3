--------------------------- MODULE DiffContext_proofs ---------------------------
(***************************************************************************)
(* Proofs about DiffContext, for any names, texts, priorities and bounds.  *)
(* First the files are what git could write (FilesOK); then git's text is  *)
(* taken apart by the parser, line by line, hunk by hunk and file by file  *)
(* (ParseAll), and by the splitter (SplitChunks), so that what Build makes *)
(* of it is known exactly; the properties follow from that.                *)
(***************************************************************************)
EXTENDS DiffContext, SequenceFolds, TLAPS
-----------------------------------------------------------------------------
(* The changes of the tree.                                                *)
Kind == {"modified", "added", "deleted", "binary", "bare"}

BodyLine == [op : {" ", "+", "-"}, text : Texts]

BodyHunk == [old : Nat, new : Nat, lines : Seq(BodyLine)]

File == [path : Range(Names), kind : Kind, hunks : Seq(BodyHunk)]

(* The hunks follow each other, with a line between them.                  *)
Placed(hs) ==
  /\ 1 \in DOMAIN hs => hs[1].old <= 1 /\ hs[1].new <= 1
  /\ \A k \in DOMAIN hs : k + 1 \in DOMAIN hs =>
       /\ hs[k + 1].old = hs[k].old + Length(hs[k], FALSE) + 1
       /\ hs[k + 1].new = hs[k].new + Length(hs[k], TRUE) + 1

(* A file without text has no hunks, one that is new or gone has lines of  *)
(* one kind.                                                               *)
FileOK(f) ==
  /\ ~HasHunks(f) => Len(f.hunks) = 0
  /\ Placed(f.hunks)
  /\ \A k \in DOMAIN f.hunks : \A j \in DOMAIN f.hunks[k].lines :
       /\ f.kind = "added" => f.hunks[k].lines[j].op = "+"
       /\ f.kind = "deleted" => f.hunks[k].lines[j].op = "-"

FilesOK(fs) ==
  /\ fs \in Seq(File) /\ Len(fs) <= Len(Names)
  /\ \A i \in DOMAIN fs : FileOK(fs[i]) /\ fs[i].path = Names[i]

LEMMA NamesType == Names \in Seq(Range(Names)) /\ Len(Names) \in Nat /\ MaxLines \in Nat
<1>1. Names \in Seq(STRING) /\ MaxLines \in Nat
  BY DiffAssumption
<1> QED
  BY <1>1, RangeType

LEMMA AddFileOK ==
  ASSUME FilesOK(files), AddFile
  PROVE  FilesOK(files')
<1>1. PICK kind \in Kind :
        files' = Append(files, [path |-> Names[Len(files) + 1], kind |-> kind, hunks |-> <<>>])
        /\ Len(files) < Len(Names)
  BY DEF AddFile, Kind
<1> DEFINE f == [path |-> Names[Len(files) + 1], kind |-> kind, hunks |-> <<>>]
           n == Len(files)
<1>2. files \in Seq(File) /\ n \in Nat /\ n + 1 \in 1 .. Len(Names) /\ DOMAIN files = 1 .. n
  BY <1>1, NamesType DEF FilesOK
<1>3. Names[n + 1] \in Range(Names)
  <2>1. n + 1 \in DOMAIN Names
    BY <1>2, NamesType
  <2> HIDE DEF n
  <2> QED
    BY <2>1 DEF Range
<1>4. f \in File /\ f.path = Names[n + 1] /\ FileOK(f)
  BY <1>3 DEF File, FileOK, Placed
<1> HIDE DEF f, n
<1>5. files' = Append(files, f)
  BY <1>1 DEF f
<1>6. /\ files' \in Seq(File) /\ Len(files') = n + 1 /\ files'[n + 1] = f
      /\ \A i \in 1 .. n : files'[i] = files[i]
  BY <1>2, <1>4, <1>5 DEF n
<1>7. \A i \in DOMAIN files' : FileOK(files'[i]) /\ files'[i].path = Names[i]
  BY <1>2, <1>4, <1>6 DEF FilesOK
<1> QED
  BY <1>2, <1>6, <1>7, NamesType DEF FilesOK

LEMMA FileReplaced ==
  ASSUME NEW fs, FilesOK(fs), NEW n \in DOMAIN fs, NEW f \in File, FileOK(f), f.path = fs[n].path
  PROVE  FilesOK([fs EXCEPT ![n] = f])
<1> DEFINE gs == [fs EXCEPT ![n] = f]
<1>1. fs \in Seq(File) /\ DOMAIN fs = 1 .. Len(fs)
  BY DEF FilesOK
<1>2. gs \in Seq(File) /\ Len(gs) = Len(fs) /\ DOMAIN gs = DOMAIN fs
      /\ \A i \in DOMAIN fs : gs[i] = IF i = n THEN f ELSE fs[i]
  BY <1>1
<1> HIDE DEF gs
<1>3. FilesOK(gs)
  BY <1>2 DEF FilesOK
<1> QED
  BY <1>3 DEF gs

(* The lines of a hunk that a side has.                                    *)
On(newSide) == {l \in BodyLine : l.op # (IF newSide THEN "-" ELSE "+")}

LEMMA LengthIs ==
  ASSUME NEW h \in BodyHunk, NEW newSide \in BOOLEAN
  PROVE  /\ h.lines \in Seq(BodyLine)
         /\ Length(h, newSide) = Len(Only(h.lines, On(newSide)))
         /\ Length(h, newSide) \in Nat /\ Length(h, newSide) <= Len(h.lines)
<1> DEFINE w == h.lines
           gone == IF newSide THEN "-" ELSE "+"
           J == {l \in Range(w) : l.op # gone}
           K == On(newSide)
<1>1. w \in Seq(BodyLine)
  BY DEF BodyHunk
<1>2. Length(h, newSide) = Len(Only(w, J))
  BY Zenon DEF Length, Select
<1>3. Range(w) \subseteq BodyLine
  BY <1>1, RangeType
<1>4. J = {l \in Range(w) : l \in K}
  BY <1>3 DEF On
<1> HIDE DEF w, J, K
<1>5. Only(w, J) = Only(w, K)
  BY <1>1, <1>4, OnlyTest
<1>6. Only(w, K) \in Seq(BodyLine) /\ Len(Only(w, K)) <= Len(w)
  BY <1>1, OnlySeq, OnlyLen
<1> QED
  BY <1>1, <1>2, <1>5, <1>6 DEF w, K

LEMMA HunkMade ==
  ASSUME NEW a \in Nat, NEW b \in Nat
  PROVE  [old |-> a, new |-> b, lines |-> <<>>] \in BodyHunk
BY DEF BodyHunk

LEMMA NextStart ==
  ASSUME NEW p \in BodyHunk
  PROVE  p.old + Length(p, FALSE) + 1 \in Nat /\ p.new + Length(p, TRUE) + 1 \in Nat
<1> DEFINE a == p.old
           b == p.new
           c == Length(p, FALSE)
           d == Length(p, TRUE)
<1>1. a \in Nat /\ b \in Nat
  BY DEF BodyHunk
<1>2. c \in Nat /\ d \in Nat
  BY LengthIs
<1> HIDE DEF a, b, c, d
<1>3. a + c + 1 \in Nat /\ b + d + 1 \in Nat
  BY <1>1, <1>2
<1> QED
  BY <1>3 DEF a, b, c, d

LEMMA LastHunk ==
  ASSUME NEW hs \in Seq(BodyHunk), Len(hs) >= 1
  PROVE  Last(hs) \in BodyHunk /\ Last(hs) = hs[Len(hs)] /\ Len(hs) \in DOMAIN hs
BY DEF Last

LEMMA PlacedOne ==
  ASSUME NEW h \in BodyHunk, h.old <= 1, h.new <= 1
  PROVE  Placed(Append(<<>>, h))
<1> DEFINE v == Append(<<>>, h)
<1>1. DOMAIN v = {1} /\ v[1] = h
  OBVIOUS
<1> HIDE DEF v
<1>2. Placed(v)
  BY <1>1 DEF Placed
<1> QED
  BY <1>2 DEF v

LEMMA PlacedMore ==
  ASSUME NEW hs \in Seq(BodyHunk), hs # <<>>, Placed(hs), NEW h \in BodyHunk,
         h.old = Last(hs).old + Length(Last(hs), FALSE) + 1,
         h.new = Last(hs).new + Length(Last(hs), TRUE) + 1
  PROVE  Placed(Append(hs, h))
<1> DEFINE l == Len(hs)
           v == Append(hs, h)
<1>1. Last(hs) = hs[l] /\ l \in Nat /\ l >= 1
  BY DEF Last
<1>2. DOMAIN v = 1 .. (l + 1) /\ DOMAIN hs = 1 .. l /\ v[l + 1] = h /\ \A i \in 1 .. l : v[i] = hs[i]
  OBVIOUS
<1> HIDE DEF v, l
<1>3. v[1].old <= 1 /\ v[1].new <= 1
  BY <1>1, <1>2 DEF Placed
<1>4. ASSUME NEW k \in DOMAIN v, k + 1 \in DOMAIN v
      PROVE  /\ v[k + 1].old = v[k].old + Length(v[k], FALSE) + 1
             /\ v[k + 1].new = v[k].new + Length(v[k], TRUE) + 1
  <2>1. k \in 1 .. l /\ v[k] = hs[k]
    BY <1>1, <1>2, <1>4
  <2>2. CASE k = l
    BY <1>1, <1>2, <2>1, <2>2
  <2>3. CASE k # l
    <3>1. k + 1 \in 1 .. l
      BY <1>1, <2>1, <2>3
    <3>2. v[k + 1] = hs[k + 1]
      BY <1>2, <3>1
    <3> QED
      BY <1>2, <2>1, <3>1, <3>2 DEF Placed
  <2> QED
    BY <2>2, <2>3
<1>5. Placed(v)
  BY <1>3, <1>4 DEF Placed
<1> QED
  BY <1>5 DEF v

LEMMA AddHunkOK ==
  ASSUME FilesOK(files), AddHunk
  PROVE  FilesOK(files')
<1> DEFINE n == Len(files)
           f == files[n]
           hs == f.hunks
           p == Last(hs)
           from == IF f.kind = "added" THEN 0 ELSE 1
           to == IF f.kind = "deleted" THEN 0 ELSE 1
           h == [old |-> IF hs = <<>> THEN from ELSE p.old + Length(p, FALSE) + 1,
                 new |-> IF hs = <<>> THEN to ELSE p.new + Length(p, TRUE) + 1, lines |-> <<>>]
           g == [f EXCEPT !.hunks = Append(@, h)]
<1>1. /\ files # <<>> /\ HasHunks(f)
      /\ files' = [files EXCEPT ![n] = g]
  BY DEF AddHunk, Last
<1>2. n \in DOMAIN files /\ f \in File /\ FileOK(f)
  BY <1>1 DEF FilesOK
<1> HIDE DEF n, f
<1>3. hs \in Seq(BodyHunk) /\ f = [path |-> f.path, kind |-> f.kind, hunks |-> hs]
  BY <1>2 DEF File
<1>4. h \in BodyHunk
  <2>1. CASE hs = <<>>
    <3>1. h = [old |-> from, new |-> to, lines |-> <<>>]
      BY <2>1
    <3>2. from \in Nat /\ to \in Nat
      OBVIOUS
    <3> HIDE DEF from, to, h
    <3> QED
      BY <3>1, <3>2, HunkMade
  <2>2. CASE hs # <<>>
    <3>1. p \in BodyHunk
      BY <1>3, <2>2, LastHunk
    <3>3. h = [old |-> p.old + Length(p, FALSE) + 1, new |-> p.new + Length(p, TRUE) + 1, lines |-> <<>>]
      BY <2>2
    <3> HIDE DEF p, h
    <3>4. p.old + Length(p, FALSE) + 1 \in Nat /\ p.new + Length(p, TRUE) + 1 \in Nat
      BY <3>1, NextStart
    <3> QED
      BY <3>3, <3>4, HunkMade
  <2> QED
    BY <2>1, <2>2
<1>5. Placed(Append(hs, h))
  <2>1. CASE hs = <<>>
    <3>1. h.old <= 1 /\ h.new <= 1
      BY <2>1
    <3> HIDE DEF h, hs
    <3> QED
      BY <1>4, <2>1, <3>1, PlacedOne
  <2>2. CASE hs # <<>>
    <3>1. h.old = p.old + Length(p, FALSE) + 1 /\ h.new = p.new + Length(p, TRUE) + 1
      BY <2>2
    <3>2. Placed(hs)
      BY <1>2 DEF FileOK
    <3> HIDE DEF h, hs
    <3> QED
      BY <1>3, <1>4, <2>2, <3>1, <3>2, PlacedMore DEF p
  <2> QED
    BY <2>1, <2>2
<1>6. h.lines = <<>>
  OBVIOUS
<1> HIDE DEF h, p, hs, from, to
<1>7. g = [path |-> f.path, kind |-> f.kind, hunks |-> Append(hs, h)]
  BY <1>2 DEF hs, File
<1>8. Append(hs, h) \in Seq(BodyHunk) /\ Len(Append(hs, h)) = Len(hs) + 1
      /\ \A k \in DOMAIN Append(hs, h) : (k \in DOMAIN hs /\ Append(hs, h)[k] = hs[k]) \/ Append(hs, h)[k] = h
  BY <1>3, <1>4
<1>9. g \in File /\ g.path = f.path
  BY <1>2, <1>7, <1>8 DEF File
<1>10. FileOK(g)
  <2> DEFINE v == Append(hs, h)
  <2>1. g.kind = f.kind /\ g.hunks = v
    BY <1>7
  <2>2. HasHunks(g)
    BY <1>1, <2>1 DEF HasHunks
  <2> HIDE DEF v, g
  <2>3. \A k \in DOMAIN v : (k \in DOMAIN hs /\ v[k] = hs[k]) \/ v[k] = h
    BY <1>8 DEF v
  <2>4. \A j \in DOMAIN h.lines : FALSE
    BY <1>6
  <2> QED
    BY <1>2, <1>5, <2>1, <2>2, <2>3, <2>4 DEF FileOK, hs, v
<1> HIDE DEF g
<1>11. g.path = files[n].path
  BY <1>9 DEF f
<1> QED
  BY <1>1, <1>2, <1>9, <1>10, <1>11, FileReplaced

(* A file with one more line at its end.                                   *)
WithLine(f, l) ==
  [f EXCEPT !.hunks[Len(f.hunks)].lines = Append(@, l)]

Longer(h, l) == [h EXCEPT !.lines = Append(h.lines, l)]

LEMMA HunkWithLine ==
  ASSUME NEW h \in BodyHunk, NEW l \in BodyLine
  PROVE  LET g == Longer(h, l)
         IN  g \in BodyHunk /\ g.old = h.old /\ g.new = h.new /\ g.lines = Append(h.lines, l)
BY DEF BodyHunk, Longer

LEMMA WithLineIs ==
  ASSUME NEW path, NEW kind, NEW hs, NEW l
  PROVE  WithLine([path |-> path, kind |-> kind, hunks |-> hs], l)
           = [path |-> path, kind |-> kind, hunks |-> [hs EXCEPT ![Len(hs)] = Longer(hs[Len(hs)], l)]]
<1> DEFINE f == [path |-> path, kind |-> kind, hunks |-> hs]
           m == Len(hs)
           v == [hs EXCEPT ![m] = Longer(hs[m], l)]
<1>1. f.hunks = hs /\ f.path = path /\ f.kind = kind /\ DOMAIN f = {"path", "kind", "hunks"}
  OBVIOUS
<1> HIDE DEF f, m
<1>2. [f EXCEPT !.hunks[m].lines = Append(f.hunks[m].lines, l)] = [f EXCEPT !.hunks = v]
  BY <1>1 DEF m, Longer
<1>3. [f EXCEPT !.hunks = v] = [path |-> path, kind |-> kind, hunks |-> v]
  <2> HIDE DEF v
  <2> QED
    BY DEF f
<1> QED
  BY <1>1, <1>2, <1>3, Zenon DEF WithLine, f, m

LEMMA AddLineOK ==
  ASSUME FilesOK(files), AddLine
  PROVE  FilesOK(files')
<1> DEFINE n == Len(files)
           f == files[n]
           hs == f.hunks
           m == Len(hs)
           p == hs[m]
<1>1. PICK l \in BodyLine :
        /\ files # <<>> /\ hs # <<>>
        /\ f.kind = "added" => l.op = "+"
        /\ f.kind = "deleted" => l.op = "-"
        /\ files' = [files EXCEPT ![n] = WithLine(f, l)]
  <2>1. PICK text \in Texts, op \in {" ", "+", "-"} :
          /\ files # <<>> /\ hs # <<>>
          /\ f.kind = "added" => op = "+"
          /\ f.kind = "deleted" => op = "-"
          /\ files' = [files EXCEPT ![Len(files)].hunks[Len(Last(files).hunks)].lines =
                        Append(@, [op |-> op, text |-> text])]
    BY DEF AddLine, Last
  <2>2. [op |-> op, text |-> text] \in BodyLine
    BY DEF BodyLine
  <2>3. files' = [files EXCEPT ![n] = WithLine(f, [op |-> op, text |-> text])]
    BY <2>1 DEF WithLine, Last
  <2> QED
    BY <2>1, <2>2, <2>3
<1>2. n \in DOMAIN files /\ f \in File /\ FileOK(f)
  BY <1>1 DEF FilesOK
<1> HIDE DEF n, f
<1>3. hs \in Seq(BodyHunk) /\ f = [path |-> f.path, kind |-> f.kind, hunks |-> hs]
  BY <1>2 DEF File
<1>4. m \in DOMAIN hs /\ p \in BodyHunk
  BY <1>1, <1>3
<1> DEFINE q == Longer(p, l)
           v == [hs EXCEPT ![m] = q]
           g == WithLine(f, l)
<1>5. q \in BodyHunk /\ q.old = p.old /\ q.new = p.new /\ q.lines = Append(p.lines, l)
  BY <1>4, HunkWithLine
<1>6. g = [path |-> f.path, kind |-> f.kind, hunks |-> v]
  <2> HIDE DEF hs
  <2> QED
    <3> DEFINE r == [path |-> f.path, kind |-> f.kind, hunks |-> hs]
    <3>1. WithLine(r, l) = [path |-> f.path, kind |-> f.kind, hunks |-> v]
      BY WithLineIs DEF v, q, p, m
    <3>2. f = r
      BY <1>3
    <3> HIDE DEF r, v
    <3> QED
      BY <3>1, <3>2, Zenon DEF g
<1> HIDE DEF q, g
<1>7. v \in Seq(BodyHunk) /\ DOMAIN v = DOMAIN hs /\ v[m] = q /\ \A k \in DOMAIN hs : k # m => v[k] = hs[k]
  BY <1>3, <1>4, <1>5
<1>8. g \in File /\ g.path = f.path /\ g.kind = f.kind /\ g.hunks = v
  BY <1>2, <1>6, <1>7 DEF File
<1>9. DOMAIN hs = 1 .. m /\ m \in Nat
  BY <1>3
<1> HIDE DEF v, m, p, hs
<1>10. Placed(v)
  <2>1. Placed(hs)
    BY <1>2 DEF FileOK, hs
  <2>2. \A k \in DOMAIN v : v[k].old = hs[k].old /\ v[k].new = hs[k].new
    BY <1>5, <1>7 DEF p
  <2>3. \A k \in DOMAIN v : k + 1 \in DOMAIN v => v[k] = hs[k]
    BY <1>7, <1>9
  <2> QED
    BY <1>7, <2>1, <2>2, <2>3 DEF Placed
<1>11. FileOK(g)
  <2>1. HasHunks(g)
    BY <1>1, <1>2, <1>4, <1>8, <1>9 DEF FileOK, HasHunks, hs, m
  <2>2. ASSUME NEW k \in DOMAIN v, NEW j \in DOMAIN v[k].lines
        PROVE  (f.kind = "added" => v[k].lines[j].op = "+") /\ (f.kind = "deleted" => v[k].lines[j].op = "-")
    <3>1. CASE k # m
      BY <1>2, <1>7, <2>2, <3>1 DEF FileOK, hs
    <3>2. CASE k = m
      <4>1. p.lines \in Seq(BodyLine)
        BY <1>4 DEF BodyHunk
      <4>2. v[k].lines = Append(p.lines, l)
        BY <1>5, <1>7, <3>2
      <4>3. (j \in DOMAIN p.lines /\ v[k].lines[j] = p.lines[j]) \/ v[k].lines[j] = l
        BY <2>2, <4>1, <4>2
      <4>4. \A i \in DOMAIN p.lines :
              (f.kind = "added" => p.lines[i].op = "+") /\ (f.kind = "deleted" => p.lines[i].op = "-")
        BY <1>2, <1>4 DEF FileOK, hs, p
      <4> QED
        BY <1>1, <4>3, <4>4
    <3> QED
      BY <3>1, <3>2
  <2> QED
    BY <1>8, <1>10, <2>1, <2>2 DEF FileOK
<1>12. g.path = files[n].path
  BY <1>8 DEF f
<1> QED
  BY <1>1, <1>2, <1>8, <1>11, <1>12, FileReplaced DEF g

(* The three folds of the model, part by part.                             *)
Parsing == INSTANCE SequenceFolds WITH Op <- ParseLine
Splitting == INSTANCE SequenceFolds WITH Op <- SplitLine
Keeping == INSTANCE SequenceFolds WITH Op <- KeepChunk

PFold(b, w) == FoldLeft(ParseLine, b, w)
SFold(b, w) == FoldLeft(SplitLine, b, w)
KFold(b, w) == FoldLeft(KeepChunk, b, w)

LEMMA PFoldIs ==
  /\ \A w, b : PFold(b, w) = Parsing!Fold(b, w)
  /\ \A u, w : Cat(u, w) = Parsing!Cat(u, w) /\ Add(u, w) = Parsing!Add(u, w)
<1>1. \A w, b : PFold(b, w) = Parsing!Fold(b, w)
  BY Zenon DEF PFold, Parsing!Fold, Parsing!FoldLeft, Parsing!MapThenFoldSet, Parsing!Max, FoldLeft, MapThenFoldSet, Max
<1>2. \A u, w : Cat(u, w) = Parsing!Cat(u, w) /\ Add(u, w) = Parsing!Add(u, w)
  BY Zenon DEF Cat, Add, Parsing!Cat, Parsing!Add
<1> QED
  BY <1>1, <1>2

LEMMA SFoldIs ==
  /\ \A w, b : SFold(b, w) = Splitting!Fold(b, w)
  /\ \A u, w : Cat(u, w) = Splitting!Cat(u, w) /\ Add(u, w) = Splitting!Add(u, w)
<1>1. \A w, b : SFold(b, w) = Splitting!Fold(b, w)
  BY Zenon DEF SFold, Splitting!Fold, Splitting!FoldLeft, Splitting!MapThenFoldSet, Splitting!Max, FoldLeft, MapThenFoldSet, Max
<1>2. \A u, w : Cat(u, w) = Splitting!Cat(u, w) /\ Add(u, w) = Splitting!Add(u, w)
  BY Zenon DEF Cat, Add, Splitting!Cat, Splitting!Add
<1> QED
  BY <1>1, <1>2

LEMMA KFoldIs ==
  /\ \A w, b : KFold(b, w) = Keeping!Fold(b, w)
  /\ \A u, w : Cat(u, w) = Keeping!Cat(u, w) /\ Add(u, w) = Keeping!Add(u, w)
<1>1. \A w, b : KFold(b, w) = Keeping!Fold(b, w)
  BY Zenon DEF KFold, Keeping!Fold, Keeping!FoldLeft, Keeping!MapThenFoldSet, Keeping!Max, FoldLeft, MapThenFoldSet, Max
<1>2. \A u, w : Cat(u, w) = Keeping!Cat(u, w) /\ Add(u, w) = Keeping!Add(u, w)
  BY Zenon DEF Cat, Add, Keeping!Cat, Keeping!Add
<1> QED
  BY <1>1, <1>2

LEMMA PEmpty == \A b : PFold(b, <<>>) = b
BY PFoldIs, Parsing!FoldEmpty, Zenon

LEMMA POne == \A b, x : PFold(b, <<x>>) = ParseLine(b, x)
BY PFoldIs, Parsing!FoldOne, Zenon

LEMMA PAdd ==
  ASSUME NEW B, NEW w \in Seq(B), NEW x \in B, NEW b
  PROVE  PFold(b, Add(w, x)) = ParseLine(PFold(b, w), x)
<1>1. Parsing!Fold(b, Parsing!Add(w, x)) = ParseLine(Parsing!Fold(b, w), x)
  BY Parsing!FoldAdd
<1> QED
  BY <1>1, PFoldIs, Zenon

LEMMA PCat ==
  ASSUME NEW B, NEW u \in Seq(B), NEW w \in Seq(B), NEW b
  PROVE  PFold(b, Cat(u, w)) = PFold(PFold(b, u), w)
<1>1. Parsing!Fold(b, Parsing!Cat(u, w)) = Parsing!Fold(Parsing!Fold(b, u), w)
  BY Parsing!FoldCat
<1> QED
  BY <1>1, PFoldIs, Zenon

LEMMA SEmpty == \A b : SFold(b, <<>>) = b
BY SFoldIs, Splitting!FoldEmpty, Zenon

LEMMA SOne == \A b, x : SFold(b, <<x>>) = SplitLine(b, x)
BY SFoldIs, Splitting!FoldOne, Zenon

LEMMA SAdd ==
  ASSUME NEW B, NEW w \in Seq(B), NEW x \in B, NEW b
  PROVE  SFold(b, Add(w, x)) = SplitLine(SFold(b, w), x)
<1>1. Splitting!Fold(b, Splitting!Add(w, x)) = SplitLine(Splitting!Fold(b, w), x)
  BY Splitting!FoldAdd
<1> QED
  BY <1>1, SFoldIs, Zenon

LEMMA SCat ==
  ASSUME NEW B, NEW u \in Seq(B), NEW w \in Seq(B), NEW b
  PROVE  SFold(b, Cat(u, w)) = SFold(SFold(b, u), w)
<1>1. Splitting!Fold(b, Splitting!Cat(u, w)) = Splitting!Fold(Splitting!Fold(b, u), w)
  BY Splitting!FoldCat
<1> QED
  BY <1>1, SFoldIs, Zenon

LEMMA KEmpty == \A b : KFold(b, <<>>) = b
BY KFoldIs, Keeping!FoldEmpty, Zenon

LEMMA KAdd ==
  ASSUME NEW B, NEW w \in Seq(B), NEW x \in B, NEW b
  PROVE  KFold(b, Add(w, x)) = KeepChunk(KFold(b, w), x)
<1>1. Keeping!Fold(b, Keeping!Add(w, x)) = KeepChunk(Keeping!Fold(b, w), x)
  BY Keeping!FoldAdd
<1> QED
  BY <1>1, KFoldIs, Zenon

-----------------------------------------------------------------------------
(* The lines git writes.                                                   *)
Lead == {"diff --git", "Binary files", "---", "+++", "@@", " ", "+", "-", "fatal"}

LineSet == [lead : Lead, val : Value, old : Nat, new : Nat]

(* The lines that begin a file, all others, and those of a hunk.           *)
HeadLines == {l \in LineSet : l.lead = "diff --git"}

RestLines == {l \in LineSet : l.lead # "diff --git"}

HunkLines ==
  {l \in LineSet : l.lead \in {"+", "-", " "} \/ (l.lead \in {"---", "+++"} /\ l.val = "mark")}

TextLines == {l \in LineSet : l.lead \in {"+", "-", " "}}

HeadOf(f) == Line("diff --git", f.path)

BinaryPart(f) == IF f.kind = "binary" THEN <<Line("Binary files", f.path)>> ELSE <<>>

HeaderPart(f) ==
  IF HasHunks(f) THEN <<Line("---", OldName(f)), Line("+++", NewName(f))>> ELSE <<>>

AtLine(h) == [lead |-> "@@", val |-> "", old |-> h.old, new |-> h.new]

HunkBody(h) == [k \in DOMAIN h.lines |-> Written(h.lines[k])]

HunkParts(f) == [k \in DOMAIN f.hunks |-> WrittenHunk(f.hunks[k])]

RestOf(f) == Cat(Cat(BinaryPart(f), HeaderPart(f)), FlattenSeq(HunkParts(f)))

LEMMA LineType ==
  ASSUME NEW lead \in Lead, NEW val \in Value
  PROVE  Line(lead, val) \in LineSet /\ Line(lead, val).lead = lead /\ Line(lead, val).val = val
BY DEF Line, LineSet

LEMMA ValueType ==
  /\ Range(Names) \subseteq Value /\ Texts \subseteq Value /\ "" \in Value /\ "/dev/null" \in Value
BY DEF Value

LEMMA WrittenType ==
  ASSUME NEW l \in BodyLine
  PROVE  /\ Written(l) \in HunkLines
         /\ Written(l).lead \in {"---", "+++"} => Written(l).val = "mark" /\ l.text = "mark" /\ l.op # " "
         /\ Written(l).lead \notin {"---", "+++"} => Written(l) = Line(l.op, l.text) /\ Written(l) \in TextLines
         /\ Written(l).lead = "---" => l.op = "-"
         /\ Written(l).lead = "+++" => l.op = "+"
         /\ Written(l).val = l.text
<1>1. l.op \in {" ", "+", "-"} /\ l.text \in Value /\ l.op \in Lead
  BY ValueType DEF BodyLine, Lead
<1>2. Line("---", l.text) \in LineSet /\ Line("+++", l.text) \in LineSet /\ Line(l.op, l.text) \in LineSet
  BY <1>1, LineType DEF Lead
<1>3. \A lead, val : Line(lead, val).lead = lead /\ Line(lead, val).val = val
  BY DEF Line
<1>4. CASE l.op = "-" /\ l.text = "mark"
  <2> DEFINE w == Written(l)
  <2>1. w = Line("---", l.text)
    BY <1>4 DEF Written
  <2>2. w.lead = "---" /\ w.val = l.text /\ w \in LineSet
    BY <1>2, <1>3, <2>1
  <2> HIDE DEF w
  <2>3. w \in HunkLines
    BY <1>4, <2>2 DEF HunkLines
  <2> QED
    BY <1>4, <2>2, <2>3 DEF w
<1>5. CASE l.op = "+" /\ l.text = "mark"
  <2> DEFINE w == Written(l)
  <2>1. w = Line("+++", l.text)
    BY <1>5 DEF Written
  <2>2. w.lead = "+++" /\ w.val = l.text /\ w \in LineSet
    BY <1>2, <1>3, <2>1
  <2> HIDE DEF w
  <2>3. w \in HunkLines
    BY <1>5, <2>2 DEF HunkLines
  <2> QED
    BY <1>5, <2>2, <2>3 DEF w
<1>6. CASE ~(l.op = "-" /\ l.text = "mark") /\ ~(l.op = "+" /\ l.text = "mark")
  <2> DEFINE w == Written(l)
  <2>1. w = Line(l.op, l.text)
    BY <1>6 DEF Written
  <2>2. w.lead = l.op /\ w.val = l.text /\ w \in LineSet
    BY <1>2, <1>3, <2>1
  <2> HIDE DEF w
  <2>3. w \in HunkLines /\ w \in TextLines /\ w.lead \notin {"---", "+++"}
    BY <1>1, <2>2 DEF HunkLines, TextLines
  <2> QED
    BY <2>1, <2>2, <2>3 DEF w
<1> QED
  BY <1>4, <1>5, <1>6

LEMMA OneType == ASSUME NEW B, NEW x \in B  PROVE <<x>> \in Seq(B) /\ Len(<<x>>) = 1 /\ <<x>>[1] = x
OBVIOUS

LEMMA TwoType == ASSUME NEW B, NEW x \in B, NEW y \in B  PROVE <<x, y>> \in Seq(B)
OBVIOUS

LEMMA SeqWider == ASSUME NEW A, NEW B, A \subseteq B, NEW w \in Seq(A)  PROVE w \in Seq(B)
OBVIOUS

LEMMA HunkType ==
  ASSUME NEW h \in BodyHunk
  PROVE  /\ HunkBody(h) \in Seq(HunkLines) /\ HunkBody(h) \in Seq(RestLines)
         /\ AtLine(h) \in RestLines
         /\ WrittenHunk(h) = Cat(<<AtLine(h)>>, HunkBody(h))
         /\ WrittenHunk(h) \in Seq(RestLines)
<1>1. h.lines \in Seq(BodyLine) /\ h.old \in Nat /\ h.new \in Nat
  BY DEF BodyHunk
<1>2. HunkLines \subseteq RestLines
  BY DEF HunkLines, RestLines
<1>3. \A k \in DOMAIN h.lines : Written(h.lines[k]) \in HunkLines
  <2> SUFFICES ASSUME NEW k \in DOMAIN h.lines  PROVE Written(h.lines[k]) \in HunkLines
    OBVIOUS
  <2>1. h.lines[k] \in BodyLine
    BY <1>1
  <2> QED
    BY <2>1, WrittenType
<1>4. HunkBody(h) \in Seq(HunkLines)
  BY <1>1, <1>3 DEF HunkBody
<1>5. HunkBody(h) \in Seq(RestLines)
  BY <1>2, <1>4
<1>6. AtLine(h) \in LineSet /\ AtLine(h).lead = "@@"
  BY <1>1, ValueType DEF AtLine, LineSet, Lead
<1>7. AtLine(h) \in RestLines
  BY <1>6 DEF RestLines
<1>8. WrittenHunk(h) = Cat(<<AtLine(h)>>, HunkBody(h))
  BY Zenon DEF WrittenHunk, Cat, AtLine, HunkBody
<1>9. <<AtLine(h)>> \in Seq(RestLines)
  BY <1>7
<1>10. Cat(<<AtLine(h)>>, HunkBody(h)) \in Seq(RestLines)
  BY <1>5, <1>9, CatType
<1> QED
  BY <1>4, <1>5, <1>7, <1>8, <1>10

LEMMA PartsType ==
  ASSUME NEW f \in File
  PROVE  /\ BinaryPart(f) \in Seq(RestLines) /\ HeaderPart(f) \in Seq(RestLines)
         /\ HunkParts(f) \in Seq(Seq(RestLines))
         /\ FlattenSeq(HunkParts(f)) \in Seq(RestLines)
<1>1. f.path \in Value /\ f.hunks \in Seq(BodyHunk)
  BY ValueType DEF File
<1>2. OldName(f) \in Value /\ NewName(f) \in Value
  BY <1>1, ValueType DEF OldName, NewName
<1>3. /\ Line("Binary files", f.path) \in RestLines
      /\ Line("---", OldName(f)) \in RestLines /\ Line("+++", NewName(f)) \in RestLines
  BY <1>1, <1>2, LineType DEF RestLines, Lead
<1>4. BinaryPart(f) \in Seq(RestLines) /\ HeaderPart(f) \in Seq(RestLines)
  <2>1. <<Line("Binary files", f.path)>> \in Seq(RestLines)
    BY <1>3, OneType
  <2>2. <<Line("---", OldName(f)), Line("+++", NewName(f))>> \in Seq(RestLines)
    BY <1>3, TwoType
  <2>3. <<>> \in Seq(RestLines)
    OBVIOUS
  <2> QED
    BY <2>1, <2>2, <2>3, Zenon DEF BinaryPart, HeaderPart
<1>5. \A k \in DOMAIN f.hunks : WrittenHunk(f.hunks[k]) \in Seq(RestLines)
  <2> SUFFICES ASSUME NEW k \in DOMAIN f.hunks  PROVE WrittenHunk(f.hunks[k]) \in Seq(RestLines)
    OBVIOUS
  <2>1. f.hunks[k] \in BodyHunk
    BY <1>1
  <2> QED
    BY <2>1, HunkType
<1>6. HunkParts(f) \in Seq(Seq(RestLines))
  BY <1>1, <1>5 DEF HunkParts
<1>7. FlattenSeq(HunkParts(f)) \in Seq(RestLines)
  BY <1>6, FlattenType
<1> QED
  BY <1>4, <1>6, <1>7

LEMMA FileIs ==
  ASSUME NEW f \in File
  PROVE  /\ HeadOf(f) \in HeadLines /\ RestOf(f) \in Seq(RestLines)
         /\ WrittenFile(f) = Cat(<<HeadOf(f)>>, RestOf(f))
         /\ WrittenFile(f) \in Seq(LineSet)
<1>1. HeadOf(f) \in HeadLines
  <2>1. f.path \in Value /\ "diff --git" \in Lead
    BY ValueType DEF File, Lead
  <2> QED
    BY <2>1, LineType DEF HeadLines, HeadOf
<1> DEFINE a == <<HeadOf(f)>>
           b == BinaryPart(f)
           c == HeaderPart(f)
           d == FlattenSeq(HunkParts(f))
<1>2. WrittenFile(f) = Cat(Cat(Cat(a, b), c), d)
  BY Zenon DEF WrittenFile, Cat, HeadOf, BinaryPart, HeaderPart, HunkParts
<1>3. b \in Seq(RestLines) /\ c \in Seq(RestLines) /\ d \in Seq(RestLines)
  BY PartsType
<1>4. HeadLines \subseteq LineSet /\ RestLines \subseteq LineSet
  BY DEF HeadLines, RestLines
<1>5. a \in Seq(LineSet)
  BY <1>1, <1>4
<1> HIDE DEF a, b, c, d
<1>6. b \in Seq(LineSet) /\ c \in Seq(LineSet) /\ d \in Seq(LineSet)
  BY <1>3, <1>4
<1>7. Cat(b, c) \in Seq(RestLines) /\ Cat(Cat(b, c), d) \in Seq(RestLines)
  BY <1>3, CatType
<1>8. Cat(Cat(Cat(a, b), c), d) = Cat(a, Cat(Cat(b, c), d))
  <2>1. Cat(b, c) \in Seq(LineSet)
    BY <1>6, CatType
  <2>2. Cat(Cat(a, b), c) = Cat(a, Cat(b, c))
    BY <1>5, <1>6, CatAssociative
  <2>3. Cat(Cat(a, Cat(b, c)), d) = Cat(a, Cat(Cat(b, c), d))
    BY <1>5, <1>6, <2>1, CatAssociative
  <2> QED
    BY <2>2, <2>3, Zenon
<1>9. RestOf(f) = Cat(Cat(b, c), d)
  BY Zenon DEF RestOf, b, c, d
<1>10. Cat(Cat(b, c), d) \in Seq(LineSet)
  BY <1>4, <1>7
<1>11. Cat(a, Cat(Cat(b, c), d)) \in Seq(LineSet)
  BY <1>5, <1>10, CatType
<1> QED
  BY <1>1, <1>2, <1>7, <1>8, <1>9, <1>11, Zenon DEF a

-----------------------------------------------------------------------------
(* The split by file.                                                      *)
Chunks(fs) == [i \in DOMAIN fs |-> WrittenFile(fs[i])]

Chunk ==
  {c \in Seq(LineSet) : \E x \in HeadLines : \E w \in Seq(RestLines) : c = Cat(<<x>>, w)}

LEMMA ChunkType ==
  ASSUME NEW c \in Chunk
  PROVE  c \in Seq(LineSet) /\ Len(c) >= 1 /\ c[1] \in HeadLines
<1>1. PICK x \in HeadLines, w \in Seq(RestLines) : c = Cat(<<x>>, w)
  BY DEF Chunk
<1>2. HeadLines \subseteq LineSet /\ RestLines \subseteq LineSet
  BY DEF HeadLines, RestLines
<1>3. <<x>> \in Seq(LineSet) /\ w \in Seq(LineSet) /\ Len(<<x>>) = 1 /\ <<x>>[1] = x
  BY <1>2, OneType, SeqWider
<1> DEFINE u == <<x>>
<1>4. u \in Seq(LineSet) /\ Len(u) = 1 /\ u[1] = x
  BY <1>3
<1> HIDE DEF u
<1>5. c \in Seq(LineSet) /\ Len(c) = Len(u) + Len(w) /\ \A i \in 1 .. Len(u) : c[i] = u[i]
  BY <1>1, <1>3, <1>4 DEF Cat, u
<1>6. Len(w) \in Nat
  OBVIOUS
<1>7. Len(c) >= 1 /\ c[1] = x
  BY <1>4, <1>5, <1>6
<1> QED
  BY <1>5, <1>7

LEMMA FileChunk ==
  ASSUME NEW f \in File
  PROVE  WrittenFile(f) \in Chunk
BY FileIs DEF Chunk

LEMMA ChunksType ==
  ASSUME NEW fs \in Seq(File)
  PROVE  /\ Chunks(fs) \in Seq(Chunk) /\ Chunks(fs) \in Seq(Seq(LineSet))
         /\ DOMAIN Chunks(fs) = DOMAIN fs /\ Len(Chunks(fs)) = Len(fs)
         /\ \A i \in DOMAIN fs : Chunks(fs)[i] = WrittenFile(fs[i]) /\ WrittenFile(fs[i]) \in Seq(LineSet)
<1>1. \A i \in DOMAIN fs : WrittenFile(fs[i]) \in Chunk
  BY FileChunk
<1>2. Chunk \subseteq Seq(LineSet)
  BY ChunkType
<1>3. Chunks(fs) \in Seq(Chunk) /\ DOMAIN Chunks(fs) = DOMAIN fs /\ Len(Chunks(fs)) = Len(fs)
  BY <1>1 DEF Chunks
<1>4. Chunks(fs) \in Seq(Seq(LineSet))
  BY <1>2, <1>3
<1> QED
  BY <1>1, <1>2, <1>3, <1>4 DEF Chunks

(* A line that begins no file goes to the chunk before it.                 *)
LEMMA FrontAdd ==
  ASSUME NEW B, NEW w \in Seq(B), NEW x \in B
  PROVE  Front(Add(w, x)) = w
<1> DEFINE v == Add(w, x)
           z == SubSeq(v, 1, Len(w))
<1>1. v \in Seq(B) /\ Len(v) = Len(w) + 1
  BY AddType
<1>2. \A i \in 1 .. Len(w) : v[i] = w[i]
  BY AddType
<1>3. Len(w) \in Nat
  OBVIOUS
<1> HIDE DEF v
<1>4. Len(z) = Len(w) /\ z \in Seq(B) /\ \A i \in 1 .. Len(w) : z[i] = v[i]
  BY <1>1, <1>3
<1> HIDE DEF z
<1>5. z = w
  BY <1>2, <1>4, SeqEqual
<1>6. (Len(w) + 1) - 1 = Len(w)
  BY <1>3
<1>7. Front(v) = z
  BY <1>1, <1>6, Zenon DEF Front, z
<1> QED
  BY <1>5, <1>7 DEF v

LEMMA SplitRest ==
  ASSUME NEW C \in Seq(Seq(LineSet)), NEW u \in Seq(LineSet), NEW x \in RestLines
  PROVE  SplitLine(Add(C, u), x) = Add(C, Add(u, x))
<1> DEFINE v == Add(C, u)
<1>1. Len(v) = Len(C) + 1 /\ v # <<>> /\ Last(v) = u /\ Front(v) = C
  <2>1. v \in Seq(Seq(LineSet)) /\ Len(v) = Len(C) + 1 /\ v[Len(C) + 1] = u /\ \A i \in 1 .. Len(C) : v[i] = C[i]
    BY AddType
  <2>2. Len(C) \in Nat
    OBVIOUS
  <2> HIDE DEF v
  <2>3. Last(v) = u /\ v # <<>>
    BY <2>1, <2>2 DEF Last
  <2>4. Front(v) = C
    BY FrontAdd DEF v
  <2> QED
    BY <2>1, <2>3, <2>4
<1>2. x.lead # "diff --git"
  BY DEF RestLines
<1> HIDE DEF v
<1>3. SplitLine(v, x) = Front(v) \o <<Append(Last(v), x)>>
  BY <1>1, <1>2 DEF SplitLine
<1>4. C \o <<Append(u, x)>> = Append(C, Append(u, x))
  <2> DEFINE y == Append(u, x)
  <2>1. x \in LineSet
    BY DEF RestLines
  <2>2. y \in Seq(LineSet)
    BY <2>1
  <2> HIDE DEF y
  <2>3. C \o <<y>> = Append(C, y)
    BY <2>2
  <2> QED
    BY <2>3 DEF y
<1> QED
  BY <1>1, <1>3, <1>4, Zenon DEF v, Add

LEMMA SplitRests ==
  ASSUME NEW C \in Seq(Seq(LineSet)), NEW u \in Seq(LineSet), NEW w \in Seq(RestLines)
  PROVE  SFold(Add(C, u), w) = Add(C, Cat(u, w))
<1> DEFINE T == {v \in Seq(RestLines) : SFold(Add(C, u), v) = Add(C, Cat(u, v))}
<1>1. <<>> \in T
  BY SEmpty, CatEmpty
<1>2. ASSUME NEW v \in Seq(RestLines), NEW x \in RestLines, v \in T  PROVE Add(v, x) \in T
  <2>1. SFold(Add(C, u), Add(v, x)) = SplitLine(SFold(Add(C, u), v), x)
    BY SAdd
  <2>2. RestLines \subseteq LineSet
    BY DEF RestLines
  <2>3. v \in Seq(LineSet) /\ x \in LineSet
    BY <2>2
  <2>4. Cat(u, v) \in Seq(LineSet)
    BY <2>3, CatType
  <2>5. SplitLine(Add(C, Cat(u, v)), x) = Add(C, Add(Cat(u, v), x))
    BY <2>4, SplitRest
  <2>6. Add(Cat(u, v), x) = Cat(u, Add(v, x))
    BY <2>3, CatAdd
  <2>7. Add(v, x) \in Seq(RestLines)
    BY AddType
  <2>8. SFold(Add(C, u), v) = Add(C, Cat(u, v))
    BY <1>2
  <2> QED
    BY <2>1, <2>5, <2>6, <2>7, <2>8, Zenon
<1> HIDE DEF T
<1>3. Seq(RestLines) \subseteq T
  BY <1>1, <1>2, SeqInduct
<1> QED
  BY <1>3 DEF T

LEMMA SplitChunk ==
  ASSUME NEW C \in Seq(Seq(LineSet)), NEW c \in Chunk
  PROVE  SFold(C, c) = Add(C, c)
<1>1. PICK x \in HeadLines, w \in Seq(RestLines) : c = Cat(<<x>>, w)
  BY DEF Chunk
<1>2. HeadLines \subseteq LineSet /\ RestLines \subseteq LineSet /\ x.lead = "diff --git"
  BY DEF HeadLines, RestLines
<1>3. <<x>> \in Seq(LineSet) /\ w \in Seq(LineSet)
  BY <1>2, OneType, SeqWider
<1>4. SFold(C, Cat(<<x>>, w)) = SFold(SFold(C, <<x>>), w)
  BY <1>3, SCat
<1>5. SFold(C, <<x>>) = Add(C, <<x>>)
  BY <1>2, SOne DEF SplitLine, Add
<1>6. SFold(Add(C, <<x>>), w) = Add(C, Cat(<<x>>, w))
  BY <1>3, SplitRests
<1> QED
  BY <1>1, <1>4, <1>5, <1>6, Zenon

LEMMA SplitChunks ==
  ASSUME NEW C \in Seq(Chunk)
  PROVE  SplitDiffByFile(FlattenSeq(C)) = C
<1> DEFINE T == {D \in Seq(Chunk) : SFold(<<>>, FlattenSeq(D)) = D}
<1>0. Chunk \subseteq Seq(LineSet)
  BY ChunkType
<1>1. <<>> \in T
  BY FlattenEmpty, SEmpty
<1>2. ASSUME NEW D \in Seq(Chunk), NEW c \in Chunk, D \in T  PROVE Add(D, c) \in T
  <2>1. D \in Seq(Seq(LineSet)) /\ c \in Seq(LineSet)
    BY <1>0
  <2>2. FlattenSeq(Add(D, c)) = Cat(FlattenSeq(D), c)
    BY <2>1, FlattenAdd
  <2>3. FlattenSeq(D) \in Seq(LineSet)
    BY <2>1, FlattenType
  <2>4. SFold(<<>>, Cat(FlattenSeq(D), c)) = SFold(SFold(<<>>, FlattenSeq(D)), c)
    BY <2>1, <2>3, SCat
  <2>5. SFold(D, c) = Add(D, c)
    BY <2>1, SplitChunk
  <2>6. Add(D, c) \in Seq(Chunk)
    BY AddType
  <2>7. SFold(<<>>, FlattenSeq(D)) = D
    BY <1>2
  <2> QED
    BY <2>2, <2>4, <2>5, <2>6, <2>7, Zenon
<1> HIDE DEF T
<1>3. Seq(Chunk) \subseteq T
  BY <1>1, <1>2, SeqInduct
<1> QED
  BY <1>3 DEF T, SFold, SplitDiffByFile

(* The parser, line by line.                                               *)
St(fs, c, h) == [files |-> fs, cur |-> c, hunk |-> h]

Changed(o, n, b, hs) == [OldPath |-> o, NewPath |-> n, Hunks |-> hs, Binary |-> b]

Hunk(a, b, ls) == [OldStart |-> a, NewStart |-> b, Lines |-> ls]

(* The hunks with the current one, if any.                                 *)
Flushed(hs, h) == IF h = None THEN hs ELSE Add(hs, h)

LEMMA NotNone ==
  /\ \A o, n, b, hs : Changed(o, n, b, hs) # None
  /\ \A a, b, ls : Hunk(a, b, ls) # None
<1>1. ASSUME NEW o, NEW n, NEW b, NEW hs  PROVE Changed(o, n, b, hs) # None
  <2>1. "OldPath" \in DOMAIN Changed(o, n, b, hs) /\ "OldPath" \notin DOMAIN None
    BY DEF Changed, None
  <2> QED
    BY <2>1
<1>2. ASSUME NEW a, NEW b, NEW ls  PROVE Hunk(a, b, ls) # None
  <2>1. "Lines" \in DOMAIN Hunk(a, b, ls) /\ "Lines" \notin DOMAIN None
    BY DEF Hunk, None
  <2> QED
    BY <2>1
<1> QED
  BY <1>1, <1>2

(* The two assignments of a flush.                                         *)
SetHunks(u, x, y) == [u EXCEPT !.cur.Hunks = x, !.hunk = y]

SetFiles(u, x, y) == [u EXCEPT !.files = x, !.cur = y]

(* The two truth values, as values of a field.                             *)
Yes == TRUE

No == FALSE

BinaryLines == {l \in LineSet : l.lead = "Binary files"}

LEMMA SetHunksIs ==
  ASSUME NEW fs, NEW c, NEW h, NEW x, NEW y, NEW d, d = [c EXCEPT !.Hunks = x]
  PROVE  SetHunks(St(fs, c, h), x, y) = St(fs, d, y)
<1> DEFINE F == [St(fs, c, h) EXCEPT !.cur.Hunks = x, !.hunk = y]
<1>1. F = [k \in {"files", "cur", "hunk"} |-> F[k]]
  BY DEF St
<1>2. F["files"] = fs
  BY DEF St
<1>3. F["cur"] = d
  BY DEF St
<1>4. F["hunk"] = y
  BY DEF St
<1> HIDE DEF F
<1>5. F = St(fs, d, y)
  BY <1>1, <1>2, <1>3, <1>4 DEF St
<1> QED
  BY <1>5 DEF F, SetHunks

LEMMA SetFilesIs ==
  ASSUME NEW fs, NEW c, NEW h, NEW x, NEW y
  PROVE  SetFiles(St(fs, c, h), x, y) = St(x, y, h)
<1> DEFINE F == [St(fs, c, h) EXCEPT !.files = x, !.cur = y]
<1>1. F = [k \in {"files", "cur", "hunk"} |-> F[k]]
  BY DEF St
<1>2. F["files"] = x
  BY DEF St
<1>3. F["cur"] = y
  BY DEF St
<1>4. F["hunk"] = h
  BY DEF St
<1> HIDE DEF F
<1>5. F = St(x, y, h)
  BY <1>1, <1>2, <1>3, <1>4 DEF St
<1> QED
  BY <1>5 DEF F, SetFiles

LEMMA Parts ==
  /\ \A fs, c, h : St(fs, c, h).files = fs /\ St(fs, c, h).cur = c /\ St(fs, c, h).hunk = h
  /\ \A o, n, b, hs : Changed(o, n, b, hs).Hunks = hs
  /\ \A a, b, ls : Hunk(a, b, ls).Lines = ls
BY DEF St, Changed, Hunk

LEMMA AssignedChanged ==
  ASSUME NEW o, NEW n, NEW b, NEW hs, NEW x
  PROVE  /\ [Changed(o, n, b, hs) EXCEPT !.Binary = x] = Changed(o, n, x, hs)
         /\ [Changed(o, n, b, hs) EXCEPT !.OldPath = x] = Changed(x, n, b, hs)
         /\ [Changed(o, n, b, hs) EXCEPT !.NewPath = x] = Changed(o, x, b, hs)
         /\ [Changed(o, n, b, hs) EXCEPT !.Hunks = x] = Changed(o, n, b, x)
<1>1. [Changed(o, n, b, hs) EXCEPT !.Binary = x] = Changed(o, n, x, hs)
  BY DEF Changed
<1>2. [Changed(o, n, b, hs) EXCEPT !.OldPath = x] = Changed(x, n, b, hs)
  BY DEF Changed
<1>3. [Changed(o, n, b, hs) EXCEPT !.NewPath = x] = Changed(o, x, b, hs)
  BY DEF Changed
<1>4. [Changed(o, n, b, hs) EXCEPT !.Hunks = x] = Changed(o, n, b, x)
  BY DEF Changed
<1> QED
  BY <1>1, <1>2, <1>3, <1>4, Zenon

LEMMA FlushHunkIs ==
  ASSUME NEW fs, NEW o, NEW n, NEW b, NEW hs, NEW h
  PROVE  FlushHunk(St(fs, Changed(o, n, b, hs), h)) = St(fs, Changed(o, n, b, Flushed(hs, h)), None)
<1> DEFINE c == Changed(o, n, b, hs)
           u == St(fs, c, h)
           x == Append(hs, h)
<1>1. c # None /\ c.Hunks = hs /\ u.cur = c /\ u.hunk = h
  BY NotNone, Parts
<1>2. CASE h = None
  <2>1. FlushHunk(u) = u
    BY <1>1, <1>2, Zenon DEF FlushHunk
  <2> QED
    BY <1>2, <2>1, Zenon DEF Flushed
<1>3. CASE h # None
  <2>1. Append(u.cur.Hunks, u.hunk) = x
    BY <1>1
  <2> HIDE DEF c, u, x
  <2>2. FlushHunk(u) = SetHunks(u, x, None)
    BY <1>1, <1>3, <2>1, Zenon DEF FlushHunk, SetHunks
  <2>3. Changed(o, n, b, x) = [c EXCEPT !.Hunks = x]
    BY DEF c, Changed
  <2>4. SetHunks(u, x, None) = St(fs, Changed(o, n, b, x), None)
    BY <2>3, SetHunksIs DEF u
  <2> QED
    BY <1>3, <2>2, <2>4, Zenon DEF Flushed, Add, x, u, c
<1> QED
  BY <1>2, <1>3

LEMMA FlushFileIs ==
  ASSUME NEW fs, NEW o, NEW n, NEW b, NEW hs, NEW h
  PROVE  FlushFile(St(fs, Changed(o, n, b, hs), h))
           = St(Add(fs, Changed(o, n, b, Flushed(hs, h))), None, None)
<1> DEFINE c == Changed(o, n, b, Flushed(hs, h))
           u == St(fs, c, None)
           x == Append(fs, c)
<1>1. FlushHunk(St(fs, Changed(o, n, b, hs), h)) = u
  BY FlushHunkIs
<1>2. c # None
  BY NotNone
<1>3. u.cur = c /\ u.files = fs
  BY Parts
<1>4. Append(u.files, u.cur) = x
  BY <1>3
<1> HIDE DEF c, u, x
<1>5. FlushFile(St(fs, Changed(o, n, b, hs), h)) = SetFiles(u, x, None)
  BY <1>1, <1>2, <1>3, <1>4, Zenon DEF FlushFile, SetFiles
<1>6. SetFiles(u, x, None) = St(x, None, None)
  BY SetFilesIs DEF u
<1> QED
  BY <1>5, <1>6, Zenon DEF x, c, Add

LEMMA FlushNone == ASSUME NEW fs  PROVE FlushFile(St(fs, None, None)) = St(fs, None, None)
BY DEF FlushFile, FlushHunk, St

LEMMA ParseHead ==
  ASSUME NEW st, NEW fs, FlushFile(st) = St(fs, None, None), NEW l \in HeadLines
  PROVE  ParseLine(st, l) = St(fs, NoFile, None)
<1>1. l.lead = "diff --git"
  BY DEF HeadLines
<1>2. ParseLine(st, l) = [FlushFile(st) EXCEPT !.cur = NoFile]
  BY <1>1 DEF ParseLine
<1> QED
  BY <1>2 DEF St

LEMMA ParseBinary ==
  ASSUME NEW fs, NEW o, NEW n, NEW b, NEW hs, NEW h, NEW l \in BinaryLines
  PROVE  ParseLine(St(fs, Changed(o, n, b, hs), h), l) = St(fs, Changed(o, n, Yes, hs), h)
<1> DEFINE c == Changed(o, n, b, hs)
           u == St(fs, c, h)
<1>1. c # None /\ u.cur = c
  BY NotNone, Parts
<1>2. ASSUME NEW v  PROVE [u EXCEPT !.cur.Binary = v] = St(fs, Changed(o, n, v, hs), h)
  <2>1. [c EXCEPT !.Binary = v] = Changed(o, n, v, hs)
    BY DEF Changed
  <2> HIDE DEF c
  <2>2. [u EXCEPT !.cur.Binary = v] = St(fs, [c EXCEPT !.Binary = v], h)
    BY DEF St
  <2> QED
    BY <2>1, <2>2, Zenon
<1> HIDE DEF c, u
<1>3. ParseLine(u, l) = [u EXCEPT !.cur.Binary = TRUE]
  BY <1>1, Zenon DEF ParseLine, BinaryLines
<1> QED
  BY <1>2, <1>3, Zenon DEF u, c, Yes

LEMMA ParseOld ==
  ASSUME NEW fs, NEW o, NEW n, NEW b, NEW hs, NEW h, NEW l, l.lead = "---"
  PROVE  ParseLine(St(fs, Changed(o, n, b, hs), h), l) = St(fs, Changed(l.val, n, b, hs), h)
<1> DEFINE c == Changed(o, n, b, hs)
           u == St(fs, c, h)
           v == l.val
<1>1. c # None /\ u.cur = c
  BY NotNone, Parts
<1> HIDE DEF c, u
<1>2. ParseLine(u, l) = [u EXCEPT !.cur.OldPath = v]
  BY <1>1 DEF ParseLine
<1> HIDE DEF v
<1>3. [u EXCEPT !.cur.OldPath = v] = St(fs, [c EXCEPT !.OldPath = v], h)
  BY DEF u, St
<1>4. [c EXCEPT !.OldPath = v] = Changed(v, n, b, hs)
  BY DEF c, Changed
<1> QED
  BY <1>2, <1>3, <1>4, Zenon DEF u, c, v

LEMMA ParseNew ==
  ASSUME NEW fs, NEW o, NEW n, NEW b, NEW hs, NEW h, NEW l, l.lead = "+++"
  PROVE  ParseLine(St(fs, Changed(o, n, b, hs), h), l) = St(fs, Changed(o, l.val, b, hs), h)
<1> DEFINE c == Changed(o, n, b, hs)
           u == St(fs, c, h)
           v == l.val
<1>1. c # None /\ u.cur = c
  BY NotNone, Parts
<1> HIDE DEF c, u
<1>2. ParseLine(u, l) = [u EXCEPT !.cur.NewPath = v]
  BY <1>1 DEF ParseLine
<1> HIDE DEF v
<1>3. [u EXCEPT !.cur.NewPath = v] = St(fs, [c EXCEPT !.NewPath = v], h)
  BY DEF u, St
<1>4. [c EXCEPT !.NewPath = v] = Changed(o, v, b, hs)
  BY DEF c, Changed
<1> QED
  BY <1>2, <1>3, <1>4, Zenon DEF u, c, v

LEMMA ParseAt ==
  ASSUME NEW fs, NEW o, NEW n, NEW b, NEW hs, NEW h, NEW l, l.lead = "@@"
  PROVE  ParseLine(St(fs, Changed(o, n, b, hs), h), l)
           = St(fs, Changed(o, n, b, Flushed(hs, h)), Hunk(l.old, l.new, <<>>))
<1> DEFINE u == St(fs, Changed(o, n, b, hs), h)
           c == Changed(o, n, b, Flushed(hs, h))
           g == Hunk(l.old, l.new, <<>>)
<1>1. FlushHunk(u) = St(fs, c, None)
  BY FlushHunkIs
<1>2. [St(fs, c, None) EXCEPT !.hunk = g] = St(fs, c, g)
  <2> HIDE DEF c, g
  <2> QED
    BY DEF St
<1> HIDE DEF c, u
<1>3. ParseLine(u, l) = [FlushHunk(u) EXCEPT !.hunk = g]
  BY DEF ParseLine, Hunk
<1> QED
  BY <1>1, <1>2, <1>3, Zenon DEF u, c, g

LEMMA ParseText ==
  ASSUME NEW fs, NEW c, NEW a, NEW b, NEW ls, NEW l \in TextLines
  PROVE  ParseLine(St(fs, c, Hunk(a, b, ls)), l) = St(fs, c, Hunk(a, b, Add(ls, l)))
<1> DEFINE h == Hunk(a, b, ls)
           u == St(fs, c, h)
           x == Append(ls, l)
<1>1. h # None /\ h.Lines = ls /\ u.hunk = h
  BY NotNone, Parts
<1>2. Append(u.hunk.Lines, l) = x
  BY <1>1
<1>3. l.lead \in {"+", "-", " "}
  BY DEF TextLines
<1> HIDE DEF h, u, x
<1>4. ParseLine(u, l) = [u EXCEPT !.hunk.Lines = Append(u.hunk.Lines, l)]
  BY <1>1, <1>3 DEF ParseLine
<1>5. [u EXCEPT !.hunk.Lines = x] = St(fs, c, [h EXCEPT !.Lines = x])
  BY DEF u, St
<1>6. [h EXCEPT !.Lines = x] = Hunk(a, b, x)
  BY DEF Hunk, h
<1> QED
  BY <1>2, <1>4, <1>5, <1>6, Zenon DEF u, h, x, Add

-----------------------------------------------------------------------------
(* The name in a header, unless a line of the file looks like one.         *)
Named(o, w, lead) == IF \E i \in DOMAIN w : w[i].lead = lead THEN "mark" ELSE o

LEMMA NamedEmpty == \A o, lead : Named(o, <<>>, lead) = o
BY DEF Named

LEMMA NamedAdd ==
  ASSUME NEW B, NEW w \in Seq(B), NEW x \in B, NEW o, NEW lead
  PROVE  Named(o, Add(w, x), lead) = IF x.lead = lead THEN "mark" ELSE Named(o, w, lead)
<1> DEFINE v == Add(w, x)
           n == Len(w)
<1>1. n \in Nat /\ DOMAIN w = 1 .. n /\ DOMAIN v = 1 .. (n + 1) /\ v[n + 1] = x /\ \A i \in 1 .. n : v[i] = w[i]
  <2>1. v \in Seq(B) /\ Len(v) = n + 1 /\ v[n + 1] = x /\ \A i \in 1 .. n : v[i] = w[i]
    BY AddType
  <2> HIDE DEF v
  <2> QED
    BY <2>1
<1> HIDE DEF v, n
<1>2. (\E i \in DOMAIN v : v[i].lead = lead) <=> x.lead = lead \/ \E i \in DOMAIN w : w[i].lead = lead
  BY <1>1
<1> QED
  BY <1>2, Zenon DEF Named, v

LEMMA NamedCat ==
  ASSUME NEW B, NEW u \in Seq(B), NEW w \in Seq(B), NEW o, NEW lead
  PROVE  Named(Named(o, u, lead), w, lead) = Named(o, Cat(u, w), lead)
<1> DEFINE v == Cat(u, w)
           m == Len(u)
           n == Len(w)
<1>1. /\ m \in Nat /\ n \in Nat /\ DOMAIN u = 1 .. m /\ DOMAIN w = 1 .. n /\ DOMAIN v = 1 .. (m + n)
      /\ \A i \in 1 .. m : v[i] = u[i]
      /\ \A i \in 1 .. n : v[m + i] = w[i]
  <2>1. v \in Seq(B) /\ Len(v) = m + n
    BY CatType
  <2>2. \A i \in 1 .. m : v[i] = u[i]
    BY CatType
  <2>3. \A i \in 1 .. n : v[m + i] = w[i]
    BY CatType
  <2> HIDE DEF v
  <2> QED
    BY <2>1, <2>2, <2>3
<1> HIDE DEF v, n, m
<1>2. ASSUME NEW i \in DOMAIN v  PROVE (i \in DOMAIN u /\ v[i] = u[i]) \/ (i - m \in DOMAIN w /\ v[i] = w[i - m])
  <2>1. CASE i <= m
    BY <1>1, <2>1
  <2>2. CASE i > m
    <3>1. i - m \in 1 .. n /\ m + (i - m) = i
      BY <1>1, <2>2
    <3> QED
      BY <1>1, <3>1
  <2> QED
    BY <1>1, <2>1, <2>2
<1>3. \A i \in DOMAIN w : m + i \in DOMAIN v /\ v[m + i] = w[i]
  BY <1>1
<1>4. \A i \in DOMAIN u : i \in DOMAIN v /\ v[i] = u[i]
  BY <1>1
<1>5. (\E i \in DOMAIN v : v[i].lead = lead)
        <=> (\E i \in DOMAIN u : u[i].lead = lead) \/ \E i \in DOMAIN w : w[i].lead = lead
  BY <1>2, <1>3, <1>4
<1> QED
  BY <1>5, Zenon DEF Named, v

(* The parse of the lines of a hunk.                                       *)
LEMMA ParseBody ==
  ASSUME NEW fs, NEW o, NEW n, NEW b, NEW hs, NEW a, NEW c, NEW w \in Seq(HunkLines)
  PROVE  PFold(St(fs, Changed(o, n, b, hs), Hunk(a, c, <<>>)), w)
           = St(fs, Changed(Named(o, w, "---"), Named(n, w, "+++"), b, hs), Hunk(a, c, Only(w, TextLines)))
<1> DEFINE st == St(fs, Changed(o, n, b, hs), Hunk(a, c, <<>>))
           R(v) == St(fs, Changed(Named(o, v, "---"), Named(n, v, "+++"), b, hs), Hunk(a, c, Only(v, TextLines)))
           T == {v \in Seq(HunkLines) : PFold(st, v) = R(v)}
<1>1. <<>> \in T
  <2>1. R(<<>>) = st
    BY NamedEmpty, OnlyEmpty, Zenon
  <2>2. PFold(st, <<>>) = st
    BY PEmpty
  <2> HIDE DEF st
  <2> QED
    BY <2>1, <2>2
<1>2. ASSUME NEW v \in Seq(HunkLines), NEW x \in HunkLines, v \in T  PROVE Add(v, x) \in T
  <2> DEFINE p == Named(o, v, "---")
             q == Named(n, v, "+++")
             ls == Only(v, TextLines)
  <2>1. PFold(st, Add(v, x)) = ParseLine(R(v), x)
    <3>1. PFold(st, Add(v, x)) = ParseLine(PFold(st, v), x)
      BY PAdd
    <3>2. PFold(st, v) = R(v)
      BY <1>2
    <3> HIDE DEF st, R
    <3> QED
      BY <3>1, <3>2, Zenon
  <2> DEFINE y == Add(v, x)
             z == R(y)
  <2>2. /\ Named(o, y, "---") = IF x.lead = "---" THEN "mark" ELSE p
        /\ Named(n, y, "+++") = IF x.lead = "+++" THEN "mark" ELSE q
        /\ Only(y, TextLines) = IF x \in TextLines THEN Add(ls, x) ELSE ls
    BY NamedAdd, OnlyAdd
  <2>3. R(v) = St(fs, Changed(p, q, b, hs), Hunk(a, c, ls))
    OBVIOUS
  <2>4. z = St(fs, Changed(Named(o, y, "---"), Named(n, y, "+++"), b, hs), Hunk(a, c, Only(y, TextLines)))
    OBVIOUS
  <2> HIDE DEF R, p, q, ls, z, y
  <2>8. ParseLine(R(v), x) = z
    <3>1. CASE x.lead = "---"
      <4>1. x.val = "mark" /\ x \notin TextLines
        BY <3>1 DEF HunkLines, TextLines
      <4>2. ParseLine(R(v), x) = St(fs, Changed(x.val, q, b, hs), Hunk(a, c, ls))
        BY <2>3, <3>1, ParseOld
      <4>3. Named(o, y, "---") = "mark" /\ Named(n, y, "+++") = q /\ Only(y, TextLines) = ls
        BY <2>2, <3>1, <4>1
      <4> QED
        BY <2>4, <4>1, <4>2, <4>3, Zenon
    <3>2. CASE x.lead = "+++"
      <4>1. x.val = "mark" /\ x \notin TextLines
        BY <3>2 DEF HunkLines, TextLines
      <4>2. ParseLine(R(v), x) = St(fs, Changed(p, x.val, b, hs), Hunk(a, c, ls))
        BY <2>3, <3>2, ParseNew
      <4>3. Named(o, y, "---") = p /\ Named(n, y, "+++") = "mark" /\ Only(y, TextLines) = ls
        BY <2>2, <3>2, <4>1
      <4> QED
        BY <2>4, <4>1, <4>2, <4>3, Zenon
    <3>3. CASE x.lead \notin {"---", "+++"}
      <4>1. x \in TextLines
        BY <3>3 DEF HunkLines, TextLines
      <4>2. ParseLine(R(v), x) = St(fs, Changed(p, q, b, hs), Hunk(a, c, Add(ls, x)))
        BY <2>3, <4>1, ParseText
      <4>3. Named(o, y, "---") = p /\ Named(n, y, "+++") = q /\ Only(y, TextLines) = Add(ls, x)
        BY <2>2, <3>3, <4>1
      <4> QED
        BY <2>4, <4>2, <4>3, Zenon
    <3> QED
      BY <3>1, <3>2, <3>3
  <2>9. Add(v, x) \in Seq(HunkLines)
    BY AddType
  <2> HIDE DEF st
  <2> QED
    BY <2>1, <2>8, <2>9 DEF z, y
<1>3. Seq(HunkLines) \subseteq T
  <2> HIDE DEF T
  <2> QED
    BY <1>1, <1>2, SeqInduct
<1> HIDE DEF st, R
<1>4. PFold(st, w) = R(w)
  BY <1>3
<1> QED
  BY <1>4 DEF st, R

-----------------------------------------------------------------------------
(* What becomes of a hunk, of the hunks of a file, and of a file.          *)
ParsedHunk(h) == Hunk(h.old, h.new, Only(HunkBody(h), TextLines))

ParsedHunks(hs) == [k \in DOMAIN hs |-> ParsedHunk(hs[k])]

Bodies(hs) == [k \in DOMAIN hs |-> HunkBody(hs[k])]

AllBody(hs) == FlattenSeq(Bodies(hs))

HunkTexts(hs) == [k \in DOMAIN hs |-> WrittenHunk(hs[k])]

IsBinary(f) == f.kind = "binary"

OldHeader(f) == IF HasHunks(f) THEN OldName(f) ELSE ""

NewHeader(f) == IF HasHunks(f) THEN NewName(f) ELSE ""

ParsedFile(f) ==
  Changed(Named(OldHeader(f), AllBody(f.hunks), "---"), Named(NewHeader(f), AllBody(f.hunks), "+++"),
          IsBinary(f), ParsedHunks(f.hunks))

ParsedFiles(fs) == [i \in DOMAIN fs |-> ParsedFile(fs[i])]

LEMMA HunksAdd ==
  ASSUME NEW hs \in Seq(BodyHunk), NEW h \in BodyHunk
  PROVE  /\ ParsedHunks(Add(hs, h)) = Add(ParsedHunks(hs), ParsedHunk(h))
         /\ Bodies(Add(hs, h)) = Add(Bodies(hs), HunkBody(h))
         /\ HunkTexts(Add(hs, h)) = Add(HunkTexts(hs), WrittenHunk(h))
<1>1. ParsedHunks(Add(hs, h)) = Add(ParsedHunks(hs), ParsedHunk(h))
  BY DEF ParsedHunks, Add
<1>2. Bodies(Add(hs, h)) = Add(Bodies(hs), HunkBody(h))
  BY DEF Bodies, Add
<1>3. HunkTexts(Add(hs, h)) = Add(HunkTexts(hs), WrittenHunk(h))
  BY DEF HunkTexts, Add
<1> QED
  BY <1>1, <1>2, <1>3

LEMMA HunksEmpty == ParsedHunks(<<>>) = <<>> /\ Bodies(<<>>) = <<>> /\ HunkTexts(<<>>) = <<>>
BY DEF ParsedHunks, Bodies, HunkTexts

LEMMA FilesAdd ==
  ASSUME NEW fs \in Seq(File), NEW f \in File
  PROVE  /\ ParsedFiles(Add(fs, f)) = Add(ParsedFiles(fs), ParsedFile(f))
         /\ Chunks(Add(fs, f)) = Add(Chunks(fs), WrittenFile(f))
<1>1. ParsedFiles(Add(fs, f)) = Add(ParsedFiles(fs), ParsedFile(f))
  BY DEF ParsedFiles, Add
<1>2. Chunks(Add(fs, f)) = Add(Chunks(fs), WrittenFile(f))
  BY DEF Chunks, Add
<1> QED
  BY <1>1, <1>2

LEMMA FilesEmpty == ParsedFiles(<<>>) = <<>> /\ Chunks(<<>>) = <<>>
BY DEF ParsedFiles, Chunks

LEMMA TextsType ==
  ASSUME NEW hs \in Seq(BodyHunk)
  PROVE  /\ HunkTexts(hs) \in Seq(Seq(RestLines)) /\ FlattenSeq(HunkTexts(hs)) \in Seq(RestLines)
         /\ Bodies(hs) \in Seq(Seq(HunkLines)) /\ AllBody(hs) \in Seq(HunkLines)
<1>1. \A k \in DOMAIN hs : hs[k] \in BodyHunk
  OBVIOUS
<1>2. \A k \in DOMAIN hs : WrittenHunk(hs[k]) \in Seq(RestLines) /\ HunkBody(hs[k]) \in Seq(HunkLines)
  BY <1>1, HunkType
<1>3. HunkTexts(hs) \in Seq(Seq(RestLines)) /\ Bodies(hs) \in Seq(Seq(HunkLines))
  <2>1. HunkTexts(hs) \in Seq(Seq(RestLines))
    BY <1>2 DEF HunkTexts
  <2>2. Bodies(hs) \in Seq(Seq(HunkLines))
    BY <1>2 DEF Bodies
  <2> QED
    BY <2>1, <2>2
<1> QED
  BY <1>3, FlattenType DEF AllBody

(* One hunk.                                                               *)
LEMMA ParseHunk ==
  ASSUME NEW fs, NEW o, NEW n, NEW b, NEW hs, NEW g, NEW h \in BodyHunk
  PROVE  PFold(St(fs, Changed(o, n, b, hs), g), WrittenHunk(h))
           = St(fs, Changed(Named(o, HunkBody(h), "---"), Named(n, HunkBody(h), "+++"), b, Flushed(hs, g)),
                ParsedHunk(h))
<1> DEFINE a == AtLine(h)
           w == HunkBody(h)
           st == St(fs, Changed(o, n, b, hs), g)
           mid == St(fs, Changed(o, n, b, Flushed(hs, g)), Hunk(h.old, h.new, <<>>))
<1>1. a.lead = "@@" /\ a.old = h.old /\ a.new = h.new
  BY DEF AtLine
<1>2. a \in RestLines /\ w \in Seq(RestLines) /\ w \in Seq(HunkLines) /\ WrittenHunk(h) = Cat(<<a>>, w)
  BY HunkType
<1> HIDE DEF a, w
<1>3. <<a>> \in Seq(RestLines)
  BY <1>2, OneType
<1>4. PFold(st, Cat(<<a>>, w)) = PFold(PFold(st, <<a>>), w)
  BY <1>2, <1>3, PCat
<1>5. PFold(st, <<a>>) = ParseLine(st, a)
  BY POne
<1>6. ParseLine(st, a) = St(fs, Changed(o, n, b, Flushed(hs, g)), Hunk(a.old, a.new, <<>>))
  BY <1>1, ParseAt
<1>7. PFold(mid, w) = St(fs, Changed(Named(o, w, "---"), Named(n, w, "+++"), b, Flushed(hs, g)),
                         Hunk(h.old, h.new, Only(w, TextLines)))
  BY <1>2, ParseBody
<1> QED
  BY <1>1, <1>2, <1>4, <1>5, <1>6, <1>7, Zenon DEF w, ParsedHunk

(* All hunks of a file.                                                    *)
BeforeHunks(fs, o, n, b) == St(fs, Changed(o, n, b, <<>>), None)

AfterHunks(fs, o, n, b, H, hs, g) ==
  St(fs, Changed(Named(o, AllBody(H), "---"), Named(n, AllBody(H), "+++"), b, hs), g)

LEMMA BeginBinary ==
  ASSUME NEW fs, NEW o, NEW n, NEW b, NEW l \in BinaryLines
  PROVE  ParseLine(BeforeHunks(fs, o, n, b), l) = BeforeHunks(fs, o, n, Yes)
<1> DEFINE z == <<>>
           x == None
<1> HIDE DEF z, x
<1>1. ParseLine(St(fs, Changed(o, n, b, z), x), l) = St(fs, Changed(o, n, Yes, z), x)
  BY ParseBinary
<1> QED
  BY <1>1 DEF BeforeHunks, z, x

LEMMA BeginOld ==
  ASSUME NEW fs, NEW o, NEW n, NEW b, NEW l, l.lead = "---"
  PROVE  ParseLine(BeforeHunks(fs, o, n, b), l) = BeforeHunks(fs, l.val, n, b)
<1> DEFINE z == <<>>
           x == None
<1> HIDE DEF z, x
<1>1. ParseLine(St(fs, Changed(o, n, b, z), x), l) = St(fs, Changed(l.val, n, b, z), x)
  BY ParseOld
<1> QED
  BY <1>1 DEF BeforeHunks, z, x

LEMMA BeginNew ==
  ASSUME NEW fs, NEW o, NEW n, NEW b, NEW l, l.lead = "+++"
  PROVE  ParseLine(BeforeHunks(fs, o, n, b), l) = BeforeHunks(fs, o, l.val, b)
<1> DEFINE z == <<>>
           x == None
<1> HIDE DEF z, x
<1>1. ParseLine(St(fs, Changed(o, n, b, z), x), l) = St(fs, Changed(o, l.val, b, z), x)
  BY ParseNew
<1> QED
  BY <1>1 DEF BeforeHunks, z, x

LEMMA ParseHunks ==
  ASSUME NEW fs, NEW o, NEW n, NEW b, NEW H \in Seq(BodyHunk)
  PROVE  \E hs, g :
           /\ PFold(BeforeHunks(fs, o, n, b), FlattenSeq(HunkTexts(H))) = AfterHunks(fs, o, n, b, H, hs, g)
           /\ Flushed(hs, g) = ParsedHunks(H)
<1> DEFINE st == BeforeHunks(fs, o, n, b)
           R(G, hs, g) == AfterHunks(fs, o, n, b, G, hs, g)
           T == {G \in Seq(BodyHunk) :
                   \E hs, g : PFold(st, FlattenSeq(HunkTexts(G))) = R(G, hs, g) /\ Flushed(hs, g) = ParsedHunks(G)}
<1>1. <<>> \in T
  <2>1. AllBody(<<>>) = <<>> /\ FlattenSeq(HunkTexts(<<>>)) = <<>>
    BY HunksEmpty, FlattenEmpty, Zenon DEF AllBody
  <2>2. R(<<>>, <<>>, None) = st
    BY <2>1, NamedEmpty, Zenon DEF AfterHunks, BeforeHunks
  <2>3. Flushed(<<>>, None) = ParsedHunks(<<>>)
    BY HunksEmpty, Zenon DEF Flushed
  <2> HIDE DEF R, st
  <2>4. PFold(st, FlattenSeq(HunkTexts(<<>>))) = R(<<>>, <<>>, None)
    BY <2>1, <2>2, PEmpty, Zenon
  <2>5. <<>> \in Seq(BodyHunk)
    OBVIOUS
  <2> QED
    BY <2>3, <2>4, <2>5, Zenon
<1>2. ASSUME NEW G \in Seq(BodyHunk), NEW h \in BodyHunk, G \in T  PROVE Add(G, h) \in T
  <2>1. PICK hs, g : PFold(st, FlattenSeq(HunkTexts(G))) = R(G, hs, g) /\ Flushed(hs, g) = ParsedHunks(G)
    BY <1>2
  <2> DEFINE w == HunkBody(h)
             u == AllBody(G)
             p == ParsedHunk(h)
             y == Add(G, h)
  <2>2. FlattenSeq(HunkTexts(y)) = Cat(FlattenSeq(HunkTexts(G)), WrittenHunk(h))
    <3>1. HunkTexts(y) = Add(HunkTexts(G), WrittenHunk(h))
      BY HunksAdd
    <3>2. HunkTexts(G) \in Seq(Seq(RestLines)) /\ WrittenHunk(h) \in Seq(RestLines)
      BY TextsType, HunkType
    <3>3. FlattenSeq(Add(HunkTexts(G), WrittenHunk(h))) = Cat(FlattenSeq(HunkTexts(G)), WrittenHunk(h))
      BY <3>2, FlattenAdd
    <3> QED
      BY <3>1, <3>3, Zenon
  <2>3. PFold(st, Cat(FlattenSeq(HunkTexts(G)), WrittenHunk(h)))
          = PFold(PFold(st, FlattenSeq(HunkTexts(G))), WrittenHunk(h))
    <3>1. FlattenSeq(HunkTexts(G)) \in Seq(RestLines) /\ WrittenHunk(h) \in Seq(RestLines)
      BY TextsType, HunkType
    <3> QED
      BY <3>1, PCat
  <2>4. PFold(R(G, hs, g), WrittenHunk(h))
          = St(fs, Changed(Named(Named(o, u, "---"), w, "---"), Named(Named(n, u, "+++"), w, "+++"), b,
                           Flushed(hs, g)), p)
    BY ParseHunk DEF AfterHunks
  <2>5. AllBody(y) = Cat(u, w)
    <3>1. Bodies(y) = Add(Bodies(G), w)
      BY HunksAdd
    <3>2. Bodies(G) \in Seq(Seq(HunkLines)) /\ w \in Seq(HunkLines)
      BY TextsType, HunkType
    <3>3. FlattenSeq(Add(Bodies(G), w)) = Cat(FlattenSeq(Bodies(G)), w)
      BY <3>2, FlattenAdd
    <3> QED
      BY <3>1, <3>3, Zenon DEF AllBody
  <2>6. /\ Named(Named(o, u, "---"), w, "---") = Named(o, Cat(u, w), "---")
        /\ Named(Named(n, u, "+++"), w, "+++") = Named(n, Cat(u, w), "+++")
    <3>1. u \in Seq(HunkLines) /\ w \in Seq(HunkLines)
      BY TextsType, HunkType
    <3> QED
      BY <3>1, NamedCat
  <2>7. Flushed(Flushed(hs, g), p) = ParsedHunks(y)
    <3>1. p # None
      BY NotNone DEF ParsedHunk
    <3>2. Flushed(Flushed(hs, g), p) = Add(Flushed(hs, g), p)
      BY <3>1, Zenon DEF Flushed
    <3>3. ParsedHunks(y) = Add(ParsedHunks(G), p)
      BY HunksAdd
    <3> QED
      BY <2>1, <3>2, <3>3, Zenon
  <2>8. R(y, Flushed(hs, g), p)
          = St(fs, Changed(Named(o, AllBody(y), "---"), Named(n, AllBody(y), "+++"), b, Flushed(hs, g)), p)
    BY Zenon DEF AfterHunks
  <2> HIDE DEF R, st, w, u, p, y
  <2>9. PFold(st, FlattenSeq(HunkTexts(y))) = R(y, Flushed(hs, g), p)
    BY <2>1, <2>2, <2>3, <2>4, <2>5, <2>6, <2>8, Zenon
  <2>10. y \in Seq(BodyHunk)
    BY AddType DEF y
  <2> QED
    BY <2>7, <2>9, <2>10, Zenon DEF y
<1>3. Seq(BodyHunk) \subseteq T
  <2> HIDE DEF T
  <2> QED
    BY <1>1, <1>2, SeqInduct
<1> HIDE DEF st, R
<1>4. \E hs, g : PFold(st, FlattenSeq(HunkTexts(H))) = R(H, hs, g) /\ Flushed(hs, g) = ParsedHunks(H)
  BY <1>3
<1> QED
  BY <1>4 DEF st, R

LEMMA TwoIsCat == ASSUME NEW x, NEW y  PROVE <<x, y>> = Cat(<<x>>, <<y>>)
<1>1. <<x, y>> = Add(<<x>>, y)
  BY DEF Add
<1>2. <<x>> \in Seq({x, y}) /\ y \in {x, y}
  BY OneType
<1>3. Add(<<x>>, y) = Cat(<<x>>, <<y>>)
  BY <1>2, AddIsCat
<1> QED
  BY <1>1, <1>3, Zenon

(* One file.                                                               *)
LEMMA ParseFile ==
  ASSUME NEW st, NEW fs, FlushFile(st) = St(fs, None, None), NEW f \in File
  PROVE  FlushFile(PFold(st, WrittenFile(f))) = St(Add(fs, ParsedFile(f)), None, None)
<1> DEFINE a == HeadOf(f)
           u == BinaryPart(f)
           v == HeaderPart(f)
           w == FlattenSeq(HunkTexts(f.hunks))
           o == OldHeader(f)
           n == NewHeader(f)
           b == IsBinary(f)
           H == f.hunks
           s0 == BeforeHunks(fs, "", "", No)
           s1 == BeforeHunks(fs, "", "", b)
           s2 == BeforeHunks(fs, o, n, b)
<1>1. /\ a \in HeadLines /\ u \in Seq(RestLines) /\ v \in Seq(RestLines) /\ w \in Seq(RestLines)
      /\ H \in Seq(BodyHunk)
  <2>1. H \in Seq(BodyHunk)
    BY DEF File
  <2> QED
    BY <2>1, FileIs, PartsType, TextsType
<1>2. WrittenFile(f) = Cat(<<a>>, Cat(Cat(u, v), w))
  <2>1. RestOf(f) = Cat(Cat(u, v), w)
    BY Zenon DEF RestOf, HunkParts, HunkTexts
  <2>2. WrittenFile(f) = Cat(<<a>>, RestOf(f))
    BY FileIs
  <2> QED
    BY <2>1, <2>2, Zenon
<1>3. PFold(st, <<a>>) = s0
  <2>1. PFold(st, <<a>>) = ParseLine(st, a)
    BY POne
  <2>2. ParseLine(st, a) = s0
    <3>1. NoFile = Changed("", "", No, <<>>)
      BY Zenon DEF NoFile, Changed, No
    <3>2. ParseLine(st, a) = St(fs, NoFile, None)
      BY <1>1, ParseHead
    <3> QED
      BY <3>1, <3>2, Zenon DEF BeforeHunks
  <2> QED
    BY <2>1, <2>2
<1>4. PFold(s0, u) = s1
  <2>1. CASE f.kind = "binary"
    <3> DEFINE l == Line("Binary files", f.path)
    <3>1. l \in BinaryLines
      <4>1. f.path \in Value /\ "Binary files" \in Lead
        BY ValueType DEF File, Lead
      <4> QED
        BY <4>1, LineType DEF BinaryLines
    <3> HIDE DEF l
    <3>2. PFold(s0, <<l>>) = ParseLine(s0, l)
      BY POne
    <3>3. ParseLine(s0, l) = BeforeHunks(fs, "", "", Yes)
      BY <3>1, BeginBinary
    <3>4. u = <<l>>
      BY <2>1, Zenon DEF BinaryPart, l
    <3>5. b = Yes
      BY <2>1, Zenon DEF IsBinary, Yes
    <3> QED
      BY <3>2, <3>3, <3>4, <3>5, Zenon
  <2>2. CASE f.kind # "binary"
    <3>1. u = <<>>
      BY <2>2, Zenon DEF BinaryPart
    <3>2. b = No
      BY <2>2, Zenon DEF IsBinary, No
    <3>3. PFold(s0, <<>>) = s0
      BY PEmpty
    <3> QED
      BY <3>1, <3>2, <3>3, Zenon
  <2> QED
    BY <2>1, <2>2
<1>5. PFold(s1, v) = s2
  <2>1. CASE HasHunks(f)
    <3> DEFINE l == Line("---", o)
               m == Line("+++", n)
    <3>1. o = OldName(f) /\ n = NewName(f)
      BY <2>1, Zenon DEF OldHeader, NewHeader
    <3>2. v = <<l, m>>
      BY <2>1, <3>1, Zenon DEF HeaderPart
    <3>3. l.lead = "---" /\ l.val = o /\ m.lead = "+++" /\ m.val = n
      BY DEF Line
    <3> HIDE DEF l, m, o, n, b
    <3>4. v = Cat(<<l>>, <<m>>)
      <4>1. <<l, m>> = Cat(<<l>>, <<m>>)
        BY TwoIsCat
      <4> QED
        BY <3>2, <4>1, Zenon
    <3>5. <<l>> \in Seq({l, m}) /\ <<m>> \in Seq({l, m})
      BY OneType
    <3>6. PFold(s1, Cat(<<l>>, <<m>>)) = PFold(PFold(s1, <<l>>), <<m>>)
      BY <3>5, PCat
    <3>7. PFold(s1, <<l>>) = ParseLine(s1, l)
      BY POne
    <3>8. ParseLine(s1, l) = BeforeHunks(fs, o, "", b)
      <4>1. l.lead = "---" /\ l.val = o
        BY <3>3
      <4>2. ASSUME NEW e  PROVE ParseLine(BeforeHunks(fs, e, e, b), l) = BeforeHunks(fs, l.val, e, b)
        BY <4>1, BeginOld
      <4> QED
        BY <4>1, <4>2, Zenon
    <3> DEFINE s == BeforeHunks(fs, o, "", b)
    <3>9. PFold(s, <<m>>) = ParseLine(s, m)
      BY POne
    <3>10. ParseLine(s, m) = s2
      <4>1. m.lead = "+++" /\ m.val = n
        BY <3>3
      <4>2. ASSUME NEW e  PROVE ParseLine(BeforeHunks(fs, o, e, b), m) = BeforeHunks(fs, o, m.val, b)
        BY <4>1, BeginNew
      <4> QED
        BY <4>1, <4>2, Zenon
    <3> QED
      BY <3>4, <3>6, <3>7, <3>8, <3>9, <3>10, Zenon
  <2>2. CASE ~HasHunks(f)
    <3>1. v = <<>> /\ o = "" /\ n = ""
      BY <2>2, Zenon DEF HeaderPart, OldHeader, NewHeader
    <3>2. PFold(s1, <<>>) = s1
      BY PEmpty
    <3> QED
      BY <3>1, <3>2, Zenon
  <2> QED
    BY <2>1, <2>2
<1>6. PICK hs, g :
        /\ PFold(s2, w) = St(fs, Changed(Named(o, AllBody(H), "---"), Named(n, AllBody(H), "+++"), b, hs), g)
        /\ Flushed(hs, g) = ParsedHunks(H)
  <2>0. H \in Seq(BodyHunk)
    BY <1>1
  <2> HIDE DEF H, w, o, n, b
  <2>1. \E hs, g :
          /\ PFold(s2, FlattenSeq(HunkTexts(H))) = AfterHunks(fs, o, n, b, H, hs, g)
          /\ Flushed(hs, g) = ParsedHunks(H)
    BY <2>0, ParseHunks
  <2>2. w = FlattenSeq(HunkTexts(H))
    BY DEF w, H
  <2> HIDE DEF s2
  <2>3. \E hs, g : PFold(s2, w) = AfterHunks(fs, o, n, b, H, hs, g) /\ Flushed(hs, g) = ParsedHunks(H)
    BY <2>1, <2>2, Zenon
  <2> QED
    BY <2>3 DEF AfterHunks
<1>7. PFold(st, WrittenFile(f)) = PFold(s2, w)
  <2> HIDE DEF a, u, v, w, s0, s1, s2
  <2>1. HeadLines \subseteq LineSet /\ RestLines \subseteq LineSet
    BY DEF HeadLines, RestLines
  <2>2. <<a>> \in Seq(LineSet)
    BY <1>1, <2>1, OneType
  <2>3. u \in Seq(LineSet) /\ v \in Seq(LineSet) /\ w \in Seq(LineSet)
    BY <1>1, <2>1, SeqWider
  <2>4. Cat(u, v) \in Seq(LineSet)
    BY <2>3, CatType
  <2>5. Cat(Cat(u, v), w) \in Seq(LineSet)
    BY <2>3, <2>4, CatType
  <2>6. PFold(st, Cat(<<a>>, Cat(Cat(u, v), w))) = PFold(PFold(st, <<a>>), Cat(Cat(u, v), w))
    BY <2>2, <2>5, PCat
  <2>7. PFold(s0, Cat(Cat(u, v), w)) = PFold(PFold(s0, Cat(u, v)), w)
    BY <2>3, <2>4, PCat
  <2>8. PFold(s0, Cat(u, v)) = PFold(PFold(s0, u), v)
    BY <2>3, PCat
  <2> QED
    BY <1>2, <1>3, <1>4, <1>5, <2>6, <2>7, <2>8, Zenon
<1> DEFINE p == Named(o, AllBody(H), "---")
           q == Named(n, AllBody(H), "+++")
<1>8. ParsedFile(f) = Changed(p, q, b, ParsedHunks(H))
  BY Zenon DEF ParsedFile
<1> HIDE DEF p, q, b, s2, w, H
<1>9. FlushFile(St(fs, Changed(p, q, b, hs), g)) = St(Add(fs, Changed(p, q, b, Flushed(hs, g))), None, None)
  BY FlushFileIs
<1> QED
  BY <1>6, <1>7, <1>8, <1>9, Zenon DEF p, q

(* The whole diff.                                                         *)
LEMMA ParseAll ==
  ASSUME NEW fs \in Seq(File)
  PROVE  ParseUnifiedDiff(FlattenSeq(Chunks(fs))) = ParsedFiles(fs)
<1> DEFINE st == St(<<>>, None, None)
           T == {gs \in Seq(File) :
                  FlushFile(PFold(st, FlattenSeq(Chunks(gs)))) = St(ParsedFiles(gs), None, None)}
<1>1. <<>> \in T
  <2>1. FlattenSeq(Chunks(<<>>)) = <<>> /\ ParsedFiles(<<>>) = <<>>
    BY FilesEmpty, FlattenEmpty, Zenon
  <2>2. PFold(st, <<>>) = st
    BY PEmpty
  <2>3. FlushFile(st) = st
    BY FlushNone
  <2>4. <<>> \in Seq(File)
    OBVIOUS
  <2> QED
    BY <2>1, <2>2, <2>3, <2>4, Zenon
<1>2. ASSUME NEW gs \in Seq(File), NEW f \in File, gs \in T  PROVE Add(gs, f) \in T
  <2> DEFINE u == FlattenSeq(Chunks(gs))
             w == WrittenFile(f)
             s == PFold(st, u)
  <2>1. Chunks(gs) \in Seq(Seq(LineSet)) /\ w \in Seq(LineSet)
    BY ChunksType, FileIs
  <2>2. Chunks(Add(gs, f)) = Add(Chunks(gs), w) /\ ParsedFiles(Add(gs, f)) = Add(ParsedFiles(gs), ParsedFile(f))
    BY FilesAdd
  <2>3. FlattenSeq(Add(Chunks(gs), w)) = Cat(u, w) /\ u \in Seq(LineSet)
    BY <2>1, FlattenAdd, FlattenType
  <2>4. FlushFile(s) = St(ParsedFiles(gs), None, None)
    BY <1>2
  <2> HIDE DEF u, w
  <2>5. PFold(st, Cat(u, w)) = PFold(s, w)
    BY <2>1, <2>3, PCat
  <2> HIDE DEF s, st
  <2>6. FlushFile(PFold(s, WrittenFile(f))) = St(Add(ParsedFiles(gs), ParsedFile(f)), None, None)
    BY <2>4, ParseFile
  <2>7. Add(gs, f) \in Seq(File)
    BY AddType
  <2>8. FlushFile(PFold(st, FlattenSeq(Chunks(Add(gs, f))))) = St(ParsedFiles(Add(gs, f)), None, None)
    BY <2>2, <2>3, <2>5, <2>6, Zenon DEF w
  <2> QED
    BY <2>7, <2>8, Zenon
<1>3. Seq(File) \subseteq T
  <2> HIDE DEF T
  <2> QED
    BY <1>1, <1>2, SeqInduct
<1>4. FlushFile(PFold(st, FlattenSeq(Chunks(fs)))) = St(ParsedFiles(fs), None, None)
  BY <1>3
<1>5. ParseUnifiedDiff(FlattenSeq(Chunks(fs))) = FlushFile(PFold(st, FlattenSeq(Chunks(fs)))).files
  BY Zenon DEF ParseUnifiedDiff, PFold, St
<1>6. St(ParsedFiles(fs), None, None).files = ParsedFiles(fs)
  BY Parts
<1> QED
  BY <1>4, <1>5, <1>6, Zenon

-----------------------------------------------------------------------------
(* What Build leaves.                                                      *)
BuiltOf(diff) ==
  [error |-> FALSE, diff |-> diff, changed |-> ParseUnifiedDiff(diff),
   user |-> InitialUser(diff, ParseUnifiedDiff(diff)),
   session |-> SessionDiff(SplitDiffByFile(diff)),
   parallel |-> BuildDiffByFile(ParseUnifiedDiff(diff), SplitDiffByFile(diff))]

BuiltError == [error |-> TRUE]

(* The files are well formed, and the context is made of git's diff or of  *)
(* its complaint.                                                          *)
BuiltOK == built \in {None, BuiltError, BuiltOf(GitDiff), BuiltOf(Fatal)}

IInv == FilesOK(files) /\ BuiltOK

LEMMA RunGitDiffIs ==
  ASSUME NEW explicit \in BOOLEAN, NEW diff \in RunGitDiff(explicit)
  PROVE  diff.out \in {GitDiff, Fatal}
<1> DEFINE G == GitDiff
           F == Fatal
           A == {[out |-> G, err |-> FALSE], [out |-> F, err |-> TRUE]}
<1>1. diff \in A
  <2> HIDE DEF G, F
  <2>1. A = {[out |-> G, err |-> FALSE], [out |-> F, err |-> TRUE]}
    OBVIOUS
  <2> QED
    BY Zenon DEF RunGitDiff, G, F
<1> HIDE DEF G, F
<1>2. diff.out \in {G, F}
  BY <1>1
<1> QED
  BY <1>2 DEF G, F

LEMMA BuildIs ==
  ASSUME Build
  PROVE  /\ built = None /\ Complete /\ files' = files
         /\ built' \in {BuiltError, BuiltOf(GitDiff), BuiltOf(Fatal)}
<1>1. PICK explicit \in BOOLEAN : \E diff \in RunGitDiff(explicit) :
         IF diff.err /\ explicit THEN built' = BuiltError ELSE built' = BuiltOf(diff.out)
  BY Zenon DEF Build, BuiltOf, BuiltError
<1>2. PICK diff \in RunGitDiff(explicit) : built' = BuiltError \/ built' = BuiltOf(diff.out)
  BY <1>1
<1>3. diff.out \in {GitDiff, Fatal}
  BY RunGitDiffIs
<1>4. built' \in {BuiltError, BuiltOf(GitDiff), BuiltOf(Fatal)}
  BY <1>2, <1>3
<1>5. built = None /\ Complete /\ files' = files
  BY DEF Build
<1> QED
  BY <1>4, <1>5

LEMMA GitDiffIs == GitDiff = FlattenSeq(Chunks(files))
BY Zenon DEF GitDiff, Chunks

LEMMA InvInit == Init => IInv
<1> SUFFICES ASSUME Init  PROVE IInv
  OBVIOUS
<1>1. files = <<>> /\ built = None
  BY DEF Init
<1>2. FilesOK(files)
  BY <1>1, NamesType DEF FilesOK
<1> QED
  BY <1>1, <1>2 DEF IInv, BuiltOK

LEMMA InvNext == IInv /\ [Next]_vars => IInv'
<1> SUFFICES ASSUME IInv, [Next]_vars  PROVE IInv'
  OBVIOUS
<1>0. FilesOK(files) /\ BuiltOK
  BY DEF IInv
<1>1. ASSUME files' = files  PROVE FilesOK(files')
  BY <1>0, <1>1
<1>2. ASSUME built' = None  PROVE BuiltOK'
  BY <1>2 DEF BuiltOK
<1>3. CASE AddFile
  <2>1. FilesOK(files') /\ built' = None
    BY <1>0, <1>3, AddFileOK DEF AddFile
  <2> QED
    BY <1>2, <2>1 DEF IInv
<1>4. CASE AddHunk
  <2>1. FilesOK(files') /\ built' = None
    BY <1>0, <1>4, AddHunkOK DEF AddHunk
  <2> QED
    BY <1>2, <2>1 DEF IInv
<1>5. CASE AddLine
  <2>1. FilesOK(files') /\ built' = None
    BY <1>0, <1>5, AddLineOK DEF AddLine
  <2> QED
    BY <1>2, <2>1 DEF IInv
<1>6. CASE Build
  <2>1. built' \in {BuiltError, BuiltOf(GitDiff), BuiltOf(Fatal)} /\ files' = files
    BY <1>6, BuildIs
  <2>2. GitDiff' = GitDiff /\ Fatal' = Fatal
    BY <2>1 DEF GitDiff, Fatal
  <2>3. BuiltOf(GitDiff') = BuiltOf(GitDiff) /\ BuiltOf(Fatal') = BuiltOf(Fatal)
    BY <2>2
  <2>4. BuiltOK'
    BY <2>1, <2>3 DEF BuiltOK
  <2> QED
    BY <1>0, <2>1, <2>4 DEF IInv
<1>7. CASE UNCHANGED vars
  <2>1. files' = files /\ built' = built
    BY <1>7 DEF vars
  <2>2. BuiltOK'
    BY <1>0, <2>1 DEF BuiltOK, GitDiff
  <2> QED
    BY <1>0, <2>1, <2>2 DEF IInv
<1>8. CASE Terminated
  BY <1>7, <1>8 DEF Terminated
<1> QED
  BY <1>3, <1>4, <1>5, <1>6, <1>7, <1>8 DEF Next

LEMMA Invariant == Spec => []IInv
BY InvInit, InvNext, PTL DEF Spec

(* Past Build, unless git failed, the parts are those of git's diff.       *)
LEMMA ParsedIs ==
  ASSUME IInv, Parsed
  PROVE  built = BuiltOf(GitDiff) /\ files \in Seq(File) /\ FilesOK(files)
<1>1. built # None /\ ~built.error /\ built.diff # Fatal
  BY DEF Parsed
<1>2. BuiltError.error = TRUE
  BY DEF BuiltError
<1>3. BuiltOf(Fatal).diff = Fatal
  BY DEF BuiltOf
<1>4. built = BuiltOf(GitDiff)
  BY <1>1, <1>2, <1>3 DEF IInv, BuiltOK
<1> QED
  BY <1>4 DEF IInv, FilesOK

-----------------------------------------------------------------------------
(* A file without a line that looks like a header.                         *)
LEMMA PlainBody ==
  ASSUME NEW f \in File, ~Lookalike(f), NEW k \in DOMAIN f.hunks
  PROVE  /\ f.hunks[k] \in BodyHunk
         /\ HunkBody(f.hunks[k]) \in Seq(TextLines)
         /\ Only(HunkBody(f.hunks[k]), TextLines) = HunkBody(f.hunks[k])
         /\ HunkBody(f.hunks[k]) = [j \in DOMAIN f.hunks[k].lines |->
                                      Line(f.hunks[k].lines[j].op, f.hunks[k].lines[j].text)]
<1> DEFINE h == f.hunks[k]
<1>1. h \in BodyHunk
  BY DEF File
<1>2. \A j \in DOMAIN h.lines : Written(h.lines[j]).lead \notin {"---", "+++"}
  BY DEF Lookalike
<1> HIDE DEF h
<1>3. h.lines \in Seq(BodyLine)
  BY <1>1 DEF BodyHunk
<1>4. \A j \in DOMAIN h.lines :
        /\ Written(h.lines[j]) \in TextLines
        /\ Written(h.lines[j]) = Line(h.lines[j].op, h.lines[j].text)
  <2> SUFFICES ASSUME NEW j \in DOMAIN h.lines
               PROVE  /\ Written(h.lines[j]) \in TextLines
                      /\ Written(h.lines[j]) = Line(h.lines[j].op, h.lines[j].text)
    OBVIOUS
  <2>1. h.lines[j] \in BodyLine
    BY <1>3
  <2>2. Written(h.lines[j]).lead \notin {"---", "+++"}
    BY <1>2
  <2> QED
    BY <2>1, <2>2, WrittenType
<1>5. HunkBody(h) \in Seq(TextLines)
  BY <1>3, <1>4 DEF HunkBody
<1>6. Only(HunkBody(h), TextLines) = HunkBody(h)
  BY <1>5, OnlyAll
<1>7. HunkBody(h) = [j \in DOMAIN h.lines |-> Line(h.lines[j].op, h.lines[j].text)]
  BY <1>4 DEF HunkBody
<1> QED
  BY <1>1, <1>5, <1>6, <1>7 DEF h

LEMMA NamedKept ==
  ASSUME NEW w \in Seq(TextLines), NEW o
  PROVE  Named(o, w, "---") = o /\ Named(o, w, "+++") = o
<1>1. \A i \in DOMAIN w : w[i] \in TextLines
  OBVIOUS
<1>2. \A l \in TextLines : l.lead # "---" /\ l.lead # "+++"
  BY DEF TextLines
<1> QED
  BY <1>1, <1>2 DEF Named

LEMMA PlainFile ==
  ASSUME NEW f \in File, ~Lookalike(f)
  PROVE  /\ AllBody(f.hunks) \in Seq(TextLines)
         /\ ParsedFile(f) = Changed(OldHeader(f), NewHeader(f), IsBinary(f), ParsedHunks(f.hunks))
<1> DEFINE hs == f.hunks
<1>1. hs \in Seq(BodyHunk)
  BY DEF File
<1>2. \A k \in DOMAIN hs : HunkBody(hs[k]) \in Seq(TextLines)
  BY PlainBody
<1> HIDE DEF hs
<1>3. Bodies(hs) \in Seq(Seq(TextLines))
  BY <1>1, <1>2 DEF Bodies
<1>4. AllBody(hs) \in Seq(TextLines)
  BY <1>3, FlattenType DEF AllBody
<1>5. Named(OldHeader(f), AllBody(hs), "---") = OldHeader(f) /\ Named(NewHeader(f), AllBody(hs), "+++") = NewHeader(f)
  BY <1>4, NamedKept
<1> QED
  BY <1>4, <1>5, Zenon DEF ParsedFile, hs

(* The parse is git's writing, file by file.                               *)
ParsedRight(c, f) ==
  c = [OldPath |-> IF HasHunks(f) THEN OldName(f) ELSE "",
       NewPath |-> IF HasHunks(f) THEN NewName(f) ELSE "",
       Binary |-> f.kind = "binary",
       Hunks |-> [k \in DOMAIN f.hunks |->
                   [OldStart |-> f.hunks[k].old, NewStart |-> f.hunks[k].new,
                    Lines |-> [j \in DOMAIN f.hunks[k].lines |->
                                 Line(f.hunks[k].lines[j].op, f.hunks[k].lines[j].text)]]]]

LEMMA FileParsedRight ==
  ASSUME NEW f \in File, ~Lookalike(f)
  PROVE  ParsedRight(ParsedFile(f), f)
<1> DEFINE Of(k) == [OldStart |-> f.hunks[k].old, NewStart |-> f.hunks[k].new,
                     Lines |-> [j \in DOMAIN f.hunks[k].lines |->
                                  Line(f.hunks[k].lines[j].op, f.hunks[k].lines[j].text)]]
           hs == f.hunks
<1>1. \A k \in DOMAIN hs : ParsedHunk(hs[k]) = Of(k)
  <2> SUFFICES ASSUME NEW k \in DOMAIN hs  PROVE ParsedHunk(hs[k]) = Of(k)
    OBVIOUS
  <2> QED
    BY PlainBody, Zenon DEF ParsedHunk, Hunk
<1> HIDE DEF Of
<1>2. ParsedHunks(hs) = [k \in DOMAIN hs |-> Of(k)]
  BY <1>1 DEF ParsedHunks
<1>3. ParsedFile(f) = Changed(OldHeader(f), NewHeader(f), IsBinary(f), ParsedHunks(hs))
  BY PlainFile
<1> QED
  BY <1>2, <1>3, Zenon DEF ParsedRight, Changed, OldHeader, NewHeader, IsBinary, Of

LEMMA ParsedFilesAre ==
  ASSUME NEW fs \in Seq(File)
  PROVE  /\ Len(ParsedFiles(fs)) = Len(fs) /\ DOMAIN ParsedFiles(fs) = DOMAIN fs
         /\ \A i \in DOMAIN fs : ParsedFiles(fs)[i] = ParsedFile(fs[i]) /\ fs[i] \in File
BY DEF ParsedFiles

LEMMA ParsedAsInv == IInv => ParsedAsGitWrote
<1> SUFFICES ASSUME IInv, Parsed
             PROVE  /\ Len(built.changed) = Len(files)
                    /\ \A i \in DOMAIN files : ~Lookalike(files[i]) => ParsedRight(built.changed[i], files[i])
  BY Zenon DEF ParsedAsGitWrote, ParsedRight
<1>1. built = BuiltOf(GitDiff) /\ files \in Seq(File)
  BY ParsedIs
<1>2. built.changed = ParsedFiles(files)
  <2>1. ParseUnifiedDiff(GitDiff) = ParsedFiles(files)
    BY <1>1, GitDiffIs, ParseAll
  <2>2. BuiltOf(GitDiff).changed = ParseUnifiedDiff(GitDiff)
    BY DEF BuiltOf
  <2> QED
    BY <1>1, <2>1, <2>2
<1>3. Len(built.changed) = Len(files)
  BY <1>1, <1>2, ParsedFilesAre
<1>4. ASSUME NEW i \in DOMAIN files, ~Lookalike(files[i])  PROVE ParsedRight(built.changed[i], files[i])
  <2>1. built.changed[i] = ParsedFile(files[i]) /\ files[i] \in File
    BY <1>1, <1>2, ParsedFilesAre
  <2>2. ParsedRight(ParsedFile(files[i]), files[i])
    BY <1>4, <2>1, FileParsedRight
  <2> QED
    BY <2>1, <2>2, Zenon
<1> QED
  BY <1>3, <1>4

(* ParsedAsGitWrote: a file of the diff that has no line like a header is  *)
(* parsed into what git wrote of it, whatever the other files look like    *)
(* (ParseUnifiedDiff).                                                     *)
THEOREM DiffParsedAsGitWrote == Spec => []ParsedAsGitWrote
BY Invariant, ParsedAsInv, PTL

-----------------------------------------------------------------------------
(* The name of a chunk.                                                    *)
NameLines == {l \in LineSet : l.lead = "+++" /\ l.val # "/dev/null"}

ChunkName(f) == IF HasText(f) THEN f.path ELSE ""

LEMMA NamesApart ==
  /\ \A p \in Range(Names) : p # "" /\ p # "/dev/null" /\ p \notin Texts
  /\ \A i, j \in DOMAIN Names : Names[i] = Names[j] => i = j
<1>1. \A p \in Range(Names) : p # "" /\ p # "/dev/null" /\ p \notin Texts
  BY DiffAssumption
<1>2. IsInjective(Names)
  BY DiffAssumption
<1>3. \A i, j \in DOMAIN Names : Names[i] = Names[j] => i = j
  BY <1>2 DEF IsInjective
<1> QED
  BY <1>1, <1>3

(* Without such lines a chunk has no name.                                 *)
LEMMA ChunkPathIs ==
  ASSUME NEW c \in Seq(LineSet)
  PROVE  DiffChunkPath(c) = IF Only(c, NameLines) = <<>> THEN "" ELSE Head(Only(c, NameLines)).val
<1> DEFINE J == {l \in Range(c) : l.lead = "+++" /\ l.val # "/dev/null"}
<1>1. DiffChunkPath(c) = IF Only(c, J) = <<>> THEN "" ELSE Head(Only(c, J)).val
  BY Zenon DEF DiffChunkPath, Select
<1>2. Range(c) \subseteq LineSet
  BY RangeType
<1>3. J = {l \in Range(c) : l \in NameLines}
  BY <1>2 DEF NameLines
<1> HIDE DEF J
<1>4. Only(c, J) = Only(c, NameLines)
  BY <1>3, OnlyTest
<1> QED
  BY <1>1, <1>4, Zenon

LEMMA OnlyOne ==
  ASSUME NEW x, NEW J
  PROVE  Only(<<x>>, J) = IF x \in J THEN <<x>> ELSE <<>>
<1>1. <<>> \in Seq({x}) /\ x \in {x}
  OBVIOUS
<1>2. Only(Add(<<>>, x), J) = IF x \in J THEN Add(Only(<<>>, J), x) ELSE Only(<<>>, J)
  BY <1>1, OnlyAdd
<1>3. Only(<<>>, J) = <<>>
  BY OnlyEmpty
<1>4. <<x>> = Add(<<>>, x)
  BY OneIsAdd
<1> QED
  BY <1>2, <1>3, <1>4, Zenon

LEMMA PathOfText ==
  ASSUME NEW f \in File, HasText(f)
  PROVE  DiffChunkPath(WrittenFile(f)) = f.path
<1> DEFINE a == HeadOf(f)
           u == BinaryPart(f)
           l == Line("---", OldName(f))
           m == Line("+++", NewName(f))
           w == FlattenSeq(HunkTexts(f.hunks))
           J == NameLines
<1>1. HasHunks(f) /\ f.kind # "binary" /\ NewName(f) = f.path /\ f.hunks \in Seq(BodyHunk) /\ f.path \in Range(Names)
  BY DEF HasText, HasHunks, NewName, File
<1>2. u = <<>> /\ HeaderPart(f) = <<l, m>>
  BY <1>1 DEF BinaryPart, HeaderPart
<1>3. RestOf(f) = Cat(Cat(<<>>, <<l, m>>), w)
  BY <1>2, Zenon DEF RestOf, HunkParts, HunkTexts
<1>4. WrittenFile(f) = Cat(<<a>>, RestOf(f)) /\ a \in HeadLines /\ WrittenFile(f) \in Seq(LineSet) /\ RestOf(f) \in Seq(RestLines)
  BY FileIs
<1>5. l \in LineSet /\ m \in LineSet /\ l.lead = "---" /\ m.lead = "+++" /\ m.val = f.path
  <2>1. OldName(f) \in Value /\ NewName(f) \in Value
    BY <1>1, ValueType DEF OldName
  <2>2. "---" \in Lead /\ "+++" \in Lead
    BY DEF Lead
  <2>3. l \in LineSet /\ l.lead = "---"
    BY <2>1, <2>2, LineType
  <2>4. m \in LineSet /\ m.lead = "+++" /\ m.val = NewName(f)
    BY <2>1, <2>2, LineType
  <2> QED
    BY <1>1, <2>3, <2>4
<1>6. a \in LineSet /\ a.lead = "diff --git"
  BY <1>4 DEF HeadLines
<1> HIDE DEF a, l, m
<1>7. a \notin J /\ l \notin J /\ m \in J
  BY <1>1, <1>5, <1>6, NamesApart DEF NameLines
<1>8. RestLines \subseteq LineSet
  BY DEF RestLines
<1>9. w \in Seq(LineSet)
  BY <1>1, <1>8, TextsType, SeqWider
<1>10. <<a>> \in Seq(LineSet) /\ <<l>> \in Seq(LineSet) /\ <<m>> \in Seq(LineSet) /\ <<l, m>> \in Seq(LineSet)
  BY <1>5, <1>6, OneType, TwoType
<1> HIDE DEF w, J
<1> DEFINE A == <<a>>
           L == <<l>>
           M == <<m>>
           LM == <<l, m>>
           o == Only(w, J)
<1>11. /\ Only(A, J) = <<>> /\ Only(L, J) = <<>> /\ Only(M, J) = M
       /\ LM = Cat(L, M) /\ Len(M) = 1 /\ M[1] = m
  BY <1>5, <1>6, <1>7, OnlyOne, TwoIsCat
<1>12. A \in Seq(LineSet) /\ L \in Seq(LineSet) /\ M \in Seq(LineSet) /\ LM \in Seq(LineSet) /\ o \in Seq(LineSet)
  BY <1>9, <1>10, OnlySeq
<1> HIDE DEF A, L, M, LM, o
<1>13. Only(WrittenFile(f), J) = Cat(M, o)
  <2>1. Cat(<<>>, LM) = LM
    BY <1>12, CatEmpty
  <2>2. Cat(LM, w) \in Seq(LineSet)
    BY <1>9, <1>12, CatType
  <2>3. Only(Cat(A, Cat(LM, w)), J) = Cat(Only(A, J), Only(Cat(LM, w), J))
    BY <1>12, <2>2, OnlyCat
  <2>4. Only(Cat(LM, w), J) = Cat(Only(LM, J), o)
    BY <1>9, <1>12, OnlyCat DEF o
  <2>5. Only(LM, J) = Cat(Only(L, J), Only(M, J))
    BY <1>11, <1>12, OnlyCat
  <2>6. Cat(<<>>, M) = M
    BY <1>12, CatEmpty
  <2>7. Cat(M, o) \in Seq(LineSet)
    BY <1>12, CatType
  <2>8. Cat(<<>>, Cat(M, o)) = Cat(M, o)
    BY <2>7, CatEmpty
  <2>9. WrittenFile(f) = Cat(A, Cat(Cat(<<>>, LM), w))
    BY <1>3, <1>4, Zenon DEF A, LM
  <2> QED
    BY <1>11, <2>1, <2>3, <2>4, <2>5, <2>6, <2>8, <2>9, Zenon
<1>14. Cat(M, o) # <<>> /\ Head(Cat(M, o)) = m
  <2> DEFINE z == Cat(M, o)
  <2>1. z \in Seq(LineSet) /\ Len(z) = Len(M) + Len(o) /\ \A i \in 1 .. Len(M) : z[i] = M[i]
    BY <1>12, CatType
  <2> HIDE DEF z
  <2>2. z # <<>> /\ Head(z) = m
    BY <1>11, <1>12, <2>1
  <2> QED
    BY <2>2 DEF z
<1>15. DiffChunkPath(WrittenFile(f)) = m.val
  BY <1>4, <1>13, <1>14, ChunkPathIs, Zenon DEF J
<1> QED
  BY <1>5, <1>15

LEMMA PathOfNone ==
  ASSUME NEW f \in File, FileOK(f), ~HasText(f)
  PROVE  DiffChunkPath(WrittenFile(f)) = ""
<1> DEFINE a == HeadOf(f)
           u == BinaryPart(f)
           v == HeaderPart(f)
           hs == f.hunks
           w == FlattenSeq(HunkTexts(hs))
           O == LineSet \ NameLines
<1>1. hs \in Seq(BodyHunk) /\ f.path \in Range(Names) /\ f.kind \in Kind
  BY DEF File
<1>2. u \in Seq(LineSet) /\ v \in Seq(LineSet) /\ a \in LineSet /\ WrittenFile(f) \in Seq(LineSet)
  <2>1. HeadLines \subseteq LineSet /\ RestLines \subseteq LineSet
    BY DEF HeadLines, RestLines
  <2>2. a \in HeadLines /\ u \in Seq(RestLines) /\ v \in Seq(RestLines) /\ WrittenFile(f) \in Seq(LineSet)
    BY FileIs, PartsType
  <2> QED
    BY <2>1, <2>2, SeqWider
<1>3. <<a>> \in Seq(O)
  <2>1. a.lead = "diff --git"
    BY FileIs DEF HeadLines
  <2>2. a \in O
    BY <1>2, <2>1 DEF NameLines
  <2> QED
    BY <2>2, OneType
<1>4. u \in Seq(O)
  <2> DEFINE b == Line("Binary files", f.path)
  <2>1. b \in LineSet /\ b.lead = "Binary files"
    <3>1. f.path \in Value /\ "Binary files" \in Lead
      BY <1>1, ValueType DEF Lead
    <3> QED
      BY <3>1, LineType
  <2> HIDE DEF b
  <2>2. b \in O
    BY <2>1 DEF NameLines
  <2>3. <<b>> \in Seq(O)
    BY <2>2, OneType
  <2>4. <<>> \in Seq(O)
    OBVIOUS
  <2> QED
    BY <2>3, <2>4, Zenon DEF BinaryPart, b
<1>5. v \in Seq(O)
  <2> DEFINE l == Line("---", OldName(f))
             m == Line("+++", NewName(f))
  <2>1. CASE HasHunks(f)
    <3>1. NewName(f) = "/dev/null" /\ OldName(f) = f.path
      BY <2>1 DEF HasHunks, HasText, NewName, OldName
    <3>2. "---" \in Lead /\ "+++" \in Lead /\ OldName(f) \in Value /\ NewName(f) \in Value
      BY <1>1, <3>1, ValueType DEF Lead
    <3>3. l \in LineSet /\ l.lead = "---"
      BY <3>2, LineType
    <3>4. m \in LineSet /\ m.val = "/dev/null"
      BY <3>1, <3>2, LineType
    <3> HIDE DEF l, m
    <3>5. l \in O /\ m \in O
      BY <3>3, <3>4 DEF NameLines
    <3>6. <<l, m>> \in Seq(O)
      BY <3>5, TwoType
    <3> QED
      BY <2>1, <3>6, Zenon DEF HeaderPart, l, m
  <2>2. CASE ~HasHunks(f)
    <3>1. v = <<>>
      BY <2>2, Zenon DEF HeaderPart
    <3> QED
      BY <3>1
  <2> QED
    BY <2>1, <2>2
<1>6. HunkTexts(hs) \in Seq(Seq(O))
  <2> SUFFICES ASSUME NEW k \in DOMAIN hs  PROVE WrittenHunk(hs[k]) \in Seq(O)
    BY <1>1 DEF HunkTexts
  <2> DEFINE h == hs[k]
             b == AtLine(h)
  <2>1. h \in BodyHunk
    BY <1>1
  <2>2. HasHunks(f)
    BY <1>1 DEF FileOK
  <2>3. f.kind = "deleted"
    BY <2>2 DEF HasHunks, HasText
  <2>4. \A j \in DOMAIN h.lines : h.lines[j].op = "-"
    BY <2>3 DEF FileOK
  <2>5. b \in RestLines /\ WrittenHunk(h) = Cat(<<b>>, HunkBody(h))
    BY <2>1, HunkType
  <2>6. b.lead = "@@"
    BY DEF AtLine
  <2> HIDE DEF h, b
  <2>7. h.lines \in Seq(BodyLine)
    BY <2>1 DEF BodyHunk
  <2>8. \A j \in DOMAIN h.lines : Written(h.lines[j]) \in O
    <3> SUFFICES ASSUME NEW j \in DOMAIN h.lines  PROVE Written(h.lines[j]) \in O
      OBVIOUS
    <3> DEFINE x == Written(h.lines[j])
    <3>1. h.lines[j] \in BodyLine /\ h.lines[j].op = "-"
      BY <2>4, <2>7
    <3>2. x \in HunkLines /\ (x.lead = "+++" => h.lines[j].op = "+")
      BY <3>1, WrittenType
    <3> HIDE DEF x
    <3>3. x \in O
      BY <3>1, <3>2 DEF HunkLines, NameLines
    <3> QED
      BY <3>3 DEF x
  <2>9. HunkBody(h) \in Seq(O)
    BY <2>7, <2>8 DEF HunkBody
  <2>10. b \in O
    BY <2>5, <2>6 DEF RestLines, NameLines
  <2>11. <<b>> \in Seq(O)
    BY <2>10, OneType
  <2>12. Cat(<<b>>, HunkBody(h)) \in Seq(O)
    BY <2>9, <2>11, CatType
  <2>13. WrittenHunk(h) \in Seq(O)
    BY <2>5, <2>12, Zenon
  <2> QED
    BY <2>13 DEF h
<1>7. w \in Seq(O)
  BY <1>6, FlattenType
<1>8. WrittenFile(f) = Cat(<<a>>, Cat(Cat(u, v), w))
  <2>1. RestOf(f) = Cat(Cat(u, v), w)
    BY Zenon DEF RestOf, HunkParts, HunkTexts
  <2>2. WrittenFile(f) = Cat(<<a>>, RestOf(f))
    BY FileIs
  <2> QED
    BY <2>1, <2>2, Zenon
<1> HIDE DEF a, u, v, w, O
<1>9. Cat(<<a>>, Cat(Cat(u, v), w)) \in Seq(O)
  <2>1. Cat(u, v) \in Seq(O)
    BY <1>4, <1>5, CatType
  <2>2. Cat(Cat(u, v), w) \in Seq(O)
    BY <1>7, <2>1, CatType
  <2> QED
    BY <1>3, <2>2, CatType
<1>10. O \cap NameLines = {}
  BY DEF O
<1>11. Only(WrittenFile(f), NameLines) = <<>>
  <2>1. WrittenFile(f) \in Seq(O)
    BY <1>8, <1>9, Zenon
  <2> QED
    BY <1>10, <2>1, OnlyNone
<1> QED
  BY <1>2, <1>11, ChunkPathIs, Zenon

LEMMA ChunkPaths ==
  ASSUME NEW fs, FilesOK(fs), NEW i \in DOMAIN fs
  PROVE  /\ DiffChunkPath(Chunks(fs)[i]) = ChunkName(fs[i])
         /\ fs[i] \in File /\ FileOK(fs[i]) /\ fs[i].path = Names[i] /\ i \in DOMAIN Names
         /\ Chunks(fs)[i] = WrittenFile(fs[i]) /\ DOMAIN Chunks(fs) = DOMAIN fs
<1>1. fs \in Seq(File) /\ fs[i] \in File /\ FileOK(fs[i]) /\ fs[i].path = Names[i] /\ Len(fs) <= Len(Names)
  BY DEF FilesOK
<1>2. i \in DOMAIN Names
  BY <1>1, NamesType
<1>3. Chunks(fs)[i] = WrittenFile(fs[i]) /\ DOMAIN Chunks(fs) = DOMAIN fs
  BY <1>1, ChunksType
<1>4. DiffChunkPath(WrittenFile(fs[i])) = ChunkName(fs[i])
  BY <1>1, PathOfText, PathOfNone, Zenon DEF ChunkName
<1> QED
  BY <1>1, <1>2, <1>3, <1>4, Zenon

(* The diff by file.                                                       *)
LEMMA SessionIs ==
  ASSUME NEW fs, FilesOK(fs)
  PROVE  /\ DOMAIN SessionDiff(Chunks(fs)) = {fs[i].path : i \in {i \in DOMAIN fs : HasText(fs[i])}}
         /\ \A i \in DOMAIN fs : HasText(fs[i]) => SessionDiff(Chunks(fs))[fs[i].path] = WrittenFile(fs[i])
<1> DEFINE C == Chunks(fs)
           D == {DiffChunkPath(C[i]) : i \in DOMAIN C} \ {""}
           At(p) == {i \in DOMAIN C : DiffChunkPath(C[i]) = p}
<1>1. SessionDiff(C) = [p \in D |-> C[Max(At(p))]]
  BY Zenon DEF SessionDiff
<1>2. \A i \in DOMAIN fs : /\ DiffChunkPath(C[i]) = ChunkName(fs[i]) /\ fs[i] \in File /\ fs[i].path = Names[i]
                           /\ i \in DOMAIN Names /\ C[i] = WrittenFile(fs[i])
  BY ChunkPaths
<1>3. DOMAIN C = DOMAIN fs /\ fs \in Seq(File)
  <2>1. fs \in Seq(File)
    BY DEF FilesOK
  <2> QED
    BY <2>1, ChunksType
<1>4. \A i \in DOMAIN fs : fs[i].path # ""
  BY <1>2, NamesApart DEF File
<1> HIDE DEF C
<1>5. D = {fs[i].path : i \in {i \in DOMAIN fs : HasText(fs[i])}}
  BY <1>2, <1>3, <1>4 DEF ChunkName
<1>6. ASSUME NEW i \in DOMAIN fs, HasText(fs[i])  PROVE SessionDiff(C)[fs[i].path] = WrittenFile(fs[i])
  <2> DEFINE p == fs[i].path
  <2>1. p \in D
    BY <1>5, <1>6
  <2>2. \A j \in DOMAIN fs : ChunkName(fs[j]) = p => j = i
    BY <1>2, <1>4, NamesApart DEF ChunkName
  <2>3. At(p) = {i}
    BY <1>2, <1>3, <1>6, <2>2 DEF ChunkName
  <2>4. i \in Nat /\ {i} \in SUBSET (1 .. i) /\ i \in {i}
    BY <1>3
  <2>5. Max({i}) = i
    BY <2>4, MaxIs
  <2> HIDE DEF D, At
  <2>6. SessionDiff(C)[p] = C[Max(At(p))]
    BY <1>1, <2>1
  <2> QED
    BY <1>2, <2>3, <2>5, <2>6
<1>7. DOMAIN SessionDiff(C) = D
  BY <1>1
<1> QED
  BY <1>5, <1>6, <1>7 DEF C

(* What Path makes of a parsed file.                                       *)
LEMMA NamedIs == \A o, w, lead : Named(o, w, lead) \in {o, "mark"}
BY DEF Named

LEMMA ParsedPath ==
  ASSUME NEW f \in File, NEW p \in Range(Names), Path(ParsedFile(f)) = p
  PROVE  f.path = p
<1> DEFINE B == AllBody(f.hunks)
           o == Named(OldHeader(f), B, "---")
           n == Named(NewHeader(f), B, "+++")
           c == ParsedFile(f)
<1>1. c.OldPath = o /\ c.NewPath = n
  BY DEF ParsedFile, Changed
<1>2. p \in {o, n}
  BY <1>1, Zenon DEF Path
<1>3. OldHeader(f) \in {"", "/dev/null", f.path} /\ NewHeader(f) \in {"", "/dev/null", f.path}
  BY DEF OldHeader, NewHeader, OldName, NewName
<1>4. p # "" /\ p # "/dev/null" /\ p \notin Texts
  BY NamesApart
<1>5. ASSUME NEW lead \in {"---", "+++"}, NEW q, Named(q, B, lead) # q
      PROVE  "mark" \in Texts
  <2>1. Lookalike(f)
    <3>1. CASE ~Lookalike(f)
      <4>1. B \in Seq(TextLines)
        BY <3>1, PlainFile
      <4> QED
        BY <1>5, <4>1, NamedKept
    <3> QED
      BY <3>1
  <2>2. PICK k \in DOMAIN f.hunks : \E j \in DOMAIN f.hunks[k].lines :
               Written(f.hunks[k].lines[j]).lead \in {"---", "+++"}
    BY <2>1 DEF Lookalike
  <2> DEFINE ls == f.hunks[k].lines
  <2>3. PICK j \in DOMAIN ls : Written(ls[j]).lead \in {"---", "+++"}
    BY <2>2
  <2>4. ls[j] \in BodyLine
    <3>1. f.hunks[k] \in BodyHunk
      BY DEF File
    <3>2. ls \in Seq(BodyLine)
      BY <3>1 DEF BodyHunk
    <3> QED
      BY <3>2
  <2> HIDE DEF ls
  <2>5. ls[j].text = "mark"
    BY <2>3, <2>4, WrittenType
  <2> QED
    BY <2>4, <2>5 DEF BodyLine
<1>6. o \in {OldHeader(f), "mark"} /\ n \in {NewHeader(f), "mark"}
  BY NamedIs
<1>7. (o # OldHeader(f) \/ n # NewHeader(f)) => "mark" \in Texts
  BY <1>5
<1> HIDE DEF o, n, c, B
<1> QED
  BY <1>2, <1>3, <1>4, <1>6, <1>7

(* The diff of the parallel review.                                        *)
Lacking(changed, byChunk) == {c \in Range(changed) : Path(c) \notin DOMAIN byChunk \cup {""} /\ ~c.Binary}

LEMMA HunksRendered ==
  ASSUME NEW f \in File, ~Lookalike(f)
  PROVE  RenderChangedFile(ParsedFile(f)) = FlattenSeq(HunkTexts(f.hunks))
<1> DEFINE hs == f.hunks
           c == ParsedFile(f)
<1>1. c.Hunks = ParsedHunks(hs)
  BY DEF ParsedFile, Changed
<1>2. ParsedHunks(hs) = [k \in DOMAIN hs |-> ParsedHunk(hs[k])]
  BY DEF ParsedHunks
<1>3. \A k \in DOMAIN hs :
        <<[lead |-> "@@", val |-> "", old |-> ParsedHunk(hs[k]).OldStart, new |-> ParsedHunk(hs[k]).NewStart]>>
          \o ParsedHunk(hs[k]).Lines = WrittenHunk(hs[k])
  <2> SUFFICES ASSUME NEW k \in DOMAIN hs
               PROVE  <<[lead |-> "@@", val |-> "", old |-> ParsedHunk(hs[k]).OldStart,
                         new |-> ParsedHunk(hs[k]).NewStart]>> \o ParsedHunk(hs[k]).Lines = WrittenHunk(hs[k])
    OBVIOUS
  <2> DEFINE h == hs[k]
             b == HunkBody(h)
  <2>1. Only(b, TextLines) = b
    BY PlainBody
  <2> HIDE DEF h, b
  <2>2. ParsedHunk(h).OldStart = h.old /\ ParsedHunk(h).NewStart = h.new /\ ParsedHunk(h).Lines = Only(HunkBody(h), TextLines)
    BY DEF ParsedHunk, Hunk
  <2>3. ParsedHunk(h).Lines = b
    BY <2>1, <2>2, Zenon DEF b
  <2>4. WrittenHunk(h) = <<[lead |-> "@@", val |-> "", old |-> h.old, new |-> h.new]>> \o b
    BY Zenon DEF WrittenHunk, HunkBody, b
  <2> QED
    BY <2>2, <2>3, <2>4, Zenon DEF h
<1> HIDE DEF hs, c
<1>4. [k \in DOMAIN c.Hunks |->
         <<[lead |-> "@@", val |-> "", old |-> c.Hunks[k].OldStart, new |-> c.Hunks[k].NewStart]>> \o c.Hunks[k].Lines]
       = HunkTexts(hs)
  <2> DEFINE F(g) == <<[lead |-> "@@", val |-> "", old |-> g.OldStart, new |-> g.NewStart]>> \o g.Lines
  <2>1. \A k \in DOMAIN hs : F(ParsedHunk(hs[k])) = WrittenHunk(hs[k])
    BY <1>3
  <2> HIDE DEF F
  <2>2. [k \in DOMAIN c.Hunks |-> F(c.Hunks[k])] = HunkTexts(hs)
    BY <1>1, <1>2, <2>1 DEF HunkTexts
  <2> QED
    BY <2>2 DEF F
<1> QED
  BY <1>4, Zenon DEF RenderChangedFile, c, hs

LEMMA After ==
  ASSUME NEW B, NEW u \in Seq(B), NEW w \in Seq(B)
  PROVE  SubSeq(Cat(u, w), Len(u) + 1, Len(Cat(u, w))) = w
<1> DEFINE v == Cat(u, w)
           m == Len(u)
           n == Len(w)
           s == SubSeq(v, m + 1, m + n)
<1>1. v \in Seq(B) /\ Len(v) = m + n
  BY CatType
<1>2. \A i \in 1 .. n : v[m + i] = w[i]
  BY CatType
<1>3. m \in Nat /\ n \in Nat
  OBVIOUS
<1> HIDE DEF v, m
<1>4. s \in Seq(B) /\ Len(s) = n /\ \A i \in 1 .. n : s[i] = v[m + i]
  BY <1>1, <1>3
<1> HIDE DEF s
<1>5. s = w
  BY <1>2, <1>4
<1> QED
  BY <1>1, <1>5 DEF s, v, m

(* What stands after the header lines of a deleted file.                   *)
LEMMA DeletedText ==
  ASSUME NEW f \in File, f.kind = "deleted"
  PROVE  SubSeq(WrittenFile(f), 4, Size(WrittenFile(f))) = FlattenSeq(HunkTexts(f.hunks))
<1> DEFINE a == HeadOf(f)
           l == Line("---", OldName(f))
           m == Line("+++", NewName(f))
           w == FlattenSeq(HunkTexts(f.hunks))
           A == <<a>>
           LM == <<l, m>>
           H == Cat(A, LM)
           B == {a, l, m} \cup RestLines
<1>1. HasHunks(f) /\ f.kind # "binary" /\ f.hunks \in Seq(BodyHunk)
  BY DEF HasHunks, File
<1>2. BinaryPart(f) = <<>> /\ HeaderPart(f) = LM
  BY <1>1, Zenon DEF BinaryPart, HeaderPart
<1>3. RestOf(f) = Cat(Cat(<<>>, LM), w)
  BY <1>2, Zenon DEF RestOf, HunkParts, HunkTexts
<1>4. WrittenFile(f) = Cat(A, RestOf(f))
  BY FileIs
<1>5. w \in Seq(RestLines)
  BY <1>1, TextsType
<1> HIDE DEF a, l, m, w
<1>6. A \in Seq(B) /\ LM \in Seq(B) /\ Len(A) = 1 /\ Len(LM) = 2
  OBVIOUS
<1>7. w \in Seq(B)
  BY <1>5
<1> HIDE DEF A, LM, B
<1>8. H \in Seq(B) /\ Len(H) = 3
  <2>1. H \in Seq(B) /\ Len(H) = Len(A) + Len(LM)
    BY <1>6, CatType
  <2> HIDE DEF H
  <2> QED
    BY <1>6, <2>1
<1>9. WrittenFile(f) = Cat(H, w)
  <2>1. Cat(<<>>, LM) = LM
    BY <1>6, CatEmpty
  <2>2. Cat(Cat(A, LM), w) = Cat(A, Cat(LM, w))
    BY <1>6, <1>7, CatAssociative
  <2> QED
    BY <1>3, <1>4, <2>1, <2>2, Zenon
<1> HIDE DEF H
<1>10. SubSeq(Cat(H, w), Len(H) + 1, Len(Cat(H, w))) = w
  BY <1>7, <1>8, After
<1>11. Len(H) + 1 = 4
  BY <1>8
<1> QED
  BY <1>9, <1>10, <1>11, Zenon DEF Size, w

(* What each file is given out as.                                         *)
LEMMA ParallelHas ==
  ASSUME NEW fs, FilesOK(fs), NEW i \in DOMAIN fs
  PROVE  LET D == BuildDiffByFile(ParsedFiles(fs), Chunks(fs))
             p == fs[i].path
         IN  /\ HasText(fs[i]) => p \in DOMAIN D /\ D[p] = WrittenFile(fs[i])
             /\ fs[i].kind = "deleted" /\ ~Lookalike(fs[i]) =>
                  p \in DOMAIN D /\ D[p] = FlattenSeq(HunkTexts(fs[i].hunks))
<1> DEFINE f == fs[i]
           p == f.path
           C == Chunks(fs)
           B == SessionDiff(C)
           G == ParsedFiles(fs)
           L == Lacking(G, B)
           lacking == Only(G, L)
           D == BuildDiffByFile(G, C)
           Q == {c \in Range(lacking) : Path(c) = p}
<1>1. D = [q \in DOMAIN B \cup {Path(c) : c \in Range(lacking)} |->
             IF q \in DOMAIN B THEN B[q]
             ELSE RenderChangedFile(Head(Only(lacking, {c \in Range(lacking) : Path(c) = q})))]
  BY Zenon DEF BuildDiffByFile, Select, Lacking
<1>2. /\ DOMAIN B = {fs[j].path : j \in {j \in DOMAIN fs : HasText(fs[j])}}
      /\ \A j \in DOMAIN fs : HasText(fs[j]) => B[fs[j].path] = WrittenFile(fs[j])
  BY SessionIs
<1>3. \A j \in DOMAIN fs : fs[j] \in File /\ FileOK(fs[j]) /\ fs[j].path = Names[j] /\ j \in DOMAIN Names
  BY ChunkPaths
<1>4. \A j \in DOMAIN fs : fs[j].path = p => j = i
  BY <1>3, NamesApart
<1> HIDE DEF C, B, G, L, lacking, D, Q
<1>5. ASSUME HasText(f)  PROVE p \in DOMAIN D /\ D[p] = WrittenFile(f)
  <2>1. p \in DOMAIN B /\ B[p] = WrittenFile(f)
    BY <1>2, <1>5
  <2> QED
    BY <1>1, <2>1
<1>6. ASSUME f.kind = "deleted", ~Lookalike(f)
      PROVE  p \in DOMAIN D /\ D[p] = FlattenSeq(HunkTexts(f.hunks))
  <2> DEFINE c == ParsedFile(f)
  <2>1. f \in File /\ fs \in Seq(File) /\ p \in Range(Names) /\ ~HasText(f) /\ HasHunks(f)
    BY <1>3, <1>6 DEF FilesOK, File, HasText, HasHunks
  <2>2. p \notin DOMAIN B
    BY <1>2, <1>4, <2>1
  <2>3. Path(c) = p /\ ~c.Binary
    <3>1. c = Changed(OldHeader(f), NewHeader(f), IsBinary(f), ParsedHunks(f.hunks))
      BY <1>6, <2>1, PlainFile
    <3>2. OldHeader(f) = p /\ NewHeader(f) = "/dev/null" /\ ~IsBinary(f)
      BY <1>6, <2>1 DEF OldHeader, NewHeader, OldName, NewName, IsBinary
    <3>3. c.OldPath = OldHeader(f) /\ c.NewPath = NewHeader(f)
      BY <3>1 DEF Changed
    <3>4. ~c.Binary
      <4>1. IsBinary(f) = FALSE
        BY <3>2
      <4>2. c = Changed(OldHeader(f), NewHeader(f), FALSE, ParsedHunks(f.hunks))
        BY <3>1, <4>1, Zenon
      <4>3. \A o, n, hs : ~Changed(o, n, FALSE, hs).Binary
        BY Zenon DEF Changed
      <4> HIDE DEF c
      <4> QED
        BY <4>2, <4>3, Zenon
    <3> HIDE DEF c
    <3> QED
      BY <3>2, <3>3, <3>4 DEF Path
  <2>4. /\ \A x \in Range(G) : \E j \in DOMAIN fs : x = ParsedFile(fs[j])
        /\ c \in Range(G) /\ G \in Seq(Range(G))
    <3>1. Len(G) = Len(fs) /\ DOMAIN G = DOMAIN fs /\ \A j \in DOMAIN fs : G[j] = ParsedFile(fs[j])
      BY <2>1, ParsedFilesAre DEF G
    <3>2. G \in Seq({ParsedFile(fs[j]) : j \in DOMAIN fs})
      BY <2>1 DEF G, ParsedFiles
    <3>3. G \in Seq(Range(G))
      BY <3>2, RangeType
    <3> HIDE DEF c
    <3>4. \A x \in Range(G) : \E j \in DOMAIN fs : x = ParsedFile(fs[j])
      BY <3>1 DEF Range
    <3>5. c \in Range(G)
      BY <3>1 DEF Range, c
    <3> QED
      BY <3>3, <3>4, <3>5
  <2>5. \A x \in Range(G) : Path(x) = p => x = c
    <3> SUFFICES ASSUME NEW x \in Range(G), Path(x) = p  PROVE x = c
      OBVIOUS
    <3>1. PICK j \in DOMAIN fs : x = ParsedFile(fs[j])
      BY <2>4
    <3>2. fs[j].path = p
      BY <1>3, <2>1, <3>1, ParsedPath
    <3>3. j = i
      BY <1>4, <3>2
    <3> QED
      BY <3>1, <3>3
  <2> HIDE DEF c
  <2>6. c \in L
    <3>1. p # ""
      BY <2>1, NamesApart
    <3> QED
      BY <2>2, <2>3, <2>4, <3>1, Zenon DEF L, Lacking
  <2>7. Range(lacking) = Range(G) \cap L /\ lacking \in Seq(Range(G))
    BY <2>4, OnlyRange, OnlySeq DEF lacking
  <2>8. c \in Q /\ \A x \in Q : x = c
    BY <2>3, <2>4, <2>5, <2>6, <2>7 DEF Q
  <2>9. Range(Only(lacking, Q)) = Range(lacking) \cap Q /\ Only(lacking, Q) \in Seq(Range(G))
    BY <2>7, OnlyRange, OnlySeq
  <2>10. Head(Only(lacking, Q)) = c
    <3> DEFINE o == Only(lacking, Q)
    <3>1. c \in Range(o) /\ o \in Seq(Range(G)) /\ \A x \in Range(o) : x = c
      BY <2>4, <2>6, <2>7, <2>8, <2>9
    <3> HIDE DEF o
    <3>2. Len(o) >= 1
      BY <3>1 DEF Range
    <3>3. Head(o) \in Range(o)
      BY <3>1, <3>2 DEF Range
    <3> QED
      BY <3>1, <3>3 DEF o
  <2>11. p \in {Path(x) : x \in Range(lacking)}
    BY <2>3, <2>4, <2>6, <2>7
  <2>12. D[p] = RenderChangedFile(Head(Only(lacking, Q)))
    BY <1>1, <2>2, <2>11 DEF Q
  <2>13. RenderChangedFile(c) = FlattenSeq(HunkTexts(f.hunks))
    BY <1>6, <2>1, HunksRendered DEF c
  <2> QED
    BY <1>1, <2>10, <2>11, <2>12, <2>13
<1> QED
  BY <1>5, <1>6 DEF D, G, C

(* What get_file_diff gives of one file.                                   *)
Own(p, text) == <<FileLine(p)>> \o text

GivenOf(p, text) ==
  LET given == Truncate(Own(p, text))
  IN  /\ ~given.cut => given.text = Own(p, text)
      /\ given.cut => Size(Own(p, text)) > maxResult /\ given.text = SubSeq(Own(p, text), 1, maxResult)

LEMMA OwnLen ==
  ASSUME NEW p, NEW w \in Seq(LineSet)
  PROVE  Len(Own(p, w)) \in Nat /\ Len(Own(p, w)) >= 1
<1> DEFINE h == FileLine(p)
           u == <<h>>
           A == LineSet \cup {h}
<1>1. u \in Seq(A) /\ Len(u) = 1 /\ w \in Seq(A)
  <2>1. h \in A /\ LineSet \subseteq A
    OBVIOUS
  <2> HIDE DEF h, A
  <2>2. <<h>> \in Seq(A) /\ Len(<<h>>) = 1
    BY <2>1, OneType
  <2> QED
    BY <2>1, <2>2, SeqWider
<1> HIDE DEF u, h, A
<1>2. Len(Cat(u, w)) = Len(u) + Len(w)
  BY <1>1, CatType
<1>3. Len(w) \in Nat
  OBVIOUS
<1>4. Own(p, w) = Cat(u, w)
  BY Zenon DEF Own, Cat, u, h
<1> QED
  BY <1>1, <1>2, <1>3, <1>4

LEMMA SomePath == ASSUME NEW p  PROVE <<p>> # <<>>
OBVIOUS

LEMMA SomeLine == ASSUME NEW x, Len(x) >= 1  PROVE x # <<>>
OBVIOUS

LEMMA SectionOne ==
  ASSUME NEW D, NEW p
  PROVE  FlattenSeq([i \in DOMAIN <<p>> |-> Section(D, <<p>>[i])]) = Section(D, p)
<1> DEFINE x == Section(D, p)
<1>1. [i \in DOMAIN <<p>> |-> Section(D, <<p>>[i])] = [i \in {1} |-> x]
  OBVIOUS
<1> HIDE DEF x
<1>2. [i \in {1} |-> x] = <<x>>
  OBVIOUS
<1> QED
  BY <1>1, <1>2, FlattenOne, Zenon DEF x

LEMMA Given ==
  ASSUME NEW D, NEW p, p \in DOMAIN D, p # "", D[p] \in Seq(LineSet)
  PROVE  GetFileDiff(D, <<p>>) = Truncate(Own(p, D[p]))
<1> DEFINE x == Own(p, D[p])
           text == FlattenSeq([i \in DOMAIN <<p>> |-> Section(D, <<p>>[i])])
<1>1. Section(D, p) = x
  BY DEF Section, Own
<1>2. Len(x) >= 1
  BY OwnLen
<1> HIDE DEF x
<1>4. text = x
  BY <1>1, SectionOne, Zenon
<1>5. text # <<>>
  BY <1>2, <1>4, SomeLine, Zenon
<1>6. <<p>> # <<>> /\ DOMAIN D # {}
  BY SomePath, Zenon
<1> HIDE DEF text
<1>7. GetFileDiff(D, <<p>>) =
        IF DOMAIN D = {} THEN Whole(<<Line("no diff data", "")>>)
        ELSE IF <<p>> = <<>> THEN [available |-> DOMAIN D]
        ELSE IF text = <<>> THEN Whole(<<Line("no matching files", "")>>)
        ELSE Truncate(text)
  BY Zenon DEF GetFileDiff, text
<1> QED
  BY <1>4, <1>5, <1>6, <1>7, Zenon DEF x

(* A result is whole or cut at the cap.                                    *)
LEMMA Truncated ==
  ASSUME NEW p, NEW w \in Seq(LineSet)
  PROVE  GivenOf(p, w)
<1> DEFINE x == Own(p, w)
<1>1. Len(x) \in Nat
  BY OwnLen
<1>2. maxResult \in Nat
  BY DiffAssumption
<1> HIDE DEF x
<1>3. Truncate(x) = IF Len(x) <= maxResult THEN Whole(x) ELSE [text |-> SubSeq(x, 1, maxResult), cut |-> TRUE]
  BY Zenon DEF Truncate, Size
<1>4. CASE Len(x) <= maxResult
  BY <1>3, <1>4 DEF Whole, GivenOf, x
<1>5. CASE ~(Len(x) <= maxResult)
  <2> DEFINE y == SubSeq(x, 1, maxResult)
  <2>1. Size(x) > maxResult
    BY <1>1, <1>2, <1>5 DEF Size
  <2>2. Truncate(x) = [text |-> y, cut |-> TRUE]
    BY <1>3, <1>5, Zenon
  <2> HIDE DEF y
  <2>3. Truncate(x).text = y /\ Truncate(x).cut
    BY <2>2
  <2> QED
    BY <2>1, <2>3, Zenon DEF GivenOf, x, y
<1> QED
  BY <1>4, <1>5

LEMMA Available ==
  ASSUME NEW D, DOMAIN D # {}
  PROVE  GetFileDiff(D, <<>>) = [available |-> DOMAIN D]
BY Zenon DEF GetFileDiff

LEMMA OwnDiffInv == IInv => OwnDiff
<1> SUFFICES ASSUME IInv, Parsed
             PROVE  /\ \A i \in DOMAIN files :
                         LET f == files[i]
                             given == GetFileDiff(built.session, <<f.path>>)
                             own == <<FileLine(f.path)>> \o WrittenFile(f)
                         IN  /\ HasText(f) =>
                                  /\ f.path \in DOMAIN built.parallel
                                  /\ built.parallel[f.path] = WrittenFile(f)
                                  /\ ~given.cut => given.text = own
                                  /\ given.cut => Size(own) > maxResult /\ given.text = SubSeq(own, 1, maxResult)
                             /\ f.kind = "deleted" /\ ~Lookalike(f) =>
                                  /\ f.path \in DOMAIN built.parallel
                                  /\ built.parallel[f.path] = SubSeq(WrittenFile(f), 4, Size(WrittenFile(f)))
                    /\ (\E i \in DOMAIN files : HasText(files[i])) =>
                         GetFileDiff(built.session, <<>>)
                           = [available |-> {files[i].path : i \in {i \in DOMAIN files : HasText(files[i])}}]
  BY Zenon DEF OwnDiff
<1> DEFINE B == SessionDiff(Chunks(files))
           D == BuildDiffByFile(ParsedFiles(files), Chunks(files))
           P == {files[i].path : i \in {i \in DOMAIN files : HasText(files[i])}}
<1>1. built = BuiltOf(GitDiff) /\ files \in Seq(File) /\ FilesOK(files)
  BY ParsedIs
<1>2. ParseUnifiedDiff(GitDiff) = ParsedFiles(files) /\ SplitDiffByFile(GitDiff) = Chunks(files)
  <2>1. Chunks(files) \in Seq(Chunk)
    BY <1>1, ChunksType
  <2> QED
    BY <1>1, <2>1, GitDiffIs, ParseAll, SplitChunks
<1>3. built.session = B /\ built.parallel = D
  <2>1. BuiltOf(GitDiff).session = SessionDiff(SplitDiffByFile(GitDiff))
    BY DEF BuiltOf
  <2>2. BuiltOf(GitDiff).parallel = BuildDiffByFile(ParseUnifiedDiff(GitDiff), SplitDiffByFile(GitDiff))
    BY DEF BuiltOf
  <2> QED
    BY <1>1, <1>2, <2>1, <2>2, Zenon
<1>4. DOMAIN B = P
  BY <1>1, SessionIs
<1>5. ASSUME NEW i \in DOMAIN files, HasText(files[i])
      PROVE  /\ files[i].path \in DOMAIN built.parallel
             /\ built.parallel[files[i].path] = WrittenFile(files[i])
             /\ GetFileDiff(built.session, <<files[i].path>>) = Truncate(Own(files[i].path, WrittenFile(files[i])))
             /\ GivenOf(files[i].path, WrittenFile(files[i]))
  <2> DEFINE f == files[i]
             p == f.path
  <2>1. f \in File /\ f.path = Names[i] /\ i \in DOMAIN Names
    BY <1>1, ChunkPaths
  <2>2. WrittenFile(f) \in Seq(LineSet)
    BY <1>1, ChunksType
  <2>3. p # ""
    BY <2>1, NamesApart DEF Range
  <2>4. /\ p \in DOMAIN B /\ B[p] = WrittenFile(f)
        /\ p \in DOMAIN D /\ D[p] = WrittenFile(f)
    BY <1>1, <1>5, SessionIs, ParallelHas
  <2> HIDE DEF B, D, f, p
  <2>5. GetFileDiff(B, <<p>>) = Truncate(Own(p, WrittenFile(f)))
    BY <2>2, <2>3, <2>4, Given
  <2>6. GivenOf(p, WrittenFile(f))
    BY <2>2, Truncated
  <2> QED
    BY <1>3, <2>4, <2>5, <2>6, Zenon DEF f, p
<1>6. ASSUME NEW i \in DOMAIN files, files[i].kind = "deleted", ~Lookalike(files[i])
      PROVE  /\ files[i].path \in DOMAIN built.parallel
             /\ built.parallel[files[i].path] = SubSeq(WrittenFile(files[i]), 4, Size(WrittenFile(files[i])))
  <2>1. files[i] \in File
    BY <1>1
  <2>2. files[i].path \in DOMAIN D /\ D[files[i].path] = FlattenSeq(HunkTexts(files[i].hunks))
    BY <1>1, <1>6, ParallelHas
  <2>3. SubSeq(WrittenFile(files[i]), 4, Size(WrittenFile(files[i]))) = FlattenSeq(HunkTexts(files[i].hunks))
    BY <1>6, <2>1, DeletedText
  <2> HIDE DEF D
  <2> QED
    BY <1>3, <2>2, <2>3, Zenon
<1>7. ASSUME \E i \in DOMAIN files : HasText(files[i])
      PROVE  GetFileDiff(built.session, <<>>) = [available |-> P]
  <2>1. DOMAIN B # {}
    BY <1>4, <1>7
  <2> HIDE DEF B, P
  <2> QED
    BY <1>3, <1>4, <2>1, Available
<1> HIDE DEF B, D
<1>8. ASSUME NEW i \in DOMAIN files, HasText(files[i])
      PROVE  LET given == GetFileDiff(built.session, <<files[i].path>>)
                 own == <<FileLine(files[i].path)>> \o WrittenFile(files[i])
             IN  /\ ~given.cut => given.text = own
                 /\ given.cut => Size(own) > maxResult /\ given.text = SubSeq(own, 1, maxResult)
  BY <1>5, <1>8, Zenon DEF GivenOf, Own
<1> QED
  BY <1>5, <1>6, <1>7, <1>8, Zenon

(* OwnDiff: every file that still has text is given out with the diff git  *)
(* wrote for it, to the parallel review whole and by get_file_diff up to   *)
(* its cap, and is listed there; a deleted one goes to the parallel review *)
(* only (buildDiffByFile, BuildDiffByFile, GetFileDiffTool.Call).          *)
THEOREM DiffOwnDiff == Spec => []OwnDiff
BY Invariant, OwnDiffInv, PTL

-----------------------------------------------------------------------------
(* The choice of the chunks shown.                                         *)
LEMMA KCat ==
  ASSUME NEW B, NEW u \in Seq(B), NEW w \in Seq(B), NEW b
  PROVE  KFold(b, Cat(u, w)) = KFold(KFold(b, u), w)
<1>1. Keeping!Fold(b, Keeping!Cat(u, w)) = Keeping!Fold(Keeping!Fold(b, u), w)
  BY Keeping!FoldCat
<1> QED
  BY <1>1, KFoldIs, Zenon

LEMMA KOne == \A b, x : KFold(b, <<x>>) = KeepChunk(b, x)
BY KFoldIs, Keeping!FoldOne, Zenon

Texted == Seq(LineSet)

LEMMA KeptIs ==
  ASSUME NEW k \in Seq(Texted), NEW c \in Texted
  PROVE  /\ KeepChunk(k, c) = IF Size(FlattenSeq(k)) + Size(c) <= budget THEN Add(k, c) ELSE k
         /\ FlattenSeq(k) \in Texted /\ Size(FlattenSeq(k)) \in Nat /\ Size(c) \in Nat
         /\ Size(FlattenSeq(Add(k, c))) = Size(FlattenSeq(k)) + Size(c)
<1>1. KeepChunk(k, c) = IF Size(FlattenSeq(k)) + Size(c) <= budget THEN Add(k, c) ELSE k
  BY Zenon DEF KeepChunk, Fits, Add
<1>2. k \in Seq(Seq(LineSet)) /\ c \in Seq(LineSet)
  BY DEF Texted
<1> DEFINE v == FlattenSeq(k)
<1>3. v \in Seq(LineSet) /\ FlattenSeq(Add(k, c)) = Cat(v, c)
  BY <1>2, FlattenAdd, FlattenType
<1> HIDE DEF v
<1>4. Len(Cat(v, c)) = Len(v) + Len(c)
  BY <1>2, <1>3, CatType
<1>5. Len(v) \in Nat /\ Len(c) \in Nat
  <2> HIDE DEF v
  <2> QED
    BY <1>2, <1>3, LenProperties
<1> QED
  BY <1>1, <1>3, <1>4, <1>5, Zenon DEF Size, v, Texted

LEMMA KeptBound ==
  ASSUME NEW w \in Seq(Texted)
  PROVE  KFold(<<>>, w) \in Seq(Texted) /\ Size(FlattenSeq(KFold(<<>>, w))) <= budget
<1> DEFINE A == {k \in Seq(Texted) : Size(FlattenSeq(k)) <= budget}
           T == {v \in Seq(Texted) : KFold(<<>>, v) \in A}
<1>0. budget \in Nat
  BY DiffAssumption
<1>1. <<>> \in T
  <2>1. KFold(<<>>, <<>>) = <<>> /\ FlattenSeq(<<>>) = <<>>
    BY KEmpty, FlattenEmpty
  <2>2. Size(<<>>) = 0
    BY DEF Size
  <2>3. Size(FlattenSeq(<<>>)) <= budget
    BY <1>0, <2>1, <2>2
  <2>4. <<>> \in Seq(Texted)
    OBVIOUS
  <2>5. <<>> \in A
    BY <2>3, <2>4
  <2> HIDE DEF A
  <2> QED
    BY <2>1, <2>4, <2>5
<1>2. ASSUME NEW v \in Seq(Texted), NEW c \in Texted, v \in T  PROVE Add(v, c) \in T
  <2> DEFINE k == KFold(<<>>, v)
  <2>1. KFold(<<>>, Add(v, c)) = KeepChunk(k, c)
    BY KAdd
  <2>2. k \in Seq(Texted) /\ Size(FlattenSeq(k)) <= budget
    BY <1>2
  <2> HIDE DEF k
  <2>3. KeepChunk(k, c) \in A
    <3>1. Add(k, c) \in Seq(Texted)
      BY <2>2, AddType
    <3> QED
      BY <2>2, <3>1, KeptIs
  <2>4. Add(v, c) \in Seq(Texted)
    BY AddType
  <2> QED
    BY <2>1, <2>3, <2>4 DEF T
<1>3. Seq(Texted) \subseteq T
  <2> HIDE DEF T
  <2> QED
    BY <1>1, <1>2, SeqInduct
<1>4. KFold(<<>>, w) \in A
  BY <1>3
<1> QED
  BY <1>4

(* What is kept stays, and only what is offered is kept.                   *)
LEMMA KeptGrows ==
  ASSUME NEW B, B \subseteq Texted, NEW w \in Seq(B), NEW k \in Seq(Texted)
  PROVE  \E x \in Seq(B) : KFold(k, w) = Cat(k, x)
<1> DEFINE T == {v \in Seq(B) : \E x \in Seq(B) : KFold(k, v) = Cat(k, x)}
<1>1. <<>> \in T
  <2>1. KFold(k, <<>>) = k /\ Cat(k, <<>>) = k
    BY KEmpty, CatEmpty
  <2>2. <<>> \in Seq(B)
    OBVIOUS
  <2> QED
    BY <2>1, <2>2
<1>2. ASSUME NEW v \in Seq(B), NEW c \in B, v \in T  PROVE Add(v, c) \in T
  <2>1. PICK x \in Seq(B) : KFold(k, v) = Cat(k, x)
    BY <1>2
  <2>2. KFold(k, Add(v, c)) = KeepChunk(KFold(k, v), c)
    BY KAdd
  <2>3. x \in Seq(Texted) /\ c \in Texted
    BY SeqWider
  <2>4. Cat(k, x) \in Seq(Texted)
    BY <2>3, CatType
  <2>5. KeepChunk(Cat(k, x), c) \in {Add(Cat(k, x), c), Cat(k, x)}
    BY <2>3, <2>4, KeptIs
  <2>6. Add(Cat(k, x), c) = Cat(k, Add(x, c))
    BY <2>3, CatAdd
  <2>7. Add(x, c) \in Seq(B) /\ Add(v, c) \in Seq(B)
    BY AddType
  <2>8. \E y \in Seq(B) : KFold(k, Add(v, c)) = Cat(k, y)
    BY <2>1, <2>2, <2>5, <2>6, <2>7
  <2> QED
    BY <2>7, <2>8
<1>3. Seq(B) \subseteq T
  <2> HIDE DEF T
  <2> QED
    BY <1>1, <1>2, SeqInduct
<1> QED
  BY <1>3

(* A chunk that is not kept does not fit beside those kept before it.      *)
LEMMA NotKept ==
  ASSUME NEW A, A \subseteq Texted, NEW B, B \subseteq Texted, A \cap B = {},
         NEW u \in Seq(A), NEW w \in Seq(B), NEW c \in Texted, c \notin A,
         c \notin Range(KFold(<<>>, Cat(u, Cat(<<c>>, w))))
  PROVE  LET k == KFold(<<>>, Cat(u, Cat(<<c>>, w)))
         IN  Size(c) + Size(FlattenSeq(Only(k, A))) > budget
<1> DEFINE cc == <<c>>
           v == Cat(u, Cat(cc, w))
           m == KFold(<<>>, u)
           n == KeepChunk(m, c)
           k == KFold(<<>>, v)
<1>1. u \in Seq(Texted) /\ w \in Seq(Texted) /\ cc \in Seq(Texted)
  BY SeqWider, OneType
<1>2. KFold(<<>>, u) = m /\ KFold(m, cc) = n
  BY KOne
<1>3. m \in Seq(Texted)
  BY <1>1, KeptBound
<1>4. <<>> \in Seq(Texted)
  OBVIOUS
<1>5. PICK y \in Seq(A) : m = Cat(<<>>, y)
  BY <1>4, KeptGrows
<1>6. m \in Seq(A)
  <2>1. Cat(<<>>, y) = y
    BY CatEmpty
  <2> QED
    BY <1>5, <2>1, Zenon
<1> HIDE DEF cc, m, n
<1>7. k = KFold(n, w)
  <2>1. Cat(cc, w) \in Seq(Texted)
    BY <1>1, CatType
  <2>2. KFold(<<>>, v) = KFold(KFold(<<>>, u), Cat(cc, w))
    BY <1>1, <2>1, KCat
  <2>3. KFold(m, Cat(cc, w)) = KFold(KFold(m, cc), w)
    BY <1>1, KCat
  <2> QED
    BY <1>2, <2>2, <2>3, Zenon
<1>8. n \in {Add(m, c), m} /\ n \in Seq(Texted)
  <2>1. Add(m, c) \in Seq(Texted)
    BY <1>3, AddType
  <2> QED
    BY <1>3, <2>1, KeptIs DEF n
<1>9. PICK x \in Seq(B) : KFold(n, w) = Cat(n, x)
  BY <1>8, KeptGrows
<1>10. c \notin Range(k)
  BY DEF k, v, cc
<1> HIDE DEF v, k
<1>11. n = m /\ Size(FlattenSeq(m)) + Size(c) > budget
  <2>1. CASE n = Add(m, c)
    <3>1. c \in Range(Add(m, c))
      BY <1>3, RangeAdd
    <3>2. x \in Seq(Texted)
      BY SeqWider
    <3>3. Range(n) \subseteq Range(Cat(n, x))
      <4> DEFINE z == Cat(n, x)
      <4>1. z \in Seq(Texted) /\ Len(z) = Len(n) + Len(x)
        BY <1>8, <3>2, CatType
      <4>2. \A i \in 1 .. Len(n) : z[i] = n[i]
        BY <1>8, <3>2, CatType
      <4>3. Len(n) \in Nat /\ Len(x) \in Nat /\ DOMAIN n = 1 .. Len(n)
        BY <1>8, <3>2
      <4> HIDE DEF z
      <4>4. \A i \in DOMAIN n : i \in DOMAIN z /\ z[i] = n[i]
        BY <4>1, <4>2, <4>3
      <4>5. Range(n) \subseteq Range(z)
        BY <4>4 DEF Range
      <4> QED
        BY <4>5 DEF z
    <3> QED
      BY <1>7, <1>9, <1>10, <2>1, <3>1, <3>3
  <2>2. CASE n # Add(m, c)
    <3>1. n = IF Size(FlattenSeq(m)) + Size(c) <= budget THEN Add(m, c) ELSE m
      BY <1>3, KeptIs DEF n
    <3>2. Size(FlattenSeq(m)) \in Nat /\ Size(c) \in Nat /\ budget \in Nat
      BY <1>3, KeptIs, DiffAssumption
    <3> QED
      BY <2>2, <3>1, <3>2
  <2> QED
    BY <2>1, <2>2
<1>12. Only(k, A) = m
  <2>1. x \in Seq(Texted)
    BY SeqWider
  <2>2. Only(Cat(m, x), A) = Cat(Only(m, A), Only(x, A))
    BY <1>3, <2>1, OnlyCat
  <2>3. Only(m, A) = m
    BY <1>6, OnlyAll
  <2>4. B \cap A = {}
    OBVIOUS
  <2>5. Only(x, A) = <<>>
    BY <2>4, OnlyNone
  <2>6. Cat(m, <<>>) = m
    BY <1>3, CatEmpty
  <2> QED
    BY <1>7, <1>9, <1>11, <2>2, <2>3, <2>5, <2>6, Zenon
<1>13. Size(c) + Size(FlattenSeq(m)) > budget
  <2>1. Size(FlattenSeq(m)) \in Nat /\ Size(c) \in Nat
    BY <1>3, KeptIs
  <2> QED
    BY <1>11, <2>1
<1> QED
  BY <1>12, <1>13 DEF k, v, cc

-----------------------------------------------------------------------------
(* The order in which chunks are offered.                                  *)
Rank(q) == {c \in Texted : FilePriority(c) = q}

LEMMA HeadIs ==
  ASSUME NEW f \in File
  PROVE  Head(WrittenFile(f)) = HeadOf(f) /\ HeadOf(f).val = f.path
<1> DEFINE x == HeadOf(f)
           xx == <<x>>
           w == RestOf(f)
           c == Cat(xx, w)
<1>1. x \in HeadLines /\ w \in Seq(RestLines) /\ WrittenFile(f) = c
  BY FileIs
<1>2. x.val = f.path
  BY DEF HeadOf, Line
<1>3. xx \in Seq(LineSet) /\ Len(xx) = 1 /\ xx[1] = x /\ w \in Seq(LineSet)
  <2>1. x \in LineSet /\ RestLines \subseteq LineSet
    BY <1>1 DEF HeadLines, RestLines
  <2>2. w \in Seq(LineSet)
    <3> HIDE DEF w
    <3> QED
      BY <1>1, <2>1, SeqWider
  <2> HIDE DEF x, w
  <2>3. xx \in Seq(LineSet) /\ Len(xx) = 1 /\ xx[1] = x
    BY <2>1, OneType
  <2> QED
    BY <2>2, <2>3
<1> HIDE DEF x, xx, w
<1>4. c[1] = x
  <2>1. \A i \in 1 .. Len(xx) : Cat(xx, w)[i] = xx[i]
    BY <1>3, CatType
  <2>2. 1 \in 1 .. Len(xx)
    BY <1>3
  <2> QED
    BY <1>3, <2>1, <2>2
<1> HIDE DEF c
<1>5. Head(WrittenFile(f)) = x
  BY <1>1, <1>4 DEF Head
<1> QED
  BY <1>2, <1>5 DEF x

LEMMA PriorityIs ==
  ASSUME NEW f \in File
  PROVE  FilePriority(WrittenFile(f)) = Priority[f.path] /\ Priority[f.path] \in 1 .. 3
<1>1. Head(WrittenFile(f)) = HeadOf(f) /\ HeadOf(f).val = f.path /\ HeadOf(f).lead = "diff --git"
  BY HeadIs DEF HeadOf, Line
<1>2. f.path \in Range(Names)
  BY DEF File
<1> QED
  BY <1>1, <1>2, DiffAssumption DEF FilePriority

LEMMA AddPair == ASSUME NEW a, NEW b  PROVE Add(<<a>>, b) = <<a, b>>
<1> DEFINE B == {a, b}
           v == <<a>>
<1>1. a \in B /\ b \in B
  OBVIOUS
<1> HIDE DEF B
<1>2. <<a>> \in Seq(B)
  BY <1>1, OneType
<1>3. Add(<<a>>, b) = Cat(<<a>>, <<b>>)
  BY <1>1, <1>2, AddIsCat
<1> QED
  BY <1>3, TwoIsCat, Zenon

LEMMA AddThird == ASSUME NEW a, NEW b, NEW d  PROVE Add(<<a, b>>, d) = <<a, b, d>>
<1> DEFINE B == {a, b, d}
           u == <<a, b>>
           v == Add(u, d)
           w == <<a, b, d>>
<1>1. u \in Seq(B) /\ d \in B
  OBVIOUS
<1>0. Len(u) = 2 /\ u[1] = a /\ u[2] = b
  OBVIOUS
<1>2. w \in Seq(B) /\ Len(w) = 3 /\ w[1] = a /\ w[2] = b /\ w[3] = d
  OBVIOUS
<1> HIDE DEF u, w, B
<1>3. v \in Seq(B) /\ Len(v) = Len(u) + 1 /\ v[Len(u) + 1] = d
  BY <1>1, AddType
<1>4. \A i \in 1 .. Len(u) : v[i] = u[i]
  <2> HIDE DEF v
  <2>1. \A i \in 1 .. Len(u) : Add(u, d)[i] = u[i]
    BY <1>1, AddType
  <2> QED
    BY <2>1 DEF v
<1> HIDE DEF v
<1>5. Len(v) = 3 /\ v[1] = a /\ v[2] = b /\ v[3] = d
  BY <1>0, <1>3, <1>4
<1>6. \A i \in 1 .. Len(v) : v[i] = w[i]
  BY <1>2, <1>5
<1>7. v = w
  BY <1>2, <1>3, <1>5, <1>6, SeqEqual
<1> QED
  BY <1>7 DEF v, u, w
LEMMA SortIs ==
  ASSUME NEW C \in Seq(Texted)
  PROVE  SortByPriority(C) = Cat(Cat(Only(C, Rank(1)), Only(C, Rank(2))), Only(C, Rank(3)))
<1> DEFINE Part(q) == Only(C, {c \in Range(C) : FilePriority(c) = q})
           a == Only(C, Rank(1))
           b == Only(C, Rank(2))
           d == Only(C, Rank(3))
<1>1. \A q : Part(q) = Only(C, Rank(q))
  <2> SUFFICES ASSUME NEW q  PROVE Part(q) = Only(C, Rank(q))
    OBVIOUS
  <2> DEFINE J == {c \in Range(C) : FilePriority(c) = q}
             I == Rank(q)
  <2>1. J = {x \in Range(C) : x \in I}
    <3>1. Range(C) \subseteq Texted
      BY RangeType
    <3> QED
      BY <3>1 DEF Rank
  <2> HIDE DEF J, I
  <2>2. Only(C, J) = Only(C, I)
    BY <2>1, OnlyTest
  <2> QED
    BY <2>2, Zenon DEF J, I
<1>2. SortByPriority(C) = FlattenSeq([q \in 1 .. 3 |-> Part(q)])
  BY Zenon DEF SortByPriority, Select
<1>3. Part(1) = a /\ Part(2) = b /\ Part(3) = d
  BY <1>1, Zenon
<1>5. a \in Seq(Texted) /\ b \in Seq(Texted) /\ d \in Seq(Texted)
  BY OnlySeq
<1> HIDE DEF Part, a, b, d
<1>6. [q \in 1 .. 3 |-> Part(q)] = Add(Add(<<a>>, b), d)
  <2>1. Add(Add(<<a>>, b), d) = <<a, b, d>>
    <3>1. Add(<<a>>, b) = <<a, b>>
      BY AddPair
    <3> QED
      BY <3>1, AddThird
  <2>2. [q \in 1 .. 3 |-> Part(q)] = <<Part(1), Part(2), Part(3)>>
    <3>1. 1 .. 3 = {1, 2, 3}
      OBVIOUS
    <3> QED
      BY <3>1
  <2> QED
    BY <1>3, <2>1, <2>2
<1>7. FlattenSeq(Add(Add(<<a>>, b), d)) = Cat(Cat(a, b), d)
  <2> DEFINE aa == <<a>>
             ab == Add(aa, b)
  <2>1. aa \in Seq(Seq(Texted)) /\ FlattenSeq(aa) = a
    BY <1>5, FlattenOne
  <2> HIDE DEF aa
  <2>2. ab \in Seq(Seq(Texted)) /\ FlattenSeq(ab) = Cat(a, b)
    BY <1>5, <2>1, AddType, FlattenAdd
  <2> HIDE DEF ab
  <2>3. FlattenSeq(Add(ab, d)) = Cat(FlattenSeq(ab), d)
    BY <1>5, <2>2, FlattenAdd
  <2> QED
    BY <2>2, <2>3 DEF aa, ab
<1> QED
  BY <1>2, <1>6, <1>7, Zenon DEF a, b, d

Better(C, q) == Range(C) \cap UNION {Rank(r) : r \in {r \in 1 .. 3 : r < q}}

Worse(C, q) == Range(C) \cap UNION {Rank(r) : r \in {r \in 1 .. 3 : r > q}}

(* The chunks of one rank stand between those of better and worse ones.    *)
LEMMA RankBetween ==
  ASSUME NEW C \in Seq(Texted), NEW q \in 1 .. 3
  PROVE  \E x \in Seq(Better(C, q)) :
         \E y \in Seq(Worse(C, q)) :
           SortByPriority(C) = Cat(Cat(x, Only(C, Rank(q))), y)
<1> DEFINE a == Only(C, Rank(1))
           b == Only(C, Rank(2))
           d == Only(C, Rank(3))
           B == Range(C)
           Low == Better(C, q)
           High == Worse(C, q)
<1>1. SortByPriority(C) = Cat(Cat(a, b), d)
  BY SortIs
<1>2. B \subseteq Texted /\ C \in Seq(B)
  BY RangeType
<1>3. a \in Seq(B \cap Rank(1)) /\ b \in Seq(B \cap Rank(2)) /\ d \in Seq(B \cap Rank(3))
  BY <1>2, OnlyType
<1>4. a \in Seq(Texted) /\ b \in Seq(Texted) /\ d \in Seq(Texted) /\ Cat(a, b) \in Seq(Texted)
  BY OnlySeq, CatType
<1>5. <<>> \in Seq(Low) /\ <<>> \in Seq(High)
  OBVIOUS
<1>6. Cat(<<>>, a) = a /\ Cat(Cat(a, b), <<>>) = Cat(a, b) /\ Cat(Cat(a, b), d) = Cat(a, Cat(b, d))
      /\ Cat(Cat(Cat(a, b), d), <<>>) = Cat(Cat(a, b), d)
  <2>1. Cat(Cat(a, b), d) \in Seq(Texted)
    BY <1>4, CatType
  <2> QED
    BY <1>4, <2>1, CatEmpty, CatAssociative
<1> HIDE DEF a, b, d, B
<1>7. CASE q = 1
  <2>1. Cat(b, d) \in Seq(High)
    <3>1. B \cap Rank(2) \subseteq High /\ B \cap Rank(3) \subseteq High
      BY <1>7 DEF Better, Worse, B
    <3> HIDE DEF High
    <3>2. b \in Seq(High) /\ d \in Seq(High)
      BY <1>3, <3>1, SeqWider
    <3> QED
      BY <3>2, CatType
  <2>2. SortByPriority(C) = Cat(Cat(<<>>, a), Cat(b, d))
    BY <1>1, <1>6, Zenon
  <2> HIDE DEF Low, High
  <2>3. \E x \in Seq(Low) : \E y \in Seq(High) : SortByPriority(C) = Cat(Cat(x, a), y)
    BY <1>5, <2>1, <2>2, Zenon
  <2> QED
    BY <1>7, <2>3 DEF Low, High, a, B
<1>8. CASE q = 2
  <2>1. a \in Seq(Low) /\ d \in Seq(High)
    <3>1. B \cap Rank(1) \subseteq Low /\ B \cap Rank(3) \subseteq High
      BY <1>8 DEF Better, Worse, B
    <3> HIDE DEF High, Low
    <3> QED
      BY <1>3, <3>1, SeqWider
  <2> HIDE DEF Low, High
  <2>3. \E x \in Seq(Low) : \E y \in Seq(High) : SortByPriority(C) = Cat(Cat(x, b), y)
    BY <1>1, <2>1, Zenon
  <2> QED
    BY <1>8, <2>3 DEF Low, High, b, B
<1>9. CASE q = 3
  <2>1. Cat(a, b) \in Seq(Low)
    <3>1. B \cap Rank(1) \subseteq Low /\ B \cap Rank(2) \subseteq Low
      BY <1>9 DEF Better, Worse, B
    <3> HIDE DEF Low
    <3>2. a \in Seq(Low) /\ b \in Seq(Low)
      BY <1>3, <3>1, SeqWider
    <3> QED
      BY <3>2, CatType
  <2>2. SortByPriority(C) = Cat(Cat(Cat(a, b), d), <<>>)
    BY <1>1, <1>6, Zenon
  <2> HIDE DEF Low, High
  <2>3. \E x \in Seq(Low) : \E y \in Seq(High) : SortByPriority(C) = Cat(Cat(x, d), y)
    BY <1>5, <2>1, <2>2, Zenon
  <2> QED
    BY <1>9, <2>3 DEF Low, High, d, B
<1>10. q = 1 \/ q = 2 \/ q = 3
  OBVIOUS
<1> QED
  BY <1>7, <1>8, <1>9, <1>10, Zenon

LEMMA RanksLen ==
  ASSUME NEW D, D \subseteq Texted, \A c \in D : FilePriority(c) \in 1 .. 3, NEW C \in Seq(D)
  PROVE  /\ Len(SortByPriority(C)) = Len(C)
         /\ SortByPriority(C) \in Seq(Range(C))
<1> DEFINE a(w) == Only(w, Rank(1))
           b(w) == Only(w, Rank(2))
           d(w) == Only(w, Rank(3))
           T == {w \in Seq(D) : Len(a(w)) + Len(b(w)) + Len(d(w)) = Len(w)}
<1>1. <<>> \in T
  <2>1. a(<<>>) = <<>> /\ b(<<>>) = <<>> /\ d(<<>>) = <<>>
    BY OnlyEmpty
  <2>2. <<>> \in Seq(D) /\ Len(<<>>) = 0
    OBVIOUS
  <2> HIDE DEF a, b, d
  <2> QED
    BY <2>1, <2>2
<1>2. ASSUME NEW w \in Seq(D), NEW c \in D, w \in T  PROVE Add(w, c) \in T
  <2>1. a(Add(w, c)) = IF c \in Rank(1) THEN Add(a(w), c) ELSE a(w)
    BY OnlyAdd
  <2>2. b(Add(w, c)) = IF c \in Rank(2) THEN Add(b(w), c) ELSE b(w)
    BY OnlyAdd
  <2>3. d(Add(w, c)) = IF c \in Rank(3) THEN Add(d(w), c) ELSE d(w)
    BY OnlyAdd
  <2>4. a(w) \in Seq(D) /\ b(w) \in Seq(D) /\ d(w) \in Seq(D)
    BY OnlySeq
  <2>5. Len(a(w)) + Len(b(w)) + Len(d(w)) = Len(w)
    BY <1>2
  <2> HIDE DEF a, b, d
  <2>6. Add(w, c) \in Seq(D) /\ Len(Add(w, c)) = Len(w) + 1
    BY AddType
  <2>7. Len(Add(a(w), c)) = Len(a(w)) + 1 /\ Len(Add(b(w), c)) = Len(b(w)) + 1
        /\ Len(Add(d(w), c)) = Len(d(w)) + 1
    BY <2>4, AddType
  <2>8. Len(a(w)) \in Nat /\ Len(b(w)) \in Nat /\ Len(d(w)) \in Nat /\ Len(w) \in Nat
    BY <2>4, LenProperties
  <2>9. \/ c \in Rank(1) /\ c \notin Rank(2) /\ c \notin Rank(3)
        \/ c \notin Rank(1) /\ c \in Rank(2) /\ c \notin Rank(3)
        \/ c \notin Rank(1) /\ c \notin Rank(2) /\ c \in Rank(3)
    BY DEF Rank
  <2> HIDE DEF T
  <2>11. /\ (Len(a(w)) + 1) + Len(b(w)) + Len(d(w)) = Len(w) + 1
         /\ Len(a(w)) + (Len(b(w)) + 1) + Len(d(w)) = Len(w) + 1
         /\ Len(a(w)) + Len(b(w)) + (Len(d(w)) + 1) = Len(w) + 1
    BY <2>5, <2>8
  <2>10. Len(a(Add(w, c))) + Len(b(Add(w, c))) + Len(d(Add(w, c))) = Len(Add(w, c))
    <3>1. CASE c \in Rank(1) /\ c \notin Rank(2) /\ c \notin Rank(3)
      <4>1. a(Add(w, c)) = Add(a(w), c) /\ b(Add(w, c)) = b(w) /\ d(Add(w, c)) = d(w)
        BY <2>1, <2>2, <2>3, <3>1, Zenon
      <4>2. Len(a(Add(w, c))) = Len(a(w)) + 1 /\ Len(b(Add(w, c))) = Len(b(w)) /\ Len(d(Add(w, c))) = Len(d(w))
        BY <2>7, <4>1, Zenon
      <4> QED
        BY <2>6, <2>8, <2>11, <4>2
    <3>2. CASE c \notin Rank(1) /\ c \in Rank(2) /\ c \notin Rank(3)
      <4>1. a(Add(w, c)) = a(w) /\ b(Add(w, c)) = Add(b(w), c) /\ d(Add(w, c)) = d(w)
        BY <2>1, <2>2, <2>3, <3>2, Zenon
      <4>2. Len(a(Add(w, c))) = Len(a(w)) /\ Len(b(Add(w, c))) = Len(b(w)) + 1 /\ Len(d(Add(w, c))) = Len(d(w))
        BY <2>7, <4>1, Zenon
      <4> QED
        BY <2>6, <2>8, <2>11, <4>2
    <3>3. CASE c \notin Rank(1) /\ c \notin Rank(2) /\ c \in Rank(3)
      <4>1. a(Add(w, c)) = a(w) /\ b(Add(w, c)) = b(w) /\ d(Add(w, c)) = Add(d(w), c)
        BY <2>1, <2>2, <2>3, <3>3, Zenon
      <4>2. Len(a(Add(w, c))) = Len(a(w)) /\ Len(b(Add(w, c))) = Len(b(w)) /\ Len(d(Add(w, c))) = Len(d(w)) + 1
        BY <2>7, <4>1, Zenon
      <4> QED
        BY <2>6, <2>8, <2>11, <4>2
    <3> QED
      BY <2>9, <3>1, <3>2, <3>3, Zenon
  <2> QED
    BY <2>6, <2>10 DEF T
<1>3. Seq(D) \subseteq T
  <2> HIDE DEF T
  <2> QED
    BY <1>1, <1>2, SeqInduct
<1>4. Len(a(C)) + Len(b(C)) + Len(d(C)) = Len(C)
  BY <1>3
<1>5. C \in Seq(Texted)
  BY SeqWider
<1>6. SortByPriority(C) = Cat(Cat(a(C), b(C)), d(C))
  BY <1>5, SortIs
<1>7. C \in Seq(Range(C))
  BY <1>5, RangeType
<1>8. a(C) \in Seq(Range(C)) /\ b(C) \in Seq(Range(C)) /\ d(C) \in Seq(Range(C))
  BY <1>7, OnlySeq
<1> HIDE DEF a, b, d
<1>9. Cat(a(C), b(C)) \in Seq(Range(C)) /\ Len(Cat(a(C), b(C))) = Len(a(C)) + Len(b(C))
  BY <1>8, CatType
<1>10. Cat(Cat(a(C), b(C)), d(C)) \in Seq(Range(C))
       /\ Len(Cat(Cat(a(C), b(C)), d(C))) = Len(Cat(a(C), b(C))) + Len(d(C))
  BY <1>8, <1>9, CatType
<1> QED
  BY <1>4, <1>6, <1>9, <1>10

(* A sequence is what is before, at and after a place.                     *)
LEMMA SplitAt ==
  ASSUME NEW B, NEW w \in Seq(B), NEW i \in 1 .. Len(w)
  PROVE  \E u \in Seq({w[j] : j \in 1 .. (i - 1)}) : \E v \in Seq({w[j] : j \in (i + 1) .. Len(w)}) :
           w = Cat(u, Cat(<<w[i]>>, v))
<1> DEFINE u == [j \in 1 .. (i - 1) |-> w[j]]
           v == [j \in 1 .. (Len(w) - i) |-> w[i + j]]
           x == <<w[i]>>
           U == {w[j] : j \in 1 .. (i - 1)}
           V == {w[j] : j \in (i + 1) .. Len(w)}
           z == Cat(x, v)
           y == Cat(u, z)
<1>0. Len(w) \in Nat /\ i \in Nat /\ i >= 1 /\ i <= Len(w)
  BY LenProperties
<1>1. u \in Seq(U) /\ Len(u) = i - 1
  <2>1. \A j \in 1 .. (i - 1) : w[j] \in U
    OBVIOUS
  <2>2. i - 1 \in Nat
    BY <1>0
  <2> HIDE DEF U
  <2> QED
    BY <2>1, <2>2
<1>2. v \in Seq(V) /\ Len(v) = Len(w) - i
  <2>1. \A j \in 1 .. (Len(w) - i) : w[i + j] \in V
    BY <1>0
  <2>2. Len(w) - i \in Nat
    BY <1>0
  <2> HIDE DEF V
  <2> QED
    BY <2>1, <2>2
<1>3. \A j \in 1 .. Len(w) : w[j] \in B
  OBVIOUS
<1>4. u \in Seq(B) /\ v \in Seq(B) /\ w[i] \in B
  <2>1. U \subseteq B /\ V \subseteq B
    BY <1>0, <1>3
  <2> HIDE DEF U, V, u, v
  <2> QED
    BY <1>1, <1>2, <1>3, <2>1, SeqWider
<1>5. x \in Seq(B) /\ Len(x) = 1 /\ x[1] = w[i]
  BY <1>4, OneType
<1>6. (\A j \in 1 .. (i - 1) : u[j] = w[j]) /\ (\A j \in 1 .. (Len(w) - i) : v[j] = w[i + j])
  OBVIOUS
<1> HIDE DEF u, v, x, U, V
<1>18. x \in Seq(B) /\ v \in Seq(B)
  BY <1>4, <1>5
<1>7. z \in Seq(B) /\ Len(z) = Len(x) + Len(v)
  BY <1>4, <1>5, CatType
<1>8. \A j \in 1 .. Len(x) : z[j] = x[j]
  BY <1>4, <1>5, CatType
<1>9. \A j \in 1 .. Len(v) : z[Len(x) + j] = v[j]
  BY <1>18, CatType
<1> HIDE DEF z
<1>19. u \in Seq(B) /\ z \in Seq(B)
  BY <1>4, <1>7
<1>10. y \in Seq(B) /\ Len(y) = Len(u) + Len(z)
  BY <1>4, <1>7, CatType
<1>11. \A j \in 1 .. Len(u) : y[j] = u[j]
  BY <1>4, <1>7, CatType
<1>12. \A j \in 1 .. Len(z) : y[Len(u) + j] = z[j]
  BY <1>19, CatType
<1> HIDE DEF y
<1>13. Len(y) = Len(w)
  BY <1>0, <1>1, <1>2, <1>5, <1>7, <1>10
<1>14. ASSUME NEW j \in 1 .. Len(w)  PROVE y[j] = w[j]
  <2>1. CASE j < i
    <3>1. j \in 1 .. Len(u) /\ j \in 1 .. (i - 1)
      BY <1>0, <1>1, <2>1
    <3> QED
      BY <1>6, <1>11, <3>1
  <2>2. CASE j = i
    <3>1. 1 \in 1 .. Len(z) /\ 1 \in 1 .. Len(x) /\ j = Len(u) + 1
      BY <1>0, <1>1, <1>2, <1>5, <1>7, <2>2
    <3> QED
      BY <1>5, <1>8, <1>12, <2>2, <3>1
  <2>3. CASE j > i
    <3> DEFINE m == j - i
    <3>1. m \in 1 .. Len(v) /\ m \in 1 .. (Len(w) - i) /\ i + m = j
      BY <1>0, <1>2, <2>3
    <3>2. Len(x) + m \in 1 .. Len(z) /\ Len(u) + (Len(x) + m) = j
      BY <1>0, <1>1, <1>2, <1>5, <1>7, <2>3
    <3> HIDE DEF m
    <3>3. y[Len(u) + (Len(x) + m)] = z[Len(x) + m]
      BY <1>12, <3>2
    <3>4. z[Len(x) + m] = v[m] /\ v[m] = w[i + m]
      BY <1>6, <1>9, <3>1
    <3> QED
      BY <3>1, <3>2, <3>3, <3>4
  <2> QED
    BY <1>0, <2>1, <2>2, <2>3
<1>15. y = w
  BY <1>10, <1>13, <1>14, SeqEqual
<1>16. w = Cat(u, Cat(x, v))
  BY <1>15 DEF y, z
<1>17. \E p \in Seq(U) : \E q \in Seq(V) : w = Cat(p, Cat(x, q))
  BY <1>1, <1>2, <1>16, Zenon
<1> QED
  BY <1>17 DEF U, V, x

Goes(fs, j, i) ==
  \/ Priority[fs[j].path] < Priority[fs[i].path]
  \/ Priority[fs[j].path] = Priority[fs[i].path] /\ j < i

Ahead(fs, i) == {WrittenFile(fs[j]) : j \in {j \in DOMAIN fs : Goes(fs, j, i)}}

Behind(fs, i) == {WrittenFile(fs[j]) : j \in {j \in DOMAIN fs : ~Goes(fs, j, i) /\ j # i}}

LEMMA ChunkAt ==
  ASSUME NEW fs, FilesOK(fs)
  PROVE  /\ Chunks(fs) \in Seq(Texted) /\ DOMAIN Chunks(fs) = DOMAIN fs
         /\ Len(Chunks(fs)) = Len(fs) /\ Len(fs) \in Nat /\ DOMAIN fs = 1 .. Len(fs)
         /\ \A i \in DOMAIN fs :
              /\ Chunks(fs)[i] = WrittenFile(fs[i]) /\ WrittenFile(fs[i]) \in Texted
              /\ FilePriority(WrittenFile(fs[i])) = Priority[fs[i].path] /\ Priority[fs[i].path] \in 1 .. 3
         /\ \A i, j \in DOMAIN fs : WrittenFile(fs[i]) = WrittenFile(fs[j]) => i = j
<1>1. fs \in Seq(File) /\ \A i \in DOMAIN fs : fs[i] \in File /\ fs[i].path = Names[i] /\ i \in DOMAIN Names
  <2>1. fs \in Seq(File) /\ Len(fs) <= Len(Names) /\ \A i \in DOMAIN fs : fs[i].path = Names[i]
    BY DEF FilesOK
  <2>2. Names \in Seq(STRING)
    BY DiffAssumption
  <2> QED
    BY <2>1, <2>2
<1>2. /\ Chunks(fs) \in Seq(Seq(LineSet))
      /\ DOMAIN Chunks(fs) = DOMAIN fs /\ Len(Chunks(fs)) = Len(fs)
      /\ \A i \in DOMAIN fs : Chunks(fs)[i] = WrittenFile(fs[i]) /\ WrittenFile(fs[i]) \in Seq(LineSet)
  BY <1>1, ChunksType
<1>3. \A i \in DOMAIN fs :
        FilePriority(WrittenFile(fs[i])) = Priority[fs[i].path] /\ Priority[fs[i].path] \in 1 .. 3
  BY <1>1, PriorityIs
<1>4. ASSUME NEW i \in DOMAIN fs, NEW j \in DOMAIN fs, WrittenFile(fs[i]) = WrittenFile(fs[j])  PROVE i = j
  <2>1. fs[i].path = fs[j].path
    <3>1. HeadOf(fs[i]).val = fs[i].path /\ Head(WrittenFile(fs[i])) = HeadOf(fs[i])
      BY <1>1, HeadIs
    <3>2. HeadOf(fs[j]).val = fs[j].path /\ Head(WrittenFile(fs[j])) = HeadOf(fs[j])
      BY <1>1, HeadIs
    <3> QED
      BY <1>4, <3>1, <3>2, Zenon
  <2> QED
    BY <1>1, <2>1, NamesApart
<1>5. Len(fs) \in Nat /\ DOMAIN fs = 1 .. Len(fs)
  BY <1>1
<1> QED
  BY <1>2, <1>3, <1>4, <1>5, Zenon DEF Texted

(* Where a file's chunk stands in the order.                               *)
LEMMA Place ==
  ASSUME NEW fs, FilesOK(fs), NEW i \in DOMAIN fs
  PROVE  /\ Ahead(fs, i) \subseteq Texted /\ Behind(fs, i) \subseteq Texted
         /\ Ahead(fs, i) \cap Behind(fs, i) = {} /\ WrittenFile(fs[i]) \notin Ahead(fs, i)
         /\ \E u \in Seq(Ahead(fs, i)) : \E v \in Seq(Behind(fs, i)) :
              SortByPriority(Chunks(fs)) = Cat(u, Cat(<<WrittenFile(fs[i])>>, v))
<1> DEFINE C == Chunks(fs)
           c == WrittenFile(fs[i])
           q == Priority[fs[i].path]
           cc == <<c>>
           A == Ahead(fs, i)
           B == Behind(fs, i)
<1>1. /\ C \in Seq(Texted) /\ DOMAIN C = DOMAIN fs
      /\ Len(C) = Len(fs) /\ Len(fs) \in Nat /\ DOMAIN fs = 1 .. Len(fs)
      /\ c \in Texted /\ FilePriority(c) = q /\ q \in 1 .. 3
  BY ChunkAt, Zenon
<1>2. \A j \in DOMAIN fs :
         /\ C[j] = WrittenFile(fs[j]) /\ WrittenFile(fs[j]) \in Texted
         /\ FilePriority(WrittenFile(fs[j])) = Priority[fs[j].path] /\ Priority[fs[j].path] \in 1 .. 3
  BY ChunkAt
<1>3. \A j, k \in DOMAIN fs : WrittenFile(fs[k]) = WrittenFile(fs[j]) => k = j
  BY ChunkAt
<1>4. A \subseteq Texted /\ B \subseteq Texted
  BY <1>2 DEF Ahead, Behind
<1>5. A \cap B = {} /\ c \notin A
  <2>1. ~Goes(fs, i, i)
    BY <1>1 DEF Goes
  <2> QED
    BY <1>3, <2>1 DEF Ahead, Behind
<1>6. Range(C) = {WrittenFile(fs[j]) : j \in DOMAIN fs}
  BY <1>1, <1>2 DEF Range
<1>7. Better(C, q) \subseteq A /\ Worse(C, q) \subseteq B
  <2>1. ASSUME NEW d \in Better(C, q)  PROVE d \in A
    <3>1. PICK j \in DOMAIN fs : d = WrittenFile(fs[j])
      BY <1>6 DEF Better
    <3>2. FilePriority(d) < q
      BY DEF Better, Rank
    <3> QED
      BY <1>2, <3>1, <3>2 DEF Ahead, Goes
  <2>2. ASSUME NEW d \in Worse(C, q)  PROVE d \in B
    <3>1. PICK j \in DOMAIN fs : d = WrittenFile(fs[j])
      BY <1>6 DEF Worse
    <3>2. FilePriority(d) > q
      BY DEF Worse, Rank
    <3>3. Priority[fs[j].path] > q
      BY <1>2, <3>1, <3>2
    <3>4. j # i /\ ~Goes(fs, j, i)
      BY <1>1, <1>2, <3>3 DEF Goes
    <3> QED
      BY <3>1, <3>4 DEF Behind
  <2> QED
    BY <2>1, <2>2
<1>8. PICK x \in Seq(Better(C, q)), y \in Seq(Worse(C, q)) :
        SortByPriority(C) = Cat(Cat(x, Only(C, Rank(q))), y)
  BY <1>1, RankBetween
<1>9. PICK u \in Seq({C[j] : j \in 1 .. (i - 1)}), v \in Seq({C[j] : j \in (i + 1) .. Len(C)}) :
        C = Cat(u, Cat(<<C[i]>>, v))
  <2>1. i \in 1 .. Len(C)
    BY <1>1
  <2> HIDE DEF C
  <2> QED
    BY <1>1, <2>1, SplitAt
<1>10. C[i] = c
  BY <1>2
<1>11. x \in Seq(A) /\ y \in Seq(B)
  <2> HIDE DEF A, B, C, q
  <2> QED
    BY <1>7, SeqWider
<1> DEFINE u1 == Only(u, Rank(q))
           v1 == Only(v, Rank(q))
           J == Rank(q)
<1>12. u1 \in Seq(A) /\ v1 \in Seq(B) /\ u \in Seq(Texted) /\ v \in Seq(Texted)
  <2> DEFINE U == {C[j] : j \in 1 .. (i - 1)}
             V == {C[j] : j \in (i + 1) .. Len(C)}
  <2>1. U \subseteq Texted /\ V \subseteq Texted
    BY <1>1, <1>2
  <2>2. U \cap J \subseteq A
    <3> SUFFICES ASSUME NEW j \in 1 .. (i - 1), C[j] \in J  PROVE C[j] \in A
      OBVIOUS
    <3>1. j \in DOMAIN fs /\ j < i
      BY <1>1
    <3>2. Priority[fs[j].path] = q
      BY <1>2, <3>1 DEF Rank
    <3> QED
      BY <1>2, <3>1, <3>2 DEF Ahead, Goes
  <2>3. V \cap J \subseteq B
    <3> SUFFICES ASSUME NEW j \in (i + 1) .. Len(C), C[j] \in J  PROVE C[j] \in B
      OBVIOUS
    <3>1. j \in DOMAIN fs /\ j > i
      BY <1>1
    <3>2. Priority[fs[j].path] = q
      BY <1>2, <3>1 DEF Rank
    <3>3. ~Goes(fs, j, i) /\ j # i
      BY <1>1, <3>1, <3>2 DEF Goes
    <3> QED
      BY <1>2, <3>1, <3>3 DEF Behind
  <2>4. u \in Seq(U) /\ v \in Seq(V)
    OBVIOUS
  <2> HIDE DEF U, V, A, B, J, C
  <2>5. Only(u, J) \in Seq(U \cap J) /\ Only(v, J) \in Seq(V \cap J)
    BY <2>4, OnlyType
  <2>6. Only(u, J) \in Seq(A) /\ Only(v, J) \in Seq(B)
    BY <2>2, <2>3, <2>5, SeqWider
  <2>7. u \in Seq(Texted) /\ v \in Seq(Texted)
    BY <2>1, <2>4, SeqWider
  <2> QED
    BY <2>6, <2>7 DEF J
<1>13. cc \in Seq(Texted)
  <2> HIDE DEF c
  <2> QED
    BY <1>1, OneType
<1>14. Only(C, J) = Cat(u1, Cat(cc, v1))
  <2>1. Only(cc, J) = cc
    <3>1. c \in J
      BY <1>1 DEF Rank
    <3> HIDE DEF c, J
    <3> QED
      BY <3>1, OnlyOne
  <2>2. C = Cat(u, Cat(cc, v))
    BY <1>9, <1>10, Zenon
  <2> HIDE DEF cc, J, C
  <2>3. Cat(cc, v) \in Seq(Texted)
    BY <1>12, <1>13, CatType
  <2>4. Only(Cat(u, Cat(cc, v)), J) = Cat(Only(u, J), Only(Cat(cc, v), J))
    BY <1>12, <2>3, OnlyCat
  <2>5. Only(Cat(cc, v), J) = Cat(Only(cc, J), Only(v, J))
    BY <1>12, <1>13, OnlyCat
  <2> QED
    BY <2>1, <2>2, <2>4, <2>5, Zenon DEF J
<1> HIDE DEF A, B, C, c, q, cc, u1, v1, J
<1>15. x \in Seq(Texted) /\ y \in Seq(Texted) /\ u1 \in Seq(Texted) /\ v1 \in Seq(Texted)
  BY <1>4, <1>11, <1>12, SeqWider
<1>16. Cat(x, u1) \in Seq(A) /\ Cat(v1, y) \in Seq(B)
  BY <1>11, <1>12, CatType
<1>17. Cat(Cat(x, Cat(u1, Cat(cc, v1))), y) = Cat(Cat(x, u1), Cat(cc, Cat(v1, y)))
  <2>1. Cat(cc, v1) \in Seq(Texted) /\ Cat(x, u1) \in Seq(Texted)
    BY <1>13, <1>15, CatType
  <2>2. Cat(x, Cat(u1, Cat(cc, v1))) = Cat(Cat(x, u1), Cat(cc, v1))
    BY <1>15, <2>1, CatAssociative
  <2>3. Cat(Cat(Cat(x, u1), Cat(cc, v1)), y) = Cat(Cat(x, u1), Cat(Cat(cc, v1), y))
    BY <1>15, <2>1, CatAssociative
  <2>4. Cat(Cat(cc, v1), y) = Cat(cc, Cat(v1, y))
    BY <1>13, <1>15, CatAssociative
  <2> QED
    BY <2>2, <2>3, <2>4, Zenon
<1>18. SortByPriority(C) = Cat(Cat(x, u1), Cat(cc, Cat(v1, y)))
  BY <1>8, <1>14, <1>17, Zenon DEF J
<1>19. \E a \in Seq(A) : \E b \in Seq(B) : SortByPriority(C) = Cat(a, Cat(cc, b))
  BY <1>16, <1>18, Zenon
<1> QED
  BY <1>4, <1>5, <1>19, Zenon DEF A, B, C, c, cc

LEMMA GitDiffSome ==
  ASSUME NEW fs \in Seq(File), fs # <<>>
  PROVE  FlattenSeq(Chunks(fs)) # <<>> /\ FlattenSeq(Chunks(fs)) \in Seq(LineSet)
<1> DEFINE n == Len(fs) - 1
           v == SubSeq(fs, 1, n)
           f == fs[n + 1]
           a == FlattenSeq(Chunks(v))
           c == WrittenFile(f)
<1>1. n \in 0 .. (Len(fs) - 1) /\ n + 1 = Len(fs) /\ n \in 0 .. Len(fs) /\ n + 1 \in DOMAIN fs
  OBVIOUS
<1>2. SubSeq(fs, 1, n + 1) = Add(v, f) /\ SubSeq(fs, 1, Len(fs)) = fs
  BY <1>1, Prefix
<1>3. v \in Seq(File) /\ f \in File
  <2>1. \A i \in DOMAIN fs : fs[i] \in File
    OBVIOUS
  <2>2. \A k \in 0 .. Len(fs) : SubSeq(fs, 1, k) \in Seq(File)
    BY Prefix
  <2> QED
    BY <1>1, <2>1, <2>2
<1> HIDE DEF v, f
<1>4. Chunks(fs) = Add(Chunks(v), c)
  <2>1. fs = Add(v, f)
    BY <1>1, <1>2
  <2>2. Chunks(Add(v, f)) = Add(Chunks(v), WrittenFile(f))
    BY <1>3, FilesAdd
  <2> QED
    BY <2>1, <2>2, Zenon
<1>5. c \in Chunk /\ Chunks(v) \in Seq(Seq(LineSet))
  BY <1>3, FileChunk, ChunksType
<1> HIDE DEF c
<1>6. c \in Seq(LineSet) /\ Len(c) >= 1
  BY <1>5, ChunkType
<1>7. FlattenSeq(Add(Chunks(v), c)) = Cat(a, c)
  BY <1>5, <1>6, FlattenAdd
<1>8. a \in Seq(LineSet)
  BY <1>5, FlattenType
<1> HIDE DEF a
<1> DEFINE z == Cat(a, c)
<1>9. z \in Seq(LineSet) /\ Len(z) = Len(a) + Len(c)
  BY <1>6, <1>8, CatType
<1>10. Len(a) \in Nat /\ Len(c) \in Nat
  BY <1>6, <1>8, LenProperties
<1> HIDE DEF z
<1>11. Len(z) >= 1
  BY <1>6, <1>9, <1>10
<1>12. z # <<>>
  BY <1>11
<1> QED
  BY <1>4, <1>7, <1>9, <1>12, Zenon DEF z

(* What prioritizedTruncate chooses from the chunks of the files.          *)
LEMMA Chosen ==
  ASSUME NEW fs, FilesOK(fs), NEW kept, kept = KFold(<<>>, SortByPriority(Chunks(fs)))
  PROVE  /\ kept \in Seq(Texted)
         /\ Len(SortByPriority(Chunks(fs))) = Len(fs) /\ Len(kept) \in Nat
         /\ \A c \in Range(kept) : \E i \in DOMAIN fs : c = WrittenFile(fs[i])
         /\ \A i \in DOMAIN fs : WrittenFile(fs[i]) \notin Range(kept) =>
              Size(WrittenFile(fs[i])) + Size(FlattenSeq(Only(kept, Ahead(fs, i)))) > budget
<1> DEFINE C == Chunks(fs)
           E == SortByPriority(C)
           B == Range(C)
<1>1. C \in Seq(Texted) /\ DOMAIN C = DOMAIN fs /\ Len(C) = Len(fs)
  BY ChunkAt, Zenon
<1>2. \A i \in DOMAIN fs : C[i] = WrittenFile(fs[i]) /\ FilePriority(C[i]) \in 1 .. 3
  BY ChunkAt
<1>3. C \in Seq(B) /\ B \subseteq Texted /\ \A c \in B : FilePriority(c) \in 1 .. 3
  <2>1. C \in Seq(B) /\ B \subseteq Texted
    BY <1>1, RangeType
  <2> QED
    BY <1>1, <1>2, <2>1 DEF Range
<1>4. Len(E) = Len(C) /\ E \in Seq(B)
  <2>1. \A D : D \subseteq Texted /\ (\A c \in D : FilePriority(c) \in 1 .. 3) /\ C \in Seq(D) =>
           Len(SortByPriority(C)) = Len(C) /\ SortByPriority(C) \in Seq(Range(C))
    BY RanksLen
  <2> HIDE DEF C
  <2> QED
    BY <1>3, <2>1, Zenon
<1> HIDE DEF C, E
<1>5. kept = KFold(<<>>, E)
  BY DEF C, E
<1>6. E \in Seq(Texted)
  <2> HIDE DEF B
  <2> QED
    BY <1>3, <1>4, SeqWider
<1>7. kept \in Seq(Texted)
  BY <1>5, <1>6, KeptBound, Zenon
<1>8. kept \in Seq(B)
  <2> HIDE DEF B
  <2>1. <<>> \in Seq(Texted)
    OBVIOUS
  <2>2. PICK x \in Seq(B) : KFold(<<>>, E) = Cat(<<>>, x)
    BY <1>3, <1>4, <2>1, KeptGrows
  <2>3. Cat(<<>>, x) = x
    BY CatEmpty
  <2> QED
    BY <1>5, <2>2, <2>3, Zenon
<1>9. ASSUME NEW c \in Range(kept)  PROVE \E i \in DOMAIN fs : c = WrittenFile(fs[i])
  <2>1. Range(kept) \subseteq B
    <3> HIDE DEF B
    <3> QED
      BY <1>8, RangeType
  <2>2. c \in Range(C)
    BY <1>9, <2>1
  <2>3. PICK i \in DOMAIN C : c = C[i]
    BY <2>2 DEF Range
  <2> QED
    BY <1>1, <1>2, <2>3
<1>10. ASSUME NEW i \in DOMAIN fs, WrittenFile(fs[i]) \notin Range(kept)
       PROVE  Size(WrittenFile(fs[i])) + Size(FlattenSeq(Only(kept, Ahead(fs, i)))) > budget
  <2> DEFINE c == WrittenFile(fs[i])
             A == Ahead(fs, i)
             D == Behind(fs, i)
  <2>1. A \subseteq Texted /\ D \subseteq Texted /\ A \cap D = {} /\ c \notin A
    BY Place, Zenon
  <2>2. PICK u \in Seq(A), v \in Seq(D) : E = Cat(u, Cat(<<c>>, v))
    <3>1. \E u \in Seq(A) : \E v \in Seq(D) : SortByPriority(Chunks(fs)) = Cat(u, Cat(<<c>>, v))
      BY Place, Zenon
    <3> HIDE DEF A, D, c
    <3> QED
      BY <3>1, Zenon DEF E, C
  <2>3. c \in Texted
    BY ChunkAt
  <2>4. c \notin Range(KFold(<<>>, Cat(u, Cat(<<c>>, v))))
    BY <1>5, <1>10, <2>2, Zenon
  <2> HIDE DEF A, D, c
  <2>5. Size(c) + Size(FlattenSeq(Only(KFold(<<>>, Cat(u, Cat(<<c>>, v))), A))) > budget
    BY <2>1, <2>3, <2>4, NotKept
  <2>6. Size(c) + Size(FlattenSeq(Only(kept, A))) > budget
    BY <1>5, <2>2, <2>5, Zenon
  <2> QED
    BY <2>6 DEF c, A
<1>11. Len(kept) \in Nat
  BY <1>7, LenProperties
<1>12. Len(SortByPriority(Chunks(fs))) = Len(fs)
  BY <1>1, <1>4, Zenon DEF C, E
<1> QED
  BY <1>7, <1>9, <1>10, <1>11, <1>12

LEMMA ShownInv == IInv => ShownFits
<1> SUFFICES ASSUME IInv, Parsed, files # <<>>, Size(GitDiff) <= largeDiffThreshold
             PROVE  ShownFits
  BY DEF ShownFits
<1> DEFINE C == Chunks(files)
           E == SortByPriority(C)
           kept == KFold(<<>>, E)
           shown == built.user.inline.chunks
           Before(j, i) == \/ Priority[files[j].path] < Priority[files[i].path]
                           \/ Priority[files[j].path] = Priority[files[i].path] /\ j < i
           ShownBefore(i) == Select(shown, LAMBDA c : \E j \in DOMAIN files : Before(j, i) /\ c = WrittenFile(files[j]))
<1>1. built = BuiltOf(GitDiff) /\ files \in Seq(File) /\ FilesOK(files)
  BY ParsedIs
<1>2. GitDiff = FlattenSeq(C)
  BY GitDiffIs
<1>3. GitDiff # <<>>
  BY <1>1, <1>2, GitDiffSome
<1>4. built.user.inline = TruncateDiff(GitDiff)
  BY <1>1, <1>3 DEF BuiltOf, InitialUser
<1>5. SplitDiffByFile(GitDiff) = C
  <2>1. C \in Seq(Chunk)
    BY <1>1, ChunksType
  <2> QED
    BY <1>2, <2>1, SplitChunks, Zenon
<1>6. CASE Size(GitDiff) <= budget
  <2>1. built.user.inline = [chunks |-> <<GitDiff>>, dropped |-> 0, cut |-> FALSE]
    BY <1>4, <1>6 DEF TruncateDiff
  <2>2. built.user.inline.chunks = <<GitDiff>> /\ ~built.user.inline.cut
    BY <2>1
  <2>3. ~(Size(GitDiff) > budget)
    <3>1. GitDiff \in Seq(LineSet)
      BY <1>1, <1>2, GitDiffSome
    <3>2. Size(GitDiff) \in Nat
      BY <3>1, LenProperties DEF Size
    <3>3. budget \in Nat
      BY DiffAssumption
    <3> HIDE DEF C, E, kept, shown, Before, ShownBefore
    <3> QED
      BY <1>6, <3>2, <3>3
  <2>4. shown # <<>>
    BY <2>2
  <2> QED
    BY <2>2, <2>3, <2>4 DEF ShownFits
<1>7. CASE ~(Size(GitDiff) <= budget)
  <2>1. built.user.inline = IF kept = <<>>
                            THEN [chunks |-> <<SafeSlice(E[1])>>, dropped |-> Len(E) - 1, cut |-> TRUE]
                            ELSE [chunks |-> kept, dropped |-> Len(E) - Len(kept), cut |-> FALSE]
    BY <1>4, <1>5, <1>7, Zenon DEF TruncateDiff, PrioritizedTruncate, KFold
  <2>2. /\ kept \in Seq(Texted)
        /\ Len(E) = Len(files) /\ Len(kept) \in Nat
        /\ \A c \in Range(kept) : \E i \in DOMAIN files : c = WrittenFile(files[i])
        /\ \A i \in DOMAIN files : WrittenFile(files[i]) \notin Range(kept) =>
             Size(WrittenFile(files[i])) + Size(FlattenSeq(Only(kept, Ahead(files, i)))) > budget
    BY <1>1, Chosen
  <2> HIDE DEF E, kept
  <2>3. CASE kept = <<>>
    <3>1. built.user.inline.chunks = <<SafeSlice(E[1])>> /\ built.user.inline.cut
      BY <2>1, <2>3
    <3>2. shown # <<>>
      BY <3>1
    <3>3. ASSUME NEW i \in DOMAIN files  PROVE Size(WrittenFile(files[i])) > budget
      <4>1. WrittenFile(files[i]) \notin Range(kept)
        BY <2>3 DEF Range
      <4>2. Only(kept, Ahead(files, i)) = <<>> /\ FlattenSeq(<<>>) = <<>>
        BY <2>3, OnlyEmpty, FlattenEmpty, Zenon
      <4>3. Size(<<>>) = 0
        BY DEF Size
      <4>4. Size(WrittenFile(files[i])) + 0 > budget
        BY <2>2, <4>1, <4>2, <4>3, Zenon
      <4>5. Size(WrittenFile(files[i])) \in Nat
        <5>1. WrittenFile(files[i]) \in Seq(LineSet)
          BY <1>1, ChunkAt DEF Texted
        <5> HIDE DEF E
        <5> QED
          BY <5>1, LenProperties DEF Size
      <4> QED
        BY <4>4, <4>5
    <3> QED
      BY <1>7, <3>1, <3>2, <3>3, Zenon DEF ShownFits
  <2>4. CASE kept # <<>>
    <3>1. built.user.inline.chunks = kept /\ ~built.user.inline.cut /\ built.user.inline.dropped = Len(E) - Len(kept)
      BY <2>1, <2>4
    <3>2. Len(kept) + (Len(E) - Len(kept)) = Len(files)
      <4>1. Len(E) \in Nat
        BY <1>1, <2>2, LenProperties
      <4> QED
        BY <2>2, <4>1
    <3>3. ASSUME NEW i \in DOMAIN files  PROVE ShownBefore(i) = Only(kept, Ahead(files, i))
      <4> DEFINE J == {c \in Range(kept) : \E j \in DOMAIN files : Before(j, i) /\ c = WrittenFile(files[j])}
                 A == Ahead(files, i)
      <4>1. J = {c \in Range(kept) : c \in A}
        BY DEF Ahead, Goes
      <4>2. ShownBefore(i) = Only(kept, J)
        BY <3>1, Zenon DEF Select
      <4> HIDE DEF J, A
      <4>3. Only(kept, J) = Only(kept, A)
        BY <2>2, <4>1, OnlyTest
      <4> QED
        BY <4>2, <4>3, Zenon DEF A
    <3>4. ASSUME NEW i \in DOMAIN files, WrittenFile(files[i]) \notin Range(shown)
          PROVE  Size(WrittenFile(files[i])) + Size(FlattenSeq(ShownBefore(i))) > budget
      BY <2>2, <3>1, <3>3, <3>4, Zenon
    <3>5. Len(shown) + built.user.inline.dropped = Len(files)
      BY <3>1, <3>2, Zenon
    <3>6. \A c \in Range(shown) : \E i \in DOMAIN files : c = WrittenFile(files[i])
      BY <2>2, <3>1, Zenon
    <3> QED
      BY <1>7, <2>4, <3>1, <3>4, <3>5, <3>6, Zenon DEF ShownFits
  <2> QED
    BY <2>3, <2>4
<1> QED
  BY <1>6, <1>7

(* ShownFits: a diff within the budget is shown whole; of a larger one a   *)
(* file is left out only for want of room beside those shown before it, in *)
(* the order of their priorities (truncateDiff, prioritizedTruncate).      *)
THEOREM DiffShownFits == Spec => []ShownFits
BY Invariant, ShownInv, PTL

-----------------------------------------------------------------------------
(* The types of what is parsed.                                            *)
AnyLine == [lead : {" ", "+", "-"}, val : Value, old : Nat, new : Nat]

AnyHunk == [OldStart : Nat, NewStart : Nat, Lines : Seq(AnyLine)]

AnyFile == [OldPath : Value, NewPath : Value, Binary : BOOLEAN, Hunks : Seq(AnyHunk)]

LEMMA TextType == TextLines \subseteq AnyLine
BY DEF TextLines, LineSet, AnyLine

LEMMA ParsedHunkType ==
  ASSUME NEW h \in BodyHunk
  PROVE  ParsedHunk(h) \in AnyHunk
<1> DEFINE w == Only(HunkBody(h), TextLines)
<1>1. w \in Seq(HunkLines \cap TextLines)
  BY HunkType, OnlyType
<1>2. HunkLines \cap TextLines \subseteq AnyLine
  BY TextType
<1> HIDE DEF w
<1>3. w \in Seq(AnyLine)
  BY <1>1, <1>2, SeqWider
<1>4. h.old \in Nat /\ h.new \in Nat
  BY DEF BodyHunk
<1> DEFINE L == AnyLine
<1> HIDE DEF L
<1>5. w \in Seq(L)
  BY <1>3 DEF L
<1>6. [OldStart |-> h.old, NewStart |-> h.new, Lines |-> w] \in [OldStart : Nat, NewStart : Nat, Lines : Seq(L)]
  BY <1>4, <1>5
<1> QED
  BY <1>6, Zenon DEF w, L, ParsedHunk, Hunk, AnyHunk

LEMMA NamedType ==
  ASSUME NEW o \in Value, NEW w \in Seq(HunkLines), NEW lead \in {"---", "+++"}
  PROVE  Named(o, w, lead) \in Value
<1>1. CASE \E i \in DOMAIN w : w[i].lead = lead
  <2>1. PICK i \in DOMAIN w : w[i].lead = lead
    BY <1>1
  <2> DEFINE x == w[i]
  <2>2. x \in HunkLines
    OBVIOUS
  <2>3. x.lead = lead
    BY <2>1
  <2> HIDE DEF x
  <2>4. x.val = "mark" /\ x.val \in Value
    BY <2>2, <2>3 DEF HunkLines, LineSet
  <2> QED
    BY <1>1, <2>4 DEF Named
<1>2. CASE ~\E i \in DOMAIN w : w[i].lead = lead
  BY <1>2 DEF Named
<1> QED
  BY <1>1, <1>2

LEMMA ParsedFileType ==
  ASSUME NEW f \in File
  PROVE  ParsedFile(f) \in AnyFile
<1> DEFINE w == AllBody(f.hunks)
           o == Named(OldHeader(f), w, "---")
           n == Named(NewHeader(f), w, "+++")
           b == IsBinary(f)
           hs == ParsedHunks(f.hunks)
           D == Value
           M == Seq(AnyHunk)
<1>1. f.path \in D /\ "" \in D /\ "/dev/null" \in D
  <2>1. f.path \in Range(Names)
    BY DEF File
  <2> QED
    BY <2>1, ValueType
<1>2. OldHeader(f) \in D /\ NewHeader(f) \in D
  <2> HIDE DEF D
  <2> QED
    BY <1>1 DEF OldHeader, NewHeader, OldName, NewName
<1>3. o \in D /\ n \in D
  <2>1. f.hunks \in Seq(BodyHunk)
    BY DEF File
  <2>2. w \in Seq(HunkLines)
    BY <2>1, TextsType
  <2> HIDE DEF w
  <2> QED
    BY <1>2, <2>2, NamedType
<1>4. b \in BOOLEAN
  BY DEF IsBinary
<1>5. hs \in M
  <2>1. f.hunks \in Seq(BodyHunk)
    BY DEF File
  <2>2. \A k \in DOMAIN f.hunks : f.hunks[k] \in BodyHunk
    BY <2>1
  <2>3. \A k \in DOMAIN f.hunks : ParsedHunk(f.hunks[k]) \in AnyHunk
    BY <2>2, ParsedHunkType
  <2>4. DOMAIN f.hunks = 1 .. Len(f.hunks) /\ Len(f.hunks) \in Nat
    BY <2>1
  <2> QED
    BY <2>3, <2>4 DEF ParsedHunks
<1> HIDE DEF o, n, b, hs, D, M, w
<1>6. [OldPath |-> o, NewPath |-> n, Hunks |-> hs, Binary |-> b]
        \in [OldPath : D, NewPath : D, Binary : BOOLEAN, Hunks : M]
  BY <1>3, <1>4, <1>5
<1> QED
  BY <1>6, Zenon DEF o, n, b, hs, D, M, w, ParsedFile, Changed, AnyFile

LEMMA ChangedType ==
  ASSUME NEW fs \in Seq(File)
  PROVE  ParseUnifiedDiff(FlattenSeq(Chunks(fs))) \in Seq(AnyFile)
<1>1. \A i \in DOMAIN fs : ParsedFile(fs[i]) \in AnyFile
  BY ParsedFilesAre, ParsedFileType
<1>2. DOMAIN fs = 1 .. Len(fs) /\ Len(fs) \in Nat
  OBVIOUS
<1>3. ParsedFiles(fs) \in Seq(AnyFile)
  BY <1>1, <1>2 DEF ParsedFiles
<1> QED
  BY <1>3, ParseAll, Zenon

(* git's complaint is no diff: nothing is parsed from it, and it is shown. *)
LEMMA FatalIs ==
  /\ ParseUnifiedDiff(Fatal) = <<>>
  /\ Fatal \in Seq(LineSet) /\ Size(Fatal) = 1 /\ Fatal # <<>>
<1> DEFINE l == Line("fatal", "")
           st == St(<<>>, None, None)
<1>1. l.lead = "fatal"
  BY DEF Line
<1>2. l \in LineSet
  <2>1. "fatal" \in Lead
    BY DEF Lead
  <2> QED
    BY <2>1, LineType, ValueType
<1> HIDE DEF l
<1>3. Fatal = <<l>>
  BY Zenon DEF Fatal, l
<1>4. Fatal \in Seq(LineSet) /\ Len(Fatal) = 1 /\ Fatal # <<>>
  <2>1. <<l>> \in Seq(LineSet) /\ Len(<<l>>) = 1
    BY <1>2, OneType
  <2>2. <<l>> # <<>>
    OBVIOUS
  <2> QED
    BY <1>3, <2>1, <2>2, Zenon
<1>5. ParseLine(st, l) = st
  BY <1>1, Parts DEF ParseLine
<1>6. PFold(st, <<l>>) = ParseLine(st, l)
  BY POne
<1>7. FlushFile(st) = st
  BY FlushNone
<1>8. ParseUnifiedDiff(Fatal) = FlushFile(PFold(st, <<l>>)).files
  BY <1>3, Zenon DEF ParseUnifiedDiff, PFold, St
<1>9. st.files = <<>>
  BY Parts
<1> QED
  BY <1>4, <1>5, <1>6, <1>7, <1>8, <1>9, Zenon DEF Size

(* What is shown of a diff stays within the budget.                        *)
LEMMA ShortShown ==
  ASSUME NEW diff, Size(diff) <= budget
  PROVE  Size(FlattenSeq(TruncateDiff(diff).chunks)) <= budget
<1>1. TruncateDiff(diff).chunks = <<diff>>
  BY DEF TruncateDiff
<1>2. FlattenSeq(<<diff>>) = diff
  BY FlattenOne
<1> QED
  BY <1>1, <1>2, Zenon

LEMMA GitShown ==
  ASSUME NEW fs, FilesOK(fs)
  PROVE  Size(FlattenSeq(TruncateDiff(FlattenSeq(Chunks(fs))).chunks)) <= budget
<1> DEFINE C == Chunks(fs)
           diff == FlattenSeq(C)
           E == SortByPriority(C)
           kept == KFold(<<>>, E)
<1>0. budget \in Nat /\ budget >= 1
  <2>1. budget \in Nat \ {0}
    BY DiffAssumption
  <2> QED
    BY <2>1
<1>1. CASE Size(diff) <= budget
  BY <1>1, ShortShown
<1>2. CASE ~(Size(diff) <= budget)
  <2>1. fs \in Seq(File)
    BY DEF FilesOK
  <2>2. SplitDiffByFile(diff) = C
    <3>1. C \in Seq(Chunk)
      BY <2>1, ChunksType
    <3> QED
      BY <3>1, SplitChunks, Zenon
  <2>3. TruncateDiff(diff).chunks = IF kept = <<>> THEN <<SafeSlice(E[1])>> ELSE kept
    <3>1. TruncateDiff(diff) = IF kept = <<>>
                               THEN [chunks |-> <<SafeSlice(E[1])>>, dropped |-> Len(E) - 1, cut |-> TRUE]
                               ELSE [chunks |-> kept, dropped |-> Len(E) - Len(kept), cut |-> FALSE]
      BY <1>2, <2>2, Zenon DEF TruncateDiff, PrioritizedTruncate, KFold
    <3> HIDE DEF kept, E, diff
    <3> QED
      BY <3>1
  <2>4. \A D : D \subseteq Texted /\ (\A c \in D : FilePriority(c) \in 1 .. 3) /\ C \in Seq(D) =>
           Len(SortByPriority(C)) = Len(C) /\ SortByPriority(C) \in Seq(Range(C))
    BY RanksLen
  <2>5. C \in Seq(Texted) /\ DOMAIN C = DOMAIN fs /\ Len(C) = Len(fs)
    BY ChunkAt, Zenon
  <2>6. \A i \in DOMAIN fs : C[i] = WrittenFile(fs[i]) /\ FilePriority(C[i]) \in 1 .. 3
    BY ChunkAt
  <2>7. C \in Seq(Range(C)) /\ Range(C) \subseteq Texted
    BY <2>5, RangeType
  <2>8. \A c \in Range(C) : FilePriority(c) \in 1 .. 3
    BY <2>5, <2>6 DEF Range
  <2> HIDE DEF C
  <2>9. Len(E) = Len(C) /\ E \in Seq(Range(C))
    BY <2>4, <2>7, <2>8, Zenon
  <2>10. E \in Seq(Texted)
    <3> DEFINE B == Range(C)
    <3> HIDE DEF B, E
    <3>1. E \in Seq(B) /\ B \subseteq Texted
      BY <2>7, <2>9 DEF B
    <3> QED
      BY <3>1, SeqWider
  <2>11. Size(FlattenSeq(kept)) <= budget
    BY <2>10, KeptBound
  <2>12. CASE kept = <<>>
    <3>1. fs # <<>>
      <4>1. FlattenSeq(Chunks(<<>>)) = <<>>
        BY FilesEmpty, FlattenEmpty, Zenon
      <4>2. Size(<<>>) <= budget
        BY <1>0 DEF Size
      <4> QED
        BY <1>2, <4>1, <4>2, Zenon DEF C
    <3>2. Len(E) >= 1
      BY <2>1, <2>5, <2>9, <3>1
    <3> DEFINE c == E[1]
               z == SafeSlice(c)
    <3>3. c \in Range(C)
      <4>1. \A i \in 1 .. Len(E) : E[i] \in Range(C)
        BY <2>9
      <4> HIDE DEF E
      <4> QED
        BY <2>10, <3>2, <4>1
    <3>4. PICK i \in DOMAIN fs : c = WrittenFile(fs[i])
      BY <2>5, <2>6, <3>3 DEF Range
    <3>5. Size(WrittenFile(fs[i])) > budget
      <4>1. WrittenFile(fs[i]) \notin Range(kept)
        BY <2>12 DEF Range
      <4>2. \A j \in DOMAIN fs : WrittenFile(fs[j]) \notin Range(kept) =>
              Size(WrittenFile(fs[j])) + Size(FlattenSeq(Only(kept, Ahead(fs, j)))) > budget
        BY Chosen DEF C
      <4>3. Only(kept, Ahead(fs, i)) = <<>> /\ FlattenSeq(<<>>) = <<>>
        BY <2>12, OnlyEmpty, FlattenEmpty, Zenon
      <4>4. Size(<<>>) = 0
        BY DEF Size
      <4>5. Size(WrittenFile(fs[i])) + 0 > budget
        BY <4>1, <4>2, <4>3, <4>4, Zenon
      <4>6. WrittenFile(fs[i]) \in Seq(LineSet)
        BY ChunkAt DEF Texted
      <4>7. Size(WrittenFile(fs[i])) \in Nat
        BY <4>6, LenProperties DEF Size
      <4> HIDE DEF E, kept
      <4> QED
        BY <4>5, <4>7
    <3>6. c \in Seq(LineSet) /\ Len(c) \in Nat /\ Len(c) > budget
      <4>1. c \in Seq(LineSet) /\ Len(c) > budget
        BY <3>4, <3>5, ChunkAt, Zenon DEF Size, Texted
      <4> HIDE DEF c
      <4> QED
        BY <4>1, LenProperties
    <3>7. Size(z) = budget
      <4> HIDE DEF c
      <4>1. \A k \in 0 .. Len(c) : Len(SubSeq(c, 1, k)) = k
        BY <3>6, Prefix
      <4>2. budget \in 0 .. Len(c)
        BY <1>0, <3>6
      <4> QED
        BY <4>1, <4>2, Zenon DEF SafeSlice, Size
    <3>8. FlattenSeq(<<z>>) = z
      BY FlattenOne
    <3>9. Size(FlattenSeq(TruncateDiff(diff).chunks)) = budget
      BY <2>3, <2>12, <3>7, <3>8, Zenon
    <3> HIDE DEF diff
    <3>10. Size(FlattenSeq(TruncateDiff(diff).chunks)) <= budget
      BY <1>0, <3>9
    <3> QED
      BY <3>10, Zenon DEF diff, C
  <2>13. CASE kept # <<>>
    BY <2>3, <2>11, <2>13, Zenon DEF C
  <2> QED
    BY <2>12, <2>13 DEF C
<1> QED
  BY <1>1, <1>2

LEMMA TypeInv == IInv => TypeOK
<1> SUFFICES ASSUME IInv, built # None, ~built.error
             PROVE  /\ built.changed \in Seq(AnyFile)
                    /\ built.user.inline # None => Size(FlattenSeq(built.user.inline.chunks)) <= budget
  BY Zenon DEF TypeOK, AnyFile, AnyHunk, AnyLine
<1>1. built \in {BuiltOf(GitDiff), BuiltOf(Fatal)}
  BY DEF IInv, BuiltOK, BuiltError
<1>2. FilesOK(files) /\ files \in Seq(File)
  BY DEF IInv, FilesOK
<1>3. GitDiff = FlattenSeq(Chunks(files))
  BY GitDiffIs
<1>4. \A diff : BuiltOf(diff).changed = ParseUnifiedDiff(diff)
             /\ BuiltOf(diff).user.inline \in {None, TruncateDiff(diff)}
  BY DEF BuiltOf, InitialUser
<1>5. CASE built = BuiltOf(GitDiff)
  <2>1. built.changed \in Seq(AnyFile)
    BY <1>2, <1>3, <1>4, <1>5, ChangedType, Zenon
  <2>2. Size(FlattenSeq(TruncateDiff(GitDiff).chunks)) <= budget
    BY <1>2, <1>3, GitShown, Zenon
  <2>3. built.user.inline \in {None, TruncateDiff(GitDiff)}
    BY <1>4, <1>5, Zenon
  <2> QED
    BY <2>1, <2>2, <2>3
<1>6. CASE built = BuiltOf(Fatal)
  <2>1. built.changed \in Seq(AnyFile)
    <3>1. built.changed = <<>>
      BY <1>4, <1>6, FatalIs, Zenon
    <3> QED
      BY <3>1
  <2>2. Size(FlattenSeq(TruncateDiff(Fatal).chunks)) <= budget
    <3>1. budget \in Nat \ {0}
      BY DiffAssumption
    <3>2. Size(Fatal) <= budget
      BY <3>1, FatalIs
    <3> QED
      BY <3>2, ShortShown
  <2>3. built.user.inline \in {None, TruncateDiff(Fatal)}
    BY <1>4, <1>6, Zenon
  <2> QED
    BY <2>1, <2>2, <2>3
<1> QED
  BY <1>1, <1>5, <1>6

(* TypeOK: Build leaves an error or a context of changed files with hunks  *)
(* of added, removed and context lines, and no more than the budget of the *)
(* diff is in the first message.                                           *)
THEOREM DiffTypeOK == Spec => []TypeOK
BY Invariant, TypeInv, PTL

-----------------------------------------------------------------------------
(* The least number of a set.                                              *)
LEMMA Least ==
  ASSUME NEW A \in SUBSET Nat, A # {}
  PROVE  Min(A) \in A /\ \A y \in A : Min(A) <= y
<1> DEFINE B == {n \in Nat : \A x \in A : ~(x <= n)}
<1>1. \E x \in A : \A y \in A : x <= y
  <2> SUFFICES ASSUME ~\E x \in A : \A y \in A : x <= y  PROVE FALSE
    OBVIOUS
  <2>1. 0 \in B
    <3>1. \A x \in A : x <= 0 => \A y \in A : x <= y
      OBVIOUS
    <3> QED
      BY <3>1
  <2>2. ASSUME NEW n \in Nat, n \in B  PROVE n + 1 \in B
    <3>1. ASSUME NEW x \in A, x <= n + 1  PROVE FALSE
      <4>1. \A y \in A : ~(y <= n)
        BY <2>2
      <4>2. x = n + 1
        BY <3>1, <4>1
      <4>3. \A y \in A : x <= y
        BY <4>1, <4>2
      <4> QED
        BY <4>3
    <3> QED
      BY <3>1
  <2>3. \A n \in Nat : n \in B
    <3> HIDE DEF B
    <3> QED
      BY <2>1, <2>2, NatInduct
  <2>4. PICK x \in A : TRUE
    OBVIOUS
  <2>5. x \in B /\ x <= x
    BY <2>3
  <2> QED
    BY <2>5
<1> QED
  BY <1>1 DEF Min

LEMMA LeastIs ==
  ASSUME NEW A \in SUBSET Nat, NEW a \in A, \A y \in A : a <= y
  PROVE  Min(A) = a
<1> DEFINE b == Min(A)
<1>1. b \in A /\ \A y \in A : b <= y
  BY Least
<1> HIDE DEF b
<1>2. a \in Nat /\ b \in Nat /\ a <= b /\ b <= a
  BY <1>1
<1>3. a = b
  BY <1>2
<1> QED
  BY <1>3 DEF b

-----------------------------------------------------------------------------
(* Runs of lines.  Hunk k has the texts has[k] on one side, from the       *)
(* number s[k] on; the next hunk begins behind a gap.                      *)
Spaced(n, s, has) ==
  /\ s \in [1 .. n -> Nat]
  /\ has \in [1 .. n -> Seq(BodyLine)]
  /\ \A k, i \in 1 .. n : k < i => s[k] + Len(has[k]) + 1 <= s[i]

Numbers(n, s, has) ==
  UNION {{<<s[k] + p - 1, has[k][p].text>> : p \in 1 .. Len(has[k])} : k \in 1 .. n}

RunAt(w, t, i) ==
  /\ i \in 1 .. Len(w) /\ i + Len(t) - 1 <= Len(w)
  /\ \A j \in 1 .. Len(t) : w[i + j - 1].text = t[j]

Standing(n, s, has, t) ==
  {m \in {place[1] : place \in Numbers(n, s, has)} :
     \A j \in 1 .. Len(t) : <<m + j - 1, t[j]>> \in Numbers(n, s, has)}

Has(n, s, has, a, x) ==
  \E k \in 1 .. n : \E p \in 1 .. Len(has[k]) : a = s[k] + p - 1 /\ x = has[k][p].text

Begins(n, s, has, a) == \E k \in 1 .. n : \E p \in 1 .. Len(has[k]) : a = s[k] + p - 1

LEMMA NumbersAre == \A n, s, has, a, x : <<a, x>> \in Numbers(n, s, has) <=> Has(n, s, has, a, x)
BY DEF Numbers, Has

LEMMA FirstsAre ==
  ASSUME NEW n, NEW s, NEW has, NEW a \in {place[1] : place \in Numbers(n, s, has)}
  PROVE  Begins(n, s, has, a)
<1>1. PICK place \in Numbers(n, s, has) : a = place[1]
  OBVIOUS
<1>2. PICK k \in 1 .. n : place \in {<<s[k] + p - 1, has[k][p].text>> : p \in 1 .. Len(has[k])}
  BY DEF Numbers
<1>3. PICK p \in 1 .. Len(has[k]) : place = <<s[k] + p - 1, has[k][p].text>>
  BY <1>2
<1>4. a = s[k] + p - 1
  BY <1>1, <1>3
<1> QED
  BY <1>4 DEF Begins

(* Two hunks have no number in common, nor one next to the other's.        *)
LEMMA SameHunk ==
  ASSUME NEW a \in Nat, NEW b \in Nat, NEW l \in Nat, NEW o \in Nat, NEW k \in Nat, NEW i \in Nat,
         k < i => a + l + 1 <= b, i < k => b + o + 1 <= a,
         NEW d \in 0 .. l, NEW q \in 1 .. o, a + d = b + q - 1
  PROVE  i = k /\ (a = b => q = d + 1)
<1>1. CASE k < i
  BY <1>1
<1>2. CASE i < k
  BY <1>2
<1>3. CASE i = k
  BY <1>3
<1> QED
  BY <1>1, <1>2, <1>3

(* The arithmetic of the next place of a run, and of one counted from it.  *)
LEMMA NextPlace ==
  ASSUME NEW a \in Nat, NEW b \in Nat, NEW p \in Nat, NEW j \in Nat, NEW q \in Nat, NEW l \in Nat,
         NEW m, m = a + p - 1, m + ((j + 1) + 1) - 1 = b + q - 1, p + j <= l
  PROVE  p + j \in 0 .. l /\ a + (p + j) = b + q - 1
OBVIOUS

LEMMA PlaceCounted ==
  ASSUME NEW a \in Nat, NEW b \in Nat, NEW p \in Nat, NEW j \in Nat, NEW q \in Nat, NEW l \in Nat,
         NEW m, m = a + p - 1, m + j - 1 = b + q - 1, p >= 1, j >= 1, p + j - 1 <= l
  PROVE  p + j - 2 \in 0 .. l /\ a + (p + j - 2) = b + q - 1
OBVIOUS

(* A run of numbers stays in the hunk it begins in.                        *)
LEMMA RunStays ==
  ASSUME NEW n \in Nat, NEW s, NEW has, Spaced(n, s, has), NEW t \in Seq(Texts), Len(t) >= 1,
         NEW m \in Standing(n, s, has, t)
  PROVE  \E k \in 1 .. n : \E i \in 1 .. Len(has[k]) : RunAt(has[k], t, i) /\ m = s[k] + i - 1
<1>11. m \in {place[1] : place \in Numbers(n, s, has)}
  BY DEF Standing
<1>10. PICK k \in 1 .. n : \E p \in 1 .. Len(has[k]) : m = s[k] + p - 1
  <2>1. Begins(n, s, has, m)
    BY <1>11, FirstsAre, Zenon
  <2> QED
    BY <2>1 DEF Begins
<1>1. PICK p \in 1 .. Len(has[k]) : m = s[k] + p - 1
  BY <1>10
<1>2. \A j \in 1 .. Len(t) : <<m + j - 1, t[j]>> \in Numbers(n, s, has)
  BY DEF Standing
<1>3. s[k] \in Nat /\ Len(has[k]) \in Nat /\ Len(t) \in Nat
  BY DEF Spaced
<1> DEFINE L == Len(has[k])
           B == {j \in Nat : j + 1 \in 1 .. Len(t) => p + j <= L}
<1>4. 0 \in B
  BY <1>3
<1>5. ASSUME NEW j \in Nat, j \in B  PROVE j + 1 \in B
  <2> SUFFICES ASSUME (j + 1) + 1 \in 1 .. Len(t)  PROVE p + (j + 1) <= L
    OBVIOUS
  <2>1. j + 1 \in 1 .. Len(t) /\ p + j <= L
    BY <1>3, <1>5
  <2>2. <<m + ((j + 1) + 1) - 1, t[(j + 1) + 1]>> \in Numbers(n, s, has)
    BY <1>2
  <2>30. PICK i \in 1 .. n : \E q \in 1 .. Len(has[i]) : m + ((j + 1) + 1) - 1 = s[i] + q - 1
    <3>1. Has(n, s, has, m + ((j + 1) + 1) - 1, t[(j + 1) + 1])
      BY <2>2, NumbersAre, Zenon
    <3> QED
      BY <3>1 DEF Has
  <2>3. PICK q \in 1 .. Len(has[i]) : m + ((j + 1) + 1) - 1 = s[i] + q - 1
    BY <2>30
  <2>4. s[i] \in Nat /\ Len(has[i]) \in Nat
    BY DEF Spaced
  <2>5. (k < i => s[k] + L + 1 <= s[i]) /\ (i < k => s[i] + Len(has[i]) + 1 <= s[k])
    BY DEF Spaced
  <2> HIDE DEF L
  <2>6. L \in Nat
    BY <1>3 DEF L
  <2>7. i = k
    <3> DEFINE d == p + j
               a == s[k]
               b == s[i]
               o == Len(has[i])
    <3>0. p \in Nat /\ q \in Nat /\ s[k] \in Nat /\ s[i] \in Nat
      BY <1>3, <2>3, <2>4
    <3>1. d \in 0 .. L /\ a + d = b + q - 1
      BY <1>1, <2>1, <2>3, <2>6, <3>0, NextPlace
    <3>2. a \in Nat /\ b \in Nat /\ o \in Nat /\ k \in Nat /\ i \in Nat /\ q \in 1 .. o
      BY <1>3, <2>3, <2>4
    <3>3. (k < i => a + L + 1 <= b) /\ (i < k => b + o + 1 <= a)
      BY <2>5
    <3> HIDE DEF d, a, b, o
    <3> QED
      BY <2>6, <3>1, <3>2, <3>3, SameHunk
  <2>8. q <= L /\ m + ((j + 1) + 1) - 1 = s[k] + q - 1
    BY <2>3, <2>7 DEF L
  <2> QED
    BY <1>1, <1>3, <2>3, <2>6, <2>8
<1>6. \A j \in Nat : j \in B
  <2> HIDE DEF B
  <2> QED
    BY <1>4, <1>5, NatInduct
<1>7. \A j \in 1 .. Len(t) : p + j - 1 <= L
  <2> SUFFICES ASSUME NEW j \in 1 .. Len(t)  PROVE p + j - 1 <= L
    OBVIOUS
  <2>1. j - 1 \in Nat /\ (j - 1) + 1 = j
    BY <1>3
  <2>2. j - 1 \in B
    BY <1>6, <2>1
  <2>3. p + (j - 1) <= L
    BY <2>1, <2>2
  <2> QED
    BY <1>3, <2>3
<1>8. ASSUME NEW j \in 1 .. Len(t)  PROVE has[k][p + j - 1].text = t[j]
  <2>10. PICK i \in 1 .. n : \E q \in 1 .. Len(has[i]) : m + j - 1 = s[i] + q - 1 /\ t[j] = has[i][q].text
    <3>1. <<m + j - 1, t[j]>> \in Numbers(n, s, has)
      BY <1>2
    <3>2. Has(n, s, has, m + j - 1, t[j])
      BY <3>1, NumbersAre, Zenon
    <3> QED
      BY <3>2 DEF Has
  <2>1. PICK q \in 1 .. Len(has[i]) : m + j - 1 = s[i] + q - 1 /\ t[j] = has[i][q].text
    BY <2>10
  <2>2. s[i] \in Nat /\ Len(has[i]) \in Nat
    BY DEF Spaced
  <2>3. (k < i => s[k] + L + 1 <= s[i]) /\ (i < k => s[i] + Len(has[i]) + 1 <= s[k])
    BY DEF Spaced
  <2>4. p + j - 1 <= L
    BY <1>7
  <2> HIDE DEF L
  <2>5. L \in Nat
    BY <1>3 DEF L
  <2>6. i = k /\ q = p + j - 1
    <3> DEFINE d == p + j - 2
               a == s[k]
               b == s[i]
               o == Len(has[i])
    <3>0. /\ p \in Nat /\ p >= 1 /\ j \in Nat /\ j >= 1
          /\ q \in Nat /\ s[k] \in Nat /\ s[i] \in Nat
      BY <1>3, <2>1, <2>2
    <3>1. d \in 0 .. L /\ a + d = b + q - 1
      <4>1. m + j - 1 = s[i] + q - 1
        BY <2>1
      <4> QED
        BY <1>1, <2>4, <2>5, <3>0, <4>1, PlaceCounted
    <3>2. a \in Nat /\ b \in Nat /\ o \in Nat /\ k \in Nat /\ i \in Nat /\ q \in 1 .. o
      BY <1>3, <2>1, <2>2
    <3>3. (k < i => a + L + 1 <= b) /\ (i < k => b + o + 1 <= a)
      BY <2>3
    <3>4. d + 1 = p + j - 1
      BY <3>0
    <3> HIDE DEF d, a, b, o
    <3>5. i = k /\ (a = b => q = d + 1)
      BY <2>5, <3>1, <3>2, <3>3, SameHunk
    <3> QED
      BY <3>4, <3>5 DEF a, b
  <2> QED
    BY <2>1, <2>6
<1>9. RunAt(has[k], t, p)
  <2>1. p + Len(t) - 1 <= L
    BY <1>3, <1>7
  <2> QED
    BY <1>8, <2>1 DEF RunAt
<1> QED
  BY <1>1, <1>9

LEMMA RunStands ==
  ASSUME NEW n \in Nat, NEW s, NEW has, Spaced(n, s, has), NEW t \in Seq(Texts), Len(t) >= 1,
         NEW k \in 1 .. n, NEW i, RunAt(has[k], t, i)
  PROVE  s[k] + i - 1 \in Standing(n, s, has, t)
<1> DEFINE m == s[k] + i - 1
<1>1. s[k] \in Nat /\ Len(has[k]) \in Nat /\ Len(t) \in Nat
  BY DEF Spaced
<1>2. i \in 1 .. Len(has[k]) /\ i + Len(t) - 1 <= Len(has[k]) /\ \A j \in 1 .. Len(t) : has[k][i + j - 1].text = t[j]
  BY DEF RunAt
<1>3. ASSUME NEW j \in 1 .. Len(t)  PROVE <<m + j - 1, t[j]>> \in Numbers(n, s, has)
  <2> DEFINE p == i + j - 1
  <2>1. p \in 1 .. Len(has[k]) /\ m + j - 1 = s[k] + p - 1
    BY <1>1, <1>2
  <2>2. t[j] = has[k][p].text
    BY <1>2
  <2> HIDE DEF p
  <2>3. Has(n, s, has, m + j - 1, t[j])
    BY <2>1, <2>2 DEF Has
  <2> QED
    BY <2>3, NumbersAre, Zenon
<1>4. m \in {place[1] : place \in Numbers(n, s, has)}
  <2>1. <<m, has[k][i].text>> \in Numbers(n, s, has)
    <3>1. Has(n, s, has, m, has[k][i].text)
      BY <1>2 DEF Has
    <3> QED
      BY <3>1, NumbersAre, Zenon
  <2>2. <<m, has[k][i].text>>[1] = m
    OBVIOUS
  <2> QED
    BY <2>1, <2>2
<1> QED
  BY <1>3, <1>4 DEF Standing

(* The first run of the first hunk that has one stands first.              *)
Runs(w, t) == {i \in 1 .. Len(w) : RunAt(w, t, i)}

FirstRun(n, s, has, t) ==
  LET hits == {k \in 1 .. n : Runs(has[k], t) # {}}
  IN  {s[k] + Min(Runs(has[k], t)) - 1 : k \in {k \in hits : k = Min(hits)}}

LEMMA FirstRunIs ==
  ASSUME NEW n \in Nat, NEW s, NEW has, Spaced(n, s, has), NEW t \in Seq(Texts), Len(t) >= 1
  PROVE  LET stands == Standing(n, s, has, t)
         IN  FirstRun(n, s, has, t) = IF stands = {} THEN {} ELSE {Min(stands)}
<1> DEFINE stands == Standing(n, s, has, t)
           hits == {k \in 1 .. n : Runs(has[k], t) # {}}
<1>1. CASE stands = {}
  <2>1. hits = {}
    BY <1>1, RunStands DEF Runs
  <2> QED
    BY <1>1, <2>1 DEF FirstRun
<1>2. CASE stands # {}
  <2>1. hits # {} /\ hits \in SUBSET Nat
    <3>1. PICK m \in stands : TRUE
      BY <1>2
    <3>20. PICK k \in 1 .. n : \E i \in 1 .. Len(has[k]) : RunAt(has[k], t, i)
      BY RunStays
    <3>2. PICK i \in 1 .. Len(has[k]) : RunAt(has[k], t, i)
      BY <3>20
    <3>3. i \in Runs(has[k], t)
      BY <3>2 DEF Runs
    <3>4. k \in hits
      BY <3>3
    <3>5. hits \in SUBSET Nat
      OBVIOUS
    <3> HIDE DEF hits
    <3> QED
      BY <3>4, <3>5
  <2> DEFINE k == Min(hits)
             R == Runs(has[k], t)
             i == Min(R)
             a == s[k] + i - 1
  <2>2. k \in hits /\ \A y \in hits : k <= y
    BY <2>1, Least
  <2>3. FirstRun(n, s, has, t) = {a}
    <3>1. {l \in hits : l = k} = {k}
      BY <2>2
    <3>2. FirstRun(n, s, has, t) = {s[l] + Min(Runs(has[l], t)) - 1 : l \in {l \in hits : l = k}}
      BY DEF FirstRun
    <3> QED
      BY <3>1, <3>2
  <2> HIDE DEF k
  <2>4. k \in 1 .. n /\ R # {} /\ R \in SUBSET Nat
    <3>1. k \in 1 .. n /\ Runs(has[k], t) # {}
      BY <2>2
    <3>2. Runs(has[k], t) \in SUBSET Nat
      BY <3>1 DEF Runs, Spaced
    <3> QED
      BY <3>1, <3>2
  <2>5. i \in R /\ \A y \in R : i <= y
    BY <2>4, Least
  <2> HIDE DEF i
  <2>6. RunAt(has[k], t, i) /\ i \in 1 .. Len(has[k])
    BY <2>5 DEF Runs
  <2>7. a \in stands
    BY <2>4, <2>6, RunStands
  <2>8. s[k] \in Nat /\ Len(has[k]) \in Nat
    BY <2>4 DEF Spaced
  <2>9. ASSUME NEW m \in stands  PROVE m \in Nat /\ a <= m
    <3>10. PICK l \in 1 .. n : \E j \in 1 .. Len(has[l]) : RunAt(has[l], t, j) /\ m = s[l] + j - 1
      BY RunStays
    <3>1. PICK j \in 1 .. Len(has[l]) : RunAt(has[l], t, j) /\ m = s[l] + j - 1
      BY <3>10
    <3>2. j \in Runs(has[l], t) /\ l \in hits
      BY <3>1 DEF Runs
    <3>3. k <= l
      BY <2>2, <3>2
    <3>4. s[l] \in Nat /\ Len(has[l]) \in Nat /\ j \in Nat /\ j >= 1
      BY DEF Spaced
    <3>5. CASE l = k
      <4>1. i <= j
        BY <2>5, <3>2, <3>5
      <4> QED
        BY <2>6, <2>8, <3>1, <3>4, <3>5, <4>1
    <3>6. CASE k < l
      <4>1. s[k] + Len(has[k]) + 1 <= s[l]
        BY <2>4, <3>6 DEF Spaced
      <4> DEFINE b == s[k]
                 o == Len(has[k])
                 e == s[l]
      <4>2. b \in Nat /\ o \in Nat /\ e \in Nat /\ b + o + 1 <= e /\ i \in 1 .. o /\ a = b + i - 1 /\ m = e + j - 1
        BY <2>6, <2>8, <3>1, <3>4, <4>1
      <4> HIDE DEF a, b, e, o, hits, stands, R
      <4> QED
        BY <3>4, <4>2
    <3> QED
      BY <2>4, <3>3, <3>5, <3>6
  <2> HIDE DEF stands, a
  <2>10. Min(stands) = a
    BY <2>7, <2>9, LeastIs
  <2> QED
    BY <1>2, <2>3, <2>10 DEF stands
<1> QED
  BY <1>1, <1>2

-----------------------------------------------------------------------------
(* Where a file's hunks begin on one side, and the lines they have there.  *)
Starts(hs, side) == [k \in 1 .. Len(hs) |-> IF side THEN hs[k].new ELSE hs[k].old]

Having(hs, side) == [k \in 1 .. Len(hs) |-> Only(hs[k].lines, On(side))]

LEMMA HunksSpaced ==
  ASSUME NEW hs \in Seq(BodyHunk), Placed(hs), NEW side \in BOOLEAN
  PROVE  /\ Len(hs) \in Nat
         /\ Spaced(Len(hs), Starts(hs, side), Having(hs, side))
<1> DEFINE n == Len(hs)
           s == Starts(hs, side)
           has == Having(hs, side)
<1>1. n \in Nat
  OBVIOUS
<1>2. ASSUME NEW k \in 1 .. n
      PROVE  /\ s[k] \in Nat /\ has[k] \in Seq(BodyLine) /\ Len(has[k]) \in Nat
             /\ Len(has[k]) = Length(hs[k], side)
             /\ s[k] = IF side THEN hs[k].new ELSE hs[k].old
  <2>1. hs[k] \in BodyHunk
    OBVIOUS
  <2>2. s[k] = (IF side THEN hs[k].new ELSE hs[k].old) /\ has[k] = Only(hs[k].lines, On(side))
    BY DEF Starts, Having
  <2>3. s[k] \in Nat
    BY <2>1, <2>2 DEF BodyHunk
  <2>4. hs[k].lines \in Seq(BodyLine) /\ Length(hs[k], side) = Len(Only(hs[k].lines, On(side)))
    BY <2>1, LengthIs
  <2>5. Only(hs[k].lines, On(side)) \in Seq(BodyLine)
    BY <2>4, OnlySeq
  <2> HIDE DEF s, has
  <2>6. Len(Only(hs[k].lines, On(side))) \in Nat
    BY <2>5
  <2> QED
    BY <2>2, <2>3, <2>4, <2>5, <2>6
<1>3. ASSUME NEW k \in 1 .. n, k + 1 \in 1 .. n
      PROVE  s[k + 1] = s[k] + Len(has[k]) + 1
  <2>1. /\ hs[k + 1].old = hs[k].old + Length(hs[k], FALSE) + 1
        /\ hs[k + 1].new = hs[k].new + Length(hs[k], TRUE) + 1
    <3>1. k \in DOMAIN hs /\ k + 1 \in DOMAIN hs
      BY <1>3
    <3> HIDE DEF n, s, has
    <3> QED
      BY <3>1 DEF Placed
  <2>2. /\ s[k] = (IF side THEN hs[k].new ELSE hs[k].old)
        /\ s[k + 1] = (IF side THEN hs[k + 1].new ELSE hs[k + 1].old)
        /\ Len(has[k]) = Length(hs[k], side)
    BY <1>2, <1>3
  <2> HIDE DEF s, has
  <2>3. CASE side
    <3>1. side = TRUE
      BY <2>3
    <3>2. hs[k + 1].new = hs[k].new + Length(hs[k], side) + 1
      BY <2>1, <3>1
    <3> QED
      BY <2>2, <2>3, <3>2
  <2>4. CASE ~side
    <3>1. side = FALSE
      BY <2>4
    <3>2. hs[k + 1].old = hs[k].old + Length(hs[k], side) + 1
      BY <2>1, <3>1
    <3> QED
      BY <2>2, <2>4, <3>2
  <2> QED
    BY <2>3, <2>4
<1> HIDE DEF s, has, n
<1> DEFINE B == {d \in Nat : \A k \in 1 .. n : k + d + 1 \in 1 .. n => s[k] + Len(has[k]) + 1 <= s[k + d + 1]}
<1>4. 0 \in B
  <2> SUFFICES ASSUME NEW k \in 1 .. n, k + 0 + 1 \in 1 .. n  PROVE s[k] + Len(has[k]) + 1 <= s[k + 0 + 1]
    OBVIOUS
  <2>1. k + 0 + 1 = k + 1
    BY <1>1
  <2>2. s[k + 1] = s[k] + Len(has[k]) + 1
    BY <1>3, <2>1
  <2>3. s[k] \in Nat /\ Len(has[k]) \in Nat
    BY <1>2
  <2> QED
    BY <2>1, <2>2, <2>3
<1>5. ASSUME NEW d \in Nat, d \in B  PROVE d + 1 \in B
  <2> SUFFICES ASSUME NEW k \in 1 .. n, k + (d + 1) + 1 \in 1 .. n
               PROVE  s[k] + Len(has[k]) + 1 <= s[k + (d + 1) + 1]
    OBVIOUS
  <2> DEFINE i == k + d + 1
  <2>1. i \in 1 .. n /\ i + 1 \in 1 .. n /\ k + (d + 1) + 1 = i + 1
    BY <1>1
  <2>2. s[k] + Len(has[k]) + 1 <= s[i]
    BY <1>5, <2>1
  <2> HIDE DEF i
  <2>3. s[i + 1] = s[i] + Len(has[i]) + 1
    BY <1>3, <2>1
  <2>4. s[k] \in Nat /\ Len(has[k]) \in Nat /\ s[i] \in Nat /\ Len(has[i]) \in Nat
    BY <1>2, <2>1
  <2>5. s[k] + Len(has[k]) + 1 <= s[i + 1]
    BY <2>2, <2>3, <2>4
  <2> QED
    BY <2>1, <2>5
<1>6. \A d \in Nat : d \in B
  <2> HIDE DEF B
  <2> QED
    BY <1>4, <1>5, NatInduct
<1>7. ASSUME NEW k \in 1 .. n, NEW i \in 1 .. n, k < i  PROVE s[k] + Len(has[k]) + 1 <= s[i]
  <2> DEFINE d == i - k - 1
  <2>1. d \in Nat /\ k + d + 1 = i
    BY <1>1, <1>7
  <2> HIDE DEF d
  <2>2. d \in B
    BY <1>6, <2>1
  <2>3. s[k] + Len(has[k]) + 1 <= s[k + d + 1]
    BY <2>1, <2>2
  <2> QED
    BY <2>1, <2>3
<1>8. s \in [1 .. n -> Nat] /\ has \in [1 .. n -> Seq(BodyLine)]
  BY <1>2 DEF s, has, n, Starts, Having
<1>9. Spaced(n, s, has)
  BY <1>7, <1>8 DEF Spaced
<1> QED
  BY <1>1, <1>9 DEF n, s, has

-----------------------------------------------------------------------------
(* A line that a filter keeps comes after those it keeps before it.        *)
Kept(w, J, j) == Cardinality({i \in 1 .. (j - 1) : w[i] \in J})

LEMMA KeptNext ==
  ASSUME NEW w, NEW J, NEW j \in Nat, j >= 1
  PROVE  /\ Kept(w, J, 1) = 0 /\ Kept(w, J, j) \in Nat
         /\ w[j] \in J => Kept(w, J, j + 1) = Kept(w, J, j) + 1
         /\ w[j] \notin J => Kept(w, J, j + 1) = Kept(w, J, j)
<1> DEFINE A == {i \in 1 .. (j - 1) : w[i] \in J}
           C == {i \in 1 .. ((j + 1) - 1) : w[i] \in J}
<1>1. {i \in 1 .. (1 - 1) : w[i] \in J} = {}
  OBVIOUS
<1>2. IsFiniteSet(A)
  <2>1. IsFiniteSet(1 .. (j - 1))
    BY FS_Interval
  <2>2. A \subseteq 1 .. (j - 1)
    OBVIOUS
  <2> HIDE DEF A
  <2> QED
    BY <2>1, <2>2, FS_Subset
<1>3. j \notin A /\ C = IF w[j] \in J THEN A \cup {j} ELSE A
  <2>1. (j + 1) - 1 = j
    OBVIOUS
  <2>2. \A i : i \in 1 .. j <=> i \in 1 .. (j - 1) \/ i = j
    OBVIOUS
  <2> QED
    BY <2>1, <2>2
<1> HIDE DEF A, C
<1>4. Cardinality(A) \in Nat /\ Cardinality(A \cup {j}) = Cardinality(A) + 1
  BY <1>2, <1>3, FS_CardinalityType, FS_AddElement
<1>5. Kept(w, J, j) = Cardinality(A) /\ Kept(w, J, j + 1) = Cardinality(C)
  BY DEF Kept, A, C
<1>6. Kept(w, J, 1) = 0
  BY <1>1, FS_EmptySet DEF Kept
<1> QED
  BY <1>3, <1>4, <1>5, <1>6

-----------------------------------------------------------------------------
KeptAll(w, J) == Kept(w, J, Len(w) + 1) = Len(Only(w, J))

KeptHas(w, J) ==
  \A j \in 1 .. Len(w) : w[j] \in J =>
    Kept(w, J, j) + 1 \in 1 .. Len(Only(w, J)) /\ Only(w, J)[Kept(w, J, j) + 1] = w[j]

KeptFrom(w, J) ==
  \A p \in 1 .. Len(Only(w, J)) :
    \E j \in 1 .. Len(w) : w[j] \in J /\ p = Kept(w, J, j) + 1 /\ Only(w, J)[p] = w[j]

LEMMA KeptSame ==
  ASSUME NEW B, NEW w \in Seq(B), NEW x \in B, NEW J, NEW j \in 1 .. (Len(w) + 1)
  PROVE  Kept(Add(w, x), J, j) = Kept(w, J, j)
<1> DEFINE v == Add(w, x)
<1>1. \A i \in 1 .. Len(w) : v[i] = w[i]
  BY AddType
<1> HIDE DEF v
<1>2. \A i \in 1 .. (j - 1) : i \in 1 .. Len(w)
  OBVIOUS
<1>3. {i \in 1 .. (j - 1) : v[i] \in J} = {i \in 1 .. (j - 1) : w[i] \in J}
  BY <1>1, <1>2
<1>4. Kept(v, J, j) = Kept(w, J, j)
  BY <1>3 DEF Kept
<1> QED
  BY <1>4 DEF v

LEMMA KeptPlaces ==
  ASSUME NEW B, NEW w \in Seq(B), NEW J
  PROVE  KeptAll(w, J) /\ KeptHas(w, J) /\ KeptFrom(w, J)
<1> DEFINE T == {v \in Seq(B) : KeptAll(v, J) /\ KeptHas(v, J) /\ KeptFrom(v, J)}
<1>1. <<>> \in T
  <2>1. Only(<<>>, J) = <<>>
    BY OnlyEmpty
  <2>2. Kept(<<>>, J, 1) = 0
    BY KeptNext
  <2>3. KeptAll(<<>>, J)
    BY <2>1, <2>2 DEF KeptAll
  <2>4. KeptHas(<<>>, J) /\ KeptFrom(<<>>, J)
    BY <2>1 DEF KeptHas, KeptFrom
  <2> QED
    BY <2>3, <2>4
<1>2. ASSUME NEW v \in Seq(B), NEW x \in B, v \in T  PROVE Add(v, x) \in T
  <2> DEFINE u == Add(v, x)
             n == Len(v)
             o == Only(v, J)
             q == Only(u, J)
             m == Len(o)
  <2>1. u \in Seq(B) /\ Len(u) = n + 1 /\ u[n + 1] = x /\ n \in Nat
    BY AddType
  <2>2. \A i \in 1 .. n : u[i] = v[i]
    BY AddType
  <2>3. \A j \in 1 .. (n + 1) : Kept(u, J, j) = Kept(v, J, j)
    BY KeptSame
  <2>4. Kept(u, J, (n + 1) + 1) = IF x \in J THEN Kept(u, J, n + 1) + 1 ELSE Kept(u, J, n + 1)
    <3> DEFINE k == n + 1
    <3>1. k \in Nat /\ k >= 1
      BY <2>1
    <3> HIDE DEF k, u
    <3>2. /\ u[k] \in J => Kept(u, J, k + 1) = Kept(u, J, k) + 1
          /\ u[k] \notin J => Kept(u, J, k + 1) = Kept(u, J, k)
      BY <3>1, KeptNext
    <3> QED
      BY <2>1, <3>2 DEF k
  <2>5. q = IF x \in J THEN Add(o, x) ELSE o
    BY OnlyAdd
  <2>6. o \in Seq(B) /\ m \in Nat
    <3>1. o \in Seq(B)
      BY OnlySeq
    <3> HIDE DEF o
    <3> QED
      BY <3>1
  <2>7. Len(Add(o, x)) = m + 1 /\ Add(o, x)[m + 1] = x
    <3> HIDE DEF o
    <3> QED
      BY <2>6, AddType
  <2>8. \A i \in 1 .. m : Add(o, x)[i] = o[i]
    <3> HIDE DEF o
    <3> QED
      BY <2>6, AddType
  <2>9. Kept(v, J, n + 1) = m
    BY <1>2 DEF KeptAll
  <2>10. \A j \in 1 .. n : v[j] \in J => Kept(v, J, j) + 1 \in 1 .. m /\ o[Kept(v, J, j) + 1] = v[j]
    BY <1>2 DEF KeptHas
  <2>11. \A p \in 1 .. m : \E j \in 1 .. n : v[j] \in J /\ p = Kept(v, J, j) + 1 /\ o[p] = v[j]
    BY <1>2 DEF KeptFrom
  <2> DEFINE a == Add(o, x)
  <2> HIDE DEF u, n, o, q, m, a
  <2>12. Len(q) = (IF x \in J THEN m + 1 ELSE m) /\ (x \in J => q[m + 1] = x)
    BY <2>5, <2>7 DEF m, a
  <2>13. \A i \in 1 .. m : q[i] = o[i]
    BY <2>5, <2>8 DEF a
  <2>14. KeptAll(u, J)
    <3>1. Kept(u, J, n + 1) = m
      BY <2>1, <2>3, <2>9
    <3>2. Kept(u, J, (n + 1) + 1) = Len(q)
      BY <2>4, <2>12, <3>1
    <3> QED
      BY <2>1, <3>2 DEF KeptAll, q
  <2>15. KeptHas(u, J)
    <3>1. ASSUME NEW j \in 1 .. (n + 1), u[j] \in J
          PROVE  Kept(u, J, j) + 1 \in 1 .. Len(q) /\ q[Kept(u, J, j) + 1] = u[j]
      <4>1. CASE j = n + 1
        <5>1. x \in J /\ Kept(u, J, j) = m
          BY <2>1, <2>3, <2>9, <3>1, <4>1
        <5> QED
          BY <2>1, <2>6, <2>12, <4>1, <5>1
      <4>2. CASE j \in 1 .. n
        <5>1. Kept(u, J, j) = Kept(v, J, j) /\ u[j] = v[j]
          BY <2>2, <2>3, <4>2
        <5> DEFINE p == Kept(v, J, j) + 1
        <5>2. p \in 1 .. m /\ o[p] = v[j]
          BY <2>10, <3>1, <4>2, <5>1
        <5> HIDE DEF p
        <5>3. q[p] = u[j] /\ p \in 1 .. Len(q)
          BY <2>6, <2>12, <2>13, <5>1, <5>2
        <5> QED
          BY <5>1, <5>3 DEF p
      <4> QED
        BY <2>1, <4>1, <4>2
    <3> QED
      BY <2>1, <3>1 DEF KeptHas, q
  <2>16. KeptFrom(u, J)
    <3>1. ASSUME NEW p \in 1 .. Len(q)
          PROVE  \E j \in 1 .. (n + 1) : u[j] \in J /\ p = Kept(u, J, j) + 1 /\ q[p] = u[j]
      <4>1. CASE p \in 1 .. m
        <5>1. PICK j \in 1 .. n : v[j] \in J /\ p = Kept(v, J, j) + 1 /\ o[p] = v[j]
          BY <2>11, <4>1
        <5>2. j \in 1 .. (n + 1) /\ u[j] = v[j] /\ q[p] = o[p]
          BY <2>1, <2>2, <2>13, <4>1
        <5>3. Kept(u, J, j) = Kept(v, J, j)
          BY <2>3, <5>2
        <5> QED
          BY <5>1, <5>2, <5>3
      <4>2. CASE ~(p \in 1 .. m)
        <5>1. x \in J /\ p = m + 1
          BY <2>6, <2>12, <4>2
        <5>2. n + 1 \in 1 .. (n + 1)
          BY <2>1
        <5>3. Kept(u, J, n + 1) = m
          BY <2>3, <2>9, <5>2
        <5> QED
          BY <2>1, <2>12, <5>1, <5>2, <5>3
      <4> QED
        BY <4>1, <4>2
    <3> QED
      BY <2>1, <3>1 DEF KeptFrom, q
  <2> QED
    BY <2>1, <2>14, <2>15, <2>16 DEF u
<1> HIDE DEF T
<1>3. w \in T
  BY <1>1, <1>2, SeqInduct
<1> QED
  BY <1>3 DEF T

-----------------------------------------------------------------------------
(* The numbers of a hunk's lines, as the file counts them and by place     *)
(* among the lines of the side.                                            *)
Gone(side) == IF side THEN "-" ELSE "+"

PlacesOf(h, side, a) ==
  {<<a + Cardinality({i \in 1 .. (j - 1) : h.lines[i].op # Gone(side)}), h.lines[j].text>> :
     j \in {j \in DOMAIN h.lines : h.lines[j].op # Gone(side)}}

Pairs(D, a, t) == {<<a[j], t[j]>> : j \in D}

Matched(D, E, a, b, t, u) ==
  /\ \A j \in D : \E p \in E : a[j] = b[p] /\ t[j] = u[p]
  /\ \A p \in E : \E j \in D : a[j] = b[p] /\ t[j] = u[p]

LEMMA OneSet ==
  ASSUME NEW D, NEW E, NEW a, NEW b, NEW t, NEW u, Matched(D, E, a, b, t, u)
  PROVE  Pairs(D, a, t) = Pairs(E, b, u)
<1>1. ASSUME NEW j \in D  PROVE <<a[j], t[j]>> \in {<<b[p], u[p]>> : p \in E}
  <2>1. PICK p \in E : a[j] = b[p] /\ t[j] = u[p]
    BY DEF Matched
  <2> QED
    BY <2>1
<1>2. ASSUME NEW p \in E  PROVE <<b[p], u[p]>> \in {<<a[j], t[j]>> : j \in D}
  <2>1. PICK j \in D : a[j] = b[p] /\ t[j] = u[p]
    BY DEF Matched
  <2> QED
    BY <2>1
<1> QED
  BY <1>1, <1>2 DEF Pairs

LEMMA HunkNumbers ==
  ASSUME NEW h \in BodyHunk, NEW side \in BOOLEAN, NEW a \in Nat
  PROVE  LET o == Only(h.lines, On(side))
         IN  PlacesOf(h, side, a) = {<<a + p - 1, o[p].text>> : p \in 1 .. Len(o)}
<1> DEFINE w == h.lines
           J == On(side)
           o == Only(w, J)
           D == {j \in DOMAIN w : w[j].op # Gone(side)}
           E == 1 .. Len(o)
<1>1. w \in Seq(BodyLine)
  BY DEF BodyHunk
<1>2. DOMAIN w = 1 .. Len(w) /\ Len(w) \in Nat /\ \A j \in DOMAIN w : w[j] \in BodyLine
  <2> HIDE DEF w
  <2> QED
    BY <1>1
<1>3. \A j \in DOMAIN w : w[j] \in J <=> w[j].op # Gone(side)
  BY <1>2 DEF On, Gone
<1>4. KeptHas(w, J) /\ KeptFrom(w, J)
  <2> HIDE DEF w, J
  <2> QED
    BY <1>1, KeptPlaces
<1>5. Len(o) \in Nat
  <2>1. o \in Seq(BodyLine)
    <3> HIDE DEF w, J
    <3> QED
      BY <1>1, OnlySeq
  <2> HIDE DEF o
  <2> QED
    BY <2>1
<1>6. PlacesOf(h, side, a)
      = {<<a + Cardinality({i \in 1 .. (j - 1) : w[i].op # Gone(side)}), w[j].text>> : j \in D}
  BY DEF PlacesOf
<1> HIDE DEF w, J, o
<1>7. ASSUME NEW j \in D  PROVE Cardinality({i \in 1 .. (j - 1) : w[i].op # Gone(side)}) = Kept(w, J, j)
  <2>1. \A i \in 1 .. (j - 1) : i \in DOMAIN w
    BY <1>2
  <2>2. {i \in 1 .. (j - 1) : w[i].op # Gone(side)} = {i \in 1 .. (j - 1) : w[i] \in J}
    BY <1>3, <2>1
  <2> QED
    BY <2>2 DEF Kept
<1>8. \A j \in D : j \in 1 .. Len(w) /\ w[j] \in J /\ j \in Nat /\ j >= 1
  BY <1>2, <1>3
<1>9. \A j \in D : Kept(w, J, j) \in Nat
  BY <1>8, KeptNext
<1> DEFINE ad == [j \in D |-> a + Kept(w, J, j)]
           ts == [j \in D |-> w[j].text]
           bs == [p \in E |-> a + p - 1]
           us == [p \in E |-> o[p].text]
<1>10. \A j \in D : \E p \in E : ad[j] = bs[p] /\ ts[j] = us[p]
  <2> SUFFICES ASSUME NEW j \in D  PROVE \E p \in E : ad[j] = bs[p] /\ ts[j] = us[p]
    OBVIOUS
  <2> DEFINE p == Kept(w, J, j) + 1
  <2>1. p \in 1 .. Len(o) /\ o[p] = w[j]
    BY <1>4, <1>8 DEF KeptHas, o
  <2>2. a + Kept(w, J, j) = a + p - 1
    BY <1>9
  <2> HIDE DEF p
  <2>3. ad[j] = bs[p] /\ ts[j] = us[p]
    BY <2>1, <2>2
  <2> HIDE DEF ad, bs, ts, us
  <2> QED
    BY <2>1, <2>3
<1>11. \A p \in E : \E j \in D : ad[j] = bs[p] /\ ts[j] = us[p]
  <2> SUFFICES ASSUME NEW p \in E  PROVE \E j \in D : ad[j] = bs[p] /\ ts[j] = us[p]
    OBVIOUS
  <2>1. PICK j \in 1 .. Len(w) : w[j] \in J /\ p = Kept(w, J, j) + 1 /\ o[p] = w[j]
    BY <1>4 DEF KeptFrom, o
  <2>2. j \in D
    BY <1>2, <1>3, <2>1
  <2>3. a + Kept(w, J, j) = a + p - 1
    BY <1>9, <2>1, <2>2
  <2>4. ad[j] = bs[p] /\ ts[j] = us[p]
    BY <2>1, <2>2, <2>3
  <2> HIDE DEF ad, bs, ts, us, D
  <2> QED
    BY <2>2, <2>4
<1>12. PlacesOf(h, side, a) = Pairs(D, ad, ts)
  <2>1. \A j \in D : a + Cardinality({i \in 1 .. (j - 1) : w[i].op # Gone(side)}) = ad[j] /\ w[j].text = ts[j]
    BY <1>7
  <2> HIDE DEF ad, ts, D
  <2> QED
    BY <1>6, <2>1 DEF Pairs
<1>13. {<<a + p - 1, o[p].text>> : p \in E} = Pairs(E, bs, us)
  <2>1. \A p \in E : a + p - 1 = bs[p] /\ o[p].text = us[p]
    OBVIOUS
  <2> HIDE DEF bs, us, E
  <2> QED
    BY <2>1 DEF Pairs
<1> HIDE DEF ad, ts, bs, us, D, E
<1>14. PlacesOf(h, side, a) = {<<a + p - 1, o[p].text>> : p \in E}
  <2>0. Matched(D, E, ad, bs, ts, us)
    BY <1>10, <1>11 DEF Matched
  <2>1. Pairs(D, ad, ts) = Pairs(E, bs, us)
    BY <2>0, OneSet
  <2> QED
    BY <1>12, <1>13, <2>1
<1> QED
  BY <1>14 DEF o, w, J, E

LEMMA NumberedIs ==
  ASSUME NEW f \in File, NEW side \in BOOLEAN
  PROVE  Numbered(f, side) = Numbers(Len(f.hunks), Starts(f.hunks, side), Having(f.hunks, side))
<1> DEFINE hs == f.hunks
           n == Len(hs)
           s == Starts(hs, side)
           has == Having(hs, side)
           U(k) == {<<s[k] + p - 1, has[k][p].text>> : p \in 1 .. Len(has[k])}
<1>1. hs \in Seq(BodyHunk)
  BY DEF File
<1>2. DOMAIN hs = 1 .. n
  <2> HIDE DEF hs
  <2> QED
    BY <1>1
<1>3. Numbered(f, side) = UNION {PlacesOf(hs[k], side, IF side THEN hs[k].new ELSE hs[k].old) : k \in DOMAIN hs}
  BY Zenon DEF Numbered, PlacesOf, Gone
<1> HIDE DEF hs
<1>4. ASSUME NEW k \in 1 .. n  PROVE PlacesOf(hs[k], side, IF side THEN hs[k].new ELSE hs[k].old) = U(k)
  <2> DEFINE h == hs[k]
             a == IF side THEN h.new ELSE h.old
             o == Only(h.lines, On(side))
  <2>1. h \in BodyHunk
    BY <1>1
  <2>2. a \in Nat
    BY <2>1 DEF BodyHunk
  <2>3. s[k] = a /\ has[k] = o
    BY DEF Starts, Having
  <2> HIDE DEF h, a, s, has
  <2>4. PlacesOf(h, side, a) = {<<a + p - 1, o[p].text>> : p \in 1 .. Len(o)}
    BY <2>1, <2>2, HunkNumbers
  <2> HIDE DEF o
  <2>5. PlacesOf(h, side, a) = U(k)
    BY <2>3, <2>4
  <2> QED
    BY <2>5 DEF h, a
<1> HIDE DEF s, has, n
<1>5. Numbers(n, s, has) = UNION {U(k) : k \in 1 .. n}
  BY DEF Numbers
<1> HIDE DEF U
<1>6. Numbered(f, side) = Numbers(n, s, has)
  BY <1>2, <1>3, <1>4, <1>5
<1> QED
  BY <1>6 DEF n, s, has, hs

LEMMA StandsIs ==
  ASSUME NEW f \in File, NEW side \in BOOLEAN, NEW e, DOMAIN Said(e) = 1 .. Len(Said(e))
  PROVE  StandsAt(f, side, e) = Standing(Len(f.hunks), Starts(f.hunks, side), Having(f.hunks, side), Said(e))
<1> DEFINE N == Numbered(f, side)
           t == Said(e)
<1>1. StandsAt(f, side, e) = {m \in {place[1] : place \in N} : \A j \in DOMAIN t : <<m + j - 1, t[j]>> \in N}
  BY DEF StandsAt
<1>2. N = Numbers(Len(f.hunks), Starts(f.hunks, side), Having(f.hunks, side))
  BY NumberedIs
<1> HIDE DEF N, t
<1>3. StandsAt(f, side, e) = {m \in {place[1] : place \in N} : \A j \in 1 .. Len(t) : <<m + j - 1, t[j]>> \in N}
  BY <1>1 DEF t
<1> QED
  BY <1>2, <1>3 DEF Standing, t

-----------------------------------------------------------------------------
(* The lines of a parsed hunk that a side has.                             *)
Mapped(w) == [j \in DOMAIN w |-> Line(w[j].op, w[j].text)]

Advancing(side) == {l \in LineSet : Advances(l.lead, side)}

Sided(o, a) == [i \in 1 .. Len(o) |-> SideLine(a + i - 1, Line(o[i].op, o[i].text))]

LEMMA MappedAdd ==
  ASSUME NEW w \in Seq(BodyLine), NEW x \in BodyLine
  PROVE  Mapped(Add(w, x)) = Add(Mapped(w), Line(x.op, x.text))
BY DEF Mapped, Add

LEMMA MappedLine ==
  ASSUME NEW x \in BodyLine, NEW side \in BOOLEAN
  PROVE  /\ Line(x.op, x.text) \in LineSet
         /\ Line(x.op, x.text) \in Advancing(side) <=> x \in On(side)
<1>1. x.op \in Lead /\ x.text \in Value /\ x.op \in {" ", "+", "-"}
  BY ValueType DEF BodyLine, Lead
<1>2. Line(x.op, x.text) \in LineSet /\ Line(x.op, x.text).lead = x.op
  BY <1>1, LineType
<1> QED
  BY <1>2 DEF Advancing, Advances, On

LEMMA MappedType ==
  ASSUME NEW w \in Seq(BodyLine)
  PROVE  Mapped(w) \in Seq(LineSet) /\ DOMAIN Mapped(w) = 1 .. Len(w)
<1>1. ASSUME NEW j \in 1 .. Len(w)  PROVE Line(w[j].op, w[j].text) \in LineSet
  <2>1. w[j] \in BodyLine
    OBVIOUS
  <2> QED
    BY <2>1, MappedLine
<1>2. Mapped(w) = [j \in 1 .. Len(w) |-> Line(w[j].op, w[j].text)]
  BY DEF Mapped
<1> QED
  BY <1>1, <1>2

LEMMA MappedOnly ==
  ASSUME NEW w \in Seq(BodyLine), NEW side \in BOOLEAN
  PROVE  Only(Mapped(w), Advancing(side)) = Mapped(Only(w, On(side)))
<1> DEFINE A == Advancing(side)
           J == On(side)
           T == {v \in Seq(BodyLine) : Only(Mapped(v), A) = Mapped(Only(v, J))}
<1>1. <<>> \in T
  <2>1. Mapped(<<>>) = <<>>
    BY DEF Mapped
  <2>2. Only(<<>>, A) = <<>> /\ Only(<<>>, J) = <<>>
    BY OnlyEmpty
  <2> HIDE DEF A, J
  <2> QED
    BY <2>1, <2>2
<1>2. ASSUME NEW v \in Seq(BodyLine), NEW x \in BodyLine, v \in T  PROVE Add(v, x) \in T
  <2> DEFINE l == Line(x.op, x.text)
             m == Mapped(v)
             o == Only(v, J)
  <2>1. l \in LineSet /\ (l \in A <=> x \in J)
    BY MappedLine
  <2>2. m \in Seq(LineSet)
    BY MappedType
  <2>3. Mapped(Add(v, x)) = Add(m, l)
    BY MappedAdd
  <2>4. o \in Seq(BodyLine)
    <3> HIDE DEF J
    <3> QED
      BY OnlySeq
  <2>5. Mapped(Add(o, x)) = Add(Mapped(o), l)
    <3> HIDE DEF o
    <3> QED
      BY <2>4, MappedAdd
  <2>6. Only(m, A) = Mapped(o)
    BY <1>2
  <2>7. Add(v, x) \in Seq(BodyLine)
    BY AddType
  <2>8. Only(Add(v, x), J) = IF x \in J THEN Add(o, x) ELSE o
    <3> HIDE DEF J
    <3> QED
      BY OnlyAdd
  <2> HIDE DEF l, m, o, A, J
  <2>9. Only(Add(m, l), A) = IF l \in A THEN Add(Only(m, A), l) ELSE Only(m, A)
    BY <2>1, <2>2, OnlyAdd
  <2>10. Only(Mapped(Add(v, x)), A) = Mapped(Only(Add(v, x), J))
    <3>1. CASE x \in J
      BY <2>1, <2>3, <2>5, <2>6, <2>8, <2>9, <3>1
    <3>2. CASE x \notin J
      BY <2>1, <2>3, <2>6, <2>8, <2>9, <3>2
    <3> QED
      BY <3>1, <3>2
  <2> QED
    BY <2>7, <2>10
<1> HIDE DEF T
<1>3. w \in T
  BY <1>1, <1>2, SeqInduct
<1> QED
  BY <1>3 DEF T

LEMMA SideLinesAre ==
  ASSUME NEW f \in File, ~Lookalike(f), NEW side \in BOOLEAN, NEW k \in DOMAIN f.hunks
  PROVE  SideLines(ParsedHunk(f.hunks[k]), side)
         = Sided(Having(f.hunks, side)[k], Starts(f.hunks, side)[k])
<1> DEFINE hs == f.hunks
           h == hs[k]
           w == h.lines
           a == IF side THEN h.new ELSE h.old
           o == Only(w, On(side))
           b == HunkBody(h)
           g == ParsedHunk(h)
           has == Select(g.Lines, LAMBDA l : Advances(l.lead, side))
<1>1. h \in BodyHunk /\ Only(b, TextLines) = b /\ b = Mapped(w)
  BY PlainBody DEF Mapped
<1>2. w \in Seq(BodyLine)
  BY <1>1 DEF BodyHunk
<1>3. g = Hunk(h.old, h.new, b)
  BY <1>1 DEF ParsedHunk
<1>4. k \in 1 .. Len(hs)
  BY DEF File
<1>5. Having(hs, side)[k] = o /\ Starts(hs, side)[k] = a
  BY <1>4 DEF Having, Starts
<1>6. g.OldStart = h.old /\ g.NewStart = h.new /\ g.Lines = Mapped(w)
  BY <1>1, <1>3 DEF Hunk
<1>7. has = Mapped(o)
  <2> DEFINE m == Mapped(w)
             J == {l \in Range(m) : Advances(l.lead, side)}
  <2>1. m \in Seq(LineSet)
    <3> HIDE DEF w
    <3> QED
      BY <1>2, MappedType
  <2>2. has = Only(m, J)
    BY <1>6, Zenon DEF Select
  <2> HIDE DEF w, has
  <2>3. Only(m, Advancing(side)) = Mapped(o)
    BY <1>2, MappedOnly
  <2> HIDE DEF m, o
  <2>4. J = {l \in Range(m) : l \in Advancing(side)}
    <3>1. Range(m) \subseteq LineSet
      BY <2>1, RangeType
    <3> QED
      BY <3>1 DEF Advancing
  <2> HIDE DEF J
  <2>5. Only(m, J) = Only(m, Advancing(side))
    BY <2>1, <2>4, OnlyTest
  <2> QED
    BY <2>2, <2>3, <2>5
<1>8. SideLines(g, side) = [i \in DOMAIN has |-> SideLine((IF side THEN g.NewStart ELSE g.OldStart) + i - 1, has[i])]
  BY Zenon DEF SideLines
<1>9. o \in Seq(BodyLine)
  <2> HIDE DEF w
  <2> QED
    BY <1>2, OnlySeq
<1> HIDE DEF hs, h, w, o, b, g, has
<1>10. DOMAIN has = 1 .. Len(o) /\ \A i \in 1 .. Len(o) : has[i] = Line(o[i].op, o[i].text)
  <2>1. DOMAIN Mapped(o) = 1 .. Len(o)
    BY <1>9, MappedType
  <2>2. \A i \in 1 .. Len(o) : Mapped(o)[i] = Line(o[i].op, o[i].text)
    BY <2>1 DEF Mapped
  <2> QED
    BY <1>7, <2>1, <2>2
<1>11. (IF side THEN g.NewStart ELSE g.OldStart) = a
  BY <1>6
<1> HIDE DEF a
<1>12. SideLines(g, side) = Sided(o, a)
  BY <1>8, <1>10, <1>11 DEF Sided
<1> QED
  BY <1>5, <1>12 DEF g, h, hs

LEMMA MatchIs ==
  ASSUME NEW o \in Seq(BodyLine), NEW a \in Nat, NEW t \in Seq(Texts), Len(t) >= 1
  PROVE  /\ MatchConsecutive(Sided(o, a), t) = Runs(o, t)
         /\ \A i \in 1 .. Len(o) : Sided(o, a)[i].lineNum = a + i - 1
<1> DEFINE z == Sided(o, a)
           n == Len(o)
           m == Len(t)
<1>1. n \in Nat /\ m \in Nat /\ t # <<>> /\ DOMAIN t = 1 .. m
  OBVIOUS
<1>2. DOMAIN z = 1 .. n /\ \A i \in 1 .. n : z[i] = SideLine(a + i - 1, Line(o[i].op, o[i].text))
  BY DEF Sided
<1>3. Len(z) = n
  <2> HIDE DEF z
  <2> QED
    BY <1>1, <1>2
<1>4. ASSUME NEW i \in 1 .. n  PROVE z[i].lineNum = a + i - 1 /\ z[i].content = o[i].text
  BY <1>2 DEF SideLine, Line
<1>5. MatchConsecutive(z, t)
      = {i \in DOMAIN z : t # <<>> /\ i + m - 1 <= Len(z) /\ \A j \in DOMAIN t : z[i + j - 1].content = t[j]}
  BY DEF MatchConsecutive
<1>6. Runs(o, t) = {i \in 1 .. n : i \in 1 .. n /\ i + m - 1 <= n /\ \A j \in 1 .. m : o[i + j - 1].text = t[j]}
  BY DEF Runs, RunAt
<1> HIDE DEF z, n, m
<1>7. ASSUME NEW i \in 1 .. n, i + m - 1 <= n
      PROVE  \A j \in 1 .. m : z[i + j - 1].content = o[i + j - 1].text
  <2> SUFFICES ASSUME NEW j \in 1 .. m  PROVE z[i + j - 1].content = o[i + j - 1].text
    OBVIOUS
  <2> DEFINE p == i + j - 1
  <2>1. p \in 1 .. n
    BY <1>1, <1>7
  <2> HIDE DEF p
  <2>2. z[p].content = o[p].text
    BY <1>4, <2>1
  <2> QED
    BY <2>2 DEF p
<1> DEFINE M(i) == \A j \in DOMAIN t : z[i + j - 1].content = t[j]
           R(i) == \A j \in 1 .. m : o[i + j - 1].text = t[j]
<1>8. MatchConsecutive(z, t) = Runs(o, t)
  <2>1. ASSUME NEW i \in 1 .. n, i + m - 1 <= n  PROVE M(i) <=> R(i)
    <3>1. \A j \in 1 .. m : z[i + j - 1].content = o[i + j - 1].text
      BY <1>7, <2>1
    <3> QED
      BY <1>1, <3>1
  <2>2. MatchConsecutive(z, t) = {i \in 1 .. n : i + m - 1 <= n /\ M(i)}
    BY <1>1, <1>2, <1>3, <1>5
  <2>3. Runs(o, t) = {i \in 1 .. n : i + m - 1 <= n /\ R(i)}
    BY <1>6
  <2> HIDE DEF M, R
  <2> QED
    BY <2>1, <2>2, <2>3
<1> QED
  BY <1>4, <1>8 DEF z, n

-----------------------------------------------------------------------------
(* The line a finding gets from one side is the first that its evidence    *)
(* stands on.                                                              *)
LEMMA FromHunksIs ==
  ASSUME NEW f \in File, ~Lookalike(f), FileOK(f), NEW side \in BOOLEAN,
         NEW e, SplitAndNormalize(e) \in Seq(Texts), Len(SplitAndNormalize(e)) >= 1
  PROVE  ResolveFromHunks(ParsedHunks(f.hunks), e, side)
         = FirstRun(Len(f.hunks), Starts(f.hunks, side), Having(f.hunks, side), SplitAndNormalize(e))
<1> DEFINE hs == f.hunks
           n == Len(hs)
           s == Starts(hs, side)
           has == Having(hs, side)
           t == SplitAndNormalize(e)
           G == ParsedHunks(hs)
           Found(k) == MatchConsecutive(SideLines(G[k], side), t)
           hits == {k \in DOMAIN G : Found(k) # {}}
           hits2 == {k \in 1 .. n : Runs(has[k], t) # {}}
<1>1. hs \in Seq(BodyHunk) /\ Placed(hs)
  BY DEF File, FileOK
<1>2. n \in Nat /\ Spaced(n, s, has) /\ DOMAIN hs = 1 .. n
  <2> HIDE DEF hs
  <2> QED
    BY <1>1, HunksSpaced
<1>3. t \in Seq(Texts) /\ Len(t) >= 1
  OBVIOUS
<1>4. DOMAIN G = 1 .. n /\ \A k \in 1 .. n : G[k] = ParsedHunk(hs[k])
  BY <1>2 DEF ParsedHunks
<1>5. ASSUME NEW k \in 1 .. n  PROVE SideLines(G[k], side) = Sided(has[k], s[k])
  <2>1. k \in DOMAIN f.hunks
    BY <1>2
  <2>2. SideLines(ParsedHunk(f.hunks[k]), side) = Sided(Having(f.hunks, side)[k], Starts(f.hunks, side)[k])
    BY <2>1, SideLinesAre
  <2>3. G[k] = ParsedHunk(hs[k])
    BY <1>4
  <2> HIDE DEF G
  <2> QED
    BY <2>2, <2>3
<1>6. ResolveFromHunks(G, e, side)
      = {SideLines(G[k], side)[Min(Found(k))].lineNum : k \in {k \in hits : k = Min(hits)}}
  BY Zenon DEF ResolveFromHunks
<1>7. FirstRun(n, s, has, t) = {s[k] + Min(Runs(has[k], t)) - 1 : k \in {k \in hits2 : k = Min(hits2)}}
  BY Zenon DEF FirstRun
<1> HIDE DEF hs, n, s, has, t, G
<1>8. ASSUME NEW k \in 1 .. n
      PROVE  /\ Found(k) = Runs(has[k], t)
             /\ \A i \in 1 .. Len(has[k]) : SideLines(G[k], side)[i].lineNum = s[k] + i - 1
  <2> DEFINE o == has[k]
             a == s[k]
  <2>1. o \in Seq(BodyLine) /\ a \in Nat
    BY <1>2 DEF Spaced
  <2>2. SideLines(G[k], side) = Sided(o, a)
    BY <1>5
  <2> HIDE DEF o, a
  <2>3. /\ MatchConsecutive(Sided(o, a), t) = Runs(o, t)
        /\ \A i \in 1 .. Len(o) : Sided(o, a)[i].lineNum = a + i - 1
    BY <1>3, <2>1, MatchIs
  <2> QED
    BY <2>2, <2>3 DEF o, a
<1>9. hits = hits2
  <2> HIDE DEF Found
  <2> QED
    BY <1>4, <1>8
<1>10. ASSUME NEW k \in hits2
       PROVE  SideLines(G[k], side)[Min(Found(k))].lineNum = s[k] + Min(Runs(has[k], t)) - 1
  <2> DEFINE R == Runs(has[k], t)
             i == Min(R)
  <2>1. k \in 1 .. n /\ R # {}
    OBVIOUS
  <2>2. R \in SUBSET Nat /\ R \subseteq 1 .. Len(has[k])
    BY <1>2, <2>1 DEF Runs, Spaced
  <2>3. i \in R
    BY <2>1, <2>2, Least
  <2>4. i \in 1 .. Len(has[k])
    BY <2>2, <2>3
  <2>5. Found(k) = R
    BY <1>8, <2>1
  <2> HIDE DEF Found, R
  <2>6. Min(Found(k)) = i
    BY <2>5
  <2> HIDE DEF i
  <2>7. SideLines(G[k], side)[i].lineNum = s[k] + i - 1
    BY <1>8, <2>1, <2>4
  <2>8. SideLines(G[k], side)[Min(Found(k))].lineNum = s[k] + i - 1
    BY <2>6, <2>7
  <2> QED
    BY <2>8 DEF i, R
<1> DEFINE V(k) == SideLines(G[k], side)[Min(Found(k))].lineNum
           W(k) == s[k] + Min(Runs(has[k], t)) - 1
<1>11. \A k \in hits2 : V(k) = W(k)
  BY <1>10
<1>12. ResolveFromHunks(G, e, side) = {V(k) : k \in {k \in hits2 : k = Min(hits2)}}
  <2> HIDE DEF hits2, hits, Found
  <2> QED
    BY <1>6, <1>9
<1>13. FirstRun(n, s, has, t) = {W(k) : k \in {k \in hits2 : k = Min(hits2)}}
  <2> HIDE DEF hits2
  <2> QED
    BY <1>7
<1> HIDE DEF V, W, hits2
<1>14. ResolveFromHunks(G, e, side) = FirstRun(n, s, has, t)
  BY <1>11, <1>12, <1>13
<1> QED
  BY <1>14 DEF G, n, s, has, t, hs

(* Evidence of any length that says something; the property bounds it.     *)
AnyEvidence == {e \in Seq(Texts) : Said(e) # <<>>}

LEMMA EvidenceAny == Evidence \subseteq AnyEvidence
<1> SUFFICES ASSUME NEW e \in Evidence  PROVE e \in Seq(Texts) /\ Said(e) # <<>>
  BY DEF AnyEvidence
<1>1. e \in UNION {[1 .. m -> Texts] : m \in 0 .. 3} /\ Said(e) # <<>>
  BY DEF Evidence, BoundedSeq, SeqOf
<1>2. PICK m \in 0 .. 3 : e \in [1 .. m -> Texts]
  BY <1>1
<1> QED
  BY <1>1, <1>2

LEMMA EvidenceType ==
  ASSUME NEW e \in AnyEvidence
  PROVE  /\ Said(e) = SplitAndNormalize(e)
         /\ Said(e) \in Seq(Texts) /\ Len(Said(e)) >= 1 /\ DOMAIN Said(e) = 1 .. Len(Said(e))
<1>1. Said(e) # <<>> /\ e \in Seq(Texts)
  BY DEF AnyEvidence
<1>3. Said(e) = SplitAndNormalize(e)
  BY Zenon DEF Said, SplitAndNormalize
<1> DEFINE J == {t \in Range(e) : t # "blank"}
           kept == Only(e, J)
<1>4. Said(e) = IF Len(kept) > maxEvidence THEN SubSeq(kept, 1, maxEvidence) ELSE kept
  BY Zenon DEF Said, Select
<1> HIDE DEF J
<1>5. kept \in Seq(Texts) /\ maxEvidence \in Nat \ {0}
  BY <1>1, OnlySeq, DiffAssumption
<1> DEFINE t == Said(e)
<1> HIDE DEF kept
<1>6. t \in Seq(Texts) /\ t # <<>>
  <2>1. Len(kept) > maxEvidence => SubSeq(kept, 1, maxEvidence) \in Seq(Texts)
    BY <1>5
  <2> QED
    BY <1>1, <1>4, <1>5, <2>1
<1> HIDE DEF t
<1>7. Len(t) >= 1 /\ DOMAIN t = 1 .. Len(t)
  BY <1>6
<1> QED
  BY <1>3, <1>6, <1>7 DEF t

LEMMA ResolvedSide ==
  ASSUME NEW f \in File, ~Lookalike(f), FileOK(f), NEW side \in BOOLEAN, NEW e \in AnyEvidence
  PROVE  /\ StandsAt(f, side, e) \in SUBSET Nat
         /\ ResolveFromHunks(ParsedHunks(f.hunks), e, side)
            = IF StandsAt(f, side, e) = {} THEN {} ELSE {Min(StandsAt(f, side, e))}
<1> DEFINE hs == f.hunks
           n == Len(hs)
           s == Starts(hs, side)
           has == Having(hs, side)
           t == Said(e)
           stands == StandsAt(f, side, e)
           found == ResolveFromHunks(ParsedHunks(hs), e, side)
<1>1. /\ t = SplitAndNormalize(e) /\ t \in Seq(Texts) /\ Len(t) >= 1
      /\ DOMAIN t = 1 .. Len(t)
  BY EvidenceType
<1>2. hs \in Seq(BodyHunk) /\ Placed(hs)
  BY DEF File, FileOK
<1>3. n \in Nat /\ Spaced(n, s, has)
  <2> HIDE DEF hs
  <2> QED
    BY <1>2, HunksSpaced
<1>4. stands = Standing(n, s, has, t)
  BY <1>1, StandsIs
<1>5. found = FirstRun(n, s, has, t)
  BY <1>1, FromHunksIs
<1> HIDE DEF n, s, has, t, stands, found
<1>6. FirstRun(n, s, has, t) = IF Standing(n, s, has, t) = {} THEN {} ELSE {Min(Standing(n, s, has, t))}
  BY <1>1, <1>3, FirstRunIs
<1>7. found = IF stands = {} THEN {} ELSE {Min(stands)}
  BY <1>4, <1>5, <1>6
<1>8. ASSUME NEW m \in stands  PROVE m \in Nat
  <2>1. m \in Standing(n, s, has, t)
    BY <1>4
  <2>20. PICK k \in 1 .. n : \E i \in 1 .. Len(has[k]) : RunAt(has[k], t, i) /\ m = s[k] + i - 1
    BY <1>1, <1>3, <2>1, RunStays
  <2>2. PICK i \in 1 .. Len(has[k]) : m = s[k] + i - 1
    BY <2>20
  <2>3. s[k] \in Nat /\ Len(has[k]) \in Nat
    BY <1>3 DEF Spaced
  <2> QED
    BY <2>2, <2>3
<1>9. stands \in SUBSET Nat
  BY <1>8
<1> QED
  BY <1>7, <1>9 DEF stands, found, hs

-----------------------------------------------------------------------------
(* The path of a parsed file is its own.                                   *)
LEMMA OwnPath ==
  ASSUME NEW f \in File, HasHunks(f), ~Lookalike(f)
  PROVE  Path(ParsedFile(f)) = f.path
<1> DEFINE p == f.path
           o == OldHeader(f)
           n == NewHeader(f)
           c == ParsedFile(f)
<1>1. p \in Range(Names) /\ p # "" /\ p # "/dev/null"
  BY NamesApart DEF File
<1>2. c = Changed(o, n, IsBinary(f), ParsedHunks(f.hunks))
  BY PlainFile
<1>3. c.OldPath = o /\ c.NewPath = n
  BY <1>2 DEF Changed
<1>4. n = (IF f.kind = "deleted" THEN "/dev/null" ELSE p) /\ (f.kind = "deleted" => o = p)
  BY DEF OldHeader, NewHeader, OldName, NewName
<1> HIDE DEF p, o, n, c
<1>5. Path(c) = IF n \notin {"", "/dev/null"} THEN n ELSE o
  BY <1>3 DEF Path
<1>6. Path(c) = p
  BY <1>1, <1>4, <1>5
<1> QED
  BY <1>6 DEF p, c

NamedBy(fs, path) == {c \in Range(ParsedFiles(fs)) : Path(c) = path /\ path # ""}

(* ResolveLineNumbers finds the hunks of the file by its path.             *)
LEMMA KnownIs ==
  ASSUME NEW fs, FilesOK(fs), NEW i \in DOMAIN fs, HasHunks(fs[i]), ~Lookalike(fs[i]),
         NEW known, known = Only(ParsedFiles(fs), NamedBy(fs, fs[i].path))
  PROVE  known # <<>> /\ Last(known).Hunks = ParsedHunks(fs[i].hunks)
<1> DEFINE f == fs[i]
           g == ParsedFiles(fs)
           J == NamedBy(fs, f.path)
           a == ParsedFile(f)
<1>1. fs \in Seq(File) /\ f \in File /\ (\A k \in DOMAIN fs : fs[k].path = Names[k]) /\ Len(fs) <= Len(Names)
  BY DEF FilesOK
<1>2. DOMAIN g = DOMAIN fs /\ Len(g) = Len(fs) /\ \A k \in DOMAIN fs : g[k] = ParsedFile(fs[k]) /\ fs[k] \in File
  BY <1>1, ParsedFilesAre
<1>3. known = Only(g, J)
  OBVIOUS
<1>4. f.path \in Range(Names) /\ f.path # ""
  BY <1>1, NamesApart DEF File
<1>5. Path(a) = f.path
  BY <1>1, OwnPath
<1>6. DOMAIN fs = 1 .. Len(fs) /\ DOMAIN Names = 1 .. Len(Names) /\ Len(fs) \in Nat /\ Len(Names) \in Nat
  BY <1>1, NamesType
<1>7. g \in Seq(Range(g))
  <2>1. ParsedFiles(fs) = [k \in 1 .. Len(fs) |-> ParsedFile(fs[k])]
    BY <1>6 DEF ParsedFiles
  <2>2. \A k \in 1 .. Len(fs) : g[k] \in Range(g)
    BY <1>2, <1>6 DEF Range
  <2>3. g = [k \in 1 .. Len(fs) |-> g[k]]
    BY <2>1
  <2> HIDE DEF g
  <2> QED
    BY <1>6, <2>2, <2>3
<1>8. a \in Range(g) /\ a \in J
  <2>1. a = g[i] /\ i \in DOMAIN g
    BY <1>2
  <2> HIDE DEF g, a
  <2>2. a \in Range(g)
    BY <2>1 DEF Range
  <2> QED
    BY <1>4, <1>5, <2>2 DEF NamedBy, g
<1>9. ASSUME NEW c \in Range(g) \cap J  PROVE c = a
  <2>1. PICK k \in DOMAIN fs : c = ParsedFile(fs[k])
    BY <1>2 DEF Range
  <2>2. Path(c) = f.path
    BY DEF NamedBy
  <2>3. fs[k].path = f.path
    BY <1>2, <1>4, <2>1, <2>2, ParsedPath
  <2>4. Names[k] = Names[i] /\ k \in DOMAIN Names /\ i \in DOMAIN Names
    BY <1>1, <1>6, <2>3
  <2>5. k = i
    BY <2>4, NamesApart
  <2> QED
    BY <2>1, <2>5
<1> HIDE DEF J, g
<1>10. Range(known) = Range(g) \cap J
  BY <1>3, <1>7, OnlyRange
<1>11. known \in Seq(Range(g))
  BY <1>3, <1>7, OnlySeq
<1> HIDE DEF a
<1>12. a \in Range(known)
  BY <1>8, <1>10
<1>13. Len(known) >= 1 /\ DOMAIN known = 1 .. Len(known) /\ Len(known) \in Nat
  BY <1>11, <1>12 DEF Range
<1>14. Last(known) \in Range(known)
  BY <1>13 DEF Last, Range
<1>15. Last(known) = a
  BY <1>9, <1>10, <1>14
<1>16. a.Hunks = ParsedHunks(f.hunks)
  BY Parts DEF a, ParsedFile
<1>17. known # <<>>
  BY <1>13
<1> QED
  BY <1>15, <1>16, <1>17

LEMMA MinOne == ASSUME NEW x \in Nat  PROVE Min({x}) = x
<1>1. {x} \in SUBSET Nat /\ x \in {x} /\ \A y \in {x} : x <= y
  OBVIOUS
<1> QED
  BY <1>1, LeastIs

(* A finding gets the first line that its evidence stands on.              *)
FirstStands(changed, f, e, reported) ==
  LET new == StandsAt(f, TRUE, e)
      old == StandsAt(f, FALSE, e)
  IN  ResolveLine(changed, f.path, e, reported)
      = IF new # {} THEN Min(new) ELSE IF old # {} THEN Min(old) ELSE reported

LEMMA LineResolved ==
  ASSUME NEW fs, FilesOK(fs), NEW i \in DOMAIN fs, HasHunks(fs[i]), ~Lookalike(fs[i]), NEW e \in AnyEvidence,
         NEW reported
  PROVE  FirstStands(ParsedFiles(fs), fs[i], e, reported)
<1> DEFINE f == fs[i]
           known == Only(ParsedFiles(fs), NamedBy(fs, fs[i].path))
           new == StandsAt(f, Yes, e)
           old == StandsAt(f, No, e)
           foundNew == ResolveFromHunks(ParsedHunks(f.hunks), e, Yes)
           foundOld == ResolveFromHunks(ParsedHunks(f.hunks), e, No)
           r == ResolveLine(ParsedFiles(fs), fs[i].path, e, reported)
<1>1. f \in File /\ FileOK(f)
  BY DEF FilesOK
<1>2. known # <<>> /\ Last(known).Hunks = ParsedHunks(f.hunks)
  BY KnownIs
<1>3. Yes \in BOOLEAN /\ No \in BOOLEAN
  BY DEF Yes, No
<1>4. r = IF known = <<>> \/ ResolveFromHunks(Last(known).Hunks, e, Yes) \cup ResolveFromHunks(Last(known).Hunks, e, No) = {}
          THEN reported
          ELSE IF ResolveFromHunks(Last(known).Hunks, e, Yes) # {} THEN Min(ResolveFromHunks(Last(known).Hunks, e, Yes))
          ELSE Min(ResolveFromHunks(Last(known).Hunks, e, No))
  BY Zenon DEF ResolveLine, Select, NamedBy, Yes, No
<1> HIDE DEF known
<1>5. r = IF foundNew \cup foundOld = {} THEN reported
          ELSE IF foundNew # {} THEN Min(foundNew) ELSE Min(foundOld)
  BY <1>2, <1>4
<1>6. new \in SUBSET Nat /\ foundNew = IF new = {} THEN {} ELSE {Min(new)}
  BY <1>1, <1>3, ResolvedSide
<1>7. old \in SUBSET Nat /\ foundOld = IF old = {} THEN {} ELSE {Min(old)}
  BY <1>1, <1>3, ResolvedSide
<1> HIDE DEF new, old, foundNew, foundOld, r
<1>8. new # {} => Min(new) \in Nat /\ Min({Min(new)}) = Min(new)
  BY <1>6, Least, MinOne
<1>9. old # {} => Min(old) \in Nat /\ Min({Min(old)}) = Min(old)
  BY <1>7, Least, MinOne
<1>10. r = IF new # {} THEN Min(new) ELSE IF old # {} THEN Min(old) ELSE reported
  <2>1. CASE new # {}
    BY <1>5, <1>6, <1>8, <2>1
  <2>2. CASE new = {} /\ old # {}
    BY <1>5, <1>6, <1>7, <1>9, <2>2
  <2>3. CASE new = {} /\ old = {}
    BY <1>5, <1>6, <1>7, <2>3
  <2> QED
    BY <2>1, <2>2, <2>3
<1> QED
  BY <1>10, Zenon DEF FirstStands, new, old, r, f, Yes, No

LEMMA ResolvedInv == IInv => ResolvedLinesTrue
<1> SUFFICES ASSUME IInv, Parsed
             PROVE  \A i \in DOMAIN files : HasHunks(files[i]) /\ ~Lookalike(files[i]) =>
                      \A e \in Evidence : FirstStands(built.changed, files[i], e, 5 * MaxLines)
  BY Zenon DEF ResolvedLinesTrue, FirstStands
<1>1. built = BuiltOf(GitDiff) /\ files \in Seq(File) /\ FilesOK(files)
  BY ParsedIs
<1>2. built.changed = ParsedFiles(files)
  <2>1. built.changed = ParseUnifiedDiff(GitDiff)
    BY <1>1 DEF BuiltOf
  <2> QED
    BY <1>1, <2>1, GitDiffIs, ParseAll
<1>3. \A e \in Evidence : e \in AnyEvidence
  BY EvidenceAny
<1> QED
  BY <1>1, <1>2, <1>3, LineResolved, Zenon

(* Whatever changed, a finding whose evidence stands in the hunks of its   *)
(* file gets the first line it stands on, of the new text before the old,  *)
(* and keeps its line when it stands nowhere: ResolveLineNumbers of        *)
(* resolve.go, over all that ParseUnifiedDiff makes of git's diff.         *)
THEOREM DiffResolvedLinesTrue == Spec => []ResolvedLinesTrue
BY Invariant, ResolvedInv, PTL
=============================================================================
