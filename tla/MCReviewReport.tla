--------------------------- MODULE MCReviewReport ---------------------------
(* A bounded instance of ReviewReport.  Of three files, places f and f + 3  *)
(* belong to file f, and the evidence of a finding at either stands at f.   *)
EXTENDS ReviewReport

F(s, p) == [severity |-> s, place |-> p]

(* Answers of any file's review: two places at two severities, one place   *)
(* twice, and places of another file, tied with what its own review found  *)
(* when the severity is "high" there and the unknown "critical" here.      *)
MCResponses ==
  {<<F("medium", 4), F("high", 1)>>, <<F("high", 1), F("critical", 1)>>,
   <<F("medium", 2), F("high", 2)>>, <<F("critical", 1)>>, <<F("medium", 6)>>}

MCHome(p) == IF p > NFiles THEN p - NFiles ELSE p
=============================================================================
