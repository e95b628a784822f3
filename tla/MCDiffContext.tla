---------------------------- MODULE MCDiffContext ----------------------------
(* A bounded instance of DiffContext: three files, of which the first is a  *)
(* test, the second plain and the third vendored.                           *)
EXTENDS DiffContext

MCNames == <<"a_test.go", "b.go", "vendor/c.go">>

MCPriority == [p \in Range(MCNames) |->
                 CASE p = "a_test.go" -> 2 [] p = "b.go" -> 1 [] OTHER -> 3]
=============================================================================
