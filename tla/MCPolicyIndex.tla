--------------------------- MODULE MCPolicyIndex ---------------------------
(* Two files and three policies: R imports D, which imports V.  The policy *)
(* D can move from one file to the other, and f can stop importing it.     *)
EXTENDS PolicyIndex

MCKind == [m \in Module |-> CASE m = "R" -> "resource"
                              [] m = "D" -> "derived_roles"
                              [] OTHER -> "export"]

Entry(m, ds) == [id |-> m, deps |-> ds, state |-> "ok"]
Disabled(m) == [Entry(m, {}) EXCEPT !.state = "disabled"]
Invalid(m) == [Entry(m, {}) EXCEPT !.state = "invalid"]
Broken(m) == [Entry(m, {}) EXCEPT !.state = "broken"]
Empty(m) == [Entry(m, {}) EXCEPT !.state = "empty"]

MCContents == [f \in File |->
    {Entry("R", {"D"}), Entry("D", {"V"}), Entry("D", {}), Entry("V", {}), Disabled("R"),
     Invalid("R"), Broken("R"), Empty("R")}]

DisabledContents == [f \in File |-> {Entry("R", {}), Disabled("R")}]
=============================================================================
