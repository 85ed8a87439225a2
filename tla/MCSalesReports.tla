--------------------------- MODULE MCSalesReports ---------------------------
(* A small instance of SalesReports: two companies, and invoices of today  *)
(* and of next month.                                                      *)
EXTENDS SalesReports, TLC

CONSTANTS s1, s2, e1, e2, e3, w1

(* The other address of the instance is e3 in capitals.                    *)
MCNormal         == [e \in Emails |-> IF e \in {e1, e2} THEN e ELSE e3]
MCSeededEmail    == [s \in {s1, s2} |-> IF s = s1 THEN e1 ELSE e2]
MCSeededPassword == [s \in {s1, s2} |-> w1]

MCScenarios ==
  {{"register", "login"},
   {"create_customer", "update_customer", "delete_customer", "update_tenant"},
   {"reports"}}

(* the days of the month, from 1 *)
MCContents ==
  {[subtotal |-> 100, tax |-> 19, total |-> 119, date |-> 15],
   [subtotal |-> 1000, tax |-> 190, total |-> 1190, date |-> 40]}

MCPeriods == {<<1, 15>>}

(* Two companies are alike together with their addresses.                  *)
Swapped == [m \in {s1, s2, e1, e2} |->
  CASE m = s1 -> s2 [] m = s2 -> s1 [] m = e1 -> e2 [] m = e2 -> e1]
Symmetry == Permutations(Calls) \cup Permutations(Invoices) \cup {Swapped}
=============================================================================
