--------------------------- MODULE MCQueryHandler ---------------------------
(* Instances of QueryHandler, DmlHandler and V1Handler for TLC.            *)
EXTENDS QueryHandler

CONSTANTS r1, r2

(* Both requests carry the same identifier.                                *)
MCId == [r \in Requests |-> "id"]

MCErrorStatus == [invalid |-> 400, fault |-> 500]

MCConfs ==
  {[persist |-> TRUE, receipt |-> FALSE, file |-> FALSE, recovery |-> FALSE, simulation |-> FALSE, unique |-> TRUE],
   [persist |-> TRUE, receipt |-> FALSE, file |-> FALSE, recovery |-> TRUE, simulation |-> FALSE, unique |-> FALSE],
   [persist |-> FALSE, receipt |-> TRUE, file |-> TRUE, recovery |-> FALSE, simulation |-> FALSE, unique |-> FALSE],
   [persist |-> FALSE, receipt |-> FALSE, file |-> FALSE, recovery |-> TRUE, simulation |-> TRUE, unique |-> FALSE],
   Parameters}

MCPreControl == <<"notExists">>
MCDml == <<"write", "exists", "write">>
MCFinalize == <<"write">>

Setting(c, s, t) == [cache |-> c, since |-> s, paged |-> t = "paginate", translator |-> t]
MCSettings == {Setting(FALSE, FALSE, "paginate"), Setting(FALSE, FALSE, "all"),
               Setting(TRUE, FALSE, "paginate"), Setting(TRUE, TRUE, "single")}

(* Two of the three arguments have the same text.                          *)
MCFormat == [ab |-> "one", a_b |-> "one", c |-> "two"]

(* The first row, sorted; a row behind the last, last one first; a page that *)
(* ends before the first row.                                               *)
FirstRow == [start |-> 0, end |-> 1, sort |-> TRUE, dsc |-> FALSE]
Behind == [start |-> 3, end |-> 4, sort |-> FALSE, dsc |-> TRUE]
Before == [start |-> -2, end |-> -1, sort |-> FALSE, dsc |-> FALSE]
Input(args, page) == [args |-> args, page |-> page]

(* The requests have the same arguments, arguments of the same text, or      *)
(* others.                                                                  *)
MCInputs ==
  LET first == Input("ab", FirstRow)
  IN  [r \in Requests |-> IF r = r1 THEN {first, Input("a_b", Behind), Input("c", Before)} ELSE {first}]

(* Two rows, then none.                                                    *)
MCRowCount == [t \in 0 .. 1 |-> IF t = 0 THEN 2 ELSE 0]
=============================================================================
