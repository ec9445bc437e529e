--------------------------------- MODULE MCIntake ---------------------------------
(* Small instances of Intake for TLC.                                      *)
EXTENDS Intake

AsExpected == [f \in Field |-> "first"]
Time(n)    == [rank |-> n, parses |-> TRUE, absent |-> FALSE]
Text(n)    == [rank |-> n, parses |-> FALSE, absent |-> FALSE]

Plain(n) == [name |-> "key", stamp |-> Time(n), addressed |-> TRUE, sent |-> AsExpected]

Stamped(s)     == [Plain(1) EXCEPT !.stamp = s]
Sent(n, f, as) == [Plain(n) EXCEPT !.sent[f] = as]

(* Sound, undated, keyless and unaddressed rows; in a CRM export also rows *)
(* whose stamp is a text that sorts before or after every time.            *)
Files == {Plain(1), Plain(2), Stamped(NoStamp),
          [Plain(1) EXCEPT !.name = "none"], [Plain(2) EXCEPT !.addressed = FALSE]}
Texts == {Stamped(Text(0)), Stamped(Text(LastStamp + 1))}

(* Tickets: every way of sending a required, an optional and the time      *)
(* field, every shape of the status, an assignee that cannot be read, and  *)
(* every way of naming the issue, one deviation at a time.                 *)
Tickets == {Plain(1), Plain(2),
            [Plain(1) EXCEPT !.sent = [f \in Field |-> "alias"]],
            Sent(1, "summary", "moved"), Sent(2, "summary", "null"),
            Sent(1, "summary", "half"), Sent(1, "due", "moved"), Sent(1, "due", "half"),
            Sent(1, "status", "reshaped"), Sent(1, "status", "opaque"),
            Sent(2, "assignee", "opaque"),
            Sent(2, "updated", "moved"), Sent(2, "updated", "half"),
            [Plain(1) EXCEPT !.name = "alias"], [Plain(2) EXCEPT !.name = "id"]}

(* The second row need only be there: it moves the watermark, comes late,  *)
(* goes unseen or is refused.                                              *)
MCFeed(k, i) ==
  CASE k \in {"calendar", "email"} /\ i = 1 -> Files
    [] k = "crm_import" /\ i = 1            -> Files \union Texts
    [] k = "tickets" /\ i = 1               -> Tickets
    [] k = "tickets" /\ i # 1               -> {Plain(1), Plain(2), Sent(1, "summary", "moved")}
    [] k # "tickets" /\ i # 1               -> {Plain(1), Plain(2), Stamped(NoStamp)}

=============================================================================
