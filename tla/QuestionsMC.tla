---------------------------- MODULE QuestionsMC ----------------------------
(* A question, a permission and two user rows.                             *)
EXTENDS Questions, TLC

CONSTANTS q1, p1, r1, r2

MCQuestions == {q1}
MCPermissions == {p1}
MCRows == {r1, r2}
MCSays == {"submit", "chat", "stop"}
=============================================================================
