----------------------------- MODULE ToolDetail -----------------------------
(* The detail of a tool call (messages/tool-detail.ts): what is known of it *)
(* from its input, and what its result adds. Texts are reduced to whether   *)
(* they are there.                                                          *)

\* The SDK's tools that have a detail of their own.
DetailOf ==
    [Bash |-> "bash", Read |-> "read", FileRead |-> "read", Edit |-> "edit", FileEdit |-> "edit",
     Write |-> "write", FileWrite |-> "write", Grep |-> "grep", Glob |-> "glob", Agent |-> "agent",
     WebFetch |-> "web_fetch", WebSearch |-> "web_search", TaskCreate |-> "task_create",
     TaskUpdate |-> "task_update", TaskStop |-> "task_stop", AskUserQuestion |-> "ask_user",
     ScheduleWakeup |-> "schedule_wakeup", Monitor |-> "monitor"]

DetailTypes == {DetailOf[name] : name \in DOMAIN DetailOf} \cup {"unknown"}

\* A call: its tool, whether its input is as the tool's schema has it, and
\* whether it is to run in the background.
Calls == [name : DOMAIN DetailOf \cup {"other"}, valid : BOOLEAN, background : BOOLEAN]

\* toolCallDetail. `id` is what is read out of the result: the id of a task,
\* or the user's answers.
Details == [type : DetailTypes, background : BOOLEAN, output : BOOLEAN, id : BOOLEAN]

Unknown == [type |-> "unknown", background |-> FALSE, output |-> FALSE, id |-> FALSE]

\* buildDetailFromInput.
BuildDetail(call) ==
    IF call.valid /\ call.name \in DOMAIN DetailOf
    THEN [Unknown EXCEPT !.type = DetailOf[call.name],
                         !.background = (call.name = "Bash" /\ call.background)]
    ELSE Unknown

\* The details that show their result's text.
ShowsOutput ==
    {"bash", "monitor", "read", "grep", "glob", "agent", "web_fetch", "web_search", "unknown"}

\* Its result names a background task.
Spawns(detail) == detail.type = "monitor" \/ (detail.type = "bash" /\ detail.background)

\* attachOutputToDetail. A text that does not parse takes a task's id away
\* again, but not a created task's or an answer.
AttachOutput(detail, parsable) ==
    [detail EXCEPT
        !.output = @ \/ detail.type \in ShowsOutput,
        !.id = \/ parsable /\ (Spawns(detail) \/ detail.type \in {"task_create", "ask_user"})
               \/ @ /\ ~Spawns(detail)]

=============================================================================
